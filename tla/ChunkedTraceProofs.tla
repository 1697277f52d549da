-------------------------- MODULE ChunkedTraceProofs --------------------------
(***************************************************************************)
(* Theorems about ChunkedTrace, for any sizes, threshold, flush interval   *)
(* and number of events.                                                   *)
(***************************************************************************)
EXTENDS ChunkedTrace, FiniteSetTheorems, WellFoundedInduction, TLAPS

-----------------------------------------------------------------------------
(* Reading chunk after chunk.                                              *)

\* Induction, for a set of numbers instead of a predicate.
LEMMA SetInduction ==
    ASSUME NEW S, 0 \in S, \A n \in Nat : n \in S => n + 1 \in S
    PROVE  \A n \in Nat : n \in S
<1> DEFINE T == Nat \ S
<1> SUFFICES ASSUME T # {} PROVE FALSE
  OBVIOUS
<1>1. PICK x \in T : \A y \in T : ~(<<y, x>> \in OpToRel(<, Nat))
  BY NatLessThanWellFounded, WFMin, Zenon
<1>2. \A y \in T : ~(y < x)
  BY <1>1, Zenon DEF OpToRel
<1>3. x # 0 /\ x - 1 \in Nat /\ x - 1 \notin T
  BY <1>2
<1> QED
  BY <1>3

\* f lists what the first elements of s amount to.
Flattens(f, s) ==
    f = [i \in 1 .. Len(s) |-> IF i = 1 THEN s[i] ELSE f[i - 1] \o s[i]]

LEMMA FlattensExists ==
    ASSUME NEW X, NEW s \in Seq(Seq(X))
    PROVE  \E f : Flattens(f, s)
<1> DEFINE Upto(f, m) == \A i \in 1 .. m : f[i] = IF i = 1 THEN s[i] ELSE f[i - 1] \o s[i]
           Good(m) == \E f \in [1 .. m -> Seq(X)] : Upto(f, m)
           S == {m \in Nat : m <= Len(s) => Good(m)}
<1>0. Len(s) \in Nat /\ \A i \in 1 .. Len(s) : s[i] \in Seq(X)
  OBVIOUS
<1>1. Good(0)
  <2>1. [i \in 1 .. 0 |-> <<>>] \in [1 .. 0 -> Seq(X)] /\ Upto([i \in 1 .. 0 |-> <<>>], 0)
    OBVIOUS
  <2> QED
    BY <2>1, Zenon
<1>2. ASSUME NEW m \in Nat, m + 1 <= Len(s), Good(m) PROVE Good(m + 1)
  <2>1. PICK f \in [1 .. m -> Seq(X)] : Upto(f, m)
    BY <1>2, Zenon
  <2> DEFINE new == IF m = 0 THEN s[1] ELSE f[m] \o s[m + 1]
             g == [i \in 1 .. m + 1 |-> IF i = m + 1 THEN new ELSE f[i]]
  <2>2. new \in Seq(X)
    <3>1. CASE m = 0
      BY <1>0, <1>2, <3>1
    <3>2. CASE m # 0
      <4>1. m \in 1 .. m /\ f[m] \in Seq(X) /\ s[m + 1] \in Seq(X)
        BY <1>0, <1>2, <3>2
      <4>2. f[m] \o s[m + 1] \in Seq(X)
        BY <4>1
      <4> QED
        BY <3>2, <4>2, Zenon
    <3> QED
      BY <3>1, <3>2, Zenon
  <2> HIDE DEF new
  <2>3. g \in [1 .. m + 1 -> Seq(X)]
    BY <2>2
  <2>4. ASSUME NEW i \in 1 .. m + 1 PROVE g[i] = IF i = 1 THEN s[i] ELSE g[i - 1] \o s[i]
    <3>1. CASE i = m + 1
      <4>1. g[i] = new
        BY <3>1, Zenon
      <4>2. i # 1 => i - 1 \in 1 .. m + 1 /\ i - 1 # m + 1 /\ i - 1 = m /\ m # 0
        BY <3>1
      <4>3. i # 1 => g[i - 1] = f[m]
        BY <4>2, Zenon
      <4> QED
        BY <3>1, <4>1, <4>2, <4>3 DEF new
    <3>2. CASE i # m + 1
      <4>1. i \in 1 .. m /\ g[i] = f[i] /\ (i # 1 => g[i - 1] = f[i - 1])
        BY <3>2
      <4> QED
        BY <2>1, <4>1, Zenon
    <3> QED
      BY <3>1, <3>2, Zenon
  <2> QED
    BY <2>3, <2>4, Zenon
<1> HIDE DEF Good
<1>3. \A m \in Nat : m \in S
  <2>1. 0 \in S
    BY <1>1, Zenon
  <2>2. \A m \in Nat : m \in S => m + 1 \in S
    BY <1>0, <1>2
  <2> HIDE DEF S
  <2> QED
    BY <2>1, <2>2, SetInduction, Zenon
<1>4. PICK f \in [1 .. Len(s) -> Seq(X)] : Upto(f, Len(s))
  <2>1. Good(Len(s))
    BY <1>0, <1>3
  <2> QED
    BY <2>1, Zenon DEF Good
<1>5. Flattens(f, s)
  BY <1>4, Zenon DEF Flattens
<1> QED
  BY <1>5, Zenon

LEMMA FlattenSeqIs ==
    ASSUME NEW X, NEW s \in Seq(Seq(X))
    PROVE  IF Len(s) = 0 THEN FlattenSeq(s) = <<>>
           ELSE \E f : Flattens(f, s) /\ FlattenSeq(s) = f[Len(s)]
<1>1. CASE Len(s) = 0
  BY <1>1 DEF FlattenSeq
<1>2. CASE Len(s) # 0
  <2> DEFINE f == CHOOSE f : Flattens(f, s)
  <2>1. Flattens(f, s)
    BY FlattensExists, Zenon
  <2>2. FlattenSeq(s) = f[Len(s)]
    BY <1>2, Zenon DEF FlattenSeq, Flattens
  <2> QED
    BY <1>2, <2>1, <2>2, Zenon
<1> QED
  BY <1>1, <1>2, Zenon

LEMMA FlattensType ==
    ASSUME NEW X, NEW s \in Seq(Seq(X)), NEW f, Flattens(f, s)
    PROVE  f \in [1 .. Len(s) -> Seq(X)]
<1> DEFINE S == {m \in Nat : m \in 1 .. Len(s) => f[m] \in Seq(X)}
<1>0. /\ Len(s) \in Nat /\ DOMAIN f = 1 .. Len(s)
      /\ \A i \in 1 .. Len(s) : s[i] \in Seq(X) /\ f[i] = IF i = 1 THEN s[i] ELSE f[i - 1] \o s[i]
  <2>1. DOMAIN f = 1 .. Len(s) /\ \A i \in 1 .. Len(s) : f[i] = IF i = 1 THEN s[i] ELSE f[i - 1] \o s[i]
    BY Zenon DEF Flattens
  <2>2. Len(s) \in Nat /\ \A i \in 1 .. Len(s) : s[i] \in Seq(X)
    OBVIOUS
  <2> QED
    BY <2>1, <2>2, Zenon
<1>1. 0 \in S
  BY <1>0
<1>2. ASSUME NEW m \in Nat, m \in S PROVE m + 1 \in S
  <2> SUFFICES ASSUME m + 1 \in 1 .. Len(s) PROVE f[m + 1] \in Seq(X)
    OBVIOUS
  <2>1. s[m + 1] \in Seq(X) /\ f[m + 1] = IF m = 0 THEN s[m + 1] ELSE f[m] \o s[m + 1]
    <3>1. m + 1 = 1 <=> m = 0
      OBVIOUS
    <3>2. (m + 1) - 1 = m
      OBVIOUS
    <3> QED
      BY <1>0, <3>1, <3>2, Zenon
  <2>2. CASE m = 0
    BY <2>1, <2>2, Zenon
  <2>3. CASE m # 0
    <3>1. f[m] \in Seq(X)
      BY <1>0, <1>2, <2>3
    <3>2. f[m] \o s[m + 1] \in Seq(X)
      BY <2>1, <3>1
    <3> QED
      BY <2>1, <2>3, <3>2, Zenon
  <2> QED
    BY <2>2, <2>3, Zenon
<1>3. \A m \in Nat : m \in S
  BY <1>1, <1>2, SetInduction, Zenon
<1>4. \A i \in 1 .. Len(s) : f[i] \in Seq(X)
  BY <1>0, <1>3
<1>5. f = [i \in 1 .. Len(s) |-> f[i]]
  BY <1>0, Zenon DEF Flattens
<1> QED
  BY <1>4, <1>5, Zenon

\* One more chunk adds its lines at the end.
LEMMA FlattenAppend ==
    ASSUME NEW X, NEW s \in Seq(Seq(X)), NEW x \in Seq(X)
    PROVE  /\ FlattenSeq(s) \in Seq(X)
           /\ FlattenSeq(Append(s, x)) = FlattenSeq(s) \o x
<1> DEFINE t == Append(s, x)
<1>0. /\ t \in Seq(Seq(X)) /\ Len(s) \in Nat /\ Len(t) = Len(s) + 1 /\ t[Len(s) + 1] = x
      /\ \A i \in 1 .. Len(s) : t[i] = s[i]
  OBVIOUS
<1> HIDE DEF t
<1>1. PICK g : Flattens(g, t) /\ FlattenSeq(t) = g[Len(t)]
  BY <1>0, FlattenSeqIs
<1>2. \A i \in 1 .. Len(s) + 1 : g[i] = IF i = 1 THEN t[i] ELSE g[i - 1] \o t[i]
  BY <1>0, <1>1, Zenon DEF Flattens
<1>3. CASE Len(s) = 0
  <2>1. FlattenSeq(s) = <<>>
    BY <1>3, FlattenSeqIs, Zenon
  <2>2. g[1] = x
    BY <1>0, <1>2, <1>3
  <2>3. <<>> \o x = x
    OBVIOUS
  <2> QED
    BY <1>0, <1>1, <1>3, <2>1, <2>2, <2>3 DEF t
<1>4. CASE Len(s) # 0
  <2>1. PICK f : Flattens(f, s) /\ FlattenSeq(s) = f[Len(s)]
    BY <1>4, FlattenSeqIs, Zenon
  <2>2. f \in [1 .. Len(s) -> Seq(X)]
    BY <2>1, FlattensType, Zenon
  <2>3. \A i \in 1 .. Len(s) : f[i] = IF i = 1 THEN s[i] ELSE f[i - 1] \o s[i]
    BY <2>1, Zenon DEF Flattens
  <2> DEFINE S == {m \in Nat : m \in 1 .. Len(s) => f[m] = g[m]}
  <2>4. 0 \in S
    BY <1>0
  <2>5. ASSUME NEW m \in Nat, m \in S PROVE m + 1 \in S
    <3> SUFFICES ASSUME m + 1 \in 1 .. Len(s) PROVE f[m + 1] = g[m + 1]
      OBVIOUS
    <3>1. (m + 1) - 1 = m /\ (m + 1 # 1 => m \in 1 .. Len(s)) /\ m + 1 \in 1 .. Len(s) + 1
      BY <1>0
    <3>2. m + 1 # 1 => f[m] = g[m]
      BY <2>5, <3>1, Zenon
    <3>3. f[m + 1] = IF m + 1 = 1 THEN s[m + 1] ELSE f[(m + 1) - 1] \o s[m + 1]
      BY <2>3, Zenon
    <3>4. g[m + 1] = IF m + 1 = 1 THEN t[m + 1] ELSE g[(m + 1) - 1] \o t[m + 1]
      BY <1>2, <3>1, Zenon
    <3>5. t[m + 1] = s[m + 1]
      BY <1>0, Zenon
    <3> QED
      BY <3>1, <3>2, <3>3, <3>4, <3>5, Zenon
  <2>6. \A m \in Nat : m \in S
    BY <2>4, <2>5, SetInduction, Zenon
  <2>7. f[Len(s)] = g[Len(s)]
    BY <1>0, <1>4, <2>6
  <2>8. g[Len(s) + 1] = g[Len(s)] \o x
    <3>1. /\ Len(s) + 1 \in 1 .. Len(s) + 1 /\ Len(s) + 1 # 1 /\ (Len(s) + 1) - 1 = Len(s)
      BY <1>0, <1>4
    <3>2. g[Len(s) + 1] = IF Len(s) + 1 = 1 THEN t[Len(s) + 1] ELSE g[(Len(s) + 1) - 1] \o t[Len(s) + 1]
      BY <1>2, <3>1, Zenon
    <3> QED
      BY <1>0, <3>1, <3>2, Zenon
  <2>9. FlattenSeq(s) \in Seq(X)
    <3>1. Len(s) \in 1 .. Len(s)
      BY <1>0, <1>4
    <3> QED
      BY <2>1, <2>2, <3>1, Zenon
  <2>10. FlattenSeq(t) = FlattenSeq(s) \o x
    <3>1. FlattenSeq(t) = g[Len(s) + 1]
      BY <1>0, <1>1, Zenon
    <3>2. FlattenSeq(s) = g[Len(s)]
      BY <2>1, <2>7, Zenon
    <3> QED
      BY <2>8, <3>1, <3>2, Zenon
  <2> QED
    BY <2>9, <2>10, Zenon DEF t
<1> QED
  BY <1>3, <1>4, Zenon

-----------------------------------------------------------------------------
(* Lines.                                                                  *)

Pieces == [id : Int, prev : Int]
Lines == Seq(Seq(Pieces))

AllParse(L) == \A i \in DOMAIN L : Parses(L[i])
Has(L, n) == \E i \in DOMAIN L : \E k \in DOMAIN L[i] : L[i][k].id = n

\* The first event of L follows the event numbered start.
ChainFrom(L, start) ==
    \A i \in DOMAIN L : L[i][1].prev = IF i = 1 THEN start ELSE L[i - 1][1].id
EndOf(L, start) == IF L = <<>> THEN start ELSE L[Len(L)][1].id

LEMMA ConcatFacts ==
    ASSUME NEW s \in Lines, NEW t \in Lines
    PROVE  /\ s \o t \in Lines
           /\ Len(s \o t) = Len(s) + Len(t)
           /\ \A i \in DOMAIN s : i \in DOMAIN (s \o t) /\ (s \o t)[i] = s[i]
           /\ \A i \in DOMAIN t : Len(s) + i \in DOMAIN (s \o t) /\ (s \o t)[Len(s) + i] = t[i]
           /\ \A i \in DOMAIN (s \o t) : i \in DOMAIN s \/ (i - Len(s) \in DOMAIN t /\ (s \o t)[i] = t[i - Len(s)])
BY DEF Lines

LEMMA ConcatParse ==
    ASSUME NEW s \in Lines, NEW t \in Lines
    PROVE  AllParse(s \o t) <=> AllParse(s) /\ AllParse(t)
<1> DEFINE c == s \o t
<1>1. /\ \A i \in DOMAIN s : i \in DOMAIN c /\ c[i] = s[i]
      /\ \A i \in DOMAIN t : Len(s) + i \in DOMAIN c /\ c[Len(s) + i] = t[i]
      /\ \A i \in DOMAIN c : i \in DOMAIN s \/ (i - Len(s) \in DOMAIN t /\ c[i] = t[i - Len(s)])
  BY ConcatFacts, Zenon
<1> HIDE DEF c
<1>2. AllParse(c) <=> AllParse(s) /\ AllParse(t)
  BY <1>1, Zenon DEF AllParse
<1> QED
  BY <1>2, Zenon DEF c

LEMMA ConcatHas ==
    ASSUME NEW s \in Lines, NEW t \in Lines, NEW n
    PROVE  Has(s \o t, n) <=> Has(s, n) \/ Has(t, n)
<1> DEFINE c == s \o t
<1>1. /\ \A i \in DOMAIN s : i \in DOMAIN c /\ c[i] = s[i]
      /\ \A i \in DOMAIN t : Len(s) + i \in DOMAIN c /\ c[Len(s) + i] = t[i]
      /\ \A i \in DOMAIN c : i \in DOMAIN s \/ (i - Len(s) \in DOMAIN t /\ c[i] = t[i - Len(s)])
  BY ConcatFacts, Zenon
<1> HIDE DEF c
<1>2. Has(c, n) => Has(s, n) \/ Has(t, n)
  <2> SUFFICES ASSUME NEW i \in DOMAIN c, NEW k \in DOMAIN c[i], c[i][k].id = n
               PROVE  Has(s, n) \/ Has(t, n)
    BY Zenon DEF Has
  <2>1. CASE i \in DOMAIN s
    <3>1. c[i] = s[i]
      BY <1>1, <2>1, Zenon
    <3> QED
      BY <2>1, <3>1, Zenon DEF Has
  <2>2. CASE i - Len(s) \in DOMAIN t /\ c[i] = t[i - Len(s)]
    BY <2>2, Zenon DEF Has
  <2> QED
    BY <1>1, <2>1, <2>2, Zenon
<1>3. Has(s, n) => Has(c, n)
  <2> SUFFICES ASSUME NEW i \in DOMAIN s, NEW k \in DOMAIN s[i], s[i][k].id = n PROVE Has(c, n)
    BY Zenon DEF Has
  <2>1. i \in DOMAIN c /\ c[i] = s[i]
    BY <1>1, Zenon
  <2> QED
    BY <2>1, Zenon DEF Has
<1>4. Has(t, n) => Has(c, n)
  <2> SUFFICES ASSUME NEW i \in DOMAIN t, NEW k \in DOMAIN t[i], t[i][k].id = n PROVE Has(c, n)
    BY Zenon DEF Has
  <2>1. Len(s) + i \in DOMAIN c /\ c[Len(s) + i] = t[i]
    BY <1>1, Zenon
  <2> QED
    BY <2>1, Zenon DEF Has
<1> QED
  BY <1>2, <1>3, <1>4, Zenon DEF c

LEMMA ConcatChain ==
    ASSUME NEW s \in Lines, NEW t \in Lines, NEW start,
           ChainFrom(s, start), ChainFrom(t, EndOf(s, start))
    PROVE  /\ ChainFrom(s \o t, start)
           /\ EndOf(s \o t, start) = EndOf(t, EndOf(s, start))
<1> DEFINE c == s \o t
<1>0. /\ Len(s) \in Nat /\ DOMAIN s = 1 .. Len(s) /\ (s = <<>> <=> Len(s) = 0)
      /\ Len(t) \in Nat /\ DOMAIN t = 1 .. Len(t) /\ (t = <<>> <=> Len(t) = 0)
  BY DEF Lines
<1>1. /\ c \in Lines /\ Len(c) = Len(s) + Len(t)
      /\ \A i \in DOMAIN s : c[i] = s[i]
      /\ \A i \in DOMAIN c : i \in DOMAIN s \/ (i - Len(s) \in DOMAIN t /\ c[i] = t[i - Len(s)])
  BY ConcatFacts, Zenon
<1> HIDE DEF c
<1>2. DOMAIN c = 1 .. Len(c) /\ (c = <<>> <=> Len(c) = 0)
  BY <1>1 DEF Lines
<1>3. ASSUME NEW i \in DOMAIN c
      PROVE  c[i][1].prev = IF i = 1 THEN start ELSE c[i - 1][1].id
  <2>1. CASE i \in DOMAIN s
    <3>1. i # 1 => i - 1 \in DOMAIN s
      BY <1>0, <2>1
    <3>2. s[i][1].prev = IF i = 1 THEN start ELSE s[i - 1][1].id
      BY <2>1, Zenon DEF ChainFrom
    <3> QED
      BY <1>1, <2>1, <3>1, <3>2, Zenon
  <2>2. CASE i \notin DOMAIN s
    <3> DEFINE j == i - Len(s)
    <3>1. j \in DOMAIN t /\ c[i] = t[j]
      BY <1>1, <2>2, Zenon
    <3>2. t[j][1].prev = IF j = 1 THEN EndOf(s, start) ELSE t[j - 1][1].id
      BY <3>1, Zenon DEF ChainFrom
    <3>3. CASE j = 1
      <4>1. i = Len(s) + 1
        BY <1>0, <1>2, <3>3
      <4>2. CASE s = <<>>
        <5>1. i = 1
          BY <1>0, <4>1, <4>2
        <5> QED
          BY <3>1, <3>2, <3>3, <4>2, <5>1, Zenon DEF EndOf
      <4>3. CASE s # <<>>
        <5>1. i # 1 /\ i - 1 = Len(s) /\ Len(s) \in DOMAIN s
          BY <1>0, <4>1, <4>3
        <5>2. c[i - 1] = s[Len(s)]
          BY <1>1, <5>1, Zenon
        <5> QED
          BY <3>1, <3>2, <3>3, <4>3, <5>1, <5>2, Zenon DEF EndOf
      <4> QED
        BY <4>2, <4>3, Zenon
    <3>4. CASE j # 1
      <4>1. i # 1 /\ i - 1 \in DOMAIN c /\ i - 1 \notin DOMAIN s /\ (i - 1) - Len(s) = j - 1
        BY <1>0, <1>2, <3>1, <3>4
      <4>2. c[i - 1] = t[j - 1]
        BY <1>1, <4>1, Zenon
      <4> QED
        BY <3>1, <3>2, <3>4, <4>1, <4>2, Zenon
    <3> QED
      BY <3>3, <3>4, Zenon
  <2> QED
    BY <2>1, <2>2, Zenon
<1>4. EndOf(c, start) = EndOf(t, EndOf(s, start))
  <2>1. CASE t = <<>>
    <3>1. Len(c) = Len(s) /\ (c = <<>> <=> s = <<>>) /\ (s # <<>> => Len(s) \in DOMAIN s)
      BY <1>0, <1>1, <1>2, <2>1
    <3>2. s # <<>> => c[Len(c)] = s[Len(s)]
      BY <1>1, <3>1, Zenon
    <3> QED
      BY <2>1, <3>1, <3>2, Zenon DEF EndOf
  <2>2. CASE t # <<>>
    <3>1. /\ c # <<>> /\ Len(c) \in DOMAIN c /\ Len(c) \notin DOMAIN s /\ Len(c) - Len(s) = Len(t)
      BY <1>0, <1>1, <1>2, <2>2
    <3>2. c[Len(c)] = t[Len(t)]
      BY <1>1, <3>1, Zenon
    <3> QED
      BY <2>2, <3>1, <3>2, Zenon DEF EndOf
  <2> QED
    BY <2>1, <2>2, Zenon
<1> QED
  BY <1>3, <1>4, Zenon DEF ChainFrom, c

-----------------------------------------------------------------------------
(* Chunks.                                                                 *)

Chunk == [lines : Lines, open : BOOLEAN, bytes : Nat, events : Nat]

TypeInv ==
    /\ {tip, total, offered, dropped} \subseteq Nat
    /\ cur \in Chunk /\ chunks \in Seq(Chunk)
    /\ cur.open => cur.lines # <<>>

\* l is L with p at the end of its last line.
Longer(L, l, p) ==
    /\ Len(l) = Len(L) /\ Len(L) > 0
    /\ \A i \in 1 .. Len(L) - 1 : l[i] = L[i]
    /\ l[Len(L)] = L[Len(L)] \o <<p>>

\* What a piece makes of a chunk.
LEMMA PutFacts ==
    ASSUME NEW c \in Chunk, c.open => c.lines # <<>>, NEW p \in Pieces, NEW nl \in BOOLEAN
    PROVE  /\ Put(c, p, nl) \in Chunk
           /\ Put(c, p, nl).lines # <<>>
           /\ Put(c, p, nl).open = ~nl
           /\ Put(c, p, nl).bytes = c.bytes /\ Put(c, p, nl).events = c.events
           /\ ~c.open => Put(c, p, nl).lines = c.lines \o <<<<p>>>>
           /\ c.open => Longer(c.lines, Put(c, p, nl).lines, p)
<1> DEFINE l == IF c.open THEN Front(c.lines) \o <<Last(c.lines) \o <<p>>>> ELSE c.lines \o <<<<p>>>>
<1>1. c.lines \in Lines /\ c.open \in BOOLEAN
  BY Zenon DEF Chunk
<1>2. <<p>> \in Seq(Pieces) /\ <<<<p>>>> \in Lines
  BY DEF Lines
<1>3. CASE ~c.open
  <2>1. l = c.lines \o <<<<p>>>>
    BY <1>3, Zenon
  <2> HIDE DEF l
  <2>2. l \in Lines /\ l # <<>>
    <3>1. ASSUME NEW S, NEW s \in Seq(S), NEW e \in S PROVE s \o <<e>> \in Seq(S) /\ s \o <<e>> # <<>>
      OBVIOUS
    <3>2. c.lines \in Seq(Seq(Pieces)) /\ <<p>> \in Seq(Pieces)
      BY <1>1, <1>2, Zenon DEF Lines
    <3>3. c.lines \o <<<<p>>>> \in Seq(Seq(Pieces)) /\ c.lines \o <<<<p>>>> # <<>>
      BY <3>1, <3>2, Zenon
    <3> QED
      BY <2>1, <3>3, Zenon DEF Lines
  <2>3. Put(c, p, nl) = [c EXCEPT !.lines = l, !.open = ~nl]
    BY Zenon DEF Put, l
  <2> QED
    BY <1>1, <1>3, <2>1, <2>2, <2>3, Zenon DEF Chunk
<1>4. CASE c.open
  <2> DEFINE n == Len(c.lines)
             last == c.lines[n] \o <<p>>
  <2>1. n \in Nat /\ n > 0 /\ c.lines[n] \in Seq(Pieces)
    BY <1>1, <1>4 DEF Lines
  <2>2. last \in Seq(Pieces)
    BY <1>2, <2>1
  <2>3. /\ Front(c.lines) \in Lines /\ Len(Front(c.lines)) = n - 1
        /\ \A i \in 1 .. n - 1 : Front(c.lines)[i] = c.lines[i]
    BY <1>1, <2>1 DEF Front, Lines
  <2>4. l = Front(c.lines) \o <<last>>
    BY <1>4, Zenon DEF Last
  <2> HIDE DEF last
  <2> DEFINE front == Front(c.lines)
  <2>5. front \in Lines /\ Len(front) = n - 1 /\ (\A i \in 1 .. n - 1 : front[i] = c.lines[i]) /\ l = front \o <<last>>
    BY <2>3, <2>4, Zenon
  <2> HIDE DEF front, l, n
  <2>6. /\ l \in Lines /\ l # <<>> /\ Len(l) = n /\ l[n] = last
        /\ \A i \in 1 .. n - 1 : l[i] = c.lines[i]
    BY <2>1, <2>2, <2>5 DEF Lines
  <2>7. Put(c, p, nl) = [c EXCEPT !.lines = l, !.open = ~nl]
    BY Zenon DEF Put, l
  <2>8. Put(c, p, nl) \in Chunk /\ Put(c, p, nl).lines = l /\ Put(c, p, nl).open = ~nl
        /\ Put(c, p, nl).bytes = c.bytes /\ Put(c, p, nl).events = c.events
    BY <2>6, <2>7, Zenon DEF Chunk
  <2> QED
    BY <1>4, <2>1, <2>6, <2>8, Zenon DEF last, n, Longer
<1> QED
  BY <1>1, <1>3, <1>4, Zenon

LEMMA PieceTypes ==
    ASSUME TypeInv
    PROVE  NextEvent \in Pieces /\ NextEvent # Frag /\ Frag \in Pieces /\ NextEvent.id = offered + 1
           /\ NextEvent.prev = tip
BY DEF TypeInv, NextEvent, Pieces, Frag

LEMMA TargetFacts ==
    ASSUME TypeInv, NEW size \in Sizes
    PROVE  /\ Target(size) \in Chunk
           /\ Target(size).open => Target(size).lines # <<>>
           /\ Stored(size) \in Seq(Chunk)
<1>1. NewChunk(0) \in Chunk /\ ~NewChunk(0).open
  BY DEF NewChunk, Chunk, Lines
<1>2. Append(chunks, cur) \in Seq(Chunk)
  BY DEF TypeInv
<1> QED
  BY <1>1, <1>2, Zenon DEF Target, Stored, TypeInv

LEMMA CountedFacts ==
    ASSUME NEW d \in Chunk, NEW size \in Nat
    PROVE  LET x == [d EXCEPT !.bytes = @ + size, !.events = @ + 1] IN
           /\ x \in Chunk /\ x.lines = d.lines /\ x.open = d.open
           /\ x.bytes = d.bytes + size /\ x.events = d.events + 1
<1>1. d.bytes \in Nat /\ d.events \in Nat
  BY Zenon DEF Chunk
<1> DEFINE b == d.bytes + size
           e == d.events + 1
<1>2. b \in Nat /\ e \in Nat
  BY <1>1
<1> HIDE DEF b, e
<1>3. ASSUME NEW x, x = [d EXCEPT !.bytes = b, !.events = e]
      PROVE  x \in Chunk /\ x.lines = d.lines /\ x.open = d.open /\ x.bytes = b /\ x.events = e
  BY <1>2, <1>3, Zenon DEF Chunk
<1> QED
  BY <1>3, Zenon DEF b, e

\* The chunk after an event that is written, and after one that is not.
LEMMA WrittenFacts ==
    ASSUME TypeInv, NEW size \in Sizes, Written(size)
    PROVE  LET c == Target(size)  d == Put(c, NextEvent, TRUE) IN
           /\ cur' \in Chunk /\ cur'.lines = d.lines /\ ~cur'.open
           /\ cur'.bytes = c.bytes + size /\ cur'.events = c.events + 1
<1> DEFINE c == Target(size)
           d == Put(c, NextEvent, TRUE)
<1>1. d \in Chunk /\ d.bytes = c.bytes /\ d.events = c.events /\ ~d.open
  BY TargetFacts, PutFacts, PieceTypes, Zenon
<1>2. cur' = [d EXCEPT !.bytes = @ + size, !.events = @ + 1]
  BY Zenon DEF Written
<1>3. size \in Nat
  BY TraceAssumption, Zenon
<1> HIDE DEF d, c
<1>4. /\ cur' \in Chunk /\ cur'.lines = d.lines /\ ~cur'.open
      /\ cur'.bytes = d.bytes + size /\ cur'.events = d.events + 1
  BY <1>1, <1>2, <1>3, CountedFacts, Zenon
<1> QED
  BY <1>1, <1>4, Zenon DEF c, d

LEMMA TornFacts ==
    ASSUME TypeInv, NEW c \in Chunk, c.open => c.lines # <<>>, NEW how \in Tears
    PROVE  LET d == Torn(how, c) IN
           /\ d \in Chunk /\ (d.open => d.lines # <<>>)
           /\ d.bytes = c.bytes /\ d.events = c.events
           /\ \/ d = c
              \/ \E p \in {Frag, NextEvent} : d = Put(c, p, FALSE) /\ (p = NextEvent => "line" \in Tears)
<1>1. how \in {"nothing", "part", "line"}
  BY TraceAssumption, Zenon
<1>2. CASE how = "nothing"
  BY <1>2, Zenon DEF Torn
<1>3. CASE how = "part"
  <2>1. Torn(how, c) = Put(c, Frag, FALSE)
    BY <1>3, Zenon DEF Torn
  <2>2. Frag \in Pieces /\ Frag # NextEvent
    BY PieceTypes, Zenon
  <2>3. /\ Put(c, Frag, FALSE) \in Chunk /\ Put(c, Frag, FALSE).lines # <<>>
        /\ Put(c, Frag, FALSE).bytes = c.bytes /\ Put(c, Frag, FALSE).events = c.events
    BY <2>2, PutFacts, Zenon
  <2> QED
    BY <2>1, <2>2, <2>3, Zenon
<1>4. CASE how = "line"
  <2>1. Torn(how, c) = Put(c, NextEvent, FALSE)
    BY <1>4, Zenon DEF Torn
  <2>2. NextEvent \in Pieces /\ "line" \in Tears
    BY <1>4, PieceTypes, Zenon
  <2>3. /\ Put(c, NextEvent, FALSE) \in Chunk /\ Put(c, NextEvent, FALSE).lines # <<>>
        /\ Put(c, NextEvent, FALSE).bytes = c.bytes /\ Put(c, NextEvent, FALSE).events = c.events
    BY <2>2, PutFacts, Zenon
  <2> QED
    BY <2>1, <2>2, <2>3, Zenon
<1> QED
  BY <1>1, <1>2, <1>3, <1>4, Zenon

LEMMA TypeStep == TypeInv /\ [Next]_vars => TypeInv'
<1> SUFFICES ASSUME TypeInv, [Next]_vars PROVE TypeInv'
  OBVIOUS
<1>1. ASSUME NEW size \in Sizes, NEW ok \in BOOLEAN, write_event(size, ok)
      PROVE  /\ {tip', total', offered'} \subseteq Nat
             /\ cur' \in Chunk /\ chunks' \in Seq(Chunk)
             /\ cur'.open => cur'.lines # <<>>
  <2>1. {tip, total, offered, offered + 1, total + 1} \subseteq Nat /\ offered' = offered + 1
    BY <1>1 DEF TypeInv, write_event
  <2>2. CASE Written(size)
    <3>1. cur' \in Chunk /\ ~cur'.open
      BY <2>2, WrittenFacts, Zenon
    <3>2. chunks' \in Seq(Chunk) /\ tip' = offered + 1 /\ total' = total + 1
      BY <2>2, TargetFacts, PieceTypes, Zenon DEF Written
    <3> QED
      BY <2>1, <3>1, <3>2, Zenon
  <2>3. CASE WriteFails(size)
    <3>1. PICK how \in Tears : cur' = Torn(how, Target(size))
      BY <2>3, Zenon DEF WriteFails
    <3>2. cur' \in Chunk /\ (cur'.open => cur'.lines # <<>>)
      BY <3>1, TornFacts, TargetFacts, Zenon
    <3>3. chunks' \in Seq(Chunk) /\ tip' = tip /\ total' = total
      BY <2>3, TargetFacts, Zenon DEF WriteFails
    <3> QED
      BY <2>1, <3>2, <3>3, Zenon
  <2>4. CASE RotationFails
    BY <2>1, <2>4, Zenon DEF RotationFails, TypeInv
  <2> QED
    BY <1>1, <2>2, <2>3, <2>4, Zenon DEF write_event
<1>2. ASSUME NEW size \in Sizes, NEW ok \in BOOLEAN, write_event(size, ok), dropped' \in {dropped, dropped + 1}
      PROVE  TypeInv'
  <2>1. dropped' \in Nat
    BY <1>2 DEF TypeInv
  <2> QED
    BY <1>1, <1>2, <2>1, Zenon DEF TypeInv
<1>3. CASE RunStart \/ RunEnd
  BY <1>2, <1>3, Zenon DEF RunStart, RunEnd
<1>4. CASE try_write
  <2>1. PICK size \in Sizes, ok \in BOOLEAN : write_event(size, ok) /\ dropped' = IF ok THEN dropped ELSE dropped + 1
    BY <1>4, Zenon DEF try_write
  <2> QED
    BY <1>2, <2>1, Zenon
<1>5. CASE finalize
  <2>1. Append(chunks, cur) \in Seq(Chunk)
    BY DEF TypeInv
  <2> QED
    BY <1>5, <2>1, Zenon DEF finalize, TypeInv
<1>6. CASE read_events_from_index \/ UNCHANGED vars
  BY <1>6, Zenon DEF read_events_from_index, vars, TypeInv
<1> QED
  BY <1>3, <1>4, <1>5, <1>6, Zenon DEF Next

LEMMA TypeInit == Init => TypeInv
BY TraceAssumption DEF Init, TypeInv, NewChunk, Chunk, Lines, Genesis

\* ChunkedEventWriter: a chunk exceeds the threshold only with a single event,
\* also when rotations fail and are tried again with the next event.
THEOREM ChunksWithinThresholdHolds == Spec => []ChunksWithinThreshold
<1> DEFINE Within(c) == c.events > 1 => c.bytes <= Threshold
           Inv == Within(cur) /\ \A i \in DOMAIN chunks : Within(chunks[i])
<1>1. Init => Inv
  BY DEF Init, NewChunk
<1>2. TypeInv /\ Inv /\ [Next]_vars => Inv'
  <2> SUFFICES ASSUME TypeInv, Inv, [Next]_vars PROVE Inv'
    OBVIOUS
  <2>0. ASSUME NEW s \in Seq(Chunk), NEW c \in Chunk, \A i \in DOMAIN s : Within(s[i]), Within(c)
        PROVE  \A i \in DOMAIN Append(s, c) : Within(Append(s, c)[i])
    <3> HIDE DEF Within
    <3> QED
      BY <2>0
  <2>1. ASSUME NEW size \in Sizes, NEW ok \in BOOLEAN, write_event(size, ok) PROVE Inv'
    <3>1. \A i \in DOMAIN Stored(size) : Within(Stored(size)[i])
      BY <2>0, Zenon DEF Stored, TypeInv
    <3>2. Target(size) \in Chunk /\ Within(Target(size))
      <4>1. Within(NewChunk(0))
        BY DEF NewChunk
      <4> QED
        BY <4>1, TargetFacts, Zenon DEF Target
    <3>3. CASE Written(size)
      <4>1. cur'.bytes = Target(size).bytes + size /\ cur'.events = Target(size).events + 1
        BY <3>3, WrittenFacts, Zenon
      <4>2. Target(size).events \in Nat /\ Target(size).bytes \in Nat /\ size \in Nat /\ Threshold \in Nat
        BY <3>2, TraceAssumption, Zenon DEF Chunk
      <4>3. Target(size).events > 0 => Target(size).bytes + size <= Threshold
        <5>1. CASE MustRotate(size)
          BY <5>1 DEF Target, NewChunk
        <5>2. CASE ~MustRotate(size)
          BY <4>2, <5>2 DEF Target, MustRotate
        <5> QED
          BY <5>1, <5>2, Zenon
      <4>4. Within(cur')
        BY <4>1, <4>2, <4>3
      <4>5. chunks' = Stored(size)
        BY <3>3, Zenon DEF Written
      <4> QED
        BY <3>1, <4>4, <4>5, Zenon
    <3>4. CASE WriteFails(size)
      <4>1. PICK how \in Tears : cur' = Torn(how, Target(size))
        BY <3>4, Zenon DEF WriteFails
      <4>2. cur'.bytes = Target(size).bytes /\ cur'.events = Target(size).events
        BY <4>1, TornFacts, TargetFacts, Zenon
      <4>3. chunks' = Stored(size)
        BY <3>4, Zenon DEF WriteFails
      <4> QED
        BY <3>1, <3>2, <4>2, <4>3, Zenon
    <3>5. CASE RotationFails
      BY <3>5, Zenon DEF RotationFails
    <3> QED
      BY <2>1, <3>3, <3>4, <3>5, Zenon DEF write_event
  <2>2. CASE finalize
    BY <2>0, <2>2, Zenon DEF finalize, TypeInv
  <2>3. CASE read_events_from_index \/ UNCHANGED vars
    BY <2>3, Zenon DEF read_events_from_index, vars
  <2> QED
    BY <2>1, <2>2, <2>3, Zenon DEF Next, RunStart, RunEnd, try_write
<1>3. Inv => ChunksWithinThreshold
  BY Zenon DEF ChunksWithinThreshold, Range
<1> QED
  BY <1>1, <1>2, <1>3, TypeInit, TypeStep, PTL DEF Spec

-----------------------------------------------------------------------------
(* The chain.                                                              *)

Flat(ch) == FlattenSeq([i \in DOMAIN ch |-> ch[i].lines])

\* Of the stored chunks ch and the current chunk c: as long as every line parses,
\* the events form a chain that ends in tp, and the counts are right.  A line left
\* open does not parse, whatever is written behind it.
Sound(ch, c, tp, n) ==
    /\ c.open => Last(c.lines) # <<>> /\ ~Parses(Last(c.lines))
    /\ AllParse(c.lines) => c.events = Len(c.lines)
    /\ AllParse(Flat(ch)) => \A i \in DOMAIN ch : ch[i].events = Len(ch[i].lines)
    /\ AllParse(Flat(ch)) /\ AllParse(c.lines) =>
          /\ ChainFrom(Flat(ch), Genesis)
          /\ ChainFrom(c.lines, EndOf(Flat(ch), Genesis))
          /\ tp = EndOf(c.lines, EndOf(Flat(ch), Genesis))
          /\ n = Len(Flat(ch)) + Len(c.lines)

LEMMA FlatFacts ==
    ASSUME NEW ch \in Seq(Chunk), NEW c \in Chunk
    PROVE  /\ Flat(ch) \in Lines
           /\ Flat(Append(ch, c)) = Flat(ch) \o c.lines
<1> DEFINE f == [i \in DOMAIN ch |-> ch[i].lines]
<1>1. f \in Seq(Seq(Seq(Pieces))) /\ c.lines \in Seq(Seq(Pieces))
  <2>1. \A d \in Chunk : d.lines \in Lines
    BY Zenon DEF Chunk
  <2>2. DOMAIN ch = 1 .. Len(ch) /\ Len(ch) \in Nat /\ \A i \in 1 .. Len(ch) : ch[i] \in Chunk
    OBVIOUS
  <2>3. ASSUME NEW S, NEW n \in Nat, NEW g \in [1 .. n -> S] PROVE g \in Seq(S)
    BY <2>3
  <2>4. f \in [1 .. Len(ch) -> Lines]
    BY <2>1, <2>2, Zenon
  <2> QED
    BY <2>1, <2>2, <2>3, <2>4, Zenon DEF Lines
<1>2. [i \in DOMAIN Append(ch, c) |-> Append(ch, c)[i].lines] = Append(f, c.lines)
  OBVIOUS
<1> HIDE DEF f
<1>3. FlattenSeq(f) \in Seq(Seq(Pieces)) /\ FlattenSeq(Append(f, c.lines)) = FlattenSeq(f) \o c.lines
  BY <1>1, FlattenAppend, Zenon
<1> QED
  BY <1>2, <1>3, Zenon DEF Flat, f, Lines

LEMMA EmptyChunk ==
    /\ NewChunk(0) \in Chunk /\ ~NewChunk(0).open /\ NewChunk(0).lines = <<>> /\ NewChunk(0).events = 0
    /\ <<>> \in Lines /\ Len(<<>>) = 0 /\ AllParse(<<>>)
    /\ \A s : ChainFrom(<<>>, s) /\ EndOf(<<>>, s) = s
    /\ \A n : ~Has(<<>>, n)
BY DEF NewChunk, Chunk, Lines, AllParse, ChainFrom, EndOf, Has

LEMMA SoundRotate ==
    ASSUME NEW ch \in Seq(Chunk), NEW c \in Chunk, NEW tp, NEW n, Sound(ch, c, tp, n)
    PROVE  Sound(Append(ch, c), NewChunk(0), tp, n)
<1> DEFINE a == Flat(ch)
           l == c.lines
<1>1. a \in Lines /\ l \in Lines /\ Flat(Append(ch, c)) = a \o l
  BY FlatFacts, Zenon DEF Chunk
<1>2. AllParse(a \o l) <=> AllParse(a) /\ AllParse(l)
  BY <1>1, ConcatParse, Zenon
<1>3. ASSUME AllParse(a), AllParse(l)
      PROVE  \A i \in DOMAIN Append(ch, c) : Append(ch, c)[i].events = Len(Append(ch, c)[i].lines)
  <2>1. c.events = Len(c.lines) /\ \A i \in DOMAIN ch : ch[i].events = Len(ch[i].lines)
    BY <1>3, Zenon DEF Sound
  <2>2. \A i \in DOMAIN Append(ch, c) : Append(ch, c)[i] = c \/ (i \in DOMAIN ch /\ Append(ch, c)[i] = ch[i])
    OBVIOUS
  <2> QED
    BY <2>1, <2>2, Zenon
<1>4. ASSUME AllParse(a), AllParse(l)
      PROVE  /\ ChainFrom(a \o l, Genesis) /\ tp = EndOf(a \o l, Genesis) /\ n = Len(a \o l) + Len(<<>>)
  <2>1. /\ ChainFrom(a, Genesis) /\ ChainFrom(l, EndOf(a, Genesis)) /\ tp = EndOf(l, EndOf(a, Genesis))
        /\ n = Len(a) + Len(l)
    BY <1>4, Zenon DEF Sound
  <2>2. Len(a \o l) + Len(<<>>) = Len(a) + Len(l)
    <3>1. Len(a) \in Nat /\ Len(l) \in Nat
      BY <1>1 DEF Lines
    <3>2. Len(a \o l) = Len(a) + Len(l)
      BY <1>1, ConcatFacts, Zenon
    <3> QED
      BY <3>1, <3>2
  <2> QED
    BY <1>1, <2>1, <2>2, ConcatChain, Zenon
<1> HIDE DEF a, l
<1> QED
  BY <1>1, <1>2, <1>3, <1>4, EmptyChunk, Zenon DEF Sound

\* What follows an open line makes it longer.
LEMMA OpenLine ==
    ASSUME NEW c \in Chunk, c.open, c.lines # <<>>, Last(c.lines) # <<>>, NEW p \in Pieces, NEW nl \in BOOLEAN
    PROVE  LET l == Put(c, p, nl).lines IN
           Last(l) # <<>> /\ ~Parses(Last(l)) /\ ~AllParse(l)
<1> DEFINE l == Put(c, p, nl).lines
           n == Len(c.lines)
           b == c.lines[n]
<1>1. l \in Lines /\ Len(l) = n /\ n > 0 /\ l[n] = b \o <<p>>
  <2>1. Put(c, p, nl) \in Chunk
    BY PutFacts, Zenon
  <2>2. l \in Lines
    BY <2>1, Zenon DEF Chunk
  <2>3. /\ Len(Put(c, p, nl).lines) = Len(c.lines) /\ Len(c.lines) > 0
        /\ Put(c, p, nl).lines[Len(c.lines)] = c.lines[Len(c.lines)] \o <<p>>
    <3>1. Longer(c.lines, Put(c, p, nl).lines, p)
      BY PutFacts, Zenon
    <3> QED
      BY <3>1, Zenon DEF Longer
  <2> QED
    BY <2>2, <2>3, Zenon
<1>2. b \in Seq(Pieces) /\ b # <<>>
  <2>1. c.lines \in Seq(Seq(Pieces)) /\ n \in DOMAIN c.lines
    BY DEF Chunk, Lines
  <2>2. b \in Seq(Pieces)
    BY <2>1
  <2> QED
    BY <2>2, Zenon DEF Last
<1> HIDE DEF l, b
<1>3. Last(l) = b \o <<p>> /\ n \in DOMAIN l
  BY <1>1 DEF Last, Lines
<1>4. Len(b \o <<p>>) # 1 /\ b \o <<p>> # <<>>
  BY <1>2
<1> QED
  BY <1>1, <1>3, <1>4, Zenon DEF Parses, AllParse, l

LEMMA NewLine ==
    ASSUME NEW p \in Pieces
    PROVE  /\ <<<<p>>>> \in Lines /\ Len(<<<<p>>>>) = 1 /\ DOMAIN <<<<p>>>> = {1} /\ <<<<p>>>>[1] = <<p>>
           /\ \A s : p.prev = s => ChainFrom(<<<<p>>>>, s)
           /\ \A s : EndOf(<<<<p>>>>, s) = p.id
<1>1. /\ <<<<p>>>> \in Lines /\ Len(<<<<p>>>>) = 1 /\ DOMAIN <<<<p>>>> = {1} /\ <<<<p>>>>[1] = <<p>>
      /\ <<<<p>>>> # <<>> /\ <<p>>[1] = p
  BY DEF Lines
<1> QED
  BY <1>1, Zenon DEF ChainFrom, EndOf

LEMMA SoundWrite ==
    ASSUME NEW ch \in Seq(Chunk), NEW c \in Chunk, c.open => c.lines # <<>>, NEW tp, NEW n \in Nat,
           Sound(ch, c, tp, n), NEW p \in Pieces, p.prev = tp,
           NEW d \in Chunk, d.lines = Put(c, p, TRUE).lines, ~d.open, d.events = c.events + 1
    PROVE  Sound(ch, d, p.id, n + 1)
<1>1. CASE c.open
  <2>1. ~AllParse(d.lines)
    BY <1>1, OpenLine, Zenon DEF Sound
  <2> QED
    BY <2>1, Zenon DEF Sound
<1>2. CASE ~c.open
  <2> DEFINE a == Flat(ch)
             l == c.lines
             q == <<<<p>>>>
  <2>1. d.lines = l \o q
    BY <1>2, PutFacts, Zenon
  <2>2. a \in Lines /\ l \in Lines /\ q \in Lines /\ Len(q) = 1
    BY FlatFacts, NewLine, Zenon DEF Chunk
  <2> HIDE DEF q
  <2>3. AllParse(d.lines) => AllParse(l)
    <3>1. l \in Lines /\ q \in Lines
      BY <2>2, Zenon
    <3>2. AllParse(l \o q) <=> AllParse(l) /\ AllParse(q)
      BY <3>1, ConcatParse, Zenon
    <3> QED
      BY <2>1, <3>2, Zenon
  <2>4. Len(d.lines) = Len(l) + 1 /\ Len(l) \in Nat /\ Len(a) \in Nat
    <3>1. Len(l \o q) = Len(l) + Len(q)
      BY <2>2, ConcatFacts, Zenon
    <3>2. Len(l) \in Nat /\ Len(a) \in Nat
      BY <2>2 DEF Lines
    <3> QED
      BY <2>1, <2>2, <3>1, <3>2, Zenon
  <2>5. ASSUME AllParse(a), AllParse(d.lines)
        PROVE  /\ ChainFrom(a, Genesis) /\ ChainFrom(d.lines, EndOf(a, Genesis))
               /\ p.id = EndOf(d.lines, EndOf(a, Genesis))
               /\ n + 1 = Len(a) + Len(d.lines)
    <3>1. /\ ChainFrom(a, Genesis) /\ ChainFrom(l, EndOf(a, Genesis)) /\ tp = EndOf(l, EndOf(a, Genesis))
          /\ n = Len(a) + Len(l)
      BY <2>3, <2>5, Zenon DEF Sound
    <3>2. n + 1 = Len(a) + Len(d.lines)
      <4>1. \A i, j \in Nat : (i + j) + 1 = i + (j + 1)
        OBVIOUS
      <4> QED
        BY <2>4, <3>1, <4>1, Zenon
    <3> DEFINE s == EndOf(a, Genesis)
    <3>3. ChainFrom(q, EndOf(l, s)) /\ EndOf(q, EndOf(l, s)) = p.id
      BY <3>1, NewLine, Zenon DEF q
    <3>4. ChainFrom(l \o q, s) /\ EndOf(l \o q, s) = EndOf(q, EndOf(l, s))
      <4>1. l \in Lines /\ q \in Lines /\ ChainFrom(l, s) /\ ChainFrom(q, EndOf(l, s))
        BY <2>2, <3>1, <3>3, Zenon
      <4> HIDE DEF l, s
      <4> QED
        BY <4>1, ConcatChain, Zenon
    <3> QED
      BY <2>1, <3>1, <3>2, <3>3, <3>4, Zenon
  <2>6. AllParse(d.lines) => d.events = Len(d.lines)
    BY <2>3, <2>4, Zenon DEF Sound
  <2> QED
    BY <2>5, <2>6, Zenon DEF Sound
<1> QED
  BY <1>1, <1>2, Zenon

LEMMA SoundTear ==
    ASSUME NEW ch \in Seq(Chunk), NEW c \in Chunk, c.open => c.lines # <<>>, NEW tp, NEW n,
           Sound(ch, c, tp, n)
    PROVE  Sound(ch, Put(c, Frag, FALSE), tp, n)
<1> DEFINE d == Put(c, Frag, FALSE)
<1>0. Frag \in Pieces
  BY DEF Frag, Pieces
<1>1. Last(d.lines) # <<>> /\ ~Parses(Last(d.lines)) /\ ~AllParse(d.lines)
  <2>1. CASE c.open
    BY <1>0, <2>1, OpenLine, Zenon DEF Sound
  <2>2. CASE ~c.open
    <3>1. d.lines = c.lines \o <<<<Frag>>>>
      BY <1>0, <2>2, PutFacts, Zenon
    <3>2. c.lines \in Seq(Seq(Pieces)) /\ <<Frag>> \in Seq(Pieces) /\ <<Frag>> # <<>> /\ <<Frag>>[1] = Frag
      BY <1>0 DEF Chunk, Lines
    <3>3. ASSUME NEW S, NEW s \in Seq(S), NEW e \in S
          PROVE  Len(s \o <<e>>) \in DOMAIN (s \o <<e>>) /\ (s \o <<e>>)[Len(s \o <<e>>)] = e
      OBVIOUS
    <3> DEFINE f == <<Frag>>
               l == c.lines
    <3> HIDE DEF f, l
    <3>4. Len(l \o <<f>>) \in DOMAIN (l \o <<f>>) /\ (l \o <<f>>)[Len(l \o <<f>>)] = f
      <4>1. l \in Seq(Seq(Pieces)) /\ f \in Seq(Pieces)
        BY <3>2, Zenon DEF f, l
      <4> QED
        BY <3>3, <4>1, Zenon
    <3>5. Len(d.lines) \in DOMAIN d.lines /\ d.lines[Len(d.lines)] = <<Frag>>
      BY <3>1, <3>4, Zenon DEF f, l
    <3> QED
      BY <3>2, <3>5, Zenon DEF Last, Parses, AllParse
  <2> QED
    BY <2>1, <2>2, Zenon
<1> HIDE DEF d
<1> QED
  BY <1>1, Zenon DEF Sound, d

Writing == phase \in {"start", "trace", "finalize"}
Stopped == phase \in {"readback", "done"}

ChainInv ==
    /\ Writing => Sound(chunks, cur, tip, total)
    /\ Stopped => Sound(chunks, NewChunk(0), tip, total)
    /\ phase = "done" => AllParse(Flat(chunks))

LEMMA SoundTarget ==
    ASSUME TypeInv, Sound(chunks, cur, tip, total), NEW size \in Sizes
    PROVE  Sound(Stored(size), Target(size), tip, total)
<1>1. Sound(Append(chunks, cur), NewChunk(0), tip, total)
  BY SoundRotate, Zenon DEF TypeInv
<1> QED
  BY <1>1, Zenon DEF Stored, Target

LEMMA SoundWriteEvent ==
    ASSUME "line" \notin Tears, TypeInv, Sound(chunks, cur, tip, total),
           NEW size \in Sizes, NEW ok \in BOOLEAN, write_event(size, ok)
    PROVE  Sound(chunks', cur', tip', total')
<1> DEFINE c == Target(size)
           ch == Stored(size)
<1>1. Sound(ch, c, tip, total) /\ c \in Chunk /\ (c.open => c.lines # <<>>) /\ ch \in Seq(Chunk)
  BY SoundTarget, TargetFacts, Zenon
<1> HIDE DEF c, ch
<1>2. CASE Written(size)
  <2>1. /\ cur' \in Chunk /\ cur'.lines = Put(c, NextEvent, TRUE).lines /\ ~cur'.open
        /\ cur'.events = c.events + 1
    BY <1>2, WrittenFacts, Zenon DEF c
  <2>2. chunks' = ch /\ total' = total + 1 /\ tip' = NextEvent.id
    BY <1>2, Zenon DEF Written, ch
  <2>3. NextEvent \in Pieces /\ NextEvent.prev = tip /\ total \in Nat
    <3>1. total \in Nat
      BY Zenon DEF TypeInv
    <3> QED
      BY <3>1, PieceTypes, Zenon
  <2>4. Sound(ch, cur', NextEvent.id, total + 1)
    BY <1>1, <2>1, <2>3, SoundWrite, Zenon
  <2> QED
    BY <2>2, <2>4, Zenon
<1>3. CASE WriteFails(size)
  <2>1. PICK how \in Tears : cur' = Torn(how, c)
    BY <1>3, Zenon DEF WriteFails, c
  <2>2. chunks' = ch /\ tip' = tip /\ total' = total
    BY <1>3, Zenon DEF WriteFails, ch
  <2>3. cur' = c \/ cur' = Put(c, Frag, FALSE)
    BY <1>1, <2>1, TornFacts, Zenon
  <2>4. Sound(ch, cur', tip, total)
    BY <1>1, <2>3, SoundTear, Zenon
  <2> QED
    BY <2>2, <2>4, Zenon
<1>4. CASE RotationFails
  BY <1>4, Zenon DEF RotationFails
<1> QED
  BY <1>2, <1>3, <1>4, Zenon DEF write_event

LEMMA ReadableParse == Readable <=> AllParse(Flat(chunks))
BY Zenon DEF Readable, AllParse, AllLines, Flat

LEMMA ChainStep ==
    ASSUME "line" \notin Tears
    PROVE  TypeInv /\ ChainInv /\ [Next]_vars => ChainInv'
<1> SUFFICES ASSUME TypeInv, ChainInv, [Next]_vars PROVE ChainInv'
  OBVIOUS
<1> USE DEF Writing, Stopped
<1>1. CASE RunStart \/ try_write \/ RunEnd
  <2>1. PICK size \in Sizes, ok \in BOOLEAN : write_event(size, ok)
    BY <1>1, Zenon DEF RunStart, try_write, RunEnd
  <2>2. Writing /\ (Writing' \/ phase' = "failed")
    BY <1>1, Zenon DEF RunStart, try_write, RunEnd
  <2>3. Sound(chunks', cur', tip', total')
    BY <2>1, <2>2, SoundWriteEvent, Zenon DEF ChainInv
  <2> QED
    BY <2>2, <2>3, Zenon DEF ChainInv
<1>2. CASE finalize
  <2>1. UNCHANGED <<tip, total>> /\ (phase' = "failed" \/ (phase' = "readback" /\ chunks' = Append(chunks, cur)))
    BY <1>2, Zenon DEF finalize
  <2>2. Sound(chunks, cur, tip, total)
    BY <1>2, Zenon DEF finalize, ChainInv
  <2>3. Sound(Append(chunks, cur), NewChunk(0), tip, total)
    BY <2>2, SoundRotate, Zenon DEF TypeInv
  <2> QED
    BY <2>1, <2>3, Zenon DEF ChainInv
<1>3. CASE read_events_from_index
  <2>1. phase = "readback" /\ (phase' = "failed" \/ (phase' = "done" /\ AllParse(Flat(chunks))))
    BY <1>3, ReadableParse, Zenon DEF read_events_from_index
  <2>2. UNCHANGED <<tip, total, chunks, cur>>
    BY <1>3, Zenon DEF read_events_from_index
  <2> QED
    BY <2>1, <2>2, Zenon DEF ChainInv
<1>4. CASE UNCHANGED vars
  BY <1>4, Zenon DEF vars, ChainInv
<1> QED
  BY <1>1, <1>2, <1>3, <1>4, Zenon DEF Next

LEMMA FlatEmpty == Flat(<<>>) = <<>>
<1>1. [i \in DOMAIN <<>> |-> <<>>[i].lines] = <<>>
  OBVIOUS
<1> QED
  BY <1>1, Zenon DEF Flat, FlattenSeq

\* write_event, rotate, finalize and read_events_from_index: the trace of a run
\* that completes verifies whatever writes, rotations and flushes failed, as long
\* as no failed write leaves a whole event without its newline.
THEOREM CompletedVerifiesHolds ==
    ASSUME "line" \notin Tears
    PROVE  Spec => []CompletedVerifies
<1>1. Init => ChainInv
  <2> SUFFICES ASSUME Init PROVE ChainInv
    OBVIOUS
  <2>1. /\ phase = "start" /\ chunks = <<>> /\ cur.lines = <<>> /\ ~cur.open /\ cur.events = 0
        /\ tip = Genesis /\ total = 0
    BY Zenon DEF Init, NewChunk
  <2>2. Sound(chunks, cur, tip, total)
    <3>1. 0 = Len(<<>>) + Len(<<>>)
      OBVIOUS
    <3> QED
      BY <2>1, <3>1, FlatEmpty, EmptyChunk DEF Sound
  <2> QED
    BY <2>1, <2>2, Zenon DEF ChainInv, Writing, Stopped
<1>2. TypeInv /\ ChainInv => CompletedVerifies
  <2> SUFFICES ASSUME TypeInv, ChainInv, phase = "done"
               PROVE  /\ ChainVerifies
                      /\ total = Len(ReadEvents)
                      /\ \A i \in DOMAIN chunks : chunks[i].events = Len(chunks[i].lines)
    BY Zenon DEF CompletedVerifies
  <2> DEFINE a == Flat(chunks)
  <2>1. AllParse(a) /\ a = AllLines
    BY Zenon DEF ChainInv, Flat, AllLines
  <2>2. a \in Lines
    BY FlatFacts, Zenon DEF TypeInv
  <2> HIDE DEF a
  <2>3. Sound(chunks, NewChunk(0), tip, total)
    BY Zenon DEF ChainInv, Stopped
  <2>4. \A i \in DOMAIN chunks : chunks[i].events = Len(chunks[i].lines)
    BY <2>1, <2>3, Zenon DEF Sound, a
  <2>5. ChainFrom(a, Genesis) /\ tip = EndOf(a, Genesis) /\ total = Len(a) + 0
    BY <2>1, <2>3, EmptyChunk, Zenon DEF Sound, a
  <2>6. Len(a) \in Nat /\ DOMAIN a = 1 .. Len(a) /\ (a = <<>> <=> Len(a) = 0)
    BY <2>2 DEF Lines
  <2>7. /\ DOMAIN ReadEvents = DOMAIN a /\ Len(ReadEvents) = Len(a)
        /\ \A i \in DOMAIN a : ReadEvents[i] = a[i][1]
    <3>1. ReadEvents = [i \in 1 .. Len(a) |-> a[i][1]]
      BY <2>1, <2>6, Zenon DEF ReadEvents
    <3>2. ASSUME NEW n \in Nat, NEW f, f = [i \in 1 .. n |-> a[i][1]] PROVE DOMAIN f = 1 .. n /\ Len(f) = n
      BY <3>2
    <3> QED
      BY <2>6, <3>1, <3>2, Zenon
  <2>8. total = Len(ReadEvents)
    BY <2>5, <2>6, <2>7
  <2>9. ASSUME NEW i \in DOMAIN ReadEvents
        PROVE  ReadEvents[i].prev = IF i = 1 THEN Genesis ELSE ReadEvents[i - 1].id
    <3>1. i # 1 => i - 1 \in DOMAIN a
      BY <2>6, <2>7
    <3> QED
      BY <2>5, <2>7, <3>1, Zenon DEF ChainFrom
  <2>10. ReadEvents # <<>> => Last(ReadEvents).id = tip
    <3> SUFFICES ASSUME ReadEvents # <<>> PROVE Last(ReadEvents).id = tip
      OBVIOUS
    <3>1. a # <<>> /\ Len(a) \in DOMAIN a
      <4>1. ReadEvents = [i \in DOMAIN a |-> a[i][1]]
        BY <2>1, Zenon DEF ReadEvents
      <4> QED
        BY <2>6, <4>1
    <3> QED
      BY <2>5, <2>7, <3>1, Zenon DEF Last, EndOf
  <2> QED
    BY <2>4, <2>8, <2>9, <2>10, Zenon DEF ChainVerifies
<1> QED
  BY <1>1, <1>2, TypeInit, TypeStep, ChainStep, PTL DEF Spec

-----------------------------------------------------------------------------
(* No event is lost silently.  No write removes an event from the file, so  *)
(* the events that are nowhere are those of the failed writes of the trace. *)

\* Event n is in the trace: in a stored chunk or in the current one.
Kept(ch, c, n) == Has(Flat(ch), n) \/ Has(c.lines, n)

Lost(k, ch, c) == {n \in 1 .. k : ~Kept(ch, c, n)}

LostInv ==
    /\ Writing => Cardinality(Lost(offered, chunks, cur)) <= dropped
    /\ Stopped => Cardinality(Lost(offered, chunks, NewChunk(0))) <= dropped
    /\ phase = "done" => AllParse(Flat(chunks))

LEMMA PutHas ==
    ASSUME NEW c \in Chunk, c.open => c.lines # <<>>, NEW p \in Pieces, NEW nl \in BOOLEAN, NEW n,
           Has(c.lines, n) \/ n = p.id
    PROVE  Has(Put(c, p, nl).lines, n)
<1> DEFINE l == Put(c, p, nl).lines
<1>0. c.lines \in Lines
  BY Zenon DEF Chunk
<1>1. CASE ~c.open
  <2>1. <<<<p>>>> \in Lines /\ Has(<<<<p>>>>, p.id)
    BY NewLine DEF Has
  <2>2. l = c.lines \o <<<<p>>>>
    BY <1>1, PutFacts, Zenon
  <2>3. Has(c.lines, n) \/ Has(<<<<p>>>>, n)
    BY <2>1, Zenon
  <2> HIDE DEF l
  <2>4. Has(c.lines \o <<<<p>>>>, n)
    BY <1>0, <2>1, <2>3, ConcatHas, Zenon
  <2> QED
    BY <2>2, <2>4, Zenon DEF l
<1>2. CASE c.open
  <2> DEFINE L == c.lines
             m == Len(L)
             b == L[m]
             e == b \o <<p>>
  <2>1. Longer(L, l, p) /\ l \in Lines
    <3>1. Put(c, p, nl) \in Chunk /\ Longer(L, l, p)
      BY <1>2, PutFacts, Zenon
    <3> QED
      BY <3>1, Zenon DEF Chunk
  <2> HIDE DEF l, L
  <2>2. m \in Nat /\ m > 0 /\ DOMAIN L = 1 .. m /\ DOMAIN l = 1 .. m /\ b \in Seq(Pieces)
    BY <1>0, <2>1 DEF Lines, L, Longer
  <2>3. /\ \A i \in 1 .. m - 1 : l[i] = L[i]
        /\ l[m] = e
    BY <2>1, Zenon DEF Longer
  <2> HIDE DEF m, b
  <2>4. /\ \A k \in DOMAIN b : k \in DOMAIN e /\ e[k] = b[k]
        /\ Len(b) + 1 \in DOMAIN e /\ e[Len(b) + 1] = p
    BY <2>2
  <2> HIDE DEF e
  <2>5. m \in DOMAIN l /\ l[m] = e
    BY <2>2, <2>3
  <2>6. CASE n = p.id
    BY <2>4, <2>5, <2>6, Zenon DEF Has, l
  <2>7. CASE Has(L, n)
    <3>1. PICK i \in DOMAIN L : \E k \in DOMAIN L[i] : L[i][k].id = n
      BY <2>7, Zenon DEF Has
    <3>2. CASE i = m
      <4>1. \E k \in DOMAIN e : e[k].id = n
        BY <2>4, <3>1, <3>2, Zenon DEF b
      <4> QED
        BY <2>5, <4>1, Zenon DEF Has, l
    <3>3. CASE i # m
      <4>1. i \in 1 .. m - 1 /\ i \in DOMAIN l
        BY <2>2, <3>3
      <4>2. l[i] = L[i]
        BY <4>1, <2>3, Zenon
      <4> QED
        BY <3>1, <4>1, <4>2, Zenon DEF Has, l
    <3> QED
      BY <3>2, <3>3, Zenon
  <2> QED
    BY <2>6, <2>7, Zenon DEF L, l
<1> QED
  BY <1>1, <1>2, Zenon

LEMMA RotateKeeps ==
    ASSUME NEW ch \in Seq(Chunk), NEW c \in Chunk, NEW n
    PROVE  Kept(Append(ch, c), NewChunk(0), n) <=> Kept(ch, c, n)
<1>1. Flat(ch) \in Lines /\ Flat(Append(ch, c)) = Flat(ch) \o c.lines
  BY FlatFacts, Zenon
<1>2. c.lines \in Lines
  BY Zenon DEF Chunk
<1>3. Has(Flat(ch) \o c.lines, n) <=> Has(Flat(ch), n) \/ Has(c.lines, n)
  BY <1>1, <1>2, ConcatHas, Zenon
<1>4. ~Has(NewChunk(0).lines, n)
  BY EmptyChunk, Zenon
<1> QED
  BY <1>1, <1>3, <1>4, Zenon DEF Kept

\* write_event keeps every event that is in the trace, and adds its own when it
\* succeeds.
LEMMA WriteKeeps ==
    ASSUME TypeInv, NEW size \in Sizes, NEW ok \in BOOLEAN, write_event(size, ok)
    PROVE  /\ \A n : Kept(chunks, cur, n) => Kept(chunks', cur', n)
           /\ ok => Kept(chunks', cur', offered + 1)
<1> DEFINE c == Target(size)
           ch == Stored(size)
<1>1. c \in Chunk /\ (c.open => c.lines # <<>>) /\ ch \in Seq(Chunk)
  BY TargetFacts, Zenon
<1>2. ASSUME NEW n, Kept(chunks, cur, n) PROVE Kept(ch, c, n)
  <2>1. Kept(Append(chunks, cur), NewChunk(0), n)
    BY <1>2, RotateKeeps, Zenon DEF TypeInv
  <2> QED
    BY <1>2, <2>1, Zenon DEF Stored, Target
<1>3. NextEvent \in Pieces /\ Frag \in Pieces /\ NextEvent.id = offered + 1
  BY PieceTypes, Zenon
<1>4. CASE Written(size)
  <2>1. cur'.lines = Put(c, NextEvent, TRUE).lines
    BY <1>4, WrittenFacts, Zenon
  <2>2. chunks' = ch
    BY <1>4, Zenon DEF Written
  <2> HIDE DEF c, ch
  <2>3. \A n : Has(c.lines, n) \/ n = NextEvent.id => Has(cur'.lines, n)
    <3>1. ASSUME NEW n, Has(c.lines, n) \/ n = NextEvent.id PROVE Has(Put(c, NextEvent, TRUE).lines, n)
      BY <1>1, <1>3, <3>1, PutHas, Zenon
    <3> QED
      BY <2>1, <3>1, Zenon
  <2> QED
    BY <1>2, <1>3, <2>2, <2>3, Zenon DEF Kept
<1>5. CASE ~ok /\ WriteFails(size)
  <2>1. PICK how \in Tears : cur' = Torn(how, c)
    BY <1>5, Zenon DEF WriteFails
  <2>2. chunks' = ch
    BY <1>5, Zenon DEF WriteFails
  <2> HIDE DEF c, ch
  <2>3. cur' = c \/ \E p \in {Frag, NextEvent} : cur' = Put(c, p, FALSE)
    BY <1>1, <2>1, TornFacts, Zenon
  <2>4. \A n : Has(c.lines, n) => Has(cur'.lines, n)
    <3>1. ASSUME NEW n, NEW p \in {Frag, NextEvent}, Has(c.lines, n) PROVE Has(Put(c, p, FALSE).lines, n)
      <4>1. p \in Pieces
        BY <1>3, Zenon
      <4> QED
        BY <1>1, <3>1, <4>1, PutHas, Zenon
    <3> QED
      BY <2>3, <3>1, Zenon
  <2> QED
    BY <1>2, <1>5, <2>2, <2>4, Zenon DEF Kept
<1>6. CASE ~ok /\ RotationFails
  BY <1>6, Zenon DEF RotationFails
<1> QED
  BY <1>4, <1>5, <1>6, Zenon DEF write_event

LEMMA LostFinite ==
    ASSUME NEW k \in Nat, NEW ch, NEW c
    PROVE  IsFiniteSet(Lost(k, ch, c)) /\ Cardinality(Lost(k, ch, c)) \in Nat
<1>1. IsFiniteSet(1 .. k)
  BY FS_Interval
<1>2. Lost(k, ch, c) \in SUBSET (1 .. k)
  BY Zenon DEF Lost
<1> QED
  BY <1>1, <1>2, FS_Subset, FS_CardinalityType, Zenon

LEMMA LostStep == TypeInv /\ LostInv /\ [Next]_vars => LostInv'
<1> SUFFICES ASSUME TypeInv, LostInv, [Next]_vars PROVE LostInv'
  OBVIOUS
<1>0. offered \in Nat /\ dropped \in Nat /\ offered + 1 \in Nat
  BY DEF TypeInv
<1> DEFINE A == Lost(offered, chunks, cur)
           B == Lost(offered', chunks', cur')
<1>1. ASSUME NEW size \in Sizes, NEW ok \in BOOLEAN, write_event(size, ok), Cardinality(A) <= dropped
      PROVE  Cardinality(B) <= IF ok THEN dropped ELSE dropped + 1
  <2>1. offered' = offered + 1 /\ IsFiniteSet(A) /\ Cardinality(A) \in Nat
    BY <1>0, <1>1, LostFinite, Zenon DEF write_event
  <2>2. B \subseteq A \cup {offered + 1} /\ (ok => B \subseteq A)
    <3> SUFFICES ASSUME NEW n \in B PROVE n \in A \/ (n = offered + 1 /\ ~ok)
      BY Zenon
    <3>1. n \in 1 .. offered + 1 /\ ~Kept(chunks', cur', n)
      BY <2>1, Zenon DEF Lost
    <3>2. ~Kept(chunks, cur, n) /\ (n = offered + 1 => ~ok)
      BY <1>1, <3>1, WriteKeeps, Zenon
    <3>3. n \in 1 .. offered \/ n = offered + 1
      BY <1>0, <3>1
    <3> QED
      BY <3>2, <3>3, Zenon DEF Lost
  <2> HIDE DEF A, B
  <2>3. IsFiniteSet(A \cup {offered + 1}) /\ Cardinality(A \cup {offered + 1}) <= Cardinality(A) + 1
    <3>1. Cardinality(A \cup {offered + 1}) = IF offered + 1 \in A THEN Cardinality(A) ELSE Cardinality(A) + 1
      BY <2>1, FS_AddElement, Zenon
    <3>2. IsFiniteSet(A \cup {offered + 1})
      BY <2>1, FS_AddElement, Zenon
    <3> QED
      BY <2>1, <3>1, <3>2
  <2>4. CASE ok
    <3>1. Cardinality(B) <= Cardinality(A) /\ Cardinality(B) \in Nat
      BY <2>1, <2>2, <2>4, FS_Subset, FS_CardinalityType, Zenon
    <3> QED
      BY <1>0, <1>1, <2>1, <2>4, <3>1
  <2>5. CASE ~ok
    <3>1. /\ Cardinality(B) <= Cardinality(A \cup {offered + 1}) /\ Cardinality(B) \in Nat
          /\ Cardinality(A \cup {offered + 1}) \in Nat
      BY <2>2, <2>3, FS_Subset, FS_CardinalityType, Zenon
    <3> QED
      BY <1>0, <1>1, <2>1, <2>3, <2>5, <3>1
  <2> QED
    BY <2>4, <2>5, Zenon
<1> HIDE DEF A, B
<1>2. CASE RunStart \/ try_write \/ RunEnd
  <2>1. PICK size \in Sizes, ok \in BOOLEAN :
            /\ write_event(size, ok)
            /\ \/ ok /\ Writing' /\ dropped' = dropped
               \/ ~ok /\ phase' = "failed"
               \/ ~ok /\ Writing' /\ dropped' = dropped + 1
    BY <1>2, Zenon DEF RunStart, try_write, RunEnd, Writing
  <2>2. Writing
    BY <1>2, Zenon DEF RunStart, try_write, RunEnd, Writing
  <2>3. Cardinality(A) <= dropped
    BY <2>2, Zenon DEF LostInv, A
  <2>4. Cardinality(B) <= IF ok THEN dropped ELSE dropped + 1
    BY <1>1, <2>1, <2>3, Zenon
  <2>5. Writing' => Cardinality(B) <= dropped'
    BY <2>1, <2>4, Zenon DEF Writing
  <2>6. ~Stopped' /\ phase' # "done"
    BY <2>1, Zenon DEF Writing, Stopped
  <2> QED
    BY <2>5, <2>6, Zenon DEF LostInv, B
<1>3. CASE finalize
  <2>1. phase = "finalize" /\ UNCHANGED <<offered, dropped>>
    BY <1>3, Zenon DEF finalize
  <2>2. phase' = "failed" \/ (phase' = "readback" /\ chunks' = Append(chunks, cur))
    BY <1>3, Zenon DEF finalize
  <2>3. Lost(offered, Append(chunks, cur), NewChunk(0)) = A
    <3>1. \A n : Kept(Append(chunks, cur), NewChunk(0), n) <=> Kept(chunks, cur, n)
      BY RotateKeeps, Zenon DEF TypeInv
    <3> QED
      BY <3>1, Zenon DEF Lost, A
  <2>4. Cardinality(A) <= dropped
    BY <2>1, Zenon DEF LostInv, Writing, A
  <2> QED
    BY <2>1, <2>2, <2>3, <2>4, Zenon DEF LostInv, Writing, Stopped
<1>4. CASE read_events_from_index
  <2>1. phase = "readback" /\ (phase' = "failed" \/ (phase' = "done" /\ AllParse(Flat(chunks))))
    BY <1>4, ReadableParse, Zenon DEF read_events_from_index
  <2>2. UNCHANGED <<offered, dropped, chunks, cur>>
    BY <1>4, Zenon DEF read_events_from_index
  <2> QED
    BY <2>1, <2>2, Zenon DEF LostInv, Writing, Stopped
<1>5. CASE UNCHANGED vars
  BY <1>5, Zenon DEF vars, LostInv, Writing, Stopped
<1> QED
  BY <1>2, <1>3, <1>4, <1>5, Zenon DEF Next

\* try_write counts every event whose write fails: of the events offered to a run
\* that completes, no more are missing from its trace than are counted as dropped,
\* whatever part of a failed write reached the file.
THEOREM NothingLostSilentlyHolds == Spec => []NothingLostSilently
<1>1. Init => LostInv
  <2> SUFFICES ASSUME Init PROVE LostInv
    OBVIOUS
  <2>1. phase = "start" /\ offered = 0 /\ dropped = 0
    BY Zenon DEF Init
  <2>2. Lost(0, chunks, cur) = {}
    BY DEF Lost
  <2>3. Cardinality(Lost(offered, chunks, cur)) <= dropped
    <3>1. Cardinality({}) = 0 /\ 0 <= 0
      BY FS_EmptySet
    <3> QED
      BY <2>1, <2>2, <3>1, Zenon
  <2> QED
    BY <2>1, <2>3, Zenon DEF LostInv, Writing, Stopped
<1>2. TypeInv /\ LostInv => NothingLostSilently
  <2> SUFFICES ASSUME TypeInv, LostInv, phase = "done"
               PROVE  Cardinality((1 .. offered) \ {e.id : e \in Range(ReadEvents)}) <= dropped
    BY Zenon DEF NothingLostSilently
  <2> DEFINE G == (1 .. offered) \ {e.id : e \in Range(ReadEvents)}
             M == Lost(offered, chunks, NewChunk(0))
             a == Flat(chunks)
  <2>0. offered \in Nat /\ dropped \in Nat
    BY Zenon DEF TypeInv
  <2>1. AllParse(a) /\ a = AllLines /\ Cardinality(M) <= dropped
    BY Zenon DEF LostInv, Stopped, Flat, AllLines
  <2>2. ASSUME NEW n, Has(a, n) PROVE \E e \in Range(ReadEvents) : e.id = n
    <3>1. PICK i \in DOMAIN a : \E k \in DOMAIN a[i] : a[i][k].id = n
      BY <2>2, Zenon DEF Has
    <3>2. Len(a[i]) = 1 /\ a[i] \in Seq(Pieces)
      <4>1. a \in Lines
        BY FlatFacts, Zenon DEF TypeInv
      <4>2. a[i] \in Seq(Pieces)
        BY <4>1 DEF Lines
      <4> QED
        BY <2>1, <4>2, Zenon DEF AllParse, Parses
    <3>3. a[i][1].id = n
      <4>1. DOMAIN a[i] = {1}
        BY <3>2
      <4> QED
        BY <3>1, <4>1, Zenon
    <3>4. i \in DOMAIN ReadEvents /\ ReadEvents[i] = a[i][1]
      BY <2>1, Zenon DEF ReadEvents
    <3> QED
      BY <3>3, <3>4, Zenon DEF Range
  <2>3. G \subseteq M
    <3> SUFFICES ASSUME NEW n \in G PROVE n \in M
      BY Zenon
    <3>1. ~Has(a, n)
      BY <2>2, Zenon
    <3>2. ~Has(NewChunk(0).lines, n)
      BY EmptyChunk, Zenon
    <3> QED
      BY <3>1, <3>2, Zenon DEF Lost, Kept
  <2>4. IsFiniteSet(M) /\ Cardinality(M) \in Nat
    BY <2>0, LostFinite, Zenon
  <2> HIDE DEF G, M
  <2>5. Cardinality(G) <= Cardinality(M) /\ Cardinality(G) \in Nat
    BY <2>3, <2>4, FS_Subset, FS_CardinalityType, Zenon
  <2>6. Cardinality(G) <= dropped
    BY <2>0, <2>1, <2>4, <2>5
  <2> QED
    BY <2>6, Zenon DEF G
<1> QED
  BY <1>1, <1>2, TypeInit, TypeStep, LostStep, PTL DEF Spec
=============================================================================
