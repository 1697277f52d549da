--------------------------- MODULE GlobMatchProofs ---------------------------
(***************************************************************************)
(* Theorems about GlobMatch, for any characters, patterns and texts.       *)
(*                                                                         *)
(* The loop keeps one fact: what the pattern up to and including the star  *)
(* before the part at hand can stand for is any prefix of the text with at *)
(* least pos characters.                                                   *)
(***************************************************************************)
EXTENDS GlobMatch, WellFoundedInduction, TLAPS

\* What a pattern and a text are.
Strings ==
    /\ pattern \in Seq(Chars \cup {Star})
    /\ text \in Seq(Chars \cup {Star})

LEMMA Lengths ==
    ASSUME Strings
    PROVE  /\ Len(pattern) \in Nat /\ DOMAIN pattern = 1 .. Len(pattern)
           /\ Len(text) \in Nat /\ DOMAIN text = 1 .. Len(text)
BY DEF Strings

-----------------------------------------------------------------------------
(* Numbers.                                                                *)

\* A set of numbers has a least one.
LEMMA Least ==
    ASSUME NEW S \in SUBSET Nat, S # {}
    PROVE  Min(S) \in S /\ \A y \in S : Min(S) <= y
<1>1. PICK x \in S : \A y \in S : ~(<<y, x>> \in OpToRel(<, Nat))
  BY NatLessThanWellFounded, WFMin, Zenon
<1>2. \A y \in S : ~(y < x)
  BY <1>1, Zenon DEF OpToRel
<1>3. \A y \in S : x <= y
  BY <1>2
<1> QED
  BY <1>3, Zenon DEF Min

\* Induction up to a bound, for a set of numbers instead of a predicate.
LEMMA BoundedInduction ==
    ASSUME NEW S, NEW m \in Nat, 0 \in S, \A n \in 0 .. m - 1 : n \in S => n + 1 \in S
    PROVE  \A n \in 0 .. m : n \in S
<1> DEFINE T == {n \in 0 .. m : n \notin S}
<1> SUFFICES ASSUME T # {} PROVE FALSE
  BY Zenon
<1>1. T \in SUBSET Nat
  OBVIOUS
<1>2. PICK x \in T : \A y \in T : x <= y
  BY <1>1, Least, Zenon
<1>3. x # 0 /\ x - 1 \in 0 .. m - 1 /\ x - 1 \notin T
  BY <1>2
<1> QED
  BY <1>3

-----------------------------------------------------------------------------
(* The meaning of a pattern.                                               *)

\* What one more character of the pattern makes of the lengths in R.
Grow(R, k) ==
    IF pattern[k] = Star
    THEN {n \in 0 .. Len(text) : \E m \in R : m <= n}
    ELSE {n \in 1 .. Len(text) : n - 1 \in R /\ text[n] = pattern[k]}

IsReach(f) ==
    f = [k \in 0 .. Len(pattern) |-> IF k = 0 THEN {0} ELSE Grow(f[k - 1], k)]

\* The recursion that defines Reach has a solution.
LEMMA ReachExists ==
    ASSUME Strings
    PROVE  \E f : IsReach(f)
<1> DEFINE Upto(f, m) ==
      \A k \in 0 .. m : f[k] = IF k = 0 THEN {0} ELSE Grow(f[k - 1], k)
    N == 0 .. Len(pattern)
    Good == {m \in N : \E f \in [N -> SUBSET Nat] : Upto(f, m)}
<1>0. Len(pattern) \in Nat /\ Len(text) \in Nat
  BY Lengths
<1>1. 0 \in Good
  <2> DEFINE f == [k \in N |-> {0}]
  <2>1. f \in [N -> SUBSET Nat] /\ Upto(f, 0) /\ 0 \in N
    BY <1>0
  <2> QED
    BY <2>1, Zenon
<1>2. ASSUME NEW m \in 0 .. Len(pattern) - 1, m \in Good PROVE m + 1 \in Good
  <2>1. PICK f \in [N -> SUBSET Nat] : Upto(f, m)
    BY <1>2, Zenon
  <2> DEFINE X == Grow(f[m], m + 1)
             g == [f EXCEPT ![m + 1] = X]
  <2>2. X \in SUBSET Nat
    BY <1>0 DEF Grow
  <2> HIDE DEF X
  <2>3. g \in [N -> SUBSET Nat] /\ m + 1 \in N
    BY <1>0, <2>2
  <2>4. g[m + 1] = X /\ \A k \in 0 .. m : g[k] = f[k]
    BY <1>0
  <2> HIDE DEF g
  <2>5. ASSUME NEW k \in 0 .. m + 1
        PROVE  g[k] = IF k = 0 THEN {0} ELSE Grow(g[k - 1], k)
    <3>1. CASE k = m + 1
      <4>1. k # 0 /\ k - 1 = m /\ m \in 0 .. m
        BY <3>1
      <4>2. g[k - 1] = f[m] /\ g[k] = X
        BY <2>4, <3>1, <4>1, Zenon
      <4> QED
        BY <3>1, <4>1, <4>2, Zenon DEF X
    <3>2. CASE k # m + 1
      <4>1. k \in 0 .. m /\ (k # 0 => k - 1 \in 0 .. m)
        BY <3>2
      <4> QED
        BY <2>1, <2>4, <4>1, Zenon
    <3> QED
      BY <3>1, <3>2, Zenon
  <2> QED
    BY <2>3, <2>5, Zenon
<1>3. Len(pattern) \in Good
  <2>1. \A n \in 0 .. Len(pattern) : n \in Good
    <3> HIDE DEF Good
    <3> QED
      BY <1>0, <1>1, <1>2, BoundedInduction, Zenon
  <2>2. Len(pattern) \in 0 .. Len(pattern)
    BY <1>0
  <2> QED
    BY <2>1, <2>2, Zenon
<1>4. PICK f \in [N -> SUBSET Nat] : Upto(f, Len(pattern))
  BY <1>3, Zenon
<1>5. f = [k \in N |-> f[k]]
  BY <1>4, Zenon
<1>6. IsReach(f)
  BY <1>4, <1>5, Zenon DEF IsReach
<1> QED
  BY <1>6, Zenon

LEMMA ReachIs ==
    ASSUME Strings
    PROVE  /\ Reach[0] = {0}
           /\ \A k \in 1 .. Len(pattern) : Reach[k] = Grow(Reach[k - 1], k)
<1>0. Len(pattern) \in Nat
  BY Lengths
<1>1. Reach = CHOOSE f : IsReach(f)
  BY Zenon DEF Reach, IsReach, Grow
<1>2. IsReach(Reach)
  BY <1>1, ReachExists, Zenon
<1>3. Reach = [k \in 0 .. Len(pattern) |-> IF k = 0 THEN {0} ELSE Grow(Reach[k - 1], k)]
  BY <1>2, Zenon DEF IsReach
<1>4. \A k \in 0 .. Len(pattern) : Reach[k] = IF k = 0 THEN {0} ELSE Grow(Reach[k - 1], k)
  BY <1>3, Zenon
<1>5. 0 \in 0 .. Len(pattern) /\ \A k \in 1 .. Len(pattern) : k \in 0 .. Len(pattern) /\ k # 0
  BY <1>0
<1> QED
  BY <1>4, <1>5, Zenon

LEMMA ReachBounded ==
    ASSUME Strings, NEW k \in 0 .. Len(pattern)
    PROVE  Reach[k] \subseteq 0 .. Len(text)
<1>0. Len(pattern) \in Nat /\ Len(text) \in Nat
  BY Lengths
<1>1. CASE k = 0
  BY <1>0, <1>1, ReachIs
<1>2. CASE k # 0
  <2>1. Reach[k] = Grow(Reach[k - 1], k)
    BY <1>0, <1>2, ReachIs
  <2> QED
    BY <1>0, <2>1 DEF Grow
<1> QED
  BY <1>1, <1>2, Zenon

\* The j characters of the pattern after c are those of the text after n.
Occurs(c, j, n) == n + j <= Len(text) /\ \A i \in 1 .. j : text[n + i] = pattern[c + i]

\* Characters other than the star stand for themselves.
LEMMA ReachWord ==
    ASSUME Strings, NEW c \in 0 .. Len(pattern), NEW j \in 0 .. Len(pattern) - c,
           \A i \in 1 .. j : pattern[c + i] # Star
    PROVE  \A n \in 0 .. Len(text) :
              n \in Reach[c + j] <=> n - j \in Reach[c] /\ Occurs(c, j, n - j)
<1> DEFINE Word(m, n) == n - m \in Reach[c] /\ Occurs(c, m, n - m)
           S == {m \in 0 .. j : \A n \in 0 .. Len(text) : n \in Reach[c + m] <=> Word(m, n)}
<1>0. /\ Len(pattern) \in Nat /\ Len(text) \in Nat /\ c \in Nat /\ j \in Nat
      /\ Reach[c] \subseteq 0 .. Len(text)
  BY Lengths, ReachBounded
<1>1. 0 \in S
  <2>1. ASSUME NEW n \in 0 .. Len(text) PROVE n \in Reach[c + 0] <=> Word(0, n)
    <3>1. c + 0 = c /\ n - 0 = n /\ n + 0 <= Len(text) /\ 1 .. 0 = {}
      BY <1>0
    <3> QED
      BY <3>1, Zenon DEF Occurs
  <2>2. 0 \in 0 .. j
    BY <1>0
  <2> QED
    BY <2>1, <2>2, Zenon
<1>2. ASSUME NEW m \in 0 .. j - 1, m \in S PROVE m + 1 \in S
  <2>0. m \in Nat /\ m + 1 \in 0 .. j /\ m + 1 \in 1 .. j /\ c + m \in 0 .. Len(pattern)
        /\ c + (m + 1) \in 1 .. Len(pattern) /\ (c + (m + 1)) - 1 = c + m
    BY <1>0
  <2>1. Reach[c + (m + 1)] =
          {n \in 1 .. Len(text) : n - 1 \in Reach[c + m] /\ text[n] = pattern[c + (m + 1)]}
    <3>1. pattern[c + (m + 1)] # Star
      BY <2>0, Zenon
    <3>2. Reach[c + (m + 1)] = Grow(Reach[c + m], c + (m + 1))
      BY <2>0, ReachIs, Zenon
    <3> QED
      BY <3>1, <3>2, Zenon DEF Grow
  <2>2. \A n \in 0 .. Len(text) : n \in Reach[c + m] <=> Word(m, n)
    BY <1>2, Zenon
  <2>3. ASSUME NEW n \in 0 .. Len(text)
        PROVE  n \in Reach[c + (m + 1)] <=> Word(m + 1, n)
    <3>1. CASE n = 0
      <4>1. n \notin 1 .. Len(text) /\ n - (m + 1) \notin 0 .. Len(text)
        BY <2>0, <3>1
      <4> QED
        BY <1>0, <2>1, <4>1, Zenon
    <3>2. CASE n # 0
      <4> DEFINE q == n - (m + 1)
      <4>1. n \in 1 .. Len(text) /\ n - 1 \in 0 .. Len(text) /\ (n - 1) - m = q
            /\ q + (m + 1) = n /\ q \in Int
        BY <1>0, <2>0, <3>2
      <4>2. n - 1 \in Reach[c + m] <=> q \in Reach[c] /\ Occurs(c, m, q)
        BY <2>2, <4>1, Zenon
      <4>3. Occurs(c, m + 1, q) <=> Occurs(c, m, q) /\ text[n] = pattern[c + (m + 1)]
        <5>1. q + (m + 1) <= Len(text) /\ q + m <= Len(text)
          BY <1>0, <2>0, <4>1
        <5>2. \A i \in 1 .. m + 1 : i \in 1 .. m \/ i = m + 1
          BY <2>0
        <5>3. m + 1 \in 1 .. m + 1 /\ \A i \in 1 .. m : i \in 1 .. m + 1
          BY <2>0
        <5> HIDE DEF q
        <5> QED
          BY <4>1, <5>1, <5>2, <5>3, Zenon DEF Occurs
      <4> QED
        BY <2>1, <4>1, <4>2, <4>3, Zenon
    <3> QED
      BY <3>1, <3>2, Zenon
  <2> QED
    BY <2>0, <2>3, Zenon
<1>3. \A m \in 0 .. j : m \in S
  <2> HIDE DEF S
  <2> QED
    BY <1>0, <1>1, <1>2, BoundedInduction, Zenon
<1>4. j \in 0 .. j
  BY <1>0
<1> QED
  BY <1>3, <1>4, Zenon

\* What has no match does not get one later.
LEMMA ReachDead ==
    ASSUME Strings, NEW k \in 0 .. Len(pattern), Reach[k] = {}
    PROVE  ~Matches
<1> DEFINE m == Len(pattern) - k
           S == {j \in 0 .. m : Reach[k + j] = {}}
<1>0. Len(pattern) \in Nat /\ k \in Nat /\ m \in Nat /\ k + m = Len(pattern) /\ k + 0 = k
  BY Lengths
<1>1. 0 \in S
  BY <1>0
<1>2. ASSUME NEW j \in 0 .. m - 1, j \in S PROVE j + 1 \in S
  <2>1. j + 1 \in 0 .. m /\ k + (j + 1) \in 1 .. Len(pattern) /\ (k + (j + 1)) - 1 = k + j
    BY <1>0
  <2>2. Reach[k + (j + 1)] = Grow(Reach[k + j], k + (j + 1))
    BY <2>1, ReachIs, Zenon
  <2>3. Reach[k + j] = {}
    BY <1>2, Zenon
  <2>4. Reach[k + (j + 1)] = {}
    BY <2>2, <2>3, Zenon DEF Grow
  <2> QED
    BY <2>1, <2>4, Zenon
<1>3. \A j \in 0 .. m : j \in S
  <2> HIDE DEF S, m
  <2> QED
    BY <1>0, <1>1, <1>2, BoundedInduction, Zenon
<1>4. m \in 0 .. m
  BY <1>0
<1>5. Reach[k + m] = {}
  BY <1>3, <1>4, Zenon
<1> QED
  BY <1>0, <1>5, Zenon DEF Matches

-----------------------------------------------------------------------------
(* The parts of the pattern, and where they occur.                         *)

LEMMA CutFacts ==
    ASSUME Strings, NEW c \in 0 .. Len(pattern)
    PROVE  /\ NextCut(c) \in Stars \cup {End}
           /\ NextCut(c) \in c + 1 .. Len(pattern) + 1
           /\ \A i \in c + 1 .. NextCut(c) - 1 : pattern[i] # Star
<1> DEFINE S == {k \in Stars \cup {End} : k > c}
<1>0. Len(pattern) \in Nat /\ DOMAIN pattern = 1 .. Len(pattern)
  BY Lengths
<1>1. Stars \cup {End} \subseteq 1 .. Len(pattern) + 1 /\ End \in S
  BY <1>0 DEF Stars, End
<1>2. S \in SUBSET Nat /\ S # {}
  BY <1>0, <1>1
<1>3. NextCut(c) \in S /\ \A y \in S : NextCut(c) <= y
  <2>1. NextCut(c) = Min(S)
    BY Zenon DEF NextCut
  <2> HIDE DEF S
  <2>2. Min(S) \in S /\ \A y \in S : Min(S) <= y
    BY <1>2, Least, Zenon
  <2> QED
    BY <2>1, <2>2, Zenon
<1>4. NextCut(c) \in c + 1 .. Len(pattern) + 1 /\ NextCut(c) \in Stars \cup {End}
  BY <1>0, <1>1, <1>3
<1>5. ASSUME NEW i \in c + 1 .. NextCut(c) - 1 PROVE pattern[i] # Star
  <2>1. i \notin S /\ i > c /\ i \in 1 .. Len(pattern)
    BY <1>0, <1>3, <1>4
  <2> QED
    BY <1>0, <2>1 DEF Stars
<1> QED
  BY <1>4, <1>5, Zenon

\* The part after c has the characters up to the next cut.
LEMMA PartFacts ==
    ASSUME Strings, NEW c \in 0 .. Len(pattern)
    PROVE  /\ Len(Part(c)) = NextCut(c) - 1 - c
           /\ Len(Part(c)) \in 0 .. Len(pattern) - c
           /\ Part(c) \in Seq(Chars \cup {Star})
           /\ \A i \in 1 .. Len(Part(c)) : Part(c)[i] = pattern[c + i] /\ pattern[c + i] # Star
           /\ Part(c) = <<>> <=> NextCut(c) = c + 1
<1> DEFINE d == NextCut(c)
<1>0. /\ Len(pattern) \in Nat /\ DOMAIN pattern = 1 .. Len(pattern)
      /\ pattern \in Seq(Chars \cup {Star})
  BY Lengths DEF Strings
<1>1. d \in c + 1 .. Len(pattern) + 1 /\ \A i \in c + 1 .. d - 1 : pattern[i] # Star
  BY CutFacts, Zenon
<1> HIDE DEF d
<1>2. Part(c) = SubSeq(pattern, c + 1, d - 1)
  BY Zenon DEF Part, d
<1>3. /\ Part(c) \in Seq(Chars \cup {Star}) /\ Len(Part(c)) = d - 1 - c
      /\ \A i \in 1 .. d - 1 - c : Part(c)[i] = pattern[c + i]
  BY <1>0, <1>1, <1>2
<1>4. \A i \in 1 .. d - 1 - c : c + i \in c + 1 .. d - 1
  BY <1>0, <1>1
<1>5. Len(Part(c)) \in 0 .. Len(pattern) - c /\ (Part(c) = <<>> <=> d = c + 1)
  BY <1>0, <1>1, <1>3
<1> QED
  BY <1>1, <1>3, <1>4, <1>5, Zenon DEF d

LEMMA SeqEqual ==
    ASSUME NEW X, NEW s \in Seq(X), NEW t \in Seq(X), Len(s) = Len(t)
    PROVE  s = t <=> \A i \in 1 .. Len(s) : s[i] = t[i]
OBVIOUS

\* A slice of the text is a part when the part occurs there.
LEMMA SliceIs ==
    ASSUME Strings, NEW c \in 0 .. Len(pattern), NEW n \in Nat, n + Len(Part(c)) <= Len(text)
    PROVE  SubSeq(text, n + 1, n + Len(Part(c))) = Part(c) <=> Occurs(c, Len(Part(c)), n)
<1> DEFINE w == Part(c)
           s == SubSeq(text, n + 1, n + Len(w))
<1>0. Len(text) \in Nat /\ text \in Seq(Chars \cup {Star})
  BY Lengths DEF Strings
<1>1. /\ w \in Seq(Chars \cup {Star}) /\ Len(w) \in Nat
      /\ \A i \in 1 .. Len(w) : w[i] = pattern[c + i]
  <2>1. Len(w) \in Nat
    BY PartFacts, Lengths
  <2> QED
    BY <2>1, PartFacts, Zenon
<1> HIDE DEF w
<1>2. /\ s \in Seq(Chars \cup {Star}) /\ Len(s) = Len(w)
      /\ \A i \in 1 .. Len(w) : s[i] = text[n + i]
  BY <1>0, <1>1 DEF w
<1> HIDE DEF s
<1>3. s = w <=> \A i \in 1 .. Len(w) : s[i] = w[i]
  BY <1>1, <1>2, SeqEqual, Zenon
<1>4. s = w <=> \A i \in 1 .. Len(w) : text[n + i] = pattern[c + i]
  BY <1>1, <1>2, <1>3, Zenon
<1> QED
  BY <1>4, Zenon DEF Occurs, w, s

LEMMA FoundIs ==
    ASSUME Strings, pos \in 0 .. Len(text), NEW c \in 0 .. Len(pattern), NEW k
    PROVE  k \in Found(Part(c)) <=> k \in Nat /\ Occurs(c, Len(Part(c)), pos + k)
<1> DEFINE j == Len(Part(c))
<1>0. Len(text) \in Nat /\ j \in Nat
  BY Lengths, PartFacts
<1>1. k \in Found(Part(c)) <=>
        k \in 0 .. Len(text) - pos - j /\ SubSeq(text, pos + k + 1, pos + k + j) = Part(c)
  BY Zenon DEF Found
<1> HIDE DEF j
<1>2. CASE k \in 0 .. Len(text) - pos - j
  <2>1. pos + k \in Nat /\ (pos + k) + j <= Len(text) /\ k \in Nat
    BY <1>0, <1>2
  <2> QED
    BY <1>1, <1>2, <2>1, SliceIs, Zenon DEF j
<1>3. CASE k \notin 0 .. Len(text) - pos - j
  <2>1. ~(k \in Nat /\ (pos + k) + j <= Len(text))
    BY <1>0, <1>3
  <2> QED
    BY <1>1, <1>3, <2>1, Zenon DEF Occurs, j
<1> QED
  BY <1>2, <1>3, Zenon

\* ends_with looks at the last place where the part could occur.
LEMMA SuffixIs ==
    ASSUME Strings, NEW c \in 0 .. Len(pattern)
    PROVE  IsSuffix(Part(c), text) <=>
             /\ Len(Part(c)) <= Len(text)
             /\ Occurs(c, Len(Part(c)), Len(text) - Len(Part(c)))
<1> DEFINE w == Part(c)
           a == Reverse(w)
           b == Reverse(text)
<1>0. Len(text) \in Nat /\ text \in Seq(Chars \cup {Star})
  BY Lengths DEF Strings
<1>1. /\ w \in Seq(Chars \cup {Star}) /\ Len(w) \in Nat
      /\ \A i \in 1 .. Len(w) : w[i] = pattern[c + i]
  <2>1. Len(w) \in Nat
    BY PartFacts, Lengths
  <2> QED
    BY <2>1, PartFacts, Zenon
<1> HIDE DEF w
<1>2. /\ a \in Seq(Chars \cup {Star}) /\ Len(a) = Len(w)
      /\ \A i \in 1 .. Len(w) : a[i] = w[Len(w) - i + 1]
  BY <1>1 DEF Reverse
<1>3. /\ b \in Seq(Chars \cup {Star}) /\ Len(b) = Len(text)
      /\ \A i \in 1 .. Len(text) : b[i] = text[Len(text) - i + 1]
  BY <1>0 DEF Reverse
<1> HIDE DEF a, b
<1>4. CASE ~(Len(w) <= Len(text))
  BY <1>2, <1>3, <1>4, Zenon DEF IsSuffix, IsPrefix, a, b, w
<1>5. CASE Len(w) <= Len(text)
  <2> DEFINE x == SubSeq(a, 1, Len(w))
             y == SubSeq(b, 1, Len(w))
             q == Len(text) - Len(w)
  <2>1. IsSuffix(w, text) <=> x = y
    BY <1>2, <1>3, <1>5, Zenon DEF IsSuffix, IsPrefix, a, b
  <2>2. /\ x \in Seq(Chars \cup {Star}) /\ y \in Seq(Chars \cup {Star})
        /\ Len(x) = Len(w) /\ Len(y) = Len(w)
        /\ \A i \in 1 .. Len(w) : x[i] = a[i] /\ y[i] = b[i]
    BY <1>0, <1>1, <1>2, <1>3, <1>5
  <2> HIDE DEF x, y
  <2>3. x = y <=> \A i \in 1 .. Len(w) : x[i] = y[i]
    BY <2>2, SeqEqual, Zenon
  <2>4. \A i \in 1 .. Len(w) : i \in 1 .. Len(text) /\ Len(w) - i + 1 \in 1 .. Len(w)
           /\ Len(text) - i + 1 = q + (Len(w) - i + 1)
           /\ Len(w) - (Len(w) - i + 1) + 1 = i
    BY <1>0, <1>1, <1>5
  <2>5. x = y <=> \A i \in 1 .. Len(w) : w[Len(w) - i + 1] = text[q + (Len(w) - i + 1)]
    <3>1. ASSUME NEW i \in 1 .. Len(w)
          PROVE  x[i] = w[Len(w) - i + 1] /\ y[i] = text[q + (Len(w) - i + 1)]
      <4>1. x[i] = a[i] /\ y[i] = b[i] /\ a[i] = w[Len(w) - i + 1]
        BY <1>2, <2>2, Zenon
      <4>2. b[i] = text[Len(text) - i + 1]
        BY <1>3, <2>4, Zenon
      <4>3. Len(text) - i + 1 = q + (Len(w) - i + 1)
        BY <2>4, Zenon
      <4> QED
        BY <4>1, <4>2, <4>3, Zenon
    <3> QED
      BY <2>3, <3>1, Zenon
  <2>6. x = y <=> \A i \in 1 .. Len(w) : w[i] = text[q + i]
    <3> HIDE DEF q
    <3>1. ASSUME NEW i \in 1 .. Len(w), \A k \in 1 .. Len(w) : w[Len(w) - k + 1] = text[q + (Len(w) - k + 1)]
          PROVE  w[i] = text[q + i]
      <4>1. Len(w) - i + 1 \in 1 .. Len(w) /\ Len(w) - (Len(w) - i + 1) + 1 = i
        BY <2>4, Zenon
      <4> QED
        BY <3>1, <4>1
    <3>2. ASSUME NEW i \in 1 .. Len(w), \A k \in 1 .. Len(w) : w[k] = text[q + k]
          PROVE  w[Len(w) - i + 1] = text[q + (Len(w) - i + 1)]
      BY <2>4, <3>2, Zenon
    <3> QED
      BY <2>5, <3>1, <3>2, Zenon
  <2>7. q + Len(w) <= Len(text)
    BY <1>0, <1>1
  <2>8. x = y <=> Occurs(c, Len(w), q)
    BY <1>1, <2>6, <2>7, Zenon DEF Occurs
  <2> QED
    BY <1>5, <2>1, <2>8, Zenon DEF w
<1> QED
  BY <1>4, <1>5, Zenon DEF w

-----------------------------------------------------------------------------
(* The loop.                                                               *)

\* With cut at c and p characters consumed: what the pattern up to c can stand for
\* are the prefixes with at least p characters, and only the empty one before
\* the first part; after the last part, which is the one after c, its end decides.
Before(c, p) == IF c = 0 THEN p = 0 ELSE Reach[c] = p .. Len(text)

After ==
    \E c \in Cuts : /\ NextCut(c) = End
                    /\ Matches <=> Last(pattern) = Star \/ IsSuffix(Part(c), text)

LoopAt(c, p, r) ==
    /\ p \in 0 .. Len(text)
    /\ c \in Cuts \cup {End}
    /\ r = "none" => /\ c # End => Before(c, p)
                     /\ c = End => After
    /\ r # "none" => r = Answer(Matches)

LoopInv == Strings /\ LoopAt(cut, pos, result)

LEMMA CutType ==
    ASSUME Strings
    PROVE  /\ Cuts \subseteq 0 .. Len(pattern)
           /\ Stars = {k \in 1 .. Len(pattern) : pattern[k] = Star}
           /\ End \notin Cuts
<1>1. Len(pattern) \in Nat /\ DOMAIN pattern = 1 .. Len(pattern)
  BY Lengths
<1>2. Stars = {k \in 1 .. Len(pattern) : pattern[k] = Star}
  BY <1>1, Zenon DEF Stars
<1> QED
  BY <1>1, <1>2 DEF Cuts, End

\* What the pattern can stand for at the end of the part at hand: the ends of the
\* places where find could meet it.
LEMMA PartEnds ==
    ASSUME Strings, pos \in 0 .. Len(text), cut \in Cuts, Before(cut, pos),
           NEW n \in 0 .. Len(text)
    PROVE  LET k == n - Len(Part(cut)) - pos
           IN  n \in Reach[NextCut(cut) - 1] <=>
                  k \in Found(Part(cut)) /\ (cut = 0 => k = 0)
<1> DEFINE j == Len(Part(cut))
           k == n - j - pos
<1>0. /\ Len(text) \in Nat /\ Len(pattern) \in Nat /\ cut \in 0 .. Len(pattern) /\ j \in Nat
      /\ j \in 0 .. Len(pattern) - cut /\ cut + j = NextCut(cut) - 1
  <2>1. Len(text) \in Nat /\ Len(pattern) \in Nat /\ cut \in 0 .. Len(pattern)
    BY Lengths, CutType
  <2>2. j = NextCut(cut) - 1 - cut /\ j \in 0 .. Len(pattern) - cut
    BY <2>1, PartFacts, Zenon
  <2>3. NextCut(cut) \in cut + 1 .. Len(pattern) + 1
    BY <2>1, CutFacts, Zenon
  <2> HIDE DEF j
  <2> QED
    BY <2>1, <2>2, <2>3
<1>1. \A i \in 1 .. j : pattern[cut + i] # Star
  BY <1>0, PartFacts, Zenon
<1>2. k \in Found(Part(cut)) <=> k \in Nat /\ Occurs(cut, j, pos + k)
  BY <1>0, FoundIs, Zenon
<1> HIDE DEF j
<1>3. n \in Reach[cut + j] <=> n - j \in Reach[cut] /\ Occurs(cut, j, n - j)
  BY <1>0, <1>1, ReachWord, Zenon
<1>4. pos + k = n - j
  BY <1>0
<1>5. n - j \in Reach[cut] <=> k \in Nat /\ (cut = 0 => k = 0)
  <2>1. CASE cut = 0
    <3>1. Reach[cut] = {0} /\ pos = 0
      BY <2>1, ReachIs, Zenon DEF Before
    <3> QED
      BY <1>0, <2>1, <3>1
  <2>2. CASE cut # 0
    <3>1. Reach[cut] = pos .. Len(text)
      BY <2>2, Zenon DEF Before
    <3> QED
      BY <1>0, <2>2, <3>1
  <2> QED
    BY <2>1, <2>2, Zenon
<1> HIDE DEF k
<1>6. n \in Reach[NextCut(cut) - 1] <=> k \in Found(Part(cut)) /\ (cut = 0 => k = 0)
  BY <1>0, <1>2, <1>3, <1>4, <1>5, Zenon
<1> QED
  BY <1>6, Zenon DEF j, k

\* The first occurrence is the best one.
LEMMA FirstFits ==
    ASSUME Strings, pos \in 0 .. Len(text), cut \in Cuts, Before(cut, pos), Fits(Part(cut))
    PROVE  LET p == pos + Min(Found(Part(cut))) + Len(Part(cut))
           IN  /\ p \in Reach[NextCut(cut) - 1] /\ p \in 0 .. Len(text)
               /\ \A n \in Reach[NextCut(cut) - 1] : p <= n
<1> DEFINE j == Len(Part(cut))
           F == Found(Part(cut))
           f == Min(F)
           p == pos + f + j
           R == Reach[NextCut(cut) - 1]
<1>0. Len(text) \in Nat /\ Len(pattern) \in Nat /\ cut \in 0 .. Len(pattern) /\ j \in Nat
  <2>1. Len(text) \in Nat /\ Len(pattern) \in Nat /\ cut \in 0 .. Len(pattern)
    BY Lengths, CutType
  <2> QED
    BY <2>1, PartFacts
<1>1. R \subseteq 0 .. Len(text)
  <2>1. NextCut(cut) - 1 \in 0 .. Len(pattern)
    BY <1>0, CutFacts
  <2> QED
    BY <2>1, ReachBounded, Zenon
<1>2. \A n \in 0 .. Len(text) : n \in R <=> n - j - pos \in F /\ (cut = 0 => n - j - pos = 0)
  BY PartEnds, Zenon
<1>3. F \subseteq 0 .. Len(text) - pos - j
  BY Zenon DEF Found
<1>4. F # {} /\ (cut = 0 => 0 \in F)
  BY Zenon DEF Fits
<1> HIDE DEF j, F, R
<1>5. f \in F /\ \A k \in F : f <= k
  <2>1. F \in SUBSET Nat
    BY <1>0, <1>3
  <2> QED
    BY <1>4, <2>1, Least, Zenon
<1> HIDE DEF f
<1>6. p \in 0 .. Len(text) /\ p - j - pos = f /\ (cut = 0 => f = 0)
  BY <1>0, <1>3, <1>4, <1>5
<1>7. p \in R
  BY <1>2, <1>5, <1>6, Zenon
<1>8. \A n \in R : p <= n
  <2> SUFFICES ASSUME NEW n \in R PROVE p <= n
    OBVIOUS
  <2>1. n \in 0 .. Len(text) /\ n - j - pos \in F
    BY <1>1, <1>2, Zenon
  <2>2. f <= n - j - pos
    BY <1>5, <2>1, Zenon
  <2> QED
    BY <1>0, <1>3, <1>5, <2>1, <2>2
<1> QED
  BY <1>6, <1>7, <1>8, Zenon DEF j, F, f, R

\* A part that does not fit has no match.
LEMMA NoFit ==
    ASSUME Strings, pos \in 0 .. Len(text), cut \in Cuts, Before(cut, pos), ~Fits(Part(cut))
    PROVE  ~Matches
<1> DEFINE R == Reach[NextCut(cut) - 1]
           K(n) == n - Len(Part(cut)) - pos
<1>0. Len(pattern) \in Nat /\ cut \in 0 .. Len(pattern)
  BY Lengths, CutType
<1>1. NextCut(cut) - 1 \in 0 .. Len(pattern)
  BY <1>0, CutFacts
<1>2. R \subseteq 0 .. Len(text)
  BY <1>1, ReachBounded, Zenon
<1>3. \A n \in 0 .. Len(text) : n \in R <=> K(n) \in Found(Part(cut)) /\ (cut = 0 => K(n) = 0)
  BY PartEnds, Zenon
<1>4. R = {}
  <2> HIDE DEF R, K
  <2> QED
    BY <1>2, <1>3, Zenon DEF Fits
<1> QED
  BY <1>1, <1>4, ReachDead, Zenon

\* A star after what can stand for p characters and no fewer.
LEMMA StarReach ==
    ASSUME Strings, NEW d \in Stars, NEW p \in Reach[d - 1], \A n \in Reach[d - 1] : p <= n
    PROVE  Before(d, p)
<1>0. Len(text) \in Nat /\ Len(pattern) \in Nat /\ d \in 1 .. Len(pattern) /\ pattern[d] = Star
  BY Lengths, CutType
<1>1. Reach[d] = {n \in 0 .. Len(text) : \E m \in Reach[d - 1] : m <= n}
  BY <1>0, ReachIs, Zenon DEF Grow
<1>2. Reach[d - 1] \subseteq 0 .. Len(text)
  <2>1. d - 1 \in 0 .. Len(pattern)
    BY <1>0
  <2> QED
    BY <2>1, ReachBounded, Zenon
<1>3. Reach[d] = p .. Len(text)
  BY <1>0, <1>1, <1>2
<1> QED
  BY <1>0, <1>3 DEF Before

-----------------------------------------------------------------------------
(* One turn.                                                               *)

\* A turn that consumes up to p keeps the invariant, if p is the least the
\* pattern up to the next cut can stand for.
LEMMA TurnKeeps ==
    ASSUME Strings, InLoop, cut \in Cuts, pos \in 0 .. Len(text), Before(cut, pos),
           NEW p \in Reach[NextCut(cut) - 1], \A n \in Reach[NextCut(cut) - 1] : p <= n,
           pos + Len(Part(cut)) <= p
    PROVE  LoopAt(NextCut(cut), p, result)
<1> DEFINE d == NextCut(cut)
           j == Len(Part(cut))
<1>0. /\ Len(text) \in Nat /\ Len(pattern) \in Nat /\ cut \in 0 .. Len(pattern)
      /\ End = Len(pattern) + 1 /\ j \in Nat
  <2>1. Len(text) \in Nat /\ Len(pattern) \in Nat /\ cut \in 0 .. Len(pattern)
    BY Lengths, CutType
  <2> QED
    BY <2>1, PartFacts DEF End
<1>1. /\ d \in Stars \cup {End} /\ d \in cut + 1 .. Len(pattern) + 1
      /\ \A i \in cut + 1 .. d - 1 : pattern[i] # Star
  BY <1>0, CutFacts, Zenon
<1>2. p \in 0 .. Len(text)
  <2>1. d - 1 \in 0 .. Len(pattern)
    BY <1>0, <1>1
  <2> QED
    BY <2>1, ReachBounded, Zenon
<1>3. result = "none"
  BY Zenon DEF InLoop
<1>4. CASE d \in Stars
  <2>1. Before(d, p)
    BY <1>4, StarReach, Zenon
  <2>2. d \in Cuts /\ d # End
    BY <1>4, CutType, Zenon DEF Cuts
  <2> QED
    BY <1>2, <1>3, <2>1, <2>2, Zenon DEF LoopAt
<1>5. CASE d = End
  <2>1. cut \in Stars /\ cut # 0
    <3>1. CASE cut = 0
      <4>1. Stars = {}
        BY <1>0, <1>1, <1>5, <3>1, CutType
      <4> QED
        BY <4>1, Zenon DEF InLoop
    <3> QED
      BY <3>1, Zenon DEF Cuts
  <2>2. Reach[cut] = pos .. Len(text) /\ pattern[cut] = Star
    BY <2>1, CutType, Zenon DEF Before
  <2>3. d - 1 = Len(pattern)
    BY <1>0, <1>5
  <2>4. Matches <=> Last(pattern) = Star \/ IsSuffix(Part(cut), text)
    <3>1. CASE cut = Len(pattern)
      <4>1. Len(text) \in Reach[cut]
        BY <1>0, <2>2
      <4> QED
        BY <2>2, <3>1, <4>1, Zenon DEF Matches, Last
    <3>2. CASE cut # Len(pattern)
      <4>1. Last(pattern) # Star
        <5>1. Len(pattern) \in cut + 1 .. d - 1
          BY <1>0, <2>3, <3>2
        <5> QED
          BY <1>1, <5>1, Zenon DEF Last
      <4>2. j = Len(pattern) - cut /\ cut + j = Len(pattern) /\ j \in 0 .. Len(pattern) - cut
            /\ \A i \in 1 .. j : pattern[cut + i] # Star
        <5>1. j = d - 1 - cut /\ j \in 0 .. Len(pattern) - cut
              /\ \A i \in 1 .. j : pattern[cut + i] # Star
          BY <1>0, PartFacts, Zenon
        <5> HIDE DEF j, d
        <5> QED
          BY <1>0, <2>3, <5>1
      <4> HIDE DEF j
      <4>3. Len(text) - j \in Reach[cut] /\ j <= Len(text)
        BY <1>0, <1>2, <2>2 DEF j
      <4>4. Matches <=> Occurs(cut, j, Len(text) - j)
        <5>1. Len(text) \in 0 .. Len(text)
          BY <1>0
        <5>2. Len(text) \in Reach[cut + j] <=>
                Len(text) - j \in Reach[cut] /\ Occurs(cut, j, Len(text) - j)
          BY <1>0, <4>2, <5>1, ReachWord, Zenon
        <5> QED
          BY <4>2, <4>3, <5>2, Zenon DEF Matches
      <4>5. IsSuffix(Part(cut), text) <=> j <= Len(text) /\ Occurs(cut, j, Len(text) - j)
        BY <1>0, SuffixIs, Zenon DEF j
      <4> QED
        BY <4>1, <4>3, <4>4, <4>5, Zenon
    <3> QED
      BY <3>1, <3>2, Zenon
  <2>5. After
    BY <1>5, <2>4, Zenon DEF After
  <2> QED
    BY <1>2, <1>3, <1>5, <2>5, Zenon DEF LoopAt
<1> QED
  BY <1>1, <1>4, <1>5, Zenon

LEMMA MatchPartKeeps ==
    ASSUME LoopInv, MatchPart
    PROVE  LoopAt(cut', pos', result')
<1> DEFINE part == Part(cut)
           p == pos + Min(Found(part)) + Len(part)
<1>0. /\ Strings /\ InLoop /\ pos \in 0 .. Len(text) /\ cut \in Cuts /\ Before(cut, pos)
      /\ cut' = NextCut(cut) /\ result = "none"
  BY Zenon DEF LoopInv, LoopAt, MatchPart, InLoop
<1>1. /\ Len(text) \in Nat /\ Len(pattern) \in Nat /\ cut \in 0 .. Len(pattern)
      /\ Len(part) \in Nat /\ (part = <<>> <=> NextCut(cut) = cut + 1)
      /\ (part = <<>> => Len(part) = 0)
  <2>1. Len(text) \in Nat /\ Len(pattern) \in Nat /\ cut \in 0 .. Len(pattern)
    BY <1>0, Lengths, CutType
  <2>2. part = <<>> <=> NextCut(cut) = cut + 1
    BY <1>0, <2>1, PartFacts, Zenon
  <2>3. Len(part) \in Nat
    BY <1>0, <2>1, PartFacts
  <2> QED
    BY <2>1, <2>2, <2>3
<1>2. CASE part = <<>> /\ UNCHANGED <<pos, result>>
  <2>1. NextCut(cut) - 1 = cut /\ pos + Len(part) <= pos
    BY <1>0, <1>1, <1>2
  <2>2. pos \in Reach[cut] /\ \A n \in Reach[cut] : pos <= n
    <3>1. CASE cut = 0
      BY <1>0, <3>1, ReachIs DEF Before
    <3>2. CASE cut # 0
      BY <1>0, <1>1, <3>2 DEF Before
    <3> QED
      BY <3>1, <3>2, Zenon
  <2> QED
    BY <1>0, <1>2, <2>1, <2>2, TurnKeeps, Zenon
<1>3. CASE Fits(part) /\ pos' = p /\ UNCHANGED result
  <2>1. /\ p \in Reach[NextCut(cut) - 1] /\ \A n \in Reach[NextCut(cut) - 1] : p <= n
    BY <1>0, <1>3, FirstFits, Zenon
  <2>2. pos + Len(part) <= p
    <3> DEFINE F == Found(part)
    <3>1. F \in SUBSET Nat /\ F # {}
      <4>1. F \subseteq 0 .. Len(text) - pos - Len(part) /\ F # {}
        BY <1>3, Zenon DEF Found, Fits
      <4> HIDE DEF F
      <4> QED
        BY <1>0, <1>1, <4>1
    <3>2. Min(F) \in Nat
      <4> HIDE DEF F
      <4> QED
        BY <3>1, Least
    <3> HIDE DEF F
    <3> QED
      BY <1>0, <1>1, <3>2 DEF F
  <2> QED
    BY <1>0, <1>3, <2>1, <2>2, TurnKeeps, Zenon
<1>4. CASE ~Fits(part) /\ result' = "mismatch" /\ UNCHANGED pos
  <2>1. ~Matches
    BY <1>0, <1>4, NoFit, Zenon
  <2>2. result' = Answer(Matches) /\ result' # "none"
    BY <1>4, <2>1, Zenon DEF Answer
  <2>3. cut' \in Cuts \cup {End}
    BY <1>0, <1>1, CutFacts, Zenon DEF Cuts
  <2> QED
    BY <1>0, <1>4, <2>2, <2>3, Zenon DEF LoopAt
<1> QED
  BY <1>2, <1>3, <1>4, Zenon DEF MatchPart

LEMMA AtEndKeeps ==
    ASSUME LoopInv, AtEnd
    PROVE  LoopAt(cut', pos', result')
<1> DEFINE full == {c \in Cuts : Part(c) # <<>>}
           Ends == Last(pattern) = Star \/ full = {} \/ IsSuffix(Part(Max(full)), text)
<1>0. /\ Strings /\ InLoop /\ pos \in 0 .. Len(text) /\ cut = End /\ After
      /\ UNCHANGED <<cut, pos>> /\ result' = Answer(Ends)
  BY Zenon DEF LoopInv, LoopAt, AtEnd, InLoop
<1>1. PICK c \in Cuts : /\ NextCut(c) = End
                        /\ Matches <=> Last(pattern) = Star \/ IsSuffix(Part(c), text)
  BY <1>0, Zenon DEF After
<1>2. /\ Len(pattern) \in Nat /\ Cuts \subseteq 0 .. Len(pattern) /\ End = Len(pattern) + 1
      /\ Stars = {k \in 1 .. Len(pattern) : pattern[k] = Star}
  BY <1>0, Lengths, CutType DEF End
<1>3. Last(pattern) # Star => full # {} /\ Max(full) = c
  <2> SUFFICES ASSUME Last(pattern) # Star PROVE full # {} /\ Max(full) = c
    OBVIOUS
  <2>1. c # Len(pattern)
    <3>1. CASE c = 0
      <4>1. Len(pattern) # 0
        BY <1>0, <1>2 DEF InLoop
      <4> QED
        BY <3>1, <4>1
    <3>2. CASE c # 0
      <4>1. pattern[c] = Star
        BY <1>2, <3>2, Zenon DEF Cuts
      <4> QED
        BY <4>1, Zenon DEF Last
    <3> QED
      BY <3>1, <3>2, Zenon
  <2>2. Part(c) # <<>>
    <3>1. End # c + 1
      BY <1>2, <2>1
    <3> QED
      BY <1>0, <1>1, <1>2, <3>1, PartFacts, Zenon
  <2>3. ASSUME NEW y \in Cuts PROVE c >= y
    <3>1. \A i \in c + 1 .. Len(pattern) : pattern[i] # Star
      <4>1. c \in 0 .. Len(pattern) /\ NextCut(c) - 1 = Len(pattern)
        BY <1>1, <1>2
      <4>2. \A i \in c + 1 .. NextCut(c) - 1 : pattern[i] # Star
        BY <1>0, <4>1, CutFacts, Zenon
      <4> QED
        BY <4>1, <4>2, Zenon
    <3>2. y # 0 => pattern[y] = Star
      BY <1>2, Zenon DEF Cuts
    <3> QED
      BY <1>2, <3>1, <3>2
  <2>4. c \in full /\ \A y \in full : c >= y
    BY <2>2, <2>3, Zenon
  <2>5. full \subseteq Nat
    <3>1. full \subseteq 0 .. Len(pattern)
      BY <1>2, Zenon
    <3> HIDE DEF full
    <3> QED
      BY <1>2, <3>1
  <2> HIDE DEF full
  <2>6. PICK x \in full : (\A y \in full : x >= y) /\ Max(full) = x
    BY <2>4, Zenon DEF Max
  <2> QED
    BY <2>4, <2>5, <2>6
<1>4. Matches <=> Ends
  <2> HIDE DEF full
  <2> QED
    BY <1>1, <1>3, Zenon
<1>5. result' = Answer(Matches) /\ result' # "none"
  <2> HIDE DEF Ends
  <2> QED
    BY <1>0, <1>4, Zenon DEF Answer
<1> QED
  BY <1>0, <1>5, Zenon DEF LoopAt

LEMMA ShortcutKeeps ==
    ASSUME LoopInv, Shortcut
    PROVE  LoopAt(cut', pos', result')
<1>0. /\ Strings /\ pos \in 0 .. Len(text) /\ cut \in Cuts \cup {End} /\ UNCHANGED <<cut, pos>>
  BY Zenon DEF LoopInv, LoopAt, Shortcut
<1>1. Len(text) \in Nat /\ Len(pattern) \in Nat /\ Reach[0] = {0}
  BY <1>0, Lengths, ReachIs
<1> SUFFICES result' = Answer(Matches)
  BY <1>0, Zenon DEF LoopAt, Answer
<1>2. CASE pattern = <<Star>> /\ result' = "match"
  <2>1. Len(pattern) = 1 /\ 1 \in 1 .. Len(pattern) /\ pattern[1] = Star /\ 1 - 1 = 0
    BY <1>2
  <2>2. Reach[1] = Grow({0}, 1)
    BY <1>0, <1>1, <2>1, ReachIs, Zenon
  <2>3. Len(text) \in Reach[1]
    <3>1. Len(text) \in 0 .. Len(text) /\ 0 <= Len(text)
      BY <1>1
    <3> QED
      BY <2>1, <2>2, <3>1, Zenon DEF Grow
  <2> QED
    BY <1>2, <2>1, <2>3, Zenon DEF Matches, Answer
<1>3. CASE Stars = {} /\ result' = Answer(pattern = text)
  <2> DEFINE m == Len(pattern)
             q == Len(text) - m
  <2>1. \A i \in 1 .. m : pattern[0 + i] # Star
    BY <1>0, <1>1, <1>3, CutType
  <2>2. 0 \in 0 .. m /\ m \in 0 .. m - 0 /\ Len(text) \in 0 .. Len(text) /\ 0 + m = m
    BY <1>1
  <2>3. Len(text) \in Reach[0 + m] <=> q \in Reach[0] /\ Occurs(0, m, q)
    BY <1>0, <2>1, <2>2, ReachWord, Zenon
  <2>4. Matches <=> q = 0 /\ Occurs(0, m, 0)
    <3> HIDE DEF q
    <3> QED
      BY <1>1, <2>2, <2>3, Zenon DEF Matches
  <2>5. Matches <=> Len(text) = Len(pattern) /\ \A i \in 1 .. m : text[i] = pattern[i]
    BY <1>1, <2>4 DEF Occurs
  <2>6. pattern = text <=> Len(text) = Len(pattern) /\ \A i \in 1 .. m : text[i] = pattern[i]
    <3>1. CASE Len(text) = Len(pattern)
      <4>1. pattern = text <=> \A i \in 1 .. m : pattern[i] = text[i]
        BY <1>0, <3>1, SeqEqual, Zenon DEF Strings
      <4> QED
        BY <3>1, <4>1, Zenon
    <3>2. CASE Len(text) # Len(pattern)
      BY <3>2, Zenon
    <3> QED
      BY <3>1, <3>2, Zenon
  <2> QED
    BY <1>3, <2>5, <2>6, Zenon DEF Answer
<1> QED
  BY <1>2, <1>3, Zenon DEF Shortcut

\* Reach as a function of pattern and text.
ReachOf(p, t) ==
    CHOOSE f : f = [k \in 0 .. Len(p) |->
        IF k = 0 THEN {0}
        ELSE IF p[k] = Star
             THEN {n \in 0 .. Len(t) : \E m \in f[k - 1] : m <= n}
             ELSE {n \in 1 .. Len(t) : n - 1 \in f[k - 1] /\ t[n] = p[k]}]

\* Pattern and text stay as they are, and with them what the pattern means.
LEMMA LoopStep == LoopInv /\ [Next]_vars => LoopInv'
<1> SUFFICES ASSUME LoopInv, [Next]_vars PROVE LoopInv'
  OBVIOUS
<1>1. pattern' = pattern /\ text' = text
  BY Zenon DEF Next, Shortcut, MatchPart, AtEnd, vars
<1>2. LoopAt(cut', pos', result')
  <2>1. CASE UNCHANGED vars
    BY <2>1, Zenon DEF LoopInv, vars
  <2> QED
    BY <2>1, ShortcutKeeps, MatchPartKeeps, AtEndKeeps, Zenon DEF Next
<1>3. Stars' = Stars /\ End' = End /\ Reach' = Reach /\ Last(pattern)' = Last(pattern)
  <2>1. Reach = ReachOf(pattern, text) /\ Reach' = ReachOf(pattern', text')
    BY Zenon DEF Reach, ReachOf
  <2>2. Reach' = Reach
    BY <1>1, <2>1, Zenon
  <2>3. Stars' = Stars
    BY <1>1 DEF Stars
  <2> QED
    BY <1>1, <2>2, <2>3, Zenon DEF End, Last
<1>4. Cuts' = Cuts /\ Matches' = Matches /\ Strings' = Strings
  BY <1>1, <1>3, Zenon DEF Cuts, Matches, Strings
<1>5. \A c : NextCut(c)' = NextCut(c)
  BY <1>3, Zenon DEF NextCut
<1>6. \A c : IsSuffix(Part(c), text)' = IsSuffix(Part(c), text)
  BY <1>1, <1>5, Zenon DEF Part
<1>7. After' = After
  BY <1>3, <1>4, <1>5, <1>6, Zenon DEF After
<1> QED
  BY <1>1, <1>2, <1>3, <1>4, <1>7, Zenon DEF LoopInv, LoopAt, Before

LEMMA LoopInit == Init => LoopInv
<1> SUFFICES ASSUME Init PROVE LoopInv
  OBVIOUS
<1>1. Strings
  <2>1. ASSUME NEW S, NEW m \in Nat, NEW s \in BoundedSeq(S, m) PROVE s \in Seq(S)
    BY <2>1 DEF BoundedSeq, SeqOf
  <2> QED
    BY <2>1, GlobAssumption, Zenon DEF Init, Strings
<1>2. Len(text) \in Nat /\ 0 \in Cuts /\ End \notin Cuts
  BY <1>1, Lengths, CutType DEF Cuts
<1>3. pos \in 0 .. Len(text)
  BY <1>2 DEF Init
<1> QED
  BY <1>1, <1>2, <1>3, Zenon DEF LoopInv, LoopAt, Before, Init

\* For every pattern and text: glob_match says "match" exactly when the text is the
\* pattern with each star standing for any characters.
THEOREM GlobMatchCorrectHolds == Spec => []GlobMatchCorrect
<1>1. LoopInv => GlobMatchCorrect
  BY Zenon DEF LoopInv, LoopAt, GlobMatchCorrect
<1> QED
  BY <1>1, LoopInit, LoopStep, PTL DEF Spec

\* For every pattern and text: text[pos..] does not panic.
THEOREM SliceInBoundsHolds == Spec => []SliceInBounds
<1>1. LoopInv => SliceInBounds
  BY Zenon DEF LoopInv, LoopAt, SliceInBounds
<1> QED
  BY <1>1, LoopInit, LoopStep, PTL DEF Spec
=============================================================================
