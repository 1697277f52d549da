---------------------------- MODULE CasStoreProofs ----------------------------
(***************************************************************************)
(* Proofs about CasStore, for any sets of writers and contents and any     *)
(* number of stores, failing calls, rotted blobs and power losses.         *)
(***************************************************************************)
EXTENDS CasStore, TLAPS

\* Files are records with two fields.
LEMMA FileType ==
    /\ NoFile \in Files /\ NoFile.data = "absent"
    /\ \A d \in Data, ro \in BOOLEAN :
          File(d, ro) \in Files /\ File(d, ro).data = d /\ File(d, ro).ro = ro
BY Zenon DEF NoFile, File, Files, Data

LEMMA RecoveredType ==
    ASSUME NEW f \in Files
    PROVE  /\ Recovered(f) \in Files
           /\ Recovered(f).ro = f.ro
           /\ f.data \in {"absent", "good"} => Recovered(f) = f
           /\ f.data = "absent" <=> Recovered(f).data = "absent"
BY Zenon DEF Recovered, File, Files, Data

-----------------------------------------------------------------------------
(* Types.                                                                  *)

LEMMA InitType == Init => TypeOK
<1> SUFFICES ASSUME Init PROVE TypeOK
  OBVIOUS
<1>1. NoFile \in Files
  BY FileType, Zenon
<1> HIDE DEF NoFile
<1> QED
  BY <1>1, Zenon DEF Init, TypeOK, Pcs

\* Every step keeps the types.
LEMMA TypeStep == TypeOK /\ [Next]_vars => TypeOK'
<1> SUFFICES ASSUME TypeOK, [Next]_vars PROVE TypeOK'
  OBVIOUS
<1> USE DEF TypeOK, counters, Goto, FailClean
<1>1. NoFile \in Files
  BY FileType, Zenon
<1>2. \A d \in Data, ro \in BOOLEAN : File(d, ro) \in Files
  BY FileType, Zenon
<1>3. {"part", "cached", "good", "bad"} \subseteq Data /\ {TRUE, FALSE} \subseteq BOOLEAN
  BY Zenon DEF Data
<1>4. ASSUME NEW w \in Writers, NEW d \in Data, NEW ro \in BOOLEAN, SetTmp(w, d, ro)
      PROVE  tmp' \in [Writers -> Files]
  <2>1. File(d, ro) \in Files
    BY <1>2, Zenon
  <2> QED
    BY <1>4, <2>1, Zenon DEF SetTmp
<1>fault. Fault => faults' \in Nat
  BY DEF Fault
<1> HIDE DEF NoFile
<1>5. ASSUME NEW w \in Writers, Step(w) PROVE TypeOK'
  <2>1. CASE CreateTmp(w)
    <3>1. File("part", FALSE) \in Files
      BY <1>2, <1>3, Zenon
    <3>2. stores' \in Nat
      BY <2>1 DEF CreateTmp
    <3> QED
      BY <2>1, <3>1, <3>2, Zenon DEF CreateTmp, Pcs
  <2>2. CASE WriteTmp(w)
    BY <1>1, <1>3, <1>4, <2>2, <1>fault, Zenon DEF WriteTmp, Pcs
  <2>3. CASE FsyncTmp(w)
    BY <1>1, <1>3, <1>4, <2>3, <1>fault, Zenon DEF FsyncTmp, Pcs
  <2>4. CASE Lookup(w)
    BY <2>4, Zenon DEF Lookup, Pcs
  <2>5. CASE Compare(w)
    BY <1>1, <2>5, <1>fault, Zenon DEF Compare, Pcs
  <2>6. CASE UnlinkOld(w)
    BY <1>1, <2>6, <1>fault DEF UnlinkOld, Pcs
  <2>7. CASE ChmodTmp(w)
    <3>1. tmp[w].data \in Data
      BY Zenon DEF Files
    <3>2. tmp' \in [Writers -> Files]
      BY <1>3, <1>4, <2>7, <3>1, Zenon DEF ChmodTmp
    <3> QED
      BY <2>7, <3>2, <1>fault, Zenon DEF ChmodTmp, Pcs
  <2>8. CASE RenameTmp(w)
    BY <1>1, <2>8, <1>fault, Zenon DEF RenameTmp, Pcs
  <2>9. CASE SyncParentDir(w)
    BY <2>9, <1>fault DEF SyncParentDir, Pcs
  <2> QED
    BY <1>5, <2>1, <2>2, <2>3, <2>4, <2>5, <2>6, <2>7, <2>8, <2>9, Zenon DEF Step
<1>6. ASSUME NEW w \in Writers, CleanupTemps(w) PROVE TypeOK'
  BY <1>1, <1>6, Zenon DEF CleanupTemps
<1>7. ASSUME NEW w \in Writers, Die(w) PROVE TypeOK'
  BY <1>7, Zenon DEF Die, Pcs
<1>8. ASSUME NEW c \in Contents, Rot(c) PROVE TypeOK'
  <2>1. blob[c].ro \in BOOLEAN /\ disk[c].ro \in BOOLEAN
    BY Zenon DEF Files
  <2>2. File("bad", blob[c].ro) \in Files /\ File("bad", disk[c].ro) \in Files
    BY <1>2, <1>3, <2>1, Zenon
  <2>3. rots' \in Nat
    BY <1>8 DEF Rot
  <2> QED
    BY <1>8, <2>2, <2>3, Zenon DEF Rot
<1>9. CASE PowerLoss
  <2>1. PICK kept \in SUBSET Contents :
           blob' = [c \in Contents |->
                      Recovered(IF c \in kept THEN blob[c] ELSE disk[c])]
    BY <1>9, Zenon DEF PowerLoss
  <2>2. ASSUME NEW c \in Contents
        PROVE  Recovered(IF c \in kept THEN blob[c] ELSE disk[c]) \in Files
    BY RecoveredType, Zenon
  <2>3. blob' \in [Contents -> Files]
    BY <2>1, <2>2, Zenon
  <2>4. losses' \in Nat
    BY <1>9 DEF PowerLoss
  <2> QED
    BY <1>1, <1>9, <2>3, <2>4, Zenon DEF PowerLoss, Pcs
<1>10. CASE UNCHANGED vars
  BY <1>10, Zenon DEF vars
<1> QED
  BY <1>5, <1>6, <1>7, <1>8, <1>9, <1>10, Zenon DEF Next

-----------------------------------------------------------------------------
(* What is visible is sound.                                               *)

SoundFile(f) ==
    /\ f.data # "absent" => f.ro
    /\ rots = 0 => f.data \in {"absent", "good"}

\* What BlobsSound needs of the state between two steps: the entries that a
\* power loss may bring back are sound too, and a temporary file is on disk
\* once fsync has returned and read-only once it is about to be renamed.
SoundInv ==
    /\ \A c \in Contents : SoundFile(blob[c]) /\ SoundFile(disk[c])
    /\ \A w \in Writers :
          /\ pc[w] \in {"lookup", "compare", "unlink", "chmod"}
                => tmp[w].data \in {"absent", "good"}
          /\ pc[w] = "rename"
                => tmp[w].data = "absent" \/ (tmp[w].data = "good" /\ tmp[w].ro)

LEMMA InitSound == Init => SoundInv
<1> SUFFICES ASSUME Init PROVE SoundInv
  OBVIOUS
<1>1. NoFile.data = "absent"
  BY FileType, Zenon
<1> QED
  BY <1>1, Zenon DEF Init, SoundInv, SoundFile

\* Every step preserves SoundInv.
LEMMA SoundStep == TypeOK /\ SoundInv /\ [Next]_vars => SoundInv'
<1> SUFFICES ASSUME TypeOK, SoundInv, [Next]_vars PROVE SoundInv'
  OBVIOUS
<1> USE DEF TypeOK, SoundInv, counters, Goto, FailClean
<1>1. NoFile.data = "absent"
  BY FileType, Zenon
<1>2. \A d \in Data, ro \in BOOLEAN :
         File(d, ro).data = d /\ File(d, ro).ro = ro
  BY FileType, Zenon
<1>3. {"part", "cached", "good", "bad"} \subseteq Data /\ {TRUE, FALSE} \subseteq BOOLEAN
  BY Zenon DEF Data
<1>4. UNCHANGED <<blob, disk, rots>>
         => \A c \in Contents : SoundFile(blob[c])' /\ SoundFile(disk[c])'
  BY Zenon DEF SoundFile
<1> HIDE DEF NoFile, File
<1>5. ASSUME NEW w \in Writers, Step(w) PROVE SoundInv'
  <2>1. CASE CreateTmp(w)
    BY <1>4, <2>1, Zenon DEF CreateTmp
  <2>2. CASE WriteTmp(w)
    BY <1>4, <2>2, Zenon DEF WriteTmp, SetTmp
  <2>3. CASE FsyncTmp(w)
    <3>1. File("good", FALSE).data = "good"
      BY <1>2, <1>3, Zenon
    <3> QED
      BY <1>4, <2>3, <3>1, Zenon DEF FsyncTmp, SetTmp
  <2>4. CASE Lookup(w)
    BY <1>4, <2>4, Zenon DEF Lookup
  <2>5. CASE Compare(w)
    BY <1>4, <2>5, Zenon DEF Compare
  <2>6. CASE UnlinkOld(w)
    BY <1>1, <1>4, <2>6, Zenon DEF UnlinkOld, SoundFile
  <2>7. CASE ChmodTmp(w)
    <3>1. tmp[w].data \in Data
      BY Zenon DEF Files
    <3>2. File(tmp[w].data, TRUE).data = tmp[w].data /\ File(tmp[w].data, TRUE).ro
      BY <1>2, <1>3, <3>1, Zenon
    <3> QED
      BY <1>4, <2>7, <3>2, Zenon DEF ChmodTmp, SetTmp
  <2>8. CASE RenameTmp(w)
    <3>1. tmp[w].data # "absent" => SoundFile(tmp[w])
      BY <2>8, Zenon DEF RenameTmp, SoundFile
    <3>2. \A c \in Contents : SoundFile(blob[c])' /\ SoundFile(disk[c])'
      BY <2>8, <3>1, Zenon DEF RenameTmp, SoundFile
    <3> QED
      BY <1>1, <2>8, <3>2, Zenon DEF RenameTmp
  <2>9. CASE SyncParentDir(w)
    BY <2>9 DEF SyncParentDir, SoundFile
  <2> QED
    BY <1>5, <2>1, <2>2, <2>3, <2>4, <2>5, <2>6, <2>7, <2>8, <2>9, Zenon DEF Step
<1>6. ASSUME NEW w \in Writers, CleanupTemps(w) PROVE SoundInv'
  BY <1>1, <1>4, <1>6, Zenon DEF CleanupTemps
<1>7. ASSUME NEW w \in Writers, Die(w) PROVE SoundInv'
  BY <1>4, <1>7, Zenon DEF Die
<1>8. ASSUME NEW c \in Contents, Rot(c) PROVE SoundInv'
  <2>1. blob[c].ro \in BOOLEAN /\ disk[c].ro \in BOOLEAN
    BY Zenon DEF Files
  <2>2. /\ File("bad", blob[c].ro).ro = blob[c].ro
        /\ File("bad", disk[c].ro).ro = disk[c].ro
    BY <1>2, <1>3, <2>1, Zenon
  <2>3. rots' # 0
    BY <1>8 DEF Rot
  <2> QED
    BY <1>8, <2>2, <2>3, Zenon DEF Rot, SoundFile
<1>9. CASE PowerLoss
  <2>1. PICK kept \in SUBSET Contents :
           blob' = [c \in Contents |->
                      Recovered(IF c \in kept THEN blob[c] ELSE disk[c])]
    BY <1>9, Zenon DEF PowerLoss
  <2>2. ASSUME NEW c \in Contents PROVE SoundFile(blob[c])'
    <3>1. PICK f \in Files : f = IF c \in kept THEN blob[c] ELSE disk[c]
      OBVIOUS
    <3>2. SoundFile(f)
      BY <3>1, Zenon
    <3>3. blob'[c] = Recovered(f)
      BY <2>1, <3>1, Zenon
    <3>4. rots' = rots
      BY <1>9, Zenon DEF PowerLoss
    <3> QED
      BY <3>2, <3>3, <3>4, RecoveredType, Zenon DEF SoundFile
  <2>3. disk' = blob'
    BY <1>9, Zenon DEF PowerLoss
  <2>4. pc' = [w \in Writers |-> "idle"]
    BY <1>9, Zenon DEF PowerLoss
  <2>5. \A c \in Contents : SoundFile(blob[c])' /\ SoundFile(disk[c])'
    BY <2>2, <2>3, Zenon DEF SoundFile
  <2> QED
    BY <2>4, <2>5, Zenon
<1>10. CASE UNCHANGED vars
  BY <1>4, <1>10, Zenon DEF vars
<1> QED
  BY <1>5, <1>6, <1>7, <1>8, <1>9, <1>10, Zenon DEF Next

-----------------------------------------------------------------------------
(* What was acknowledged is stored.                                        *)

Calm == faults = 0 /\ rots = 0 /\ losses = 0

\* While the store is calm nobody removes a blob: a writer that found one finds
\* it whole, so it never takes the branch that unlinks.
AckInv ==
    Calm => /\ \A c \in acked : blob[c].data = "good"
            /\ \A w \in Writers :
                  /\ pc[w] # "unlink"
                  /\ pc[w] \in {"compare", "sync"} => blob[item[w]].data = "good"

\* Nothing fails, rots or loses power in a step that leaves things calm.
LEMMA CalmStep ==
    ASSUME TypeOK, [Next]_vars, Calm'
    PROVE  Calm /\ ~Fault /\ ~PowerLoss /\ \A c \in Contents : ~Rot(c)
<1>1. ASSUME NEW c \in Contents, Rot(c) PROVE FALSE
  BY <1>1 DEF Rot, Calm, TypeOK
<1>2. ~PowerLoss
  BY DEF PowerLoss, Calm, TypeOK
<1>fault. ~Fault
  BY DEF Fault, Calm, TypeOK
<1>3. Calm
  <2>1. CASE \E w \in Writers : Step(w) \/ CleanupTemps(w) \/ Die(w)
    BY <1>fault, <2>1, Zenon DEF Calm, Step, CreateTmp, WriteTmp, FsyncTmp, Lookup, Compare,
                UnlinkOld, ChmodTmp, RenameTmp, SyncParentDir, CleanupTemps, Die,
                counters
  <2>2. CASE UNCHANGED vars
    BY <2>2, Zenon DEF vars, counters, Calm
  <2> QED
    BY <1>1, <1>2, <2>1, <2>2, Zenon DEF Next
<1> QED
  BY <1>1, <1>2, <1>3, <1>fault, Zenon

\* Every step preserves AckInv.
LEMMA AckStep == TypeOK /\ SoundInv /\ AckInv /\ [Next]_vars => AckInv'
<1> SUFFICES ASSUME TypeOK, SoundInv, AckInv, [Next]_vars, Calm' PROVE AckInv'
  BY Zenon DEF AckInv
<1>3. Calm /\ ~Fault /\ ~PowerLoss /\ \A c \in Contents : ~Rot(c)
  BY CalmStep, Zenon
<1>4. /\ \A c \in acked : blob[c].data = "good"
      /\ \A w \in Writers :
            /\ pc[w] # "unlink"
            /\ pc[w] \in {"compare", "sync"} => blob[item[w]].data = "good"
      /\ \A c \in Contents : blob[c].data \in {"absent", "good"}
      /\ ~Fault
  BY <1>3, Zenon DEF AckInv, SoundInv, SoundFile, Calm
<1> USE DEF TypeOK, counters, Goto, FailClean
<1>5. ASSUME NEW w \in Writers, Step(w) PROVE AckInv'
  <2>1. CASE CreateTmp(w)
    BY <1>4, <2>1, Zenon DEF CreateTmp, AckInv
  <2>2. CASE WriteTmp(w)
    BY <1>4, <2>2, Zenon DEF WriteTmp, AckInv
  <2>3. CASE FsyncTmp(w)
    BY <1>4, <2>3, Zenon DEF FsyncTmp, AckInv
  <2>4. CASE Lookup(w)
    BY <1>4, <2>4, Zenon DEF Lookup, AckInv
  <2>5. CASE Compare(w)
    BY <1>4, <2>5, Zenon DEF Compare, AckInv
  <2>6. CASE UnlinkOld(w)
    BY <1>4, <2>6, Zenon DEF UnlinkOld
  <2>7. CASE ChmodTmp(w)
    BY <1>4, <2>7, Zenon DEF ChmodTmp, AckInv
  <2>8. CASE RenameTmp(w)
    <3>1. CASE tmp[w].data = "absent"
      BY <1>4, <2>8, <3>1, Zenon DEF RenameTmp, AckInv
    <3>2. CASE tmp[w].data # "absent"
      <4>1. tmp[w].data = "good"
        BY <2>8, <3>2, Zenon DEF RenameTmp, SoundInv
      <4>2. blob' = [blob EXCEPT ![item[w]] = tmp[w]]
        BY <1>4, <2>8, <3>2, Zenon DEF RenameTmp
      <4>3. \A c \in Contents : blob[c].data = "good" => blob'[c].data = "good"
        BY <4>1, <4>2, Zenon
      <4>4. blob'[item[w]].data = "good"
        BY <4>1, <4>2, Zenon
      <4>5. /\ pc' = [pc EXCEPT ![w] = "sync"]
            /\ UNCHANGED <<item, acked>>
        BY <1>4, <2>8, <3>2, Zenon DEF RenameTmp
      <4> QED
        BY <1>4, <4>3, <4>4, <4>5, Zenon DEF AckInv
    <3> QED
      BY <3>1, <3>2, Zenon
  <2>9. CASE SyncParentDir(w)
    BY <1>4, <2>9, Zenon DEF SyncParentDir, AckInv
  <2> QED
    BY <1>5, <2>1, <2>2, <2>3, <2>4, <2>5, <2>6, <2>7, <2>8, <2>9, Zenon DEF Step
<1>6. ASSUME NEW w \in Writers, CleanupTemps(w) PROVE AckInv'
  BY <1>4, <1>6, Zenon DEF CleanupTemps, AckInv
<1>7. ASSUME NEW w \in Writers, Die(w) PROVE AckInv'
  BY <1>4, <1>7, Zenon DEF Die, AckInv
<1>8. CASE UNCHANGED vars
  BY <1>4, <1>8, Zenon DEF vars, AckInv
<1> QED
  BY <1>3, <1>5, <1>6, <1>7, <1>8, Zenon DEF Next

-----------------------------------------------------------------------------
(* What was acknowledged is not corrupt.                                   *)

\* Until the first power loss only rot makes a blob bad, and a writer that is
\* about to return Ok has put its own file there after the last rot.
FreshInv ==
    losses = 0 => /\ \A c \in acked : blob[c].data # "bad"
                  /\ \A w \in Writers : pc[w] = "sync" => blob[item[w]].data # "bad"

\* Every step preserves FreshInv.
LEMMA FreshStep == TypeOK /\ SoundInv /\ FreshInv /\ [Next]_vars => FreshInv'
<1> SUFFICES ASSUME TypeOK, SoundInv, FreshInv, [Next]_vars, losses' = 0 PROVE FreshInv'
  BY Zenon DEF FreshInv
<1>1. NoFile.data = "absent"
  BY FileType, Zenon
<1>2. losses = 0 /\ ~PowerLoss
  <2>1. ~PowerLoss
    BY DEF PowerLoss, TypeOK
  <2>2. losses' = losses
    BY <2>1, Zenon DEF Next, Step, CreateTmp, WriteTmp, FsyncTmp, Lookup, Compare, UnlinkOld,
       ChmodTmp, RenameTmp, SyncParentDir, CleanupTemps, Die, Rot, vars, counters
  <2> QED
    BY <2>1, <2>2, Zenon
<1>3. /\ \A c \in acked : blob[c].data # "bad"
      /\ \A w \in Writers : pc[w] = "sync" => blob[item[w]].data # "bad"
  BY <1>2, Zenon DEF FreshInv
<1> USE DEF TypeOK, counters, Goto, FailClean
<1>4. ASSUME NEW w \in Writers, Step(w) PROVE FreshInv'
  <2>1. CASE CreateTmp(w)
    BY <1>3, <2>1, Zenon DEF CreateTmp, FreshInv
  <2>2. CASE WriteTmp(w)
    BY <1>3, <2>2, Zenon DEF WriteTmp, FreshInv
  <2>3. CASE FsyncTmp(w)
    BY <1>3, <2>3, Zenon DEF FsyncTmp, FreshInv
  <2>4. CASE Lookup(w)
    BY <1>3, <2>4, Zenon DEF Lookup, FreshInv
  <2>5. CASE Compare(w)
    BY <1>3, <2>5, Zenon DEF Compare, FreshInv
  <2>6. CASE UnlinkOld(w)
    BY <1>1, <1>3, <2>6, Zenon DEF UnlinkOld, FreshInv
  <2>7. CASE ChmodTmp(w)
    BY <1>3, <2>7, Zenon DEF ChmodTmp, FreshInv
  <2>8. CASE RenameTmp(w)
    <3>1. CASE UNCHANGED blob /\ pc' = [pc EXCEPT ![w] = "idle"]
      BY <1>3, <2>8, <3>1, Zenon DEF RenameTmp, FreshInv
    <3>2. CASE /\ tmp[w].data # "absent" /\ pc' = [pc EXCEPT ![w] = "sync"]
               /\ blob' = [blob EXCEPT ![item[w]] = tmp[w]]
      <4>1. tmp[w].data = "good"
        BY <2>8, <3>2, Zenon DEF RenameTmp, SoundInv
      <4>2. \A c \in Contents : blob[c].data # "bad" => blob'[c].data # "bad"
        BY <3>2, <4>1, Zenon
      <4>3. blob'[item[w]].data # "bad"
        BY <3>2, <4>1, Zenon
      <4>4. UNCHANGED <<item, acked>>
        BY <2>8, Zenon DEF RenameTmp
      <4> QED
        BY <1>3, <3>2, <4>2, <4>3, <4>4, Zenon DEF FreshInv
    <3> QED
      BY <2>8, <3>1, <3>2, Zenon DEF RenameTmp
  <2>9. CASE SyncParentDir(w)
    BY <1>3, <2>9, Zenon DEF SyncParentDir, FreshInv
  <2> QED
    BY <1>4, <2>1, <2>2, <2>3, <2>4, <2>5, <2>6, <2>7, <2>8, <2>9, Zenon DEF Step
<1>5. ASSUME NEW w \in Writers, CleanupTemps(w) PROVE FreshInv'
  BY <1>3, <1>5, Zenon DEF CleanupTemps, FreshInv
<1>6. ASSUME NEW w \in Writers, Die(w) PROVE FreshInv'
  BY <1>3, <1>6, Zenon DEF Die, FreshInv
<1>7. ASSUME NEW c \in Contents, Rot(c) PROVE FreshInv'
  <2>1. /\ blob' = [blob EXCEPT ![c] = File("bad", @.ro)] /\ acked' = acked \ {c}
        /\ UNCHANGED <<pc, item>> /\ \A w \in Writers : pc[w] = "sync" => item[w] # c
    BY <1>7, Zenon DEF Rot
  <2>2. \A d \in Contents : d # c => blob'[d] = blob[d]
    BY <2>1, Zenon
  <2> QED
    BY <1>3, <2>1, <2>2, Zenon DEF FreshInv
<1>8. CASE UNCHANGED vars
  BY <1>3, <1>8, Zenon DEF vars, FreshInv
<1> QED
  BY <1>2, <1>4, <1>5, <1>6, <1>7, <1>8, Zenon DEF Next

-----------------------------------------------------------------------------
(* Durability.                                                             *)

\* A blob that is there has its entry on disk, or a writer that is to put it there.
Due(c) == \E w \in Writers : pc[w] \in {"sync", "dead"} /\ item[w] = c
DurInv == Calm => \A c \in Contents : blob[c].data = "good" => disk[c].data = "good" \/ Due(c)

\* Every step preserves DurInv.
LEMMA DurStep == TypeOK /\ SoundInv /\ AckInv /\ DurInv /\ [Next]_vars => DurInv'
<1> SUFFICES ASSUME TypeOK, SoundInv, AckInv, DurInv, [Next]_vars, Calm',
                    NEW c \in Contents, blob'[c].data = "good"
             PROVE  disk'[c].data = "good" \/ Due(c)'
  BY Zenon DEF DurInv
<1>1. Calm /\ ~Fault /\ ~PowerLoss /\ \A d \in Contents : ~Rot(d)
  BY CalmStep, Zenon
<1>2. /\ \A w \in Writers : pc[w] # "unlink"
      /\ \A w \in Writers : pc[w] = "sync" => blob[item[w]].data = "good"
      /\ blob[c].data = "good" => disk[c].data = "good" \/ Due(c)
  BY <1>1, Zenon DEF AckInv, DurInv
<1> USE DEF TypeOK, counters, Goto, FailClean
<1>3. ASSUME NEW w \in Writers, Step(w) PROVE disk'[c].data = "good" \/ Due(c)'
  <2>1. CASE CreateTmp(w)
    BY <1>2, <2>1, Zenon DEF CreateTmp, Due
  <2>2. CASE WriteTmp(w) \/ FsyncTmp(w)
    BY <1>1, <1>2, <2>2, Zenon DEF WriteTmp, FsyncTmp, Due
  <2>3. CASE Lookup(w) \/ Compare(w)
    BY <1>1, <1>2, <2>3, Zenon DEF Lookup, Compare, Due
  <2>4. CASE UnlinkOld(w)
    BY <1>2, <2>4, Zenon DEF UnlinkOld
  <2>5. CASE ChmodTmp(w)
    BY <1>1, <1>2, <2>5, Zenon DEF ChmodTmp, Due
  <2>6. CASE RenameTmp(w)
    <3>1. CASE c = item[w] /\ pc'[w] = "sync"
      BY <2>6, <3>1, Zenon DEF RenameTmp, Due
    <3>2. CASE ~(c = item[w] /\ pc'[w] = "sync")
      <4>1. blob'[c] = blob[c] /\ UNCHANGED <<item, disk>>
        BY <1>1, <2>6, <3>2, Zenon DEF RenameTmp
      <4>2. Due(c) => Due(c)'
        BY <1>1, <2>6, <4>1, Zenon DEF RenameTmp, Due
      <4> QED
        BY <1>2, <4>1, <4>2, Zenon
    <3> QED
      BY <3>1, <3>2, Zenon
  <2>7. CASE SyncParentDir(w)
    <3>1. /\ disk' = [disk EXCEPT ![item[w]] = blob[item[w]]]
          /\ pc' = [pc EXCEPT ![w] = "idle"] /\ UNCHANGED <<item, blob>>
      BY <1>1, <2>7, Zenon DEF SyncParentDir
    <3>2. CASE c = item[w]
      BY <3>1, <3>2, Zenon
    <3>3. CASE c # item[w]
      BY <1>2, <3>1, <3>3, Zenon DEF Due
    <3> QED
      BY <3>2, <3>3, Zenon
  <2> QED
    BY <1>3, <2>1, <2>2, <2>3, <2>4, <2>5, <2>6, <2>7, Zenon DEF Step
<1>4. ASSUME NEW w \in Writers, CleanupTemps(w) \/ Die(w)
      PROVE  disk'[c].data = "good" \/ Due(c)'
  BY <1>2, <1>4, Zenon DEF CleanupTemps, Die, Due
<1>5. CASE UNCHANGED vars
  BY <1>2, <1>5, Zenon DEF vars, Due
<1> QED
  BY <1>1, <1>3, <1>4, <1>5, Zenon DEF Next

-----------------------------------------------------------------------------
(* The store keeps its promise.                                            *)

\* What stands under a hash was complete on disk when it was put there, and a
\* writer about to return Ok does not do so over a corrupt file, also after a
\* power loss.
HonestInv ==
    /\ \A c \in Contents : /\ blob[c].data \notin {"part", "cached"}
                           /\ disk[c].data \notin {"part", "cached"}
    /\ \A w \in Writers : pc[w] = "sync" => blob[item[w]].data # "bad"

\* Every step preserves HonestInv.
LEMMA HonestStep == TypeOK /\ SoundInv /\ HonestInv /\ [Next]_vars => HonestInv'
<1> SUFFICES ASSUME TypeOK, SoundInv, HonestInv, [Next]_vars PROVE HonestInv'
  OBVIOUS
<1>1. NoFile.data = "absent"
  BY FileType, Zenon
<1> USE DEF TypeOK, counters, Goto, FailClean, HonestInv
<1>2. ASSUME NEW w \in Writers, Step(w) PROVE HonestInv'
  <2>1. CASE CreateTmp(w)
    BY <2>1, Zenon DEF CreateTmp
  <2>2. CASE WriteTmp(w)
    BY <2>2, Zenon DEF WriteTmp
  <2>3. CASE FsyncTmp(w)
    BY <2>3, Zenon DEF FsyncTmp
  <2>4. CASE Lookup(w)
    BY <2>4, Zenon DEF Lookup
  <2>5. CASE Compare(w)
    BY <2>5, Zenon DEF Compare
  <2>6. CASE UnlinkOld(w)
    BY <1>1, <2>6, Zenon DEF UnlinkOld
  <2>7. CASE ChmodTmp(w)
    BY <2>7, Zenon DEF ChmodTmp
  <2>8. CASE RenameTmp(w)
    <3>1. CASE UNCHANGED blob /\ pc' = [pc EXCEPT ![w] = "idle"]
      BY <2>8, <3>1, Zenon DEF RenameTmp
    <3>2. CASE /\ tmp[w].data # "absent" /\ pc' = [pc EXCEPT ![w] = "sync"]
               /\ blob' = [blob EXCEPT ![item[w]] = tmp[w]]
      <4>1. tmp[w].data = "good"
        BY <2>8, <3>2, Zenon DEF RenameTmp, SoundInv
      <4>2. \A c \in Contents : blob'[c] = blob[c] \/ blob'[c].data = "good"
        BY <3>2, <4>1, Zenon
      <4>3. blob'[item[w]].data = "good"
        BY <3>2, <4>1, Zenon
      <4>4. UNCHANGED <<item, disk>>
        BY <2>8, Zenon DEF RenameTmp
      <4> QED
        BY <3>2, <4>2, <4>3, <4>4, Zenon
    <3> QED
      BY <2>8, <3>1, <3>2, Zenon DEF RenameTmp
  <2>9. CASE SyncParentDir(w)
    BY <2>9, Zenon DEF SyncParentDir
  <2> QED
    BY <1>2, <2>1, <2>2, <2>3, <2>4, <2>5, <2>6, <2>7, <2>8, <2>9, Zenon DEF Step
<1>3. ASSUME NEW w \in Writers, CleanupTemps(w) \/ Die(w) PROVE HonestInv'
  BY <1>3, Zenon DEF CleanupTemps, Die
<1>4. ASSUME NEW c \in Contents, Rot(c) PROVE HonestInv'
  <2>1. /\ blob' = [blob EXCEPT ![c] = File("bad", @.ro)]
        /\ disk' = [disk EXCEPT ![c] = IF @.data = "good" THEN File("bad", @.ro) ELSE @]
        /\ UNCHANGED <<pc, item>> /\ \A w \in Writers : pc[w] = "sync" => item[w] # c
    BY <1>4, Zenon DEF Rot
  <2>2. File("bad", blob[c].ro).data = "bad" /\ File("bad", disk[c].ro).data = "bad"
    BY Zenon DEF File
  <2>3. \A d \in Contents : d # c => blob'[d] = blob[d] /\ disk'[d] = disk[d]
    BY <2>1, Zenon
  <2>4. blob'[c].data = "bad" /\ disk'[c].data \notin {"part", "cached"}
    BY <2>1, <2>2, Zenon
  <2> QED
    BY <2>1, <2>3, <2>4, Zenon
<1>5. CASE PowerLoss
  <2>1. PICK kept \in SUBSET Contents :
           blob' = [c \in Contents |->
                      Recovered(IF c \in kept THEN blob[c] ELSE disk[c])]
    BY <1>5, Zenon DEF PowerLoss
  <2>2. \A c \in Contents : blob'[c] = Recovered(blob[c]) \/ blob'[c] = Recovered(disk[c])
    BY <2>1, Zenon
  <2>3. \A c \in Contents : Recovered(blob[c]) = blob[c] /\ Recovered(disk[c]) = disk[c]
    BY Zenon DEF Recovered
  <2> QED
    BY <1>5, <2>2, <2>3, Zenon DEF PowerLoss
<1>6. CASE UNCHANGED vars
  BY <1>6, Zenon DEF vars
<1> QED
  BY <1>2, <1>3, <1>4, <1>5, <1>6, Zenon DEF Next

\* As long as no call fails and nothing rots, power losses included, nobody
\* removes a blob: a writer that found one, or put one there, has it, and what a
\* power loss would bring back is still there.
Steady == faults = 0 /\ rots = 0
SteadyInv ==
    Steady => /\ \A w \in Writers :
                    /\ pc[w] # "unlink"
                    /\ pc[w] \in {"compare", "sync"} => blob[item[w]].data = "good"
              /\ \A c \in Contents : disk[c].data # "absent" => blob[c].data # "absent"

\* Nothing fails or rots in a step that leaves things steady.
LEMMA SteadyBefore ==
    ASSUME TypeOK, [Next]_vars, Steady'
    PROVE  Steady /\ ~Fault /\ \A c \in Contents : ~Rot(c)
<1>1. ASSUME NEW c \in Contents, Rot(c) PROVE FALSE
  BY <1>1 DEF Rot, Steady, TypeOK
<1>2. ~Fault
  BY DEF Fault, Steady, TypeOK
<1>3. Steady
  BY <1>1, <1>2, Zenon DEF Next, Step, Steady, CreateTmp, WriteTmp, FsyncTmp, Lookup, Compare,
     UnlinkOld, ChmodTmp, RenameTmp, SyncParentDir, CleanupTemps, Die, PowerLoss,
     vars, counters
<1> QED
  BY <1>1, <1>2, <1>3, Zenon

\* Every step preserves SteadyInv.
LEMMA SteadyStep == TypeOK /\ SoundInv /\ SteadyInv /\ [Next]_vars => SteadyInv'
<1> SUFFICES ASSUME TypeOK, SoundInv, SteadyInv, [Next]_vars, Steady' PROVE SteadyInv'
  BY Zenon DEF SteadyInv
<1>1. Steady /\ ~Fault /\ \A c \in Contents : ~Rot(c)
  BY SteadyBefore, Zenon
<1>2. /\ \A w \in Writers :
            /\ pc[w] # "unlink"
            /\ pc[w] \in {"compare", "sync"} => blob[item[w]].data = "good"
      /\ \A c \in Contents : disk[c].data # "absent" => blob[c].data # "absent"
      /\ \A c \in Contents : /\ blob[c].data \in {"absent", "good"}
                             /\ disk[c].data \in {"absent", "good"}
      /\ ~Fault
  BY <1>1, Zenon DEF SteadyInv, SoundInv, SoundFile, Steady
<1> USE DEF TypeOK, counters, Goto, FailClean
<1>3. ASSUME NEW w \in Writers, Step(w) PROVE SteadyInv'
  <2>1. CASE CreateTmp(w)
    BY <1>2, <2>1, Zenon DEF CreateTmp, SteadyInv
  <2>2. CASE WriteTmp(w)
    BY <1>2, <2>2, Zenon DEF WriteTmp, SteadyInv
  <2>3. CASE FsyncTmp(w)
    BY <1>2, <2>3, Zenon DEF FsyncTmp, SteadyInv
  <2>4. CASE Lookup(w)
    BY <1>2, <2>4, Zenon DEF Lookup, SteadyInv
  <2>5. CASE Compare(w)
    BY <1>2, <2>5, Zenon DEF Compare, SteadyInv
  <2>6. CASE UnlinkOld(w)
    BY <1>2, <2>6, Zenon DEF UnlinkOld
  <2>7. CASE ChmodTmp(w)
    BY <1>2, <2>7, Zenon DEF ChmodTmp, SteadyInv
  <2>8. CASE RenameTmp(w)
    <3>1. CASE tmp[w].data = "absent"
      BY <1>2, <2>8, <3>1, Zenon DEF RenameTmp, SteadyInv
    <3>2. CASE tmp[w].data # "absent"
      <4>1. tmp[w].data = "good"
        BY <2>8, <3>2, Zenon DEF RenameTmp, SoundInv
      <4>2. /\ blob' = [blob EXCEPT ![item[w]] = tmp[w]]
            /\ pc' = [pc EXCEPT ![w] = "sync"]
            /\ UNCHANGED <<item, disk>>
        BY <1>2, <2>8, <3>2, Zenon DEF RenameTmp
      <4>3. \A c \in Contents : blob'[c] = blob[c] \/ blob'[c].data = "good"
        BY <4>1, <4>2, Zenon
      <4>4. blob'[item[w]].data = "good"
        BY <4>1, <4>2, Zenon
      <4> QED
        BY <1>2, <4>2, <4>3, <4>4, Zenon DEF SteadyInv
    <3> QED
      BY <3>1, <3>2, Zenon
  <2>9. CASE SyncParentDir(w)
    <3>1. /\ disk' = [disk EXCEPT ![item[w]] = blob[item[w]]]
          /\ pc' = [pc EXCEPT ![w] = "idle"] /\ UNCHANGED <<item, blob>>
      BY <1>2, <2>9, Zenon DEF SyncParentDir
    <3> QED
      BY <1>2, <3>1, Zenon DEF SteadyInv
  <2> QED
    BY <1>3, <2>1, <2>2, <2>3, <2>4, <2>5, <2>6, <2>7, <2>8, <2>9, Zenon DEF Step
<1>4. ASSUME NEW w \in Writers, CleanupTemps(w) \/ Die(w) PROVE SteadyInv'
  BY <1>2, <1>4, Zenon DEF CleanupTemps, Die, SteadyInv
<1>5. CASE PowerLoss
  BY <1>5, Zenon DEF PowerLoss, SteadyInv
<1>6. CASE UNCHANGED vars
  BY <1>2, <1>6, Zenon DEF vars, SteadyInv
<1> QED
  BY <1>1, <1>3, <1>4, <1>5, <1>6, Zenon DEF Next

\* How a step shows from outside: what stands under each hash, and the troubles.
LEMMA KeptStep ==
    /\ \A c \in Contents : Kept[c] = Standing(blob[c]) /\ Kept'[c] = Standing(blob'[c])
    /\ UNCHANGED blob => Kept' = Kept
    /\ \A c \in Contents : \A f :
          blob \in [Contents -> Files] /\ blob' = [blob EXCEPT ![c] = f]
             => Kept' = [Kept EXCEPT ![c] = Standing(f)]
<1>1. /\ Kept = [d \in Contents |-> Standing(blob[d])]
      /\ Kept' = [d \in Contents |-> Standing(blob'[d])]
  BY Zenon DEF Kept
<1>2. ASSUME NEW c \in Contents, NEW f, blob \in [Contents -> Files],
             blob' = [blob EXCEPT ![c] = f]
      PROVE  Kept' = [Kept EXCEPT ![c] = Standing(f)]
  <2>1. \A d \in Contents : Standing(blob'[d]) = IF d = c THEN Standing(f) ELSE Kept[d]
    BY <1>1, <1>2, Zenon
  <2>2. Kept' = [d \in Contents |-> IF d = c THEN Standing(f) ELSE Kept[d]]
    BY <1>1, <2>1, Zenon
  <2> QED
    BY <1>1, <2>2, Zenon
<1> QED
  BY <1>1, <1>2, Zenon

LEMMA TroublesStep ==
    /\ Troubles = {} <=> Steady
    /\ "rot" \in Troubles <=> rots # 0
    /\ UNCHANGED <<faults, rots>> => Troubles' = Troubles
    /\ TypeOK /\ Fault /\ UNCHANGED rots => Troubles' = Troubles \cup {"fault"}
    /\ TypeOK /\ rots' = rots + 1 /\ UNCHANGED faults => Troubles' = Troubles \cup {"rot"}
BY DEF Troubles, Steady, TypeOK, Fault

\* A step that leaves the blobs and what is acknowledged alone is at most a
\* failing call.
LEMMA Unseen ==
    ASSUME TypeOK, UNCHANGED <<blob, acked, rots>>, Fault \/ UNCHANGED faults
    PROVE  [Promise!Next]_(Promise!storeVars)
BY KeptStep, TroublesStep, Zenon DEF Promise!Next, Promise!Fail, Promise!storeVars

\* Every step of store_impl and of its environment is one of AtomicStore, or is
\* not seen.
LEMMA PromiseStep ==
    TypeOK /\ SoundInv /\ HonestInv /\ SteadyInv /\ [Next]_vars
       => [Promise!Next]_(Promise!storeVars)
<1> SUFFICES ASSUME TypeOK, SoundInv, HonestInv, SteadyInv, [Next]_vars
             PROVE  [Promise!Next]_(Promise!storeVars)
  OBVIOUS
<1>1. ASSUME NEW c \in Contents
      PROVE  /\ blob[c].data = "good" => Kept[c] = "intact"
             /\ Kept[c] = "damaged" => blob[c].data = "bad"
  BY <1>1, KeptStep, Zenon DEF Standing, TypeOK, Files, Data, HonestInv, SoundInv, SoundFile
<1>2. ASSUME NEW c \in Contents, UNCHANGED <<blob, rots>>, Fault \/ UNCHANGED faults,
             acked' = acked \cup {c}, blob[c].data # "bad",
             Steady => blob[c].data = "good"
      PROVE  [Promise!Next]_(Promise!storeVars)
  <2>1. Promise!Acknowledge(c)
    BY <1>1, <1>2, KeptStep, TroublesStep, Zenon DEF Promise!Acknowledge
  <2> QED
    BY <2>1, Zenon DEF Promise!Next
<1>3. ASSUME NEW w \in Writers, Step(w) PROVE [Promise!Next]_(Promise!storeVars)
  <2> USE DEF counters, Goto, FailClean
  <2>0. item[w] \in Contents /\ blob \in [Contents -> Files]
    BY Zenon DEF TypeOK
  <2>1. CASE CreateTmp(w) \/ WriteTmp(w) \/ FsyncTmp(w) \/ Lookup(w) \/ ChmodTmp(w)
    BY <2>1, Unseen, Zenon DEF CreateTmp, WriteTmp, FsyncTmp, Lookup, ChmodTmp
  <2>2. CASE Compare(w)
    <3>1. CASE UNCHANGED acked /\ (Fault \/ UNCHANGED faults)
      BY <2>2, <3>1, Unseen, Zenon DEF Compare
    <3>2. CASE /\ blob[item[w]].data \in {"good", "cached"}
               /\ acked' = acked \cup {item[w]} /\ UNCHANGED faults
      <4>1. blob[item[w]].data = "good"
        BY <2>0, <3>2, Zenon DEF HonestInv
      <4> QED
        BY <1>2, <2>0, <2>2, <3>2, <4>1, Zenon DEF Compare
    <3> QED
      BY <2>2, <3>1, <3>2, Zenon DEF Compare
  <2>3. CASE UnlinkOld(w)
    <3>1. CASE UNCHANGED blob /\ Fault
      BY <2>3, <3>1, Unseen, Zenon DEF UnlinkOld
    <3>2. CASE blob' = [blob EXCEPT ![item[w]] = NoFile] /\ UNCHANGED faults
      <4>1. Troubles # {}
        BY <2>3, TroublesStep, Zenon DEF UnlinkOld, SteadyInv
      <4>2. Standing(NoFile) = "absent"
        BY FileType, Zenon DEF Standing
      <4>3. Promise!Withdraw(item[w])
        BY <2>0, <2>3, <3>2, <4>1, <4>2, KeptStep, TroublesStep, Zenon
           DEF UnlinkOld, Promise!Withdraw
      <4> QED
        BY <2>0, <4>3, Zenon DEF Promise!Next
    <3> QED
      BY <2>3, <3>1, <3>2, Zenon DEF UnlinkOld
  <2>4. CASE RenameTmp(w)
    <3>1. CASE UNCHANGED blob /\ (Fault \/ UNCHANGED faults)
      BY <2>4, <3>1, Unseen, Zenon DEF RenameTmp
    <3>2. CASE /\ tmp[w].data # "absent" /\ UNCHANGED faults
               /\ blob' = [blob EXCEPT ![item[w]] = tmp[w]]
      <4>1. Standing(tmp[w]) = "intact"
        BY <2>4, <3>2, Zenon DEF RenameTmp, SoundInv, Standing
      <4>2. Promise!Publish(item[w])
        BY <2>0, <2>4, <3>2, <4>1, KeptStep, TroublesStep, Zenon
           DEF RenameTmp, Promise!Publish
      <4> QED
        BY <2>0, <4>2, Zenon DEF Promise!Next
    <3> QED
      BY <2>4, <3>1, <3>2, Zenon DEF RenameTmp
  <2>5. CASE SyncParentDir(w)
    <3>1. blob[item[w]].data # "bad" /\ (Steady => blob[item[w]].data = "good")
      BY <2>5, Zenon DEF SyncParentDir, HonestInv, SteadyInv
    <3> QED
      BY <1>2, <2>0, <2>5, <3>1, Zenon DEF SyncParentDir
  <2> QED
    BY <1>3, <2>1, <2>2, <2>3, <2>4, <2>5, Zenon DEF Step
<1>4. ASSUME NEW w \in Writers, CleanupTemps(w) \/ Die(w)
      PROVE  [Promise!Next]_(Promise!storeVars)
  BY <1>4, Unseen, Zenon DEF CleanupTemps, Die, counters
<1>5. ASSUME NEW c \in Contents, Rot(c) PROVE [Promise!Next]_(Promise!storeVars)
  <2>1. Standing(File("bad", blob[c].ro)) = "damaged"
    BY Zenon DEF Standing, File
  <2>2. Kept' = [Kept EXCEPT ![c] = "damaged"]
    <3>1. PICK f : f = File("bad", blob[c].ro)
      OBVIOUS
    <3>2. blob' = [blob EXCEPT ![c] = f] /\ blob \in [Contents -> Files]
      BY <1>5, <3>1, Zenon DEF Rot, TypeOK
    <3> QED
      BY <2>1, <3>1, <3>2, KeptStep, Zenon
  <2>3. Promise!Damage(c)
    BY <1>1, <1>5, <2>2, TroublesStep, Zenon DEF Rot, Promise!Damage
  <2> QED
    BY <2>3, Zenon DEF Promise!Next
<1>6. CASE PowerLoss
  <2>1. PICK kept \in SUBSET Contents :
           blob' = [c \in Contents |->
                      Recovered(IF c \in kept THEN blob[c] ELSE disk[c])]
    BY <1>6, Zenon DEF PowerLoss
  <2>2. \A c \in Contents : Recovered(blob[c]) = blob[c] /\ Recovered(disk[c]) = disk[c]
    BY Zenon DEF Recovered, HonestInv
  <2>3. \A c \in Contents : blob'[c] = blob[c] \/ blob'[c] = disk[c]
    BY <2>1, <2>2, Zenon
  <2>4. Kept' \in [Contents -> Promise!States]
    BY Zenon DEF Kept, Standing, Promise!States
  <2>5. ASSUME NEW c \in Contents, Troubles = {} PROVE Kept'[c] \in {Kept[c], "absent"}
    <3>1. Steady
      BY <2>5, TroublesStep, Zenon
    <3>2. /\ disk[c].data \in {"absent", "good"} /\ (disk[c].data = "good" => disk[c].ro)
          /\ blob[c].data \in {"absent", "good"} /\ (blob[c].data = "good" => blob[c].ro)
          /\ disk[c].data # "absent" => blob[c].data # "absent"
      BY <3>1, Zenon DEF Steady, SoundInv, SoundFile, SteadyInv
    <3> QED
      BY <2>3, <3>2, KeptStep, Zenon DEF Standing
  <2>6. ASSUME NEW c \in Contents, Kept'[c] = "damaged" PROVE "rot" \in Troubles
    <3>1. rots = 0 => Standing(blob[c]) # "damaged" /\ Standing(disk[c]) # "damaged"
      BY Zenon DEF Standing, SoundInv, SoundFile
    <3> QED
      BY <2>3, <2>6, <3>1, KeptStep, TroublesStep, Zenon
  <2>7. UNCHANGED <<acked, faults, rots>>
    BY <1>6, Zenon DEF PowerLoss
  <2>8. Promise!Crash
    BY <2>4, <2>5, <2>6, <2>7, TroublesStep, Zenon DEF Promise!Crash
  <2> QED
    BY <2>8, Zenon DEF Promise!Next
<1>7. CASE UNCHANGED vars
  BY <1>7, Unseen, Zenon DEF vars, counters
<1> QED
  BY <1>3, <1>4, <1>5, <1>6, <1>7, Zenon DEF Next

-----------------------------------------------------------------------------
(* The theorems.                                                           *)

LEMMA Inductive == Spec => [](TypeOK /\ SoundInv /\ AckInv /\ DurInv)
<1>1. Init => TypeOK /\ SoundInv /\ AckInv /\ DurInv
  BY InitType, InitSound, Zenon DEF Init, AckInv, DurInv, NoFile, File
<1>2. TypeOK /\ SoundInv /\ AckInv /\ DurInv /\ [Next]_vars
        => TypeOK' /\ SoundInv' /\ AckInv' /\ DurInv'
  BY TypeStep, SoundStep, AckStep, DurStep, Zenon
<1> QED
  BY <1>1, <1>2, PTL DEF Spec

\* What is visible under a hash is complete, on disk and read-only: store_impl
\* keeps this for any number of concurrent writers, deaths, failures and power
\* losses.
THEOREM StoreSound == Spec => []BlobsSound
<1>1. SoundInv => BlobsSound
  BY Zenon DEF SoundInv, SoundFile, BlobsSound
<1> QED
  BY <1>1, Inductive, PTL

\* While nothing rots and the power stays on, a content whose store returned Ok
\* stays, whatever the other callers of store_impl and cleanup_temps do.
THEOREM AckedStays == Spec => []AckedStored
<1>1. AckInv => AckedStored
  BY Zenon DEF AckInv, Calm, AckedStored
<1> QED
  BY <1>1, Inductive, PTL

\* While nothing fails or rots, an acknowledged content is durable but for the
\* sync_parent_dir of the writer that renamed it, for any number of callers.
THEOREM AckedDurableOrDue == Spec => []DurableOrDue
<1>1. TypeOK /\ AckInv /\ DurInv => DurableOrDue
  BY Zenon DEF TypeOK, AckInv, DurInv, Due, Calm, DurableOrDue
<1> QED
  BY <1>1, Inductive, PTL

\* Until the first power loss, a content whose store returned Ok and that has not
\* rotted since is not corrupt, whatever fails, dies or rots before: store_impl
\* re-hashes what it finds at the final path, and replaces what does not match.
THEOREM AckedNotCorrupt == Spec => []AckNeverCorrupt
<1>1. Init => FreshInv
  BY Zenon DEF Init, FreshInv
<1>2. FreshInv => AckNeverCorrupt
  BY Zenon DEF FreshInv, AckNeverCorrupt
<1>3. Spec => []FreshInv
  BY <1>1, FreshStep, Inductive, PTL DEF Spec
<1> QED
  BY <1>2, <1>3, PTL

\* store_impl, with its temporary files, renames and syncs, any number of callers,
\* failing calls, deaths, rot and power losses, implements the atomic store.
THEOREM StoreImplemented == Spec => ImplementsStore
<1>1. Init => Promise!Init
  <2>1. Standing(NoFile) = "absent"
    BY FileType, Zenon DEF Standing
  <2>2. Init => Kept = [c \in Contents |-> "absent"]
    BY <2>1, Zenon DEF Init, Kept
  <2> QED
    BY <2>2, TroublesStep, Zenon DEF Init, Steady, Promise!Init
<1>2. Init => HonestInv /\ SteadyInv
  BY FileType, Zenon DEF Init, HonestInv, SteadyInv
<1>3. Spec => [](TypeOK /\ SoundInv /\ HonestInv /\ SteadyInv)
  BY <1>2, Inductive, HonestStep, SteadyStep, PTL DEF Spec
<1> QED
  BY <1>1, <1>3, PromiseStep, PTL DEF Spec, ImplementsStore, Promise!Spec
=============================================================================
