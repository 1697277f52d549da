------------------------------ MODULE CleanProofs ------------------------------
(***************************************************************************)
(* Proofs about Runner and Clean, for any runs, contents and ages, any     *)
(* faults of execute and any number of cleans.                             *)
(***************************************************************************)
EXTENDS Clean, TLAPS

RunPcs == Storing \cup {"new", "insert", "writer", "exec", "done", "failed", "aborted", "dead"}

Statuses == {"absent", "running", "failed", "completed"}

CTypes ==
    /\ now \in Nat
    /\ rpc \in [Runs -> RunPcs]
    /\ outs \in [Runs -> SUBSET Contents]
    /\ since \in [Runs -> Nat]
    /\ dir \in SUBSET Runs /\ toml \in SUBSET Runs
    /\ row \in [Runs -> Statuses]
    /\ created \in [Runs -> Nat]
    /\ arts \in [Runs -> SUBSET Blobs]
    /\ present \in SUBSET Blobs
    /\ mtime \in [Blobs -> Nat]
    /\ doomed \in SUBSET Runs /\ listed \in SUBSET Runs /\ hashed \in SUBSET Runs
    /\ refs \in SUBSET Blobs /\ blobsLeft \in SUBSET Blobs
    /\ listAt \in Nat /\ cnow \in Nat /\ cleans \in Nat

\* The blobs of a run and their kinds.
LEMMA BlobType ==
    /\ \A c \in Contents : Out(c) \in Blobs
    /\ \A r \in Runs : {Chunk(r), Index(r), Man(r), Sig(r)} \subseteq Blobs
BY DEF Blobs, Out, Chunk, Index, Man, Sig

LEMMA InitTypes == CInit => CTypes
BY DEF CInit, Init, CTypes, Statuses, RunPcs, Storing

\* What store_impl does to the store.
LEMMA PutType ==
    ASSUME CTypes, NEW bs \in SUBSET Blobs, Put(bs)
    PROVE  present' \in SUBSET Blobs /\ mtime' \in [Blobs -> Nat]
BY Zenon DEF Put, CTypes

\* A step of a run keeps the types.
LEMMA RunTypes ==
    ASSUME CTypes, NEW r \in Runs, RunStep(r), UNCHANGED cleanVars
    PROVE  CTypes'
<1>1. UNCHANGED <<doomed, listed, hashed, refs, blobsLeft, listAt, cnow, cleans>>
  BY Zenon DEF cleanVars
<1>blobs. /\ \A c \in Contents : Out(c) \in Blobs
          /\ {Chunk(r)} \in SUBSET Blobs /\ {Man(r)} \in SUBSET Blobs
          /\ {Sig(r)} \in SUBSET Blobs /\ {Index(r)} \in SUBSET Blobs
  BY BlobType, Zenon
<1> USE DEF CTypes, Goto, Return, fail_run, Statuses, RunPcs, Storing, blobVars
<1>2. CASE CreateDir(r)
  BY <1>1, <1>2, Zenon DEF CreateDir
<1>3. CASE insert_run(r)
  BY <1>1, <1>3, Zenon DEF insert_run
<1>4. CASE OpenTrace(r)
  BY <1>1, <1>4, Zenon DEF OpenTrace
<1>5. CASE RotateChunk(r)
  BY <1>1, <1>blobs, <1>5, PutType, Zenon DEF RotateChunk
<1>6. CASE ExecFails(r)
  BY <1>1, <1>6, Zenon DEF ExecFails
<1>7. CASE ExecEnds(r)
  <2>1. PICK cs \in SUBSET Outs[r] : outs' = [outs EXCEPT ![r] = cs]
    BY <1>7, Zenon DEF ExecEnds
  <2>2. cs \in SUBSET Contents
    BY RunnerAssumption, Zenon
  <2>3. outs' \in [Runs -> SUBSET Contents]
    BY <2>1, <2>2, Zenon
  <2> QED
    BY <1>1, <1>7, <2>3, Zenon DEF ExecEnds
<1>8. CASE PostExecFails(r)
  BY <1>1, <1>8, Zenon DEF PostExecFails
<1>9. CASE StoreOutput(r)
  <2>1. CASE \E c \in outs[r] : /\ Put({Out(c)})
                                /\ arts' = [arts EXCEPT ![r] = @ \cup {Out(c)}]
                                /\ UNCHANGED rpc
    <3>1. PICK c \in outs[r] : /\ Put({Out(c)})
                               /\ arts' = [arts EXCEPT ![r] = @ \cup {Out(c)}]
                               /\ UNCHANGED rpc
      BY <2>1, Zenon
    <3>2. {Out(c)} \in SUBSET Blobs
      BY <1>blobs, Zenon
    <3> QED
      BY <1>1, <1>9, <3>1, <3>2, PutType, Zenon DEF StoreOutput
  <2>2. CASE /\ Goto(r, IF r \in Traced THEN "trace" ELSE "manifest")
             /\ UNCHANGED <<arts, blobVars>>
    BY <1>1, <1>9, <2>2, Zenon DEF StoreOutput
  <2> QED
    BY <1>9, <2>1, <2>2, Zenon DEF StoreOutput
<1>10. CASE StoreTrace(r)
  BY <1>1, <1>blobs, <1>10, PutType, Zenon DEF StoreTrace
<1>11. CASE ReadTraceBack(r)
  BY <1>1, <1>11 DEF ReadTraceBack
<1>12. CASE StoreManifest(r)
  BY <1>1, <1>blobs, <1>12, PutType, Zenon DEF StoreManifest
<1>13. CASE WriteToml(r)
  BY <1>1, <1>13, Zenon DEF WriteToml
<1>14. CASE SignManifest(r)
  BY <1>1, <1>blobs, <1>14, PutType DEF SignManifest
<1>15. CASE complete_run_with_artifacts(r)
  BY <1>1, <1>15 DEF complete_run_with_artifacts
<1>16. CASE RunDies(r)
  BY <1>1, <1>16, Zenon DEF RunDies
<1> QED
  BY <1>2, <1>3, <1>4, <1>5, <1>6, <1>7, <1>8, <1>9, <1>10, <1>11, <1>12, <1>13,
     <1>14, <1>15, <1>16, Zenon DEF RunStep

\* So does a step of clean.
LEMMA CleanTypes ==
    ASSUME CTypes, Cleaner
    PROVE  CTypes'
<1> USE DEF CTypes, vars, runVars, blobVars
<1>1. CASE StartClean
  BY <1>1 DEF StartClean
<1>2. CASE PruneEnds \/ ListRuns \/ ListBlobs
  BY <1>2, Zenon DEF PruneEnds, ListRuns, ListBlobs
<1>3. CASE SweepEnds \/ CleanDies
  BY <1>3 DEF SweepEnds, CleanDies, Unlock
<1>4. ASSUME NEW r \in Runs, delete_run_records(r) \/ RemoveRunDir(r) PROVE CTypes'
  BY <1>4, Zenon DEF delete_run_records, RemoveRunDir, Statuses
<1>5. ASSUME NEW r \in Runs, CollectRefs(r) PROVE CTypes'
  <2>1. Referenced(r) \in SUBSET Blobs
    BY BlobType, Zenon DEF Referenced
  <2>2. {Man(x) : x \in {r} \cap hashed} \in SUBSET Blobs
    BY BlobType, Zenon
  <2> QED
    BY <1>5, <2>1, <2>2, Zenon DEF CollectRefs
<1>6. ASSUME NEW b \in Blobs, SweepBlob(b) PROVE CTypes'
  BY <1>6 DEF SweepBlob
<1> QED
  BY <1>1, <1>2, <1>3, <1>4, <1>5, <1>6, Zenon DEF Cleaner

LEMMA TypesStep == CTypes /\ [CNext]_allVars => CTypes'
<1> SUFFICES ASSUME CTypes, [CNext]_allVars PROVE CTypes'
  OBVIOUS
<1>1. CASE CTick
  BY <1>1 DEF CTick, Tick, CTypes, cleanVars, runVars, blobVars
<1>2. CASE UNCHANGED allVars
  BY <1>2, Zenon DEF allVars, vars, CTypes, cleanVars, runVars, blobVars
<1> QED
  BY <1>1, <1>2, RunTypes, CleanTypes, Zenon DEF CNext

LEMMA TypesHold == CSpec => []CTypes
BY InitTypes, TypesStep, PTL DEF CSpec

-----------------------------------------------------------------------------
(* Rows and directories.                                                   *)

\* What RowHasDir and RunSettled need of the state between two steps: a run
\* that is still to insert its row has its directory, and no clean, which lists
\* the rows there are, has it among the runs to delete.
DirInv ==
    \A r \in Runs :
        /\ row[r] # "absent" => r \in dir
        /\ rpc[r] \in {"new", "insert"} => row[r] = "absent" /\ r \notin doomed
        /\ rpc[r] = "insert" => r \in dir
        /\ rpc[r] \in {"done", "failed"} => row[r] # "running"

LEMMA RunDir ==
    ASSUME CTypes, DirInv, NEW r \in Runs, RunStep(r), UNCHANGED cleanVars
    PROVE  DirInv'
<1>1. UNCHANGED doomed
  BY Zenon DEF cleanVars
<1> USE DEF DirInv, CTypes, Goto, Return, fail_run, Storing
<1>2. CASE CreateDir(r)
  BY <1>1, <1>2, Zenon DEF CreateDir
<1>3. CASE insert_run(r)
  BY <1>1, <1>3, Zenon DEF insert_run
<1>4. CASE OpenTrace(r)
  BY <1>1, <1>4, Zenon DEF OpenTrace
<1>5. CASE RotateChunk(r)
  BY <1>1, <1>5, Zenon DEF RotateChunk
<1>6. CASE ExecFails(r)
  BY <1>1, <1>6, Zenon DEF ExecFails
<1>7. CASE ExecEnds(r)
  BY <1>1, <1>7, Zenon DEF ExecEnds
<1>8. CASE PostExecFails(r)
  BY <1>1, <1>8, Zenon DEF PostExecFails
<1>9. CASE StoreOutput(r)
  BY <1>1, <1>9, Zenon DEF StoreOutput
<1>10. CASE StoreTrace(r)
  BY <1>1, <1>10, Zenon DEF StoreTrace
<1>11. CASE ReadTraceBack(r)
  BY <1>1, <1>11, Zenon DEF ReadTraceBack
<1>12. CASE StoreManifest(r)
  BY <1>1, <1>12, Zenon DEF StoreManifest
<1>13. CASE WriteToml(r)
  BY <1>1, <1>13, Zenon DEF WriteToml
<1>14. CASE SignManifest(r)
  BY <1>1, <1>14, Zenon DEF SignManifest
<1>15. CASE complete_run_with_artifacts(r)
  BY <1>1, <1>15 DEF complete_run_with_artifacts
<1>16. CASE RunDies(r)
  BY <1>1, <1>16, Zenon DEF RunDies
<1> QED
  BY <1>2, <1>3, <1>4, <1>5, <1>6, <1>7, <1>8, <1>9, <1>10, <1>11, <1>12, <1>13,
     <1>14, <1>15, <1>16, Zenon DEF RunStep

LEMMA CleanDir ==
    ASSUME CTypes, DirInv, Cleaner
    PROVE  DirInv'
<1> USE DEF CTypes, DirInv, vars, runVars
<1>1. CASE StartClean
  BY <1>1, Zenon DEF StartClean
<1>2. CASE PruneEnds \/ ListRuns \/ ListBlobs
  BY <1>2, Zenon DEF PruneEnds, ListRuns, ListBlobs
<1>3. CASE SweepEnds \/ CleanDies
  BY <1>3, Zenon DEF SweepEnds, CleanDies, Unlock
<1>4. ASSUME NEW r \in Runs, delete_run_records(r) \/ RemoveRunDir(r) PROVE DirInv'
  BY <1>4, Zenon DEF delete_run_records, RemoveRunDir
<1>5. ASSUME NEW r \in Runs, CollectRefs(r) PROVE DirInv'
  BY <1>5, Zenon DEF CollectRefs
<1>6. ASSUME NEW b \in Blobs, SweepBlob(b) PROVE DirInv'
  BY <1>6, Zenon DEF SweepBlob
<1> QED
  BY <1>1, <1>2, <1>3, <1>4, <1>5, <1>6, Zenon DEF Cleaner

LEMMA DirStep == CTypes /\ DirInv /\ [CNext]_allVars => DirInv'
<1> SUFFICES ASSUME CTypes, DirInv, [CNext]_allVars PROVE DirInv'
  OBVIOUS
<1>1. CASE CTick
  BY <1>1, Zenon DEF CTick, Tick, DirInv, cleanVars, runVars
<1>2. CASE UNCHANGED allVars
  BY <1>2, Zenon DEF allVars, vars, DirInv, cleanVars, runVars
<1> QED
  BY <1>1, <1>2, RunDir, CleanDir, Zenon DEF CNext

LEMMA DirHolds == CSpec => [](CTypes /\ DirInv)
<1>1. CInit => DirInv
  BY Zenon DEF CInit, Init, DirInv
<1> QED
  BY <1>1, DirStep, TypesHold, PTL DEF CSpec

\* execute makes the directory of a run before its row and delete_run removes
\* it after the row, so a run in the database has its directory at every point
\* where either may stop, whatever the other does meanwhile.
THEOREM RowHasDirHolds == CSpec => []RowHasDir
<1>1. DirInv => RowHasDir
  BY Zenon DEF DirInv, RowHasDir
<1> QED
  BY <1>1, DirHolds, PTL

\* Whichever way execute returns once the backend has been asked to run the
\* tool, the row is not left running, also when clean deletes the run meanwhile.
THEOREM RunSettledHolds == CSpec => []RunSettled
<1>1. DirInv => RunSettled
  BY Zenon DEF DirInv, RunSettled
<1> QED
  BY <1>1, DirHolds, PTL

-----------------------------------------------------------------------------
(* Pruned runs.                                                            *)

\* Only insert_run makes a row; fail_run and complete_run_with_artifacts leave
\* the row of a run that clean has deleted as it is.
THEOREM PrunedStaysPrunedHolds == CSpec => PrunedStaysPruned
<1> DEFINE Stays ==
      \A r \in Runs :
          (row[r] = "absent" /\ rpc[r] \notin {"new", "insert"}) => row'[r] = "absent"
<1>1. ASSUME CTypes, NEW r \in Runs, RunStep(r) PROVE Stays
  BY <1>1, Zenon DEF RunStep, CTypes, fail_run, CreateDir, insert_run, OpenTrace, RotateChunk,
              ExecFails, ExecEnds, PostExecFails, StoreOutput, StoreTrace, ReadTraceBack,
              StoreManifest, WriteToml, SignManifest, complete_run_with_artifacts, RunDies
<1>2. ASSUME CTypes, Cleaner PROVE Stays
  <2>1. ASSUME NEW r \in Runs, delete_run_records(r) PROVE Stays
    BY <1>2, <2>1, Zenon DEF delete_run_records, CTypes
  <2>2. CASE UNCHANGED row
    BY <2>2, Zenon
  <2> QED
    BY <1>2, <2>1, <2>2, Zenon DEF Cleaner, StartClean, PruneEnds, ListRuns, ListBlobs, SweepEnds,
         CleanDies, Unlock, RemoveRunDir, CollectRefs, SweepBlob, vars, runVars
<1>3. CTypes /\ [CNext]_allVars => [Stays]_allVars
  BY <1>1, <1>2, Zenon DEF CNext, CTick, Tick, runVars
<1> QED
  BY <1>3, TypesHold, PTL DEF CSpec, PrunedStaysPruned
-----------------------------------------------------------------------------
(* Blobs.                                                                  *)

\* No content may be produced by two runs.
Unshared == \A q, r \in Runs : q # r => Outs[q] \cap Outs[r] = {}

\* No step around an execution fails, no process is killed, no run is pruned.
Undisturbed == ~Faults /\ ~Prunes

\* What min_age has to be for: the time a run takes from its first store to its
\* end and the time a sweep takes to collect the references.
LongMinAge == MinAge > StoreTicks + ScanTicks

Own(r) == {Out(c) : c \in Outs[r]} \cup {Chunk(r), Index(r), Man(r), Sig(r)}

Kept(r) == arts[r] \ {Sig(r)}

Live(r) == Exposed(r) \/ row[r] = "completed"

\* What a run has stored at each point of execute, and for how long.
RunOk(r) ==
    /\ arts[r] \subseteq Own(r) /\ outs[r] \subseteq Outs[r]
    /\ rpc[r] \in {"new", "insert", "writer"} => arts[r] = {}
    /\ rpc[r] = "exec" => arts[r] \subseteq {Chunk(r)}
    /\ rpc[r] = "trace" \/ Chunk(r) \in arts[r] => r \in Traced
    /\ rpc[r] \in {"read", "manifest", "toml", "sign", "commit", "done"}
          /\ Chunk(r) \in arts[r] => Index(r) \in arts[r]
    /\ rpc[r] = "read" => Chunk(r) \in arts[r]
    /\ rpc[r] \in {"toml", "sign", "commit"} => Man(r) \in arts[r]
    /\ rpc[r] \in {"sign", "commit"} /\ row[r] # "absent" => r \in toml
    /\ row[r] = "completed" => rpc[r] = "done" /\ r \in toml
    /\ Exposed(r) => since[r] <= now /\ now <= since[r] + StoreTicks

RunInv == \A r \in Runs : RunOk(r)

\* Of undisturbed runs only those whose tool could not be run have failed.
CalmInv ==
    Undisturbed =>
        /\ doomed = {} /\ cpc \notin {"prune", "rmdir"}
        /\ \A r \in Runs :
              /\ rpc[r] \notin {"dead", "aborted"}
              /\ rpc[r] = "failed" => arts[r] \subseteq {Chunk(r)}
              /\ rpc[r] \notin {"new", "insert"} => row[r] # "absent"

\* A blob is owned by a completed run that refers to it, or by a run in progress
\* that stored it itself.
Owner(q, b) ==
    b \in arts[q] /\ (row[q] = "completed" \/ (Exposed(q) /\ since[q] <= mtime[b]))

\* Every blob that a run in progress or a completed one relies on is there and
\* has an owner, which need not be that run; and a content in the store is there
\* for a run to find only with one.
StoreInv ==
    /\ \A r \in Runs : Live(r) =>
          \A b \in Kept(r) : b \in present /\ \E q \in Runs : Owner(q, b)
    /\ \A b \in present : \E q \in Runs :
          b \in arts[q] /\ (Undisturbed /\ b.kind = "out" => Live(q))

\* What a sweep in progress knows: a blob that was old when the runs were listed
\* belongs to a run that was completed by then, and what those runs refer to is
\* collected.
SweepInv ==
    cpc \in {"collect", "scan"} =>
        /\ listAt <= now
        /\ \A q \in hashed : row[q] = "completed"
        /\ \A q \in hashed \ listed : Kept(q) \subseteq refs
        /\ \A r \in Runs : Live(r) =>
              \A b \in Kept(r) :
                  mtime[b] + StoreTicks < listAt => \E q \in hashed : b \in arts[q]
        /\ cpc = "collect" => now <= listAt + ScanTicks
        /\ cpc = "scan" => /\ listed = {} /\ blobsLeft \cap refs = {}
                           /\ cnow <= listAt + ScanTicks

\* Blobs of different runs differ, contents apart.
LEMMA BlobsDiffer ==
    /\ \A c, d \in Contents : Out(c) = Out(d) => c = d
    /\ \A c \in Contents : Out(c).kind = "out"
    /\ \A q, r \in Runs :
          /\ Chunk(q) \notin {Index(r), Man(r), Sig(r)} /\ Chunk(q).kind = "chunk"
          /\ Index(q) \notin {Man(r), Sig(r)} /\ Index(q).kind = "index"
          /\ Man(q) # Sig(r) /\ Man(q).kind = "manifest" /\ Sig(q).kind = "signature"
          /\ Chunk(q) = Chunk(r) \/ Index(q) = Index(r) \/ Man(q) = Man(r)
                \/ Sig(q) = Sig(r) => q = r
BY Zenon DEF Out, Chunk, Index, Man, Sig

LEMMA OwnKinds ==
    ASSUME NEW r \in Runs, NEW b \in Own(r)
    PROVE  /\ b \in Blobs
           /\ b.kind = "out" => \E c \in Outs[r] : b = Out(c)
           /\ b.kind # "out" => b \in {Chunk(r), Index(r), Man(r), Sig(r)}
           /\ b.kind \in {"out", "chunk", "index", "manifest", "signature"}
           /\ b.kind = "signature" <=> b = Sig(r)
           /\ b.kind = "manifest" <=> b = Man(r)
           /\ b.kind = "chunk" <=> b = Chunk(r)
<1>1. CASE b \in {Out(c) : c \in Outs[r]}
  <2>1. PICK c \in Outs[r] : b = Out(c)
    BY <1>1, Zenon
  <2>2. c \in Contents
    BY RunnerAssumption, Zenon
  <2> QED
    BY <2>1, <2>2, BlobType, BlobsDiffer, Zenon
<1>2. CASE b \in {Chunk(r), Index(r), Man(r), Sig(r)}
  BY <1>2, BlobType, BlobsDiffer, Zenon
<1> QED
  BY <1>1, <1>2, Zenon DEF Own

\* Two runs have at most contents in common, and none if they produce different
\* ones.
LEMMA OwnShared ==
    ASSUME NEW q \in Runs, NEW r \in Runs, NEW b, b \in Own(q), b \in Own(r), q # r
    PROVE  b.kind = "out" /\ ~Unshared
<1>1. b.kind = "out"
  BY OwnKinds, BlobsDiffer
<1>2. PICK c \in Outs[q] : b = Out(c)
  BY <1>1, OwnKinds, Zenon
<1>3. PICK d \in Outs[r] : b = Out(d)
  BY <1>1, OwnKinds, Zenon
<1>4. c \in Contents /\ d \in Contents
  BY RunnerAssumption, Zenon
<1>5. c = d
  BY <1>2, <1>3, <1>4, BlobsDiffer, Zenon
<1> QED
  BY <1>1, <1>5, Zenon DEF Unshared

-----------------------------------------------------------------------------
(* What a step of a run does to the blobs that it and other runs rely on.   *)

Same(q) == rpc'[q] = rpc[q] /\ since'[q] = since[q] /\ row'[q] = row[q] /\ arts'[q] = arts[q]

\* It stores blobs of its own; it may start to be exposed with them.
Stores(r) ==
    \E bs \in SUBSET Own(r) :
        /\ Put(bs)
        /\ arts'[r] = arts[r] \cup bs
        /\ row'[r] = row[r]
        /\ Exposed(r)'
        /\ IF Exposed(r) THEN since'[r] = since[r] ELSE since'[r] = now /\ arts[r] = {}

\* It goes on, or starts to be exposed with nothing in the store.
GoesOn(r) ==
    /\ UNCHANGED blobVars
    /\ arts'[r] = arts[r]
    /\ row[r] = "completed" <=> row'[r] = "completed"
    /\ \/ (Exposed(r)' <=> Exposed(r)) /\ since'[r] = since[r]
       \/ Exposed(r)' /\ arts[r] = {} /\ since'[r] = now

\* It completes.
Completes(r) ==
    /\ UNCHANGED blobVars
    /\ arts'[r] = arts[r]
    /\ Exposed(r) /\ ~Exposed(r)'
    /\ row'[r] = "completed"

\* It ends otherwise: when undisturbed, with no content stored.
Ends(r) ==
    /\ UNCHANGED blobVars
    /\ arts'[r] = arts[r]
    /\ ~Exposed(r)' /\ row'[r] # "completed"
    /\ row[r] # "completed"
    /\ Undisturbed => arts[r] \subseteq {Chunk(r)}

\* The others are left alone.
LEMMA OthersSame ==
    ASSUME CTypes, NEW r \in Runs, RunStep(r)
    PROVE  /\ \A q \in Runs : q # r => Same(q)
           /\ now' = now
<1> USE DEF CTypes, Same, Goto, Return, fail_run
<1> SUFFICES ASSUME NEW q \in Runs PROVE (q # r => Same(q)) /\ now' = now
  OBVIOUS
<1>1. CASE CreateDir(r) \/ insert_run(r) \/ OpenTrace(r)
  BY <1>1, Zenon DEF CreateDir, insert_run, OpenTrace
<1>2. CASE RotateChunk(r) \/ ExecFails(r) \/ ExecEnds(r)
  BY <1>2, Zenon DEF RotateChunk, ExecFails, ExecEnds
<1>3. CASE PostExecFails(r) \/ StoreOutput(r) \/ StoreTrace(r)
  BY <1>3, Zenon DEF PostExecFails, StoreOutput, StoreTrace
<1>4. CASE ReadTraceBack(r) \/ StoreManifest(r) \/ WriteToml(r)
  BY <1>4, Zenon DEF ReadTraceBack, StoreManifest, WriteToml
<1>5. CASE SignManifest(r)
  BY <1>5, Zenon DEF SignManifest
<1>6. CASE complete_run_with_artifacts(r) \/ RunDies(r)
  BY <1>6, Zenon DEF complete_run_with_artifacts, RunDies
<1> QED
  BY <1>1, <1>2, <1>3, <1>4, <1>5, <1>6, Zenon DEF RunStep

LEMMA SameExposed ==
    ASSUME NEW q \in Runs, Same(q)
    PROVE  (Exposed(q)' <=> Exposed(q)) /\ (Live(q)' <=> Live(q)) /\ Kept(q)' = Kept(q)
BY Zenon DEF Same, Exposed, Live, Kept

LEMMA RunRunInv ==
    ASSUME CTypes, DirInv, RunInv, ~TomlFaults, NEW r \in Runs, RunStep(r)
    PROVE  RunInv'
<1>1. ASSUME NEW q \in Runs, q # r PROVE RunOk(q)'
  <2>1. Same(q) /\ now' = now
    BY <1>1, OthersSame, Zenon
  <2>2. outs'[q] = outs[q] /\ (q \in toml => q \in toml')
    BY <1>1, Zenon DEF CTypes, RunStep, CreateDir, insert_run, OpenTrace, RotateChunk, ExecFails,
          ExecEnds, PostExecFails, StoreOutput, StoreTrace, ReadTraceBack, StoreManifest,
          WriteToml, SignManifest, complete_run_with_artifacts, RunDies, Return
  <2> QED
    BY <2>1, <2>2, Zenon DEF RunInv, RunOk, Same, Exposed
<1>2. RunOk(r)'
  <2>0. /\ {Chunk(r), Index(r), Man(r), Sig(r)} \subseteq Own(r)
        /\ Chunk(r) \notin {Index(r), Man(r), Sig(r)} /\ Index(r) \notin {Man(r), Sig(r)}
        /\ Man(r) # Sig(r) /\ StoreTicks \in Nat
        /\ \A c \in Contents : Out(c) \notin {Chunk(r), Index(r), Man(r), Sig(r)}
    BY BlobsDiffer, RunnerAssumption, Zenon DEF Own
  <2> USE DEF CTypes, RunInv, RunOk, Goto, Return, fail_run, Exposed, Storing
  <2>1. CASE CreateDir(r)
    BY <2>0, <2>1, Zenon DEF CreateDir
  <2>2. CASE insert_run(r)
    BY <2>0, <2>2, Zenon DEF insert_run
  <2>3. CASE OpenTrace(r)
    BY <2>0, <2>3, Zenon DEF OpenTrace
  <2>4. CASE RotateChunk(r)
    BY <2>0, <2>4 DEF RotateChunk
  <2>5. CASE ExecFails(r)
    BY <2>0, <2>5, Zenon DEF ExecFails
  <2>6. CASE ExecEnds(r)
    BY <2>0, <2>6 DEF ExecEnds
  <2>7. CASE PostExecFails(r)
    BY <2>0, <2>7, Zenon DEF PostExecFails
  <2>8. CASE StoreOutput(r)
    <3>1. \A c \in outs[r] : Out(c) \in Own(r) /\ c \in Contents
      BY RunnerAssumption, Zenon DEF Own
    <3>2. ASSUME NEW c \in outs[r], arts' = [arts EXCEPT ![r] = @ \cup {Out(c)}], UNCHANGED rpc
          PROVE  RunOk(r)'
      BY <2>0, <2>8, <3>1, <3>2 DEF StoreOutput
    <3>3. ASSUME Goto(r, IF r \in Traced THEN "trace" ELSE "manifest"), UNCHANGED arts
          PROVE  RunOk(r)'
      BY <2>0, <2>8, <3>3, Zenon DEF StoreOutput
    <3> QED
      BY <2>8, <3>2, <3>3, Zenon DEF StoreOutput
  <2>9. CASE StoreTrace(r)
    BY <2>0, <2>9, Zenon DEF StoreTrace
  <2>10. CASE ReadTraceBack(r)
    BY <2>0, <2>10, Zenon DEF ReadTraceBack
  <2>11. CASE StoreManifest(r)
    BY <2>0, <2>11, Zenon DEF StoreManifest
  <2>12. CASE WriteToml(r)
    BY <2>0, <2>12, Zenon DEF WriteToml, DirInv
  <2>13. CASE SignManifest(r)
    BY <2>0, <2>13 DEF SignManifest
  <2>14. CASE complete_run_with_artifacts(r)
    BY <2>0, <2>14, Zenon DEF complete_run_with_artifacts
  <2>15. CASE RunDies(r)
    BY <2>0, <2>15, Zenon DEF RunDies
  <2> QED
    BY <2>1, <2>2, <2>3, <2>4, <2>5, <2>6, <2>7, <2>8, <2>9, <2>10, <2>11, <2>12, <2>13,
       <2>14, <2>15, Zenon DEF RunStep
<1> QED
  BY <1>1, <1>2, Zenon DEF RunInv

\* When undisturbed, a run in progress has its row, its directory and its blobs.
LEMMA CalmRun ==
    ASSUME CTypes, DirInv, RunInv, CalmInv, StoreInv, Undisturbed, NEW r \in Runs,
           rpc[r] \notin {"new", "insert"}
    PROVE  /\ row[r] # "absent" /\ r \in dir
           /\ rpc[r] = "read" => Chunk(r) \in present
           /\ rpc[r] \in {"toml", "sign", "commit"} => Man(r) \in present
<1>1. row[r] # "absent" /\ r \in dir
  BY Zenon DEF CalmInv, DirInv
<1>2. Chunk(r) # Sig(r) /\ Man(r) # Sig(r)
  BY BlobsDiffer, Zenon
<1>3. rpc[r] \in {"read", "toml", "sign", "commit"} => Live(r)
  BY Zenon DEF Live, Exposed, Storing
<1> QED
  BY <1>1, <1>2, <1>3, Zenon DEF RunInv, RunOk, StoreInv, Kept

LEMMA RunEffect ==
    ASSUME CTypes, DirInv, RunInv, CalmInv, StoreInv, NEW r \in Runs, RunStep(r)
    PROVE  Stores(r) \/ GoesOn(r) \/ Completes(r) \/ Ends(r)
<1>0. /\ {Chunk(r), Index(r), Man(r), Sig(r)} \subseteq Own(r)
      /\ \A c \in outs[r] : Out(c) \in Own(r)
      /\ RunOk(r)
  BY Zenon DEF Own, RunInv, RunOk
<1>1. rpc[r] # "done" => row[r] # "completed"
  BY <1>0, Zenon DEF RunOk
<1> USE DEF CTypes, Goto, Return, fail_run, Exposed, Storing, blobVars
<1>2. CASE CreateDir(r) \/ insert_run(r) \/ OpenTrace(r)
  <2>1. arts[r] = {} /\ row[r] # "completed" /\ ~Exposed(r)
    BY <1>0, <1>1, <1>2, Zenon DEF CreateDir, insert_run, OpenTrace, RunOk
  <2>2. UNCHANGED blobVars /\ arts'[r] = {} /\ since'[r] = since[r] /\ row'[r] # "completed"
        /\ rpc'[r] \in {"insert", "aborted", "writer", "exec"}
    BY <1>2, <2>1, Zenon DEF CreateDir, insert_run, OpenTrace
  <2> QED
    BY <2>1, <2>2, Zenon DEF GoesOn
<1>3. CASE RotateChunk(r)
  <2>1. arts[r] = {} /\ ~Exposed(r)
    BY <1>0, <1>3, Zenon DEF RotateChunk, RunOk
  <2>2. {Chunk(r)} \in SUBSET Own(r)
    BY <1>0, Zenon
  <2>3. Put({Chunk(r)}) /\ arts'[r] = arts[r] \cup {Chunk(r)} /\ row'[r] = row[r]
        /\ rpc'[r] = "exec" /\ since'[r] = now
    BY <1>3, Zenon DEF RotateChunk
  <2>4. Exposed(r)'
    BY <2>3, Zenon
  <2> HIDE DEF Exposed
  <2> QED
    BY <2>1, <2>2, <2>3, <2>4, Zenon DEF Stores
<1>4. CASE ExecFails(r)
  BY <1>0, <1>1, <1>4, Zenon DEF ExecFails, Ends, RunOk
<1>5. CASE ExecEnds(r)
  BY <1>0, <1>1, <1>5, Zenon DEF ExecEnds, GoesOn, RunOk
<1>6. CASE PostExecFails(r)
  BY <1>1, <1>6, CalmRun, Zenon DEF PostExecFails, Ends, Undisturbed
<1>7. CASE StoreOutput(r)
  <2>1. Exposed(r) /\ Exposed(r)' /\ row'[r] = row[r] /\ since'[r] = since[r]
    BY <1>7, Zenon DEF StoreOutput
  <2>2. ASSUME NEW c \in outs[r], Put({Out(c)}), arts' = [arts EXCEPT ![r] = @ \cup {Out(c)}]
        PROVE  Stores(r)
    <3>1. {Out(c)} \in SUBSET Own(r) /\ arts'[r] = arts[r] \cup {Out(c)}
      BY <1>0, <2>2, Zenon
    <3> HIDE DEF Exposed
    <3> QED
      BY <2>1, <2>2, <3>1, Zenon DEF Stores
  <2>3. ASSUME UNCHANGED <<arts, blobVars>> PROVE GoesOn(r)
    BY <2>1, <2>3, Zenon DEF GoesOn
  <2> QED
    BY <1>7, <2>2, <2>3, Zenon DEF StoreOutput
<1>8. CASE StoreTrace(r)
  <2>1. Exposed(r) /\ Exposed(r)' /\ row'[r] = row[r] /\ since'[r] = since[r]
    BY <1>8, Zenon DEF StoreTrace
  <2> DEFINE bs == {Index(r)} \cup ({Chunk(r)} \ arts[r])
  <2>2. bs \in SUBSET Own(r) /\ arts'[r] = arts[r] \cup bs /\ Put(bs)
    BY <1>0, <1>8, Zenon DEF StoreTrace
  <2> HIDE DEF Exposed, bs
  <2> QED
    BY <2>1, <2>2, Zenon DEF Stores
<1>9. CASE ReadTraceBack(r)
  BY <1>1, <1>9, CalmRun, Zenon DEF ReadTraceBack, GoesOn, Ends
<1>10. CASE StoreManifest(r)
  <2>1. Exposed(r) /\ Exposed(r)' /\ row'[r] = row[r] /\ since'[r] = since[r]
    BY <1>10, Zenon DEF StoreManifest
  <2>2. {Man(r)} \in SUBSET Own(r) /\ arts'[r] = arts[r] \cup {Man(r)} /\ Put({Man(r)})
    BY <1>0, <1>10, Zenon DEF StoreManifest
  <2> HIDE DEF Exposed
  <2> QED
    BY <2>1, <2>2, Zenon DEF Stores
<1>11. CASE WriteToml(r)
  BY <1>1, <1>11, Zenon DEF WriteToml, GoesOn
<1>12. CASE SignManifest(r)
  <2>1. CASE Put({Sig(r)}) /\ arts' = [arts EXCEPT ![r] = @ \cup {Sig(r)}] /\ Goto(r, "commit")
             /\ UNCHANGED <<row, outs, since>>
    <3>1. Exposed(r) /\ Exposed(r)' /\ row'[r] = row[r] /\ since'[r] = since[r]
      BY <1>12, <2>1, Zenon DEF SignManifest
    <3>2. {Sig(r)} \in SUBSET Own(r) /\ arts'[r] = arts[r] \cup {Sig(r)}
      BY <1>0, <2>1, Zenon
    <3> HIDE DEF Exposed
    <3> QED
      BY <2>1, <3>1, <3>2, Zenon DEF Stores
  <2>2. CASE Goto(r, "commit") /\ UNCHANGED <<row, outs, since, arts, blobVars>>
    BY <1>12, <2>2, Zenon DEF SignManifest, GoesOn
  <2>3. CASE r \notin toml /\ fail_run(r) /\ Return(r, "failed") /\ UNCHANGED <<arts, blobVars>>
    BY <1>0, <1>1, <1>12, <2>3, CalmRun, Zenon DEF SignManifest, Ends, RunOk
  <2> QED
    BY <1>12, <2>1, <2>2, <2>3, Zenon DEF SignManifest
<1>13. CASE complete_run_with_artifacts(r)
  BY <1>1, <1>13, CalmRun, Zenon DEF complete_run_with_artifacts, Completes, Ends
<1>14. CASE RunDies(r)
  BY <1>1, <1>14, Zenon DEF RunDies, Ends, Undisturbed
<1> QED
  BY <1>2, <1>3, <1>4, <1>5, <1>6, <1>7, <1>8, <1>9, <1>10, <1>11, <1>12, <1>13,
     <1>14, Zenon DEF RunStep

LEMMA RunCalm ==
    ASSUME CTypes, DirInv, RunInv, CalmInv, StoreInv, NEW r \in Runs, RunStep(r),
           UNCHANGED cleanVars
    PROVE  CalmInv'
<1> SUFFICES ASSUME Undisturbed PROVE CalmInv'
  BY Zenon DEF CalmInv, Undisturbed
<1>1. UNCHANGED <<cpc, doomed>> /\ ~Faults
  BY Zenon DEF cleanVars, Undisturbed
<1>2. ASSUME NEW q \in Runs, q # r
      PROVE  rpc'[q] = rpc[q] /\ row'[q] = row[q] /\ arts'[q] = arts[q]
  BY <1>2, OthersSame, Zenon DEF Same
<1>3. /\ rpc'[r] \notin {"dead", "aborted"}
      /\ rpc'[r] = "failed" => arts'[r] \subseteq {Chunk(r)}
      /\ rpc'[r] \notin {"new", "insert"} => row'[r] # "absent"
  <2>1. /\ rpc[r] \notin {"new", "insert"} => row[r] # "absent" /\ r \in dir
        /\ rpc[r] \notin {"dead", "aborted"}
        /\ rpc[r] = "read" => Chunk(r) \in present
        /\ rpc[r] \in {"toml", "sign", "commit"} => Man(r) \in present
    BY CalmRun, Zenon DEF CalmInv
  <2>2. /\ rpc[r] = "exec" => arts[r] \subseteq {Chunk(r)}
        /\ rpc[r] \in {"sign", "commit"} /\ row[r] # "absent" => r \in toml
    BY Zenon DEF RunInv, RunOk
  <2> USE DEF CTypes, Goto, Return, fail_run, Storing
  <2>3. CASE CreateDir(r) \/ insert_run(r) \/ OpenTrace(r) \/ ExecFails(r) \/ ExecEnds(r)
    BY <1>1, <2>1, <2>2, <2>3, Zenon DEF CreateDir, insert_run, OpenTrace, ExecFails, ExecEnds
  <2>4. CASE RotateChunk(r) \/ StoreOutput(r) \/ StoreTrace(r) \/ StoreManifest(r)
    BY <1>1, <2>1, <2>4, Zenon DEF RotateChunk, StoreOutput, StoreTrace, StoreManifest
  <2>5. CASE PostExecFails(r) \/ ReadTraceBack(r) \/ WriteToml(r) \/ RunDies(r)
    BY <1>1, <2>1, <2>5, Zenon DEF PostExecFails, ReadTraceBack, WriteToml, RunDies
  <2>6. CASE SignManifest(r) \/ complete_run_with_artifacts(r)
    BY <1>1, <2>1, <2>2, <2>6, Zenon DEF SignManifest, complete_run_with_artifacts
  <2> QED
    BY <2>3, <2>4, <2>5, <2>6, Zenon DEF RunStep
<1> QED
  BY <1>1, <1>2, <1>3, Zenon DEF CalmInv

\* A blob in the store keeps its time and, while its owner goes on, its owner.
LEMMA OwnerKept ==
    ASSUME CTypes, DirInv, RunInv, CalmInv, StoreInv, NEW r \in Runs, RunStep(r),
           NEW b \in present
    PROVE  /\ b \in present' /\ mtime'[b] = mtime[b]
           /\ \A q \in Runs : Owner(q, b) /\ (q = r => ~Ends(r)) => Owner(q, b)'
<1>1. b \in present' /\ mtime'[b] = mtime[b]
  BY RunEffect, Zenon DEF Stores, GoesOn, Completes, Ends, Put, blobVars, CTypes
<1>2. ASSUME NEW q \in Runs, Owner(q, b), q # r PROVE Owner(q, b)'
  <2>1. Same(q)
    BY <1>2, OthersSame, Zenon
  <2> QED
    BY <1>1, <1>2, <2>1, SameExposed, Zenon DEF Owner, Same
<1>3. ASSUME Owner(r, b), ~Ends(r) PROVE Owner(r, b)'
  BY <1>1, <1>3, RunEffect, Zenon DEF Owner, Stores, GoesOn, Completes
<1> QED
  BY <1>1, <1>2, <1>3, Zenon

\* Where a blob that a run relies on comes from: it was relied on before, or it
\* is new in the store.
LEMMA Origin ==
    ASSUME CTypes, DirInv, RunInv, CalmInv, StoreInv, Unshared \/ Undisturbed,
           NEW r \in Runs, RunStep(r), NEW x \in Runs, Live(x)', NEW b \in Kept(x)'
    PROVE  \/ \E y \in Runs : Live(y) /\ b \in Kept(y) /\ (y = r => ~Ends(r))
           \/ /\ b \notin present /\ b \in present' /\ mtime'[b] = now
              /\ Owner(r, b)'
<1>1. CASE x # r
  <2>1. Same(x)
    BY <1>1, OthersSame, Zenon
  <2> QED
    BY <1>1, <2>1, SameExposed, Zenon
<1>2. CASE x = r /\ ~Stores(r)
  BY <1>2, RunEffect, Zenon DEF GoesOn, Completes, Ends, Live, Kept
<1>3. CASE x = r /\ Stores(r)
  <2>1. PICK bs \in SUBSET Own(r) :
           /\ Put(bs)
           /\ arts'[r] = arts[r] \cup bs
           /\ row'[r] = row[r]
           /\ Exposed(r)'
           /\ IF Exposed(r) THEN since'[r] = since[r] ELSE since'[r] = now /\ arts[r] = {}
    BY <1>3, Zenon DEF Stores
  <2>2. ~Ends(r)
    BY <2>1, Zenon DEF Ends
  <2>3. CASE b \in arts[r]
    BY <1>3, <2>1, <2>2, <2>3, Zenon DEF Live, Kept
  <2>4. CASE b \notin arts[r] /\ b \notin present
    <3>1. b \in bs /\ b \in arts'[r]
      BY <1>3, <2>1, <2>4, Zenon DEF Kept
    <3>2. b \in Blobs
      BY <3>1, OwnKinds, Zenon
    <3>3. b \in present' /\ mtime'[b] = now
      BY <2>1, <2>4, <3>1, <3>2, Zenon DEF Put
    <3>4. since'[r] <= now
      BY <2>1 DEF RunInv, RunOk, CTypes
    <3> QED
      BY <2>1, <2>4, <3>1, <3>3, <3>4, Zenon DEF Owner
  <2>5. CASE b \notin arts[r] /\ b \in present
    <3>1. PICK q \in Runs : b \in arts[q] /\ (Undisturbed /\ b.kind = "out" => Live(q))
      BY <2>5, Zenon DEF StoreInv
    <3>2. q # r /\ b \in Own(q) /\ b \in Own(r)
      BY <1>3, <2>1, <2>5, <3>1, Zenon DEF RunInv, RunOk, Kept
    <3>3. b.kind = "out" /\ ~Unshared
      BY <3>2, OwnShared, Zenon
    <3>4. b # Sig(q)
      BY <3>3, BlobsDiffer, Zenon
    <3> QED
      BY <3>1, <3>2, <3>3, <3>4, Zenon DEF Kept
  <2> QED
    BY <2>3, <2>4, <2>5, Zenon
<1> QED
  BY <1>1, <1>2, <1>3, Zenon

LEMMA RunStore ==
    ASSUME CTypes, DirInv, RunInv, CalmInv, StoreInv, Unshared \/ Undisturbed,
           NEW r \in Runs, RunStep(r)
    PROVE  StoreInv'
<1>1. ASSUME NEW x \in Runs, Live(x)', NEW b \in Kept(x)'
      PROVE  b \in present' /\ \E q \in Runs : Owner(q, b)'
  <2>1. CASE \E y \in Runs : Live(y) /\ b \in Kept(y) /\ (y = r => ~Ends(r))
    <3>1. PICK y \in Runs : Live(y) /\ b \in Kept(y) /\ (y = r => ~Ends(r))
      BY <2>1, Zenon
    <3>2. b \in present /\ \E q \in Runs : Owner(q, b)
      BY <3>1, Zenon DEF StoreInv
    <3>3. PICK q \in Runs : Owner(q, b)
      BY <3>2, Zenon
    <3>4. q = r => ~Ends(r)
      <4> SUFFICES ASSUME q = r, Ends(r) PROVE FALSE
        OBVIOUS
      <4>1. y # r /\ b \in Own(y) /\ b \in Own(r)
        BY <3>1, <3>3, Zenon DEF Kept, Owner, RunInv, RunOk
      <4>2. b.kind = "out" /\ Undisturbed
        BY <4>1, OwnShared, Zenon
      <4>3. b = Chunk(r)
        BY <3>3, <4>2, Zenon DEF Ends, Owner
      <4> QED
        BY <4>2, <4>3, BlobsDiffer, Zenon
    <3> QED
      BY <3>2, <3>3, <3>4, OwnerKept, Zenon
  <2> QED
    BY <1>1, <2>1, Origin, Zenon
<1>2. ASSUME NEW b \in present'
      PROVE  \E q \in Runs : b \in arts'[q] /\ (Undisturbed /\ b.kind = "out" => Live(q)')
  <2>1. CASE b \in present
    <3>1. PICK q \in Runs : b \in arts[q] /\ (Undisturbed /\ b.kind = "out" => Live(q))
      BY <2>1, Zenon DEF StoreInv
    <3>2. CASE q # r
      <4>1. Same(q)
        BY <3>2, OthersSame, Zenon
      <4> QED
        BY <3>1, <4>1, SameExposed, Zenon DEF Same
    <3>3. CASE q = r
      <4>1. b \in arts'[r]
        BY <3>1, <3>3, RunEffect, Zenon DEF Stores, GoesOn, Completes, Ends
      <4>2. ASSUME Undisturbed, b.kind = "out" PROVE Live(r)'
        <5>1. b # Chunk(r)
          BY <4>2, BlobsDiffer, Zenon
        <5> QED
          BY <3>1, <3>3, <4>2, <5>1, RunEffect, Zenon DEF Stores, GoesOn, Completes, Ends, Live
      <4> QED
        BY <3>3, <4>1, <4>2, Zenon
    <3> QED
      BY <3>2, <3>3, Zenon
  <2>2. CASE b \notin present
    <3>1. b \in arts'[r] /\ Exposed(r)'
      BY <2>2, RunEffect, Zenon DEF Stores, GoesOn, Completes, Ends, Put, blobVars
    <3> QED
      BY <3>1, Zenon DEF Live
  <2> QED
    BY <2>1, <2>2, Zenon
<1> QED
  BY <1>1, <1>2, Zenon DEF StoreInv, Undisturbed

LEMMA RunSweep ==
    ASSUME CTypes, DirInv, RunInv, CalmInv, StoreInv, SweepInv, ~TomlFaults,
           Unshared \/ Undisturbed, NEW r \in Runs, RunStep(r), UNCHANGED cleanVars
    PROVE  SweepInv'
<1>1. /\ UNCHANGED <<cpc, listed, hashed, refs, listAt, cnow, blobsLeft>>
      /\ now' = now
  BY OthersSame, Zenon DEF cleanVars
<1> SUFFICES ASSUME cpc \in {"collect", "scan"} PROVE SweepInv'
  BY <1>1, Zenon DEF SweepInv
<1>2. ASSUME NEW q \in hashed PROVE row'[q] = "completed" /\ arts'[q] = arts[q]
  <2>1. q \in Runs /\ row[q] = "completed"
    BY Zenon DEF SweepInv, CTypes
  <2>2. CASE q # r
    BY <2>1, <2>2, OthersSame, Zenon DEF Same
  <2>3. CASE q = r
    <3>1. ~Stores(r)
      BY <2>1, <2>3, RunRunInv, Zenon DEF RunInv, RunOk, Stores, Exposed, Storing
    <3> QED
      BY <2>1, <2>3, <3>1, RunEffect, Zenon DEF GoesOn, Completes, Ends
  <2> QED
    BY <2>2, <2>3, Zenon
<1>3. ASSUME NEW x \in Runs, Live(x)', NEW b \in Kept(x)', mtime'[b] + StoreTicks < listAt
      PROVE  \E q \in hashed : b \in arts'[q]
  <2>1. CASE \E y \in Runs : Live(y) /\ b \in Kept(y) /\ (y = r => ~Ends(r))
    <3>1. PICK y \in Runs : Live(y) /\ b \in Kept(y)
      BY <2>1, Zenon
    <3>2. b \in present
      BY <3>1, Zenon DEF StoreInv
    <3>3. mtime'[b] = mtime[b]
      BY <3>2, OwnerKept, Zenon
    <3>4. \E q \in hashed : b \in arts[q]
      BY <1>3, <3>1, <3>3, Zenon DEF SweepInv
    <3> QED
      BY <1>2, <3>4, Zenon
  <2>2. CASE mtime'[b] = now
    BY <1>3, <2>2, RunnerAssumption DEF SweepInv, CTypes
  <2> QED
    BY <1>3, <2>1, <2>2, Origin, Zenon
<1>4. \A q \in hashed : Kept(q)' = Kept(q)
  BY <1>2, Zenon DEF Kept
<1> QED
  BY <1>1, <1>2, <1>3, <1>4, Zenon DEF SweepInv

-----------------------------------------------------------------------------
(* What a step of clean does to them.                                      *)

LEMMA CleanRunInv ==
    ASSUME CTypes, RunInv, Cleaner
    PROVE  RunInv'
<1> USE DEF RunInv, RunOk, Exposed
<1>1. CASE UNCHANGED <<now, runVars>>
  BY <1>1, Zenon DEF runVars
<1>2. ASSUME NEW r \in Runs, delete_run_records(r) \/ RemoveRunDir(r) PROVE RunInv'
  BY <1>2, Zenon DEF delete_run_records, RemoveRunDir, CTypes
<1>3. ASSUME NEW b \in Blobs, SweepBlob(b) PROVE UNCHANGED <<now, runVars>>
  BY <1>3, Zenon DEF SweepBlob
<1>4. ASSUME NEW r \in Runs, CollectRefs(r) PROVE UNCHANGED <<now, runVars>>
  BY <1>4, Zenon DEF CollectRefs, vars
<1> HIDE DEF RunInv
<1> QED
  BY <1>1, <1>2, <1>3, <1>4, Zenon DEF Cleaner, StartClean, PruneEnds, ListRuns, ListBlobs, SweepEnds,
       CleanDies, Unlock, vars

LEMMA CleanCalm ==
    ASSUME CalmInv, Cleaner
    PROVE  CalmInv'
<1> SUFFICES ASSUME Undisturbed PROVE CalmInv'
  BY Zenon DEF CalmInv, Undisturbed
<1>1. /\ doomed = {} /\ cpc \notin {"prune", "rmdir"} /\ ~Prunes
  BY Zenon DEF CalmInv, Undisturbed
<1>2. /\ UNCHANGED <<rpc, row, arts>>
      /\ doomed' = {} /\ cpc' \notin {"prune", "rmdir"}
  <2>1. CASE StartClean \/ ListRuns \/ ListBlobs \/ SweepEnds \/ CleanDies
    BY <1>1, <2>1, Zenon DEF StartClean, ListRuns, ListBlobs, SweepEnds, CleanDies, Unlock, vars, runVars
  <2>2. ASSUME NEW r \in Runs, CollectRefs(r)
        PROVE  UNCHANGED <<rpc, row, arts, doomed, cpc>>
    BY <2>2, Zenon DEF CollectRefs, vars, runVars
  <2>3. ASSUME NEW b \in Blobs, SweepBlob(b)
        PROVE  UNCHANGED <<rpc, row, arts, doomed, cpc>>
    BY <2>3, Zenon DEF SweepBlob, runVars
  <2> QED
    BY <1>1, <2>1, <2>2, <2>3, Zenon DEF Cleaner, PruneEnds, delete_run_records, RemoveRunDir
<1> QED
  BY <1>2, Zenon DEF CalmInv

\* The heart of the matter: a blob that is swept is old, so that its owner was
\* completed when the runs were listed, and then it is among the references.
LEMMA SweptUnused ==
    ASSUME CTypes, RunInv, StoreInv, SweepInv, LongMinAge, NEW b \in Blobs, SweepBlob(b),
           OldEnough(b), NEW r \in Runs, Live(r)
    PROVE  b \notin Kept(r)
<1> SUFFICES ASSUME b \in Kept(r) PROVE FALSE
  OBVIOUS
<1>1. /\ cpc = "scan" /\ b \in blobsLeft
  BY Zenon DEF SweepBlob
<1>2. /\ cnow <= listAt + ScanTicks /\ b \notin refs /\ listed = {}
  BY <1>1, Zenon DEF SweepInv
<1>3. cnow - mtime[b] >= MinAge
  BY Zenon DEF OldEnough
<1>4. mtime[b] + StoreTicks < listAt
  BY <1>2, <1>3, RunnerAssumption, CleanAssumption DEF CTypes, LongMinAge
<1>5. PICK q \in hashed : b \in arts[q]
  BY <1>1, <1>4, Zenon DEF SweepInv
<1>6. q \in Runs
  BY Zenon DEF CTypes
<1>7. b \in Own(r) /\ b \in Own(q) /\ b # Sig(r)
  BY <1>5, <1>6, Zenon DEF Kept, RunInv, RunOk
<1>8. b # Sig(q)
  BY <1>6, <1>7, OwnKinds, BlobsDiffer
<1>9. b \in refs
  BY <1>1, <1>2, <1>5, <1>8, Zenon DEF SweepInv, Kept
<1> QED
  BY <1>2, <1>9, Zenon

LEMMA CleanStore ==
    ASSUME CTypes, RunInv, CalmInv, StoreInv, SweepInv, LongMinAge, Unshared \/ Undisturbed,
           Cleaner
    PROVE  StoreInv'
<1>1. CASE UNCHANGED <<rpc, since, row, arts, present, mtime>>
  BY <1>1, Zenon DEF StoreInv, Live, Kept, Owner, Exposed
<1>2. ASSUME NEW d \in Runs, delete_run_records(d) PROVE StoreInv'
  <2>1. /\ row' = [row EXCEPT ![d] = "absent"] /\ cpc = "prune"
        /\ UNCHANGED <<rpc, since, arts, present, mtime>>
    BY <1>2, Zenon DEF delete_run_records, blobVars
  <2>2. ~Undisturbed /\ Unshared
    BY <2>1, Zenon DEF CalmInv
  <2>3. \A x \in Runs : (Exposed(x)' <=> Exposed(x)) /\ Kept(x)' = Kept(x)
                        /\ (x # d => row'[x] = row[x]) /\ (Live(x)' => Live(x))
    BY <2>1, Zenon DEF Exposed, Kept, Live, CTypes
  <2>4. ASSUME NEW x \in Runs, Live(x)', NEW b \in Kept(x)
        PROVE  b \in present /\ \E q \in Runs : Owner(q, b)'
    <3>1. b \in present /\ \E q \in Runs : Owner(q, b)
      BY <2>3, <2>4, Zenon DEF StoreInv
    <3>2. PICK q \in Runs : Owner(q, b)
      BY <3>1, Zenon
    <3>3. q = x
      BY <2>2, <3>2, OwnShared, Zenon DEF Owner, Kept, RunInv, RunOk
    <3>4. row[x] = "completed" => ~Exposed(x)
      BY Zenon DEF RunInv, RunOk, Exposed, Storing
    <3>5. Owner(x, b)'
      BY <2>1, <2>3, <2>4, <3>2, <3>3, <3>4, Zenon DEF Owner, Live, CTypes
    <3> QED
      BY <3>1, <3>5, Zenon
  <2>5. \A b \in present : \E q \in Runs : b \in arts[q]
    BY Zenon DEF StoreInv
  <2> QED
    BY <2>1, <2>2, <2>3, <2>4, <2>5, Zenon DEF StoreInv, Undisturbed
<1>3. ASSUME NEW b \in Blobs, SweepBlob(b) PROVE StoreInv'
  <2>1. UNCHANGED <<rpc, since, row, arts>>
    BY <1>3, Zenon DEF SweepBlob, runVars
  <2>2. CASE ~OldEnough(b)
    BY <1>1, <1>3, <2>1, <2>2, Zenon DEF SweepBlob, blobVars
  <2>3. CASE OldEnough(b)
    <3>1. present' = present \ {b} /\ \A x \in Blobs : x # b => mtime'[x] = mtime[x]
      BY <1>3, <2>3, Zenon DEF SweepBlob, CTypes
    <3>2. \A x \in Runs : (Exposed(x)' <=> Exposed(x)) /\ Kept(x)' = Kept(x)
                          /\ (Live(x)' <=> Live(x))
      BY <2>1, Zenon DEF Exposed, Kept, Live
    <3>3. ASSUME NEW x \in Runs, Live(x), NEW a \in Kept(x)
          PROVE  a \in present' /\ \E q \in Runs : Owner(q, a)'
      <4>1. a # b /\ a \in Blobs
        BY <1>3, <2>3, <3>3, SweptUnused, Zenon DEF Kept, CTypes
      <4>2. a \in present /\ \E q \in Runs : Owner(q, a)
        BY <3>3, Zenon DEF StoreInv
      <4> QED
        BY <2>1, <3>1, <3>2, <4>1, <4>2, Zenon DEF Owner
    <3>4. ASSUME NEW a \in present'
          PROVE  \E q \in Runs : a \in arts'[q] /\ (Undisturbed /\ a.kind = "out" => Live(q)')
      BY <2>1, <3>1, <3>2, Zenon DEF StoreInv
    <3> QED
      BY <3>2, <3>3, <3>4, Zenon DEF StoreInv, Undisturbed
  <2> QED
    BY <2>2, <2>3, Zenon
<1> QED
  BY <1>1, <1>2, <1>3, Zenon DEF Cleaner, StartClean, PruneEnds, ListRuns, ListBlobs, SweepEnds,
       CleanDies, Unlock, RemoveRunDir, CollectRefs, vars, runVars, blobVars

\* What the manifest of a completed run refers to is what the run has stored,
\* the signature apart.
LEMMA ReferencedKept ==
    ASSUME CTypes, RunInv, StoreInv, NEW r \in Runs, row[r] = "completed"
    PROVE  Kept(r) \subseteq Referenced(r) \cup {Man(r)}
<1> SUFFICES ASSUME NEW b \in Kept(r) PROVE b \in Referenced(r) \cup {Man(r)}
  OBVIOUS
<1>1. b \in Own(r) /\ b \in arts[r] /\ b # Sig(r)
  BY Zenon DEF Kept, RunInv, RunOk
<1>2. CASE b.kind \in {"out", "index"}
  BY <1>1, <1>2, Zenon DEF Referenced
<1>3. CASE b.kind = "chunk"
  <2>1. b = Chunk(r)
    BY <1>1, <1>3, OwnKinds, Zenon
  <2>2. Index(r) \in arts[r]
    BY <1>1, <2>1, Zenon DEF RunInv, RunOk
  <2>3. Index(r) \in present
    BY <2>2, BlobsDiffer, Zenon DEF StoreInv, Live, Kept
  <2> QED
    BY <2>1, <2>3, Zenon DEF Referenced
<1>4. CASE b.kind \in {"manifest", "signature"}
  BY <1>1, <1>4, OwnKinds, Zenon
<1> QED
  BY <1>1, <1>2, <1>3, <1>4, OwnKinds, Zenon

LEMMA CleanSweep ==
    ASSUME CTypes, RunInv, StoreInv, SweepInv, LongMinAge, Cleaner
    PROVE  SweepInv'
<1>1. CASE cpc' \notin {"collect", "scan"}
  BY <1>1, Zenon DEF SweepInv
<1>2. CASE ListRuns
  <2>1. /\ cpc' = "collect" /\ listAt' = now
        /\ listed' = {r \in Runs : row[r] # "absent"}
        /\ hashed' = {r \in Runs : row[r] = "completed"}
        /\ UNCHANGED <<now, rpc, since, row, arts, mtime>>
    BY <1>2, Zenon DEF ListRuns, vars, runVars, blobVars
  <2>2. \A x \in Runs : (Live(x)' <=> Live(x)) /\ Kept(x)' = Kept(x)
    BY <2>1, Zenon DEF Exposed, Kept, Live
  <2>3. ASSUME NEW x \in Runs, Live(x), NEW b \in Kept(x), mtime[b] + StoreTicks < now
        PROVE  \E q \in hashed' : b \in arts[q]
    <3>1. b \in present /\ \E q \in Runs : Owner(q, b)
      BY <2>3, Zenon DEF StoreInv
    <3>2. PICK q \in Runs : Owner(q, b)
      BY <3>1, Zenon
    <3>3. row[q] = "completed"
      <4> SUFFICES ASSUME Exposed(q), since[q] <= mtime[b] PROVE FALSE
        BY <3>2, Zenon DEF Owner
      <4>1. now <= since[q] + StoreTicks
        BY Zenon DEF RunInv, RunOk
      <4>2. mtime[b] \in Nat /\ since[q] \in Nat /\ StoreTicks \in Nat /\ now \in Nat
        BY <3>1, RunnerAssumption, Zenon DEF CTypes
      <4> QED
        BY <2>3, <4>1, <4>2
    <3> QED
      BY <2>1, <3>2, <3>3, Zenon DEF Owner
  <2>4. now <= now + ScanTicks /\ now <= now
    BY CleanAssumption DEF CTypes
  <2> QED
    BY <2>1, <2>2, <2>3, <2>4, Zenon DEF SweepInv
<1>3. ASSUME NEW r \in Runs, CollectRefs(r) PROVE SweepInv'
  <2>1. /\ cpc = "collect" /\ cpc' = "collect" /\ listed' = listed \ {r} /\ r \in listed
        /\ refs' = IF r \in toml
                   THEN refs \cup Referenced(r) \cup {Man(x) : x \in {r} \cap hashed}
                   ELSE refs
        /\ UNCHANGED <<now, rpc, since, row, arts, mtime, hashed, listAt>>
    BY <1>3, Zenon DEF CollectRefs, vars, runVars, blobVars
  <2>2. \A x \in Runs : (Live(x)' <=> Live(x)) /\ Kept(x)' = Kept(x)
    BY <2>1, Zenon DEF Exposed, Kept, Live
  <2>3. hashed \subseteq Runs
    BY Zenon DEF CTypes
  <2>4. ASSUME NEW q \in hashed \ listed' PROVE Kept(q) \subseteq refs'
    <3>1. CASE q # r
      BY <2>1, <2>4, <3>1, Zenon DEF SweepInv
    <3>2. CASE q = r
      <4>1. row[r] = "completed" /\ r \in toml
        BY <2>1, <3>2, Zenon DEF SweepInv, RunInv, RunOk
      <4>2. Referenced(r) \cup {Man(r)} \subseteq refs'
        BY <2>1, <2>4, <3>2, <4>1, Zenon
      <4> QED
        BY <3>2, <4>1, <4>2, ReferencedKept, Zenon
    <3> QED
      BY <3>1, <3>2, Zenon
  <2> QED
    BY <2>1, <2>2, <2>3, <2>4 DEF SweepInv
<1>4. CASE ListBlobs
  <2>1. /\ cpc = "collect" /\ cpc' = "scan" /\ listed = {} /\ cnow' = now
        /\ blobsLeft' = present \ refs
        /\ UNCHANGED <<now, rpc, since, row, arts, mtime, hashed, listAt, listed, refs>>
    BY <1>4, Zenon DEF ListBlobs, vars, runVars, blobVars
  <2>2. \A x \in Runs : (Live(x)' <=> Live(x)) /\ Kept(x)' = Kept(x)
    BY <2>1, Zenon DEF Exposed, Kept, Live
  <2>3. hashed \subseteq Runs
    BY Zenon DEF CTypes
  <2> QED
    BY <2>1, <2>2, <2>3, Zenon DEF SweepInv
<1>5. ASSUME NEW b \in Blobs, SweepBlob(b) PROVE SweepInv'
  <2>1. /\ cpc = "scan" /\ cpc' = "scan" /\ blobsLeft' = blobsLeft \ {b}
        /\ UNCHANGED <<now, rpc, since, row, arts, hashed, listAt, listed, refs, cnow>>
    BY <1>5, Zenon DEF SweepBlob, runVars
  <2>2. \A x \in Runs : (Live(x)' <=> Live(x)) /\ Kept(x)' = Kept(x)
    BY <2>1, Zenon DEF Exposed, Kept, Live
  <2>3. hashed \subseteq Runs
    BY Zenon DEF CTypes
  <2>4. ASSUME NEW x \in Runs, Live(x), NEW a \in Kept(x) PROVE mtime'[a] = mtime[a]
    <3>1. CASE OldEnough(b)
      <4>1. a # b /\ a \in Blobs
        BY <1>5, <2>4, <3>1, SweptUnused, Zenon DEF Kept, CTypes
      <4> QED
        BY <1>5, <3>1, <4>1, Zenon DEF SweepBlob, CTypes
    <3>2. CASE ~OldEnough(b)
      BY <1>5, <3>2, Zenon DEF SweepBlob, blobVars
    <3> QED
      BY <3>1, <3>2, Zenon
  <2> QED
    BY <2>1, <2>2, <2>3, <2>4, Zenon DEF SweepInv
<1> QED
  BY <1>1, <1>2, <1>3, <1>4, <1>5, Zenon DEF Cleaner, StartClean, PruneEnds, SweepEnds, CleanDies,
       Unlock, delete_run_records, RemoveRunDir

-----------------------------------------------------------------------------
(* All together.                                                           *)

KeptInv == RunInv /\ CalmInv /\ StoreInv /\ SweepInv

LEMMA TickKept ==
    ASSUME CTypes, KeptInv, CTick
    PROVE  KeptInv'
<1>1. /\ now' = now + 1 /\ now \in Nat
      /\ \A r \in Runs : Exposed(r) => now - since[r] < StoreTicks
      /\ cpc = "collect" => now - listAt < ScanTicks
      /\ UNCHANGED <<rpc, outs, since, dir, toml, row, created, arts, present, mtime, cpc,
                     doomed, listed, hashed, refs, listAt, cnow, blobsLeft>>
  BY Zenon DEF CTick, Tick, runVars, blobVars, cleanVars, CTypes
<1>2. \A x \in Runs : /\ Exposed(x)' <=> Exposed(x)
                      /\ Live(x)' <=> Live(x)
                      /\ Kept(x)' = Kept(x)
  BY <1>1, Zenon DEF Exposed, Kept, Live
<1>3. RunInv'
  <2> SUFFICES ASSUME NEW r \in Runs PROVE RunOk(r)'
    BY Zenon DEF RunInv
  <2>1. RunOk(r) /\ since[r] \in Nat /\ StoreTicks \in Nat
    BY RunnerAssumption, Zenon DEF KeptInv, RunInv, CTypes
  <2>2. Exposed(r) => since[r] <= now + 1 /\ now + 1 <= since[r] + StoreTicks
    BY <1>1, <2>1 DEF RunOk
  <2> QED
    BY <1>1, <1>2, <2>1, <2>2, Zenon DEF RunOk
<1>4. CalmInv'
  BY <1>1, Zenon DEF KeptInv, CalmInv
<1>5. StoreInv'
  BY <1>1, <1>2, Zenon DEF KeptInv, StoreInv, Owner
<1>6. SweepInv'
  <2>1. listAt \in Nat /\ ScanTicks \in Nat /\ hashed \subseteq Runs
    BY CleanAssumption, Zenon DEF CTypes
  <2>2. cpc = "collect" => now + 1 <= listAt + ScanTicks
    BY <1>1, <2>1
  <2>3. listAt <= now => listAt <= now + 1
    BY <1>1, <2>1
  <2> QED
    BY <1>1, <1>2, <2>1, <2>2, <2>3, Zenon DEF KeptInv, SweepInv
<1> QED
  BY <1>3, <1>4, <1>5, <1>6, Zenon DEF KeptInv

LEMMA KeptStep ==
    ASSUME ~TomlFaults, LongMinAge, Unshared \/ Undisturbed
    PROVE  CTypes /\ DirInv /\ KeptInv /\ [CNext]_allVars => KeptInv'
<1> SUFFICES ASSUME CTypes, DirInv, KeptInv, [CNext]_allVars PROVE KeptInv'
  OBVIOUS
<1>1. ASSUME NEW r \in Runs, RunStep(r), UNCHANGED cleanVars PROVE KeptInv'
  BY <1>1, RunRunInv, RunCalm, RunStore, RunSweep, Zenon DEF KeptInv
<1>2. CASE Cleaner
  BY <1>2, CleanRunInv, CleanCalm, CleanStore, CleanSweep, Zenon DEF KeptInv
<1>3. CASE UNCHANGED allVars
  <2>1. UNCHANGED <<now, rpc, outs, since, dir, toml, row, created, arts, present, mtime, cpc,
                    doomed, listed, hashed, refs, listAt, cnow, blobsLeft>>
    BY <1>3, Zenon DEF allVars, vars, cleanVars, runVars, blobVars
  <2>2. RunInv'
    BY <2>1, Zenon DEF KeptInv, RunInv, RunOk, Exposed
  <2>3. CalmInv'
    BY <2>1, Zenon DEF KeptInv, CalmInv
  <2>4. \A r \in Runs : (Live(r)' <=> Live(r)) /\ Kept(r)' = Kept(r)
    BY <2>1, Zenon DEF Live, Kept, Exposed
  <2>5. StoreInv'
    BY <2>1, <2>4, Zenon DEF KeptInv, StoreInv, Owner, Exposed, Live, Kept
  <2>6. hashed \subseteq Runs
    BY Zenon DEF CTypes
  <2>7. SweepInv'
    BY <2>1, <2>4, <2>6, Zenon DEF KeptInv, SweepInv
  <2> QED
    BY <2>2, <2>3, <2>5, <2>7, Zenon DEF KeptInv
<1> QED
  BY <1>1, <1>2, <1>3, TickKept, Zenon DEF CNext

\* Provided that min_age is longer than a run takes to store its blobs and a
\* sweep takes to collect the references, and that manifest.toml is written,
\* clean never takes a blob from a completed run: with contents shared between
\* runs when nothing fails and nothing is pruned, and under any failures, kills
\* and prunes when no content is shared.
THEOREM ArtifactsKeptHolds ==
    ASSUME ~TomlFaults, LongMinAge, Unshared \/ Undisturbed
    PROVE  CSpec => []ArtifactsKept
<1>1. CInit => KeptInv
  BY Zenon DEF CInit, Init, KeptInv, RunInv, RunOk, CalmInv, StoreInv, SweepInv, Live, Exposed, Storing
<1>2. KeptInv => ArtifactsKept
  BY Zenon DEF KeptInv, StoreInv, Live, Kept, ArtifactsKept
<1> QED
  BY <1>1, <1>2, KeptStep, DirHolds, PTL DEF CSpec
=============================================================================
