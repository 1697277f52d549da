-------------------------------- MODULE Clean --------------------------------
(***************************************************************************)
(* `oaie clean` (crates/oaie-cli/src/clean.rs) next to the runs of Runner: *)
(* prune deletes old runs, sweep deletes the blobs that no remaining run   *)
(* refers to and that are older than min_age.  The lock file admits one    *)
(* clean at a time; it takes no lock against runs.                         *)
(***************************************************************************)
EXTENDS Runner

CONSTANTS
    MinAge,      \* --min-age
    PruneAge,    \* --older-than
    Prunes,      \* cleans may be given --older-than
    ScanTicks,   \* bound: time a sweep takes to collect the references
    MaxCleans    \* bound: cleans started

ASSUME CleanAssumption ==
    /\ {MinAge, PruneAge, ScanTicks, MaxCleans} \subseteq Nat
    /\ Prunes \in BOOLEAN

VARIABLES
    cpc,        \* control point of the clean that holds the lock
    doomed,     \* prune: runs still to delete
    listed,     \* sweep: runs still to read
    hashed,     \* those whose row named a manifest when they were listed
    refs,       \* sweep: referenced
    listAt,     \* when the runs were listed
    cnow,       \* sweep: now
    blobsLeft,  \* sweep: blobs still to look at
    cleans

cleanVars == <<cpc, doomed, listed, hashed, refs, listAt, cnow, blobsLeft, cleans>>
allVars == <<vars, cleanVars>>

CInit ==
    /\ Init
    /\ cpc = "idle"
    /\ doomed = {} /\ listed = {} /\ hashed = {} /\ refs = {} /\ blobsLeft = {}
    /\ listAt = 0 /\ cnow = 0 /\ cleans = 0

\* clean returns: its locals are gone and the lock is released.
Unlock ==
    /\ cpc' = "idle"
    /\ doomed' = {} /\ listed' = {} /\ hashed' = {} /\ refs' = {} /\ blobsLeft' = {}
    /\ listAt' = 0 /\ cnow' = 0
    /\ UNCHANGED <<vars, cleans>>

\* CleanLock::acquire and the start of prune_runs: the cutoff is computed and
\* the runs are listed once.
StartClean ==
    /\ cpc = "idle"
    /\ cleans < MaxCleans
    /\ cleans' = cleans + 1
    /\ \/ cpc' = "list" /\ UNCHANGED doomed
       \/ /\ Prunes
          /\ cpc' = "prune"
          /\ doomed' = {r \in Runs : row[r] # "absent" /\ created[r] < now - PruneAge}
    /\ UNCHANGED <<vars, listed, hashed, refs, listAt, cnow, blobsLeft>>

\* Mutant: the directory goes first.
delete_run_records_DirFirst(r) ==
    /\ cpc = "prune"
    /\ r \in doomed
    /\ dir' = dir \ {r}
    /\ toml' = toml \ {r}
    /\ cpc' = "rmdir"
    /\ UNCHANGED <<now, rpc, outs, since, row, created, arts, blobVars, doomed, listed,
                   hashed, refs, listAt, cnow, blobsLeft, cleans>>

\* delete_run, first half: the records, in one transaction, whatever the run's
\* status.
delete_run_records(r) ==
    /\ cpc = "prune"
    /\ r \in doomed
    /\ row' = [row EXCEPT ![r] = "absent"]
    /\ cpc' = "rmdir"
    /\ UNCHANGED <<now, rpc, outs, since, dir, toml, created, arts, blobVars, doomed,
                   listed, hashed, refs, listAt, cnow, blobsLeft, cleans>>

\* delete_run, second half: the run directory.
RemoveRunDir(r) ==
    /\ cpc = "rmdir"
    /\ r \in doomed
    /\ row[r] = "absent"
    /\ doomed' = doomed \ {r}
    /\ dir' = dir \ {r}
    /\ toml' = toml \ {r}
    /\ cpc' = "prune"
    /\ UNCHANGED <<now, rpc, outs, since, row, created, arts, blobVars, listed, hashed,
                   refs, listAt, cnow, blobsLeft, cleans>>

PruneEnds ==
    /\ cpc = "prune"
    /\ doomed = {}
    /\ cpc' = "list"
    /\ UNCHANGED <<vars, doomed, listed, hashed, refs, listAt, cnow, blobsLeft, cleans>>

\* sweep_blobs: list_all_runs.
ListRuns ==
    /\ cpc = "list"
    /\ cpc' = "collect"
    /\ listed' = {r \in Runs : row[r] # "absent"}
    /\ hashed' = {r \in Runs : row[r] = "completed"}
    /\ refs' = {}
    /\ listAt' = now
    /\ UNCHANGED <<vars, doomed, cnow, blobsLeft, cleans>>

\* What the manifest of a run refers to: its artifacts, the trace index and, if
\* that can be read, its chunks.
Referenced(r) ==
    {b \in arts[r] : b.kind \in {"out", "index"}}
    \cup (IF Index(r) \in present THEN {Chunk(r)} ELSE {})

\* Mutant: the chunks behind the index are not followed.
CollectRefs_NoChunks(r) ==
    /\ cpc = "collect"
    /\ r \in listed
    /\ listed' = listed \ {r}
    /\ refs' = IF r \in toml
               THEN refs \cup {b \in arts[r] : b.kind \in {"out", "index"}}
                         \cup {Man(x) : x \in {r} \cap hashed}
               ELSE refs
    /\ UNCHANGED <<vars, cpc, doomed, hashed, listAt, cnow, blobsLeft, cleans>>

\* One turn of the loop over the runs: a manifest that cannot be read skips the
\* run, its manifest hash included.
CollectRefs(r) ==
    /\ cpc = "collect"
    /\ r \in listed
    /\ listed' = listed \ {r}
    /\ refs' = IF r \in toml
               THEN refs \cup Referenced(r) \cup {Man(x) : x \in {r} \cap hashed}
               ELSE refs
    /\ UNCHANGED <<vars, cpc, doomed, hashed, listAt, cnow, blobsLeft, cleans>>

\* SystemTime::now and list_all; of the blobs listed, the referenced ones are
\* passed over.
ListBlobs ==
    /\ cpc = "collect"
    /\ listed = {}
    /\ cpc' = "scan"
    /\ cnow' = now
    /\ blobsLeft' = present \ refs
    /\ UNCHANGED <<vars, doomed, listed, hashed, refs, listAt, cleans>>

\* Mutant: the age is not looked at.
OldEnough_Any(b) == TRUE

\* The age of a blob modified after the sweep took the time is zero.
OldEnough(b) == cnow - mtime[b] >= MinAge

\* One turn of the loop over the unreferenced blobs.
SweepBlob(b) ==
    /\ cpc = "scan"
    /\ b \in blobsLeft
    /\ blobsLeft' = blobsLeft \ {b}
    /\ IF OldEnough(b)
       THEN present' = present \ {b} /\ mtime' = [mtime EXCEPT ![b] = 0]
       ELSE UNCHANGED blobVars
    /\ UNCHANGED <<now, runVars, cpc, doomed, listed, hashed, refs, listAt, cnow,
                   cleans>>

SweepEnds ==
    /\ cpc = "scan"
    /\ blobsLeft = {}
    /\ Unlock

\* clean returns an error or is killed at any point; the kernel drops the lock.
CleanDies ==
    /\ cpc # "idle"
    /\ Unlock

Cleaner ==
    \/ StartClean \/ PruneEnds \/ ListRuns \/ ListBlobs \/ SweepEnds \/ CleanDies
    \/ \E r \in Runs : delete_run_records(r) \/ RemoveRunDir(r) \/ CollectRefs(r)
    \/ \E b \in Blobs : SweepBlob(b)

\* A sweep does not take longer than ScanTicks to collect the references.
CTick ==
    /\ Tick
    /\ cpc = "collect" => now - listAt < ScanTicks
    /\ UNCHANGED cleanVars

CNext ==
    \/ \E r \in Runs : RunStep(r) /\ UNCHANGED cleanVars
    \/ Cleaner
    \/ CTick

CSpec == CInit /\ [][CNext]_allVars

-----------------------------------------------------------------------------
(* Properties.                                                             *)

\* The blobs the manifest of a completed run stands for, the manifest itself and
\* its trace included, are in the store as long as the run is: `clean` protects
\* a run that completes at any moment of a sweep by the references it collects
\* or by min_age.
ArtifactsKept ==
    \A r \in Runs : row[r] = "completed" => arts[r] \ {Sig(r)} \subseteq present

\* A run in the database has its directory, at every point where execute or
\* clean may stop: the directory is made before the row and removed after it.
RowHasDir == \A r \in Runs : row[r] # "absent" => r \in dir

\* Once the backend is asked to run the tool, execute does not return with the
\* row still running, also when the run is pruned under its feet and when any
\* later step fails (a database that refuses the update apart).
RunSettled ==
    \A r \in Runs : rpc[r] \in {"done", "failed"} => row[r] # "running"

\* A run that was pruned stays pruned, although its process may still be there
\* to record an outcome.
PrunedStaysPruned ==
    [][\A r \in Runs :
          (row[r] = "absent" /\ rpc[r] \notin {"new", "insert"}) => row'[r] = "absent"]_allVars

\* clean.rs: sweep removes "CAS blobs not referenced by any remaining run", and
\* the signature is an artifact of its run.
SignatureKept ==
    \A r \in Runs : (row[r] = "completed" /\ Sig(r) \in arts[r]) => Sig(r) \in present
=============================================================================
