-------------------------------- MODULE Runner --------------------------------
(***************************************************************************)
(* Runner::execute of crates/oaie-cli/src/runner.rs, seen from the store:  *)
(* in which order a run creates its directory, its database row, its       *)
(* blobs, its manifest and its final status, and what it leaves behind     *)
(* when a step fails.  Several runs proceed at the same time.              *)
(*                                                                         *)
(* A call of CasStore::store_* is one step here: CasStore models it in     *)
(* detail and shows that a content whose store returned Ok is present.     *)
(***************************************************************************)
EXTENDS Integers, FiniteSets

CONSTANTS
    Runs,         \* run ids
    Contents,     \* contents that different runs may have in common
    Outs,         \* Outs[r]: the contents run r may produce
    Traced,       \* runs with tracing on
    Signed,       \* runs with a signing key
    Faults,       \* steps around the execution may fail, processes may be killed
    TomlFaults,   \* the best-effort write of manifest.toml may fail
    StoreTicks,   \* bound: time from a run's first store to its end
    MaxNow        \* bound: the clock stops here

ASSUME RunnerAssumption ==
    /\ Outs \in [Runs -> SUBSET Contents]
    /\ Traced \subseteq Runs /\ Signed \subseteq Runs
    /\ {Faults, TomlFaults} \subseteq BOOLEAN
    /\ StoreTicks \in Nat /\ MaxNow \in Nat

\* Blobs: stdout, stderr, outputs and the report are contents; the others are
\* unique to their run.
Out(c) == [kind |-> "out", of |-> c]
Chunk(r) == [kind |-> "chunk", of |-> r]
Index(r) == [kind |-> "index", of |-> r]
Man(r) == [kind |-> "manifest", of |-> r]
Sig(r) == [kind |-> "signature", of |-> r]
Blobs ==
    [kind : {"out"}, of : Contents]
    \cup [kind : {"chunk", "index", "manifest", "signature"}, of : Runs]

VARIABLES
    now,
    rpc,       \* each run's control point in execute
    outs,      \* contents the run has produced
    since,     \* when a run in progress first stored a blob, else 0
    dir,       \* runs whose directory exists
    toml,      \* runs whose directory holds manifest.toml
    row,       \* status in the runs table
    created,   \* runs.created
    arts,      \* blobs the run has stored; recorded with its completion
    present,   \* blobs in the store
    mtime      \* their modification times, 0 for the others

runVars == <<rpc, outs, since, dir, toml, row, created, arts>>
blobVars == <<present, mtime>>
vars == <<now, runVars, blobVars>>

Storing == {"collect", "trace", "read", "manifest", "toml", "sign", "commit"}
NeedsDir == {"collect", "trace", "manifest"}

Init ==
    /\ now = 0
    /\ rpc = [r \in Runs |-> "new"]
    /\ outs = [r \in Runs |-> {}]
    /\ since = [r \in Runs |-> 0]
    /\ dir = {}
    /\ toml = {}
    /\ row = [r \in Runs |-> "absent"]
    /\ created = [r \in Runs |-> 0]
    /\ arts = [r \in Runs |-> {}]
    /\ present = {}
    /\ mtime = [b \in Blobs |-> 0]

Goto(r, l) == rpc' = [rpc EXCEPT ![r] = l]

\* execute returns; its locals are gone.
Return(r, l) ==
    /\ Goto(r, l)
    /\ outs' = [outs EXCEPT ![r] = {}]
    /\ since' = [since EXCEPT ![r] = 0]

\* store_impl keeps a blob that is already there as it is: its modification
\* time is not refreshed.
Put(bs) ==
    /\ present' = present \cup bs
    /\ mtime' = [b \in Blobs |-> IF b \in bs \ present THEN now ELSE mtime[b]]

\* The run has blobs in the store that its manifest does not protect yet.
Exposed(r) == rpc[r] \in Storing \/ (rpc[r] = "exec" /\ Chunk(r) \in arts[r])

\* Time passes; a run does not take longer than StoreTicks from its first store
\* to its end.
Tick ==
    /\ now < MaxNow
    /\ \A r \in Runs : Exposed(r) => now - since[r] < StoreTicks
    /\ now' = now + 1
    /\ UNCHANGED <<runVars, blobVars>>

-----------------------------------------------------------------------------
(* Before the tool runs.                                                   *)

\* RunDir::create; later checks (output directory, isolation) may return.
CreateDir(r) ==
    /\ rpc[r] = "new"
    /\ dir' = dir \cup {r}
    /\ \/ Goto(r, "insert")
       \/ Faults /\ Goto(r, "aborted")
    /\ UNCHANGED <<now, outs, since, toml, row, created, arts, blobVars>>

insert_run(r) ==
    /\ rpc[r] = "insert"
    /\ row' = [row EXCEPT ![r] = "running"]
    /\ created' = [created EXCEPT ![r] = now]
    /\ Goto(r, "writer")
    /\ UNCHANGED <<now, outs, since, dir, toml, arts, blobVars>>

\* ChunkedEventWriter::new and the RunStart event: an error returns, and the row
\* keeps the status it has.
OpenTrace(r) ==
    /\ rpc[r] = "writer"
    /\ \/ Goto(r, "exec")
       \/ Faults /\ r \in Traced /\ Goto(r, "aborted")
    /\ UNCHANGED <<now, outs, since, dir, toml, row, created, arts, blobVars>>

-----------------------------------------------------------------------------
(* The tool runs.                                                          *)

\* Rotation: a full chunk of the trace goes to the store while the tool runs.
RotateChunk(r) ==
    /\ rpc[r] = "exec"
    /\ r \in Traced
    /\ Chunk(r) \notin arts[r]
    /\ Put({Chunk(r)})
    /\ arts' = [arts EXCEPT ![r] = @ \cup {Chunk(r)}]
    /\ since' = [since EXCEPT ![r] = now]
    /\ UNCHANGED <<now, rpc, outs, dir, toml, row, created>>

\* fail_run: an UPDATE, which leaves a row that is gone as it is.
fail_run(r) ==
    row' = [row EXCEPT ![r] = IF @ = "absent" THEN @ ELSE "failed"]

ExecFails(r) ==
    /\ rpc[r] = "exec"
    /\ fail_run(r)
    /\ Return(r, "failed")
    /\ UNCHANGED <<now, dir, toml, created, arts, blobVars>>

ExecEnds(r) ==
    /\ rpc[r] = "exec"
    /\ \E cs \in SUBSET Outs[r] : outs' = [outs EXCEPT ![r] = cs]
    /\ since' = [since EXCEPT ![r] = IF Chunk(r) \in arts[r] THEN @ ELSE now]
    /\ Goto(r, "collect")
    /\ UNCHANGED <<now, dir, toml, row, created, arts, blobVars>>

-----------------------------------------------------------------------------
(* The post-execution closure.                                             *)

\* Mutant: the error of a post-execution step is only returned.
PostExecFails_Unrecorded(r) ==
    /\ rpc[r] \in Storing
    /\ Faults \/ (rpc[r] \in NeedsDir /\ r \notin dir)
    /\ Return(r, "failed")
    /\ UNCHANGED <<now, dir, toml, row, created, arts, blobVars>>

\* A step returns Err (also because the run directory has been pruned): the run
\* is marked failed.
PostExecFails(r) ==
    /\ rpc[r] \in Storing
    /\ Faults \/ (rpc[r] \in NeedsDir /\ r \notin dir)
    /\ fail_run(r)
    /\ Return(r, "failed")
    /\ UNCHANGED <<now, dir, toml, created, arts, blobVars>>

\* store_file and collect_outputs_with_limits: one content after the other.
StoreOutput(r) ==
    /\ rpc[r] = "collect"
    /\ \/ \E c \in outs[r] :
             /\ Out(c) \notin arts[r]
             /\ Put({Out(c)})
             /\ arts' = [arts EXCEPT ![r] = @ \cup {Out(c)}]
             /\ UNCHANGED rpc
       \/ /\ \A c \in outs[r] : Out(c) \in arts[r]
          /\ Goto(r, IF r \in Traced THEN "trace" ELSE "manifest")
          /\ UNCHANGED <<arts, blobVars>>
    /\ r \in dir
    /\ UNCHANGED <<now, outs, since, dir, toml, row, created>>

\* ChunkedEventWriter::finalize stores the last chunk, then the index is stored.
StoreTrace(r) ==
    /\ rpc[r] = "trace"
    /\ r \in dir
    /\ Put({Index(r)} \cup ({Chunk(r)} \ arts[r]))
    /\ arts' = [arts EXCEPT ![r] = @ \cup {Chunk(r), Index(r)}]
    /\ Goto(r, "read")
    /\ UNCHANGED <<now, outs, since, dir, toml, row, created>>

\* read_events_from_index loads every chunk; a missing one is an error.
ReadTraceBack(r) ==
    /\ rpc[r] = "read"
    /\ \/ /\ Chunk(r) \in present
          /\ Goto(r, "manifest")
          /\ UNCHANGED <<row, outs, since>>
       \/ /\ Chunk(r) \notin present
          /\ fail_run(r)
          /\ Return(r, "failed")
    /\ UNCHANGED <<now, dir, toml, created, arts, blobVars>>

\* The report is written to the run directory; then write_manifest stores the
\* manifest's blob, and last its copy in the run directory, whose failure is
\* ignored.
StoreManifest(r) ==
    /\ rpc[r] = "manifest"
    /\ r \in dir
    /\ Put({Man(r)})
    /\ arts' = [arts EXCEPT ![r] = @ \cup {Man(r)}]
    /\ Goto(r, "toml")
    /\ UNCHANGED <<now, outs, since, dir, toml, row, created>>

WriteToml(r) ==
    /\ rpc[r] = "toml"
    /\ \/ r \in dir /\ toml' = toml \cup {r}
       \/ (r \notin dir \/ TomlFaults) /\ UNCHANGED toml
    /\ Goto(r, "sign")
    /\ UNCHANGED <<now, outs, since, dir, row, created, arts, blobVars>>

\* The signature is made from manifest.toml and recorded as an artifact, but the
\* manifest, already written, does not name it.
SignManifest(r) ==
    /\ rpc[r] = "sign"
    /\ \/ /\ r \notin Signed
          /\ Goto(r, "commit")
          /\ UNCHANGED <<row, outs, since, arts, blobVars>>
       \/ /\ r \in Signed \cap toml
          /\ Put({Sig(r)})
          /\ arts' = [arts EXCEPT ![r] = @ \cup {Sig(r)}]
          /\ Goto(r, "commit")
          /\ UNCHANGED <<row, outs, since>>
       \/ /\ r \in Signed \ toml
          /\ fail_run(r)
          /\ Return(r, "failed")
          /\ UNCHANGED <<arts, blobVars>>
    /\ UNCHANGED <<now, dir, toml, created>>

\* Mutant: the row is written whether or not it still exists.
complete_run_Upsert(r) ==
    /\ rpc[r] = "commit"
    /\ row' = [row EXCEPT ![r] = "completed"]
    /\ Return(r, "done")
    /\ UNCHANGED <<now, dir, toml, created, arts, blobVars>>

\* blob_size of the manifest, then complete_run_with_artifacts: one transaction,
\* which fails when the row is gone.
complete_run_with_artifacts(r) ==
    /\ rpc[r] = "commit"
    /\ \/ /\ row[r] # "absent"
          /\ Man(r) \in present
          /\ row' = [row EXCEPT ![r] = "completed"]
          /\ Return(r, "done")
       \/ /\ row[r] = "absent" \/ Man(r) \notin present
          /\ fail_run(r)
          /\ Return(r, "failed")
    /\ UNCHANGED <<now, dir, toml, created, arts, blobVars>>

\* The process is killed: whatever it has written so far stays.
RunDies(r) ==
    /\ Faults
    /\ rpc[r] \in Storing \cup {"insert", "writer", "exec"}
    /\ Return(r, "dead")
    /\ UNCHANGED <<now, dir, toml, row, created, arts, blobVars>>

RunStep(r) ==
    \/ CreateDir(r) \/ insert_run(r) \/ OpenTrace(r)
    \/ RotateChunk(r) \/ ExecFails(r) \/ ExecEnds(r)
    \/ PostExecFails(r) \/ StoreOutput(r) \/ StoreTrace(r) \/ ReadTraceBack(r)
    \/ StoreManifest(r) \/ WriteToml(r) \/ SignManifest(r)
    \/ complete_run_with_artifacts(r) \/ RunDies(r)
=============================================================================
