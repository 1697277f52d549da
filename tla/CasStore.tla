------------------------------- MODULE CasStore -------------------------------
(***************************************************************************)
(* The content-addressed store of crates/oaie-cas/src/store.rs: any number *)
(* of processes run store_impl at the same time, without a lock; the       *)
(* temporary-file cleanup of other processes runs in between; a writer may *)
(* die, a blob may rot on disk, the machine may lose power.                *)
(*                                                                         *)
(* The hash of a content is the content itself, so blob[c] is the file at  *)
(* the path of c's hash.                                                   *)
(***************************************************************************)
EXTENDS Naturals

CONSTANTS
    Writers,     \* processes inside store_impl
    Contents,    \* what they may store
    Deaths,      \* a writer may be killed
    MaxStores,   \* bound: calls of store_impl
    MaxFaults,   \* bound: system calls that fail
    MaxRots,     \* bound: blobs that rot on disk
    MaxLosses    \* bound: power losses

ASSUME StoreAssumption ==
    /\ Deaths \in BOOLEAN
    /\ {MaxStores, MaxFaults, MaxRots, MaxLosses} \subseteq Nat

\* A file: how much of the content its inode holds, and its permission bits.
\* "part": being written; "cached": complete, not yet on disk; "bad": the bytes
\* do not hash to the file's name.
Data == {"absent", "part", "cached", "good", "bad"}
File(d, ro) == [data |-> d, ro |-> ro]
NoFile == File("absent", FALSE)
Files == [data : Data, ro : BOOLEAN]

VARIABLES
    pc,      \* each writer's control point
    item,    \* the content it is storing
    tmp,     \* its temporary file
    blob,    \* the file at the content's final path
    disk,    \* what the content's directory entry refers to after a power loss
    acked,   \* contents for which a store has returned Ok since they last rotted
    stores, faults, rots, losses

counters == <<stores, faults, rots, losses>>
vars == <<pc, item, tmp, blob, disk, acked, counters>>

Pcs == {"idle", "write", "fsync", "lookup", "compare", "unlink", "chmod",
        "rename", "sync", "dead"}

Init ==
    /\ pc = [w \in Writers |-> "idle"]
    /\ item \in [Writers -> Contents]
    /\ tmp = [w \in Writers |-> NoFile]
    /\ blob = [c \in Contents |-> NoFile]
    /\ disk = [c \in Contents |-> NoFile]
    /\ acked = {}
    /\ stores = 0
    /\ faults = 0
    /\ rots = 0
    /\ losses = 0

-----------------------------------------------------------------------------
(* store_impl.                                                             *)

Goto(w, l) == pc' = [pc EXCEPT ![w] = l]

\* A file that has been unlinked is still written through its descriptor.
SetTmp(w, d, ro) ==
    tmp' = [tmp EXCEPT ![w] = IF @.data = "absent" THEN @ ELSE File(d, ro)]

\* A system call fails.
Fault == faults < MaxFaults /\ faults' = faults + 1

\* Return Err after the cleanup closure.
FailClean(w) ==
    /\ tmp' = [tmp EXCEPT ![w] = NoFile]
    /\ Goto(w, "idle")

CreateTmp(w) ==
    /\ pc[w] = "idle"
    /\ stores < MaxStores
    /\ stores' = stores + 1
    /\ \E c \in Contents : item' = [item EXCEPT ![w] = c]
    /\ tmp' = [tmp EXCEPT ![w] = File("part", FALSE)]
    /\ Goto(w, "write")
    /\ UNCHANGED <<blob, disk, acked, faults, rots, losses>>

WriteTmp(w) ==
    /\ pc[w] = "write"
    /\ \/ SetTmp(w, "cached", FALSE) /\ Goto(w, "fsync") /\ UNCHANGED faults
       \/ Fault /\ FailClean(w)
    /\ UNCHANGED <<item, blob, disk, acked, stores, rots, losses>>

\* Mutant: no sync_all before the rename.
FsyncTmp_Skipped(w) ==
    /\ pc[w] = "fsync"
    /\ Goto(w, "lookup")
    /\ UNCHANGED <<item, tmp, blob, disk, acked, counters>>

\* sync_all, then the creation of the prefix directory.
FsyncTmp(w) ==
    /\ pc[w] = "fsync"
    /\ \/ SetTmp(w, "good", FALSE) /\ Goto(w, "lookup") /\ UNCHANGED faults
       \/ Fault /\ FailClean(w)
    /\ UNCHANGED <<item, blob, disk, acked, stores, rots, losses>>

Lookup(w) ==
    /\ pc[w] = "lookup"
    /\ Goto(w, IF blob[item[w]].data = "absent" THEN "chmod" ELSE "compare")
    /\ UNCHANGED <<item, tmp, blob, disk, acked, counters>>

\* Mutant: an existing blob is trusted without reading it.
Compare_Trusting(w) ==
    /\ pc[w] = "compare"
    /\ acked' = acked \cup {item[w]}
    /\ FailClean(w)
    /\ UNCHANGED <<item, blob, disk, counters>>

\* Mutant: an existing blob is always replaced.
Compare_Replacing(w) ==
    /\ pc[w] = "compare"
    /\ Goto(w, "unlink")
    /\ UNCHANGED <<item, tmp, blob, disk, acked, counters>>

\* Re-hash the existing blob; a blob that has vanished counts as corrupted.
Compare(w) ==
    /\ pc[w] = "compare"
    /\ \/ /\ blob[item[w]].data \in {"good", "cached"}
          /\ acked' = acked \cup {item[w]}
          /\ FailClean(w)
          /\ UNCHANGED faults
       \/ /\ Fault \/ (blob[item[w]].data \notin {"good", "cached"} /\ UNCHANGED faults)
          /\ Goto(w, "unlink")
          /\ UNCHANGED <<tmp, acked>>
    /\ UNCHANGED <<item, blob, disk, stores, rots, losses>>

UnlinkOld(w) ==
    /\ pc[w] = "unlink"
    /\ \/ blob' = [blob EXCEPT ![item[w]] = NoFile] /\ UNCHANGED faults
       \/ Fault /\ UNCHANGED blob
    /\ Goto(w, "chmod")
    /\ UNCHANGED <<item, tmp, disk, acked, stores, rots, losses>>

\* metadata and set_permissions: an error returns without the cleanup closure.
ChmodTmp(w) ==
    /\ pc[w] = "chmod"
    /\ \/ /\ tmp[w].data # "absent"
          /\ SetTmp(w, tmp[w].data, TRUE)
          /\ Goto(w, "rename")
          /\ UNCHANGED faults
       \/ /\ Fault \/ (tmp[w].data = "absent" /\ UNCHANGED faults)
          /\ Goto(w, "idle")
          /\ UNCHANGED tmp
    /\ UNCHANGED <<item, blob, disk, acked, stores, rots, losses>>

RenameTmp(w) ==
    /\ pc[w] = "rename"
    /\ \/ /\ tmp[w].data # "absent"
          /\ blob' = [blob EXCEPT ![item[w]] = tmp[w]]
          /\ tmp' = [tmp EXCEPT ![w] = NoFile]
          /\ Goto(w, "sync")
          /\ UNCHANGED faults
       \/ /\ Fault \/ (tmp[w].data = "absent" /\ UNCHANGED faults)
          /\ FailClean(w)
          /\ UNCHANGED blob
    /\ UNCHANGED <<item, disk, acked, stores, rots, losses>>

\* Mutant: the directory is not synced after the rename.
SyncParentDir_Skipped(w) ==
    /\ pc[w] = "sync"
    /\ acked' = acked \cup {item[w]}
    /\ Goto(w, "idle")
    /\ UNCHANGED <<item, tmp, blob, disk, counters>>

\* sync_parent_dir ignores errors; then Ok is returned.
SyncParentDir(w) ==
    /\ pc[w] = "sync"
    /\ \/ disk' = [disk EXCEPT ![item[w]] = blob[item[w]]] /\ UNCHANGED faults
       \/ Fault /\ UNCHANGED disk
    /\ acked' = acked \cup {item[w]}
    /\ Goto(w, "idle")
    /\ UNCHANGED <<item, tmp, blob, stores, rots, losses>>

-----------------------------------------------------------------------------
(* The environment.                                                        *)

\* cleanup_temps and cleanup_temps_all, run by other processes: the file of a
\* dead writer, or of one whose last write is more than an hour ago.
CleanupTemps(w) ==
    /\ tmp[w].data # "absent"
    /\ tmp' = [tmp EXCEPT ![w] = NoFile]
    /\ UNCHANGED <<pc, item, blob, disk, acked, counters>>

Die(w) ==
    /\ Deaths
    /\ pc[w] \notin {"idle", "dead"}
    /\ Goto(w, "dead")
    /\ UNCHANGED <<item, tmp, blob, disk, acked, counters>>

\* Rot between a rename and the return that follows it is the same as rot right
\* after the return, and only the latter is modelled.
Rot(c) ==
    /\ rots < MaxRots
    /\ \A w \in Writers : pc[w] = "sync" => item[w] # c
    /\ blob[c].data = "good"
    /\ rots' = rots + 1
    /\ blob' = [blob EXCEPT ![c] = File("bad", @.ro)]
    /\ disk' = [disk EXCEPT ![c] = IF @.data = "good" THEN File("bad", @.ro) ELSE @]
    /\ acked' = acked \ {c}
    /\ UNCHANGED <<pc, item, tmp, stores, faults, losses>>

\* What is left of a file whose bytes may not have reached the disk.
Recovered(f) ==
    IF f.data \in {"part", "cached"} THEN File("bad", f.ro) ELSE f

\* Every process dies.  A directory entry that was not synced is the new or the
\* old one; the temporary files are gone from the model, they have no reader.
PowerLoss ==
    /\ losses < MaxLosses
    /\ losses' = losses + 1
    /\ pc' = [w \in Writers |-> "idle"]
    /\ tmp' = [w \in Writers |-> NoFile]
    /\ \E kept \in SUBSET Contents :
          blob' = [c \in Contents |->
                     Recovered(IF c \in kept THEN blob[c] ELSE disk[c])]
    /\ disk' = blob'
    /\ UNCHANGED <<item, acked, stores, faults, rots>>

Step(w) ==
    \/ CreateTmp(w) \/ WriteTmp(w) \/ FsyncTmp(w) \/ Lookup(w) \/ Compare(w)
    \/ UnlinkOld(w) \/ ChmodTmp(w) \/ RenameTmp(w) \/ SyncParentDir(w)

Next ==
    \/ \E w \in Writers : Step(w) \/ CleanupTemps(w) \/ Die(w)
    \/ \E c \in Contents : Rot(c)
    \/ PowerLoss

Spec == Init /\ [][Next]_vars

-----------------------------------------------------------------------------
(* Properties.                                                             *)

\* Every variable keeps its type.
TypeOK ==
    /\ pc \in [Writers -> Pcs]
    /\ item \in [Writers -> Contents]
    /\ tmp \in [Writers -> Files]
    /\ blob \in [Contents -> Files]
    /\ disk \in [Contents -> Files]
    /\ acked \subseteq Contents
    /\ stores \in Nat /\ faults \in Nat /\ rots \in Nat /\ losses \in Nat

\* What is visible under a hash is complete, on disk and read-only, whatever
\* writers die and whenever the power goes, as long as the disk keeps what it
\* was given (store_impl: write, fsync, chmod, rename in this order).
BlobsSound ==
    \A c \in Contents :
        /\ blob[c].data # "absent" => blob[c].ro
        /\ rots = 0 => blob[c].data \in {"absent", "good"}

\* While nothing fails or rots and the power stays on, a content whose store
\* returned Ok stays in the store, whatever other writers of the same content do.
AckedStored ==
    (faults = 0 /\ rots = 0 /\ losses = 0) => \A c \in acked : blob[c].data = "good"

\* A store that returns Ok over a rotted blob has replaced it: store_impl does
\* not trust what it finds at the final path.
AckNeverCorrupt ==
    losses = 0 => \A c \in acked : blob[c].data # "bad"

\* While nothing fails or rots, a content whose store returned Ok survives a power
\* loss, unless the writer that renamed it is still at its sync_parent_dir, or was
\* killed there: the dedup path of store_impl does not wait for it.
DurableOrDue ==
    (faults = 0 /\ rots = 0 /\ losses = 0) =>
        \A c \in acked : \/ disk[c].data = "good"
                         \/ \E w \in Writers : pc[w] \in {"sync", "dead"} /\ item[w] = c

-----------------------------------------------------------------------------
(* The promise of the store.                                               *)

\* How a content stands: intact is complete, on disk and read-only.
Standing(f) ==
    IF f.data = "absent" THEN "absent"
    ELSE IF f.data = "good" /\ f.ro THEN "intact" ELSE "damaged"

Kept == [c \in Contents |-> Standing(blob[c])]
Troubles == {t \in {"fault", "rot"} : (IF t = "fault" THEN faults ELSE rots) # 0}

Promise == INSTANCE AtomicStore WITH kept <- Kept, troubles <- Troubles

\* The steps of store_impl, of any number of writers at once, amount to atomic
\* stores: every step publishes a whole content, returns Ok for one that is there,
\* or is not seen from outside; but for a power loss, contents go missing or are
\* damaged only after a failing call or rot.
ImplementsStore == Promise!Spec

-----------------------------------------------------------------------------
(* What comments say, and the code does not do.                            *)

\* store.rs: the parent directory is synced "so the directory entry is durable
\* on power loss": a content that was acknowledged survives one.
AckedDurable == \A c \in acked : disk[c].data = "good"
=============================================================================
