----------------------------- MODULE ChunkedTrace -----------------------------
(***************************************************************************)
(* The trace of one run: ChunkedEventWriter and EventChain (oaie-observe), *)
(* fed by Runner::execute and a tracer, and read back by                   *)
(* read_events_from_index and verify_chain.  Every system call behind a    *)
(* write, a rotation or a flush may fail; a tracer counts the failed event *)
(* as dropped and goes on.                                                 *)
(*                                                                         *)
(* The hash of an event is its number, so that the chain is a chain of     *)
(* event numbers that starts at Genesis.  The stream header, which only    *)
(* takes room in the first chunk, is HeaderSize.                           *)
(***************************************************************************)
EXTENDS Integers, Sequences, FiniteSets, SequencesExt, FiniteSetsExt

CONSTANTS
    Sizes,        \* sizes of a serialized event
    HeaderSize,
    Threshold,    \* chunk_threshold
    FlushEvery,   \* 100 in the code
    Tears,        \* what a failed write_all may leave in the file
    MaxEvents     \* bound: events offered to the writer, RunStart and RunEnd included

ASSUME TraceAssumption ==
    /\ Sizes \subseteq Nat
    /\ {HeaderSize, Threshold, MaxEvents} \subseteq Nat
    /\ FlushEvery \in Nat \ {0}
    /\ Tears \subseteq {"nothing", "part", "line"}

Genesis == 0
Frag == [id |-> -1, prev |-> -1]   \* a part of a serialized event

VARIABLES
    phase,     \* where execute is: start, trace, finalize, done or failed
    tip,       \* EventChain::prev_hash
    cur,       \* the current chunk
    chunks,    \* completed_chunks, with the contents stored
    total,     \* total_events
    offered,   \* events given to write_event
    dropped    \* dropped_events of the tracer

vars == <<phase, tip, cur, chunks, total, offered, dropped>>

\* A chunk: its lines, each a sequence of events or parts of events; whether its
\* last line still lacks the newline; current_bytes and current_events.
NewChunk(bytes) == [lines |-> <<>>, open |-> FALSE, bytes |-> bytes, events |-> 0]

Init ==
    /\ phase = "start"
    /\ tip = Genesis
    /\ cur = NewChunk(HeaderSize)
    /\ chunks = <<>>
    /\ total = 0 /\ offered = 0 /\ dropped = 0

-----------------------------------------------------------------------------
(* Writing.                                                                *)

\* What is written lands behind what an earlier failed write left on the line.
Put(c, piece, newline) ==
    [c EXCEPT
        !.lines = IF c.open THEN Front(@) \o <<Last(@) \o <<piece>>>>
                  ELSE @ \o <<<<piece>>>>,
        !.open = ~newline]

\* EventChain::append.
NextEvent == [id |-> offered + 1, prev |-> tip]

\* Mutant: the size of the event is left out.
MustRotate_Late(size) == cur.events > 0 /\ cur.bytes > Threshold

MustRotate(size) == cur.events > 0 /\ cur.bytes + size > Threshold

\* Mutant: the old chunk is given up before it is stored.
RotationFails_NewFile ==
    /\ cur' = NewChunk(0)
    /\ UNCHANGED <<tip, chunks, total>>

\* Mutant: the chain is left where append moved it.
RotationFails_NoRestore ==
    /\ tip' = offered + 1
    /\ UNCHANGED <<cur, chunks, total>>

\* The new file cannot be created, or the flush or the store of the old chunk
\* fails: nothing has changed once the tip is restored.
RotationFails == UNCHANGED <<tip, cur, chunks, total>>

\* The chunk the event goes to: the current one, or a new one once the current
\* one is stored.
Target(size) == IF MustRotate(size) THEN NewChunk(0) ELSE cur

Stored(size) == IF MustRotate(size) THEN Append(chunks, cur) ELSE chunks

\* write_all fails: nothing of the event is in the file (BufWriter could not empty
\* its buffer), a part of it (an event larger than the buffer), or all of it
\* without its newline (the event just filled the buffer).
Torn(how, c) ==
    CASE how = "nothing" -> c
      [] how = "part"    -> Put(c, Frag, FALSE)
      [] how = "line"    -> Put(c, NextEvent, FALSE)

\* The tip is restored.
WriteFails(size) ==
    /\ \E how \in Tears : cur' = Torn(how, Target(size))
    /\ chunks' = Stored(size)
    /\ UNCHANGED <<tip, total>>

Written(size) ==
    /\ cur' = [Put(Target(size), NextEvent, TRUE)
                 EXCEPT !.bytes = @ + size, !.events = @ + 1]
    /\ chunks' = Stored(size)
    /\ total' = total + 1
    /\ tip' = NextEvent.id

\* write_event, with its result.  The flush after every FlushEvery events may
\* fail, and write_event with it, when the event has been written.
write_event(size, ok) ==
    /\ offered' = offered + 1
    /\ \/ ok /\ Written(size)
       \/ ~ok /\ Written(size) /\ (total + 1) % FlushEvery = 0
       \/ ~ok /\ WriteFails(size)
       \/ ~ok /\ MustRotate(size) /\ RotationFails

-----------------------------------------------------------------------------
(* The run.                                                                *)

RunStart ==
    /\ phase = "start"
    /\ \E size \in Sizes, ok \in BOOLEAN :
          /\ write_event(size, ok)
          /\ phase' = IF ok THEN "trace" ELSE "failed"
    /\ UNCHANGED dropped

\* try_write of the ptrace tracer, ring_buffer_callback of the eBPF tracer.
try_write ==
    /\ phase = "trace"
    /\ offered < MaxEvents - 1
    /\ \E size \in Sizes, ok \in BOOLEAN :
          /\ write_event(size, ok)
          /\ dropped' = IF ok THEN dropped ELSE dropped + 1
    /\ UNCHANGED phase

RunEnd ==
    /\ phase = "trace"
    /\ \E size \in Sizes, ok \in BOOLEAN :
          /\ write_event(size, ok)
          /\ phase' = IF ok THEN "finalize" ELSE "failed"
    /\ UNCHANGED dropped

-----------------------------------------------------------------------------
(* Reading back.                                                           *)

AllLines == FlattenSeq([i \in DOMAIN chunks |-> chunks[i].lines])

\* A line parses when it is one event; read_events_from_index fails at the first
\* one that does not.
Parses(line) == Len(line) = 1 /\ line[1] # Frag
Readable == \A i \in DOMAIN AllLines : Parses(AllLines[i])
ReadEvents == [i \in DOMAIN AllLines |-> AllLines[i][1]]

\* verify_chain, and the comparison with the tip in the index.
ChainVerifies ==
    /\ \A i \in DOMAIN ReadEvents :
          ReadEvents[i].prev = IF i = 1 THEN Genesis ELSE ReadEvents[i - 1].id
    /\ ReadEvents # <<>> => Last(ReadEvents).id = tip

\* finalize stores the last chunk; execute then reads the events back, and an
\* error of either fails the run.
finalize ==
    /\ phase = "finalize"
    /\ \/ chunks' = Append(chunks, cur) /\ phase' = "readback"
       \/ UNCHANGED chunks /\ phase' = "failed"
    /\ UNCHANGED <<tip, cur, total, offered, dropped>>

read_events_from_index ==
    /\ phase = "readback"
    /\ phase' = IF Readable THEN "done" ELSE "failed"
    /\ UNCHANGED <<tip, cur, chunks, total, offered, dropped>>

Next == RunStart \/ try_write \/ RunEnd \/ finalize \/ read_events_from_index

Spec == Init /\ [][Next]_vars

-----------------------------------------------------------------------------
(* Properties.                                                             *)

\* The trace of a run that completes verifies, whatever writes, rotations and
\* flushes failed on the way (write_event restores the tip so that a failed write
\* does not leave the chain "permanently desynced"): the chain holds across chunk
\* boundaries and ends in the tip, and the index counts the events of the trace
\* and of each chunk.
CompletedVerifies ==
    phase = "done" =>
        /\ ChainVerifies
        /\ total = Len(ReadEvents)
        /\ \A i \in DOMAIN chunks : chunks[i].events = Len(chunks[i].lines)

\* No event is lost silently: the events offered that are not in the trace of a
\* completed run are no more than those counted as dropped.
NothingLostSilently ==
    phase = "done" =>
        Cardinality((1 .. offered) \ {e.id : e \in Range(ReadEvents)}) <= dropped

\* A chunk exceeds the threshold only with a single event, also when rotations
\* fail and are tried again with the next event.
ChunksWithinThreshold ==
    \A c \in {cur} \cup Range(chunks) : c.events > 1 => c.bytes <= Threshold
=============================================================================
