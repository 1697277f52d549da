--------------------------------- MODULE Ebpf ---------------------------------
(***************************************************************************)
(* The eBPF tracer: the four programs of oaie_tracer.bpf.c, the ring       *)
(* buffer they share, and the consumer thread of EbpfTracer that turns its *)
(* records into trace events.                                              *)
(*                                                                         *)
(* A program runs inside the task that hit its tracepoint: it reserves a   *)
(* record, fills it in and submits it, while programs on other CPUs do the *)
(* same.  A happening is what the task did, as the kernel has it: for an   *)
(* exit the wait status, for a connect the family and the length of the    *)
(* address.  Names and addresses are present or absent.                    *)
(***************************************************************************)
EXTENDS Integers, Sequences, FiniteSets

CONSTANTS
    Happenings,   \* what the tool may do
    MaxOwn,       \* bound: how often it does it
    MaxOther,     \* bound: how often anyone else hits a tracepoint
    Cpus,         \* how many programs run at a time
    RingSize,     \* records the ring buffer holds
    PollErrors    \* consecutive poll errors the consumer puts up with

ASSUME EbpfAssumption ==
    /\ Happenings \subseteq [kind : {"exec", "exit", "open", "connect"}, a : Nat, b : Int]
    \* An exit is with a wait status: a code, or a signal with the core-dump bit.
    /\ \A h \in Happenings :
          h.kind = "exit" => h.a < 256 \/ (h.a < 65536 /\ h.a % 256 = 0)
    /\ {MaxOwn, MaxOther, Cpus, RingSize, PollErrors} \subseteq Nat

VARIABLES
    target,     \* the cgroup in the map target_cgroup, or "any"
    attached,   \* the programs are attached
    ring,       \* the ring buffer: [what, whose, ready]
    own, other, \* how often the tool, and anyone else, hit a tracepoint
    missed,     \* reservations that failed, which no one counts
    fired,      \* what was reserved, in order
    cons,       \* the consumer thread
    errs,       \* poll_errors
    stop,       \* stop_flag
    trace,      \* what became of each record read: an event, or dropped
    cut         \* the last poll failed

ebpfVars == <<target, attached, ring, own, other, missed, fired, cons, errs, stop, trace, cut>>

EbpfInit ==
    /\ target = "any" /\ attached = FALSE
    /\ ring = <<>> /\ own = 0 /\ other = 0 /\ missed = 0 /\ fired = <<>>
    /\ cons = "none" /\ errs = 0 /\ stop = FALSE /\ trace = <<>> /\ cut = FALSE

-----------------------------------------------------------------------------
(* The programs.                                                           *)

ExecPayload(h) == [filename |-> h.a]
\* Mutant: the core-dump bit is left in the signal.
ExitPayload_CoreBit(h) == [exit_code |-> (h.a \div 256) % 256, signal |-> h.a % 256]

ExitPayload(h) == [exit_code |-> (h.a \div 256) % 256, signal |-> h.a % 128]
OpenPayload(h) == [flags |-> h.b, filename |-> h.a]

\* Whether the address is long enough to be read as one of its family.
Readable(family, len) ==
    \/ family = 2 /\ len >= 8
    \/ family = 10 /\ len >= 28
    \/ family = 1 /\ len > 2

ConnectPayload(h) ==
    IF h.b <= 0 THEN [family |-> 0, addr |-> 0]
    ELSE [family |-> h.a, addr |-> IF Readable(h.a, h.b) THEN 1 ELSE 0]

RawEvent(h) ==
    CASE h.kind = "exec" -> [event_type |-> 1, payload |-> ExecPayload(h)]
      [] h.kind = "exit" -> [event_type |-> 2, payload |-> ExitPayload(h)]
      [] h.kind = "open" -> [event_type |-> 3, payload |-> OpenPayload(h)]
      [] h.kind = "connect" -> [event_type |-> 4, payload |-> ConnectPayload(h)]

cgroup_match(g) == target = "any" \/ target = g

InFlight(g) == {i \in DOMAIN ring : ~ring[i].ready /\ ring[i].whose = g}

\* bpf_ringbuf_reserve; with no room the program returns and leaves no trace.
Reserve(g, h) ==
    IF Len(ring) < RingSize
      THEN /\ ring' = Append(ring, [what |-> h, whose |-> g, ready |-> FALSE])
           /\ fired' = Append(fired, h)
           /\ UNCHANGED missed
      ELSE /\ missed' = missed + 1
           /\ UNCHANGED <<ring, fired>>

\* A tracepoint is hit by a task of cgroup g.
Hit(g, h) ==
    /\ IF attached /\ cgroup_match(g)
         THEN Cardinality(InFlight("run") \cup InFlight("other")) < Cpus /\ Reserve(g, h)
         ELSE UNCHANGED <<ring, fired, missed>>
    /\ UNCHANGED <<target, attached, cons, errs, stop, trace, cut>>

\* bpf_ringbuf_submit, in whatever order the programs get there.
Submit ==
    /\ \E i \in DOMAIN ring : ~ring[i].ready /\ ring' = [ring EXCEPT ![i].ready = TRUE]
    /\ UNCHANGED <<target, attached, own, other, missed, fired, cons, errs, stop, trace, cut>>

-----------------------------------------------------------------------------
(* The consumer thread.                                                    *)

\* convert_raw_event; no event has a result, and a signal of 0 is none.
convert_raw_event(raw) ==
    CASE raw.event_type = 1 -> [type |-> "ProcessExec", detail |-> <<raw.payload.filename>>]
      [] raw.event_type = 2 -> [type |-> "ProcessExit",
                                detail |-> <<raw.payload.exit_code, raw.payload.signal>>]
      [] raw.event_type = 3 -> [type |-> "FileOpen",
                                detail |-> <<raw.payload.filename, raw.payload.flags, -1>>]
      [] raw.event_type = 4 -> [type |-> "NetConnect",
                                detail |-> <<raw.payload.family, raw.payload.addr, -1>>]

Dropped == [type |-> "dropped", detail |-> <<>>]

\* ring_buffer__new, which may fail.
OpenRing ==
    /\ cons = "start"
    /\ cons' \in {"poll", "err"}
    /\ UNCHANGED <<target, attached, ring, own, other, missed, fired, errs, stop, trace, cut>>

\* ring_buffer_callback for the oldest record, once that is submitted; the
\* writer may fail, which is counted.
Consume ==
    /\ cons \in {"poll", "final"} /\ ring # <<>> /\ Head(ring).ready
    /\ trace' \in {Append(trace, convert_raw_event(RawEvent(Head(ring).what))),
                   Append(trace, Dropped)}
    /\ ring' = Tail(ring)
    /\ errs' = 0
    /\ UNCHANGED <<target, attached, own, other, missed, fired, cons, stop, cut>>

\* A poll ends: with nothing to read, or with an error.
PollEmpty ==
    /\ cons = "poll" /\ ~stop /\ errs # 0
    /\ ring # <<>> => ~Head(ring).ready
    /\ errs' = 0
    /\ UNCHANGED <<target, attached, ring, own, other, missed, fired, cons, stop, trace, cut>>

PollError ==
    /\ cons = "poll" /\ ~stop
    /\ errs' = errs + 1
    /\ cons' = IF errs' > PollErrors THEN "err" ELSE cons
    /\ UNCHANGED <<target, attached, ring, own, other, missed, fired, stop, trace, cut>>

\* Mutant: no last poll.
StopSeen_NoDrain ==
    /\ cons = "poll" /\ stop
    /\ cons' = "ok"
    /\ UNCHANGED <<target, attached, ring, own, other, missed, fired, errs, stop, trace, cut>>

StopSeen ==
    /\ cons = "poll" /\ stop
    /\ cons' = "final"
    /\ UNCHANGED <<target, attached, ring, own, other, missed, fired, errs, stop, trace, cut>>

\* The last poll: it takes all that is there, or fails and takes nothing.
FinalPoll ==
    /\ cons = "final"
    /\ \/ (ring # <<>> => ~Head(ring).ready) /\ UNCHANGED cut
       \/ ring # <<>> /\ cut' = TRUE
    /\ cons' = "ok"
    /\ UNCHANGED <<target, attached, ring, own, other, missed, fired, errs, stop, trace>>

Consumer == OpenRing \/ Consume \/ PollEmpty \/ PollError \/ StopSeen \/ FinalPoll

dropped_events == Cardinality({i \in DOMAIN trace : trace[i] = Dropped})
=============================================================================
