--------------------------- MODULE NamespaceProofs ---------------------------
(***************************************************************************)
(* What holds of every run under the namespace backend, whatever the       *)
(* options, the tool, the size of the ring and the number of CPUs.         *)
(***************************************************************************)
EXTENDS Namespace, TLAPS

-----------------------------------------------------------------------------
(* The setup handshake.                                                    *)

Early == {"scope", "bpf", "bpfwait", "clone", "maps", "cgroup", "net", "sync",
          "abort", "abortwait"}

BpfReady == sock # "none" => target = "run" /\ helper \in {"serve", "closed"}

Prepared ==
    /\ mapped
    /\ scope # "none" => inCg
    /\ opt.net => net # "none"
    /\ BpfReady

\* What each step of the setup has already done, and that the byte in the sync
\* pipe, which alone lets the child pass, says that all of it is done.
SetupInv ==
    /\ pc \in {"scope", "bpf"} => sock = "none" /\ helper = "none"
    /\ pc = "scope" => scope = "none"
    /\ pc \in Early => scope \in {"none", "up"} /\ sync # "byte"
    /\ pc \in {"clone", "maps", "cgroup", "net", "sync"} => BpfReady
    /\ pc \in {"cgroup", "net", "sync"} => mapped
    /\ pc \in {"net", "sync"} => scope = "none" \/ inCg
    /\ pc = "sync" => (opt.net => net # "none")
    /\ pc = "assign" => sync = "byte"
    /\ sync = "byte" => Prepared
    /\ child \in {"setup", "stopped", "exec", "running"} \/ own > 0 => sync = "byte"
    /\ helper \in {"attach", "serve"} \/ attached => target = "run"
    /\ cons # "none" => sock # "none"
    /\ scope = "up" /\ opt.cg = "systemd" => holder = "up" \/ inCg

LEMMA SetupInit == Init => SetupInv
BY DEF Init, EbpfInit, SetupInv, Early, BpfReady, Prepared

\* No step of the tracer's consumer thread, of a program or of the clock
\* touches the handshake.
LEMMA SetupConsumer ==
    ASSUME SetupInv, Consumer, UNCHANGED <<supVars, child, helper>>
    PROVE  SetupInv'
<1>1. UNCHANGED <<target, attached, own>> /\ (cons' # "none" => cons # "none")
  BY Zenon DEF Consumer, OpenRing, Consume, PollEmpty, PollError, StopSeen, FinalPoll
<1> QED
  BY <1>1, Zenon DEF SetupInv, Early, BpfReady, Prepared, supVars

LEMMA SetupSupervisor1 ==
    ASSUME SetupInv, Setup
    PROVE  SetupInv'
<1> USE DEF SetupInv, Early, BpfReady, Prepared, Goto, Return, ebpfVars
<1>1. CASE CreateScope
  BY <1>1, Zenon DEF CreateScope, Holder
<1>2. CASE LoadBpf
  BY <1>2, Zenon DEF LoadBpf, Traced
<1>3. CASE BpfAnswer
  BY <1>3, Zenon DEF BpfAnswer
<1>4. CASE Clone
  BY <1>4, Zenon DEF Clone
<1>5. CASE WriteMaps
  BY <1>5, Zenon DEF WriteMaps
<1>6. CASE HookCgroup
  BY <1>6, Zenon DEF HookCgroup
<1>7. CASE HookNetwork
  BY <1>7, Zenon DEF HookNetwork
<1>8. CASE Release
  BY <1>8, Zenon DEF Release
<1>9. CASE Abort
  BY <1>9, Zenon DEF Abort, SIGKILL, Alive
<1>10. CASE Aborted
  BY <1>10, Zenon DEF Aborted, Reap
<1>11. CASE AssignPid
  BY <1>11, Zenon DEF AssignPid
<1>12. CASE OpenFiles
  BY <1>12, Zenon DEF OpenFiles
<1>13. CASE Start
  BY <1>13 DEF Start
<1> QED
  BY <1>1, <1>2, <1>3, <1>4, <1>5, <1>6, <1>7, <1>8, <1>9, <1>10, <1>11, <1>12, <1>13, Zenon
  DEF Setup

LEMMA SetupSupervisor2 ==
    ASSUME SetupInv, Finish \/ Crash
    PROVE  SetupInv'
<1> USE DEF SetupInv, Early, BpfReady, Prepared, Goto, Return, ebpfVars
<1>1. CASE Wait
  BY <1>1, Zenon DEF Wait, Reap, SIGKILL, Alive, AfterWait
<1>2. CASE Grace
  BY <1>2, Zenon DEF Grace, Reap, SIGKILL, Alive, AfterWait
<1>3. CASE KillWait
  BY <1>3, Zenon DEF KillWait, Reap, AfterWait
<1>4. CASE StopConsumer
  BY <1>4, Zenon DEF StopConsumer
<1>5. CASE JoinConsumer
  BY <1>5, Zenon DEF JoinConsumer
<1>6. CASE Unload
  BY <1>6, Zenon DEF Unload
<1>7. CASE Join
  BY <1>7, Zenon DEF Join
<1>8. CASE Drop
  BY <1>8, Zenon DEF Drop, Alive
<1>9. CASE Crash
  BY <1>9, Zenon DEF Crash, SIGKILL, Alive
<1> QED
  BY <1>1, <1>2, <1>3, <1>4, <1>5, <1>6, <1>7, <1>8, <1>9, Zenon DEF Finish

LEMMA SetupChild ==
    ASSUME SetupInv, Child
    PROVE  SetupInv'
<1> USE DEF SetupInv, Early, BpfReady, Prepared, ebpfVars, supVars, Child
<1>1. CASE ReadSync
  BY <1>1, Zenon DEF ReadSync
<1>2. CASE SetupSandbox
  BY <1>2, Zenon DEF SetupSandbox
<1>3. CASE Resumed
  BY <1>3, Zenon DEF Resumed
<1>4. CASE Act
  <2>1. UNCHANGED <<target, attached, cons>>
    BY <1>4, Zenon DEF Act, Hit
  <2>2. CASE own' = own /\ child' = child
    BY <2>1, <2>2, Zenon
  <2>3. CASE child \in {"exec", "running"}
    BY <2>1, <2>3, <1>4, Zenon DEF Act
  <2> QED
    BY <1>4, <2>2, <2>3, Zenon DEF Act
<1>5. CASE KilledEarly
  BY <1>5, Zenon DEF KilledEarly
<1>6. CASE Exit
  BY <1>6, Zenon DEF Exit
<1>7. CASE Die
  BY <1>7, Zenon DEF Die
<1> QED
  BY <1>1, <1>2, <1>3, <1>4, <1>5, <1>6, <1>7, Zenon DEF Child

LEMMA SetupHelper ==
    ASSUME SetupInv, Helper
    PROVE  SetupInv'
<1> USE DEF SetupInv, Early, BpfReady, Prepared, supVars, Helper
<1>1. CASE LoadObject
  BY <1>1, Zenon DEF LoadObject
<1>2. CASE SetTarget
  BY <1>2, Zenon DEF SetTarget
<1>3. CASE AttachAll
  BY <1>3, Zenon DEF AttachAll
<1>4. CASE Serve
  BY <1>4, Zenon DEF Serve
<1> QED
  BY <1>1, <1>2, <1>3, <1>4, Zenon DEF Helper

LEMMA SetupStep == SetupInv /\ [Next]_vars => SetupInv'
<1> SUFFICES ASSUME SetupInv, [Next]_vars PROVE SetupInv'
  OBVIOUS
<1>1. CASE Supervisor
  BY <1>1, SetupSupervisor1, SetupSupervisor2, Zenon DEF Supervisor
<1>2. CASE Down
  BY <1>2, SetupSupervisor2, Zenon DEF Down
<1>3. CASE Child
  BY <1>3, SetupChild, Zenon
<1>4. CASE Helper
  BY <1>4, SetupHelper, Zenon
<1>5. CASE Poll
  BY <1>5, SetupConsumer, Zenon DEF Poll
<1>6. CASE Kernel \/ TeesEnd \/ Expire \/ Interrupt \/ UNCHANGED vars
  BY <1>6 DEF Kernel, Submit, TeesEnd, Expire, Interrupt, vars, supVars, ebpfVars,
              SetupInv, Early, BpfReady, Prepared
<1> QED
  BY <1>1, <1>2, <1>3, <1>4, <1>5, <1>6, Zenon DEF Next

\* spawn_sandboxed and parent_setup: whatever fails and whenever the supervisor
\* dies, the command runs only with its maps, scope, allowlist and filter in place.
THEOREM ReadyToExecHolds == Spec => []ReadyToExec
<1>1. SetupInv => ReadyToExec
  BY Zenon DEF SetupInv, Prepared, BpfReady, ReadyToExec
<1> QED
  BY <1>1, SetupInit, SetupStep, PTL DEF Spec

\* CgroupScope: a systemd scope has its holder until the child is in it.
THEOREM ScopePopulatedHolds == Spec => []ScopePopulated
<1>1. SetupInv => ScopePopulated
  BY Zenon DEF SetupInv, ScopePopulated
<1> QED
  BY <1>1, SetupInit, SetupStep, PTL DEF Spec

-----------------------------------------------------------------------------
(* The ring buffer and its reader.                                         *)

Hits == Happenings \cup {ExecHappening}
Records == [what : Hits, whose : {"run", "other"}, ready : BOOLEAN]
Events == {Dropped} \cup {Meaning(h) : h \in Hits}

RingInv ==
    /\ ring \in Seq(Records) /\ fired \in Seq(Hits) /\ trace \in Seq(Events)
    /\ OwnRecords
    /\ RecordsInOrder

LEMMA HitsType ==
    ASSUME NEW h \in Hits
    PROVE  /\ h \in [kind : {"exec", "exit", "open", "connect"}, a : Nat, b : Int]
           /\ h.kind = "exit" => h.a < 256 \/ (h.a < 65536 /\ h.a % 256 = 0)
<1>1. CASE h \in Happenings
  BY <1>1, EbpfAssumption
<1>2. CASE h = ExecHappening
  BY <1>2 DEF ExecHappening
<1> QED
  BY <1>1, <1>2 DEF Hits

\* What the programs and convert_raw_event make of a happening is what it means.
LEMMA ConvertMeaning ==
    ASSUME NEW h \in Hits
    PROVE  convert_raw_event(RawEvent(h)) = Meaning(h)
<1>0. /\ h.kind \in {"exec", "exit", "open", "connect"} /\ h.a \in Nat /\ h.b \in Int
      /\ h.kind = "exit" => h.a < 256 \/ (h.a < 65536 /\ h.a % 256 = 0)
  BY HitsType
<1>1. CASE h.kind = "exec"
  BY <1>1 DEF convert_raw_event, RawEvent, Meaning, ExecPayload
<1>2. CASE h.kind = "open"
  BY <1>2 DEF convert_raw_event, RawEvent, Meaning, OpenPayload
<1>3. CASE h.kind = "connect"
  <2>1. CASE h.b > 0
    BY <1>0, <1>3, <2>1 DEF convert_raw_event, RawEvent, Meaning, ConnectPayload
  <2>2. CASE h.b <= 0
    BY <1>0, <1>3, <2>2 DEF convert_raw_event, RawEvent, Meaning, ConnectPayload
  <2> QED
    BY <1>0, <2>1, <2>2
<1>4. CASE h.kind = "exit"
  <2>1. convert_raw_event(RawEvent(h))
          = [type |-> "ProcessExit", detail |-> <<(h.a \div 256) % 256, h.a % 128>>]
    BY <1>4 DEF convert_raw_event, RawEvent, ExitPayload
  <2>2. CASE h.a < 256
    <3>1. (h.a \div 256) % 256 = 0
      BY <1>0, <2>2
    <3> QED
      BY <1>4, <2>1, <2>2, <3>1, Zenon DEF Meaning
  <2>3. CASE ~(h.a < 256)
    <3>1. (h.a \div 256) % 256 = h.a \div 256 /\ h.a % 128 = 0
      BY <1>0, <1>4, <2>3
    <3> QED
      BY <1>4, <2>1, <2>3, <3>1, Zenon DEF Meaning
  <2> QED
    BY <2>2, <2>3, Zenon
<1> QED
  BY <1>0, <1>1, <1>2, <1>3, <1>4

LEMMA RingInit == Init => RingInv
BY DEF Init, EbpfInit, RingInv, OwnRecords, RecordsInOrder

\* A program reserves a record: only one that serves the target cgroup does.
LEMMA RingHit ==
    ASSUME RingInv, attached => target = "run",
           NEW g \in {"run", "other"}, NEW h \in Hits, Hit(g, h)
    PROVE  RingInv'
<1>1. CASE UNCHANGED <<ring, fired, trace>>
  BY <1>1, Zenon DEF RingInv, OwnRecords, RecordsInOrder
<1>2. CASE attached /\ cgroup_match(g) /\ Len(ring) < RingSize
  <2>1. g = "run"
    BY <1>2, Zenon DEF cgroup_match
  <2>2. /\ ring' = Append(ring, [what |-> h, whose |-> "run", ready |-> FALSE])
        /\ fired' = Append(fired, h) /\ trace' = trace
    BY <1>2, <2>1, Zenon DEF Hit, Reserve
  <2>3. /\ ring \in Seq(Records) /\ fired \in Seq(Hits) /\ trace \in Seq(Events)
        /\ Len(trace) + Len(ring) = Len(fired)
    BY Zenon DEF RingInv, RecordsInOrder
  <2>4. ring' \in Seq(Records) /\ fired' \in Seq(Hits) /\ trace' \in Seq(Events)
    BY <2>2, <2>3 DEF Records
  <2>5. OwnRecords'
    BY <2>2, <2>3 DEF RingInv, OwnRecords, Records
  <2>6. RecordsInOrder'
    <3>1. Len(ring') = Len(ring) + 1 /\ Len(fired') = Len(fired) + 1
      BY <2>2, <2>3
    <3>2. \A i \in DOMAIN trace' : trace'[i] \in {Dropped, Meaning(fired'[i])}
      <4> SUFFICES ASSUME NEW i \in DOMAIN trace
                   PROVE  trace[i] \in {Dropped, Meaning(fired'[i])}
        BY <2>2, Zenon
      <4>1. fired'[i] = fired[i]
        BY <2>2, <2>3
      <4> QED
        BY <4>1, Zenon DEF RingInv, RecordsInOrder
    <3>3. \A i \in DOMAIN ring' : ring'[i].what = fired'[Len(trace') + i]
      <4> SUFFICES ASSUME NEW i \in DOMAIN ring'
                   PROVE  ring'[i].what = fired'[Len(trace) + i]
        BY <2>2, Zenon
      <4>1. CASE i \in DOMAIN ring
        <5>1. ring'[i] = ring[i] /\ fired'[Len(trace) + i] = fired[Len(trace) + i]
          BY <2>2, <2>3, <4>1
        <5> QED
          BY <5>1, <4>1, Zenon DEF RingInv, RecordsInOrder
      <4>2. CASE i = Len(ring) + 1
        BY <2>2, <2>3, <4>2
      <4> QED
        BY <2>3, <3>1, <2>2, <4>1, <4>2
    <3>4. Len(trace') + Len(ring') = Len(fired')
      BY <2>2, <2>3, <3>1
    <3> QED
      BY <3>2, <3>3, <3>4, Zenon DEF RecordsInOrder
  <2> QED
    BY <2>4, <2>5, <2>6, Zenon DEF RingInv
<1> QED
  BY <1>1, <1>2, Zenon DEF Hit, Reserve

\* The records may be submitted in any order.
LEMMA RingSubmit ==
    ASSUME RingInv, Submit
    PROVE  RingInv'
<1>1. PICK k \in DOMAIN ring : ring' = [ring EXCEPT ![k].ready = TRUE]
  BY Zenon DEF Submit
<1>2. /\ ring \in Seq(Records) /\ ring[k] \in Records
      /\ fired' = fired /\ trace' = trace
  BY DEF RingInv, Submit
<1>3. PICK r \in Records :
          r.what = ring[k].what /\ r.whose = ring[k].whose /\ ring' = [ring EXCEPT ![k] = r]
  <2> DEFINE r == [ring[k] EXCEPT !.ready = TRUE]
  <2>1. r \in Records /\ r.what = ring[k].what /\ r.whose = ring[k].whose
    BY <1>2, Zenon DEF Records
  <2>2. ring' = [ring EXCEPT ![k] = r]
    BY <1>1, Zenon
  <2> HIDE DEF r
  <2> QED
    BY <2>1, <2>2, Zenon
<1>4. /\ ring' \in Seq(Records) /\ Len(ring') = Len(ring) /\ DOMAIN ring' = DOMAIN ring
      /\ \A i \in DOMAIN ring : ring'[i] = IF i = k THEN r ELSE ring[i]
  BY <1>2, <1>3
<1>5. \A i \in DOMAIN ring : ring'[i].what = ring[i].what /\ ring'[i].whose = ring[i].whose
  BY <1>3, <1>4, Zenon
<1>6. OwnRecords'
  BY <1>4, <1>5, Zenon DEF RingInv, OwnRecords
<1>7. RecordsInOrder'
  BY <1>2, <1>4, <1>5, Zenon DEF RingInv, RecordsInOrder
<1> QED
  BY <1>2, <1>4, <1>6, <1>7, Zenon DEF RingInv

\* The reader takes the oldest record.
LEMMA RingConsume ==
    ASSUME RingInv, Consume
    PROVE  RingInv'
<1>1. /\ ring \in Seq(Records) /\ fired \in Seq(Hits) /\ trace \in Seq(Events)
      /\ Len(trace) + Len(ring) = Len(fired)
      /\ ring # <<>> /\ ring' = Tail(ring) /\ fired' = fired
  BY Zenon DEF RingInv, RecordsInOrder, Consume
<1>2. /\ Len(ring) > 0 /\ Len(ring') = Len(ring) - 1 /\ ring' \in Seq(Records)
      /\ \A i \in DOMAIN ring' : i + 1 \in DOMAIN ring /\ ring'[i] = ring[i + 1]
      /\ Head(ring) = ring[1] /\ 1 \in DOMAIN ring /\ ring[1] \in Records
  BY <1>1
<1>3. /\ Head(ring).what \in Hits
      /\ Head(ring).what = fired[Len(trace) + 1]
  BY <1>1, <1>2, Zenon DEF RingInv, RecordsInOrder, Records
<1>4. PICK ev \in {Dropped, Meaning(fired[Len(trace) + 1])} : trace' = Append(trace, ev)
  BY <1>3, ConvertMeaning, Zenon DEF Consume
<1>5. ev \in Events
  BY <1>3, <1>4, Zenon DEF Events
<1>6. /\ trace' \in Seq(Events) /\ Len(trace') = Len(trace) + 1
      /\ trace'[Len(trace) + 1] = ev
      /\ \A i \in DOMAIN trace : trace'[i] = trace[i]
      /\ DOMAIN trace' = DOMAIN trace \cup {Len(trace) + 1}
  BY <1>1, <1>4, <1>5
<1>7. OwnRecords'
  BY <1>2, Zenon DEF RingInv, OwnRecords
<1>8. \A i \in DOMAIN trace' : trace'[i] \in {Dropped, Meaning(fired'[i])}
  BY <1>1, <1>4, <1>6, Zenon DEF RingInv, RecordsInOrder
<1>9. \A i \in DOMAIN ring' : ring'[i].what = fired'[Len(trace') + i]
  <2> SUFFICES ASSUME NEW i \in DOMAIN ring'
               PROVE  ring[i + 1].what = fired[Len(trace) + 1 + i]
    BY <1>1, <1>2, <1>6, Zenon
  <2>1. ring[i + 1].what = fired[Len(trace) + (i + 1)] /\ i \in Int /\ Len(trace) \in Int
    BY <1>1, <1>2 DEF RingInv, RecordsInOrder
  <2> QED
    BY <2>1
<1> QED
  BY <1>1, <1>2, <1>6, <1>7, <1>8, <1>9 DEF RingInv, RecordsInOrder

LEMMA RingStep == SetupInv /\ RingInv /\ [Next]_vars => RingInv'
<1> SUFFICES ASSUME SetupInv, RingInv, [Next]_vars PROVE RingInv'
  OBVIOUS
<1>1. CASE UNCHANGED <<ring, fired, trace>>
  BY <1>1, Zenon DEF RingInv, OwnRecords, RecordsInOrder
<1>2. CASE Child
  <2>1. CASE Act
    <3>1. PICK g \in {"run", "other"}, h \in Hits : Hit(g, h)
      BY <2>1, Zenon DEF Act, Hits
    <3> QED
      BY <3>1, RingHit, Zenon DEF SetupInv
  <2>2. CASE ~Act
    BY <1>1, <1>2, <2>2, Zenon DEF Child, ReadSync, SetupSandbox, Resumed, KilledEarly, Exit, Die, ebpfVars
  <2> QED
    BY <2>1, <2>2, Zenon
<1>3. CASE Kernel
  BY <1>3, RingSubmit, Zenon DEF Kernel
<1>4. CASE Poll
  <2>1. CASE Consume
    BY <2>1, RingConsume, Zenon
  <2>2. CASE ~Consume
    BY <1>1, <1>4, <2>2, Zenon DEF Poll, Consumer, OpenRing, PollEmpty, PollError, StopSeen, FinalPoll
  <2> QED
    BY <2>1, <2>2, Zenon
<1>5. CASE Setup \/ Finish \/ Crash
  <2>1. CASE Setup
    BY <1>1, <2>1, Zenon DEF Setup, CreateScope, LoadBpf, BpfAnswer, Clone, WriteMaps, HookCgroup,
       HookNetwork, Release, Abort, Aborted, AssignPid, OpenFiles, Start, ebpfVars
  <2>2. CASE Finish
    BY <1>1, <2>2, Zenon DEF Finish, Wait, Grace, KillWait, StopConsumer, JoinConsumer, Unload, Join,
       Drop, ebpfVars
  <2>3. CASE Crash
    BY <1>1, <2>3, Zenon DEF Crash, ebpfVars
  <2> QED
    BY <1>5, <2>1, <2>2, <2>3, Zenon
<1>6. CASE Helper \/ TeesEnd \/ Expire \/ Interrupt \/ UNCHANGED vars
  BY <1>1, <1>6, Zenon DEF Helper, TeesEnd, Expire, Interrupt, vars, ebpfVars
<1> QED
  BY <1>2, <1>3, <1>4, <1>5, <1>6, Zenon DEF Next, Supervisor, Down

\* The programs, the ring buffer and convert_raw_event: only tasks of the target
\* cgroup leave records, and each reserved record is read once, in order, and says
\* what happened or is counted as dropped.
THEOREM RecordsFaithfulHolds == Spec => []RecordsFaithful
<1>1. RingInv => RecordsFaithful
  BY Zenon DEF RingInv, RecordsFaithful
<1> QED
  BY <1>1, SetupInit, SetupStep, RingInit, RingStep, PTL DEF Spec

-----------------------------------------------------------------------------
(* What a run leaves behind.                                               *)

\* An Ok result has come past every wait of the run; an error has the child
\* reaped, none made, or is one of the two early returns that leave it.
Accounted ==
    IF res = "ok"
      THEN /\ child = "reaped" /\ tees = "done" /\ net # "on"
           /\ cons = IF opt.trace = "ebpf" THEN "ok" ELSE "none"
      ELSE \/ child \in {"none", "reaped"}
           \/ sync = "byte" /\ (tees = "none" \/ (opt.trace = "ebpf" /\ sock = "none"))

\* What the supervisor has waited for at each point of the way out.
EndInv ==
    /\ pc \in {"scope", "bpf", "bpfwait", "clone"} => child = "none"
    /\ pc \in Early \cup {"assign", "files"} => tees = "none"
    /\ pc \in {"assign", "files", "start"} => sync = "byte"
    /\ pc \in {"stop", "consumer", "unload", "join"} => child = "reaped"
    /\ opt.trace # "ebpf" => cons = "none"
    /\ pc = "unload" => opt.trace = "ebpf"
    /\ pc \in {"unload", "join"} /\ opt.trace = "ebpf" => cons = "ok"
    /\ pc # "done" => scope \in {"none", "up"}
    /\ pc \in {"drop", "done"} => Accounted
    /\ pc = "done" /\ res = "ok" => scope # "left" /\ (holder = "up" => scope = "none")

LEMMA EndSupervisor1 ==
    ASSUME EndInv, Setup
    PROVE  EndInv'
<1> USE DEF EndInv, Accounted, Early, Goto, Return, ebpfVars
<1>1. CASE CreateScope
  BY <1>1, Zenon DEF CreateScope, Holder
<1>2. CASE LoadBpf
  BY <1>2, Zenon DEF LoadBpf, Traced
<1>3. CASE BpfAnswer
  BY <1>3, Zenon DEF BpfAnswer
<1>4. CASE Clone
  BY <1>4, Zenon DEF Clone
<1>5. CASE WriteMaps
  BY <1>5, Zenon DEF WriteMaps
<1>6. CASE HookCgroup
  BY <1>6, Zenon DEF HookCgroup
<1>7. CASE HookNetwork
  BY <1>7, Zenon DEF HookNetwork
<1>8. CASE Release
  BY <1>8, Zenon DEF Release
<1>9. CASE Abort
  BY <1>9, Zenon DEF Abort, SIGKILL, Alive
<1>10. CASE Aborted
  BY <1>10, Zenon DEF Aborted, Reap
<1>11. CASE AssignPid
  BY <1>11, Zenon DEF AssignPid
<1>12. CASE OpenFiles
  BY <1>12, Zenon DEF OpenFiles
<1>13. CASE Start
  BY <1>13, Zenon DEF Start
<1> QED
  BY <1>1, <1>2, <1>3, <1>4, <1>5, <1>6, <1>7, <1>8, <1>9, <1>10, <1>11, <1>12, <1>13, Zenon
  DEF Setup

LEMMA EndSupervisor2 ==
    ASSUME EndInv, Finish \/ Crash
    PROVE  EndInv'
<1> USE DEF EndInv, Accounted, Early, Goto, Return, ebpfVars
<1>1. CASE Wait
  BY <1>1, Zenon DEF Wait, Reap, SIGKILL, Alive, AfterWait
<1>2. CASE Grace
  BY <1>2, Zenon DEF Grace, Reap, SIGKILL, Alive, AfterWait
<1>3. CASE KillWait
  BY <1>3, Zenon DEF KillWait, Reap, AfterWait
<1>4. CASE StopConsumer
  BY <1>4, Zenon DEF StopConsumer
<1>5. CASE JoinConsumer
  BY <1>5, Zenon DEF JoinConsumer
<1>6. CASE Unload
  BY <1>6, Zenon DEF Unload
<1>7. CASE Join
  BY <1>7, Zenon DEF Join
<1>8. CASE Drop
  BY <1>8, Zenon DEF Drop, Alive
<1>9. CASE Crash
  BY <1>9, Zenon DEF Crash, SIGKILL, Alive
<1> QED
  BY <1>1, <1>2, <1>3, <1>4, <1>5, <1>6, <1>7, <1>8, <1>9, Zenon DEF Finish

\* A child that is reaped, or was never made, has no step.
LEMMA ChildGone ==
    ASSUME Child
    PROVE  /\ child \in {"none", "reaped"} => UNCHANGED <<child, own>>
           /\ UNCHANGED <<supVars, tees, helper, cons, target, attached, over, stop, trace, cut>>
<1>1. UNCHANGED <<cons, target, attached, stop, trace, cut>>
  BY Zenon DEF Child, ReadSync, SetupSandbox, Resumed, Act, Hit, KilledEarly, Exit, Die, ebpfVars
<1>2. ASSUME child \in {"none", "reaped"} PROVE UNCHANGED <<child, own>>
  BY <1>2, Zenon DEF Child, ReadSync, SetupSandbox, Resumed, Act, KilledEarly, Exit, Die, ebpfVars
<1> QED
  BY <1>1, <1>2, Zenon DEF Child

\* A consumer thread that has not started, or has ended, has no step.
LEMMA ConsumerGone ==
    ASSUME Consumer
    PROVE  /\ cons \notin {"none", "ok", "err"} /\ cons' # "none"
           /\ UNCHANGED <<target, attached, own, missed, fired, stop>>
BY Zenon DEF Consumer, OpenRing, Consume, PollEmpty, PollError, StopSeen, FinalPoll

LEMMA EndStep == EndInv /\ [Next]_vars => EndInv'
<1> SUFFICES ASSUME EndInv, [Next]_vars PROVE EndInv'
  OBVIOUS
<1>1. CASE Supervisor
  BY <1>1, EndSupervisor1, EndSupervisor2, Zenon DEF Supervisor
<1>2. CASE Down
  BY <1>2, EndSupervisor2, Zenon DEF Down
<1> USE DEF EndInv, Accounted, Early, supVars, ebpfVars
<1>3. CASE Child
  BY <1>3, ChildGone, Zenon
<1>4. CASE Poll
  BY <1>4, ConsumerGone, Zenon DEF Poll
<1>5. CASE TeesEnd
  BY <1>5, Zenon DEF TeesEnd
<1>6. CASE Helper \/ Kernel \/ Expire \/ Interrupt \/ UNCHANGED vars
  <2>1. UNCHANGED <<supVars, child, tees, cons>>
    BY <1>6, Zenon DEF Helper, Kernel, Submit, Expire, Interrupt, vars
  <2> QED
    BY <2>1, Zenon
<1> QED
  BY <1>1, <1>2, <1>3, <1>4, <1>5, <1>6, Zenon DEF Next

LEMMA EndInit == Init => EndInv
BY DEF Init, EbpfInit, EndInv, Accounted, Early

\* execute_namespace and spawn_sandboxed: an Ok result leaves no child, no thread
\* at work, no allowlist and no scope; an error leaves no child but at the two
\* returns between the release of the child and the wait for it.
THEOREM ReturnsCleanHolds == Spec => []ReturnsClean
<1>1. EndInv => ReturnsClean
  BY Zenon DEF EndInv, Accounted, ReturnsClean, OkIsClean, ErrIsClean
<1> QED
  BY <1>1, EndInit, EndStep, PTL DEF Spec

-----------------------------------------------------------------------------
(* The trace has all that the tool did.                                    *)

\* From the answer of the helper to the end of the consumer thread.
Watching == {"clone", "maps", "cgroup", "net", "sync", "abort", "abortwait", "assign", "files",
             "start", "wait", "grace", "killwait", "stop", "consumer"}

\* The points on the way to an Ok result, and whether the programs have seen all
\* that the tool did there.
OnTheWay == pc \in Watching \cup {"bpfwait", "unload", "join"} \/ (pc \in {"drop", "done"} /\ res = "ok")
Tally == Len(fired) + missed = own

\* Each step of the tool is reserved or missed while the programs are attached, and
\* they stay attached until the child is reaped unless the helper's deadline cuts in.
HitInv ==
    /\ own \in Nat /\ missed \in Nat /\ Len(fired) + missed <= own
    /\ child \in {"none", "blocked", "setup", "stopped", "exec"} => own = 0
    /\ attached <=> helper = "serve"
    /\ over => helper = "closed"
    /\ sock = "none" => helper = "none"
    /\ sock # "none" => scope # "none"
    /\ pc = "bpfwait" => sock = "open"
    /\ pc \in Watching /\ sock # "none" => sock = "open" /\ (~over => helper = "serve")
    /\ pc \in {"scope", "bpf"} => Tally
    /\ sock # "none" /\ ~over /\ OnTheWay => Tally

\* What happens outside the run leaves no record.
LEMMA ActCases ==
    ASSUME SetupInv, Act
    PROVE  \/ UNCHANGED <<own, child, ring, fired, missed>>
           \/ /\ child \in {"exec", "running"} /\ child' = "running" /\ own' = own + 1
              /\ \E h \in Hits : Hit(IF inCg THEN "run" ELSE "other", h)
<1>1. PICK mine \in BOOLEAN, h \in Hits :
          /\ mine => child = (IF h = ExecHappening THEN "exec" ELSE "running")
          /\ own' = IF mine THEN own + 1 ELSE own
          /\ child' = IF mine THEN "running" ELSE child
          /\ Hit(IF mine /\ inCg THEN "run" ELSE "other", h)
  BY Zenon DEF Act, Hits
<1>2. CASE mine
  BY <1>1, <1>2, Zenon
<1>3. CASE ~mine
  <2>1. Hit("other", h) /\ own' = own /\ child' = child
    BY <1>1, <1>3, Zenon
  <2>2. ~(attached /\ cgroup_match("other"))
    BY DEF SetupInv, cgroup_match
  <2> QED
    BY <2>1, <2>2, Zenon DEF Hit
<1> QED
  BY <1>2, <1>3, Zenon

LEMMA HitAct ==
    ASSUME SetupInv, EndInv, RingInv, HitInv, Act, Child
    PROVE  HitInv'
<1>1. UNCHANGED <<supVars, helper, attached, target, over>>
  BY ChildGone, Zenon
<1>2. CASE UNCHANGED <<own, child, ring, fired, missed>>
  BY <1>1, <1>2, Zenon DEF HitInv, Tally, OnTheWay, supVars
<1>3. ASSUME child \in {"exec", "running"}, child' = "running", own' = own + 1,
             NEW h \in Hits, Hit(IF inCg THEN "run" ELSE "other", h)
      PROVE  HitInv'
  <2>1. /\ own \in Nat /\ missed \in Nat /\ Len(fired) \in Nat /\ Len(fired) + missed <= own
        /\ fired \in Seq(Hits)
    <3>1. fired \in Seq(Hits)
      BY Zenon DEF RingInv
    <3>2. Len(fired) \in Nat
      BY <3>1
    <3> QED
      BY <3>1, <3>2, Zenon DEF HitInv
  <2>2. \/ Len(fired') = Len(fired) + 1 /\ missed' = missed
        \/ fired' = fired /\ missed' = missed + 1
        \/ UNCHANGED <<fired, missed>> /\ ~(attached /\ cgroup_match(IF inCg THEN "run" ELSE "other"))
    <3>1. \/ fired' = Append(fired, h) /\ missed' = missed
          \/ fired' = fired /\ missed' = missed + 1
          \/ UNCHANGED <<fired, missed>> /\ ~(attached /\ cgroup_match(IF inCg THEN "run" ELSE "other"))
      BY <1>3, Zenon DEF Hit, Reserve
    <3>2. Len(Append(fired, h)) = Len(fired) + 1
      BY <2>1
    <3> QED
      BY <3>1, <3>2, Zenon
  <2>3. own' \in Nat /\ missed' \in Nat /\ Len(fired') + missed' <= own'
    BY <1>3, <2>1, <2>2
  <2>4. ASSUME sock # "none", ~over, OnTheWay PROVE Tally'
    <3>1. pc \in Watching
      BY <1>3, <2>4, Zenon DEF OnTheWay, EndInv, Accounted
    <3>2. attached /\ target = "run" /\ inCg
      BY <1>3, <2>4, <3>1, Zenon DEF HitInv, SetupInv, Prepared
    <3>3. attached /\ cgroup_match(IF inCg THEN "run" ELSE "other")
      BY <3>2, Zenon DEF cgroup_match
    <3>4. Tally
      BY <2>4, Zenon DEF HitInv
    <3> QED
      BY <1>3, <2>1, <2>2, <3>3, <3>4 DEF Tally
  <2>5. pc \notin {"scope", "bpf"}
    BY <1>3, Zenon DEF EndInv
  <2> QED
    BY <1>1, <1>3, <2>3, <2>4, <2>5, Zenon DEF HitInv, OnTheWay, supVars
<1> QED
  BY <1>2, <1>3, ActCases, Zenon

LEMMA HitSupervisor1 ==
    ASSUME SetupInv, EndInv, HitInv, Setup, UNCHANGED over
    PROVE  HitInv'
<1> USE DEF HitInv, Tally, OnTheWay, Watching, Goto, Return, ebpfVars
<1>1. CASE CreateScope
  BY <1>1, Zenon DEF CreateScope, Holder, SetupInv
<1>2. CASE LoadBpf
  BY <1>2, Zenon DEF LoadBpf, Traced, SetupInv
<1>3. CASE BpfAnswer
  BY <1>3, Zenon DEF BpfAnswer
<1>4. CASE Clone
  BY <1>4, Zenon DEF Clone, EndInv
<1>5. CASE WriteMaps
  BY <1>5, Zenon DEF WriteMaps
<1>6. CASE HookCgroup
  BY <1>6, Zenon DEF HookCgroup
<1>7. CASE HookNetwork
  BY <1>7, Zenon DEF HookNetwork
<1>8. CASE Release
  BY <1>8, Zenon DEF Release
<1>9. CASE Abort
  BY <1>9, Zenon DEF Abort, SIGKILL, Alive
<1>10. CASE Aborted
  BY <1>10, Zenon DEF Aborted, Reap
<1>11. CASE AssignPid
  BY <1>11, Zenon DEF AssignPid
<1>12. CASE OpenFiles
  BY <1>12, Zenon DEF OpenFiles
<1>13. CASE Start
  <2>1. UNCHANGED <<scope, sock, child, helper, over, attached, own, missed, fired>>
    BY <1>13, Zenon DEF Start
  <2>2. pc = "start" /\ (pc' = "wait" \/ (pc' = "drop" /\ res' = "err"))
    BY <1>13, Zenon DEF Start
  <2>3. pc \in Watching /\ pc' \notin {"bpfwait", "scope", "bpf"} /\ OnTheWay
    BY <2>2, Zenon
  <2>4. Tally' <=> Tally
    BY <2>1, Zenon
  <2> HIDE DEF Tally, OnTheWay, Watching
  <2> QED
    BY <2>1, <2>3, <2>4
<1> QED
  BY <1>1, <1>2, <1>3, <1>4, <1>5, <1>6, <1>7, <1>8, <1>9, <1>10, <1>11, <1>12, <1>13, Zenon
  DEF Setup

LEMMA HitSupervisor2 ==
    ASSUME SetupInv, EndInv, HitInv, Finish \/ Crash, UNCHANGED over
    PROVE  HitInv'
<1> USE DEF HitInv, Tally, OnTheWay, Watching, Goto, Return, ebpfVars
<1>1. CASE Wait
  BY <1>1, Zenon DEF Wait, Reap, SIGKILL, Alive, AfterWait
<1>2. CASE Grace
  BY <1>2, Zenon DEF Grace, Reap, SIGKILL, Alive, AfterWait
<1>3. CASE KillWait
  BY <1>3, Zenon DEF KillWait, Reap, AfterWait
<1>4. CASE StopConsumer
  BY <1>4, Zenon DEF StopConsumer
<1>5. CASE JoinConsumer
  BY <1>5, Zenon DEF JoinConsumer, SetupInv
<1>6. CASE Unload
  BY <1>6, Zenon DEF Unload
<1>7. CASE Join
  BY <1>7, Zenon DEF Join
<1>8. CASE Drop
  BY <1>8, Zenon DEF Drop, Alive, EndInv
<1>9. CASE Crash
  BY <1>9, Zenon DEF Crash, SIGKILL, Alive
<1> QED
  BY <1>1, <1>2, <1>3, <1>4, <1>5, <1>6, <1>7, <1>8, <1>9, Zenon DEF Finish

LEMMA HitHelper ==
    ASSUME HitInv, Helper
    PROVE  HitInv'
<1> USE DEF HitInv, Tally, OnTheWay, Watching, supVars, Helper
<1>1. CASE LoadObject
  BY <1>1, Zenon DEF LoadObject
<1>2. CASE SetTarget
  BY <1>2, Zenon DEF SetTarget
<1>3. CASE AttachAll
  <2>1. UNCHANGED <<over, own, missed, fired, child>> /\ ~over /\ helper = "attach" /\ ~attached
    BY <1>3, Zenon DEF AttachAll
  <2>2. \/ helper' = "serve" /\ attached'
        \/ helper' = "closed" /\ ~attached'
    BY <1>3, <2>1, Zenon DEF AttachAll
  <2>3. ~(pc \in Watching /\ sock # "none")
    BY <2>1, Zenon
  <2> QED
    BY <2>1, <2>2, <2>3, Zenon
<1>4. CASE Serve
  BY <1>4, Zenon DEF Serve
<1> QED
  BY <1>1, <1>2, <1>3, <1>4, Zenon

LEMMA HitStep == SetupInv /\ EndInv /\ RingInv /\ HitInv /\ [Next]_vars => HitInv'
<1> SUFFICES ASSUME SetupInv, EndInv, RingInv, HitInv, [Next]_vars PROVE HitInv'
  OBVIOUS
<1>1. CASE Supervisor
  BY <1>1, HitSupervisor1, HitSupervisor2, Zenon DEF Supervisor
<1>2. CASE Down
  BY <1>2, HitSupervisor2, Zenon DEF Down
<1>3. CASE Child
  <2>1. CASE Act
    BY <1>3, <2>1, HitAct, Zenon
  <2>2. CASE ~Act
    <3>1. UNCHANGED <<own, missed, fired, attached, supVars, helper, over>>
      BY <1>3, <2>2, Zenon DEF Child, ReadSync, SetupSandbox, Resumed, KilledEarly, Exit, Die, ebpfVars
    <3>2. child' \in {"none", "blocked", "setup", "stopped", "exec"}
             => child \in {"none", "blocked", "setup", "stopped", "exec"}
      BY <1>3, <2>2, Zenon DEF Child, ReadSync, SetupSandbox, Resumed, KilledEarly, Exit, Die
    <3> QED
      BY <3>1, <3>2, Zenon DEF HitInv, Tally, OnTheWay, supVars
  <2> QED
    BY <2>1, <2>2, Zenon
<1>4. CASE Helper
  BY <1>4, HitHelper, Zenon
<1>5. CASE Poll \/ Kernel \/ TeesEnd \/ Expire \/ Interrupt \/ UNCHANGED vars
  <2>1. UNCHANGED <<own, missed, fired, attached, supVars, helper, over, child>>
    BY <1>5, ConsumerGone, Zenon DEF Poll, Kernel, Submit, TeesEnd, Expire, Interrupt, vars, ebpfVars
  <2> QED
    BY <2>1, Zenon DEF HitInv, Tally, OnTheWay, supVars
<1> QED
  BY <1>1, <1>2, <1>3, <1>4, <1>5, Zenon DEF Next

\* The child is a zombie only once every program it was in has submitted its
\* record; the consumer is told to stop only once the child is reaped, so the last
\* poll finds them all.
AllReady == \A i \in DOMAIN ring : ring[i].ready
DrainInv ==
    /\ stop => child = "reaped"
    /\ cons \in {"final", "ok"} => stop
    /\ cons = "ok" /\ ~cut => ring = <<>>
    /\ child \in {"zombie", "reaped"} => AllReady

\* The records of a child that dies are all submitted.
LEMMA DeadReady ==
    ASSUME RingInv, HitInv, Child, ~Act, child' = "zombie"
    PROVE  AllReady
<1>1. CASE child \in {"blocked", "setup"}
  <2>1. /\ own = 0 /\ missed \in Nat /\ Len(fired) + missed <= own
        /\ Len(trace) + Len(ring) = Len(fired)
    BY <1>1, Zenon DEF HitInv, RingInv, RecordsInOrder
  <2>2. Len(trace) \in Nat /\ Len(ring) \in Nat /\ DOMAIN ring = 1 .. Len(ring)
    BY DEF RingInv
  <2>3. Len(ring) = 0
    BY <2>1, <2>2
  <2> QED
    BY <2>2, <2>3 DEF AllReady
<1>2. CASE InFlight("run") = {}
  BY <1>2, Zenon DEF InFlight, RingInv, OwnRecords, AllReady
<1> QED
  BY <1>1, <1>2, Zenon DEF Child, ReadSync, SetupSandbox, Resumed, KilledEarly, Exit, Die

LEMMA DrainConsumer ==
    ASSUME RingInv, DrainInv, Consumer, UNCHANGED child
    PROVE  DrainInv'
<1>0. ring \in Seq(Records) /\ DOMAIN ring = 1 .. Len(ring)
  BY DEF RingInv
<1>1. CASE Consume
  <2>1. /\ ring # <<>> /\ ring' = Tail(ring) /\ cons \in {"poll", "final"}
        /\ UNCHANGED <<cons, stop, cut>>
    BY <1>1, Zenon DEF Consume
  <2>2. AllReady => AllReady'
    <3>1. \A i \in DOMAIN ring' : i + 1 \in DOMAIN ring /\ ring'[i] = ring[i + 1]
      BY <1>0, <2>1
    <3> QED
      BY <3>1, Zenon DEF AllReady
  <2> QED
    BY <2>1, <2>2, Zenon DEF DrainInv
<1>2. CASE FinalPoll
  <2>1. stop /\ child = "reaped" /\ AllReady /\ UNCHANGED <<ring, stop>> /\ cons' = "ok"
    BY <1>2, Zenon DEF FinalPoll, DrainInv
  <2>2. ring = <<>> \/ Head(ring).ready
    <3>1. ring # <<>> => 1 \in DOMAIN ring /\ Head(ring) = ring[1]
      BY <1>0
    <3> QED
      BY <2>1, <3>1, Zenon DEF AllReady
  <2>3. ~cut' => ring = <<>>
    BY <1>2, <2>2, Zenon DEF FinalPoll
  <2> QED
    BY <2>1, <2>3, Zenon DEF DrainInv, AllReady
<1>3. CASE OpenRing \/ PollEmpty \/ PollError \/ StopSeen
  <2>1. UNCHANGED <<ring, stop, cut>> /\ (cons' # cons => cons' \in {"poll", "err"} \/ (stop /\ cons' = "final"))
    BY <1>3, Zenon DEF OpenRing, PollEmpty, PollError, StopSeen
  <2>2. AllReady' <=> AllReady
    BY <2>1, Zenon DEF AllReady
  <2> QED
    BY <2>1, <2>2, Zenon DEF DrainInv
<1> QED
  BY <1>1, <1>2, <1>3, Zenon DEF Consumer

LEMMA DrainStep ==
    SetupInv /\ EndInv /\ RingInv /\ HitInv /\ DrainInv /\ [Next]_vars => DrainInv'
<1> SUFFICES ASSUME SetupInv, EndInv, RingInv, HitInv, DrainInv, [Next]_vars PROVE DrainInv'
  OBVIOUS
<1>1. ASSUME UNCHANGED <<ring, cut>>, stop' => child' = "reaped", cons' \in {"final", "ok"} => stop',
             cons' = "ok" => cons = "ok", child' \in {"zombie", "reaped"} => AllReady
      PROVE  DrainInv'
  BY <1>1, Zenon DEF DrainInv, AllReady
<1>2. CASE Setup
  <2>1. UNCHANGED <<ring, stop, cut>> /\ (cons' = cons \/ cons' = "start")
    BY <1>2, Zenon DEF Setup, CreateScope, LoadBpf, BpfAnswer, Clone, WriteMaps, HookCgroup,
       HookNetwork, Release, Abort, Aborted, AssignPid, OpenFiles, Start, ebpfVars
  <2>2. /\ child = "reaped" => child' = "reaped"
        /\ child' \in {"zombie", "reaped"} => child \in {"zombie", "reaped"}
    BY <1>2, Zenon DEF Setup, CreateScope, LoadBpf, BpfAnswer, Clone, WriteMaps, HookCgroup, HookNetwork,
       Release, Abort, Aborted, AssignPid, OpenFiles, Start, SIGKILL, Alive, Reap, EndInv
  <2> QED
    BY <1>1, <2>1, <2>2, Zenon DEF DrainInv
<1>3. CASE Finish \/ Crash
  <2>1. /\ UNCHANGED <<ring, cut, cons>> /\ (stop' = stop \/ (pc = "stop" /\ child' = child))
    <3>1. CASE StopConsumer
      BY <3>1, Zenon DEF StopConsumer
    <3>2. CASE ~StopConsumer
      BY <1>3, <3>2, Zenon DEF Finish, Wait, Grace, KillWait, JoinConsumer, Unload, Join, Drop, Crash, ebpfVars
    <3> QED
      BY <3>1, <3>2, Zenon
  <2>2. /\ child = "reaped" => child' = "reaped"
        /\ child' \in {"zombie", "reaped"} => child \in {"zombie", "reaped"}
    BY <1>3, Zenon DEF Finish, Wait, Grace, KillWait, StopConsumer, JoinConsumer, Unload, Join,
       Drop, Crash, SIGKILL, Alive, Reap
  <2>3. stop' => child' = "reaped"
    BY <2>1, <2>2, Zenon DEF DrainInv, EndInv
  <2>4. cons' \in {"final", "ok"} => stop'
    BY <1>3, <2>1, Zenon DEF Finish, Wait, Grace, KillWait, StopConsumer, JoinConsumer, Unload, Join,
       Drop, Crash, ebpfVars, DrainInv
  <2> QED
    BY <1>1, <2>1, <2>2, <2>3, <2>4, Zenon DEF DrainInv
<1>4. CASE Child
  <2>1. UNCHANGED <<cons, stop, cut>> /\ (child = "reaped" => child' = "reaped")
    BY <1>4, ChildGone, Zenon
  <2>2. CASE Act
    <3>1. CASE UNCHANGED <<child, ring>>
      BY <2>1, <3>1, Zenon DEF DrainInv, AllReady
    <3>2. CASE child \in {"exec", "running"} /\ child' = "running"
      BY <2>1, <3>2, Zenon DEF DrainInv
    <3> QED
      BY <2>2, <3>1, <3>2, ActCases, Zenon
  <2>3. CASE ~Act
    <3>1. ring' = ring
      BY <1>4, <2>3, Zenon DEF Child, ReadSync, SetupSandbox, Resumed, KilledEarly, Exit, Die, ebpfVars
    <3>2. child' = "reaped" => child = "reaped"
      BY <1>4, <2>3, Zenon DEF Child, ReadSync, SetupSandbox, Resumed, KilledEarly, Exit, Die
    <3> QED
      BY <1>1, <1>4, <2>1, <2>3, <3>1, <3>2, DeadReady, Zenon DEF DrainInv
  <2> QED
    BY <2>2, <2>3, Zenon
<1>5. CASE Poll
  BY <1>5, DrainConsumer, Zenon DEF Poll
<1>6. CASE Kernel
  <2>1. PICK k \in DOMAIN ring : ring' = [ring EXCEPT ![k].ready = TRUE]
    BY <1>6, Zenon DEF Kernel, Submit
  <2>2. UNCHANGED <<cons, stop, cut, child>>
    BY <1>6, Zenon DEF Kernel, Submit
  <2>3. ring # <<>>
    BY <2>1
  <2>4. AllReady => AllReady'
    <3>1. DOMAIN ring' = DOMAIN ring /\ ring \in Seq(Records)
      BY <2>1, Zenon DEF RingInv
    <3>2. ASSUME NEW i \in DOMAIN ring, ring[i].ready PROVE ring'[i].ready
      <4>1. ring[i] \in Records /\ ring[k] \in Records
        BY <2>1, <3>1
      <4> QED
        BY <2>1, <3>2, <4>1 DEF Records
    <3> QED
      BY <3>1, <3>2, Zenon DEF AllReady
  <2> QED
    BY <2>2, <2>3, <2>4, Zenon DEF DrainInv
<1>7. CASE Helper \/ TeesEnd \/ Expire \/ Interrupt \/ UNCHANGED vars
  <2>1. UNCHANGED <<ring, cons, stop, cut, child>>
    BY <1>7, Zenon DEF Helper, TeesEnd, Expire, Interrupt, vars, ebpfVars
  <2> QED
    BY <2>1, Zenon DEF DrainInv, AllReady
<1> QED
  BY <1>2, <1>3, <1>4, <1>5, <1>6, <1>7, Zenon DEF Next, Supervisor, Down

\* run_with_ebpf_tracing: the child is reaped before the consumer thread is told to
\* stop, and the thread polls once more; so an Ok trace has a record of all the tool
\* did, but for what found the ring full, came after the helper's deadline, or was
\* left by a failed last poll.
THEOREM TraceCompleteHolds == Spec => []TraceComplete
<1>1. Init => HitInv /\ DrainInv
  <2> SUFFICES ASSUME Init PROVE HitInv /\ DrainInv
    OBVIOUS
  <2>1. HitInv
    BY DEF Init, EbpfInit, HitInv, Tally, OnTheWay, Watching
  <2>2. DrainInv
    BY Zenon DEF Init, EbpfInit, DrainInv
  <2> QED
    BY <2>1, <2>2, Zenon
<1>2. SetupInv /\ EndInv /\ RingInv /\ HitInv /\ DrainInv => TraceComplete
  <2> SUFFICES ASSUME SetupInv, EndInv, RingInv, HitInv, DrainInv, pc = "done", res = "ok",
                      opt.trace = "ebpf", ~over, ~cut
               PROVE  ring = <<>> /\ Len(trace) + missed = own
    BY Zenon DEF TraceComplete
  <2>1. cons = "ok"
    BY Zenon DEF EndInv, Accounted
  <2>2. ring = <<>>
    BY <2>1, Zenon DEF DrainInv
  <2>3. sock # "none"
    <3>1. cons # "none"
      BY <2>1
    <3> QED
      BY <3>1, Zenon DEF SetupInv
  <2>4. Tally
    BY <2>3, Zenon DEF HitInv, OnTheWay
  <2>5. Len(trace) + Len(ring) = Len(fired) /\ trace \in Seq(Events)
    BY Zenon DEF RingInv, RecordsInOrder
  <2>6. Len(trace) = Len(fired)
    BY <2>2, <2>5
  <2> QED
    BY <2>2, <2>4, <2>6, Zenon DEF Tally
<1> QED
  BY <1>1, <1>2, SetupInit, SetupStep, EndInit, EndStep, RingInit, RingStep, HitStep, DrainStep, PTL
  DEF Spec
=============================================================================
