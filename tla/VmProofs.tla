------------------------------- MODULE VmProofs -------------------------------
(***************************************************************************)
(* What holds of every run on the Firecracker backend, whatever the        *)
(* timeouts, the tool, its output and what the stream buffers.             *)
(***************************************************************************)
EXTENDS Vm, TLAPS

-----------------------------------------------------------------------------
(* The end of the VM.                                                      *)

\* The guest lives in the process, and the process in the calls of the host.
ProcessInv ==
    /\ gpc # "off" => fc = "running"
    /\ hpc = "spawn" => fc = "none"
    /\ hpc \in {"extract", "done"} => fc = "reaped" /\ ~dir
    /\ hpc = "failed" => fc \in {"none", "reaped"} /\ (dir => result.status = "spawn")

LEMMA ProcessInit == Init => ProcessInv
BY Zenon DEF Init, ProcessInv

LEMMA ProcessStep == ProcessInv /\ [Next]_vars => ProcessInv'
<1> SUFFICES ASSUME ProcessInv, [Next]_vars PROVE ProcessInv'
  OBVIOUS
<1> USE DEF ProcessInv
<1>1. CASE Host
  <2> USE DEF Fail, Goto, Killed, guestVars
  <2>1. CASE SpawnFails \/ Spawn
    BY <2>1 DEF SpawnFails, Spawn
  <2>2. CASE WaitApi \/ Configure \/ Accept
    BY <2>2, Zenon DEF WaitApi, Configure, Accept
  <2>3. CASE AwaitReady \/ SendJob
    BY <2>3, Zenon DEF AwaitReady, SendJob
  <2>4. CASE Receive
    BY <2>4, Zenon DEF Receive, OutputChunk
  <2>5. CASE Drop
    BY <2>5, Zenon DEF Drop
  <2>6. CASE Shutdown \/ AwaitHalt \/ Extract
    BY <2>6 DEF Shutdown, AwaitHalt, Extract
  <2> QED
    BY <1>1, <2>1, <2>2, <2>3, <2>4, <2>5, <2>6, Zenon DEF Host
<1>2. CASE Guest
  <2>1. UNCHANGED <<hpc, dir, result>>
    BY <1>2, Zenon DEF Guest
  <2>2. gpc # "off"
    BY <1>2, Zenon DEF Guest, Mount, Connect, Hello, RunJob, WaitTool, JoinReaders, SendOutput, Halt, Sync
  <2>3. fc' = fc \/ (fc' = "exited" /\ gpc' = "off")
    BY <1>2, Zenon DEF Guest, Mount, Connect, Hello, RunJob, WaitTool, JoinReaders, SendOutput, Halt,
                Sync, PowerOff
  <2> QED
    BY <2>1, <2>2, <2>3, Zenon
<1>3. CASE Crash \/ Tick \/ UNCHANGED vars
  BY <1>3 DEF Crash, Tick, vars, guestVars
<1> QED
  BY <1>1, <1>2, <1>3, Zenon DEF Next, Ended

\* boot, run_job, shutdown and the two Drop guards: no return leaves the process, and
\* only one that never had a process leaves its directory.
THEOREM VmGoneHolds == Spec => []VmGone
<1>1. ProcessInv => VmGone
  BY Zenon DEF ProcessInv, VmGone
<1> QED
  BY <1>1, ProcessInit, ProcessStep, PTL DEF Spec

-----------------------------------------------------------------------------
(* The stream.                                                             *)

Zero == [s \in Streams |-> 0]
Frames == [type : {"agent_ready", "stdout", "stderr", "job_done", "error"}, code : Int]

Types ==
    /\ toHost \in Seq(Frames) /\ code \in Int
    /\ got \in [Streams -> Nat] /\ sent \in [Streams -> Nat]
    /\ job \in Jobs

\* Chunks of each stream on their way.
Outs == sent["stdout"] - got["stdout"]
Errs == sent["stderr"] - got["stderr"]

\* The frames in flight are the chunks of stdout sent and not yet written, then
\* those of stderr, then perhaps JobDone, which follows every chunk.
Layout ==
    /\ Outs >= 0 /\ Errs >= 0
    /\ Len(toHost) \in {Outs + Errs, Outs + Errs + 1}
    /\ \A i \in 1 .. Len(toHost) :
          /\ i <= Outs => toHost[i].type = "stdout"
          /\ i > Outs /\ i <= Outs + Errs => toHost[i].type = "stderr"
          /\ i > Outs + Errs => /\ toHost[i].type = "job_done" /\ toHost[i].code = code
                                /\ sent = job.out
    /\ sent["stderr"] > 0 => sent["stdout"] = job.out["stdout"]

Starting ==
    hpc \in {"spawn", "api", "config", "accept", "ready", "send"} =>
        /\ toGuest = <<>> /\ ~hclosed /\ sent = Zero /\ got = Zero
        /\ hpc \in {"spawn", "api", "config"} => gpc = "off" /\ toHost = <<>>
        /\ gpc \in {"off", "boot", "connect", "hello", "idle"}
        /\ \/ toHost = <<>>
           \/ toHost = <<Frame("agent_ready")>> /\ gpc \in {"idle", "off"}
        /\ hpc = "send" => toHost = <<>> /\ gpc \in {"idle", "off"}

Pending ==
    /\ toGuest = <<Frame("run_job")>> /\ gpc \in {"idle", "off"}
    /\ toHost = <<>> /\ sent = Zero /\ got = Zero

Streaming ==
    /\ toGuest = <<>> /\ gpc \in {"job", "join", "out", "idle", "off"}
    /\ Layout
    /\ gpc \in {"job", "join", "out"} => Len(toHost) = Outs + Errs
    /\ gpc \in {"job", "join"} => sent = Zero /\ got = Zero

Refused ==
    toGuest = <<>> /\ gpc \in {"idle", "off"} /\ toHost = <<Frame("error")>>

Receiving == hpc = "recv" => ~hclosed /\ (Pending \/ Streaming \/ Refused)

Ending ==
    hpc \in {"shutdown", "halt", "extract", "done"} =>
        /\ result = [status |-> "ok", code |-> code] /\ got = job.out
        /\ gpc \in {"idle", "halt", "off"}
        /\ toGuest = <<>> \/ (toGuest = <<Frame("shutdown")>> /\ hpc # "shutdown")

StreamInv == Types /\ Starting /\ Receiving /\ Ending

LEMMA StreamInit == Init => StreamInv
BY DEF Init, StreamInv, Types, Starting, Receiving, Ending, Zero, Streams, Codes

\* What the host does up to the job leaves the stream as the guest has it.
LEMMA StreamBoot ==
    ASSUME StreamInv,
           SpawnFails \/ Spawn \/ WaitApi \/ Configure \/ Accept \/ AwaitReady \/ SendJob
    PROVE  StreamInv'
<1> USE DEF StreamInv, Types, Starting, Receiving, Ending, Fail, Goto, guestVars, streamVars
<1>1. CASE SpawnFails \/ Spawn
  BY <1>1 DEF SpawnFails, Spawn
<1>2. CASE WaitApi \/ Configure
  BY <1>2 DEF WaitApi, Configure
<1>3. CASE Accept
  BY <1>3, Zenon DEF Accept
<1>4. CASE AwaitReady
  <2>1. toHost' \in Seq(Frames)
    BY <1>4 DEF AwaitReady
  <2>2. toHost' # toHost => toHost' = <<>> /\ gpc \in {"idle", "off"}
    BY <1>4 DEF AwaitReady
  <2> QED
    BY <1>4, <2>1, <2>2 DEF AwaitReady
<1>5. CASE SendJob
  <2>1. toHost = <<>> /\ sent = Zero /\ got = Zero /\ gpc \in {"idle", "off"} /\ toGuest = <<>>
    BY <1>5, Zenon DEF SendJob
  <2>2. toGuest' # toGuest => toGuest' = <<Frame("run_job")>>
    BY <1>5, <2>1 DEF SendJob
  <2> QED
    BY <1>5, <2>1, <2>2 DEF SendJob, Pending
<1> QED
  BY <1>1, <1>2, <1>3, <1>4, <1>5, Zenon

\* The host takes a frame of the job: the oldest chunk, or JobDone with no chunk left.
LEMMA StreamReceive ==
    ASSUME StreamInv, Receive
    PROVE  StreamInv'
<1>1. /\ hpc = "recv" /\ Types /\ ~hclosed /\ (Pending \/ Streaming \/ Refused)
      /\ UNCHANGED <<job, code, sent, gpc, toGuest, hclosed>>
  BY Zenon DEF Receive, StreamInv, Receiving, guestVars
<1>2. CASE hpc' = "drop" /\ UNCHANGED <<toHost, got>>
  BY <1>1, <1>2, Zenon DEF StreamInv, Types, Starting, Receiving, Ending
<1>3. CASE toHost # <<>> /\ toHost' = Tail(toHost)
  <2> DEFINE f == Head(toHost)
  <2>1. /\ toHost' \in Seq(Frames) /\ f \in Frames /\ f = toHost[1] /\ Len(toHost) > 0
        /\ Len(toHost') = Len(toHost) - 1
        /\ \A i \in 1 .. Len(toHost') : toHost'[i] = toHost[i + 1]
    BY <1>1, <1>3 DEF Types
  <2>2. CASE hpc' = "drop" /\ got' \in [Streams -> Nat]
    BY <1>1, <2>1, <2>2, Zenon DEF StreamInv, Types, Starting, Receiving, Ending
  <2>3. CASE f.type \in Streams /\ hpc' = "recv" /\ got' = [got EXCEPT ![f.type] = @ + 1]
    <3>1. Streaming
      BY <1>1, <1>3, <2>3 DEF Pending, Refused, Frame, Streams
    <3>0. /\ got \in [Streams -> Nat] /\ sent \in [Streams -> Nat]
          /\ got' \in [Streams -> Nat] /\ sent' = sent
          /\ got["stdout"] \in Nat /\ got["stderr"] \in Nat
          /\ sent["stdout"] \in Nat /\ sent["stderr"] \in Nat
          /\ f.type = "stdout" =>
                got'["stdout"] = got["stdout"] + 1 /\ got'["stderr"] = got["stderr"]
          /\ f.type = "stderr" =>
                got'["stderr"] = got["stderr"] + 1 /\ got'["stdout"] = got["stdout"]
      BY <1>1, <2>3 DEF Types, Streams
    <3>2. Outs \in Int /\ Errs \in Int
      BY <3>0 DEF Outs, Errs
    <3>5. gpc \in {"out", "idle", "off"}
      <4>1. gpc \in {"job", "join"} => Outs = 0 /\ Errs = 0
        BY <3>1 DEF Streaming, Outs, Errs, Zero, Streams
      <4> QED
        BY <2>1, <3>1, <4>1 DEF Streaming
    <3>3. CASE f.type = "stdout"
      <4>1. Outs >= 1
        BY <2>1, <3>1, <3>2, <3>3 DEF Streaming, Layout
      <4>2. Outs' = Outs - 1 /\ Errs' = Errs
        BY <1>1, <2>3, <3>0, <3>3 DEF Outs, Errs
      <4>3. Layout' /\ (gpc = "out" => Len(toHost') = (Outs + Errs)')
        BY <1>1, <2>1, <3>1, <3>2, <4>1, <4>2 DEF Streaming, Layout
      <4> QED
        BY <1>1, <2>1, <2>3, <3>0, <3>1, <3>5, <4>3, Zenon
        DEF StreamInv, Types, Starting, Receiving, Ending, Streaming
    <3>4. CASE f.type = "stderr"
      <4>1. Outs = 0 /\ Errs >= 1
        BY <2>1, <3>1, <3>2, <3>4 DEF Streaming, Layout
      <4>2. Outs' = Outs /\ Errs' = Errs - 1
        BY <1>1, <2>3, <3>0, <3>4 DEF Outs, Errs
      <4>3. Layout' /\ (gpc = "out" => Len(toHost') = (Outs + Errs)')
        BY <1>1, <2>1, <3>1, <3>2, <4>1, <4>2 DEF Streaming, Layout
      <4> QED
        BY <1>1, <2>1, <2>3, <3>0, <3>1, <3>5, <4>3, Zenon
        DEF StreamInv, Types, Starting, Receiving, Ending, Streaming
    <3> QED
      BY <2>3, <3>3, <3>4, Zenon DEF Streams
  <2>4. CASE /\ f.type = "job_done" /\ hpc' = "shutdown" /\ UNCHANGED got
             /\ result' = [status |-> "ok", code |-> f.code]
    <3>1. Streaming
      BY <1>1, <1>3, <2>4 DEF Pending, Refused, Frame
    <3>2. Outs \in Int /\ Errs \in Int /\ Outs >= 0 /\ Errs >= 0
      BY <1>1, <3>1 DEF Types, Streaming, Layout, Outs, Errs, Streams
    <3>3. 1 > Outs + Errs
      BY <2>1, <2>4, <3>1, <3>2 DEF Streaming, Layout
    <3>4. f.code = code /\ sent = job.out /\ gpc \in {"idle", "off"}
      BY <2>1, <3>1, <3>2, <3>3 DEF Streaming, Layout
    <3>5. got = sent
      <4>1. got["stdout"] = sent["stdout"] /\ got["stderr"] = sent["stderr"]
        <5>1. /\ got["stdout"] \in Nat /\ got["stderr"] \in Nat
              /\ sent["stdout"] \in Nat /\ sent["stderr"] \in Nat
          BY <1>1, Zenon DEF Types, Streams
        <5>2. Outs = 0 /\ Errs = 0
          BY <3>2, <3>3
        <5> QED
          BY <5>1, <5>2 DEF Outs, Errs
      <4> QED
        <5>1. \A s \in Streams : got[s] = sent[s]
          BY <4>1, Zenon DEF Streams
        <5> QED
          BY <1>1, <5>1 DEF Types
    <3> QED
      BY <1>1, <2>1, <2>4, <3>1, <3>4, <3>5, Zenon
      DEF StreamInv, Types, Starting, Receiving, Ending, Streaming
  <2> QED
    <3>1. got \in [Streams -> Nat]
      BY <1>1, Zenon DEF Types
    <3>2. f.type \in Streams => [got EXCEPT ![f.type] = @ + 1] \in [Streams -> Nat]
      BY <3>1
    <3> QED
      BY <1>3, <2>2, <2>3, <2>4, <3>1, <3>2, Zenon DEF Receive, OutputChunk, Fail, Goto
<1> QED
  BY <1>2, <1>3, Zenon DEF Receive, Fail

LEMMA StreamEnd ==
    ASSUME StreamInv, Drop \/ Shutdown \/ AwaitHalt \/ Extract
    PROVE  StreamInv'
<1> USE DEF StreamInv, Types, Starting, Receiving, Ending, Goto, guestVars, streamVars, Killed
<1>1. CASE Drop
  BY <1>1, Zenon DEF Drop
<1>2. CASE Shutdown
  BY <1>2 DEF Shutdown
<1>3. CASE AwaitHalt
  BY <1>3, Zenon DEF AwaitHalt
<1>4. CASE Extract
  BY <1>4, Zenon DEF Extract
<1> QED
  BY <1>1, <1>2, <1>3, <1>4, Zenon

\* Where the host waits while the guest has a frame to send.
LEMMA GuestPlace ==
    ASSUME StreamInv, gpc \in {"job", "join", "out"}
    PROVE  \/ hpc = "recv" /\ Streaming
           \/ hpc \in {"drop", "failed"}
           \/ hpc \notin {"spawn", "api", "config", "accept", "ready", "send", "recv",
                           "shutdown", "halt", "extract", "done"}
BY Zenon DEF StreamInv, Starting, Receiving, Ending, Pending, Refused

LEMMA StreamSend ==
    ASSUME StreamInv, SendOutput, UNCHANGED <<hpc, job, got, result, hclosed>>
    PROVE  StreamInv'
<1>1. gpc = "out" /\ Types /\ UNCHANGED <<code, toGuest, hpc, job, got, result, hclosed>>
  BY Zenon DEF SendOutput, StreamInv
<1>2. /\ toHost \in Seq(Frames) /\ job.out \in [Streams -> Nat]
      /\ got["stdout"] \in Nat /\ got["stderr"] \in Nat
      /\ sent["stdout"] \in Nat /\ sent["stderr"] \in Nat
      /\ Outs \in Int /\ Errs \in Int
  <2>1. job.out \in [Streams -> Nat]
    <3>1. job.out \in [Streams -> Chunks]
      BY <1>1, Zenon DEF Types, Jobs
    <3> QED
      BY <3>1, VmAssumption, Zenon
  <2>2. /\ got["stdout"] \in Nat /\ got["stderr"] \in Nat
        /\ sent["stdout"] \in Nat /\ sent["stderr"] \in Nat
    BY <1>1, Zenon DEF Types, Streams
  <2> QED
    BY <1>1, <2>1, <2>2 DEF Types, Outs, Errs
<1> DEFINE n == Len(toHost) + 1
<1>3. ASSUME NEW t \in {"stdout", "stderr", "job_done"}, NEW c \in Int,
             toHost' = Append(toHost, [type |-> t, code |-> c])
      PROVE  /\ toHost' \in Seq(Frames) /\ Len(toHost') = n
             /\ toHost'[n].type = t /\ toHost'[n].code = c
             /\ \A i \in 1 .. Len(toHost) : toHost'[i] = toHost[i]
  <2>1. [type |-> t, code |-> c] \in Frames
    BY Zenon DEF Frames
  <2> QED
    BY <1>2, <1>3, <2>1
<1>4. CASE hpc = "recv"
  <2>1. /\ toGuest = <<>> /\ Layout /\ Len(toHost) = Outs + Errs /\ ~hclosed
    BY <1>1, <1>4, GuestPlace, Zenon DEF Streaming, StreamInv, Receiving
  <2>2. ASSUME NEW s \in Streams, sent[s] < job.out[s],
               s = "stderr" => sent["stdout"] = job.out["stdout"],
               toHost' = Append(toHost, Frame(s)), sent' = [sent EXCEPT ![s] = @ + 1],
               gpc' = gpc
        PROVE  StreamInv'
    <3>1. /\ toHost' \in Seq(Frames) /\ Len(toHost') = n /\ toHost'[n].type = s
          /\ \A i \in 1 .. Len(toHost) : toHost'[i] = toHost[i]
      BY <2>2, <1>3 DEF Frame, Streams
    <3>2. /\ sent' \in [Streams -> Nat]
          /\ s = "stdout" => sent'["stdout"] = sent["stdout"] + 1 /\ sent'["stderr"] = sent["stderr"]
          /\ s = "stderr" => sent'["stderr"] = sent["stderr"] + 1 /\ sent'["stdout"] = sent["stdout"]
      BY <1>1, <2>2 DEF Types, Streams
    <3>3. CASE s = "stdout"
      <4>1. sent["stderr"] = 0 /\ Errs = 0
        BY <1>2, <2>1, <2>2, <3>3 DEF Layout, Errs, Streams
      <4>2. Outs' = Outs + 1 /\ Errs' = 0
        <5>1. sent'["stdout"] = sent["stdout"] + 1 /\ sent'["stderr"] = sent["stderr"]
          BY <3>2, <3>3, Zenon
        <5>2. got'["stdout"] = got["stdout"] /\ got'["stderr"] = got["stderr"]
          BY <1>1, Zenon
        <5>3. /\ got["stdout"] \in Nat /\ got["stderr"] \in Nat
              /\ sent["stdout"] \in Nat /\ sent["stderr"] \in Nat
          BY <1>2, Zenon
        <5> QED
          BY <5>1, <5>2, <5>3, <4>1 DEF Outs, Errs
      <4>3. Layout'
        BY <1>1, <1>2, <2>1, <2>2, <3>1, <3>2, <3>3, <4>1, <4>2 DEF Layout
      <4>4. Len(toHost') = Outs' + Errs'
        BY <1>2, <2>1, <3>1, <4>1, <4>2
      <4> QED
        BY <1>1, <1>4, <2>1, <2>2, <3>1, <3>2, <4>3, <4>4
        DEF StreamInv, Types, Starting, Receiving, Ending, Streaming
    <3>4. CASE s = "stderr"
      <4>1. Outs' = Outs /\ Errs' = Errs + 1
        <5>1. sent'["stderr"] = sent["stderr"] + 1 /\ sent'["stdout"] = sent["stdout"]
          BY <3>2, <3>4, Zenon
        <5>2. got'["stdout"] = got["stdout"] /\ got'["stderr"] = got["stderr"]
          BY <1>1, Zenon
        <5>3. /\ got["stdout"] \in Nat /\ got["stderr"] \in Nat
              /\ sent["stdout"] \in Nat /\ sent["stderr"] \in Nat
          BY <1>2, Zenon
        <5> QED
          BY <5>1, <5>2, <5>3 DEF Outs, Errs
      <4>2. Layout'
        BY <1>1, <1>2, <2>1, <2>2, <3>1, <3>2, <3>4, <4>1 DEF Layout
      <4>3. Len(toHost') = Outs' + Errs'
        BY <1>2, <2>1, <3>1, <4>1
      <4> QED
        BY <1>1, <1>4, <2>1, <2>2, <3>1, <3>2, <4>2, <4>3
        DEF StreamInv, Types, Starting, Receiving, Ending, Streaming
    <3> QED
      BY <3>3, <3>4, Zenon DEF Streams
  <2>3. ASSUME sent = job.out, toHost' = Append(toHost, [type |-> "job_done", code |-> code]),
               gpc' = "idle", sent' = sent
        PROVE  StreamInv'
    <3>1. /\ toHost' \in Seq(Frames) /\ Len(toHost') = n /\ toHost'[n].type = "job_done"
          /\ toHost'[n].code = code
          /\ \A i \in 1 .. Len(toHost) : toHost'[i] = toHost[i]
      BY <1>1, <1>3, <2>3, Zenon DEF Types
    <3>2. Outs' = Outs /\ Errs' = Errs
      BY <2>3, Zenon DEF Outs, Errs
    <3>3. Layout'
      <4>1. /\ Outs >= 0 /\ Errs >= 0 /\ Len(toHost) = Outs + Errs
            /\ sent["stderr"] > 0 => sent["stdout"] = job.out["stdout"]
        BY <2>1, Zenon DEF Layout
      <4>2. Len(toHost') \in {Outs' + Errs', Outs' + Errs' + 1}
        BY <3>1, <3>2, <4>1, Zenon
      <4>3. ASSUME NEW i \in 1 .. Len(toHost')
            PROVE  /\ i <= Outs => toHost'[i].type = "stdout"
                   /\ i > Outs /\ i <= Outs + Errs => toHost'[i].type = "stderr"
                   /\ i > Outs + Errs => /\ toHost'[i].type = "job_done"
                                         /\ toHost'[i].code = code
        <5>1. CASE i = n
          BY <1>2, <3>1, <4>1, <5>1
        <5>2. CASE i # n
          <6>1. i \in 1 .. Len(toHost) /\ ~(i > Outs + Errs)
            BY <1>2, <3>1, <4>1, <5>2
          <6> QED
            BY <2>1, <3>1, <6>1, Zenon DEF Layout
        <5> QED
          BY <5>1, <5>2, Zenon
      <4> QED
        BY <1>1, <2>3, <3>2, <4>1, <4>2, <4>3, Zenon DEF Layout
    <3> QED
      BY <1>1, <1>4, <2>1, <2>3, <3>1, <3>3
      DEF StreamInv, Types, Starting, Receiving, Ending, Streaming
  <2> QED
    BY <2>2, <2>3, Zenon DEF SendOutput, Send
<1>5. CASE hpc # "recv"
  <2>1. sent' \in [Streams -> Nat] /\ toHost' \in Seq(Frames)
    <3>1. sent' \in [Streams -> Nat]
      <4>1. sent \in [Streams -> Nat]
        BY <1>1, Zenon DEF Types
      <4>2. \/ sent' = sent
            \/ \E s \in Streams : sent' = [sent EXCEPT ![s] = @ + 1]
        BY Zenon DEF SendOutput
      <4> QED
        BY <4>1, <4>2
    <3>2. toHost' \in Seq(Frames)
      <4>1. CASE \E s \in Streams : toHost' = Append(toHost, Frame(s))
        BY <1>3, <4>1 DEF Frame, Streams
      <4>2. CASE toHost' = Append(toHost, [type |-> "job_done", code |-> code])
        BY <1>1, <1>3, <4>2, Zenon DEF Types
      <4>3. CASE toHost' = toHost
        BY <1>2, <4>3, Zenon
      <4> QED
        BY <4>1, <4>2, <4>3, Zenon DEF SendOutput, Send
    <3> QED
      BY <3>1, <3>2, Zenon
  <2> QED
    BY <1>1, <1>5, <2>1, GuestPlace, Zenon DEF StreamInv, Types, Starting, Receiving, Ending
<1> QED
  BY <1>4, <1>5, Zenon

LEMMA StreamGuest ==
    ASSUME StreamInv, Guest
    PROVE  StreamInv'
<1>0. UNCHANGED <<hpc, job, got, result, hclosed>> /\ Types
  BY Zenon DEF Guest, StreamInv
<1>1. CASE SendOutput
  BY <1>0, <1>1, StreamSend, Zenon
<1> USE DEF StreamInv, Types, Starting, Receiving, Ending
<1>2. CASE Mount \/ Connect \/ Sync
  BY <1>0, <1>2, Zenon DEF Mount, Connect, Sync, PowerOff, Pending, Streaming, Refused, Layout, Outs, Errs
<1>3. CASE Hello
  <2>1. /\ toHost' = Append(toHost, Frame("agent_ready")) /\ gpc = "hello" /\ gpc' = "idle"
        /\ UNCHANGED <<code, sent, toGuest>>
    BY <1>3, Zenon DEF Hello, Send
  <2>2. toHost' \in Seq(Frames)
    BY <1>0, <2>1 DEF Frames, Frame
  <2>3. hpc # "recv" /\ hpc \notin {"shutdown", "halt", "extract", "done", "send"}
    BY <2>1, Zenon DEF Pending, Streaming, Refused
  <2>4. hpc \in {"spawn", "api", "config", "accept", "ready"} =>
            toHost = <<>> /\ toHost' = <<Frame("agent_ready")>>
    <3>1. hpc \in {"spawn", "api", "config", "accept", "ready"} => toHost = <<>>
      BY <2>1, Zenon
    <3>2. toHost = <<>> => toHost' = <<Frame("agent_ready")>>
      BY <2>1
    <3> QED
      BY <3>1, <3>2, Zenon
  <2> QED
    BY <1>0, <2>1, <2>2, <2>3, <2>4, Zenon
<1>4. CASE RunJob
  <2>1. /\ gpc = "idle" /\ toGuest # <<>> /\ Head(toGuest).type = "run_job"
        /\ toGuest' = Tail(toGuest) /\ UNCHANGED <<code, sent>>
    BY <1>4, Zenon DEF RunJob
  <2>2. hpc \notin {"spawn", "api", "config", "accept", "ready", "send",
                    "shutdown", "halt", "extract", "done"}
    BY <2>1 DEF Frame
  <2>3. hpc = "recv" => Pending /\ toGuest' = <<>>
    <3>1. hpc = "recv" => Pending
      BY <2>1, Zenon DEF Streaming, Refused
    <3>2. Pending => toGuest' = <<>>
      BY <2>1 DEF Pending
    <3> QED
      BY <3>1, <3>2, Zenon
  <2>4. CASE gpc' = "job" /\ toHost' = toHost
    <3>1. hpc = "recv" => Outs' = 0 /\ Errs' = 0 /\ sent' = Zero /\ toHost' = <<>>
      BY <1>0, <2>1, <2>3, <2>4 DEF Pending, Outs, Errs, Zero, Streams
    <3>2. hpc = "recv" => sent'["stderr"] = 0
      BY <3>1, Zenon DEF Zero, Streams
    <3>3. hpc = "recv" => Streaming'
      BY <1>0, <2>3, <2>4, <3>1, <3>2 DEF Streaming, Layout, Pending
    <3> QED
      BY <1>0, <2>1, <2>2, <2>3, <2>4, <3>3, Zenon
  <2>5. CASE gpc' = gpc /\ toHost' = Append(toHost, Frame("error"))
    <3>1. toHost' \in Seq(Frames)
      BY <1>0, <2>5 DEF Frames, Frame
    <3>2. hpc = "recv" => Refused'
      BY <2>1, <2>3, <2>5 DEF Pending, Refused
    <3> QED
      BY <1>0, <2>1, <2>2, <2>5, <3>1, <3>2, Zenon
  <2> QED
    BY <1>4, <2>4, <2>5, Zenon DEF RunJob, Send
<1>5. CASE WaitTool
  <2>1. /\ gpc = "job" /\ gpc' = "join" /\ code' \in Int /\ UNCHANGED <<sent, toHost, toGuest>>
    BY <1>0, <1>5 DEF WaitTool, Jobs, Codes
  <2>2. hpc = "recv" => Streaming'
    <3>1. hpc = "recv" => Streaming /\ sent = Zero /\ got = Zero
      BY <2>1, Zenon DEF Pending, Refused, Streaming
    <3>2. hpc = "recv" => Outs = 0 /\ Errs = 0 /\ Outs' = Outs /\ Errs' = Errs
      BY <1>0, <2>1, <3>1 DEF Outs, Errs, Zero, Streams
    <3> QED
      BY <1>0, <2>1, <3>1, <3>2 DEF Streaming, Layout
  <2> QED
    BY <1>0, <2>1, <2>2, GuestPlace, Zenon
<1>6. CASE JoinReaders
  <2>1. hpc = "recv" => Streaming'
    BY <1>0, <1>6, GuestPlace, Zenon DEF JoinReaders, Streaming, Layout, Outs, Errs
  <2> QED
    BY <1>0, <1>6, <2>1, GuestPlace, Zenon DEF JoinReaders
<1>7. CASE Halt
  <2>1. /\ gpc = "idle" /\ gpc' = "halt" /\ UNCHANGED <<code, sent, toHost, toGuest>>
        /\ toGuest = <<>> => hclosed
        /\ toGuest # <<>> => Head(toGuest).type = "shutdown"
    BY <1>7, Zenon DEF Halt
  <2>2. hpc \notin {"spawn", "api", "config", "accept", "ready", "send"}
    BY <2>1, Zenon DEF Starting
  <2>3. hpc # "recv"
    <3>1. toGuest = <<Frame("run_job")>> => Head(toGuest).type = "run_job"
      BY DEF Frame
    <3> QED
      BY <2>1, <3>1, Zenon DEF Receiving, Pending, Streaming, Refused
  <2> QED
    BY <1>0, <2>1, <2>2, <2>3, Zenon
<1> QED
  BY <1>1, <1>2, <1>3, <1>4, <1>5, <1>6, <1>7, Zenon DEF Guest

LEMMA StreamStep == StreamInv /\ [Next]_vars => StreamInv'
<1> SUFFICES ASSUME StreamInv, [Next]_vars PROVE StreamInv'
  OBVIOUS
<1>1. CASE Host
  BY <1>1, StreamBoot, StreamReceive, StreamEnd, Zenon DEF Host
<1>2. CASE Guest
  BY <1>2, StreamGuest, Zenon
<1>3. CASE Crash
  BY <1>3, Zenon DEF Crash, StreamInv, Types, Starting, Receiving, Ending, Pending, Streaming, Refused,
              Layout, Outs, Errs, streamVars
<1>4. CASE Tick \/ UNCHANGED vars
  <2>1. UNCHANGED <<hpc, job, got, result, gpc, code, sent, toHost, toGuest, hclosed>>
    BY <1>4, Zenon DEF Tick, vars, guestVars, streamVars
  <2> QED
    BY <2>1, Zenon DEF StreamInv, Types, Starting, Receiving, Ending, Pending, Streaming, Refused,
                Layout, Outs, Errs
<1> QED
  BY <1>1, <1>2, <1>3, <1>4, Zenon DEF Next, Ended

\* run_job, handle_run_job and execute_firecracker: an Ok result has the guest's code
\* and every chunk of both streams, and the drive is read after the process is gone.
THEOREM ResultCompleteHolds == Spec => []ResultComplete
<1>1. ProcessInv /\ StreamInv => ResultComplete
  BY Zenon DEF ProcessInv, StreamInv, Ending, ResultComplete
<1> QED
  BY <1>1, ProcessInit, ProcessStep, StreamInit, StreamStep, PTL DEF Spec

-----------------------------------------------------------------------------
(* The deadline.                                                           *)

LEMMA MaxMin ==
    \A a, b \in Int : /\ Max({a, b}) = IF a >= b THEN a ELSE b
                      /\ Min({a, b}) = IF a <= b THEN a ELSE b
<1> SUFFICES ASSUME NEW a \in Int, NEW b \in Int
             PROVE  /\ Max({a, b}) = IF a >= b THEN a ELSE b
                    /\ Min({a, b}) = IF a <= b THEN a ELSE b
  OBVIOUS
<1>1. \E x \in {a, b} : \A y \in {a, b} : x >= y
  OBVIOUS
<1>2. \E x \in {a, b} : \A y \in {a, b} : x <= y
  OBVIOUS
<1>3. Max({a, b}) \in {a, b} /\ \A y \in {a, b} : Max({a, b}) >= y
  BY <1>1, Zenon DEF Max
<1>4. Min({a, b}) \in {a, b} /\ \A y \in {a, b} : Min({a, b}) <= y
  BY <1>2, Zenon DEF Min
<1> QED
  BY <1>3, <1>4

\* One wait for a frame is at least MinRead, and as long as what is left or the cap.
LEMMA RecvBudgetBounds ==
    ASSUME NEW b \in Int
    PROVE  /\ RecvBudget(b) \in Nat \ {0}
           /\ RecvBudget(b) >= b \/ RecvBudget(b) >= ReadCap
<1>1. ReadCap \in Nat \ {0} /\ MinRead \in Nat \ {0}
  BY VmAssumption, Zenon
<1> DEFINE m == Min({b, ReadCap})
<1>2. m = IF b <= ReadCap THEN b ELSE ReadCap
  BY <1>1, MaxMin
<1> HIDE DEF m
<1>3. RecvBudget(b) = IF m >= MinRead THEN m ELSE MinRead
  BY <1>1, <1>2, MaxMin DEF RecvBudget, m
<1> QED
  BY <1>1, <1>2, <1>3

\* A job that is answered within its timeout and the grace period, and before
\* one wait for a frame has passed.
Answerable == ~NoAnswer /\ Silence < ReadCap

Spent == (job.timeout + Grace) - budget
Sent == sent["stdout"] + sent["stderr"]
Closing == toHost # <<>> /\ toHost[Len(toHost)].type \notin Streams

\* While the host receives: nothing is spent before the tool starts; then what
\* is spent is what the tool has run, and after it one tick for a slow chunk,
\* in which the host has no more than that chunk's wait to lose; and once the
\* guest has answered the frame that ends the loop is there, and no tick passes.
OnTime ==
    /\ budget \in Nat /\ htime \in Nat \ {0}
    /\ toGuest # <<>> => Spent = 0 /\ htime = RecvBudget(budget)
    /\ gpc = "idle" => toGuest # <<>> \/ Closing
    /\ gpc = "job" => /\ gtime \in Nat /\ left \in Nat
                      /\ Spent = job.timeout - gtime /\ Spent = job.len - left
                      /\ htime = RecvBudget(job.timeout + Grace) - Spent
    /\ gpc = "join" => gtime = 0 /\ Spent <= Silence
    /\ gpc = "out" => /\ gtime \in {0, 1} /\ \A s \in Streams : sent[s] <= job.out[s]
                      /\ Spent <= Silence + IF job.slow THEN Sent - gtime ELSE 0
                      /\ gtime = 1 => job.slow /\ (toHost = <<>> => htime > 1)

TimeInv == Answerable => result.status # "timeout" /\ (hpc = "recv" => OnTime)

LEMMA JobFacts ==
    ASSUME Types
    PROVE  /\ job.timeout \in Nat /\ job.len \in Nat /\ Grace \in Nat \ {0}
           /\ sent["stdout"] \in Nat /\ sent["stderr"] \in Nat
           /\ got["stdout"] \in Nat /\ got["stderr"] \in Nat
           /\ job.out["stdout"] \in Nat /\ job.out["stderr"] \in Nat
           /\ Silence \in Nat /\ Silence <= job.len /\ Silence <= job.timeout
           /\ \A t \in Int : t <= job.len /\ t <= job.timeout => t <= Silence
<1>1. /\ job.timeout \in Nat /\ job.len \in Nat /\ job.out \in [Streams -> Chunks]
      /\ Chunks \subseteq Nat /\ Grace \in Nat \ {0}
  <2>1. job.timeout \in Timeouts /\ job.len \in Lengths /\ job.out \in [Streams -> Chunks]
    BY Zenon DEF Types, Jobs
  <2>2. Timeouts \subseteq Nat /\ Lengths \subseteq Nat /\ Chunks \subseteq Nat
        /\ Grace \in Nat \ {0}
    BY VmAssumption, Zenon
  <2> QED
    BY <2>1, <2>2, Zenon
<1>2. Silence = IF job.len <= job.timeout THEN job.len ELSE job.timeout
  <2>1. job.len \in Int /\ job.timeout \in Int
    BY <1>1
  <2> QED
    BY <2>1, MaxMin, Zenon DEF Silence
<1>3. /\ sent["stdout"] \in Nat /\ sent["stderr"] \in Nat
      /\ got["stdout"] \in Nat /\ got["stderr"] \in Nat
      /\ job.out["stdout"] \in Nat /\ job.out["stderr"] \in Nat
  BY <1>1, Zenon DEF Types, Streams
<1> QED
  BY <1>1, <1>2, <1>3

\* What is left of an answerable job's time once its output is on the way.
LEMMA TimeLeft ==
    ASSUME Types, Answerable, OnTime, gpc = "out"
    PROVE  budget > 0 /\ (gtime = 1 => budget > 1)
<1>1. /\ gtime \in {0, 1} /\ budget \in Nat
      /\ sent["stdout"] <= job.out["stdout"] /\ sent["stderr"] <= job.out["stderr"]
      /\ Spent <= Silence + IF job.slow THEN Sent - gtime ELSE 0
      /\ gtime = 1 => job.slow
  BY Zenon DEF OnTime, Streams
<1>2. ~(Silence + Transfer >= job.timeout + Grace)
  BY Zenon DEF Answerable, NoAnswer
<1>3. CASE job.slow
  BY <1>1, <1>2, <1>3, JobFacts DEF Spent, Sent, Transfer
<1>4. CASE ~job.slow
  BY <1>1, <1>2, <1>4, JobFacts DEF Spent, Transfer
<1> QED
  BY <1>3, <1>4, Zenon

\* The host starts to receive with the whole of the job's time.
LEMMA TimeSend ==
    ASSUME StreamInv, TimeInv, SendJob
    PROVE  TimeInv'
<1> SUFFICES ASSUME Answerable' PROVE result'.status # "timeout" /\ (hpc' = "recv" => OnTime')
  BY Zenon DEF TimeInv
<1>1. UNCHANGED job /\ Types /\ hpc = "send"
  BY Zenon DEF SendJob, StreamInv
<1>2. Answerable
  BY <1>1, Zenon DEF Answerable, NoAnswer, Silence, Transfer
<1>3. result.status # "timeout"
  BY <1>2, Zenon DEF TimeInv
<1>4. result'.status # "timeout"
  BY <1>3 DEF SendJob, Fail, Goto
<1>5. ASSUME hpc' = "recv" PROVE OnTime'
  <2>1. /\ gpc # "off" /\ toGuest' = Append(toGuest, Frame("run_job"))
        /\ budget' = job.timeout + Grace /\ htime' = RecvBudget(budget') /\ gpc' = gpc
    BY <1>5, Zenon DEF SendJob, Fail, Goto, guestVars
  <2>2. gpc = "idle" /\ toGuest = <<>>
    BY <1>1, <2>1, Zenon DEF StreamInv, Starting
  <2>3. toGuest' # <<>>
    BY <2>1, <2>2
  <2>4. budget' \in Nat /\ htime' \in Nat \ {0}
    <3>1. budget' \in Nat
      BY <1>1, <2>1, JobFacts
    <3>2. RecvBudget(budget') \in Nat \ {0}
      BY <3>1, RecvBudgetBounds
    <3> QED
      BY <2>1, <3>1, <3>2, Zenon
  <2>5. Spent' = 0
    BY <1>1, <2>1, JobFacts DEF Spent
  <2> QED
    BY <2>1, <2>2, <2>3, <2>4, <2>5, Zenon DEF OnTime
<1> QED
  BY <1>4, <1>5, Zenon

\* A frame comes before the wait for it ends.
LEMMA TimeReceive ==
    ASSUME ReadCap > 1, StreamInv, TimeInv, Receive
    PROVE  TimeInv'
<1> SUFFICES ASSUME Answerable' PROVE result'.status # "timeout" /\ (hpc' = "recv" => OnTime')
  BY Zenon DEF TimeInv
<1>1. /\ UNCHANGED <<job, budget, gpc, gtime, left, sent, toGuest>> /\ Types /\ hpc = "recv"
  BY Zenon DEF Receive, StreamInv, guestVars
<1>2. Answerable
  BY <1>1, Zenon DEF Answerable, NoAnswer, Silence, Transfer
<1>3. result.status # "timeout" /\ OnTime /\ (Pending \/ Streaming \/ Refused)
  BY <1>1, <1>2, Zenon DEF TimeInv, StreamInv, Receiving
<1>4. budget \in Nat /\ htime # 0
  BY <1>3, Zenon DEF OnTime
<1>5. ~(budget < 0)
  BY <1>4
<1>6. result'.status # "timeout" /\ (hpc' = "recv" => /\ toHost # <<>> /\ toHost' = Tail(toHost)
                                                     /\ Head(toHost).type \in Streams
                                                     /\ htime' = RecvBudget(budget))
  BY <1>1, <1>3, <1>4, <1>5 DEF Receive, OutputChunk, Fail, Goto
<1>7. ASSUME hpc' = "recv" PROVE OnTime'
  <2>1. /\ toHost # <<>> /\ toHost' = Tail(toHost) /\ Head(toHost).type \in Streams
        /\ htime' = RecvBudget(budget) /\ toHost \in Seq(Frames)
    BY <1>1, <1>6, <1>7, Zenon DEF Types
  <2>2. Streaming /\ gpc \notin {"job", "join"} /\ toGuest = <<>>
    <3>1. ~Pending
      BY <2>1, Zenon DEF Pending
    <3>2. ~Refused
      BY <2>1 DEF Refused, Frame, Streams
    <3>3. ASSUME gpc \in {"job", "join"} PROVE FALSE
      <4>1. Len(toHost) = Outs + Errs /\ sent = Zero /\ got = Zero
        BY <1>3, <3>1, <3>2, <3>3, Zenon DEF Streaming
      <4>2. Outs = 0 /\ Errs = 0
        BY <4>1 DEF Outs, Errs, Zero, Streams
      <4> QED
        BY <2>1, <4>1, <4>2
    <3> QED
      BY <1>3, <3>1, <3>2, <3>3, Zenon DEF Streaming
  <2>3. htime' \in Nat \ {0} /\ (htime' >= budget \/ htime' >= ReadCap)
    BY <1>4, <2>1, RecvBudgetBounds
  <2>4. Closing => Closing'
    <3> SUFFICES ASSUME Closing PROVE Closing'
      OBVIOUS
    <3> DEFINE n == Len(toHost)
    <3>1. n \in Nat /\ n # 0 /\ Head(toHost) = toHost[1]
      BY <2>1
    <3>2. n # 1
      BY <2>1, <3>1, Zenon DEF Closing
    <3>3. Len(toHost') = n - 1 /\ \A i \in 1 .. n - 1 : toHost'[i] = toHost[i + 1]
      BY <2>1
    <3> HIDE DEF n
    <3>4. n - 1 \in 1 .. n - 1 /\ (n - 1) + 1 = n /\ n - 1 # 0
      BY <3>1, <3>2
    <3>5. toHost'[n - 1] = toHost[n] /\ Len(toHost') = n - 1
      BY <3>3, <3>4, Zenon
    <3>6. toHost' # <<>>
      BY <3>4, <3>5, Zenon
    <3> QED
      BY <3>5, <3>6, Zenon DEF Closing, n
  <2>5. gpc = "out" /\ gtime = 1 => htime' > 1
    <3> SUFFICES ASSUME gpc = "out", gtime = 1 PROVE htime' > 1
      OBVIOUS
    <3>1. budget > 1
      BY <1>1, <1>2, <1>3, TimeLeft, Zenon
    <3>2. ReadCap \in Nat
      BY VmAssumption, Zenon
    <3> QED
      BY <1>4, <2>3, <3>1, <3>2
  <2>6. gpc = "out" => /\ gtime \in {0, 1} /\ \A s \in Streams : sent[s] <= job.out[s]
                       /\ Spent <= Silence + IF job.slow THEN Sent - gtime ELSE 0
                       /\ gtime = 1 => job.slow
    BY <1>3, Zenon DEF OnTime
  <2>7. gpc = "idle" => Closing
    BY <1>3, <2>2, Zenon DEF OnTime
  <2>8. Spent' = Spent /\ Sent' = Sent /\ Silence' = Silence
    BY <1>1, Zenon DEF Spent, Sent, Silence
  <2> QED
    BY <1>1, <1>4, <2>2, <2>3, <2>4, <2>5, <2>6, <2>7, <2>8, Zenon DEF OnTime
<1> QED
  BY <1>6, <1>7, Zenon

\* The guest's steps take no time.
LEMMA TimeGuest ==
    ASSUME StreamInv, TimeInv, Guest
    PROVE  TimeInv'
<1> SUFFICES ASSUME Answerable' PROVE result'.status # "timeout" /\ (hpc' = "recv" => OnTime')
  BY Zenon DEF TimeInv
<1>1. UNCHANGED <<hpc, htime, budget, job, result>> /\ Types
  BY Zenon DEF Guest, StreamInv
<1>2. Answerable
  BY <1>1, Zenon DEF Answerable, NoAnswer, Silence, Transfer
<1>3. result'.status # "timeout"
  BY <1>1, <1>2, Zenon DEF TimeInv
<1>4. ASSUME hpc = "recv" PROVE OnTime'
  <2>1. OnTime /\ ~hclosed /\ (Pending \/ Streaming \/ Refused)
    BY <1>2, <1>4, Zenon DEF TimeInv, StreamInv, Receiving
  <2>2. /\ Spent' = Spent /\ Silence' = Silence /\ budget' \in Nat /\ htime' \in Nat \ {0}
    BY <1>1, <2>1, Zenon DEF OnTime, Spent, Silence
  <2>3. CASE Mount \/ Connect \/ Hello \/ Sync
    BY <2>1, <2>3, Zenon DEF Mount, Connect, Hello, Sync, Pending, Streaming, Refused
  <2>4. CASE RunJob
    <3>1. /\ gpc = "idle" /\ toGuest # <<>> /\ toGuest' = Tail(toGuest)
          /\ toGuest = <<Frame("run_job")>> /\ toHost = <<>>
      BY <2>1, <2>4, Zenon DEF RunJob, Pending, Streaming, Refused
    <3>2. toGuest' = <<>>
      BY <3>1
    <3>3. Spent = 0 /\ htime = RecvBudget(budget)
      BY <2>1, <3>1, Zenon DEF OnTime
    <3>4. CASE gpc' = "job" /\ gtime' = job.timeout /\ left' = job.len
      <4>1. /\ gtime' \in Nat /\ left' \in Nat /\ Spent' = job'.timeout - gtime'
            /\ Spent' = job'.len - left'
        <5>1. gtime' = job'.timeout /\ left' = job'.len /\ Spent' = 0
          BY <1>1, <2>2, <3>3, <3>4, Zenon
        <5>2. job'.timeout \in Nat /\ job'.len \in Nat
          BY <1>1, JobFacts, Zenon
        <5> QED
          BY <5>1, <5>2
      <4>2. budget = job.timeout + Grace
        <5>1. budget \in Nat /\ job.timeout \in Nat /\ Grace \in Nat \ {0}
          BY <1>1, <2>1, JobFacts, Zenon DEF OnTime
        <5> QED
          BY <3>3, <5>1 DEF Spent
      <4>3. RecvBudget(budget) \in Nat
        BY <2>1, RecvBudgetBounds DEF OnTime
      <4>4. htime' = RecvBudget(job'.timeout + Grace) - Spent'
        <5>1. htime' = RecvBudget(budget) /\ Spent' = 0
          BY <1>1, <2>2, <3>3, Zenon
        <5>2. htime' = RecvBudget(budget) - Spent'
          BY <4>3, <5>1
        <5> QED
          BY <1>1, <4>2, <5>2, Zenon
      <4> QED
        BY <2>2, <3>2, <3>4, <4>1, <4>4, Zenon DEF OnTime
    <3>5. CASE gpc' = "idle" /\ toHost' = Append(toHost, Frame("error"))
      <4>1. toHost' = <<Frame("error")>>
        BY <3>1, <3>5
      <4>2. Closing'
        BY <4>1, Zenon DEF Closing, Frame, Streams
      <4> QED
        BY <2>2, <3>2, <3>5, <4>2, Zenon DEF OnTime
    <3> QED
      BY <2>4, <3>1, <3>4, <3>5, Zenon DEF RunJob, Send
  <2>5. CASE WaitTool
    <3>1. gpc = "job" /\ gpc' = "join" /\ gtime' = 0 /\ toGuest' = toGuest /\ toGuest = <<>>
      BY <2>1, <2>5, Zenon DEF WaitTool, Pending, Streaming, Refused
    <3>2. /\ gtime \in Nat /\ left \in Nat
          /\ Spent = job.timeout - gtime /\ Spent = job.len - left
      BY <2>1, <3>1, Zenon DEF OnTime
    <3>3. Spent \in Int /\ Spent <= job.len /\ Spent <= job.timeout
      BY <1>1, <3>2, JobFacts
    <3>4. Spent' <= Silence'
      BY <1>1, <2>2, <3>3, JobFacts, Zenon
    <3> QED
      BY <2>2, <3>1, <3>4, Zenon DEF OnTime
  <2>6. CASE JoinReaders
    <3>1. /\ gpc = "join" /\ gpc' = "out" /\ UNCHANGED <<gtime, sent, toGuest>>
          /\ toGuest = <<>> /\ sent = Zero
      BY <2>1, <2>6, Zenon DEF JoinReaders, Pending, Streaming, Refused
    <3>2. gtime' = 0 /\ Spent <= Silence
      BY <2>1, <3>1, Zenon DEF OnTime
    <3>3. \A s \in Streams : sent'[s] <= job'.out[s]
      BY <1>1, <3>1, JobFacts DEF Zero, Streams
    <3>4. Sent' - gtime' = 0 /\ Silence \in Nat
      BY <1>1, <3>1, <3>2, JobFacts DEF Sent, Zero, Streams
    <3>5. Spent' <= Silence' + IF job'.slow THEN Sent' - gtime' ELSE 0
      <4>1. Silence + 0 = Silence
        BY <3>4
      <4> QED
        BY <2>2, <3>2, <3>4, <4>1, Zenon
    <3>6. gtime' \in {0, 1} /\ gtime' # 1
      BY <3>2
    <3> QED
      BY <2>2, <3>1, <3>3, <3>5, <3>6, Zenon DEF OnTime
  <2>7. CASE SendOutput
    <3>1. gpc = "out" /\ gtime = 0 /\ toGuest' = toGuest /\ toGuest = <<>>
      BY <2>1, <2>7, Zenon DEF SendOutput, Pending, Streaming, Refused
    <3>2. /\ \A s \in Streams : sent[s] <= job.out[s]
          /\ Spent <= Silence + IF job.slow THEN Sent - 0 ELSE 0
      BY <2>1, <3>1, Zenon DEF OnTime
    <3>3. ASSUME NEW s \in Streams, sent[s] < job.out[s], toHost' = Append(toHost, Frame(s)),
                 sent' = [sent EXCEPT ![s] = @ + 1], gpc' = "out",
                 gtime' = IF job.slow THEN 1 ELSE 0
          PROVE  OnTime'
      <4>1. gtime' \in {0, 1} /\ (gtime' = 1 => job'.slow) /\ toHost' # <<>>
        BY <1>1, <3>3 DEF Types
      <4>n. /\ sent["stdout"] \in Nat /\ sent["stderr"] \in Nat
            /\ job.out["stdout"] \in Nat /\ job.out["stderr"] \in Nat
            /\ sent \in [Streams -> Nat]
        BY <1>1, JobFacts, Zenon DEF Types
      <4>2. \A r \in Streams : sent'[r] <= job'.out[r]
        <5>1. \A r \in Streams : sent'[r] = IF r = s THEN sent[s] + 1 ELSE sent[r]
          BY <3>3, <4>n, Zenon
        <5>2. sent[s] + 1 <= job.out[s]
          BY <3>3, <4>n DEF Streams
        <5> QED
          BY <1>1, <3>2, <5>1, <5>2, Zenon
      <4>3. Sent' = Sent + 1 /\ Sent \in Nat
        <5>1. CASE s = "stdout"
          <6>1. sent'["stdout"] = sent["stdout"] + 1 /\ sent'["stderr"] = sent["stderr"]
            BY <3>3, <4>n, <5>1 DEF Streams
          <6> QED
            BY <4>n, <6>1 DEF Sent
        <5>2. CASE s = "stderr"
          <6>1. sent'["stderr"] = sent["stderr"] + 1 /\ sent'["stdout"] = sent["stdout"]
            BY <3>3, <4>n, <5>2 DEF Streams
          <6> QED
            BY <4>n, <6>1 DEF Sent
        <5> QED
          BY <5>1, <5>2, Zenon DEF Streams
      <4>4. Spent' <= Silence' + IF job'.slow THEN Sent' - gtime' ELSE 0
        <5>1. job.slow => Sent' - gtime' = Sent - 0
          BY <3>3, <4>3
        <5> QED
          BY <1>1, <2>2, <3>2, <5>1, Zenon
      <4> QED
        BY <2>2, <3>1, <3>3, <4>1, <4>2, <4>4, Zenon DEF OnTime
    <3>4. ASSUME toHost' = Append(toHost, [type |-> "job_done", code |-> code]), gpc' = "idle"
          PROVE  OnTime'
      <4> DEFINE e == [type |-> "job_done", code |-> code]
      <4>1. e \in Frames /\ e.type \notin Streams
        BY <1>1, Zenon DEF Types, Frames, Streams
      <4> HIDE DEF e
      <4>2. toHost' = Append(toHost, e) /\ toHost \in Seq(Frames)
        BY <1>1, <3>4, Zenon DEF e, Types
      <4>3. toHost' # <<>> /\ toHost'[Len(toHost')] = e
        BY <4>1, <4>2
      <4>4. Closing'
        BY <4>1, <4>3, Zenon DEF Closing
      <4> QED
        BY <2>2, <3>1, <3>4, <4>4, Zenon DEF OnTime
    <3> QED
      BY <2>7, <3>1, <3>3, <3>4, Zenon DEF SendOutput, Send
  <2>8. CASE Halt
    <3>1. gpc = "idle" /\ toGuest # <<>> /\ Head(toGuest).type = "shutdown"
      BY <2>1, <2>8, Zenon DEF Halt
    <3>2. toGuest = <<Frame("run_job")>>
      BY <2>1, <3>1, Zenon DEF Pending, Streaming, Refused
    <3> QED
      BY <3>1, <3>2 DEF Frame
  <2> QED
    BY <2>3, <2>4, <2>5, <2>6, <2>7, <2>8, Zenon DEF Guest
<1> QED
  BY <1>1, <1>3, <1>4, Zenon

\* A tick leaves the host something of its wait and of the job's time.
LEMMA TimeTick ==
    ASSUME StreamInv, TimeInv, Tick
    PROVE  TimeInv'
<1> SUFFICES ASSUME Answerable' PROVE result'.status # "timeout" /\ (hpc' = "recv" => OnTime')
  BY Zenon DEF TimeInv
<1>1. /\ UNCHANGED <<hpc, job, result, gpc, sent, toHost, toGuest, hclosed>> /\ Types
      /\ htime' = Down(htime) /\ gtime' = Down(gtime) /\ left' = Down(left)
  BY Zenon DEF Tick, StreamInv, streamVars
<1>2. Answerable
  BY <1>1, Zenon DEF Answerable, NoAnswer, Silence, Transfer
<1>3. result'.status # "timeout"
  BY <1>1, <1>2, Zenon DEF TimeInv
<1>4. ASSUME hpc = "recv" PROVE OnTime'
  <2>1. OnTime /\ ~hclosed /\ (Pending \/ Streaming \/ Refused)
    BY <1>2, <1>4, Zenon DEF TimeInv, StreamInv, Receiving
  <2>2. toHost = <<>> /\ gpc # "off"
    BY <1>4, Zenon DEF Tick, HostWaits, Eof
  <2>3. htime \in Nat /\ htime # 0 /\ budget \in Nat
    BY <2>1, Zenon DEF OnTime
  <2>4. htime' = htime - 1
    BY <1>1, <2>3 DEF Down
  <2>5. Silence' = Silence /\ Sent' = Sent
    BY <1>1, Zenon DEF Silence, Sent
  <2>6. budget' = budget - 1
    <3>1. budget' = Max({budget - 1, -1})
      BY <1>4, Zenon DEF Tick
    <3>2. budget - 1 \in Int /\ -1 \in Int /\ budget - 1 >= -1
      BY <2>3
    <3> QED
      BY <3>1, <3>2, MaxMin, Zenon
  <2>7. Spent' = Spent + 1 /\ Spent \in Int
    BY <1>1, <2>3, <2>6, JobFacts DEF Spent
  <2>8. \/ gpc = "job" /\ left > 0 /\ gtime > 0
        \/ gpc = "out" /\ gtime > 0
    <3>1. GuestWaits /\ ~job.holds
      BY <1>2, Zenon DEF Tick, Answerable, NoAnswer
    <3>2. gpc \notin {"boot", "hello", "halt", "connect"}
      BY <2>1, Zenon DEF Pending, Streaming, Refused
    <3>3. gpc = "idle" => toGuest # <<>>
      BY <2>1, <2>2, Zenon DEF OnTime, Closing
    <3> QED
      BY <2>1, <2>2, <3>1, <3>2, <3>3, Zenon DEF GuestWaits
  <2>9. toGuest' = <<>>
    BY <1>1, <2>1, <2>8, Zenon DEF Pending, Streaming, Refused
  <2>10. CASE gpc = "job"
    <3>1. /\ gtime \in Nat /\ left \in Nat /\ gtime > 0 /\ left > 0
          /\ Spent = job.timeout - gtime /\ Spent = job.len - left
          /\ htime = RecvBudget(job.timeout + Grace) - Spent
      BY <2>1, <2>8, <2>10, Zenon DEF OnTime
    <3>2. gtime' = gtime - 1 /\ left' = left - 1
      BY <1>1, <3>1, Zenon DEF Down
    <3>3. /\ gtime' \in Nat /\ left' \in Nat
          /\ Spent' = job.timeout - gtime' /\ Spent' = job.len - left'
      BY <1>1, <2>7, <3>1, <3>2, JobFacts
    <3>4. job.timeout + Grace \in Nat /\ Spent' <= job.timeout /\ Spent' <= job.len
          /\ Spent' \in Int
      BY <1>1, <3>3, JobFacts
    <3> DEFINE r == RecvBudget(job.timeout + Grace)
    <3>5. r \in Nat \ {0} /\ (r >= job.timeout + Grace \/ r >= ReadCap)
      BY <3>4, RecvBudgetBounds
    <3> HIDE DEF r
    <3>6. htime' = r - Spent'
      BY <2>4, <2>7, <3>1, <3>5 DEF r
    <3>7. Spent' <= Silence /\ Silence < ReadCap
      BY <1>1, <1>2, <3>4, JobFacts, Zenon DEF Answerable
    <3>8. htime' \in Nat \ {0}
      <4>1. ReadCap \in Nat
        BY VmAssumption, Zenon
      <4>2. r > Spent'
        BY <1>1, <3>4, <3>5, <3>7, <4>1, JobFacts
      <4>3. \A x, y \in Int : y > x => y - x \in Nat \ {0}
        OBVIOUS
      <4>4. r \in Int
        BY <3>5
      <4> QED
        BY <3>4, <3>6, <4>2, <4>3, <4>4, Zenon
    <3>9. budget' \in Nat
      <4>1. Spent' < job.timeout + Grace
        BY <1>1, <3>4, JobFacts
      <4>2. budget' = (job.timeout + Grace) - Spent'
        BY <1>1, <2>3, <2>6, JobFacts DEF Spent
      <4>3. \A x, y \in Int : x < y => y - x \in Nat
        OBVIOUS
      <4>4. job.timeout + Grace \in Int
        BY <3>4
      <4> QED
        BY <3>4, <4>1, <4>2, <4>3, <4>4, Zenon
    <3> QED
      BY <1>1, <2>9, <2>10, <3>3, <3>6, <3>8, <3>9, Zenon DEF OnTime, r
  <2>11. CASE gpc = "out"
    <3>1. /\ gtime = 1 /\ job.slow /\ htime > 1
          /\ \A s \in Streams : sent[s] <= job.out[s]
          /\ Spent <= Silence + (Sent - gtime)
      <4>1. gtime \in {0, 1} /\ gtime > 0
        BY <2>1, <2>8, <2>11, Zenon DEF OnTime
      <4>2. gtime = 1
        BY <4>1
      <4> QED
        BY <2>1, <2>2, <2>11, <4>2, Zenon DEF OnTime
    <3>2. gtime' = 0
      BY <1>1, <3>1 DEF Down
    <3>3. htime' \in Nat \ {0}
      BY <2>3, <2>4, <3>1
    <3>4. budget > 1
      BY <1>1, <1>2, <2>1, <2>11, <3>1, TimeLeft, Zenon
    <3>5. budget' \in Nat
      BY <2>3, <2>6, <3>4
    <3>6. Spent' <= Silence + (Sent - 0)
      BY <1>1, <2>7, <3>1, JobFacts DEF Sent
    <3>7. gtime' \in {0, 1} /\ gtime' # 1
      BY <3>2
    <3>8. Spent' <= Silence' + IF job'.slow THEN Sent' - gtime' ELSE 0
      BY <1>1, <2>5, <3>1, <3>2, <3>6, Zenon
    <3> QED
      BY <1>1, <2>9, <2>11, <3>1, <3>3, <3>5, <3>7, <3>8, Zenon DEF OnTime
  <2> QED
    BY <2>8, <2>10, <2>11, Zenon
<1> QED
  BY <1>1, <1>3, <1>4, Zenon

LEMMA TimeStep ==
    ASSUME ReadCap > 1, StreamInv, TimeInv, [Next]_vars
    PROVE  TimeInv'
<1>1. CASE Guest \/ Tick \/ SendJob \/ Receive
  BY <1>1, TimeGuest, TimeTick, TimeSend, TimeReceive, Zenon
<1> SUFFICES ASSUME Answerable', ~SendJob, ~Receive, ~Guest, ~Tick
             PROVE  result'.status # "timeout" /\ (hpc' = "recv" => OnTime')
  BY <1>1, Zenon DEF TimeInv
<1>2. CASE Host
  <2>1. job' = job /\ hpc' # "recv" /\ (result' = result \/ result'.status # "timeout")
    <3> USE DEF Fail, Goto, Killed
    <3>1. CASE SpawnFails \/ Spawn
      BY <3>1 DEF SpawnFails, Spawn
    <3>2. CASE WaitApi
      BY <3>2 DEF WaitApi
    <3>3. CASE Configure \/ Accept
      BY <3>3 DEF Configure, Accept
    <3>4. CASE AwaitReady
      BY <3>4 DEF AwaitReady
    <3>5. CASE Drop
      BY <3>5, Zenon DEF Drop
    <3>6. CASE Shutdown \/ AwaitHalt \/ Extract
      BY <3>6, Zenon DEF Shutdown, AwaitHalt, Extract
    <3> QED
      BY <1>2, <3>1, <3>2, <3>3, <3>4, <3>5, <3>6, Zenon DEF Host
  <2>2. Answerable
    BY <2>1, Zenon DEF Answerable, NoAnswer, Silence, Transfer
  <2> QED
    BY <2>1, <2>2, Zenon DEF TimeInv
<1>3. CASE Crash
  <2>1. /\ UNCHANGED <<hpc, htime, budget, job, result, gtime, left, sent, toHost, toGuest>>
        /\ gpc' = "off"
    BY <1>3, Zenon DEF Crash, streamVars
  <2>2. Answerable
    BY <2>1, Zenon DEF Answerable, NoAnswer, Silence, Transfer
  <2>3. result.status # "timeout" /\ (hpc = "recv" => OnTime)
    BY <2>2, Zenon DEF TimeInv
  <2> QED
    BY <2>1, <2>3, Zenon DEF OnTime, Spent
<1>4. CASE Ended \/ UNCHANGED vars
  <2>1. /\ UNCHANGED <<hpc, htime, budget, job, result, gpc, gtime, left, sent, toHost, toGuest>>
    BY <1>4, Zenon DEF Ended, vars, guestVars, streamVars
  <2>2. Answerable
    BY <2>1, Zenon DEF Answerable, NoAnswer, Silence, Transfer
  <2>3. result.status # "timeout" /\ (hpc = "recv" => OnTime)
    BY <2>2, Zenon DEF TimeInv
  <2> QED
    BY <2>1, <2>3, Zenon DEF OnTime, Spent, Sent, Silence, Closing
<1> QED
  BY <1>2, <1>3, <1>4, Zenon DEF Next

\* Where a wait for one frame lasts more than the tick that a slow chunk takes,
\* run_job gives up only on a guest that has no answer within the job's timeout
\* and the grace period, or on a tool that was silent for one whole wait.
THEOREM CutOnlyWhenSilentHolds ==
    ASSUME ReadCap > 1
    PROVE  Spec => []CutOnlyWhenSilent
<1>1. Init => TimeInv
  BY DEF Init, TimeInv, NoResult
<1>2. StreamInv /\ TimeInv => CutOnlyWhenSilent
  <2> SUFFICES ASSUME StreamInv, TimeInv, result.status = "timeout", ~NoAnswer
               PROVE  Silence >= ReadCap
    BY Zenon DEF CutOnlyWhenSilent
  <2>1. ~(Silence < ReadCap)
    BY Zenon DEF TimeInv, Answerable
  <2>2. Silence \in Nat /\ ReadCap \in Nat
    BY JobFacts, VmAssumption, Zenon DEF StreamInv
  <2> QED
    BY <2>1, <2>2
<1>3. StreamInv /\ TimeInv /\ [Next]_vars => TimeInv'
  BY TimeStep, Zenon
<1> QED
  BY <1>1, <1>2, <1>3, StreamInit, StreamStep, PTL DEF Spec
===============================================================================
