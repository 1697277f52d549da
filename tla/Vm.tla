---------------------------------- MODULE Vm ----------------------------------
(***************************************************************************)
(* One run on the Firecracker backend: execute_firecracker and             *)
(* FirecrackerVm on the host, oaie-guest as init of the microVM, and the   *)
(* vsock stream between them.                                              *)
(*                                                                         *)
(* Time is counted in ticks.  Every wait has a timer that counts down, and *)
(* a tick passes only when nobody has a step to take at once: a thread     *)
(* that can run does so within a tick.  The Firecracker process, the guest *)
(* kernel and the tool may fail at any moment; the guest agent is the one  *)
(* in oaie-guest.                                                          *)
(***************************************************************************)
EXTENDS Integers, Sequences, FiniteSets, FiniteSetsExt

CONSTANTS
    ApiWait,      \* 5 s for the API socket
    AcceptWait,   \* 30 s for the guest to connect, and to say it is ready
    ConnectWait,  \* 30 s of connection attempts in the guest
    Timeouts,     \* effective_timeout: the job's, or the policy's max_time
    Grace,        \* 10 s that the host adds to it
    ReadCap,      \* 60 s, the longest wait for one frame
    MinRead,      \* 1 s, the shortest
    HaltWait,     \* 5 s for the VM to power off
    Lengths,      \* how long the tool runs
    Chunks,       \* output chunks on each stream
    ChanCap,      \* bound: frames the stream buffers
    Crashes       \* whether Firecracker may die by itself

ASSUME VmAssumption ==
    /\ {ApiWait, AcceptWait, ConnectWait, Grace, ReadCap, MinRead,
        HaltWait, ChanCap} \subseteq Nat \ {0}
    /\ Timeouts \subseteq Nat /\ Lengths \subseteq Nat /\ Chunks \subseteq Nat
    /\ Crashes \in BOOLEAN

VARIABLES
    hpc,       \* where execute_firecracker is
    htime,     \* what is left of the host's current wait
    budget,    \* what is left of job_timeout; -1 once it is exceeded
    fc,        \* the Firecracker process
    dir,       \* whether the working directory exists
    gpc,       \* where the guest agent is
    gtime,     \* what is left of the guest's current wait
    left,      \* what the tool still has to run
    code,      \* the exit code the guest saw
    job,       \* the tool: its timeout, length, exit code and output, whether a process it
               \* leaves behind keeps the pipes open, whether a chunk takes a tick
    conn,      \* the guest has connected
    sent,      \* chunks the guest has sent
    toHost, toGuest,   \* frames in flight
    hclosed,   \* the host has shut the stream down
    got,       \* chunks written to the host's stdout and stderr files
    result     \* what the backend returns

guestVars == <<gpc, gtime, left, code, conn, sent>>
streamVars == <<toHost, toGuest, hclosed>>
vars == <<hpc, htime, budget, fc, dir, job, got, result, guestVars, streamVars>>

Streams == {"stdout", "stderr"}
Frame(type) == [type |-> type, code |-> 0]
NoResult == [status |-> "none", code |-> 0]

\* The codes of the tool: success, a failure, and death by a signal.
Codes == {0, 1, -1}
Jobs == [timeout : Timeouts, len : Lengths, code : Codes, out : [Streams -> Chunks],
         holds : BOOLEAN, slow : BOOLEAN]

Init ==
    /\ hpc = "spawn" /\ htime = 0 /\ budget = 0
    /\ fc = "none" /\ dir = TRUE
    /\ gpc = "off" /\ gtime = 0 /\ left = 0 /\ code = 0
    /\ job \in Jobs
    /\ toHost = <<>> /\ toGuest = <<>> /\ hclosed = FALSE
    /\ conn = FALSE
    /\ got = [s \in Streams |-> 0] /\ sent = got
    /\ result = NoResult

-----------------------------------------------------------------------------
(* Host: FirecrackerVm::boot.                                              *)

\* An error leaves the host with a VM to tear down: the guard of boot, or the
\* Drop of FirecrackerVm.
Fail(why) ==
    /\ hpc' = "drop" /\ htime' = 0
    /\ result' = [status |-> why, code |-> 0]

Goto(step, wait) ==
    /\ hpc' = step /\ htime' = wait
    /\ UNCHANGED result

\* The listener cannot be bound, or the binary not started: the error returns
\* before there is anything to kill, and leaves the working directory.
SpawnFails ==
    /\ hpc = "spawn"
    /\ hpc' = "failed" /\ result' = [status |-> "spawn", code |-> 0]
    /\ UNCHANGED <<htime, budget, fc, dir, job, got, guestVars, streamVars>>

Spawn ==
    /\ hpc = "spawn"
    /\ fc' = "running"
    /\ Goto("api", ApiWait)
    /\ UNCHANGED <<budget, dir, job, got, guestVars, streamVars>>

\* The API socket appears, Firecracker exits first, or the wait ends.
WaitApi ==
    /\ hpc = "api"
    /\ \/ fc = "running" /\ Goto("config", 0)
       \/ fc = "exited" /\ Fail("exited")
       \/ htime = 0 /\ Fail("boot")
    /\ UNCHANGED <<budget, fc, dir, job, got, guestVars, streamVars>>

\* Any of the REST calls may fail; the last one starts the guest.
Configure ==
    /\ hpc = "config"
    /\ \/ fc = "running" /\ Goto("accept", AcceptWait) /\ gpc' = "boot"
       \/ Fail("api") /\ UNCHANGED gpc
    /\ UNCHANGED <<budget, fc, dir, job, got, gtime, left, code, conn, sent,
                   streamVars>>

Accept ==
    /\ hpc = "accept"
    /\ \/ conn /\ Goto("ready", AcceptWait)
       \/ htime = 0 /\ Fail("boot")
    /\ UNCHANGED <<budget, fc, dir, job, got, guestVars, streamVars>>

Eof == toHost = <<>> /\ gpc = "off"

\* The first frame of the guest is AgentReady.
AwaitReady ==
    /\ hpc = "ready"
    /\ \/ /\ toHost # <<>> /\ Head(toHost).type = "agent_ready"
          /\ toHost' = Tail(toHost)
          /\ Goto("send", 0)
       \/ Eof /\ Fail("eof") /\ UNCHANGED toHost
       \/ htime = 0 /\ Fail("boot") /\ UNCHANGED toHost
    /\ UNCHANGED <<budget, fc, dir, job, got, guestVars, toGuest, hclosed>>

-----------------------------------------------------------------------------
(* Host: FirecrackerVm::run_job.                                           *)

\* recv_budget.
RecvBudget(b) == Max({Min({b, ReadCap}), MinRead})

\* RunJob is sent, and then the output files are created.
SendJob ==
    /\ hpc = "send"
    /\ \/ gpc = "off" /\ Fail("eof") /\ UNCHANGED <<budget, toGuest>>
       \/ /\ gpc # "off"
          /\ toGuest' = Append(toGuest, Frame("run_job"))
          /\ budget' = job.timeout + Grace
          /\ Goto("recv", RecvBudget(budget')) \/ Fail("files")
    /\ UNCHANGED <<fc, dir, job, got, guestVars, toHost, hclosed>>

\* A chunk is written to its file, and the loop starts again.
OutputChunk(s) ==
    /\ got' = [got EXCEPT ![s] = @ + 1]
    /\ IF budget < 0 THEN Fail("timeout") ELSE Goto("recv", RecvBudget(budget))

\* Mutant: a read that times out is tried again.
Receive_Retries ==
    /\ hpc = "recv"
    /\ \/ /\ toHost # <<>>
          /\ toHost' = Tail(toHost)
          /\ LET frame == Head(toHost) IN
             \/ frame.type \in Streams /\ OutputChunk(frame.type)
             \/ /\ frame.type = "job_done"
                /\ hpc' = "shutdown" /\ htime' = 0
                /\ result' = [status |-> "ok", code |-> frame.code]
                /\ UNCHANGED got
             \/ frame.type = "error" /\ Fail("guest") /\ UNCHANGED got
       \/ Eof /\ Fail("eof") /\ UNCHANGED <<toHost, got>>
       \/ htime = 0 /\ Goto("recv", RecvBudget(budget)) /\ UNCHANGED <<toHost, got>>
    /\ UNCHANGED <<budget, fc, dir, job, guestVars, toGuest, hclosed>>

\* The guest's 64 MiB a stream stay below the host's cap of 1 GiB.
Receive ==
    /\ hpc = "recv"
    /\ \/ /\ toHost # <<>>
          /\ toHost' = Tail(toHost)
          /\ LET frame == Head(toHost) IN
             \/ frame.type \in Streams /\ OutputChunk(frame.type)
             \/ frame.type \in Streams /\ Fail("files") /\ UNCHANGED got
             \/ /\ frame.type = "job_done"
                /\ hpc' = "shutdown" /\ htime' = 0
                /\ result' = [status |-> "ok", code |-> frame.code]
                /\ UNCHANGED got
             \/ frame.type = "error" /\ Fail("guest") /\ UNCHANGED got
       \/ Eof /\ Fail("eof") /\ UNCHANGED <<toHost, got>>
       \/ htime = 0 /\ Fail("timeout") /\ UNCHANGED <<toHost, got>>
    /\ UNCHANGED <<budget, fc, dir, job, guestVars, toGuest, hclosed>>

-----------------------------------------------------------------------------
(* Host: the end of the VM.                                                *)

\* The process is killed and reaped: whatever the guest was doing stops.
Killed == fc' = "reaped" /\ gpc' = "off"

\* Mutant: an early return leaves the process to itself.
Drop_NoKill ==
    /\ hpc = "drop"
    /\ dir' = FALSE
    /\ hpc' = "failed"
    /\ UNCHANGED <<htime, budget, job, got, result, guestVars, streamVars, fc>>

Drop ==
    /\ hpc = "drop"
    /\ Killed
    /\ dir' = FALSE
    /\ hpc' = "failed"
    /\ UNCHANGED <<htime, budget, job, got, result, gtime, left, code, conn, sent,
                   streamVars>>

\* shutdown: the message, and then both directions of the stream closed.
Shutdown ==
    /\ hpc = "shutdown"
    /\ toGuest' = Append(toGuest, Frame("shutdown"))
    /\ hclosed' = TRUE
    /\ Goto("halt", HaltWait)
    /\ UNCHANGED <<budget, fc, dir, job, got, guestVars, toHost>>

AwaitHalt ==
    /\ hpc = "halt"
    /\ \/ fc = "exited" /\ fc' = "reaped" /\ UNCHANGED gpc
       \/ htime = 0 /\ Killed
    /\ dir' = FALSE
    /\ Goto("extract", 0)
    /\ UNCHANGED <<budget, job, got, gtime, left, code, conn, sent, streamVars>>

\* The files of the output drive are copied out, each one best effort.
Extract ==
    /\ hpc = "extract"
    /\ Goto("done", 0)
    /\ UNCHANGED <<budget, fc, dir, job, got, guestVars, streamVars>>

Host ==
    \/ SpawnFails \/ Spawn \/ WaitApi \/ Configure \/ Accept \/ AwaitReady
    \/ SendJob \/ Receive \/ Drop \/ Shutdown \/ AwaitHalt \/ Extract

-----------------------------------------------------------------------------
(* The guest.                                                              *)

PowerOff == gpc' = "off" /\ fc' = "exited"

\* The file systems are mounted; a failure halts the machine.
Mount ==
    /\ gpc = "boot"
    /\ \/ gpc' = "connect" /\ gtime' = ConnectWait /\ UNCHANGED fc
       \/ PowerOff /\ UNCHANGED gtime
    /\ UNCHANGED <<left, code, conn, sent, toHost, toGuest>>

\* vsock_connect: attempts until one succeeds or the wait ends.
Connect ==
    /\ gpc = "connect"
    /\ \/ hpc = "accept" /\ conn' = TRUE /\ gpc' = "hello" /\ UNCHANGED fc
       \/ gtime = 0 /\ PowerOff /\ UNCHANGED conn
    /\ gtime' = 0
    /\ UNCHANGED <<left, code, sent, toHost, toGuest>>

Send(frame) ==
    /\ Len(toHost) < ChanCap
    /\ toHost' = Append(toHost, frame)

Hello ==
    /\ gpc = "hello"
    /\ Send(Frame("agent_ready"))
    /\ gpc' = "idle"
    /\ UNCHANGED <<fc, gtime, left, code, conn, sent, toGuest>>

\* Mutant: the guest is given the host's timeout.
RunJob_HostTimeout ==
    /\ gpc = "idle"
    /\ toGuest # <<>> /\ Head(toGuest).type = "run_job"
    /\ toGuest' = Tail(toGuest)
    /\ gpc' = "job" /\ gtime' = job.timeout + Grace /\ left' = job.len
    /\ UNCHANGED <<fc, code, conn, sent, toHost>>

\* handle_run_job: the tool is started, or the host is told that it cannot be.
RunJob ==
    /\ gpc = "idle"
    /\ toGuest # <<>> /\ Head(toGuest).type = "run_job"
    /\ toGuest' = Tail(toGuest)
    /\ \/ gpc' = "job" /\ gtime' = job.timeout /\ left' = job.len /\ UNCHANGED toHost
       \/ Send(Frame("error")) /\ UNCHANGED <<gpc, gtime, left>>
    /\ UNCHANGED <<fc, code, conn, sent>>

\* The tool ends, or its timeout does and it is killed.
WaitTool ==
    /\ gpc = "job"
    /\ \/ left = 0 /\ code' = job.code
       \/ gtime = 0 /\ code' = -1
    /\ gpc' = "join" /\ gtime' = 0 /\ left' = 0
    /\ UNCHANGED <<fc, conn, sent, toHost, toGuest>>

\* Mutant: the exit code goes out as soon as the tool has ended.
JoinReaders_DoneFirst ==
    /\ gpc = "join"
    /\ ~job.holds
    /\ Send([type |-> "job_done", code |-> code])
    /\ gpc' = "idle"
    /\ UNCHANGED <<fc, gtime, left, code, conn, sent, toGuest>>

\* Both reader threads see the end of their pipes, unless a process that the
\* tool left behind still holds them.
JoinReaders ==
    /\ gpc = "join"
    /\ ~job.holds
    /\ gpc' = "out"
    /\ UNCHANGED <<fc, gtime, left, code, conn, sent, toHost, toGuest>>

\* The chunks of stdout, those of stderr, then JobDone.
SendOutput ==
    /\ gpc = "out" /\ gtime = 0
    /\ \/ \E s \in Streams :
            /\ sent[s] < job.out[s]
            /\ s = "stderr" => sent["stdout"] = job.out["stdout"]
            /\ Send(Frame(s))
            /\ sent' = [sent EXCEPT ![s] = @ + 1]
            /\ gtime' = IF job.slow THEN 1 ELSE 0
            /\ UNCHANGED gpc
       \/ /\ sent = job.out
          /\ Send([type |-> "job_done", code |-> code])
          /\ gpc' = "idle"
          /\ UNCHANGED <<gtime, sent>>
    /\ UNCHANGED <<fc, left, code, conn, toGuest>>

\* Shutdown, or the end of the stream.
Halt ==
    /\ gpc = "idle"
    /\ IF toGuest # <<>> THEN Head(toGuest).type = "shutdown" ELSE hclosed
    /\ gpc' = "halt"
    /\ UNCHANGED <<fc, gtime, left, code, conn, sent, toHost, toGuest>>

\* sync and the power-off take the time they take.
Sync ==
    /\ gpc = "halt"
    /\ PowerOff
    /\ UNCHANGED <<gtime, left, code, conn, sent, toHost, toGuest>>

Guest ==
    /\ \/ Mount \/ Connect \/ Hello \/ RunJob \/ WaitTool \/ JoinReaders
       \/ SendOutput \/ Halt \/ Sync
    /\ UNCHANGED <<hpc, htime, budget, dir, job, got, result, hclosed>>

-----------------------------------------------------------------------------
(* The environment.                                                        *)

\* Firecracker dies, and the guest with it.
Crash ==
    /\ Crashes /\ fc = "running"
    /\ fc' = "exited" /\ gpc' = "off"
    /\ UNCHANGED <<hpc, htime, budget, dir, job, got, result, gtime, left, code,
                   conn, sent, streamVars>>

HostWaits ==
    /\ htime > 0
    /\ \/ hpc = "api" /\ fc = "running"
       \/ hpc = "accept" /\ ~conn
       \/ hpc \in {"ready", "recv"} /\ toHost = <<>> /\ ~Eof
       \/ hpc = "halt" /\ fc = "running"

GuestWaits ==
    \/ gpc \in {"off", "boot", "hello", "halt"}
    \/ gpc = "connect" /\ gtime > 0
    \/ gpc = "idle" /\ toGuest = <<>> /\ ~hclosed
    \/ gpc = "job" /\ left > 0 /\ gtime > 0
    \/ gpc = "join" /\ job.holds
    \/ gpc = "out" /\ gtime > 0

Down(t) == IF t > 0 THEN t - 1 ELSE t

Tick ==
    /\ HostWaits /\ GuestWaits
    /\ htime' = Down(htime) /\ gtime' = Down(gtime) /\ left' = Down(left)
    /\ budget' = IF hpc = "recv" THEN Max({budget - 1, -1}) ELSE budget
    /\ UNCHANGED <<hpc, fc, dir, job, got, result, gpc, code, conn, sent, streamVars>>

Ended == hpc \in {"done", "failed"} /\ UNCHANGED vars

Next == Host \/ Guest \/ Crash \/ Tick \/ Ended

\* The host's thread and the guest's run, and time passes.
Fairness == WF_vars(Host) /\ WF_vars(Guest) /\ WF_vars(Tick)

Spec == Init /\ [][Next]_vars /\ Fairness

-----------------------------------------------------------------------------
(* Properties.                                                             *)

\* However the backend returns, from boot, run_job, shutdown or a Drop, the
\* Firecracker process has been reaped; and its working directory is gone
\* unless the process never started.
VmGone ==
    hpc \in {"done", "failed"} =>
        /\ fc \in {"none", "reaped"}
        /\ dir => result.status = "spawn"

\* A backend that returns Ok returns the code the guest saw, after every chunk
\* of both streams has been written, and reads the output drive only once the
\* process that writes to it is gone.
ResultComplete ==
    hpc \in {"extract", "done"} =>
        /\ result = [status |-> "ok", code |-> code]
        /\ got = job.out
        /\ fc = "reaped"

\* The guest sends nothing before the tool ends or is killed.
Silence == Min({job.len, job.timeout})
Transfer == IF job.slow THEN job.out["stdout"] + job.out["stderr"] ELSE 0

\* A guest that is up but never answers: a process the tool left behind holds the
\* pipes, or the output does not fit in what is left of the job's time.
NoAnswer == job.holds \/ Silence + Transfer >= job.timeout + Grace

\* run_job gives up only on a guest that has no answer, or on a tool that was
\* silent for as long as one frame read may take.
CutOnlyWhenSilent ==
    result.status = "timeout" => NoAnswer \/ Silence >= ReadCap

\* run_job collects the output chunks until JobDone within the timeout of the
\* job and a grace period: it gives up only on a guest that has no answer.
TimeoutHonoured ==
    result.status = "timeout" => NoAnswer

\* The backend returns, whatever fails and wherever the guest stops answering.
BackendReturns == <>(hpc \in {"done", "failed"})
=============================================================================
