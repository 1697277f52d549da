------------------------------ MODULE Namespace ------------------------------
(***************************************************************************)
(* One command under the namespace backend: execute_namespace with         *)
(* spawn_sandboxed, CgroupScope, the BPF session of oaie-priv and the eBPF  *)
(* tracer (module Ebpf).  Actors: the supervisor, the sandboxed child, the *)
(* helper, the consumer thread, the tee threads and the kernel.            *)
(*                                                                         *)
(* The child is init of its PID namespace, so its death is the death of    *)
(* all it started and closes the output pipes.  The ptrace tracer (module  *)
(* Ptrace) appears by its contract: it waits for the child, or fails.      *)
(***************************************************************************)
EXTENDS Ebpf

CONSTANT Options   \* of runs: the cgroup manager found, --cgroup require,
                   \* the trace mode, whether the network has an allowlist

ASSUME NamespaceAssumption ==
    Options \subseteq [cg : {"off", "systemd", "priv"}, require : BOOLEAN,
                       trace : {"off", "ebpf", "ptrace"}, net : BOOLEAN]

VARIABLES
    opt,
    pc,         \* the supervisor
    res,        \* what it will return
    scope,      \* the cgroup scope: none, up, removed, left
    holder,     \* the sleep process that keeps a systemd scope alive
    net,        \* the allowlist: none, on, removed
    child,      \* the sandboxed process
    sync,       \* the sync pipe: open, byte, closed
    mapped,     \* the UID and GID maps are written
    inCg,       \* the child is in the scope
    tees,       \* the threads that copy its output
    helper,     \* the BPF session of oaie-priv
    sock,       \* the supervisor's end of it
    over,       \* the helper's deadline cut the session short
    expired,    \* the timeout has passed
    signalled   \* SIGINT or SIGTERM since the handlers were installed

supVars == <<opt, pc, res, scope, holder, net, sync, mapped, inCg, sock>>
vars == <<supVars, child, tees, helper, over, expired, signalled, ebpfVars>>

Init ==
    /\ opt \in Options
    /\ pc = "scope" /\ res = "none"
    /\ scope = "none" /\ holder = "none" /\ net = "none"
    /\ child = "none" /\ sync = "open" /\ mapped = FALSE /\ inCg = FALSE
    /\ tees = "none" /\ helper = "none" /\ sock = "none"
    /\ over = FALSE /\ expired = FALSE /\ signalled = FALSE
    /\ EbpfInit

Traced == opt.trace = "ebpf" /\ scope = "up"
Goto(p) == pc' = p /\ UNCHANGED res
Return(r) == pc' = "drop" /\ res' = r

-----------------------------------------------------------------------------
(* The supervisor, up to the moment the child may go on.                   *)

\* Mutant: systemd-run with a command that ends at once.
Holder_True == "none"

Holder == IF opt.cg = "systemd" THEN "up" ELSE "none"

\* A scope, or none: create_systemd leaves its holder behind when the scope does
\* not show up in time, and limits that cannot be set end a --cgroup require run.
CreateScope ==
    /\ pc = "scope"
    /\ \/ opt.cg = "off" /\ Goto("bpf") /\ UNCHANGED <<scope, holder>>
       \/ /\ opt.cg # "off"
          /\ scope' = "up"
          /\ holder' = Holder
          /\ Goto("bpf") \/ (opt.require /\ opt.cg = "systemd" /\ Return("err"))
       \/ /\ opt.cg # "off"
          /\ holder' = Holder
          /\ IF opt.require THEN Return("err") ELSE Goto("bpf")
          /\ UNCHANGED scope
    /\ UNCHANGED <<opt, net, sync, mapped, inCg, sock, child, tees, helper, ebpfVars>>

\* load_bpf: the programs are attached before there is a child.
LoadBpf ==
    /\ pc = "bpf"
    /\ IF Traced
         THEN Goto("bpfwait") /\ sock' = "open" /\ helper' = "load"
         ELSE Goto("clone") /\ UNCHANGED <<sock, helper>>
    /\ UNCHANGED <<opt, scope, holder, net, sync, mapped, inCg, child, tees, ebpfVars>>

\* Its answer, an error, or 30 seconds of nothing.
BpfAnswer ==
    /\ pc = "bpfwait"
    /\ \/ helper = "serve" /\ Goto("clone")
       \/ helper # "serve" /\ Return("err")
    /\ UNCHANGED <<opt, scope, holder, net, sync, mapped, inCg, sock, child, tees, helper, ebpfVars>>

Clone ==
    /\ pc = "clone"
    /\ \/ Goto("maps") /\ child' = "blocked"
       \/ Return("err") /\ UNCHANGED child
    /\ UNCHANGED <<opt, scope, holder, net, sync, mapped, inCg, sock, tees, helper, ebpfVars>>

\* parent_setup: the maps, the scope, the allowlist, the byte; each may fail.
WriteMaps ==
    /\ pc = "maps"
    /\ \/ Goto("cgroup") /\ mapped' = TRUE
       \/ Goto("abort") /\ UNCHANGED mapped
    /\ UNCHANGED <<opt, scope, holder, net, sync, inCg, sock, child, tees, helper, ebpfVars>>

Alive == child \in {"blocked", "setup", "stopped", "exec", "running"}

HookCgroup ==
    /\ pc = "cgroup"
    /\ \/ scope # "up" /\ Goto("net") /\ UNCHANGED inCg
       \/ scope = "up" /\ Alive /\ Goto("net") /\ inCg' = TRUE
       \/ scope = "up" /\ Goto("abort") /\ UNCHANGED inCg
    /\ UNCHANGED <<opt, scope, holder, net, sync, mapped, sock, child, tees, helper, ebpfVars>>

\* enforce_allowlist undoes what it has done when it fails.
HookNetwork ==
    /\ pc = "net"
    /\ \/ ~opt.net /\ Goto("sync") /\ UNCHANGED net
       \/ opt.net /\ Goto("sync") /\ net' = "on"
       \/ opt.net /\ Goto("abort") /\ UNCHANGED net
    /\ UNCHANGED <<opt, scope, holder, sync, mapped, inCg, sock, child, tees, helper, ebpfVars>>

\* A dead child makes the write fail.
Release ==
    /\ pc = "sync"
    /\ IF Alive THEN Goto("assign") /\ sync' = "byte" ELSE Goto("abort") /\ UNCHANGED sync
    /\ UNCHANGED <<opt, scope, holder, net, mapped, inCg, sock, child, tees, helper, ebpfVars>>

SIGKILL == child' = IF Alive THEN "dying" ELSE child

\* Mutant: a failed setup returns and leaves the child.
Abort_Leaves ==
    /\ pc = "abort"
    /\ Return("err")
    /\ UNCHANGED <<opt, scope, holder, net, sync, mapped, inCg, sock, child, tees, helper, ebpfVars>>

\* On any failure the child is killed, and then reaped.
Abort ==
    /\ pc = "abort"
    /\ SIGKILL
    /\ Goto("abortwait")
    /\ UNCHANGED <<opt, scope, holder, net, sync, mapped, inCg, sock, tees, helper, ebpfVars>>

Reap == child = "zombie" /\ child' = "reaped"

Aborted ==
    /\ pc = "abortwait" /\ Reap
    /\ Return("err") /\ sync' = "closed"
    /\ UNCHANGED <<opt, scope, holder, net, mapped, inCg, sock, tees, helper, ebpfVars>>

-----------------------------------------------------------------------------
(* The supervisor, while the command runs.                                 *)

\* assign_pid writes the PID again and then kills the holder; its error is ignored.
AssignPid ==
    /\ pc = "assign"
    /\ \/ scope = "up" /\ Alive /\ holder' = IF holder = "up" THEN "gone" ELSE holder
       \/ ~(scope = "up" /\ Alive) /\ UNCHANGED holder
    /\ Goto("files")
    /\ UNCHANGED <<opt, scope, net, sync, mapped, inCg, sock, child, tees, helper, ebpfVars>>

\* The child is marked as reaped; the output files, and the threads that fill them.
OpenFiles ==
    /\ pc = "files"
    /\ \/ Goto("start") /\ tees' = "up"
       \/ Return("err") /\ UNCHANGED tees
    /\ UNCHANGED <<opt, scope, holder, net, sync, mapped, inCg, sock, child, helper, ebpfVars>>

\* eBPF needs the programs; its consumer thread starts here.
Start ==
    /\ pc = "start"
    /\ \/ /\ opt.trace = "ebpf" /\ sock = "none"
          /\ Return("err") /\ UNCHANGED ebpfVars
       \/ /\ opt.trace = "ebpf" /\ sock # "none"
          /\ Goto("wait") /\ cons' = "start"
          /\ UNCHANGED <<target, attached, ring, own, other, missed, fired, errs, stop, trace, cut>>
       \/ opt.trace # "ebpf" /\ Goto("wait") /\ UNCHANGED ebpfVars
    /\ UNCHANGED <<opt, scope, holder, net, sync, mapped, inCg, sock, child, tees, helper>>

AfterWait == IF opt.trace = "ebpf" THEN "stop" ELSE "join"

\* Mutant: the loop looks at the signals only.
Overdue_SignalOnly == signalled /\ opt.trace # "ptrace"

Overdue == expired \/ (signalled /\ opt.trace # "ptrace")

\* waitpid; then the timeout and the signals, which the ptrace tracer does not see.
Wait ==
    /\ pc = "wait"
    /\ \/ Reap /\ pc' = AfterWait /\ res' = "ok"
       \/ /\ child \notin {"zombie", "reaped"}
          /\ Overdue
          /\ IF opt.trace = "ebpf" THEN Goto("grace") /\ UNCHANGED child
                                   ELSE Goto("killwait") /\ SIGKILL
       \/ /\ opt.trace = "ptrace"   \* the tracer fails
          /\ res' = "err" /\ pc' = "killwait" /\ SIGKILL
    /\ UNCHANGED <<opt, scope, holder, net, sync, mapped, inCg, sock, tees, helper, ebpfVars>>

\* graceful_kill_ebpf: SIGTERM, which init may ignore, and after 3 seconds SIGKILL.
Grace ==
    /\ pc = "grace"
    /\ \/ Reap /\ pc' = AfterWait /\ res' = "ok"
       \/ child \notin {"zombie", "reaped"} /\ Goto("killwait") /\ SIGKILL
    /\ UNCHANGED <<opt, scope, holder, net, sync, mapped, inCg, sock, tees, helper, ebpfVars>>

\* A run without a tracer that timed out is an error, an interrupted one is not.
KillWait ==
    /\ pc = "killwait" /\ Reap
    /\ pc' = AfterWait
    /\ res' = IF res # "none" THEN res
              ELSE IF opt.trace = "off" /\ ~signalled THEN "err" ELSE "ok"
    /\ UNCHANGED <<opt, scope, holder, net, sync, mapped, inCg, sock, tees, helper, ebpfVars>>

StopConsumer ==
    /\ pc = "stop"
    /\ stop' = TRUE
    /\ Goto("consumer")
    /\ UNCHANGED <<opt, scope, holder, net, sync, mapped, inCg, sock, child, tees, helper>>
    /\ UNCHANGED <<target, attached, ring, own, other, missed, fired, cons, errs, trace, cut>>

\* A consumer that failed ends the run here, with the tee threads not joined.
JoinConsumer ==
    /\ pc = "consumer"
    /\ \/ cons = "ok" /\ Goto("unload") /\ sock' = "unload"
       \/ cons = "err" /\ Return("err") /\ UNCHANGED sock
    /\ UNCHANGED <<opt, scope, holder, net, sync, mapped, inCg, child, tees, helper, ebpfVars>>

\* unload_bpf: the answer, or 30 seconds of nothing; its result is ignored.
Unload ==
    /\ pc = "unload"
    /\ Goto("join")
    /\ UNCHANGED <<opt, scope, holder, net, sync, mapped, inCg, sock, child, tees, helper, ebpfVars>>

\* The tee threads are joined; build_result, which an error does not reach, takes
\* the allowlist down.
Join ==
    /\ pc = "join" /\ tees = "done"
    /\ Return(res)
    /\ net' = IF res = "ok" /\ net = "on" THEN "removed" ELSE net
    /\ UNCHANGED <<opt, scope, holder, sync, mapped, inCg, sock, child, tees, helper, ebpfVars>>

\* What goes out of scope: the BPF session and the cgroup scope, which systemd
\* stops together with all that is in it, and oaie-priv removes only when empty.
Drop ==
    /\ pc = "drop"
    /\ Goto("done")
    /\ sock' = IF sock = "none" THEN sock ELSE "closed"
    /\ holder' = IF scope = "up" /\ holder = "up" THEN "gone" ELSE holder
    /\ child' = IF scope = "up" /\ opt.cg = "systemd" /\ inCg /\ Alive THEN "dying" ELSE child
    /\ scope' = IF scope # "up" THEN scope
                ELSE IF opt.cg = "priv" /\ inCg /\ child \notin {"zombie", "reaped"} THEN "left"
                ELSE "removed"
    /\ UNCHANGED <<opt, net, sync, mapped, inCg, tees, helper, ebpfVars>>

\* The supervisor is killed.  The kernel closes what it had open and, when the
\* child is traced, kills the child.
Crash ==
    /\ pc \notin {"done", "crashed"}
    /\ Goto("crashed")
    /\ sock' = IF sock = "none" THEN sock ELSE "closed"
    /\ sync' = IF sync = "open" THEN "closed" ELSE sync
    /\ IF opt.trace = "ptrace" /\ child = "running" THEN SIGKILL ELSE UNCHANGED child
    /\ UNCHANGED <<opt, scope, holder, net, mapped, inCg, tees, helper, ebpfVars>>

Setup == \/ CreateScope \/ LoadBpf \/ BpfAnswer \/ Clone \/ WriteMaps \/ HookCgroup
         \/ HookNetwork \/ Release \/ Abort \/ Aborted \/ AssignPid \/ OpenFiles \/ Start
Finish == \/ Wait \/ Grace \/ KillWait \/ StopConsumer \/ JoinConsumer \/ Unload
          \/ Join \/ Drop
Supervisor == (Setup \/ Finish) /\ UNCHANGED <<over, expired, signalled>>

-----------------------------------------------------------------------------
(* The child.                                                              *)

\* Mutant: the result of the read is not looked at.
ReadSync_IgnoresEof ==
    /\ child = "blocked" /\ sync \in {"byte", "closed"}
    /\ child' = "setup"
    /\ UNCHANGED ebpfVars

\* The byte lets it go on, the end of the pipe makes it exit.
ReadSync ==
    /\ child = "blocked"
    /\ \/ sync = "byte" /\ child' = "setup"
       \/ sync = "closed" /\ child' = "zombie"
    /\ UNCHANGED ebpfVars

\* The mounts, limits and filters; a traced child then waits for its tracer.
SetupSandbox ==
    /\ child = "setup"
    /\ child' \in {"zombie", IF opt.trace = "ptrace" THEN "stopped" ELSE "exec"}
    /\ UNCHANGED ebpfVars

\* The tracer lets it go on; without one it stays stopped.
Resumed == child = "stopped" /\ pc = "wait" /\ child' = "exec" /\ UNCHANGED ebpfVars

\* execve, what the command does after it, and what others do meanwhile.
ExecHappening == [kind |-> "exec", a |-> 1, b |-> 0]
Act ==
    \E mine \in BOOLEAN, h \in Happenings \cup {ExecHappening} :
        /\ mine => own < MaxOwn /\ child = (IF h = ExecHappening THEN "exec" ELSE "running")
        /\ ~mine => other < MaxOther
        /\ own' = IF mine THEN own + 1 ELSE own
        /\ other' = IF mine THEN other ELSE other + 1
        /\ child' = IF mine THEN "running" ELSE child
        /\ Hit(IF mine /\ inCg THEN "run" ELSE "other", h)

\* Someone kills it before it has begun.
KilledEarly == child \in {"blocked", "stopped"} /\ child' = "dying" /\ UNCHANGED ebpfVars

\* A task leaves the kernel, and dies, only when its program has run to its end.
Exit == child = "running" /\ InFlight("run") = {} /\ child' = "zombie" /\ UNCHANGED ebpfVars
Die == child = "dying" /\ InFlight("run") = {} /\ child' = "zombie" /\ UNCHANGED ebpfVars

Child ==
    /\ ReadSync \/ SetupSandbox \/ Resumed \/ Act \/ KilledEarly \/ Exit \/ Die
    /\ UNCHANGED <<supVars, tees, helper, over, expired, signalled>>

-----------------------------------------------------------------------------
(* The helper, the threads and the environment.                            *)

\* handle_load_bpf: only a cgroup of its own making is let through.
LoadObject ==
    /\ helper = "load"
    /\ helper' \in IF opt.cg = "priv" THEN {"filter", "closed"} ELSE {"closed"}
    /\ UNCHANGED <<target, attached, over>>

SetTarget ==
    /\ helper = "filter"
    /\ helper' = "attach" /\ target' = "run"
    /\ UNCHANGED <<attached, over>>

AttachAll ==
    /\ helper = "attach"
    /\ \/ helper' = "serve" /\ attached' = TRUE
       \/ helper' = "closed" /\ UNCHANGED attached
    /\ UNCHANGED <<target, over>>

\* Until the client unloads or hangs up, or for 60 seconds.
Serve ==
    /\ helper = "serve"
    /\ helper' = "closed" /\ attached' = FALSE
    /\ over' = (sock = "open")
    /\ UNCHANGED target

Helper ==
    /\ LoadObject \/ SetTarget \/ AttachAll \/ Serve
    /\ UNCHANGED <<supVars, child, tees, expired, signalled>>
    /\ UNCHANGED <<ring, own, other, missed, fired, cons, errs, stop, trace, cut>>

\* The end of the output pipes.
TeesEnd ==
    /\ tees = "up" /\ child \in {"zombie", "reaped"}
    /\ tees' = "done"
    /\ UNCHANGED <<supVars, child, helper, over, expired, signalled, ebpfVars>>

Poll ==
    /\ pc # "crashed" /\ Consumer
    /\ UNCHANGED <<supVars, child, tees, helper, over, expired, signalled>>

Kernel ==
    /\ Submit
    /\ UNCHANGED <<supVars, child, tees, helper, over, expired, signalled>>

Expire ==
    /\ pc = "wait" /\ ~expired
    /\ expired' = TRUE
    /\ UNCHANGED <<supVars, child, tees, helper, over, signalled, ebpfVars>>

Interrupt ==
    /\ pc = "wait" /\ ~signalled
    /\ signalled' = TRUE
    /\ UNCHANGED <<supVars, child, tees, helper, over, expired, ebpfVars>>

Down ==
    /\ Crash /\ UNCHANGED <<over, expired, signalled>>

Next == \/ Supervisor \/ Down \/ Child \/ Helper \/ TeesEnd \/ Poll \/ Kernel
        \/ Expire \/ Interrupt

\* Everyone's own steps get done, the timeout passes and the helper's deadline
\* too; the command need not end and no poll need fail.
Fairness ==
    /\ WF_vars(Supervisor)
    /\ WF_vars(Child /\ child # "running" /\ child' # child)
    /\ WF_vars(Helper) /\ WF_vars(TeesEnd) /\ WF_vars(Poll) /\ WF_vars(Kernel)
    /\ WF_vars(Expire)

Spec == Init /\ [][Next]_vars /\ Fairness

-----------------------------------------------------------------------------
(* Properties.                                                             *)

\* spawn_sandboxed: the command starts only with its maps written, in its scope,
\* behind its allowlist and under programs that look at this scope alone, even
\* when the supervisor dies half way.
ReadyToExec ==
    own > 0 => /\ mapped
               /\ scope # "none" => inCg
               /\ opt.net => net # "none"
               /\ sock # "none" => target = "run" /\ helper \in {"serve", "closed"}

\* CgroupScope: while the scope waits for the child, and while the child lives,
\* there is a process in it that keeps systemd from collecting it.
ScopePopulated ==
    scope = "up" /\ opt.cg = "systemd" /\ (child = "none" \/ Alive)
        => holder = "up" \/ inCg

\* execute_namespace returns Ok only when the child is reaped, the output is
\* copied, the trace is complete for its reader and the allowlist is gone.
OkIsClean ==
    pc = "done" /\ res = "ok" =>
        /\ child = "reaped" /\ tees = "done" /\ cons \in {"none", "ok"}
        /\ net # "on" /\ scope # "left"
        /\ holder = "up" => scope = "none"

\* It returns an error with the child reaped or never made, but for two returns:
\* when an output file cannot be created, and when eBPF finds no scope.
ErrIsClean ==
    pc = "done" /\ res = "err" /\ child \notin {"none", "reaped"} =>
        sync = "byte" /\ (tees = "none" \/ (opt.trace = "ebpf" /\ sock = "none"))

\* Whatever execute_namespace returns, what it leaves behind is accounted for.
ReturnsClean == OkIsClean /\ ErrIsClean

\* load_and_attach: no record is of a task outside the target cgroup.
OwnRecords == \A i \in DOMAIN ring : ring[i].whose = "run"

\* What a happening is to the reader of the trace.
Meaning(h) ==
    CASE h.kind = "exec" -> [type |-> "ProcessExec", detail |-> <<h.a>>]
      [] h.kind = "open" -> [type |-> "FileOpen", detail |-> <<h.a, h.b, -1>>]
      [] h.kind = "connect" -> [type |-> "NetConnect",
            detail |-> IF h.b > 0 THEN <<h.a, IF Readable(h.a, h.b) THEN 1 ELSE 0, -1>>
                       ELSE <<0, 0, -1>>]
      [] h.kind = "exit" -> [type |-> "ProcessExit",   \* WEXITSTATUS and WTERMSIG
            detail |-> IF h.a < 256 THEN <<0, h.a % 128>> ELSE <<h.a \div 256, 0>>]

\* The ring buffer and its reader: every reserved record is read once, in the order
\* of reservation, whatever the order of submission, and is an event that says what
\* happened or a drop that is counted.
RecordsInOrder ==
    /\ Len(trace) + Len(ring) = Len(fired)
    /\ \A i \in DOMAIN trace : trace[i] \in {Dropped, Meaning(fired[i])}
    /\ \A i \in DOMAIN ring : ring[i].what = fired[Len(trace) + i]

\* The programs, the ring buffer and convert_raw_event: the records are those of the
\* run, in order, and mean what happened.
RecordsFaithful == OwnRecords /\ RecordsInOrder

\* run_with_ebpf_tracing: stopping the reader after the child has been reaped loses
\* nothing: an Ok trace has all the tool did from its exec on, but for what found
\* the ring full, came after the helper's deadline, or was left by a failed last poll.
TraceComplete ==
    pc = "done" /\ res = "ok" /\ opt.trace = "ebpf" /\ ~over /\ ~cut =>
        ring = <<>> /\ Len(trace) + missed = own

\* execute_namespace ends, whether or not the command does.
ExecutionEnds == <>(pc \in {"done", "crashed"})
=============================================================================
