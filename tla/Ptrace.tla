-------------------------------- MODULE Ptrace --------------------------------
(***************************************************************************)
(* PtraceTracer::run (oaie-observe) over the tasks of one sandbox, and the *)
(* rules of the kernel that it lives by: which stop a task reports, which  *)
(* task a waitpid can still reap, and what becomes of a stop when the task *)
(* is killed in it.                                                        *)
(*                                                                         *)
(* A task is named by its tid; the root task is init of its PID namespace. *)
(* A system call is named by its number in the run, which also stands for  *)
(* its arguments.  open stands for every call whose arguments wait in a    *)
(* pending_ map between the entry stop and the exit stop (open, stat,      *)
(* connect, sendto).                                                       *)
(***************************************************************************)
EXTENDS Integers, FiniteSets, FiniteSetsExt

CONSTANTS
    Tids, Root,
    Programs,   \* the system calls a tool makes besides exit, for several tools
    MaxCalls,   \* bound: how many of them
    Faults      \* what else may happen, in any one run

ASSUME PtraceAssumption ==
    /\ Root \in Tids /\ IsFiniteSet(Tids) /\ Tids \subseteq Nat \ {0}
    /\ Programs \subseteq SUBSET {"open", "exec", "fork", "clone", "uring"}
    /\ MaxCalls \in Nat
    /\ Faults \subseteq {"kill", "deadline"}

None == 0
NoCall == [kind |-> "none", id |-> 0, ret |-> "none"]
NoState == [entry |-> TRUE, kind |-> "unknown"]   \* no entry in syscall_states

VARIABLES
    \* The kernel.
    st,        \* what each task is doing
    grp,       \* its thread-group leader
    call,      \* its system call, and the result once there is one
    msg,       \* what PTRACE_GETEVENTMSG says at its event stop
    status,    \* the exit status of a task that is going
    did,       \* the calls that have been carried out
    program, calls,   \* the tool, and how many calls it has made
    fault,     \* kill: a SIGKILL from outside (the OOM killer, an operator);
               \* deadline: the timeout passes, and one event is not written
    \* The tracer.
    tpc, todo, cur, what,   \* the sweep, the stop in hand
    traced,    \* traced_pids
    ss,        \* syscall_states
    pend,      \* pending_opens and its like
    pexec,     \* pending_execs
    log,       \* the events written
    drops,     \* dropped_events
    code,      \* last_exit_code
    expired,   \* the deadline has passed
    \* What the properties speak of.
    crowd,     \* the deadline came while the namespace held other tasks
    taken      \* the two tids of a thread that became its leader in execve

kernelVars == <<st, grp, call, msg, status, did, program, calls, fault>>
tracerVars == <<tpc, todo, cur, what, traced, ss, pend, pexec, log, drops, code>>
vars == <<kernelVars, tracerVars, expired, crowd, taken>>

Stops == {"new", "entry", "exit", "fork", "exec"}
Live == Stops \cup {"run", "insys", "leaving", "dethread"}

\* The child is stopped after traceme, or has died before.
Init ==
    /\ \/ /\ st = [t \in Tids |-> IF t = Root THEN "new" ELSE "none"]
          /\ status = [t \in Tids |-> 0]
       \/ /\ st = [t \in Tids |-> IF t = Root THEN "zombie" ELSE "none"]
          /\ status = [t \in Tids |-> IF t = Root THEN 127 ELSE 0]
    /\ grp = [t \in Tids |-> t]
    /\ call = [t \in Tids |-> NoCall]
    /\ msg = [t \in Tids |-> None]
    /\ did = {} /\ program \in Programs /\ calls = 0 /\ fault \in Faults
    /\ tpc = "attach" /\ todo = {} /\ cur = None /\ what = "none"
    /\ traced = {Root}
    /\ ss = [t \in Tids |-> NoState]
    /\ pend = [t \in Tids |-> None] /\ pexec = pend
    /\ log = {} /\ drops = 0 /\ code = 0
    /\ expired = FALSE /\ crowd = FALSE /\ taken = {}

Group(t) == {u \in Tids : grp[u] = grp[t] /\ st[u] \notin {"none", "gone"}}
Others(t) == {u \in Tids \ {t} : st[u] \notin {"none", "gone"}}

-----------------------------------------------------------------------------
(* The tasks.                                                              *)

\* A task calls into the kernel and stops at the entry.
Enter(t) ==
    /\ st[t] = "run"
    /\ \E k \in program \cup {"exit"} :
        /\ k # "exit" => calls < MaxCalls
        /\ calls' = IF k = "exit" THEN calls ELSE calls + 1
        /\ call' = [call EXCEPT ![t] = [kind |-> k, id |-> calls', ret |-> "none"]]
    /\ st' = [st EXCEPT ![t] = "entry"]
    /\ UNCHANGED <<grp, msg, status, did, program, fault>>

Event(type, t, id, ret) == [type |-> type, pid |-> t, id |-> id, ret |-> ret]
Open(t, ret) == Event("open", t, call[t].id, ret)

\* The call is over: the task stops at the exit.
Leave(t, ret) ==
    /\ call' = [call EXCEPT ![t].ret = ret]
    /\ st' = [st EXCEPT ![t] = "exit"]

\* When init goes, so does everyone in its namespace.
Doomed(S) ==
    IF Root \in S THEN {t \in Others(None) : \E u \in Group(t) : st[u] \in Live} ELSE S

Die(S, s) ==
    /\ st' = [t \in Tids |->
                IF t \in Doomed(S) /\ st[t] \in Live THEN "dying" ELSE st[t]]
    /\ status' = [t \in Tids |-> IF t \in S THEN s
                                 ELSE IF t \in Doomed(S) THEN 137
                                 ELSE status[t]]

\* A call fails; seccomp refuses io_uring_setup, but only after the entry stop.
Refuse(t) ==
    /\ st[t] = "insys" /\ call[t].kind # "exit"
    /\ Leave(t, "err")
    /\ did' = IF call[t].kind = "open" THEN did \cup {Open(t, "err")} ELSE did
    /\ UNCHANGED <<grp, msg, status>>

Opened(t) ==
    /\ st[t] = "insys" /\ call[t].kind = "open"
    /\ Leave(t, "ok")
    /\ did' = did \cup {Open(t, "ok")}
    /\ UNCHANGED <<grp, msg, status>>

\* fork makes a process and clone a thread.
Forked(t) ==
    /\ st[t] = "insys" /\ call[t].kind \in {"fork", "clone"}
    /\ \E n \in Tids :
        /\ st[n] = "none"
        /\ st' = [st EXCEPT ![t] = "fork", ![n] = "new"]
        /\ grp' = [grp EXCEPT ![n] = IF call[t].kind = "fork" THEN n ELSE grp[t]]
        /\ msg' = [msg EXCEPT ![t] = n]
    /\ UNCHANGED <<call, did, status>>

\* execve first puts an end to the other threads of the process.
Exec(t) ==
    /\ st[t] = "insys" /\ call[t].kind = "exec"
    /\ st' = [u \in Tids |-> IF u = t THEN "dethread"
                             ELSE IF u \in Group(t) /\ st[u] \in Live THEN "dying"
                             ELSE st[u]]
    /\ UNCHANGED <<grp, call, msg, did, status>>

\* de_thread: once only the leader is left the caller takes over its tid, and
\* the tid it had is gone without a trace.
Execed(t) ==
    /\ st[t] = "dethread"
    /\ LET l == grp[t] IN
       /\ Group(t) \subseteq {t, l}
       /\ st' = [st EXCEPT ![t] = "gone", ![l] = "exec"]
       /\ call' = [call EXCEPT ![l] = [call[t] EXCEPT !.ret = "ok"]]
       /\ msg' = [msg EXCEPT ![l] = t]
       /\ did' = did \cup {Event("exec", l, call[t].id, "ok")}
       /\ taken' = IF l = t THEN taken ELSE taken \cup {l, t}
    /\ UNCHANGED <<grp, status>>

\* After an event stop the call runs to its exit stop.
AfterEvent(t) ==
    /\ st[t] = "leaving"
    /\ Leave(t, "ok")
    /\ UNCHANGED <<grp, msg, did, status>>

\* A thread that is not the leader leaves alone, a leader with its process; 1 is
\* told apart from 137 (killed) and from the code the tracer starts with.
Exit(t) ==
    /\ st[t] = "insys" /\ call[t].kind = "exit"
    /\ Die(IF t = grp[t] THEN Group(t) ELSE {t}, 1)
    /\ UNCHANGED <<grp, call, msg, did>>

\* A dead task can be reaped: a leader only after its threads, and init only
\* after everyone else.
Zombie(t) ==
    /\ st[t] = "dying"
    /\ t = grp[t] => Group(t) = {t}
    /\ t = Root => Others(t) = {}
    /\ st' = [st EXCEPT ![t] = "zombie"]
    /\ UNCHANGED <<grp, call, msg, did, status>>

Work(t) ==
    /\ \/ /\ \/ Refuse(t) \/ Opened(t) \/ Forked(t) \/ Exec(t)
             \/ AfterEvent(t) \/ Exit(t) \/ Zombie(t)
          /\ UNCHANGED taken
       \/ Execed(t)
    /\ UNCHANGED <<program, calls, fault>>

\* SIGKILL from outside: a stop ends at once, and reports nothing any more.
Kill(t) ==
    /\ fault = "kill" /\ st[t] \in Live
    /\ fault' = "killed"
    /\ Die(Group(t), 137)
    /\ UNCHANGED <<grp, call, msg, did, program, calls, taken>>

Tasks ==
    /\ \E t \in Tids : (Enter(t) /\ UNCHANGED taken) \/ Work(t) \/ Kill(t)
    /\ UNCHANGED <<tracerVars, expired, crowd>>

Expire ==
    /\ fault = "deadline" /\ ~expired
    /\ expired' = TRUE
    /\ UNCHANGED <<kernelVars, tracerVars, crowd, taken>>

-----------------------------------------------------------------------------
(* The tracer.                                                             *)

Write(e) ==
    \/ log' = log \cup {e} /\ UNCHANGED drops
    \/ fault = "deadline" /\ drops = 0 /\ drops' = drops + 1 /\ UNCHANGED log

\* The first stop of the root; a root that is already dead is an error.
Attach ==
    /\ tpc = "attach"
    /\ \/ /\ st[Root] = "new"
          /\ st' = [st EXCEPT ![Root] = "run"]
          /\ tpc' = "sweep" /\ todo' = traced
       \/ /\ st[Root] = "zombie"
          /\ st' = [st EXCEPT ![Root] = "gone"]
          /\ tpc' = "failed" /\ UNCHANGED todo
    /\ UNCHANGED <<cur, what, traced, ss, pend, pexec, log, drops, code, crowd>>
    /\ UNCHANGED <<grp, call, msg, status, did>>

\* Mutant: only a normal exit sets last_exit_code.
HandleExit_NotSignaled(t, c) ==
    /\ Write(Event("exit", t, c, "ok"))
    /\ ss' = [ss EXCEPT ![t] = NoState]
    /\ pend' = [pend EXCEPT ![t] = None]
    /\ pexec' = [pexec EXCEPT ![t] = None]
    /\ code' = IF t = Root /\ c < 128 THEN c ELSE code

\* handle_exit
HandleExit(t, c) ==
    /\ Write(Event("exit", t, c, "ok"))
    /\ ss' = [ss EXCEPT ![t] = NoState]
    /\ pend' = [pend EXCEPT ![t] = None]
    /\ pexec' = [pexec EXCEPT ![t] = None]
    /\ code' = IF t = Root THEN c ELSE code

\* Mutant: ECHILD is taken for StillAlive.
Echild_Alive(t) == UNCHANGED traced

\* No such task: execve has taken its tid away.
Echild(t) == traced' = traced \ {t}

\* waitpid(t, __WALL | WNOHANG), in the order of the hash set.
Wait(t) ==
    /\ tpc = "sweep" /\ t \in todo
    /\ \/ /\ st[t] \in Stops
          /\ tpc' = "handle" /\ cur' = t /\ what' = st[t]
          /\ UNCHANGED <<st, todo, traced, ss, pend, pexec, log, drops, code>>
       \/ /\ st[t] = "zombie"
          /\ HandleExit(t, status[t])
          /\ st' = [st EXCEPT ![t] = "gone"]
          /\ traced' = traced \ {t}
          /\ todo' = todo \ {t}
          /\ UNCHANGED <<tpc, cur, what>>
       \/ /\ st[t] = "gone"
          /\ Echild(t)
          /\ todo' = todo \ {t}
          /\ UNCHANGED <<st, tpc, cur, what, ss, pend, pexec, log, drops, code>>
       \/ /\ st[t] \in (Live \ Stops) \cup {"dying"}
          /\ todo' = todo \ {t}
          /\ UNCHANGED <<st, tpc, cur, what, traced, ss, pend, pexec, log, drops, code>>
    /\ UNCHANGED <<grp, call, msg, status, did, crowd>>

\* What the return register holds: -ENOSYS until the call is over.
Ret(t) == IF what = "exit" THEN call[t].ret ELSE "enosys"

\* Mutant: an exec is written at its entry, before it is known to succeed.
SyscallEntry_ExecAtEntry(t) ==
    LET k == call[t].kind  n == call[t].id IN
    /\ ss[t].entry
    /\ ss' = [ss EXCEPT ![t] = [entry |-> FALSE, kind |-> k]]
    /\ pend' = IF k = "open" THEN [pend EXCEPT ![t] = n] ELSE pend
    /\ pexec' = IF k = "exec" THEN [pexec EXCEPT ![t] = n] ELSE pexec
    /\ IF k = "uring"
         THEN Die(Group(t), 137) /\ Write(Event("uring", t, n, "none"))
         ELSE /\ IF k = "exec" THEN Write(Event("exec", t, n, "ok"))
                               ELSE UNCHANGED <<log, drops>>
              /\ UNCHANGED <<st, status>>

\* handle_syscall where the entry is expected.
SyscallEntry(t) ==
    LET k == call[t].kind  n == call[t].id IN
    /\ ss[t].entry
    /\ ss' = [ss EXCEPT ![t] = [entry |-> FALSE, kind |-> k]]
    /\ pend' = IF k = "open" THEN [pend EXCEPT ![t] = n] ELSE pend
    /\ pexec' = IF k = "exec" THEN [pexec EXCEPT ![t] = n] ELSE pexec
    /\ IF k = "uring"
         THEN Die(Group(t), 137) /\ Write(Event("uring", t, n, "none"))
         ELSE UNCHANGED <<st, status, log, drops>>

\* handle_syscall where the exit is expected.
SyscallExit(t) ==
    /\ ~ss[t].entry
    /\ ss' = [ss EXCEPT ![t].entry = TRUE]
    /\ IF ss[t].kind = "open" /\ pend[t] # None
         THEN /\ Write(Event("open", t, pend[t], Ret(t)))
              /\ pend' = [pend EXCEPT ![t] = None]
         ELSE UNCHANGED <<log, drops, pend>>
    /\ UNCHANGED <<pexec, st, status>>

\* handle_ptrace_event, PTRACE_EVENT_FORK, VFORK and CLONE.
ForkEvent(t) ==
    /\ traced' = traced \cup {msg[t]}
    /\ ss' = [ss EXCEPT ![msg[t]] = NoState]
    /\ UNCHANGED <<pend, pexec, log, drops>>

\* handle_ptrace_event, PTRACE_EVENT_EXEC; GETEVENTMSG fails on a killed task.
ExecKey(t) ==
    IF pexec[t] # None THEN t
    ELSE IF st[t] = "exec" THEN msg[t] ELSE t

ExecEvent(t) ==
    LET k == ExecKey(t) IN
    /\ IF pexec[k] # None
         THEN /\ Write(Event("exec", t, pexec[k], "ok"))
              /\ pexec' = [pexec EXCEPT ![k] = None]
         ELSE UNCHANGED <<pexec, log, drops>>
    /\ UNCHANGED <<traced, ss, pend>>

\* The stop in hand; nothing can be read from a task killed since.  The SIGSTOP of
\* a new task is passed on to it and comes back as a group-stop: both are "new".
Handle ==
    /\ tpc = "handle"
    /\ tpc' = "resume"
    /\ \/ /\ what \in {"entry", "exit"} /\ st[cur] = what
          /\ SyscallEntry(cur) \/ SyscallExit(cur)
          /\ UNCHANGED traced
       \/ /\ what = "fork" /\ st[cur] = what
          /\ ForkEvent(cur) /\ UNCHANGED <<st, status>>
       \/ what = "exec" /\ ExecEvent(cur) /\ UNCHANGED <<st, status>>
       \/ /\ what = "new" \/ (what # "exec" /\ st[cur] # what)
          /\ UNCHANGED <<st, status, traced, ss, pend, pexec, log, drops>>
    /\ UNCHANGED <<grp, call, msg, did, todo, cur, what, code, crowd>>

Resumed(s) ==
    CASE s \in {"new", "exit"} -> "run"
      [] s = "entry" -> "insys"
      [] s \in {"fork", "exec"} -> "leaving"

\* ptrace::syscall; ESRCH takes the task off the list.
Resume ==
    /\ tpc = "resume"
    /\ tpc' = "sweep" /\ todo' = todo \ {cur} /\ cur' = None /\ what' = "none"
    /\ \/ /\ st[cur] = what
          /\ st' = [st EXCEPT ![cur] = Resumed(what)]
          /\ msg' = [msg EXCEPT ![cur] = None]
          /\ UNCHANGED traced
       \/ /\ st[cur] # what
          /\ traced' = traced \ {cur}
          /\ UNCHANGED <<st, msg>>
    /\ UNCHANGED <<grp, call, did, status, ss, pend, pexec, log, drops, code, crowd>>

\* The end of a sweep: done, the deadline, or another sweep.
SweepEnd ==
    /\ tpc = "sweep" /\ todo = {}
    /\ \/ /\ traced = {}
          /\ tpc' = "done"
          /\ UNCHANGED <<st, status, todo, crowd>>
       \/ /\ traced # {} /\ expired
          /\ Die(UNION {Group(t) : t \in traced}, 137)
          /\ crowd' = (Others(Root) # {})
          /\ tpc' = "reap" /\ todo' = traced
       \/ /\ traced # {} /\ ~expired
          /\ todo' = traced
          /\ UNCHANGED <<st, status, tpc, crowd>>
    /\ UNCHANGED <<grp, call, msg, did, cur, what, traced, ss, pend, pexec, log, drops, code>>

\* Mutant: the tasks killed at the deadline are reaped without an event.
Reaped_Silent(t) ==
    /\ code' = IF t = Root THEN status[t] ELSE code
    /\ UNCHANGED <<ss, pend, pexec, log, drops>>

Reaped(t) == HandleExit(t, IF st[t] = "zombie" THEN status[t] ELSE -1)

\* After the deadline: waitpid(t, None) blocks until t can be reaped.
Reap ==
    /\ tpc = "reap"
    /\ \/ /\ cur = None /\ todo # {}
          /\ cur' \in todo
          /\ UNCHANGED <<st, todo, tpc, traced, ss, pend, pexec, log, drops, code>>
       \/ /\ cur # None /\ st[cur] \in {"zombie", "gone"}
          /\ Reaped(cur)
          /\ st' = [st EXCEPT ![cur] = "gone"]
          /\ todo' = todo \ {cur} /\ cur' = None
          /\ UNCHANGED <<tpc, traced>>
       \/ /\ cur = None /\ todo = {}
          /\ traced' = {} /\ tpc' = "done"
          /\ UNCHANGED <<st, todo, cur, ss, pend, pexec, log, drops, code>>
    /\ UNCHANGED <<grp, call, msg, did, status, what, crowd>>

Run ==
    /\ Attach \/ (\E t \in Tids : Wait(t)) \/ Handle \/ Resume \/ SweepEnd \/ Reap
    /\ UNCHANGED <<program, calls, fault, expired, taken>>

Next == Tasks \/ Expire \/ Run

\* The loop never sleeps for good, the kernel finishes what it has begun, and
\* the tool's tasks end by themselves.
Fairness ==
    /\ WF_vars(Run)
    /\ \A t \in Tids :
        /\ WF_vars(Enter(t) /\ UNCHANGED <<taken, tracerVars, expired, crowd>>)
        /\ WF_vars(Work(t) /\ UNCHANGED <<tracerVars, expired, crowd>>)

Spec == Init /\ [][Next]_vars /\ Fairness

-----------------------------------------------------------------------------
(* Properties.                                                             *)

Ended == tpc \in {"done", "failed"}

\* Tasks that are still there and that the tracer will never wait for again.
Orphans ==
    {t \in Tids : /\ st[t] \notin {"none", "gone"}
                  /\ t \notin traced
                  /\ ~ \E p \in Tids : st[p] = "fork" /\ msg[p] = t}

\* An open or an exec in the trace is one that happened, to that task and with
\* that result: neither a failed execve nor the pending entry of another call
\* is ever written.  A process whose leader was replaced in execve is exempt.
EventsTrue ==
    \A e \in log : e.type \in {"open", "exec"} /\ e.pid \notin taken => e \in did

\* When run returns Ok, the trace has every call that was carried out and every
\* exit, but for the call a task was killed in and the events dropped_events counts.
InHand(d) == call[d.pid].kind # "exit" /\ call[d.pid].id = d.id
Due ==
    {d \in did : ~InHand(d) /\ d.pid \notin taken}
        \cup {Event("exit", t, status[t], "ok") : t \in {u \in Tids \ taken : st[u] = "gone"}}
EventsLogged == tpc = "done" => Cardinality(Due \ log) <= drops

\* "Returns the root process's exit code" (the doc of PtraceTracer): run returns
\* Ok only with the root reaped, and with its code.
ReturnsRootCode == tpc = "done" => st[Root] = "gone" /\ code = status[Root]

\* The same for a root that nothing kills inside a stop: no SIGKILL from outside,
\* no io_uring_setup, no thread of its own that calls exit or execve.
RootCode ==
    \/ ReturnsRootCode
    \/ fault = "killed"
    \/ "uring" \in program
    \/ \E t \in Tids \ {Root} : grp[t] = Root

\* run ends, unless a task has slipped off the list or the deadline found other
\* tasks next to the root.
TracerReturns == <>(Ended \/ Orphans # {} \/ crowd)

\* "Deadline after which the tracer kills all traced processes and returns" (the
\* doc of the deadline field).
DeadlineReturns == expired ~> Ended
=============================================================================
