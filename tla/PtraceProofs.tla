----------------------------- MODULE PtraceProofs -----------------------------
(***************************************************************************)
(* Proofs about Ptrace, for any number of tasks and calls: the toggle of   *)
(* syscall_states is in step with every task that is not replaced in       *)
(* execve, so what is written is what happened and nothing that happened   *)
(* is left out but what dropped_events counts; and run returns the root's  *)
(* exit code.                                                              *)
(***************************************************************************)
EXTENDS Ptrace, TLAPS

Kinds == {"none", "unknown", "open", "exec", "fork", "clone", "uring", "exit"}
States == Live \cup {"none", "dying", "zombie", "gone"}
Calls == [kind : Kinds, id : Nat, ret : {"none", "ok", "err"}]
SysStates == [entry : BOOLEAN, kind : Kinds]

InHandOf(t) == tpc \in {"handle", "resume"} /\ cur = t

\* The stop of t has been handled, and t is to be resumed.
Handled(t) == tpc = "resume" /\ cur = t

KernelTypes ==
    /\ st \in [Tids -> States] /\ grp \in [Tids -> Tids]
    /\ call \in [Tids -> Calls]
    /\ msg \in [Tids -> Tids \cup {None}] /\ status \in [Tids -> Int]
    /\ calls \in Nat /\ taken \subseteq Tids
    /\ program \subseteq {"open", "exec", "fork", "clone", "uring"}
    /\ \A t \in Tids : /\ call[t].kind \in program \cup {"exit", "none"}
                       /\ call[t].id <= calls
                       /\ call[t].kind \notin {"none", "exit"} => call[t].id > 0
TracerTypes ==
    /\ ss \in [Tids -> SysStates]
    /\ pend \in [Tids -> Nat] /\ pexec \in [Tids -> Nat]
    /\ traced \subseteq Tids /\ todo \subseteq traced
    /\ tpc \in {"attach", "sweep", "handle", "resume", "reap", "done", "failed"}
    /\ tpc \in {"handle", "resume"} => cur \in traced /\ what \in Stops
    /\ tpc = "reap" => cur \in todo \cup {None}
    /\ tpc \in {"attach", "sweep", "done", "failed"} => cur = None
    /\ tpc = "attach" => traced = {Root} /\ todo = {}

LEMMA Constants ==
    /\ Root \in Tids /\ IsFiniteSet(Tids) /\ None \notin Tids /\ Tids \subseteq Nat
    /\ \A p \in Programs : p \subseteq {"open", "exec", "fork", "clone", "uring"}
BY PtraceAssumption DEF None

-----------------------------------------------------------------------------
(* What the steps of the kernel do to a task.                              *)

KernelStep(t) == (Enter(t) /\ UNCHANGED taken) \/ Work(t) \/ Kill(t)

\* t goes on as it was, or dies.
Calm(t) ==
    /\ call'[t] = call[t] /\ msg'[t] = msg[t]
    /\ \/ st'[t] = st[t]
       \/ st'[t] \in {"dying", "zombie"} /\ st[t] \in Live \cup {"dying"}

LEMMA GroupFacts ==
    ASSUME KernelTypes, NEW t \in Tids
    PROVE  /\ Group(t) \subseteq Tids
           /\ \A u \in Group(t) : grp[u] = grp[t] /\ st[u] \notin {"none", "gone"}
BY Zenon DEF Group

LEMMA DieFacts ==
    ASSUME KernelTypes, NEW S \in SUBSET Tids, NEW s \in Int, Die(S, s)
    PROVE  /\ st' \in [Tids -> States] /\ status' \in [Tids -> Int]
           /\ \A t \in Tids : st'[t] = st[t] \/ (st'[t] = "dying" /\ st[t] \in Live /\ t \in Doomed(S))
           /\ \A t \in Tids : st[t] = "gone" /\ t \notin S => status'[t] = status[t]
           /\ Root \notin S => Doomed(S) = S
<1>1. \A t \in Tids : st'[t] = IF t \in Doomed(S) /\ st[t] \in Live THEN "dying" ELSE st[t]
  BY Zenon DEF Die
<1>2. \A t \in Tids : status'[t] = IF t \in S THEN s ELSE IF t \in Doomed(S) THEN 137 ELSE status[t]
  BY Zenon DEF Die
<1>3. DOMAIN st' = Tids /\ DOMAIN status' = Tids
  BY Zenon DEF Die
<1>4. \A t \in Tids : st'[t] \in States
  BY <1>1, Zenon DEF KernelTypes, States
<1>5. \A t \in Tids : st[t] = "gone" /\ t \notin S => t \notin Doomed(S)
  BY Zenon DEF Doomed, Others
<1>6. 137 \in Int /\ \A t \in Tids : status[t] \in Int
  BY DEF KernelTypes
<1>7. \A t \in Tids : status'[t] \in Int
  BY <1>2, <1>6, Zenon
<1>8. st' = [t \in Tids |-> st'[t]] /\ status' = [t \in Tids |-> status'[t]]
  BY <1>3, Zenon DEF Die
<1> QED
  BY <1>1, <1>2, <1>4, <1>5, <1>7, <1>8, Zenon DEF Doomed

LEMMA LeaveFacts ==
    ASSUME KernelTypes, NEW t \in Tids, NEW r \in {"ok", "err"}, Leave(t, r)
    PROVE  /\ st' = [st EXCEPT ![t] = "exit"] /\ st' \in [Tids -> States]
           /\ call' \in [Tids -> Calls]
           /\ call'[t].kind = call[t].kind /\ call'[t].id = call[t].id /\ call'[t].ret = r
           /\ \A u \in Tids \ {t} : call'[u] = call[u] /\ st'[u] = st[u]
           /\ st'[t] = "exit"
BY DEF Leave, KernelTypes, Calls, States, Live, Stops

LEMMA EnterFacts ==
    ASSUME KernelTypes, NEW u \in Tids, Enter(u)
    PROVE  /\ st[u] = "run" /\ st' = [st EXCEPT ![u] = "entry"] /\ st'[u] = "entry"
           /\ call' \in [Tids -> Calls] /\ calls' \in Nat /\ calls <= calls'
           /\ call'[u].kind \in program \cup {"exit"} /\ call'[u].id = calls'
           /\ call'[u].kind # "exit" => calls' = calls + 1
           /\ \A t \in Tids \ {u} : call'[t] = call[t] /\ st'[t] = st[t]
           /\ UNCHANGED <<grp, msg, status, did, program, fault>>
<1>1. PICK k \in program \cup {"exit"} :
          /\ calls' = IF k = "exit" THEN calls ELSE calls + 1
          /\ call' = [call EXCEPT ![u] = [kind |-> k, id |-> calls', ret |-> "none"]]
  BY Zenon DEF Enter
<1>2. calls' \in Nat /\ calls <= calls' /\ (k # "exit" => calls' = calls + 1)
  BY <1>1 DEF KernelTypes
<1>3. k \in Kinds
  BY DEF KernelTypes, Kinds
<1>4. [kind |-> k, id |-> calls', ret |-> "none"] \in Calls
  BY <1>2, <1>3 DEF Calls
<1> DEFINE c == [kind |-> k, id |-> calls', ret |-> "none"]
<1>5. c.kind = k /\ c.id = calls'
  OBVIOUS
<1> HIDE DEF c
<1>6. call' = [call EXCEPT ![u] = c]
  BY <1>1, Zenon DEF c
<1>7. call' \in [Tids -> Calls] /\ call'[u] = c /\ \A t \in Tids \ {u} : call'[t] = call[t]
  BY <1>4, <1>6, Zenon DEF KernelTypes, c
<1>8. st[u] = "run" /\ st' = [st EXCEPT ![u] = "entry"] /\ UNCHANGED <<grp, msg, status, did, program, fault>>
  BY Zenon DEF Enter
<1>9. st'[u] = "entry" /\ \A t \in Tids \ {u} : st'[t] = st[t]
  BY <1>8, Zenon DEF KernelTypes
<1> QED
  BY <1>2, <1>5, <1>7, <1>8, <1>9, Zenon

\* u makes the task n.
Makes(u, n) ==
    /\ st[u] = "insys" /\ st'[u] = "fork" /\ st[n] = "none" /\ st'[n] = "new"
    /\ call[u].kind \in {"fork", "clone"}
    /\ msg'[u] = n /\ msg'[n] = msg[n]
    /\ st' \in [Tids -> States] /\ grp' \in [Tids -> Tids] /\ msg' \in [Tids -> Tids \cup {None}]
    /\ \A t \in Tids \ {u, n} : st'[t] = st[t] /\ msg'[t] = msg[t]
    /\ \A t \in Tids \ {n} : grp'[t] = grp[t]
    /\ UNCHANGED <<call, did, status>>

LEMMA ForkedFacts ==
    ASSUME KernelTypes, NEW u \in Tids, Forked(u)
    PROVE  \E n \in Tids \ {u} : Makes(u, n)
<1>1. PICK n \in Tids : /\ st[n] = "none" /\ st' = [st EXCEPT ![u] = "fork", ![n] = "new"]
                        /\ grp' = [grp EXCEPT ![n] = IF call[u].kind = "fork" THEN n ELSE grp[u]]
                        /\ msg' = [msg EXCEPT ![u] = n]
  BY Zenon DEF Forked
<1>2. st[u] = "insys" /\ call[u].kind \in {"fork", "clone"} /\ UNCHANGED <<call, did, status>> /\ n # u
  BY <1>1, Zenon DEF Forked
<1>3. st'[u] = "fork" /\ st'[n] = "new" /\ st' \in [Tids -> States] /\ \A t \in Tids \ {u, n} : st'[t] = st[t]
  BY <1>1, <1>2 DEF KernelTypes, States, Live, Stops
<1>4. grp' \in [Tids -> Tids] /\ msg' \in [Tids -> Tids \cup {None}] /\ msg'[u] = n
  BY <1>1 DEF KernelTypes
<1>5. (\A t \in Tids \ {n} : grp'[t] = grp[t]) /\ (\A t \in Tids \ {u} : msg'[t] = msg[t])
  BY <1>1 DEF KernelTypes
<1>6. n \in Tids \ {u} /\ st[n] = "none" /\ msg'[n] = msg[n] /\ \A t \in Tids \ {u, n} : msg'[t] = msg[t]
  BY <1>1, <1>2, <1>5, Zenon
<1>7. Makes(u, n)
  BY <1>2, <1>3, <1>4, <1>5, <1>6, Zenon DEF Makes
<1> QED
  BY <1>6, <1>7, Zenon

LEMMA ExecFacts ==
    ASSUME KernelTypes, NEW u \in Tids, Exec(u)
    PROVE  /\ st[u] = "insys" /\ call[u].kind = "exec" /\ st'[u] = "dethread" /\ st' \in [Tids -> States]
           /\ \A t \in Tids \ {u} :
                st'[t] = st[t] \/ (st'[t] = "dying" /\ st[t] \in Live /\ grp[t] = grp[u])
           /\ UNCHANGED <<grp, call, msg, did, status>>
<1>1. /\ st[u] = "insys" /\ call[u].kind = "exec" /\ UNCHANGED <<grp, call, msg, did, status>>
      /\ st' = [t \in Tids |-> IF t = u THEN "dethread"
                               ELSE IF t \in Group(u) /\ st[t] \in Live THEN "dying" ELSE st[t]]
  BY Zenon DEF Exec
<1>2. \A t \in Tids : st[t] \in States
  BY Zenon DEF KernelTypes
<1>3. \A t \in Group(u) : grp[t] = grp[u]
  BY GroupFacts, Zenon
<1>4. "dethread" \in States /\ "dying" \in States
  BY DEF States, Live
<1>5. st' \in [Tids -> States]
  BY <1>1, <1>2, <1>4, Zenon
<1> QED
  BY <1>1, <1>3, <1>5, Zenon

LEMMA ExecedFacts ==
    ASSUME KernelTypes, NEW u \in Tids, Execed(u)
    PROVE  LET l == grp[u] IN
           /\ l \in Tids /\ st[u] = "dethread" /\ st'[l] = "exec" /\ (l # u => st'[u] = "gone")
           /\ st' \in [Tids -> States] /\ call' \in [Tids -> Calls] /\ msg' \in [Tids -> Tids \cup {None}]
           /\ call'[l].kind = call[u].kind /\ call'[l].id = call[u].id
           /\ did' = did \cup {Event("exec", l, call[u].id, "ok")} /\ msg'[l] = u
           /\ taken' = IF l = u THEN taken ELSE taken \cup {l, u}
           /\ \A t \in Tids \ {u, l} : st'[t] = st[t]
           /\ \A t \in Tids \ {l} : call'[t] = call[t] /\ msg'[t] = msg[t]
           /\ UNCHANGED <<grp, status>>
<1> DEFINE l == grp[u]
           c == [call[u] EXCEPT !.ret = "ok"]
<1>1. /\ l \in Tids /\ st[u] = "dethread" /\ st' = [st EXCEPT ![u] = "gone", ![l] = "exec"]
      /\ call' = [call EXCEPT ![l] = c] /\ msg' = [msg EXCEPT ![l] = u]
      /\ did' = did \cup {Event("exec", l, call[u].id, "ok")}
      /\ taken' = IF l = u THEN taken ELSE taken \cup {l, u}
      /\ UNCHANGED <<grp, status>>
  BY Zenon DEF Execed, KernelTypes
<1>2. c \in Calls /\ c.kind = call[u].kind /\ c.id = call[u].id
  BY DEF KernelTypes, Calls
<1> HIDE DEF c, l
<1>3. /\ st'[l] = "exec" /\ (l # u => st'[u] = "gone") /\ st' \in [Tids -> States]
      /\ \A t \in Tids \ {u, l} : st'[t] = st[t]
  BY <1>1 DEF KernelTypes, States, Live, Stops
<1>4. call' \in [Tids -> Calls] /\ call'[l] = c /\ \A t \in Tids \ {l} : call'[t] = call[t]
  BY <1>1, <1>2, Zenon DEF KernelTypes
<1>5. msg' \in [Tids -> Tids \cup {None}] /\ msg'[l] = u /\ \A t \in Tids \ {l} : msg'[t] = msg[t]
  BY <1>1 DEF KernelTypes
<1> QED
  BY <1>1, <1>2, <1>3, <1>4, <1>5, Zenon DEF l

\* Exit, Zombie and Kill only put an end to tasks.
LEMMA EndFacts ==
    ASSUME KernelTypes, NEW u \in Tids, Exit(u) \/ Zombie(u) \/ Kill(u)
    PROVE  /\ st' \in [Tids -> States] /\ status' \in [Tids -> Int]
           /\ UNCHANGED <<grp, call, msg, did>>
           /\ \A t \in Tids : \/ st'[t] = st[t]
                              \/ st'[t] \in {"dying", "zombie"} /\ st[t] \in Live \cup {"dying"}
           /\ \A t \in Tids : st[t] = "gone" => status'[t] = status[t]
<1>1. CASE Exit(u)
  <2> DEFINE S == IF u = grp[u] THEN Group(u) ELSE {u}
  <2>1. Die(S, 1) /\ st[u] = "insys" /\ UNCHANGED <<grp, call, msg, did>>
    BY <1>1, Zenon DEF Exit
  <2>2. S \subseteq Tids /\ 1 \in Int
    BY GroupFacts
  <2>3. \A t \in S : st[t] # "gone"
    BY <2>1, GroupFacts, Zenon
  <2> HIDE DEF S
  <2> QED
    BY <2>1, <2>2, <2>3, DieFacts, Zenon
<1>2. CASE Zombie(u)
  <2>1. st' = [st EXCEPT ![u] = "zombie"] /\ st[u] = "dying" /\ UNCHANGED <<grp, call, msg, did, status>>
    BY <1>2, Zenon DEF Zombie
  <2>2. st' \in [Tids -> States] /\ st'[u] = "zombie" /\ \A t \in Tids \ {u} : st'[t] = st[t]
    BY <2>1 DEF KernelTypes, States
  <2> QED
    BY <2>1, <2>2, Zenon DEF KernelTypes
<1>3. CASE Kill(u)
  <2>1. Die(Group(u), 137) /\ UNCHANGED <<grp, call, msg, did>>
    BY <1>3, Zenon DEF Kill
  <2>2. Group(u) \subseteq Tids /\ 137 \in Int /\ \A t \in Group(u) : st[t] # "gone"
    BY GroupFacts
  <2> QED
    BY <2>1, <2>2, DieFacts, Zenon
<1> QED
  BY <1>1, <1>2, <1>3

TypeInv == KernelTypes /\ TracerTypes

CallOk(c, n, p) ==
    /\ c.kind \in p \cup {"exit", "none"} /\ c.id <= n
    /\ c.kind \notin {"none", "exit"} => c.id > 0

LEMMA KernelTypesStep ==
    ASSUME KernelTypes, NEW u \in Tids, KernelStep(u)
    PROVE  KernelTypes'
<1>0. calls \in Nat /\ \A t \in Tids : call[t].id \in Nat /\ CallOk(call[t], calls, program)
  BY DEF KernelTypes, Calls, CallOk
<1>1. CASE Enter(u) /\ UNCHANGED taken
  <2>1. st' \in [Tids -> States]
    BY <1>1, EnterFacts DEF KernelTypes, States, Live, Stops
  <2>2. /\ call'[u].kind \in program \cup {"exit"} /\ call'[u].id = calls'
        /\ call'[u].kind # "exit" => calls' = calls + 1
        /\ \A t \in Tids \ {u} : call'[t] = call[t]
        /\ call' \in [Tids -> Calls] /\ calls' \in Nat /\ calls <= calls'
        /\ UNCHANGED <<grp, msg, status, program, taken>>
    BY <1>1, EnterFacts, Zenon
  <2>3. CallOk(call'[u], calls', program)
    BY <1>0, <2>2 DEF CallOk
  <2>4. \A t \in Tids \ {u} : CallOk(call[t], calls', program)
    BY <1>0, <2>2 DEF CallOk
  <2> QED
    BY <2>1, <2>2, <2>3, <2>4, Zenon DEF KernelTypes, CallOk
<1>2. ASSUME UNCHANGED <<calls, program>>, taken' \subseteq Tids, call' \in [Tids -> Calls],
             \A t \in Tids : CallOk(call'[t], calls, program),
             st' \in [Tids -> States], grp' \in [Tids -> Tids],
             msg' \in [Tids -> Tids \cup {None}], status' \in [Tids -> Int]
      PROVE  KernelTypes'
  BY <1>2, Zenon DEF KernelTypes, CallOk
<1>3. CASE Work(u)
  <2>0. UNCHANGED <<calls, program>>
    BY <1>3, Zenon DEF Work
  <2>1. CASE (Refuse(u) \/ Opened(u) \/ AfterEvent(u)) /\ UNCHANGED taken
    <3>1. PICK r \in {"ok", "err"} : Leave(u, r)
      BY <2>1, Zenon DEF Refuse, Opened, AfterEvent
    <3>2. UNCHANGED <<grp, msg, status>>
      BY <2>1, Zenon DEF Refuse, Opened, AfterEvent
    <3>3. \A t \in Tids : CallOk(call'[t], calls, program)
      BY <1>0, <3>1, LeaveFacts, Zenon DEF CallOk
    <3>4. call' \in [Tids -> Calls] /\ st' \in [Tids -> States]
      BY <3>1, LeaveFacts, Zenon
    <3> QED
      BY <1>2, <2>0, <2>1, <3>2, <3>3, <3>4, Zenon DEF KernelTypes
  <2>2. CASE Forked(u) /\ UNCHANGED taken
    <3>1. /\ st' \in [Tids -> States] /\ grp' \in [Tids -> Tids] /\ msg' \in [Tids -> Tids \cup {None}]
          /\ UNCHANGED <<call, status>>
      BY <2>2, ForkedFacts, Zenon DEF Makes
    <3> QED
      BY <1>0, <1>2, <2>0, <2>2, <3>1, Zenon DEF KernelTypes
  <2>3. CASE Exec(u) /\ UNCHANGED taken
    BY <1>0, <1>2, <2>0, <2>3, ExecFacts, Zenon DEF KernelTypes
  <2>4. CASE (Exit(u) \/ Zombie(u)) /\ UNCHANGED taken
    BY <1>0, <1>2, <2>0, <2>4, EndFacts, Zenon DEF KernelTypes
  <2>5. CASE Execed(u)
    <3> DEFINE l == grp[u]
    <3>1. /\ l \in Tids /\ st' \in [Tids -> States] /\ call' \in [Tids -> Calls]
          /\ msg' \in [Tids -> Tids \cup {None}]
          /\ call'[l].kind = call[u].kind /\ call'[l].id = call[u].id
          /\ \A t \in Tids \ {l} : call'[t] = call[t]
          /\ taken' = IF l = u THEN taken ELSE taken \cup {l, u}
          /\ UNCHANGED <<grp, status>>
      BY <2>5, ExecedFacts
    <3> HIDE DEF l
    <3>2. \A t \in Tids : CallOk(call'[t], calls, program)
      <4>1. CallOk(call'[l], calls, program)
        BY <1>0, <3>1, Zenon DEF CallOk
      <4> QED
        BY <1>0, <3>1, <4>1, Zenon
    <3>3. taken' \subseteq Tids
      BY <3>1, Zenon DEF KernelTypes
    <3> QED
      BY <1>2, <2>0, <3>1, <3>2, <3>3, Zenon DEF KernelTypes
  <2> QED
    BY <1>3, <2>1, <2>2, <2>3, <2>4, <2>5, Zenon DEF Work
<1>4. CASE Kill(u)
  <2>1. UNCHANGED <<calls, program, taken>>
    BY <1>4, Zenon DEF Kill
  <2> QED
    BY <1>0, <1>2, <1>4, <2>1, EndFacts, Zenon DEF KernelTypes
<1> QED
  BY <1>1, <1>3, <1>4, Zenon DEF KernelStep

-----------------------------------------------------------------------------
(* What the steps of the tracer do to the tasks.                           *)

LEMMA TracerOnTasks ==
    ASSUME TypeInv, Run
    PROVE  /\ UNCHANGED <<grp, call, did, program, calls, fault, taken, expired>>
           /\ st' \in [Tids -> States] /\ status' \in [Tids -> Int] /\ msg' \in [Tids -> Tids \cup {None}]
           /\ KernelTypes'
<1>0. UNCHANGED <<grp, call, did, program, calls, fault, taken, expired>>
  BY Zenon DEF Run, Attach, Wait, Handle, Resume, SweepEnd, Reap
<1> SUFFICES /\ st' \in [Tids -> States] /\ status' \in [Tids -> Int]
             /\ msg' \in [Tids -> Tids \cup {None}]
  BY <1>0, Zenon DEF TypeInv, KernelTypes
<1>t. KernelTypes /\ st \in [Tids -> States] /\ status \in [Tids -> Int] /\ msg \in [Tids -> Tids \cup {None}]
  BY Zenon DEF TypeInv, KernelTypes
<1>1. /\ \A t \in Tids, s \in States : [st EXCEPT ![t] = s] \in [Tids -> States]
      /\ \A t \in Tids : [msg EXCEPT ![t] = None] \in [Tids -> Tids \cup {None}]
  BY Zenon DEF TypeInv, KernelTypes
<1>2. {"run", "gone", "insys", "leaving"} \subseteq States
  BY DEF States, Live
<1>3. 137 \in Int
  OBVIOUS
<1>4. CASE Attach
  <2>1. UNCHANGED <<status, msg>> /\ \E s \in {"run", "gone"} : st' = [st EXCEPT ![Root] = s]
    BY <1>4, Zenon DEF Attach
  <2> QED
    BY <1>t, <1>1, <1>2, <2>1, Constants
<1>5. CASE \E t \in Tids : Wait(t)
  <2>1. UNCHANGED <<status, msg>> /\ (UNCHANGED st \/ \E t \in Tids : st' = [st EXCEPT ![t] = "gone"])
    BY <1>5, Zenon DEF Wait
  <2> QED
    BY <1>t, <1>1, <1>2, <2>1
<1>6. CASE Handle
  <2>0. cur \in Tids /\ UNCHANGED msg
    BY <1>6, Zenon DEF Handle, TypeInv, TracerTypes
  <2>1. UNCHANGED <<st, status>> \/ Die(Group(cur), 137)
    BY <1>6, Zenon DEF Handle, SyscallEntry, SyscallExit
  <2>2. Group(cur) \in SUBSET Tids
    BY <1>t, <2>0, GroupFacts, Zenon
  <2>3. Die(Group(cur), 137) => st' \in [Tids -> States] /\ status' \in [Tids -> Int]
    BY <1>t, <1>3, <2>2, DieFacts, Zenon
  <2> QED
    BY <1>t, <2>0, <2>1, <2>3, Zenon
<1>7. CASE Resume
  <2>1. cur \in Tids /\ what \in Stops /\ UNCHANGED status
    BY <1>7, Zenon DEF Resume, TypeInv, TracerTypes
  <2>2. Resumed(what) \in States
    BY <1>2, <2>1 DEF Stops, Resumed
  <2> QED
    BY <1>t, <1>1, <1>7, <2>1, <2>2, Zenon DEF Resume
<1>8. CASE SweepEnd
  <2>0. UNCHANGED msg
    BY <1>8, Zenon DEF SweepEnd
  <2>1. UNCHANGED <<st, status>> \/ Die(UNION {Group(t) : t \in traced}, 137)
    BY <1>8, Zenon DEF SweepEnd
  <2>2. UNION {Group(t) : t \in traced} \subseteq Tids
    BY Zenon DEF Group
  <2> QED
    BY <1>t, <1>3, <2>0, <2>1, <2>2, DieFacts, Zenon
<1>9. CASE Reap
  <2>1. UNCHANGED <<status, msg>> /\ (UNCHANGED st \/ (cur \in Tids /\ st' = [st EXCEPT ![cur] = "gone"]))
    BY <1>9, Zenon DEF Reap, TypeInv, TracerTypes
  <2> QED
    BY <1>t, <1>1, <1>2, <2>1, Zenon
<1> QED
  BY <1>4, <1>5, <1>6, <1>7, <1>8, <1>9, Zenon DEF Run

-----------------------------------------------------------------------------
(* The stop in hand, and the tasks that fork and clone make.               *)

\* A task in hand is in its stop, unless it is killed or replaced meanwhile.
HandInv ==
    \A t \in Tids :
        InHandOf(t) => st[t] \in {what, "dying", "zombie"} \/ (st[t] = "exec" /\ t \in taken)

\* The task that p has made: no other task has made it, and the tracer does not
\* know of it before it handles the event.
Born(p) ==
    /\ msg[p] \in Tids /\ st[msg[p]] # "none"
    /\ ~Handled(p) => /\ msg[p] \notin traced
                      /\ st[msg[p]] \in {"new", "dying", "zombie", "gone"} \/ msg[p] \in taken
    /\ \A q \in Tids \ {p} : st[q] = "fork" => msg[q] # msg[p]

ForkInv ==
    /\ \A t \in Tids : st[t] = "none" => t \notin traced
    /\ \A p \in Tids : st[p] = "fork" => Born(p)

LEMMA TracerTypesStep ==
    ASSUME TypeInv, ForkInv, Run
    PROVE  TracerTypes'
<1>t. /\ ss \in [Tids -> SysStates] /\ pend \in [Tids -> Nat] /\ pexec \in [Tids -> Nat]
      /\ traced \subseteq Tids /\ todo \subseteq traced
  BY Zenon DEF TypeInv, TracerTypes
<1>0. NoState \in SysStates /\ 0 \in Nat
  BY DEF NoState, SysStates, Kinds
<1>1. ASSUME NEW t \in Tids, ss' = [ss EXCEPT ![t] = NoState], pend' = [pend EXCEPT ![t] = None],
             pexec' = [pexec EXCEPT ![t] = None]
      PROVE  ss' \in [Tids -> SysStates] /\ pend' \in [Tids -> Nat] /\ pexec' \in [Tids -> Nat]
  BY <1>t, <1>0, <1>1 DEF None
<1> DEFINE Maps == ss' \in [Tids -> SysStates] /\ pend' \in [Tids -> Nat] /\ pexec' \in [Tids -> Nat]
<1>2. CASE Attach
  BY <1>t, <1>2, Zenon DEF Attach, TypeInv, TracerTypes
<1>3. ASSUME NEW t \in Tids, Wait(t) PROVE TracerTypes'
  <2>1. Maps
    BY <1>t, <1>1, <1>3, Zenon DEF Wait, HandleExit
  <2> HIDE DEF Maps
  <2>2. t \in traced /\ tpc = "sweep" /\ cur = None
    BY <1>t, <1>3, Zenon DEF Wait, TypeInv, TracerTypes
  <2>3. \/ tpc' = "handle" /\ cur' = t /\ what' \in Stops /\ UNCHANGED <<traced, todo>>
        \/ /\ UNCHANGED <<tpc, cur>> /\ todo' = todo \ {t}
           /\ traced' \in {traced, traced \ {t}}
    BY <1>3, Zenon DEF Wait, Echild
  <2> QED
    BY <1>t, <2>1, <2>2, <2>3, Zenon DEF TracerTypes, Maps
<1>4. CASE Handle
  <2>1. cur \in traced /\ cur \in Tids /\ tpc = "handle" /\ tpc' = "resume" /\ what \in Stops
        /\ UNCHANGED <<cur, what, todo>>
    BY <1>4, Zenon DEF Handle, TypeInv, TracerTypes
  <2>2. traced' \subseteq Tids /\ todo \subseteq traced' /\ cur \in traced'
    <3>1. UNCHANGED traced \/ (traced' = traced \cup {msg[cur]} /\ st[cur] = "fork")
      BY <1>4, Zenon DEF Handle, ForkEvent, ExecEvent
    <3>2. st[cur] = "fork" => msg[cur] \in Tids
      BY <2>1, Zenon DEF ForkInv, Born
    <3> QED
      BY <1>t, <2>1, <3>1, <3>2, Zenon
  <2>3. Maps
    <3>0. call[cur].kind \in Kinds /\ call[cur].id \in Nat
      BY <2>1 DEF TypeInv, KernelTypes, Calls
    <3>1. CASE SyscallEntry(cur)
      <4>1. [entry |-> FALSE, kind |-> call[cur].kind] \in SysStates
        BY <3>0 DEF SysStates
      <4> DEFINE s == [entry |-> FALSE, kind |-> call[cur].kind]
      <4>2. ss' = [ss EXCEPT ![cur] = s]
        BY <3>1, Zenon DEF SyscallEntry
      <4> HIDE DEF s
      <4>3. ss' \in [Tids -> SysStates]
        BY <1>t, <4>1, <4>2 DEF s
      <4>4. pend' \in {pend, [pend EXCEPT ![cur] = call[cur].id]} /\ pexec' \in {pexec, [pexec EXCEPT ![cur] = call[cur].id]}
        BY <3>1, Zenon DEF SyscallEntry
      <4>5. pend' \in [Tids -> Nat] /\ pexec' \in [Tids -> Nat]
        BY <1>t, <3>0, <4>4
      <4> QED
        BY <4>3, <4>5
    <3>2. CASE SyscallExit(cur)
      <4>1. ss' \in [Tids -> SysStates]
        BY <1>t, <3>2, <2>1 DEF SyscallExit, SysStates
      <4>2. pend' \in {pend, [pend EXCEPT ![cur] = None]} /\ pexec' = pexec
        BY <3>2, Zenon DEF SyscallExit
      <4> QED
        BY <1>t, <1>0, <4>1, <4>2 DEF None
    <3>3. CASE ForkEvent(cur)
      BY <1>t, <1>0, <3>3 DEF ForkEvent
    <3>4. CASE ExecEvent(cur)
      <4>1. UNCHANGED <<ss, pend>> /\ pexec' \in {pexec, [pexec EXCEPT ![ExecKey(cur)] = None]}
        BY <3>4, Zenon DEF ExecEvent
      <4> QED
        BY <1>t, <1>0, <4>1 DEF None
    <3>5. CASE UNCHANGED <<ss, pend, pexec>>
      BY <1>t, <3>5
    <3> QED
      BY <1>4, <3>1, <3>2, <3>3, <3>4, <3>5, Zenon DEF Handle
  <2> QED
    BY <2>1, <2>2, <2>3, Zenon DEF TracerTypes
<1>5. CASE Resume
  <2>1. UNCHANGED <<ss, pend, pexec>> /\ tpc' = "sweep" /\ cur' = None /\ todo' = todo \ {cur}
        /\ traced' \in {traced, traced \ {cur}}
    BY <1>5, Zenon DEF Resume
  <2> QED
    BY <1>t, <2>1, Zenon DEF TracerTypes
<1>6. CASE SweepEnd
  <2>1. UNCHANGED <<ss, pend, pexec, cur, traced>> /\ cur = None
        /\ tpc' \in {"done", "reap", "sweep"} /\ todo' \in {todo, traced}
    BY <1>6, Zenon DEF SweepEnd, TypeInv, TracerTypes
  <2> QED
    BY <1>t, <2>1, Zenon DEF TracerTypes
<1>7. CASE Reap
  <2>0. tpc = "reap" /\ cur \in todo \cup {None}
    BY <1>7, Zenon DEF Reap, TypeInv, TracerTypes
  <2>1. CASE cur # None
    <3>1. Reaped(cur) /\ todo' = todo \ {cur} /\ cur' = None /\ UNCHANGED <<tpc, traced>>
      BY <1>7, <2>1, Zenon DEF Reap
    <3>2. Maps
      BY <1>t, <1>1, <2>0, <2>1, <3>1, Zenon DEF Reaped, HandleExit
    <3> QED
      BY <1>t, <2>0, <3>1, <3>2, Zenon DEF TracerTypes
  <2>2. CASE cur = None
    BY <1>t, <1>7, <2>0, <2>2, Zenon DEF Reap, TracerTypes
  <2> QED
    BY <2>1, <2>2
<1> QED
  BY <1>2, <1>3, <1>4, <1>5, <1>6, <1>7, Zenon DEF Run

\* The task that a step of the kernel is about, and the tasks around it.
LEMMA KernelTask ==
    ASSUME KernelTypes, NEW u \in Tids, KernelStep(u), NEW t \in Tids
    PROVE  /\ \/ Calm(t)
              \/ st[t] \in {"run", "insys", "leaving", "dethread", "none"} /\ st'[t] # "none"
              \/ st'[t] = "exec" /\ t \in taken'
           /\ st[t] = "new" => st'[t] \in {"new", "dying", "zombie"} \/ t \in taken'
           /\ st[t] = "gone" => st'[t] = "gone" \/ t \in taken'
           /\ t \in taken => t \in taken'
<1>1. CASE Enter(u) /\ UNCHANGED taken
  BY <1>1, EnterFacts, Zenon DEF Calm
<1>2. CASE (Refuse(u) \/ Opened(u) \/ AfterEvent(u)) /\ UNCHANGED taken
  <2>1. PICK r \in {"ok", "err"} : Leave(u, r)
    BY <1>2, Zenon DEF Refuse, Opened, AfterEvent
  <2>2. UNCHANGED <<msg>> /\ st[u] \in {"insys", "leaving"}
    BY <1>2, Zenon DEF Refuse, Opened, AfterEvent
  <2> QED
    BY <1>2, <2>1, <2>2, LeaveFacts, Zenon DEF Calm
<1>3. CASE Forked(u) /\ UNCHANGED taken
  <2>1. PICK n \in Tids \ {u} : Makes(u, n)
    BY <1>3, ForkedFacts, Zenon
  <2> QED
    BY <1>3, <2>1, Zenon DEF Calm, Makes
<1>4. CASE Exec(u) /\ UNCHANGED taken
  BY <1>4, ExecFacts, Zenon DEF Calm, Live, Stops
<1>5. CASE (Exit(u) \/ Zombie(u) \/ Kill(u)) /\ UNCHANGED taken
  BY <1>5, EndFacts, Zenon DEF Calm, Live, Stops
<1>6. CASE Execed(u)
  <2> DEFINE l == grp[u]
  <2>1. /\ l \in Tids /\ st[u] = "dethread" /\ st'[l] = "exec" /\ (l # u => st'[u] = "gone")
        /\ taken' = IF l = u THEN taken ELSE taken \cup {l, u}
        /\ \A v \in Tids \ {u, l} : st'[v] = st[v]
        /\ \A v \in Tids \ {l} : call'[v] = call[v] /\ msg'[v] = msg[v]
    BY <1>6, ExecedFacts
  <2> HIDE DEF l
  <2>2. CASE t \notin {u, l}
    BY <2>1, <2>2, Zenon DEF Calm
  <2>3. CASE t = l /\ l # u
    BY <2>1, <2>3, Zenon
  <2>4. CASE t = u
    <3>1. st[t] = "dethread" /\ st'[t] \in {"exec", "gone"}
      BY <2>1, <2>4, Zenon
    <3>2. t \in taken => t \in taken'
      BY <2>1, Zenon
    <3> QED
      BY <3>1, <3>2, Zenon
  <2> QED
    BY <2>2, <2>3, <2>4, Zenon
<1> QED
  BY <1>1, <1>2, <1>3, <1>4, <1>5, <1>6, Zenon DEF KernelStep, Work, Kill

Traces == <<tpc, todo, cur, what, traced, ss, pend, pexec, log, drops, code>>

LEMMA HandKernel ==
    ASSUME TypeInv, HandInv, NEW u \in Tids, KernelStep(u), UNCHANGED Traces
    PROVE  HandInv'
<1> SUFFICES ASSUME NEW t \in Tids, InHandOf(t)'
             PROVE  st'[t] \in {what, "dying", "zombie"} \/ (st'[t] = "exec" /\ t \in taken')
  BY Zenon DEF HandInv, Traces
<1>1. InHandOf(t) /\ what \in Stops
  BY Zenon DEF InHandOf, Traces, TypeInv, TracerTypes
<1>2. st[t] \in {what, "dying", "zombie"} \/ (st[t] = "exec" /\ t \in taken)
  BY <1>1, Zenon DEF HandInv
<1>3. st[t] \notin {"run", "insys", "leaving", "dethread", "none"}
  BY <1>1, <1>2, Zenon DEF Stops
<1>4. Calm(t) \/ (st'[t] = "exec" /\ t \in taken')
  BY <1>3, KernelTask, Zenon DEF TypeInv
<1>5. t \in taken => t \in taken'
  BY KernelTask, Zenon DEF TypeInv
<1> QED
  BY <1>2, <1>4, <1>5, Zenon DEF Calm

\* Only fork and clone bring a task to the fork event.
LEMMA ForkOnly ==
    ASSUME KernelTypes, NEW u \in Tids, KernelStep(u), ~Forked(u)
    PROVE  \A p \in Tids : st'[p] = "fork" => st[p] = "fork" /\ msg'[p] = msg[p]
<1>1. CASE Enter(u)
  BY <1>1, EnterFacts, Zenon
<1>2. CASE Refuse(u) \/ Opened(u) \/ AfterEvent(u)
  <2>1. PICK r \in {"ok", "err"} : UNCHANGED msg /\ Leave(u, r)
    BY <1>2, Zenon DEF Refuse, Opened, AfterEvent
  <2> QED
    BY <2>1, LeaveFacts, Zenon
<1>3. CASE Exec(u)
  BY <1>3, ExecFacts, Zenon
<1>4. CASE Exit(u) \/ Zombie(u) \/ Kill(u)
  BY <1>4, EndFacts, Zenon
<1>5. CASE Execed(u)
  BY <1>5, ExecedFacts
<1> QED
  BY <1>1, <1>2, <1>3, <1>4, <1>5, Zenon DEF KernelStep, Work

LEMMA ForkKernel ==
    ASSUME TypeInv, ForkInv, NEW u \in Tids, KernelStep(u), UNCHANGED Traces
    PROVE  ForkInv'
<1>0. KernelTypes /\ UNCHANGED <<traced, tpc, cur>>
  BY Zenon DEF TypeInv, Traces
<1>1. \A t \in Tids : (st[t] # "none" => st'[t] # "none") /\ (t \in taken => t \in taken')
  BY <1>0, KernelTask, Zenon DEF Calm
<1>2. ASSUME NEW t \in Tids, st[t] \in {"new", "dying", "zombie", "gone"} \/ t \in taken
      PROVE  st'[t] \in {"new", "dying", "zombie", "gone"} \/ t \in taken'
  BY <1>0, <1>2, KernelTask, Zenon DEF Calm
<1>3. ASSUME NEW p \in Tids, st[p] = "fork", msg'[p] = msg[p],
             \A q \in Tids \ {p} : st'[q] = "fork" => msg'[q] # msg[p]
      PROVE  Born(p)'
  <2>1. /\ msg[p] \in Tids /\ st[msg[p]] # "none"
        /\ ~Handled(p) => /\ msg[p] \notin traced
                          /\ st[msg[p]] \in {"new", "dying", "zombie", "gone"} \/ msg[p] \in taken
    BY <1>3, Zenon DEF ForkInv, Born
  <2>2. Handled(p)' <=> Handled(p)
    BY <1>0, Zenon DEF Handled
  <2> QED
    BY <1>0, <1>1, <1>2, <1>3, <2>1, <2>2, Zenon DEF Born
<1>4. CASE Forked(u)
  <2>0. PICK n \in Tids \ {u} : Makes(u, n)
    BY <1>0, <1>4, ForkedFacts, Zenon
  <2>1. /\ st[u] = "insys" /\ st'[u] = "fork" /\ st[n] = "none" /\ st'[n] = "new"
        /\ msg'[u] = n
        /\ \A v \in Tids \ {u, n} : st'[v] = st[v] /\ msg'[v] = msg[v]
    BY <2>0, Zenon DEF Makes
  <2>2. n \notin traced
    BY <2>1, Zenon DEF ForkInv
  <2>3. \A q \in Tids \ {u} : st'[q] = "fork" => q # n /\ st[q] = "fork" /\ msg'[q] = msg[q] /\ msg[q] # n
    <3>1. \A q \in Tids : st[q] = "fork" => st[msg[q]] # "none"
      BY Zenon DEF ForkInv, Born
    <3> QED
      BY <2>1, <3>1, Zenon
  <2>4. Born(u)'
    <3>1. msg'[u] \in Tids /\ st'[msg'[u]] = "new" /\ msg'[u] \notin traced'
      BY <1>0, <2>1, <2>2, Zenon
    <3>2. \A q \in Tids \ {u} : st'[q] = "fork" => msg'[q] # msg'[u]
      BY <2>1, <2>3, Zenon
    <3> QED
      BY <3>1, <3>2, Zenon DEF Born
  <2>5. ASSUME NEW p \in Tids \ {u}, st'[p] = "fork" PROVE Born(p)'
    <3>1. st[p] = "fork" /\ msg'[p] = msg[p] /\ msg[p] # n
      BY <2>3, <2>5, Zenon
    <3>2. \A q \in Tids \ {p} : st[q] = "fork" => msg[q] # msg[p]
      BY <3>1, Zenon DEF ForkInv, Born
    <3>3. \A q \in Tids \ {p} : st'[q] = "fork" => msg'[q] # msg[p]
      BY <2>1, <2>3, <3>1, <3>2, Zenon
    <3> QED
      BY <1>3, <3>1, <3>3, Zenon
  <2> QED
    BY <1>0, <1>1, <2>4, <2>5, Zenon DEF ForkInv
<1>5. CASE ~Forked(u)
  <2>1. \A p \in Tids : st'[p] = "fork" => st[p] = "fork" /\ msg'[p] = msg[p]
    BY <1>0, <1>5, ForkOnly, Zenon
  <2>2. ASSUME NEW p \in Tids, st'[p] = "fork" PROVE Born(p)'
    <3>1. \A q \in Tids \ {p} : st[q] = "fork" => msg[q] # msg[p]
      BY <2>1, <2>2, Zenon DEF ForkInv, Born
    <3> QED
      BY <1>3, <2>1, <2>2, <3>1, Zenon
  <2>3. \A t \in Tids : st'[t] = "none" => t \notin traced'
    BY <1>0, <1>1, Zenon DEF ForkInv
  <2> QED
    BY <2>2, <2>3, Zenon DEF ForkInv
<1> QED
  BY <1>4, <1>5

\* What a step of the tracer does to a task.
LEMMA TracerTask ==
    ASSUME TypeInv, Run, NEW t \in Tids
    PROVE  /\ \/ st'[t] = st[t]
              \/ st'[t] = "dying" /\ st[t] \in Live
              \/ st'[t] = "gone" /\ st[t] \in {"zombie", "gone"}
              \/ st'[t] = "run" /\ st[t] = "new" /\ tpc = "attach" /\ t = Root
              \/ tpc = "resume" /\ cur = t /\ st[t] = what /\ st'[t] = Resumed(what)
           /\ msg'[t] = msg[t] \/ (tpc = "resume" /\ cur = t /\ st[t] = what /\ st'[t] = Resumed(what))
<1>t. KernelTypes /\ st \in [Tids -> States] /\ msg \in [Tids -> Tids \cup {None}] /\ 137 \in Int
  BY DEF TypeInv, KernelTypes
<1>1. CASE Attach
  <2>1. UNCHANGED msg /\ tpc = "attach"
        /\ \/ st[Root] = "new" /\ st' = [st EXCEPT ![Root] = "run"]
           \/ st[Root] = "zombie" /\ st' = [st EXCEPT ![Root] = "gone"]
    BY <1>1, Zenon DEF Attach
  <2> QED
    BY <1>t, <2>1, Zenon
<1>2. CASE \E u \in Tids : Wait(u)
  <2>1. UNCHANGED msg /\ (UNCHANGED st \/ \E u \in Tids : st[u] = "zombie" /\ st' = [st EXCEPT ![u] = "gone"])
    BY <1>2, Zenon DEF Wait
  <2> QED
    BY <1>t, <2>1, Zenon
<1>3. CASE Handle
  <2>0. cur \in Tids /\ UNCHANGED msg
    BY <1>3, Zenon DEF Handle, TypeInv, TracerTypes
  <2>1. UNCHANGED <<st, status>> \/ Die(Group(cur), 137)
    BY <1>3, Zenon DEF Handle, SyscallEntry, SyscallExit
  <2>2. Group(cur) \subseteq Tids
    BY <1>t, <2>0, GroupFacts, Zenon
  <2> QED
    BY <1>t, <2>0, <2>1, <2>2, DieFacts, Zenon
<1>4. CASE Resume
  <2>1. tpc = "resume" /\ cur \in Tids
        /\ \/ st[cur] = what /\ st' = [st EXCEPT ![cur] = Resumed(what)] /\ msg' = [msg EXCEPT ![cur] = None]
           \/ UNCHANGED <<st, msg>>
    BY <1>4, Zenon DEF Resume, TypeInv, TracerTypes
  <2> QED
    BY <1>t, <2>1, Zenon
<1>5. CASE SweepEnd
  <2>1. UNCHANGED msg /\ (UNCHANGED st \/ Die(UNION {Group(u) : u \in traced}, 137))
    BY <1>5, Zenon DEF SweepEnd
  <2>2. UNION {Group(u) : u \in traced} \subseteq Tids
    BY Zenon DEF Group
  <2> QED
    BY <1>t, <2>1, <2>2, DieFacts, Zenon
<1>6. CASE Reap
  <2>1. UNCHANGED msg
        /\ \/ UNCHANGED st
           \/ cur \in Tids /\ st[cur] \in {"zombie", "gone"} /\ st' = [st EXCEPT ![cur] = "gone"]
    BY <1>6, Zenon DEF Reap, TypeInv, TracerTypes
  <2> QED
    BY <1>t, <2>1, Zenon
<1> QED
  BY <1>1, <1>2, <1>3, <1>4, <1>5, <1>6, Zenon DEF Run

LEMMA ResumedFacts ==
    ASSUME NEW s \in Stops
    PROVE  /\ s \in {"new", "exit"} => Resumed(s) = "run"
           /\ s = "entry" => Resumed(s) = "insys"
           /\ s \in {"fork", "exec"} => Resumed(s) = "leaving"
           /\ Resumed(s) \in {"run", "insys", "leaving"}
BY DEF Stops, Resumed

LEMMA HandTracer ==
    ASSUME TypeInv, HandInv, Run
    PROVE  HandInv'
<1>1. CASE \E u \in Tids : Wait(u)
  <2>1. PICK u \in Tids : Wait(u)
    BY <1>1
  <2>2. (tpc' = "handle" /\ cur' = u /\ what' = st[u] /\ UNCHANGED st) \/ tpc' = "sweep"
    BY <2>1, Zenon DEF Wait
  <2> QED
    BY <2>2, Zenon DEF HandInv, InHandOf
<1>2. CASE Handle
  <2>1. tpc = "handle" /\ UNCHANGED <<cur, what>> /\ cur \in Tids
    BY <1>2, Zenon DEF Handle, TypeInv, TracerTypes
  <2>2. st[cur] \in {what, "dying", "zombie"} \/ (st[cur] = "exec" /\ cur \in taken)
    BY <2>1, Zenon DEF HandInv, InHandOf
  <2>3. st'[cur] = st[cur] \/ st'[cur] = "dying"
    <3>1. UNCHANGED <<st, status>> \/ Die(Group(cur), 137)
      BY <1>2, Zenon DEF Handle, SyscallEntry, SyscallExit
    <3>2. KernelTypes /\ 137 \in Int /\ Group(cur) \subseteq Tids
      BY DEF TypeInv, Group
    <3> QED
      BY <2>1, <3>1, <3>2, DieFacts, Zenon
  <2>4. UNCHANGED taken
    BY Zenon DEF Run
  <2> QED
    BY <2>1, <2>2, <2>3, <2>4, Zenon DEF HandInv, InHandOf
<1>3. CASE Attach \/ Resume \/ SweepEnd \/ Reap
  <2>1. tpc' \notin {"handle", "resume"}
    BY <1>3, Zenon DEF Attach, Resume, SweepEnd, Reap
  <2> QED
    BY <2>1, Zenon DEF HandInv, InHandOf
<1> QED
  BY <1>1, <1>2, <1>3, Zenon DEF Run

LEMMA ForkTracer ==
    ASSUME TypeInv, HandInv, ForkInv, Run
    PROVE  ForkInv'
<1>0. UNCHANGED taken /\ (tpc = "resume" => what \in Stops) /\ (tpc = "attach" => Root \in traced)
      /\ (tpc \in {"handle", "resume"} => cur \in traced /\ cur \in Tids)
  BY Zenon DEF Run, TypeInv, TracerTypes
<1>1. ASSUME NEW t \in Tids
      PROVE  /\ st[t] # "none" => st'[t] # "none"
             /\ st'[t] = "none" => st[t] = "none"
             /\ st'[t] = "fork" => st[t] = "fork" /\ msg'[t] = msg[t]
  BY <1>0, TracerTask, ResumedFacts, Zenon DEF Stops
<1>2. \/ traced' \subseteq traced
      \/ tpc = "handle" /\ tpc' = "resume" /\ cur' = cur /\ st[cur] = "fork" /\ traced' = traced \cup {msg[cur]}
  BY Zenon DEF Run, Attach, Wait, Echild, Handle, ForkEvent, ExecEvent, Resume, SweepEnd, Reap
<1>3. ASSUME NEW p \in Tids, st[p] = "fork" PROVE Born(p)
  BY <1>3, Zenon DEF ForkInv
<1>4. ASSUME NEW t \in Tids, st'[t] = "none" PROVE t \notin traced'
  <2>1. st[t] = "none" /\ t \notin traced
    BY <1>1, <1>4, Zenon DEF ForkInv
  <2>2. tpc = "handle" /\ st[cur] = "fork" => msg[cur] # t
    BY <1>0, <1>3, <2>1, Zenon DEF Born
  <2> QED
    BY <1>2, <2>1, <2>2, Zenon
<1>5. ASSUME NEW p \in Tids, st'[p] = "fork" PROVE Born(p)'
  <2>1. st[p] = "fork" /\ msg'[p] = msg[p] /\ Born(p)
    BY <1>1, <1>3, <1>5, Zenon
  <2> DEFINE m == msg[p]
  <2>2. m \in Tids /\ st[m] # "none" /\ \A q \in Tids \ {p} : st[q] = "fork" => msg[q] # m
    BY <2>1, Zenon DEF Born
  <2>3. \A q \in Tids \ {p} : st'[q] = "fork" => msg'[q] # m
    BY <1>1, <2>2, Zenon
  <2>4. ASSUME ~Handled(p)' PROVE m \notin traced' /\ (st'[m] \in {"new", "dying", "zombie", "gone"} \/ m \in taken')
    <3>1. ~Handled(p)
      <4> SUFFICES ASSUME Handled(p) PROVE FALSE
        OBVIOUS
      <4>1. Resume /\ cur = p /\ tpc = "resume"
        BY Zenon DEF Run, Attach, Wait, Handle, SweepEnd, Reap, Handled
      <4>2. what = "fork"
        BY <2>1, <4>1, Zenon DEF HandInv, InHandOf
      <4>3. st'[p] = Resumed("fork")
        BY <2>1, <4>1, <4>2, Zenon DEF Resume, TypeInv, KernelTypes
      <4> QED
        BY <1>5, <4>3, ResumedFacts, Zenon DEF Stops
    <3>2. m \notin traced /\ (st[m] \in {"new", "dying", "zombie", "gone"} \/ m \in taken)
      BY <2>1, <3>1, Zenon DEF Born
    <3>3. m \notin traced'
      <4>1. CASE tpc = "handle" /\ tpc' = "resume" /\ cur' = cur /\ st[cur] = "fork" /\ traced' = traced \cup {msg[cur]}
        <5>1. cur # p
          BY <2>4, <4>1, Zenon DEF Handled
        <5>2. msg[cur] # m
          BY <1>0, <2>2, <4>1, <5>1, Zenon
        <5> QED
          BY <3>2, <4>1, <5>2, Zenon
      <4> QED
        BY <1>2, <3>2, <4>1, Zenon
    <3>4. st[m] \in {"new", "dying", "zombie", "gone"} => st'[m] \in {"new", "dying", "zombie", "gone"}
      BY <1>0, <2>2, <3>2, TracerTask, Zenon
    <3> QED
      BY <1>0, <3>2, <3>3, <3>4, Zenon
  <2>5. st'[m] # "none"
    BY <1>1, <2>2, Zenon
  <2> QED
    BY <2>1, <2>2, <2>3, <2>4, <2>5, Zenon DEF Born
<1> QED
  BY <1>4, <1>5, Zenon DEF ForkInv

-----------------------------------------------------------------------------
(* The toggle and the pending maps are in step with the task.              *)

\* The tracer takes the task to be outside a system call.
Quiet(t) == ss[t].entry /\ pend[t] = None

\* The tracer has seen the entry of the task's call.
Busy(t) ==
    /\ ~ss[t].entry /\ ss[t].kind = call[t].kind
    /\ pend[t] = IF call[t].kind = "open" THEN call[t].id ELSE None

\* ... and if that is an execve, waits for its event.
Awaits(t) == Busy(t) /\ (call[t].kind = "exec" => pexec[t] = call[t].id)

\* The task has the event of its execve still to be handled.
AtExec(t) == (st[t] = "exec" /\ ~Handled(t)) \/ (tpc = "handle" /\ cur = t /\ what = "exec")

InStep(t) ==
    /\ st[t] \in {"none", "new", "run"} => Quiet(t)
    /\ st[t] = "entry" => IF Handled(t) THEN Awaits(t) ELSE Quiet(t)
    /\ st[t] \in {"insys", "dethread"} => Awaits(t)
    /\ st[t] \in {"fork", "leaving", "exec"} => Busy(t) /\ call[t].kind \in {"fork", "clone", "exec"}
    /\ st[t] = "dethread" => call[t].kind = "exec"
    /\ st[t] = "exit" => IF Handled(t) THEN Quiet(t) ELSE Busy(t)
    /\ (st[t] = "exit" /\ call[t].kind = "open") => Open(t, call[t].ret) \in did
    /\ AtExec(t) => /\ call[t].kind = "exec" /\ pexec[t] = call[t].id
                    /\ Event("exec", t, call[t].id, "ok") \in did

StepInv == \A t \in Tids \ taken : InStep(t)

\* The event of an execve names the caller or its former tid.
ExecInv == \A t \in Tids : st[t] = "exec" => msg[t] = t \/ msg[t] \in taken

LEMMA CalmStep ==
    ASSUME NEW t \in Tids, Calm(t), UNCHANGED Traces, did \subseteq did', InStep(t)
    PROVE  InStep(t)'
<1>1. /\ Quiet(t)' <=> Quiet(t)
      /\ Busy(t)' <=> Busy(t)
      /\ Awaits(t)' <=> Awaits(t)
      /\ Handled(t)' <=> Handled(t)
  BY Zenon DEF Calm, Traces, Quiet, Busy, Awaits, Handled
<1>2. CASE st'[t] = st[t]
  <2>1. AtExec(t)' <=> AtExec(t)
    BY <1>2, Zenon DEF AtExec, Handled, Traces
  <2>2. Open(t, call[t].ret) \in did => Open(t, call[t].ret)' \in did'
    BY Zenon DEF Calm, Open
  <2> QED
    BY <1>1, <1>2, <2>1, <2>2, Zenon DEF InStep, Calm, Traces
<1>3. CASE st'[t] \in {"dying", "zombie"}
  <2>1. AtExec(t)' => AtExec(t)
    BY <1>3, Zenon DEF AtExec, Handled, Traces
  <2> QED
    BY <1>3, <2>1, Zenon DEF InStep, Calm, Traces
<1> QED
  BY <1>2, <1>3, Zenon DEF Calm

LEMMA StepKernel ==
    ASSUME TypeInv, HandInv, StepInv, NEW u \in Tids, KernelStep(u), UNCHANGED Traces
    PROVE  StepInv'
<1>0. KernelTypes /\ did \subseteq did'
  BY Zenon DEF TypeInv, KernelStep, Enter, Work, Kill, Refuse, Opened, Forked, Exec, Execed, AfterEvent, Exit, Zombie
<1> SUFFICES ASSUME NEW t \in Tids, t \notin taken' PROVE InStep(t)'
  BY Zenon DEF StepInv
<1>1. t \notin taken /\ InStep(t)
  BY <1>0, KernelTask, Zenon DEF StepInv
<1>2. CASE Calm(t)
  BY <1>0, <1>1, <1>2, CalmStep, Zenon
<1>3. st[t] \notin Stops \cup {"dying", "zombie"} => ~InHandOf(t)
  BY <1>1, Zenon DEF HandInv, TypeInv, TracerTypes, InHandOf
<1>4. UNCHANGED <<tpc, cur, what, ss, pend, pexec>>
  BY Zenon DEF Traces
<1>5. ASSUME st[t] \in {"run", "insys", "leaving", "dethread", "none"}
      PROVE  /\ ~InHandOf(t)' /\ ~Handled(t)' /\ ~Handled(t)
             /\ st'[t] # "exec" => ~AtExec(t)'
  BY <1>3, <1>4, <1>5, Zenon DEF InHandOf, Handled, AtExec, Stops
<1>6. CASE Enter(u) /\ t = u
  <2>1. st[t] = "run" /\ st'[t] = "entry"
    BY <1>0, <1>6, EnterFacts, Zenon
  <2>2. Quiet(t)'
    BY <1>1, <1>4, <2>1, Zenon DEF InStep, Quiet
  <2> QED
    BY <1>5, <2>1, <2>2, Zenon DEF InStep
<1>7. ASSUME st[t] \in {"insys", "leaving"}, st'[t] = "exit", call'[t].kind = call[t].kind,
             call'[t].id = call[t].id, call[t].kind = "open" => Open(t, call[t].ret)' \in did'
      PROVE  InStep(t)'
  <2>1. Busy(t)
    BY <1>1, <1>7, Zenon DEF InStep, Awaits
  <2>2. Busy(t)'
    BY <1>4, <1>7, <2>1, Zenon DEF Busy
  <2> QED
    BY <1>5, <1>7, <2>2, Zenon DEF InStep
<1>8. CASE (Refuse(u) \/ Opened(u) \/ AfterEvent(u)) /\ t = u
  <2>1. PICK r \in {"ok", "err"} : Leave(u, r) /\ (call[u].kind = "open" /\ ~AfterEvent(u) => Open(u, r) \in did')
    BY <1>8, Zenon DEF Refuse, Opened, AfterEvent
  <2>2. st[u] \in {"insys", "leaving"} /\ (AfterEvent(u) => st[u] = "leaving")
    BY <1>8, Zenon DEF Refuse, Opened, AfterEvent
  <2>3. st'[u] = "exit" /\ call'[u].kind = call[u].kind /\ call'[u].id = call[u].id /\ call'[u].ret = r
    BY <1>0, <2>1, LeaveFacts, Zenon
  <2>4. Open(u, call[u].ret)' = Open(u, r)
    BY <2>3, Zenon DEF Open
  <2>5. AfterEvent(u) => call[u].kind # "open"
    BY <1>1, <1>8, <2>2, Zenon DEF InStep
  <2> QED
    BY <1>7, <1>8, <2>1, <2>2, <2>3, <2>4, <2>5, Zenon
<1>9. CASE Forked(u)
  <2>1. PICK n \in Tids \ {u} : Makes(u, n)
    BY <1>0, <1>9, ForkedFacts, Zenon
  <2>2. CASE t = u
    <3>1. Busy(t)' /\ call'[t].kind \in {"fork", "clone"} /\ st[t] = "insys" /\ st'[t] = "fork"
      BY <1>1, <1>4, <2>1, <2>2, Zenon DEF InStep, Awaits, Busy, Makes
    <3> QED
      BY <1>5, <3>1, Zenon DEF InStep
  <2>3. CASE t = n
    <3>1. Quiet(t)' /\ st[t] = "none" /\ st'[t] = "new"
      BY <1>1, <1>4, <2>1, <2>3, Zenon DEF InStep, Quiet, Makes
    <3> QED
      BY <1>5, <3>1, Zenon DEF InStep
  <2>4. CASE t \notin {u, n}
    BY <1>2, <2>1, <2>4, Zenon DEF Calm, Makes
  <2> QED
    BY <2>2, <2>3, <2>4, Zenon
<1>10. CASE Exec(u) /\ t = u
  <2>1. st[t] = "insys" /\ st'[t] = "dethread" /\ call[t].kind = "exec" /\ UNCHANGED call
    BY <1>0, <1>10, ExecFacts, Zenon
  <2>2. Awaits(t)'
    BY <1>1, <1>4, <2>1, Zenon DEF InStep, Awaits, Busy
  <2> QED
    BY <1>5, <2>1, <2>2, Zenon DEF InStep
<1>11. CASE Execed(u)
  <2> DEFINE l == grp[u]
  <2>1. /\ l \in Tids /\ st[u] = "dethread" /\ st'[l] = "exec"
        /\ call'[l].kind = call[u].kind /\ call'[l].id = call[u].id
        /\ did' = did \cup {Event("exec", l, call[u].id, "ok")}
        /\ taken' = IF l = u THEN taken ELSE taken \cup {l, u}
        /\ \A v \in Tids \ {u, l} : st'[v] = st[v]
        /\ \A v \in Tids \ {l} : call'[v] = call[v] /\ msg'[v] = msg[v]
    BY <1>0, <1>11, ExecedFacts
  <2> HIDE DEF l
  <2>2. CASE t \notin {u, l}
    BY <1>2, <2>1, <2>2, Zenon DEF Calm
  <2>3. CASE t \in {u, l}
    <3>1. t = u /\ l = u
      BY <2>1, <2>3, Zenon
    <3>2. call[t].kind = "exec" /\ Awaits(t)
      BY <1>1, <2>1, <3>1, Zenon DEF InStep
    <3>3. Busy(t)' /\ pexec'[t] = call'[t].id
      BY <1>4, <2>1, <3>1, <3>2, Zenon DEF Awaits, Busy
    <3>4. st'[t] = "exec" /\ call'[t].kind = "exec" /\ Event("exec", t, call'[t].id, "ok") \in did'
      BY <2>1, <3>1, <3>2, Zenon
    <3> QED
      BY <1>5, <2>1, <3>1, <3>3, <3>4, Zenon DEF InStep
  <2> QED
    BY <2>2, <2>3
<1>12. CASE Exit(u) \/ Zombie(u) \/ Kill(u)
  <2>1. Calm(t)
    BY <1>0, <1>12, EndFacts, Zenon DEF Calm
  <2> QED
    BY <1>2, <2>1
<1>13. ASSUME t # u, Enter(u) \/ Refuse(u) \/ Opened(u) \/ AfterEvent(u) \/ Exec(u) PROVE InStep(t)'
  <2>1. CASE Enter(u)
    BY <1>0, <1>2, <1>13, <2>1, EnterFacts, Zenon DEF Calm
  <2>2. CASE Exec(u)
    BY <1>0, <1>2, <1>13, <2>2, ExecFacts, Zenon DEF Calm
  <2>3. CASE Refuse(u) \/ Opened(u) \/ AfterEvent(u)
    <3>1. PICK r \in {"ok", "err"} : UNCHANGED msg /\ Leave(u, r)
      BY <2>3, Zenon DEF Refuse, Opened, AfterEvent
    <3>2. \A v \in Tids \ {u} : call'[v] = call[v] /\ st'[v] = st[v]
      BY <1>0, <3>1, LeaveFacts
    <3>3. Calm(t)
      BY <1>13, <3>1, <3>2, Zenon DEF Calm
    <3> QED
      BY <1>2, <3>3
  <2> QED
    BY <1>13, <2>1, <2>2, <2>3, Zenon
<1> QED
  BY <1>6, <1>8, <1>9, <1>10, <1>11, <1>12, <1>13, Zenon DEF KernelStep, Work

LEMMA ExecKernel ==
    ASSUME TypeInv, ExecInv, NEW u \in Tids, KernelStep(u)
    PROVE  ExecInv'
<1>0. KernelTypes
  BY Zenon DEF TypeInv
<1> SUFFICES ASSUME NEW t \in Tids, st'[t] = "exec" PROVE msg'[t] = t \/ msg'[t] \in taken'
  BY Zenon DEF ExecInv
<1>1. taken \subseteq taken'
  BY <1>0, KernelTask, Zenon DEF KernelTypes
<1>2. CASE Execed(u)
  <2> DEFINE l == grp[u]
  <2>1. /\ l \in Tids /\ msg'[l] = u /\ st'[l] = "exec" /\ (l # u => st'[u] = "gone")
        /\ taken' = IF l = u THEN taken ELSE taken \cup {l, u}
        /\ \A v \in Tids \ {u, l} : st'[v] = st[v]
        /\ \A v \in Tids \ {l} : msg'[v] = msg[v]
    BY <1>0, <1>2, ExecedFacts
  <2> HIDE DEF l
  <2>2. CASE t = l
    BY <2>1, <2>2, Zenon
  <2>3. CASE t # l
    BY <1>1, <2>1, <2>3, Zenon DEF ExecInv
  <2> QED
    BY <2>2, <2>3
<1>3. CASE ~Execed(u)
  <2>1. st[t] = "exec" /\ msg'[t] = msg[t]
    <3>1. CASE Enter(u)
      BY <1>0, <3>1, EnterFacts, Zenon
    <3>2. CASE Refuse(u) \/ Opened(u) \/ AfterEvent(u)
      <4>1. PICK r \in {"ok", "err"} : UNCHANGED msg /\ Leave(u, r)
        BY <3>2, Zenon DEF Refuse, Opened, AfterEvent
      <4> QED
        BY <1>0, <4>1, LeaveFacts, Zenon
    <3>3. CASE Exec(u)
      BY <1>0, <3>3, ExecFacts, Zenon
    <3>4. CASE Exit(u) \/ Zombie(u) \/ Kill(u)
      BY <1>0, <3>4, EndFacts, Zenon
    <3>5. CASE Forked(u)
      <4>1. PICK n \in Tids \ {u} : Makes(u, n)
        BY <1>0, <3>5, ForkedFacts, Zenon
      <4> QED
        BY <4>1, Zenon DEF Makes
    <3> QED
      BY <1>3, <3>1, <3>2, <3>3, <3>4, <3>5, Zenon DEF KernelStep, Work
  <2> QED
    BY <1>1, <2>1, Zenon DEF ExecInv
<1> QED
  BY <1>2, <1>3

LEMMA ExecTracer ==
    ASSUME TypeInv, ExecInv, Run
    PROVE  ExecInv'
<1>1. UNCHANGED taken /\ (tpc = "resume" => what \in Stops)
  BY Zenon DEF Run, TypeInv, TracerTypes
<1>2. ASSUME NEW t \in Tids, st'[t] = "exec" PROVE st[t] = "exec" /\ msg'[t] = msg[t]
  BY <1>1, <1>2, TracerTask, ResumedFacts, Zenon
<1> QED
  BY <1>1, <1>2, Zenon DEF ExecInv

-----------------------------------------------------------------------------
(* The steps of the tracer keep the toggle in step.                        *)

\* What the tracer knows of t.
Mind(t) == <<ss[t], pend[t], pexec[t]>>

\* A step of the tracer that is not about t.
LEMMA Aside ==
    ASSUME NEW t \in Tids, InStep(t), UNCHANGED <<Mind(t), call[t], did>>,
           st'[t] = st[t] \/ st'[t] \in {"dying", "gone"},
           Handled(t)' <=> Handled(t), AtExec(t)' => AtExec(t)
    PROVE  InStep(t)'
<1>1. UNCHANGED <<ss[t], pend[t], pexec[t], call[t], did>>
  BY Zenon DEF Mind
<1>2. /\ Quiet(t)' <=> Quiet(t)
      /\ Busy(t)' <=> Busy(t)
      /\ Awaits(t)' <=> Awaits(t)
  BY <1>1, Zenon DEF Quiet, Busy, Awaits
<1>3. Open(t, call[t].ret)' = Open(t, call[t].ret)
  BY <1>1, Zenon DEF Open
<1> QED
  BY <1>1, <1>2, <1>3, Zenon DEF InStep

\* The step that handles the stop of t.
LEMMA StepHandle ==
    ASSUME TypeInv, HandInv, ForkInv, StepInv, Handle, UNCHANGED taken, cur \notin taken
    PROVE  InStep(cur)'
<1>0. /\ cur \in Tids /\ tpc = "handle" /\ tpc' = "resume" /\ what \in Stops
      /\ UNCHANGED <<grp, call, msg, did, cur, what>> /\ InStep(cur)
      /\ st[cur] \in {what, "dying", "zombie"}
  BY Zenon DEF Handle, TypeInv, TracerTypes, StepInv, HandInv, InHandOf
<1>1. ~Handled(cur) /\ Handled(cur)' /\ ~AtExec(cur)'
  BY <1>0, Zenon DEF Handled, AtExec
<1>2. KernelTypes /\ st'[cur] \in {st[cur], "dying"}
  <2>1. UNCHANGED <<st, status>> \/ Die(Group(cur), 137)
    BY Zenon DEF Handle, SyscallEntry, SyscallExit
  <2>2. KernelTypes /\ 137 \in Int /\ Group(cur) \subseteq Tids
    BY DEF TypeInv, Group
  <2> QED
    BY <1>0, <2>1, <2>2, DieFacts, Zenon
<1>t. ss \in [Tids -> SysStates] /\ pend \in [Tids -> Nat] /\ pexec \in [Tids -> Nat]
      /\ call[cur].kind \in Kinds /\ call[cur].id \in Nat
  BY <1>0, <1>2 DEF TypeInv, TracerTypes, KernelTypes, Calls
<1>3. CASE st'[cur] = "dying" \/ st[cur] # what
  BY <1>0, <1>1, <1>2, <1>3, Zenon DEF InStep
<1>4. CASE st[cur] = what /\ st'[cur] = what /\ what = "entry"
  <2>1. Quiet(cur)
    BY <1>0, <1>1, <1>4, Zenon DEF InStep
  <2>2. SyscallEntry(cur)
    BY <1>4, <2>1, Zenon DEF Handle, SyscallExit, Quiet
  <2> DEFINE s == [entry |-> FALSE, kind |-> call[cur].kind]
  <2>3. ~s.entry /\ s.kind = call[cur].kind
    OBVIOUS
  <2> HIDE DEF s
  <2>4. /\ ss' = [ss EXCEPT ![cur] = s]
        /\ pend' = IF call[cur].kind = "open" THEN [pend EXCEPT ![cur] = call[cur].id] ELSE pend
        /\ pexec' = IF call[cur].kind = "exec" THEN [pexec EXCEPT ![cur] = call[cur].id] ELSE pexec
    BY <2>2, Zenon DEF SyscallEntry, s
  <2>5. /\ ss'[cur] = s
        /\ pend'[cur] = IF call[cur].kind = "open" THEN call[cur].id ELSE None
        /\ call[cur].kind = "exec" => pexec'[cur] = call[cur].id
    BY <1>0, <1>t, <2>1, <2>4, Zenon DEF Quiet
  <2>6. Awaits(cur)'
    BY <1>0, <2>3, <2>5, Zenon DEF Awaits, Busy
  <2> QED
    BY <1>0, <1>1, <1>4, <2>6, Zenon DEF InStep
<1>5. CASE st[cur] = what /\ st'[cur] = what /\ what = "exit"
  <2>1. Busy(cur) /\ (call[cur].kind = "open" => Open(cur, call[cur].ret) \in did)
    BY <1>0, <1>1, <1>5, Zenon DEF InStep
  <2>2. SyscallExit(cur)
    BY <1>5, <2>1, Zenon DEF Handle, SyscallEntry, Busy
  <2>3. ss'[cur].entry
    BY <1>0, <1>t, <2>2 DEF SyscallExit, SysStates
  <2>4. pend'[cur] = None
    BY <1>0, <1>t, <2>1, <2>2, Zenon DEF SyscallExit, Busy
  <2>5. Quiet(cur)'
    BY <1>0, <2>3, <2>4, Zenon DEF Quiet
  <2>6. Open(cur, call[cur].ret)' = Open(cur, call[cur].ret)
    BY <1>0, Zenon DEF Open
  <2> QED
    BY <1>0, <1>1, <1>5, <2>1, <2>5, <2>6, Zenon DEF InStep
<1>6. CASE st[cur] = what /\ st'[cur] = what /\ what \in {"new", "exec"}
  <2>1. UNCHANGED <<ss, pend>>
    BY <1>6, Zenon DEF Handle, ExecEvent
  <2>2. (Quiet(cur)' <=> Quiet(cur)) /\ (Busy(cur)' <=> Busy(cur))
    BY <1>0, <2>1, Zenon DEF Quiet, Busy
  <2> QED
    BY <1>0, <1>1, <1>6, <2>2, Zenon DEF InStep
<1>7. CASE st[cur] = what /\ st'[cur] = what /\ what = "fork"
  <2>1. ForkEvent(cur)
    BY <1>7, Zenon DEF Handle
  <2>2. msg[cur] # cur
    BY <1>0, <1>1, <1>7, Zenon DEF ForkInv, Born, TypeInv, TracerTypes
  <2>3. ss'[cur] = ss[cur] /\ UNCHANGED pend
    BY <1>0, <1>t, <2>1, <2>2, Zenon DEF ForkEvent
  <2>4. (Busy(cur)' <=> Busy(cur))
    BY <1>0, <2>3, Zenon DEF Busy
  <2> QED
    BY <1>0, <1>1, <1>7, <2>4, Zenon DEF InStep
<1> QED
  BY <1>0, <1>2, <1>3, <1>4, <1>5, <1>6, <1>7, Zenon DEF Stops

\* ... and for the other tasks.
LEMMA StepHandleOther ==
    ASSUME TypeInv, ForkInv, ExecInv, StepInv, Handle, UNCHANGED taken,
           NEW t \in Tids \ taken, t # cur
    PROVE  InStep(t)'
<1>0. /\ cur \in Tids /\ cur \in traced /\ tpc = "handle" /\ tpc' = "resume" /\ what \in Stops
      /\ UNCHANGED <<grp, call, msg, did, cur, what>> /\ InStep(t)
      /\ ss \in [Tids -> SysStates] /\ pend \in [Tids -> Nat] /\ pexec \in [Tids -> Nat]
  BY Zenon DEF Handle, TypeInv, TracerTypes, StepInv
<1>1. KernelTypes /\ st'[t] \in {st[t], "dying"}
  <2>1. UNCHANGED <<st, status>> \/ Die(Group(cur), 137)
    BY Zenon DEF Handle, SyscallEntry, SyscallExit
  <2>2. KernelTypes /\ 137 \in Int /\ Group(cur) \subseteq Tids
    BY DEF TypeInv, Group
  <2> QED
    BY <1>0, <2>1, <2>2, DieFacts, Zenon
<1>2. (Handled(t)' <=> Handled(t)) /\ (AtExec(t)' => AtExec(t)) /\ ~Handled(cur)
  BY <1>0, <1>1, Zenon DEF Handled, AtExec
<1>3. CASE UNCHANGED Mind(t)
  BY <1>0, <1>1, <1>2, <1>3, Aside, Zenon
<1>4. CASE SyscallEntry(cur)
  <2>1. /\ \E s : ss' = [ss EXCEPT ![cur] = s]
        /\ pend' \in {pend, [pend EXCEPT ![cur] = call[cur].id]}
        /\ pexec' \in {pexec, [pexec EXCEPT ![cur] = call[cur].id]}
    BY <1>4, Zenon DEF SyscallEntry
  <2>2. UNCHANGED Mind(t)
    BY <1>0, <2>1, Zenon DEF Mind
  <2> QED
    BY <1>3, <2>2
<1>5. CASE SyscallExit(cur)
  <2>1. /\ \E s : ss' = [ss EXCEPT ![cur] = s]
        /\ pend' \in {pend, [pend EXCEPT ![cur] = None]} /\ UNCHANGED pexec
    BY <1>5, Zenon DEF SyscallExit
  <2>2. UNCHANGED Mind(t)
    BY <1>0, <2>1, Zenon DEF Mind
  <2> QED
    BY <1>3, <2>2
<1>6. CASE what = "fork" /\ st[cur] = "fork" /\ ForkEvent(cur) /\ UNCHANGED <<st, status>>
  <2>1. ss' = [ss EXCEPT ![msg[cur]] = NoState] /\ UNCHANGED <<pend, pexec>>
    BY <1>6, Zenon DEF ForkEvent
  <2>2. CASE msg[cur] # t
    <3>1. UNCHANGED Mind(t)
      BY <1>0, <2>1, <2>2, Zenon DEF Mind
    <3> QED
      BY <1>3, <3>1
  <2>3. CASE msg[cur] = t
    <3>1. st[t] \in {"new", "dying", "zombie", "gone"}
      BY <1>0, <1>2, <1>6, <2>3, Zenon DEF ForkInv, Born
    <3>2. ss'[t] = NoState /\ NoState.entry
      BY <1>0, <2>1, <2>3 DEF NoState
    <3>3. st[t] = "new" => Quiet(t)'
      BY <1>0, <2>1, <3>2, Zenon DEF InStep, Quiet
    <3>4. ~AtExec(t)'
      BY <1>0, <1>6, <3>1, Zenon DEF AtExec
    <3>5. st'[t] = st[t]
      BY <1>6, Zenon
    <3> QED
      BY <3>1, <3>3, <3>4, <3>5, Zenon DEF InStep
  <2> QED
    BY <2>2, <2>3
<1>7. CASE ExecEvent(cur)
  <2>1. ExecKey(cur) = cur \/ ExecKey(cur) \in taken
    BY <1>0, Zenon DEF ExecKey, ExecInv
  <2>2. UNCHANGED <<ss, pend>> /\ pexec' \in {pexec, [pexec EXCEPT ![ExecKey(cur)] = None]}
    BY <1>7, Zenon DEF ExecEvent
  <2>3. UNCHANGED Mind(t)
    BY <1>0, <2>1, <2>2, Zenon DEF Mind
  <2> QED
    BY <1>3, <2>3
<1>8. CASE UNCHANGED <<ss, pend, pexec>>
  BY <1>3, <1>8, Zenon DEF Mind
<1> QED
  BY <1>4, <1>5, <1>6, <1>7, <1>8, Zenon DEF Handle

\* ptrace::syscall lets the task go on where the toggle says.
LEMMA StepResume ==
    ASSUME TypeInv, HandInv, StepInv, Resume, UNCHANGED taken, NEW t \in Tids \ taken
    PROVE  InStep(t)'
<1>0. /\ cur \in Tids /\ tpc = "resume" /\ tpc' = "sweep" /\ what \in Stops
      /\ UNCHANGED <<grp, call, did, ss, pend, pexec>> /\ InStep(t) /\ st \in [Tids -> States]
  BY Zenon DEF Resume, TypeInv, KernelTypes, TracerTypes, StepInv
<1>1. ~Handled(t)' /\ (AtExec(t)' => st'[t] = "exec")
  BY <1>0, Zenon DEF Handled, AtExec
<1>2. CASE t # cur
  <2>1. st'[t] = st[t] /\ ~Handled(t) /\ UNCHANGED Mind(t)
    BY <1>0, <1>2, Zenon DEF Resume, Handled, Mind
  <2>2. AtExec(t)' => AtExec(t)
    BY <1>1, <2>1, Zenon DEF AtExec
  <2> QED
    BY <1>0, <1>1, <2>1, <2>2, Aside, Zenon
<1>3. CASE t = cur /\ st[t] # what
  <2>1. st[t] \in {"dying", "zombie"}
    BY <1>0, <1>3, Zenon DEF HandInv, InHandOf
  <2>2. st'[t] = st[t]
    BY <1>3, Zenon DEF Resume
  <2> QED
    BY <1>1, <2>1, <2>2, Zenon DEF InStep
<1>4. CASE t = cur /\ st[t] = what
  <2>1. st'[t] = Resumed(what) /\ Handled(t)
    BY <1>0, <1>4, Zenon DEF Resume, Handled
  <2>2. (Quiet(t)' <=> Quiet(t)) /\ (Busy(t)' <=> Busy(t)) /\ (Awaits(t)' <=> Awaits(t))
    BY <1>0, Zenon DEF Quiet, Busy, Awaits
  <2>3. CASE what \in {"new", "exit"}
    <3>1. st'[t] = "run" /\ Quiet(t)'
      BY <1>0, <1>4, <2>1, <2>2, <2>3, ResumedFacts, Zenon DEF InStep
    <3> QED
      BY <1>1, <3>1, Zenon DEF InStep
  <2>4. CASE what = "entry"
    <3>1. st'[t] = "insys" /\ Awaits(t)'
      BY <1>0, <1>4, <2>1, <2>2, <2>4, ResumedFacts, Zenon DEF InStep
    <3> QED
      BY <1>1, <3>1, Zenon DEF InStep
  <2>5. CASE what \in {"fork", "exec"}
    <3>1. st'[t] = "leaving" /\ Busy(t)' /\ call'[t].kind \in {"fork", "clone", "exec"}
      BY <1>0, <1>4, <2>1, <2>2, <2>5, ResumedFacts, Zenon DEF InStep
    <3> QED
      BY <1>1, <3>1, Zenon DEF InStep
  <2> QED
    BY <1>0, <2>3, <2>4, <2>5, Zenon DEF Stops
<1> QED
  BY <1>2, <1>3, <1>4

LEMMA StepTracer ==
    ASSUME TypeInv, HandInv, ForkInv, ExecInv, StepInv, Run
    PROVE  StepInv'
<1>0. UNCHANGED <<call, did, taken>> /\ st \in [Tids -> States] /\ ss \in [Tids -> SysStates]
      /\ pend \in [Tids -> Nat] /\ pexec \in [Tids -> Nat]
  BY TracerOnTasks, Zenon DEF TypeInv, KernelTypes, TracerTypes
<1> SUFFICES ASSUME NEW t \in Tids \ taken PROVE InStep(t)'
  BY <1>0, Zenon DEF StepInv
<1>1. InStep(t) /\ t \in Tids
  BY Zenon DEF StepInv
<1>2. ASSUME st'[t] \in {"dying", "zombie", "gone"}, tpc' # "handle" PROVE InStep(t)'
  <2>1. ~AtExec(t)'
    BY <1>2, Zenon DEF AtExec
  <2> QED
    BY <1>2, <2>1, Zenon DEF InStep
<1>3. CASE Attach
  <2>1. UNCHANGED <<ss, pend, pexec, cur, what>> /\ tpc = "attach" /\ tpc' \in {"sweep", "failed"}
        /\ \/ st[Root] = "new" /\ st' = [st EXCEPT ![Root] = "run"]
           \/ st[Root] = "zombie" /\ st' = [st EXCEPT ![Root] = "gone"]
    BY <1>3, Zenon DEF Attach
  <2>2. CASE t # Root
    <3>1. st'[t] = st[t] /\ UNCHANGED Mind(t) /\ (Handled(t)' <=> Handled(t)) /\ (AtExec(t)' => AtExec(t))
      BY <1>0, <1>1, <2>1, <2>2, Zenon DEF Mind, Handled, AtExec
    <3> QED
      BY <1>0, <1>1, <3>1, Aside, Zenon
  <2>3. CASE t = Root /\ st[Root] = "new"
    <3>1. st'[t] = "run" /\ ~AtExec(t)'
      BY <1>0, <1>1, <2>1, <2>3, Zenon DEF AtExec
    <3>2. Quiet(t)'
      BY <1>1, <2>1, <2>3, Zenon DEF InStep, Quiet
    <3> QED
      BY <3>1, <3>2, Zenon DEF InStep
  <2>4. CASE t = Root /\ st[Root] # "new"
    BY <1>0, <1>1, <1>2, <2>1, <2>4, Zenon
  <2> QED
    BY <2>2, <2>3, <2>4
<1>4. CASE \E u \in Tids : Wait(u)
  <2>0. PICK u \in Tids : Wait(u)
    BY <1>4
  <2>1. CASE st[u] = "zombie"
    <3>1. HandleExit(u, status[u]) /\ st' = [st EXCEPT ![u] = "gone"] /\ tpc = "sweep" /\ tpc' = "sweep"
      BY <2>0, <2>1, Zenon DEF Wait, Stops, Live
    <3>2. CASE t = u
      BY <1>0, <1>2, <3>1, <3>2, Zenon
    <3>3. CASE t # u
      <4>1. st'[t] = st[t] /\ UNCHANGED Mind(t) /\ (Handled(t)' <=> Handled(t)) /\ (AtExec(t)' => AtExec(t))
        BY <1>0, <1>1, <3>1, <3>3, Zenon DEF HandleExit, Mind, Handled, AtExec
      <4> QED
        BY <1>0, <1>1, <4>1, Aside, Zenon
    <3> QED
      BY <3>2, <3>3
  <2>2. CASE st[u] # "zombie"
    <3>1. UNCHANGED <<st, ss, pend, pexec>> /\ tpc = "sweep"
          /\ (tpc' = "sweep" \/ (tpc' = "handle" /\ cur' = u /\ what' = st[u]))
      BY <2>0, <2>2, Zenon DEF Wait
    <3>2. st'[t] = st[t] /\ UNCHANGED Mind(t) /\ (Handled(t)' <=> Handled(t)) /\ (AtExec(t)' => AtExec(t))
      BY <3>1, Zenon DEF Mind, Handled, AtExec
    <3> QED
      BY <1>0, <1>1, <3>2, Aside, Zenon
  <2> QED
    BY <2>1, <2>2
<1>5. CASE Handle
  <2>1. UNCHANGED <<cur, taken>>
    BY <1>0, <1>5, Zenon DEF Handle
  <2>2. CASE t = cur
    BY <1>5, <2>1, <2>2, StepHandle, Zenon
  <2>3. CASE t # cur
    BY <1>5, <2>1, <2>3, StepHandleOther, Zenon
  <2> QED
    BY <2>2, <2>3
<1>6. CASE Resume
  BY <1>0, <1>6, StepResume, Zenon
<1>7. CASE SweepEnd
  <2>1. UNCHANGED <<ss, pend, pexec>> /\ tpc = "sweep" /\ tpc' \in {"sweep", "done", "reap"}
        /\ (UNCHANGED st \/ Die(UNION {Group(u) : u \in traced}, 137))
    BY <1>7, Zenon DEF SweepEnd
  <2>2. st'[t] = st[t] \/ st'[t] = "dying"
    <3>1. KernelTypes /\ 137 \in Int /\ UNION {Group(u) : u \in traced} \subseteq Tids
      BY DEF TypeInv, Group
    <3> QED
      BY <1>1, <2>1, <3>1, DieFacts, Zenon
  <2>3. UNCHANGED Mind(t) /\ (Handled(t)' <=> Handled(t)) /\ (AtExec(t)' => AtExec(t))
    BY <2>1, <2>2, Zenon DEF Mind, Handled, AtExec
  <2> QED
    BY <1>0, <1>1, <2>2, <2>3, Aside, Zenon
<1>8. CASE Reap
  <2>1. tpc = "reap" /\ tpc' \in {"reap", "done"}
        /\ \/ UNCHANGED <<st, ss, pend, pexec>>
           \/ /\ cur \in Tids /\ st' = [st EXCEPT ![cur] = "gone"] /\ Reaped(cur)
    BY <1>8, Zenon DEF Reap, TypeInv, TracerTypes
  <2>2. CASE UNCHANGED <<st, ss, pend, pexec>>
    <3>1. st'[t] = st[t] /\ UNCHANGED Mind(t) /\ (Handled(t)' <=> Handled(t)) /\ (AtExec(t)' => AtExec(t))
      BY <2>1, <2>2, Zenon DEF Mind, Handled, AtExec
    <3> QED
      BY <1>0, <1>1, <3>1, Aside, Zenon
  <2>3. CASE cur \in Tids /\ st' = [st EXCEPT ![cur] = "gone"] /\ Reaped(cur)
    <3>1. CASE t = cur
      BY <1>0, <1>2, <2>1, <2>3, <3>1, Zenon
    <3>2. CASE t # cur
      <4>1. st'[t] = st[t] /\ UNCHANGED Mind(t) /\ (Handled(t)' <=> Handled(t)) /\ (AtExec(t)' => AtExec(t))
        BY <1>0, <1>1, <2>1, <2>3, <3>2, Zenon DEF Reaped, HandleExit, Mind, Handled, AtExec
      <4> QED
        BY <1>0, <1>1, <4>1, Aside, Zenon
    <3> QED
      BY <3>1, <3>2
  <2> QED
    BY <2>1, <2>2, <2>3
<1> QED
  BY <1>3, <1>4, <1>5, <1>6, <1>7, <1>8, Zenon DEF Run

-----------------------------------------------------------------------------
(* What the tracer writes is what happened.                                *)

LEMMA EventFacts ==
    ASSUME NEW e, NEW k, NEW t, NEW n, NEW r, e = Event(k, t, n, r)
    PROVE  e.type = k /\ e.pid = t /\ e.id = n
BY DEF Event

\* The kind and the number of the call of a task in an unhandled stop.
LEMMA HandleCur ==
    ASSUME TypeInv, HandInv, StepInv, Handle
    PROVE  /\ cur \in Tids /\ tpc = "handle" /\ what \in Stops /\ ~Handled(cur)
           /\ cur \notin taken => InStep(cur) /\ st[cur] \in {what, "dying", "zombie"}
           /\ call[cur].kind \notin {"none", "exit"} => call[cur].id # None
<1>1. cur \in Tids /\ tpc = "handle" /\ what \in Stops /\ ~Handled(cur)
  BY Zenon DEF Handle, TypeInv, TracerTypes, Handled
<1>2. cur \notin taken => InStep(cur) /\ st[cur] \in {what, "dying", "zombie"}
  BY <1>1, Zenon DEF StepInv, HandInv, InHandOf
<1>3. call[cur].kind \notin {"none", "exit"} => call[cur].id # None
  BY <1>1 DEF TypeInv, KernelTypes, None
<1> QED
  BY <1>1, <1>2, <1>3

\* At the exit of an open its result is written, at the exit of another call nothing.
LEMMA ExitWrites ==
    ASSUME TypeInv, HandInv, StepInv, Handle, cur \notin taken, st[cur] = "exit"
    PROVE  IF call[cur].kind = "open"
             THEN Open(cur, call[cur].ret) \in did /\ Write(Open(cur, call[cur].ret))
             ELSE UNCHANGED <<log, drops>>
<1>1. what = "exit" /\ InStep(cur) /\ ~Handled(cur)
  BY HandleCur, Zenon
<1>2. Busy(cur) /\ (call[cur].kind = "open" => Open(cur, call[cur].ret) \in did)
  BY <1>1, Zenon DEF InStep
<1>3. SyscallExit(cur)
  BY <1>1, <1>2, Zenon DEF Handle, SyscallEntry, Busy
<1>4. Ret(cur) = call[cur].ret
  BY <1>1, Zenon DEF Ret
<1>5. CASE call[cur].kind = "open"
  <2>1. ss[cur].kind = "open" /\ pend[cur] = call[cur].id /\ pend[cur] # None
    BY <1>2, <1>5, HandleCur, Zenon DEF Busy
  <2> QED
    BY <1>2, <1>3, <1>4, <1>5, <2>1, Zenon DEF SyscallExit, Open
<1>6. CASE call[cur].kind # "open"
  BY <1>2, <1>3, <1>6, Zenon DEF SyscallExit, Busy
<1> QED
  BY <1>5, <1>6

\* At the event of an execve the call that succeeded is written.
LEMMA ExecWrites ==
    ASSUME TypeInv, HandInv, StepInv, Handle, cur \notin taken, what = "exec"
    PROVE  /\ call[cur].kind = "exec"
           /\ Event("exec", cur, call[cur].id, "ok") \in did
           /\ Write(Event("exec", cur, call[cur].id, "ok"))
<1>1. InStep(cur) /\ AtExec(cur)
  BY HandleCur, Zenon DEF AtExec
<1>2. /\ call[cur].kind = "exec" /\ pexec[cur] = call[cur].id
      /\ Event("exec", cur, call[cur].id, "ok") \in did
  BY <1>1, Zenon DEF InStep
<1>3. pexec[cur] # None
  BY <1>2, HandleCur, Zenon
<1>4. ExecKey(cur) = cur
  BY <1>3, Zenon DEF ExecKey
<1>5. ExecEvent(cur)
  BY Zenon DEF Handle
<1> QED
  BY <1>2, <1>3, <1>4, <1>5, Zenon DEF ExecEvent

\* At any other stop only an io_uring_setup is written.
LEMMA OtherWrites ==
    ASSUME TypeInv, HandInv, StepInv, Handle, cur \notin taken, what # "exec", st[cur] # "exit"
    PROVE  UNCHANGED <<log, drops>> \/ Write(Event("uring", cur, call[cur].id, "none"))
<1>1. what \in {"entry", "exit"} /\ st[cur] = what => SyscallEntry(cur)
  <2> SUFFICES ASSUME what \in {"entry", "exit"}, st[cur] = what PROVE SyscallEntry(cur)
    OBVIOUS
  <2>1. st[cur] = "entry" /\ InStep(cur) /\ ~Handled(cur)
    BY HandleCur, Zenon
  <2>2. ss[cur].entry
    BY <2>1, Zenon DEF InStep, Quiet
  <2> QED
    BY <2>1, <2>2, Zenon DEF Handle, SyscallExit
<1>2. SyscallEntry(cur) => UNCHANGED <<log, drops>> \/ Write(Event("uring", cur, call[cur].id, "none"))
  BY Zenon DEF SyscallEntry
<1> QED
  BY <1>1, <1>2, Zenon DEF Handle, ForkEvent

\* Whatever the state of the task, the event names the task in hand.
LEMMA HandleNames ==
    ASSUME Handle
    PROVE  \A e \in log' \ log : e.pid = cur
<1>1. \/ UNCHANGED log
      \/ \E k, n, r : Write(Event(k, cur, n, r))
  BY Zenon DEF Handle, SyscallEntry, SyscallExit, ForkEvent, ExecEvent
<1> SUFFICES ASSUME NEW e \in log' \ log PROVE e.pid = cur
  OBVIOUS
<1>2. \E k, n, r : e = Event(k, cur, n, r)
  BY <1>1, Zenon DEF Write
<1> QED
  BY <1>2, EventFacts, Zenon

LEMMA EventsTrueKernel ==
    ASSUME TypeInv, EventsTrue, NEW u \in Tids, KernelStep(u), UNCHANGED Traces
    PROVE  EventsTrue'
<1>1. did \subseteq did' /\ UNCHANGED log
  BY Zenon DEF KernelStep, Enter, Work, Kill, Refuse, Opened, Forked, Exec, Execed, AfterEvent, Exit, Zombie, Traces
<1>2. taken \subseteq taken'
  BY KernelTask, Zenon DEF TypeInv, KernelTypes
<1> QED
  BY <1>1, <1>2, Zenon DEF EventsTrue

LEMMA EventsTrueTracer ==
    ASSUME TypeInv, HandInv, StepInv, EventsTrue, Run
    PROVE  EventsTrue'
<1>0. UNCHANGED <<did, taken>>
  BY TracerOnTasks, Zenon
<1> SUFFICES ASSUME NEW e \in log' \ log, e.type \in {"open", "exec"}, e.pid \notin taken
             PROVE  e \in did
  BY <1>0, Zenon DEF EventsTrue
<1>1. CASE Handle
  <2>1. cur \notin taken
    BY <1>1, HandleNames, Zenon
  <2>2. CASE st[cur] = "exit"
    BY <1>1, <2>1, <2>2, ExitWrites, Zenon DEF Write
  <2>3. CASE what = "exec"
    BY <1>1, <2>1, <2>3, ExecWrites, Zenon DEF Write
  <2>4. CASE st[cur] # "exit" /\ what # "exec"
    <3>1. e = Event("uring", cur, call[cur].id, "none")
      BY <1>1, <2>1, <2>4, OtherWrites, Zenon DEF Write
    <3> QED
      BY <3>1 DEF Event
  <2> QED
    BY <2>2, <2>3, <2>4
<1>2. CASE \E t \in Tids : Wait(t)
  <2>1. PICK t \in Tids : Wait(t)
    BY <1>2
  <2>2. e = Event("exit", t, status[t], "ok")
    BY <2>1, Zenon DEF Wait, HandleExit, Write
  <2> QED
    BY <2>2 DEF Event
<1>3. CASE Reap
  <2>1. PICK c : HandleExit(cur, c)
    BY <1>3, Zenon DEF Reap, Reaped
  <2>2. e = Event("exit", cur, c, "ok")
    BY <2>1, Zenon DEF HandleExit, Write
  <2> QED
    BY <2>2 DEF Event
<1>4. CASE Attach \/ Resume \/ SweepEnd
  BY <1>4, Zenon DEF Attach, Resume, SweepEnd
<1> QED
  BY <1>1, <1>2, <1>3, <1>4, Zenon DEF Run

-----------------------------------------------------------------------------

TracerInv == TypeInv /\ HandInv /\ ForkInv /\ ExecInv /\ StepInv

LEMMA InitInv == Init => TracerInv /\ EventsTrue
<1> SUFFICES ASSUME Init PROVE TracerInv /\ EventsTrue
  OBVIOUS
<1>1. /\ \A t \in Tids : st[t] = (IF t = Root THEN st[Root] ELSE "none") /\ status[t] \in {0, 127}
      /\ st[Root] \in {"new", "zombie"} /\ DOMAIN st = Tids /\ DOMAIN status = Tids
      /\ st = [t \in Tids |-> st[t]] /\ status = [t \in Tids |-> status[t]]
  BY Constants, Zenon DEF Init
<1>2. /\ call = [t \in Tids |-> NoCall] /\ ss = [t \in Tids |-> NoState] /\ grp = [t \in Tids |-> t]
      /\ pend = [t \in Tids |-> None] /\ pexec = [t \in Tids |-> None] /\ msg = [t \in Tids |-> None]
      /\ tpc = "attach" /\ todo = {} /\ cur = None /\ traced = {Root} /\ taken = {} /\ did = {} /\ log = {}
      /\ program \in Programs /\ calls = 0
  BY Zenon DEF Init
<1>3. /\ NoCall \in Calls /\ NoCall.kind = "none" /\ NoCall.id = 0
      /\ NoState \in SysStates /\ NoState.entry /\ None \in Nat /\ 0 \in Int /\ 127 \in Int /\ 0 <= 0
  BY DEF NoCall, NoState, Calls, SysStates, Kinds, None
<1>4. KernelTypes
  <2>0. {"none", "new", "zombie"} \subseteq States
    BY DEF States, Live, Stops
  <2>1. st \in [Tids -> States]
    <3>1. \A t \in Tids : st[t] \in {"none", "new", "zombie"}
      BY <1>1, Zenon
    <3>2. \A t \in Tids : st[t] \in States
      BY <2>0, <3>1, Zenon
    <3>3. st = [t \in Tids |-> st[t]]
      BY <1>1
    <3> QED
      BY <3>2, <3>3, Zenon
  <2>2. status \in [Tids -> Int]
    BY <1>1, <1>3, Zenon
  <2>3. call \in [Tids -> Calls] /\ \A t \in Tids : call[t] = NoCall
    BY <1>2, <1>3, Zenon
  <2>4. \A t \in Tids : call[t].kind = "none" /\ call[t].id <= calls
    BY <1>2, <1>3, <2>3, Zenon
  <2>5. calls \in Nat /\ program \subseteq {"open", "exec", "fork", "clone", "uring"}
    BY <1>2, Constants
  <2>6. grp \in [Tids -> Tids] /\ msg \in [Tids -> Tids \cup {None}] /\ taken \subseteq Tids
    BY <1>2, Zenon
  <2> QED
    BY <2>1, <2>2, <2>3, <2>4, <2>5, <2>6, Zenon DEF KernelTypes
<1>5. TracerTypes
  <2>1. ss \in [Tids -> SysStates] /\ pend \in [Tids -> Nat] /\ pexec \in [Tids -> Nat]
    BY <1>2, <1>3, Zenon
  <2> QED
    BY <1>2, <2>1, Constants, Zenon DEF TracerTypes
<1>6. \A t \in Tids : st[t] \in {"none", "new", "zombie"}
  BY <1>1, Zenon
<1>7. \A t \in Tids : Quiet(t)
  BY <1>2, <1>3, Zenon DEF Quiet
<1>8. \A t \in Tids : InStep(t)
  BY <1>2, <1>6, <1>7, Zenon DEF InStep, AtExec
<1>9. HandInv /\ ExecInv /\ EventsTrue /\ StepInv
  BY <1>2, <1>6, <1>8, Zenon DEF HandInv, InHandOf, ExecInv, EventsTrue, StepInv
<1>10. ForkInv
  BY <1>1, <1>2, <1>6, Zenon DEF ForkInv
<1> QED
  BY <1>4, <1>5, <1>9, <1>10, Zenon DEF TracerInv, TypeInv

LEMMA NextStep ==
    ASSUME TracerInv, [Next]_vars
    PROVE  TracerInv' /\ (EventsTrue => EventsTrue')
<1> USE DEF TracerInv
<1>1. CASE Tasks
  <2>1. PICK u \in Tids : KernelStep(u)
    BY <1>1, Zenon DEF Tasks, KernelStep
  <2>2. UNCHANGED Traces
    BY <1>1, Zenon DEF Tasks, tracerVars, Traces
  <2>3. TypeInv'
    <3>1. KernelTypes'
      BY <2>1, KernelTypesStep, Zenon DEF TypeInv
    <3>2. TracerTypes'
      BY <2>2, Zenon DEF TypeInv, TracerTypes, Traces
    <3> QED
      BY <3>1, <3>2, Zenon DEF TypeInv
  <2> QED
    BY <2>1, <2>2, <2>3, HandKernel, ForkKernel, ExecKernel, StepKernel, EventsTrueKernel, Zenon
<1>2. CASE Run
  <2>1. TypeInv'
    BY <1>2, TracerOnTasks, TracerTypesStep, Zenon DEF TypeInv
  <2> QED
    BY <1>2, <2>1, HandTracer, ForkTracer, ExecTracer, StepTracer, EventsTrueTracer, Zenon
<1>3. CASE Expire \/ UNCHANGED vars
  <2>1. UNCHANGED <<kernelVars, tracerVars, taken>>
    BY <1>3, Zenon DEF Expire, vars
  <2>2. /\ UNCHANGED <<st, grp, call, msg, status, did, program, calls>>
        /\ UNCHANGED <<tpc, todo, cur, what, traced, ss, pend, pexec, log, taken>>
    BY <2>1, Zenon DEF kernelVars, tracerVars
  <2>3. TypeInv'
    BY <2>2, Zenon DEF TypeInv, KernelTypes, TracerTypes
  <2>4. HandInv' /\ ForkInv' /\ ExecInv'
    BY <2>2, Zenon DEF HandInv, InHandOf, ForkInv, Born, Handled, ExecInv
  <2>5. ASSUME NEW t \in Tids, InStep(t) PROVE InStep(t)'
    BY <2>2, <2>5, Zenon DEF InStep, Quiet, Busy, Awaits, AtExec, Handled, Open
  <2>6. StepInv' /\ (EventsTrue => EventsTrue')
    BY <2>2, <2>5, Zenon DEF StepInv, EventsTrue
  <2> QED
    BY <2>3, <2>4, <2>6
<1> QED
  BY <1>1, <1>2, <1>3 DEF Next

LEMMA TracerInvHolds == Spec => []TracerInv
<1>1. Init => TracerInv
  BY InitInv
<1>2. TracerInv /\ [Next]_vars => TracerInv'
  BY NextStep
<1> QED
  BY <1>1, <1>2, PTL DEF Spec

\* For any number of tasks and calls: an open or an exec that the tracer writes for
\* a task that is not replaced in execve is one that this task has carried out, with
\* that result, whichever of its stops handle_syscall and handle_ptrace_event meet
\* and whenever the task is killed.
THEOREM EventsTrueHolds == Spec => []EventsTrue
<1>1. Init => EventsTrue
  BY InitInv
<1>2. TracerInv /\ EventsTrue /\ [Next]_vars => EventsTrue'
  BY NextStep
<1> QED
  BY <1>1, <1>2, TracerInvHolds, PTL DEF Spec

-----------------------------------------------------------------------------
(* run returns the root's exit code.                                       *)

\* Nothing kills the root inside a stop.
Good == fault # "killed" /\ "uring" \notin program /\ \A t \in Tids \ {Root} : grp[t] # Root

RootDone == st[Root] = "gone" /\ code = status[Root]

\* The root is on the list until it is reaped, and off it from then on.
Listed(L) == IF RootDone THEN Root \notin L ELSE Root \in L /\ st[Root] # "gone"

RootInv ==
    /\ grp[Root] = Root /\ st[Root] # "none"
    /\ \A t \in Tids : st[t] = "none" => grp[t] = t
    /\ \A p \in Tids : st[p] = "fork" => msg[p] # Root
    /\ Good =>
        /\ tpc \in {"attach", "sweep", "handle", "resume"} => Listed(traced)
        /\ tpc = "reap" => Listed(todo)
        /\ tpc = "done" => RootDone
        /\ InHandOf(Root) => st[Root] = what

\* What a step of the kernel does to the root when nothing kills it inside a stop.
LEMMA RootTask ==
    ASSUME KernelTypes, grp[Root] = Root, Good, NEW u \in Tids, KernelStep(u), fault' # "killed"
    PROVE  /\ st[Root] = "gone" <=> st'[Root] = "gone"
           /\ st[Root] = "gone" => status'[Root] = status[Root]
           /\ st[Root] \in Stops => st'[Root] = st[Root]
<1>0. Root \in Tids /\ (u # Root => grp[u] # Root)
  BY Constants, Zenon DEF Good
<1>1. CASE Enter(u)
  BY <1>0, <1>1, EnterFacts, Zenon DEF Stops
<1>2. CASE Refuse(u) \/ Opened(u) \/ AfterEvent(u)
  <2>1. PICK r \in {"ok", "err"} : UNCHANGED status /\ Leave(u, r)
    BY <1>2, Zenon DEF Refuse, Opened, AfterEvent
  <2>2. st[u] \in {"insys", "leaving"}
    BY <1>2, Zenon DEF Refuse, Opened, AfterEvent
  <2>3. st'[u] = "exit" /\ \A v \in Tids \ {u} : st'[v] = st[v]
    BY <2>1, LeaveFacts
  <2> QED
    BY <1>0, <2>1, <2>2, <2>3, Zenon DEF Stops
<1>3. CASE Forked(u)
  <2>1. PICK n \in Tids \ {u} : Makes(u, n)
    BY <1>3, ForkedFacts, Zenon
  <2> QED
    BY <1>0, <2>1, Zenon DEF Makes, Stops
<1>4. CASE Exec(u)
  <2>1. /\ st[u] = "insys" /\ st'[u] = "dethread" /\ UNCHANGED status
        /\ \A t \in Tids \ {u} : st'[t] = st[t] \/ grp[t] = grp[u]
    BY <1>4, ExecFacts, Zenon
  <2> QED
    BY <1>0, <2>1, Zenon DEF Stops
<1>5. CASE Exit(u)
  <2> DEFINE S == IF u = grp[u] THEN Group(u) ELSE {u}
  <2>1. Die(S, 1) /\ st[u] = "insys"
    BY <1>5, Zenon DEF Exit
  <2>2. S \subseteq Tids /\ 1 \in Int
    BY GroupFacts
  <2>3. Root \in S => u = Root
    BY <1>0, GroupFacts, Zenon
  <2> HIDE DEF S
  <2>4. /\ st'[Root] = st[Root] \/ (st'[Root] = "dying" /\ st[Root] \in Live /\ Root \in Doomed(S))
        /\ st[Root] = "gone" /\ Root \notin S => status'[Root] = status[Root]
        /\ Root \notin S => Doomed(S) = S
    BY <1>0, <2>1, <2>2, DieFacts, Zenon
  <2>5. CASE Root \in S
    BY <2>1, <2>3, <2>4, <2>5, Zenon DEF Stops
  <2>6. CASE Root \notin S
    BY <2>4, <2>6, Zenon
  <2> QED
    BY <2>5, <2>6
<1>6. CASE Zombie(u)
  <2>1. st' = [st EXCEPT ![u] = "zombie"] /\ st[u] = "dying" /\ UNCHANGED status
    BY <1>6, Zenon DEF Zombie
  <2> QED
    BY <1>0, <2>1, Zenon DEF KernelTypes, Stops
<1>7. CASE Execed(u)
  <2> DEFINE l == grp[u]
  <2>1. /\ l \in Tids /\ st[u] = "dethread" /\ st'[l] = "exec" /\ UNCHANGED status
        /\ \A t \in Tids \ {u, l} : st'[t] = st[t]
    BY <1>7, ExecedFacts
  <2>2. u = Root => l = Root
    OBVIOUS
  <2>3. u # Root => l # Root
    BY <1>0
  <2> HIDE DEF l
  <2> QED
    BY <1>0, <2>1, <2>2, <2>3, Zenon DEF Stops
<1>8. ~Kill(u)
  BY Zenon DEF Kill
<1> QED
  BY <1>1, <1>2, <1>3, <1>4, <1>5, <1>6, <1>7, <1>8, Zenon DEF KernelStep, Work

LEMMA RootKernel ==
    ASSUME TypeInv, RootInv, NEW u \in Tids, KernelStep(u), UNCHANGED Traces
    PROVE  RootInv'
<1>0. KernelTypes /\ Root \in Tids /\ UNCHANGED <<tpc, cur, what, traced, todo, code>>
  BY Constants, Zenon DEF TypeInv, Traces
<1>1. \A t \in Tids : st'[t] = "none" => st[t] = "none"
  BY <1>0, KernelTask, Zenon DEF Calm
<1>2. \/ UNCHANGED grp
      \/ \E n \in Tids : /\ st[n] = "none" /\ st'[n] # "none"
                         /\ \A t \in Tids \ {n} : grp'[t] = grp[t]
  <2>1. CASE Forked(u)
    <3>1. PICK n \in Tids \ {u} : Makes(u, n)
      BY <1>0, <2>1, ForkedFacts, Zenon
    <3> QED
      BY <3>1, Zenon DEF Makes
  <2>2. CASE ~Forked(u)
    BY <2>2, Zenon DEF KernelStep, Work, Enter, Refuse, Opened, Exec, Execed, AfterEvent, Exit, Zombie, Kill
  <2> QED
    BY <2>1, <2>2
<1>3. grp'[Root] = Root /\ st'[Root] # "none" /\ \A t \in Tids : st'[t] = "none" => grp'[t] = t
  BY <1>0, <1>1, <1>2, Zenon DEF RootInv
<1>4. ASSUME NEW p \in Tids, st'[p] = "fork" PROVE msg'[p] # Root
  <2>1. CASE Forked(u)
    <3>1. PICK n \in Tids \ {u} : Makes(u, n)
      BY <1>0, <2>1, ForkedFacts, Zenon
    <3>2. n # Root /\ p # n
      BY <1>4, <3>1, Zenon DEF Makes, RootInv
    <3> QED
      BY <1>4, <3>1, <3>2, Zenon DEF Makes, RootInv
  <2>2. CASE ~Forked(u)
    BY <1>0, <1>4, <2>2, ForkOnly, Zenon DEF RootInv
  <2> QED
    BY <2>1, <2>2
<1>5. ASSUME Good' PROVE Good /\ fault' # "killed"
  <2>1. UNCHANGED program /\ (UNCHANGED fault \/ fault' = "killed")
    BY Zenon DEF KernelStep, Work, Enter, Kill
  <2>2. \A t \in Tids \ {Root} : grp'[t] # Root => grp[t] # Root
    BY <1>2, Zenon DEF RootInv
  <2> QED
    BY <1>5, <2>1, <2>2, Zenon DEF Good
<1>6. ASSUME Good'
      PROVE  /\ st[Root] = "gone" <=> st'[Root] = "gone"
             /\ RootDone' <=> RootDone
             /\ InHandOf(Root)' => st'[Root] = what'
  <2>1. Good /\ fault' # "killed" /\ grp[Root] = Root
    BY <1>5, <1>6, Zenon DEF RootInv
  <2>2. /\ st[Root] = "gone" <=> st'[Root] = "gone"
        /\ st[Root] = "gone" => status'[Root] = status[Root]
        /\ st[Root] \in Stops => st'[Root] = st[Root]
    BY <1>0, <2>1, RootTask, Zenon
  <2>3. InHandOf(Root) => st[Root] = what /\ what \in Stops
    BY <2>1, Zenon DEF RootInv, TypeInv, TracerTypes, InHandOf
  <2>4. InHandOf(Root)' => InHandOf(Root)
    BY <1>0, Zenon DEF InHandOf
  <2> QED
    BY <1>0, <2>2, <2>3, <2>4, Zenon DEF RootDone
<1>7. ASSUME Good'
      PROVE  /\ tpc' \in {"attach", "sweep", "handle", "resume"} => Listed(traced)'
             /\ tpc' = "reap" => Listed(todo)'
             /\ tpc' = "done" => RootDone'
  BY <1>0, <1>5, <1>6, <1>7, Zenon DEF RootInv, Listed
<1> QED
  BY <1>3, <1>4, <1>6, <1>7, Zenon DEF RootInv

LEMMA RootTracer ==
    ASSUME TypeInv, RootInv, Run
    PROVE  RootInv'
<1>0. /\ UNCHANGED <<grp, program, fault, call>> /\ (tpc = "resume" => what \in Stops) /\ Root \in Tids
      /\ KernelTypes /\ st \in [Tids -> States] /\ todo \subseteq traced
  BY TracerOnTasks, Constants, Zenon DEF TypeInv, KernelTypes, TracerTypes
<1>1. ASSUME NEW t \in Tids
      PROVE  /\ st'[t] = "none" => st[t] = "none"
             /\ st'[t] = "fork" => st[t] = "fork" /\ msg'[t] = msg[t]
  BY <1>0, TracerTask, ResumedFacts, Zenon
<1>2. /\ grp'[Root] = Root /\ st'[Root] # "none"
      /\ \A t \in Tids : st'[t] = "none" => grp'[t] = t
      /\ \A p \in Tids : st'[p] = "fork" => msg'[p] # Root
  BY <1>0, <1>1, Zenon DEF RootInv
<1>3. Good' <=> Good
  BY <1>0, Zenon DEF Good
<1> SUFFICES ASSUME Good
             PROVE  /\ tpc' \in {"attach", "sweep", "handle", "resume"} => Listed(traced)'
                    /\ tpc' = "reap" => Listed(todo)'
                    /\ tpc' = "done" => RootDone'
                    /\ InHandOf(Root)' => st'[Root] = what'
  BY <1>2, <1>3, Zenon DEF RootInv
<1>g. /\ tpc \in {"attach", "sweep", "handle", "resume"} => Listed(traced)
      /\ tpc = "reap" => Listed(todo)
      /\ InHandOf(Root) => st[Root] = what
  BY Zenon DEF RootInv
<1>4. CASE Attach
  <2>1. /\ tpc = "attach" /\ UNCHANGED traced /\ tpc' \in {"sweep", "failed"}
        /\ tpc' = "sweep" => st[Root] = "new" /\ st' = [st EXCEPT ![Root] = "run"]
    BY <1>4, Zenon DEF Attach
  <2>2. tpc' = "sweep" => st[Root] = "new" /\ st'[Root] = "run"
    BY <1>0, <2>1, Zenon
  <2> QED
    BY <1>g, <2>1, <2>2, Zenon DEF Listed, RootDone, InHandOf
<1>5. CASE \E t \in Tids : Wait(t)
  <2>0. PICK t \in Tids : Wait(t)
    BY <1>5
  <2>1. tpc = "sweep" /\ t \in traced /\ UNCHANGED status
    BY <1>0, <2>0, Zenon DEF Wait
  <2>2. CASE st[t] = "zombie"
    <3>1. /\ HandleExit(t, status[t]) /\ st' = [st EXCEPT ![t] = "gone"] /\ tpc' = "sweep"
          /\ traced' = traced \ {t}
      BY <2>0, <2>1, <2>2, Zenon DEF Wait, Stops, Live
    <3>2. CASE t = Root
      <4>1. RootDone' /\ Root \notin traced'
        BY <1>0, <2>1, <3>1, <3>2, Zenon DEF RootDone, HandleExit
      <4> QED
        BY <3>1, <4>1, Zenon DEF Listed, InHandOf
    <3>3. CASE t # Root
      <4>1. st'[Root] = st[Root] /\ UNCHANGED code /\ (Root \in traced' <=> Root \in traced)
        BY <1>0, <3>1, <3>3, Zenon DEF HandleExit
      <4> QED
        BY <1>g, <2>1, <3>1, <4>1, Zenon DEF Listed, RootDone, InHandOf
    <3> QED
      BY <3>2, <3>3
  <2>3. CASE st[t] # "zombie"
    <3>1. /\ UNCHANGED <<st, code>> /\ traced' \in {traced, traced \ {t}}
          /\ traced' # traced => st[t] = "gone"
          /\ tpc' = "sweep" \/ (tpc' = "handle" /\ cur' = t /\ what' = st[t])
      BY <2>0, <2>1, <2>3, Zenon DEF Wait, Echild
    <3>2. st[t] = "gone" => t # Root
      BY <1>g, <2>1, Zenon DEF Listed
    <3>3. Root \in traced' <=> Root \in traced
      BY <3>1, <3>2, Zenon
    <3> QED
      BY <1>g, <2>1, <3>1, <3>3, Zenon DEF Listed, RootDone, InHandOf
  <2> QED
    BY <2>2, <2>3
<1>6. CASE Handle
  <2>1. /\ tpc = "handle" /\ tpc' = "resume" /\ UNCHANGED <<code, cur, what>> /\ cur \in Tids
    BY <1>6, Zenon DEF Handle, TypeInv, TracerTypes
  <2>2. call[cur].kind # "uring"
    BY <2>1, Zenon DEF TypeInv, KernelTypes, Good
  <2>3. UNCHANGED <<st, status>>
    BY <1>6, <2>2, Zenon DEF Handle, SyscallEntry, SyscallExit
  <2>4. UNCHANGED traced \/ (traced' = traced \cup {msg[cur]} /\ st[cur] = "fork")
    BY <1>6, Zenon DEF Handle, ForkEvent, ExecEvent
  <2>5. Root \in traced' <=> Root \in traced
    BY <2>1, <2>4, Zenon DEF RootInv
  <2> QED
    BY <1>g, <2>1, <2>3, <2>5, Zenon DEF Listed, RootDone, InHandOf
<1>7. CASE Resume
  <2>1. /\ tpc = "resume" /\ tpc' = "sweep" /\ cur \in Tids /\ what \in Stops /\ UNCHANGED <<code, status>>
        /\ \/ st[cur] = what /\ st' = [st EXCEPT ![cur] = Resumed(what)] /\ UNCHANGED traced
           \/ st[cur] # what /\ UNCHANGED st /\ traced' = traced \ {cur}
    BY <1>7, Zenon DEF Resume, TypeInv, TracerTypes
  <2>2. CASE cur = Root
    <3>1. st[Root] = what /\ st'[Root] = Resumed(what) /\ UNCHANGED traced
      BY <1>0, <1>g, <2>1, <2>2, Zenon DEF InHandOf
    <3>2. st[Root] # "gone" /\ st'[Root] # "gone"
      BY <2>1, <3>1, ResumedFacts, Zenon DEF Stops
    <3> QED
      BY <1>g, <2>1, <3>1, <3>2, Zenon DEF Listed, RootDone, InHandOf
  <2>3. CASE cur # Root
    <3>1. st'[Root] = st[Root] /\ (Root \in traced' <=> Root \in traced)
      BY <1>0, <2>1, <2>3, Zenon
    <3> QED
      BY <1>g, <2>1, <3>1, Zenon DEF Listed, RootDone, InHandOf
  <2> QED
    BY <2>2, <2>3
<1>8. CASE SweepEnd
  <2> DEFINE S == UNION {Group(u) : u \in traced}
  <2>1. /\ tpc = "sweep" /\ UNCHANGED <<code, traced, cur>>
        /\ \/ traced = {} /\ tpc' = "done" /\ UNCHANGED <<st, status>>
           \/ Die(S, 137) /\ tpc' = "reap" /\ todo' = traced
           \/ UNCHANGED <<st, status>> /\ tpc' = "sweep"
    BY <1>8, Zenon DEF SweepEnd
  <2>2. S \subseteq Tids /\ 137 \in Int /\ \A t \in S : st[t] # "gone"
    BY DEF Group
  <2> HIDE DEF S
  <2>3. (st[Root] = "gone" <=> st'[Root] = "gone") /\ (st[Root] = "gone" => status'[Root] = status[Root])
    BY <1>0, <2>1, <2>2, DieFacts, Zenon DEF Live, Stops
  <2>4. RootDone' <=> RootDone
    BY <2>1, <2>3, Zenon DEF RootDone
  <2>5. Listed(traced)
    BY <1>g, <2>1, Zenon
  <2>6. Listed(traced)'
    BY <2>1, <2>3, <2>4, <2>5, Zenon DEF Listed
  <2>7. tpc' = "done" => RootDone'
    BY <2>1, <2>4, <2>5, Zenon DEF Listed
  <2>8. tpc' = "reap" => Listed(todo)'
    BY <2>1, <2>6, Zenon DEF Listed
  <2> QED
    BY <2>1, <2>6, <2>7, <2>8, Zenon DEF InHandOf
<1>9. CASE Reap
  <2>1. tpc = "reap" /\ tpc' \in {"reap", "done"} /\ UNCHANGED status /\ cur \in todo \cup {None}
    BY <1>9, Zenon DEF Reap, TypeInv, TracerTypes
  <2>2. Listed(todo)
    BY <1>g, <2>1, Zenon
  <2>3. CASE cur # None
    <3>1. /\ st[cur] \in {"zombie", "gone"} /\ Reaped(cur) /\ st' = [st EXCEPT ![cur] = "gone"]
          /\ todo' = todo \ {cur} /\ tpc' = "reap" /\ cur \in todo /\ cur \in Tids
      BY <1>0, <1>9, <2>1, <2>3, Zenon DEF Reap, TypeInv, TracerTypes
    <3>2. CASE cur = Root
      <4>1. st[Root] = "zombie"
        BY <2>2, <3>1, <3>2, Zenon DEF Listed
      <4>2. RootDone'
        BY <1>0, <2>1, <3>1, <3>2, <4>1, Zenon DEF Reaped, HandleExit, RootDone
      <4> QED
        BY <3>1, <3>2, <4>2, Zenon DEF Listed, InHandOf
    <3>3. CASE cur # Root
      <4>1. st'[Root] = st[Root] /\ UNCHANGED code /\ (Root \in todo' <=> Root \in todo)
        BY <1>0, <3>1, <3>3, Zenon DEF Reaped, HandleExit
      <4> QED
        BY <2>1, <2>2, <3>1, <4>1, Zenon DEF Listed, RootDone, InHandOf
    <3> QED
      BY <3>2, <3>3
  <2>4. CASE cur = None
    <3>1. UNCHANGED <<st, code, todo>> /\ (tpc' = "reap" \/ (tpc' = "done" /\ todo = {}))
      BY <1>9, <2>1, <2>4, Zenon DEF Reap
    <3> QED
      BY <2>1, <2>2, <3>1, Zenon DEF Listed, RootDone, InHandOf
  <2> QED
    BY <2>3, <2>4
<1> QED
  BY <1>4, <1>5, <1>6, <1>7, <1>8, <1>9, Zenon DEF Run

LEMMA RootInvStep ==
    ASSUME TypeInv, RootInv, [Next]_vars
    PROVE  RootInv'
<1>1. CASE Tasks
  BY <1>1, RootKernel, Zenon DEF Tasks, KernelStep, tracerVars, Traces
<1>2. CASE Run
  BY <1>2, RootTracer, Zenon
<1>3. CASE Expire \/ UNCHANGED vars
  <2>1. UNCHANGED <<kernelVars, tracerVars>>
    BY <1>3, Zenon DEF Expire, vars
  <2>2. /\ UNCHANGED <<st, grp, msg, status, program, fault>>
        /\ UNCHANGED <<tpc, todo, cur, what, traced, code>>
    BY <2>1, Zenon DEF kernelVars, tracerVars
  <2> QED
    BY <2>2, Zenon DEF RootInv, Good, RootDone, Listed, InHandOf
<1> QED
  BY <1>1, <1>2, <1>3 DEF Next

\* For any number of tasks and calls: when run returns Ok, the root has been reaped
\* and last_exit_code is its status, through any sweep, clone, execve and deadline,
\* unless the root was killed inside a stop (an outside SIGKILL, io_uring_setup) or
\* had a thread of its own.
THEOREM RootCodeHolds == Spec => []RootCode
<1>1. Init => RootInv
  <2> SUFFICES ASSUME Init PROVE RootInv
    OBVIOUS
  <2>1. /\ \A t \in Tids : st[t] = (IF t = Root THEN st[Root] ELSE "none")
        /\ st[Root] \in {"new", "zombie"} /\ \A t \in Tids : grp[t] = t
        /\ tpc = "attach" /\ traced = {Root}
    BY Constants, Zenon DEF Init
  <2>2. Listed(traced)
    BY <2>1, Zenon DEF Listed, RootDone
  <2> QED
    BY <2>1, <2>2, Constants, Zenon DEF RootInv, InHandOf
<1>2. TypeInv /\ RootInv /\ [Next]_vars => RootInv'
  BY RootInvStep
<1>3. RootInv => RootCode
  BY Zenon DEF RootInv, RootCode, ReturnsRootCode, RootDone, Good
<1>4. TracerInv => TypeInv
  BY DEF TracerInv
<1> QED
  BY <1>1, <1>2, <1>3, <1>4, TracerInvHolds, PTL DEF Spec

-----------------------------------------------------------------------------
(* Nothing that happened is left out.                                      *)

\* d is the last call of its task, and the task is past it.
Fits(d) ==
    LET t == d.pid IN
    /\ call[t].kind \in {"open", "exec"}
    /\ st[t] \in {"exit", "leaving", "run", "exec", "dying", "zombie", "gone"}
    /\ call[t].kind = "open" => d = Open(t, call[t].ret)
    /\ call[t].kind = "exec" => d = Event("exec", t, call[t].id, "ok")

DidOk(d) ==
    /\ d.pid \in Tids /\ d.id \in Nat /\ d.id <= calls
    /\ InHand(d) /\ d.pid \notin taken => Fits(d)

DidInv == \A d \in did : DidOk(d)

LEMMA FitsTask ==
    ASSUME NEW d, d.pid \in Tids, NEW t, t = d.pid, Fits(d), call'[t] = call[t],
           st'[t] \in {"exit", "leaving", "run", "exec", "dying", "zombie", "gone"}
    PROVE  Fits(d)'
<1>1. Open(t, call[t].ret)' = Open(t, call[t].ret)
  BY Zenon DEF Open
<1> QED
  BY <1>1, Zenon DEF Fits

\* A call is not carried out before its task is in it.
LEMMA NotInHand ==
    ASSUME DidInv, NEW d \in did, d.pid \notin taken,
           st[d.pid] \in {"none", "new", "entry", "insys", "dethread", "fork"}
    PROVE  ~InHand(d)
BY Zenon DEF DidInv, DidOk, Fits

LEMMA DidKernel ==
    ASSUME TypeInv, StepInv, DidInv, NEW u \in Tids, KernelStep(u)
    PROVE  DidInv'
<1>0. KernelTypes /\ calls \in Nat /\ call[u].id \in Nat /\ call[u].id <= calls
  BY DEF TypeInv, KernelTypes, Calls
<1>1. calls' \in Nat /\ calls <= calls'
  <2>1. CASE Enter(u)
    BY <1>0, <2>1, EnterFacts, Zenon
  <2>2. CASE UNCHANGED calls
    BY <1>0, <2>2
  <2> QED
    BY <2>1, <2>2, Zenon DEF KernelStep, Work, Kill
<1> SUFFICES ASSUME NEW d \in did' PROVE DidOk(d)'
  BY Zenon DEF DidInv
<1> DEFINE t == d.pid
<1>2. CASE d \in did
  <2>1. d.pid \in Tids /\ d.id \in Nat /\ d.id <= calls /\ d.id <= calls'
    <3>1. d.pid \in Tids /\ d.id \in Nat /\ d.id <= calls
      BY <1>2, Zenon DEF DidInv, DidOk
    <3> QED
      BY <1>0, <1>1, <3>1
  <2> SUFFICES ASSUME InHand(d)', d.pid \notin taken' PROVE Fits(d)'
    BY <2>1, Zenon DEF DidOk
  <2>2. d.pid \notin taken /\ (InHand(d) => Fits(d)) /\ InStep(t)
    <3>1. d.pid \notin taken
      BY <1>0, <2>1, KernelTask, Zenon
    <3> QED
      BY <1>2, <2>1, <3>1, Zenon DEF DidInv, DidOk, StepInv
  <2>3. CASE Calm(t)
    <3>1. InHand(d) /\ call'[t] = call[t]
      BY <2>3, Zenon DEF Calm, InHand
    <3>2. st'[t] \in {"exit", "leaving", "run", "exec", "dying", "zombie", "gone"}
      BY <2>2, <2>3, <3>1, Zenon DEF Calm, Fits
    <3> QED
      BY <2>1, <2>2, <3>1, <3>2, FitsTask, Zenon
  <2>4. CASE ~Calm(t)
    <3>1. CASE Enter(u)
      <4>1. t = u
        BY <1>0, <2>1, <2>4, <3>1, EnterFacts, Zenon DEF Calm
      <4>2. call'[t].id = calls' /\ (call'[t].kind # "exit" => calls' = calls + 1)
        BY <1>0, <3>1, <4>1, EnterFacts, Zenon
      <4>3. calls' = calls + 1 => d.id # calls'
        BY <1>0, <2>1
      <4> QED
        BY <4>2, <4>3, Zenon DEF InHand
    <3>2. CASE Refuse(u) \/ Opened(u) \/ AfterEvent(u)
      <4>1. PICK r \in {"ok", "err"} : UNCHANGED msg /\ Leave(u, r)
        BY <3>2, Zenon DEF Refuse, Opened, AfterEvent
      <4>2. /\ st'[u] = "exit" /\ call'[u].kind = call[u].kind /\ call'[u].id = call[u].id
            /\ \A v \in Tids \ {u} : call'[v] = call[v] /\ st'[v] = st[v]
        BY <1>0, <4>1, LeaveFacts
      <4>3. t = u /\ InHand(d)
        BY <2>1, <2>4, <4>1, <4>2, Zenon DEF Calm, InHand
      <4>4. st[t] = "leaving" /\ Fits(d)
        <5>1. Fits(d) /\ st[u] \in {"insys", "leaving"}
          BY <2>2, <3>2, <4>3, Zenon DEF Refuse, Opened, AfterEvent
        <5>2. st[t] # "insys"
          BY <5>1, Zenon DEF Fits
        <5> QED
          BY <4>3, <5>1, <5>2, Zenon
      <4>5. call[t].kind = "exec" /\ d = Event("exec", t, call[t].id, "ok")
        BY <2>2, <4>4, Zenon DEF InStep, Fits
      <4> QED
        BY <4>2, <4>3, <4>5, Zenon DEF Fits
    <3>3. CASE Forked(u)
      <4>1. PICK n \in Tids \ {u} : Makes(u, n)
        BY <1>0, <3>3, ForkedFacts, Zenon
      <4>2. t \in {u, n}
        BY <2>1, <2>4, <4>1, Zenon DEF Makes, Calm
      <4>3. InHand(d) /\ st[t] \in {"insys", "none"}
        BY <4>1, <4>2, Zenon DEF Makes, InHand
      <4> QED
        BY <1>2, <2>2, <4>3, NotInHand, Zenon
    <3>4. CASE Exec(u)
      <4>1. t = u /\ st[u] = "insys" /\ UNCHANGED call
        BY <1>0, <2>1, <2>4, <3>4, ExecFacts, Zenon DEF Calm
      <4>2. InHand(d)
        BY <4>1, Zenon DEF InHand
      <4> QED
        BY <1>2, <2>2, <4>1, <4>2, NotInHand, Zenon
    <3>5. CASE Exit(u) \/ Zombie(u) \/ Kill(u)
      BY <1>0, <2>1, <2>4, <3>5, EndFacts, Zenon DEF Calm
    <3>6. CASE Execed(u)
      <4> DEFINE l == grp[u]
      <4>1. /\ l \in Tids /\ st[u] = "dethread"
            /\ call'[l].kind = call[u].kind /\ call'[l].id = call[u].id
            /\ taken' = IF l = u THEN taken ELSE taken \cup {l, u}
            /\ \A v \in Tids \ {u, l} : st'[v] = st[v]
            /\ \A v \in Tids \ {l} : call'[v] = call[v] /\ msg'[v] = msg[v]
        BY <1>0, <3>6, ExecedFacts
      <4> HIDE DEF l
      <4>2. t \in {u, l}
        BY <2>1, <2>4, <4>1, Zenon DEF Calm
      <4>3. t = u /\ l = u
        BY <4>1, <4>2, Zenon
      <4>4. InHand(d)
        BY <4>1, <4>3, Zenon DEF InHand
      <4> QED
        BY <1>2, <2>2, <4>1, <4>3, <4>4, NotInHand, Zenon
    <3> QED
      BY <3>1, <3>2, <3>3, <3>4, <3>5, <3>6, Zenon DEF KernelStep, Work
  <2> QED
    BY <2>3, <2>4
<1>3. CASE d \notin did
  <2>1. CASE Execed(u)
    <3> DEFINE l == grp[u]
    <3>1. /\ l \in Tids /\ st[u] = "dethread" /\ st'[l] = "exec"
          /\ call'[l].kind = call[u].kind /\ call'[l].id = call[u].id
          /\ did' = did \cup {Event("exec", l, call[u].id, "ok")}
          /\ taken' = IF l = u THEN taken ELSE taken \cup {l, u}
      BY <1>0, <2>1, ExecedFacts
    <3> HIDE DEF l
    <3>2. d = Event("exec", l, call[u].id, "ok")
      BY <1>3, <3>1, Zenon
    <3>3. d.pid = l /\ d.id = call[u].id
      BY <3>2 DEF Event
    <3>4. d.id <= calls'
      BY <1>0, <1>1, <3>3
    <3>5. ASSUME d.pid \notin taken' PROVE Fits(d)'
      <4>1. l = u /\ u \notin taken
        BY <3>1, <3>3, <3>5, Zenon
      <4>2. call[u].kind = "exec"
        BY <3>1, <4>1, Zenon DEF StepInv, InStep
      <4> QED
        BY <3>1, <3>2, <3>3, <4>1, <4>2, Zenon DEF Fits
    <3> QED
      BY <1>0, <3>1, <3>3, <3>4, <3>5, Zenon DEF DidOk
  <2>2. CASE ~Execed(u)
    <3>1. PICK r \in {"ok", "err"} : Leave(u, r) /\ d = Open(u, r) /\ call[u].kind = "open"
      BY <1>3, <2>2, Zenon DEF KernelStep, Work, Enter, Kill, Refuse, Opened, Forked, Exec, AfterEvent, Exit, Zombie
    <3>2. /\ st'[u] = "exit" /\ call'[u].kind = call[u].kind /\ call'[u].id = call[u].id /\ call'[u].ret = r
      BY <1>0, <3>1, LeaveFacts
    <3>3. d.pid = u /\ d.id = call[u].id
      BY <3>1 DEF Open, Event
    <3>4. Open(u, call[u].ret)' = Open(u, r)
      BY <3>2, Zenon DEF Open
    <3>5. Fits(d)'
      BY <3>1, <3>2, <3>3, <3>4, Zenon DEF Fits
    <3>6. d.id <= calls'
      BY <1>0, <1>1, <3>3
    <3> QED
      BY <1>0, <3>3, <3>5, <3>6, Zenon DEF DidOk
  <2> QED
    BY <2>1, <2>2
<1> QED
  BY <1>2, <1>3

LEMMA DidTracer ==
    ASSUME TypeInv, DidInv, Run
    PROVE  DidInv'
<1>0. UNCHANGED <<call, did, calls, taken>> /\ (tpc = "resume" => what \in Stops)
  BY TracerOnTasks, Zenon DEF TypeInv, TracerTypes
<1> SUFFICES ASSUME NEW d \in did PROVE DidOk(d)'
  BY <1>0, Zenon DEF DidInv
<1>1. DidOk(d)
  BY Zenon DEF DidInv
<1>2. d.pid \in Tids /\ d.id \in Nat /\ d.id <= calls'
  BY <1>0, <1>1, Zenon DEF DidOk
<1> SUFFICES ASSUME InHand(d)', d.pid \notin taken' PROVE Fits(d)'
  BY <1>2, Zenon DEF DidOk
<1>3. Fits(d) /\ UNCHANGED call
  BY <1>0, <1>1, Zenon DEF DidOk, InHand
<1> DEFINE t == d.pid
<1>4. st[t] \in {"exit", "leaving", "run", "exec", "dying", "zombie", "gone"}
  BY <1>3, Zenon DEF Fits
<1>5. st'[t] \in {"exit", "leaving", "run", "exec", "dying", "zombie", "gone"}
  BY <1>0, <1>2, <1>4, TracerTask, ResumedFacts, Zenon DEF Stops
<1> QED
  BY <1>2, <1>3, <1>5, FitsTask, Zenon

\* The tracer has handled the stop that tells the outcome of the task's last call.
Settled(t) ==
    \/ st[t] \in {"run", "leaving"}
    \/ st[t] = "exit" /\ (Handled(t) \/ call[t].kind = "exec")
    \/ st[t] = "exec" /\ Handled(t)

OwedCalls == {d \in did : d.pid \notin taken /\ (InHand(d) => Settled(d.pid))}
OwedExits == {Event("exit", t, status[t], "ok") : t \in {u \in Tids \ taken : st[u] = "gone"}}
Owed == OwedCalls \cup OwedExits

\* What is owed is written, but for the one event that may be dropped.
LogInv ==
    tpc # "failed" =>
        /\ drops \in {0, 1} /\ (drops = 0 => Owed \subseteq log)
        /\ \A a, b \in Owed \ log : a = b

LEMMA LogStep ==
    ASSUME LogInv, tpc' # "failed" => tpc # "failed",
           \/ tpc' = "failed"
           \/ Owed' \subseteq Owed /\ UNCHANGED <<log, drops>>
           \/ \E e : Owed' \subseteq Owed \cup {e} /\ Write(e)
    PROVE  LogInv'
<1> SUFFICES ASSUME tpc' # "failed"
             PROVE  /\ drops' \in {0, 1} /\ (drops' = 0 => Owed' \subseteq log')
                    /\ \A a, b \in Owed' \ log' : a = b
  BY Zenon DEF LogInv
<1>1. /\ drops \in {0, 1} /\ (drops = 0 => Owed \subseteq log)
      /\ \A a, b \in Owed \ log : a = b
  BY Zenon DEF LogInv
<1>2. CASE Owed' \subseteq Owed /\ UNCHANGED <<log, drops>>
  BY <1>1, <1>2, Zenon
<1>3. ASSUME NEW e, Owed' \subseteq Owed \cup {e}, log' = log \cup {e}, UNCHANGED drops
      PROVE  /\ drops' \in {0, 1} /\ (drops' = 0 => Owed' \subseteq log')
             /\ \A a, b \in Owed' \ log' : a = b
  <2>1. Owed' \ log' \subseteq Owed \ log
    BY <1>3, Zenon
  <2> QED
    BY <1>1, <1>3, <2>1, Zenon
<1>4. ASSUME NEW e, Owed' \subseteq Owed \cup {e}, UNCHANGED log, drops = 0, drops' = drops + 1
      PROVE  /\ drops' \in {0, 1} /\ (drops' = 0 => Owed' \subseteq log')
             /\ \A a, b \in Owed' \ log' : a = b
  <2>1. Owed' \ log' \subseteq {e}
    BY <1>1, <1>4, Zenon
  <2>2. drops' = 1 /\ drops' # 0
    BY <1>4
  <2> QED
    BY <2>1, <2>2, Zenon
<1> QED
  BY <1>2, <1>3, <1>4, Zenon DEF Write

LEMMA LogKernel ==
    ASSUME TypeInv, HandInv, StepInv, DidInv, LogInv, NEW u \in Tids, KernelStep(u), UNCHANGED Traces
    PROVE  LogInv'
<1>0. KernelTypes /\ UNCHANGED <<tpc, cur, what, log, drops>>
  BY Zenon DEF TypeInv, Traces
<1>h. \A t \in Tids : Handled(t)' <=> Handled(t)
  BY <1>0, Zenon DEF Handled
<1>1. ASSUME NEW d \in did, d \in OwedCalls' PROVE d \in OwedCalls
  <2> DEFINE t == d.pid
  <2>1. t \notin taken' /\ (InHand(d)' => Settled(t)') /\ t \in Tids
    BY <1>1, Zenon DEF OwedCalls, DidInv, DidOk
  <2>2. t \notin taken
    BY <1>0, <2>1, KernelTask, Zenon
  <2>3. CASE Calm(t)
    <3>1. InHand(d)' <=> InHand(d)
      BY <2>3, Zenon DEF Calm, InHand
    <3>2. Settled(t)' => Settled(t)
      BY <1>h, <2>1, <2>3, Zenon DEF Calm, Settled
    <3> QED
      BY <1>1, <2>1, <2>2, <3>1, <3>2, Zenon DEF OwedCalls
  <2>4. CASE ~Calm(t)
    <3>1. st[t] \in {"run", "insys", "leaving", "dethread", "none"}
      BY <1>0, <2>1, <2>4, KernelTask, Zenon
    <3>2. CASE st[t] \in {"run", "leaving"}
      BY <1>1, <2>2, <3>2, Zenon DEF OwedCalls, Settled
    <3>3. CASE st[t] \in {"insys", "dethread", "none"}
      <4>1. ~InHand(d)
        BY <1>1, <2>2, <3>3, NotInHand, Zenon
      <4> QED
        BY <1>1, <2>2, <4>1, Zenon DEF OwedCalls
    <3> QED
      BY <3>1, <3>2, <3>3, Zenon
  <2> QED
    BY <2>3, <2>4
<1>2. ASSUME NEW d \in did', d \notin did PROVE d \notin OwedCalls'
  <2>1. \A t \in Tids : st[t] \in {"insys", "dethread"} => ~Handled(t)
    BY Zenon DEF HandInv, Handled, InHandOf, TypeInv, TracerTypes, Stops
  <2>2. CASE Execed(u)
    <3> DEFINE l == grp[u]
    <3>1. /\ l \in Tids /\ st[u] = "dethread" /\ st'[l] = "exec"
          /\ call'[l].kind = call[u].kind /\ call'[l].id = call[u].id
          /\ did' = did \cup {Event("exec", l, call[u].id, "ok")}
          /\ taken' = IF l = u THEN taken ELSE taken \cup {l, u}
      BY <1>0, <2>2, ExecedFacts
    <3> HIDE DEF l
    <3>2. call[u].kind = "exec" \/ l \in taken'
      BY <3>1, Zenon DEF StepInv, InStep
    <3>3. d = Event("exec", l, call[u].id, "ok")
      BY <1>2, <3>1, Zenon
    <3>4. d.pid = l /\ d.id = call[u].id
      BY <3>3 DEF Event
    <3> QED
      BY <1>h, <2>1, <3>1, <3>2, <3>4, Zenon DEF OwedCalls, InHand, Settled
  <2>3. CASE ~Execed(u)
    <3>1. PICK r \in {"ok", "err"} : /\ Leave(u, r) /\ d = Open(u, r)
                                     /\ call[u].kind = "open" /\ st[u] = "insys"
      BY <1>2, <2>3, Zenon DEF KernelStep, Work, Enter, Kill, Refuse, Opened, Forked, Exec, AfterEvent, Exit, Zombie
    <3>2. st'[u] = "exit" /\ call'[u].kind = call[u].kind /\ call'[u].id = call[u].id
      BY <1>0, <3>1, LeaveFacts
    <3>3. d.pid = u /\ d.id = call[u].id
      BY <3>1 DEF Open, Event
    <3>4. ~Settled(u)' /\ InHand(d)'
      BY <1>h, <2>1, <3>1, <3>2, <3>3, Zenon DEF Settled, InHand
    <3> QED
      BY <3>3, <3>4, Zenon DEF OwedCalls
  <2> QED
    BY <2>2, <2>3
<1>3. ASSUME NEW t \in Tids \ taken', st'[t] = "gone"
      PROVE  t \notin taken /\ st[t] = "gone" /\ status'[t] = status[t]
  <2>1. t \notin taken
    BY <1>0, <1>3, KernelTask, Zenon
  <2>2. CASE Enter(u)
    BY <1>0, <1>3, <2>1, <2>2, EnterFacts, Zenon
  <2>3. CASE Refuse(u) \/ Opened(u) \/ AfterEvent(u)
    <3>1. PICK r \in {"ok", "err"} : UNCHANGED status /\ Leave(u, r)
      BY <2>3, Zenon DEF Refuse, Opened, AfterEvent
    <3>2. st'[u] = "exit" /\ \A v \in Tids \ {u} : st'[v] = st[v]
      BY <1>0, <3>1, LeaveFacts
    <3> QED
      BY <1>3, <2>1, <3>1, <3>2, Zenon
  <2>4. CASE Forked(u)
    <3>1. PICK n \in Tids \ {u} : Makes(u, n)
      BY <1>0, <2>4, ForkedFacts, Zenon
    <3> QED
      BY <1>3, <2>1, <3>1, Zenon DEF Makes
  <2>5. CASE Exec(u)
    BY <1>0, <1>3, <2>1, <2>5, ExecFacts, Zenon
  <2>6. CASE Exit(u) \/ Zombie(u) \/ Kill(u)
    BY <1>0, <1>3, <2>1, <2>6, EndFacts, Zenon
  <2>7. CASE Execed(u)
    <3> DEFINE l == grp[u]
    <3>1. /\ l \in Tids /\ st'[l] = "exec" /\ UNCHANGED status
          /\ taken' = IF l = u THEN taken ELSE taken \cup {l, u}
          /\ \A v \in Tids \ {u, l} : st'[v] = st[v]
      BY <1>0, <2>7, ExecedFacts
    <3> HIDE DEF l
    <3> QED
      BY <1>3, <2>1, <3>1, Zenon
  <2> QED
    BY <2>2, <2>3, <2>4, <2>5, <2>6, <2>7, Zenon DEF KernelStep, Work
<1>4. OwedExits' \subseteq OwedExits
  BY <1>3, Zenon DEF OwedExits
<1>5. OwedCalls' \subseteq OwedCalls
  BY <1>1, <1>2, Zenon DEF OwedCalls
<1> QED
  BY <1>0, <1>4, <1>5, LogStep, Zenon DEF Owed

\* Outside Handle a step of the tracer settles no call that was carried out.
LEMMA OwedTracer ==
    ASSUME TypeInv, HandInv, DidInv, Run, NEW d \in did, d \in OwedCalls', ~(Handle /\ cur = d.pid)
    PROVE  d \in OwedCalls
<1>0. /\ UNCHANGED <<call, did, taken>> /\ (tpc = "resume" => what \in Stops)
      /\ d.pid \in Tids
  BY TracerOnTasks, Zenon DEF TypeInv, TracerTypes, DidInv, DidOk
<1> DEFINE t == d.pid
<1>1. t \notin taken /\ (InHand(d)' => Settled(t)') /\ (InHand(d)' <=> InHand(d))
  BY <1>0, Zenon DEF OwedCalls, InHand
<1> SUFFICES ASSUME InHand(d) PROVE Settled(t)
  BY <1>1, Zenon DEF OwedCalls
<1>2. Settled(t)' /\ st[t] \notin {"none", "new", "entry", "insys", "dethread", "fork"}
  BY <1>1, NotInHand, Zenon
<1>3. Handled(t)' => Handled(t)
  BY Zenon DEF Run, Attach, Wait, Handle, Resume, SweepEnd, Reap, Handled
<1>4. CASE st'[t] = st[t]
  BY <1>0, <1>2, <1>3, <1>4, Zenon DEF Settled
<1>5. CASE st'[t] # st[t]
  <2>1. tpc = "resume" /\ cur = t /\ st[t] = what /\ what \in {"exit", "exec"}
    BY <1>0, <1>2, <1>5, TracerTask, Zenon DEF Settled, Stops
  <2> QED
    BY <2>1, Zenon DEF Settled, Handled
<1> QED
  BY <1>4, <1>5

\* A step of the tracer that reaps no one leaves the exits as they were.
LEMMA ExitsTracer ==
    ASSUME TypeInv, Run, \A t \in Tids : st'[t] = "gone" => st[t] = "gone"
    PROVE  OwedExits' \subseteq OwedExits
<1>0. UNCHANGED taken /\ KernelTypes /\ 137 \in Int
  BY DEF Run, TypeInv
<1>1. ASSUME NEW S \in SUBSET Tids, \A t \in S : st[t] # "gone", Die(S, 137), NEW t \in Tids, st[t] = "gone"
      PROVE  status'[t] = status[t]
  BY <1>0, <1>1, DieFacts, Zenon
<1>2. \/ UNCHANGED status
      \/ Handle /\ Die(Group(cur), 137)
      \/ Die(UNION {Group(t) : t \in traced}, 137)
  BY Zenon DEF Run, Attach, Wait, Handle, SyscallEntry, SyscallExit, Resume, SweepEnd, Reap
<1>3. /\ Group(cur) \in SUBSET Tids /\ \A t \in Group(cur) : st[t] # "gone"
      /\ UNION {Group(t) : t \in traced} \in SUBSET Tids
      /\ \A t \in UNION {Group(u) : u \in traced} : st[t] # "gone"
  BY Zenon DEF Group
<1>4. \A t \in Tids : st[t] = "gone" => status'[t] = status[t]
  BY <1>1, <1>2, <1>3, Zenon
<1> QED
  BY <1>0, <1>4, Zenon DEF OwedExits

LEMMA LogTracer ==
    ASSUME TypeInv, HandInv, StepInv, DidInv, LogInv, Run
    PROVE  LogInv'
<1>0. /\ tpc # "failed" /\ UNCHANGED <<call, did, taken>> /\ st \in [Tids -> States] /\ KernelTypes
  <2>1. tpc # "failed"
    BY Zenon DEF Run, Attach, Wait, Handle, Resume, SweepEnd, Reap
  <2> QED
    BY <2>1, TracerOnTasks, Zenon DEF TypeInv, KernelTypes
<1>1. ~Handle => OwedCalls' \subseteq OwedCalls
  <2> SUFFICES ASSUME ~Handle, NEW d \in OwedCalls' PROVE d \in OwedCalls
    OBVIOUS
  <2>1. d \in did
    BY <1>0, Zenon DEF OwedCalls
  <2> QED
    BY <2>1, OwedTracer, Zenon
<1>2. ASSUME ~Handle, \A t \in Tids : st'[t] = "gone" => st[t] = "gone",
             UNCHANGED <<log, drops>> \/ \E e : Write(e)
      PROVE  LogInv'
  <2>1. Owed' \subseteq Owed
    BY <1>1, <1>2, ExitsTracer, Zenon DEF Owed
  <2>2. \/ Owed' \subseteq Owed /\ UNCHANGED <<log, drops>>
        \/ \E e : Owed' \subseteq Owed \cup {e} /\ Write(e)
    BY <1>2, <2>1, Zenon
  <2> QED
    BY <1>0, <2>2, LogStep, Zenon
<1>3. ASSUME NEW t \in Tids, st[t] = "zombie", HandleExit(t, status[t]), UNCHANGED status,
             st' = [st EXCEPT ![t] = "gone"], ~Handle
      PROVE  LogInv'
  <2> DEFINE e == Event("exit", t, status[t], "ok")
  <2>1. OwedExits' \subseteq OwedExits \cup {e}
    <3>1. \A u \in Tids \ {t} : st'[u] = st[u]
      BY <1>0, <1>3, Zenon
    <3> QED
      BY <1>0, <1>3, <3>1, Zenon DEF OwedExits
  <2>2. Write(e)
    BY <1>3, Zenon DEF HandleExit
  <2> HIDE DEF e
  <2>3. Owed' \subseteq Owed \cup {e} /\ Write(e)
    BY <1>1, <1>3, <2>1, <2>2, Zenon DEF Owed
  <2> QED
    BY <1>0, <2>3, LogStep, Zenon
<1>4. CASE Attach
  <2>1. ~Handle /\ UNCHANGED <<log, drops>>
        /\ (tpc' = "failed" \/ st' = [st EXCEPT ![Root] = "run"])
    BY <1>4, Zenon DEF Attach, Handle
  <2>2. CASE tpc' = "failed"
    BY <2>2, Zenon DEF LogInv
  <2>3. CASE st' = [st EXCEPT ![Root] = "run"]
    BY <1>0, <1>2, <2>1, <2>3, Zenon
  <2> QED
    BY <2>1, <2>2, <2>3
<1>5. CASE \E t \in Tids : Wait(t)
  <2>0. PICK t \in Tids : Wait(t)
    BY <1>5
  <2>1. ~Handle /\ UNCHANGED status
    BY <2>0, Zenon DEF Wait, Handle
  <2>2. \/ st[t] = "zombie" /\ HandleExit(t, status[t]) /\ st' = [st EXCEPT ![t] = "gone"]
        \/ UNCHANGED <<st, log, drops>>
    BY <2>0, Zenon DEF Wait
  <2> QED
    BY <1>2, <1>3, <2>1, <2>2, Zenon
<1>6. CASE Resume
  <2>1. ~Handle /\ UNCHANGED <<log, drops>> /\ tpc = "resume" /\ cur \in Tids /\ what \in Stops
    BY <1>6, Zenon DEF Resume, Handle, TypeInv, TracerTypes
  <2>2. \A t \in Tids : st'[t] = st[t] \/ st'[t] = Resumed(what)
    BY <1>0, <1>6, <2>1, Zenon DEF Resume
  <2> QED
    BY <1>2, <2>1, <2>2, ResumedFacts, Zenon
<1>7. CASE SweepEnd
  <2>1. ~Handle /\ UNCHANGED <<log, drops>> /\ (UNCHANGED st \/ Die(UNION {Group(t) : t \in traced}, 137))
    BY <1>7, Zenon DEF SweepEnd, Handle
  <2>2. UNION {Group(t) : t \in traced} \subseteq Tids /\ 137 \in Int
    BY DEF Group
  <2>3. \A t \in Tids : st'[t] = st[t] \/ st'[t] = "dying"
    BY <1>0, <2>1, <2>2, DieFacts, Zenon
  <2> QED
    BY <1>2, <2>1, <2>3, Zenon
<1>8. CASE Reap
  <2>1. ~Handle /\ UNCHANGED status
    BY <1>8, Zenon DEF Reap, Handle
  <2>2. \/ UNCHANGED <<st, log, drops>>
        \/ /\ cur \in Tids /\ st[cur] \in {"zombie", "gone"} /\ Reaped(cur)
           /\ st' = [st EXCEPT ![cur] = "gone"]
    BY <1>8, Zenon DEF Reap, TypeInv, TracerTypes
  <2>3. CASE UNCHANGED <<st, log, drops>>
    BY <1>2, <2>1, <2>3, Zenon
  <2>4. CASE cur \in Tids /\ st[cur] = "zombie" /\ Reaped(cur) /\ st' = [st EXCEPT ![cur] = "gone"]
    BY <1>3, <2>1, <2>4, Zenon DEF Reaped
  <2>5. CASE cur \in Tids /\ st[cur] = "gone" /\ Reaped(cur) /\ st' = [st EXCEPT ![cur] = "gone"]
    <3>1. \A t \in Tids : st'[t] = st[t]
      BY <1>0, <2>5, Zenon
    <3>2. \E e : Write(e)
      BY <2>5, Zenon DEF Reaped, HandleExit
    <3> QED
      BY <1>2, <2>1, <3>1, <3>2, Zenon
  <2> QED
    BY <2>2, <2>3, <2>4, <2>5, Zenon
<1>9. CASE Handle
  <2>0. /\ cur \in Tids /\ what \in Stops /\ ~Handled(cur) /\ UNCHANGED <<call, did, taken, cur>>
        /\ cur \notin taken => InStep(cur) /\ st[cur] \in {what, "dying", "zombie"}
    BY <1>0, <1>9, HandleCur, Zenon DEF Handle
  <2>1. \A t \in Tids : st'[t] = st[t] \/ st'[t] = "dying"
    <3>1. UNCHANGED <<st, status>> \/ Die(Group(cur), 137)
      BY <1>9, Zenon DEF Handle, SyscallEntry, SyscallExit
    <3>2. 137 \in Int /\ Group(cur) \subseteq Tids
      BY DEF Group
    <3> QED
      BY <1>0, <3>1, <3>2, DieFacts, Zenon
  <2>2. OwedExits' \subseteq OwedExits
    BY <2>1, ExitsTracer, Zenon
  <2>3. ASSUME NEW d \in OwedCalls', d \notin OwedCalls
        PROVE  d \in did /\ d.pid = cur /\ cur \notin taken /\ InHand(d) /\ Fits(d) /\ Settled(cur)'
    <3>1. d \in did /\ d.pid \notin taken
      BY <1>0, <2>3, Zenon DEF OwedCalls
    <3>2. d.pid = cur
      BY <1>9, <2>3, <3>1, OwedTracer, Zenon
    <3>3. InHand(d) /\ (InHand(d)' <=> InHand(d))
      BY <1>0, <2>3, <3>1, Zenon DEF OwedCalls, InHand
    <3>4. Settled(d.pid)'
      BY <2>3, <3>3, Zenon DEF OwedCalls
    <3> QED
      BY <2>0, <3>1, <3>2, <3>3, <3>4, Zenon DEF DidInv, DidOk
  <2>4. CASE cur \in taken
    <3>1. OwedCalls' \subseteq OwedCalls
      BY <2>3, <2>4, Zenon
    <3>2. UNCHANGED <<log, drops>> \/ \E e : Write(e)
      BY <1>9, Zenon DEF Handle, SyscallEntry, SyscallExit, ForkEvent, ExecEvent
    <3>3. \/ Owed' \subseteq Owed /\ UNCHANGED <<log, drops>>
          \/ \E e : Owed' \subseteq Owed \cup {e} /\ Write(e)
      BY <2>2, <3>1, <3>2, Zenon DEF Owed
    <3> QED
      BY <1>0, <3>3, LogStep, Zenon
  <2>5. CASE cur \notin taken /\ st[cur] = "exit" /\ call[cur].kind = "open"
    <3> DEFINE e == Open(cur, call[cur].ret)
    <3>1. Write(e)
      BY <1>9, <2>5, ExitWrites, Zenon
    <3>2. OwedCalls' \subseteq OwedCalls \cup {e}
      BY <2>3, <2>5, Zenon DEF Fits
    <3> HIDE DEF e
    <3>3. Owed' \subseteq Owed \cup {e}
      BY <2>2, <3>2, Zenon DEF Owed
    <3> QED
      BY <1>0, <3>1, <3>3, LogStep, Zenon
  <2>6. CASE cur \notin taken /\ what = "exec"
    <3> DEFINE e == Event("exec", cur, call[cur].id, "ok")
    <3>1. Write(e) /\ call[cur].kind = "exec"
      BY <1>9, <2>6, ExecWrites, Zenon
    <3>2. OwedCalls' \subseteq OwedCalls \cup {e}
      BY <2>3, <3>1, Zenon DEF Fits
    <3> HIDE DEF e
    <3>3. Owed' \subseteq Owed \cup {e}
      BY <2>2, <3>2, Zenon DEF Owed
    <3> QED
      BY <1>0, <3>1, <3>3, LogStep, Zenon
  <2>7. CASE cur \notin taken /\ what # "exec" /\ ~(st[cur] = "exit" /\ call[cur].kind = "open")
    <3>1. OwedCalls' \subseteq OwedCalls
      <4> SUFFICES ASSUME NEW d \in OwedCalls', d \notin OwedCalls PROVE FALSE
        OBVIOUS
      <4>1. d \in did /\ d.pid = cur /\ InHand(d) /\ Fits(d) /\ Settled(cur)'
        BY <2>3, Zenon
      <4>2. st'[cur] = st[cur] /\ st[cur] = "exit"
        BY <2>0, <2>1, <2>7, <4>1, Zenon DEF Settled, Stops
      <4>3. call[cur].kind = "exec"
        BY <2>7, <4>1, <4>2, Zenon DEF Fits
      <4>4. Settled(cur)
        BY <4>2, <4>3, Zenon DEF Settled
      <4> QED
        BY <2>7, <4>1, <4>4, Zenon DEF OwedCalls
    <3>2. UNCHANGED <<log, drops>> \/ \E e : Write(e)
      BY <1>9, Zenon DEF Handle, SyscallEntry, SyscallExit, ForkEvent, ExecEvent
    <3>3. \/ Owed' \subseteq Owed /\ UNCHANGED <<log, drops>>
          \/ \E e : Owed' \subseteq Owed \cup {e} /\ Write(e)
      BY <2>2, <3>1, <3>2, Zenon DEF Owed
    <3> QED
      BY <1>0, <3>3, LogStep, Zenon
  <2> QED
    BY <2>4, <2>5, <2>6, <2>7, Zenon
<1> QED
  BY <1>4, <1>5, <1>6, <1>7, <1>8, <1>9, Zenon DEF Run

LEMMA LogInvStep ==
    ASSUME TracerInv, DidInv, LogInv, [Next]_vars
    PROVE  DidInv' /\ LogInv'
<1> USE DEF TracerInv
<1>1. CASE Tasks
  <2>1. PICK u \in Tids : KernelStep(u)
    BY <1>1, Zenon DEF Tasks, KernelStep
  <2>2. UNCHANGED Traces
    BY <1>1, Zenon DEF Tasks, tracerVars, Traces
  <2> QED
    BY <2>1, <2>2, DidKernel, LogKernel, Zenon
<1>2. CASE Run
  BY <1>2, DidTracer, LogTracer, Zenon
<1>3. CASE Expire \/ UNCHANGED vars
  <2>1. UNCHANGED <<kernelVars, tracerVars, taken>>
    BY <1>3, Zenon DEF Expire, vars
  <2>2. UNCHANGED <<st, call, status, did, calls, taken, tpc, cur, log, drops>>
    BY <2>1, Zenon DEF kernelVars, tracerVars
  <2>3. DidInv'
    <3>1. \A d \in did : DidOk(d) => DidOk(d)'
      BY <2>2, Zenon DEF DidOk, InHand, Fits, Open
    <3> QED
      BY <2>2, <3>1, Zenon DEF DidInv
  <2>4. LogInv'
    <3>0. \A d : (InHand(d)' <=> InHand(d)) /\ (Settled(d.pid)' <=> Settled(d.pid))
      BY <2>2, Zenon DEF InHand, Settled, Handled
    <3>1. Owed' \subseteq Owed /\ Owed \subseteq Owed'
      BY <2>2, <3>0, Zenon DEF Owed, OwedCalls, OwedExits
    <3> QED
      BY <2>2, <3>1, Zenon DEF LogInv
  <2> QED
    BY <2>3, <2>4
<1> QED
  BY <1>1, <1>2, <1>3 DEF Next

\* What Cardinality says of no event and of one.
IsCount(f, S) == f = [T \in SUBSET S |-> IF T = {} THEN 0 ELSE 1 + f[T \ {CHOOSE x : x \in T}]]

LEMMA CountFacts ==
    ASSUME NEW S, NEW f, IsCount(f, S)
    PROVE  \E g : IsCount(g, S) /\ Cardinality(S) = g[S]
<1>1. Cardinality(S) = (CHOOSE g : IsCount(g, S))[S]
  BY Zenon DEF Cardinality, IsCount
<1>2. IsCount(CHOOSE g : IsCount(g, S), S)
  BY Zenon
<1> QED
  BY <1>1, <1>2, Zenon

LEMMA CountAt ==
    ASSUME NEW S, NEW f, IsCount(f, S), NEW T \in SUBSET S
    PROVE  f[T] = IF T = {} THEN 0 ELSE 1 + f[T \ {CHOOSE x : x \in T}]
BY DEF IsCount

LEMMA CardinalityEmpty == Cardinality({}) = 0
<1>1. IsCount([T \in SUBSET {} |-> 0], {})
  BY DEF IsCount
<1>2. PICK g : IsCount(g, {}) /\ Cardinality({}) = g[{}]
  BY <1>1, CountFacts, Zenon
<1> QED
  BY <1>2 DEF IsCount

LEMMA CardinalitySingle ==
    ASSUME NEW e
    PROVE  Cardinality({e}) = 1
<1>0. (CHOOSE x : x \in {e}) = e
  OBVIOUS
<1>1. \A T : T \in SUBSET {e} <=> T = {} \/ T = {e}
  OBVIOUS
<1>2. {e} # {} /\ {e} \ {e} = {}
  OBVIOUS
<1> DEFINE F == [T \in SUBSET {e} |-> IF T = {} THEN 0 ELSE 1]
<1>3. F[{}] = 0
  BY <1>1
<1>4. \A T \in SUBSET {e} : F[T] = IF T = {} THEN 0 ELSE 1 + F[T \ {CHOOSE x : x \in T}]
  BY <1>0, <1>1, <1>2, <1>3
<1>5. F = [T \in SUBSET {e} |-> F[T]]
  OBVIOUS
<1> HIDE DEF F
<1>6. IsCount(F, {e})
  BY <1>4, <1>5, Zenon DEF IsCount
<1>7. PICK g : IsCount(g, {e}) /\ Cardinality({e}) = g[{e}]
  BY <1>6, CountFacts, Zenon
<1>8. g[{}] = 0
  BY <1>1, <1>7, CountAt
<1>9. g[{e}] = 1 + g[{e} \ {CHOOSE x : x \in {e}}]
  <2>1. {e} \in SUBSET {e}
    BY <1>1
  <2> QED
    BY <1>2, <1>7, <2>1, CountAt, Zenon
<1>10. g[{e}] = 1 + g[{}]
  BY <1>0, <1>2, <1>9
<1> QED
  BY <1>7, <1>8, <1>10

\* For any number of tasks and calls: when run returns Ok, every call that a task not
\* replaced in execve has carried out, and every exit, is in the trace, but for the
\* call a task was killed in and one event if dropped_events is 1.
THEOREM EventsLoggedHolds == Spec => []EventsLogged
<1>1. Init => DidInv /\ LogInv
  <2> SUFFICES ASSUME Init PROVE DidInv /\ LogInv
    OBVIOUS
  <2>1. did = {} /\ drops = 0 /\ \A t \in Tids : st[t] # "gone"
    BY Constants, Zenon DEF Init
  <2>2. Owed = {}
    BY <2>1, Zenon DEF Owed, OwedCalls, OwedExits
  <2> QED
    BY <2>1, <2>2, Zenon DEF DidInv, LogInv
<1>2. TracerInv /\ DidInv /\ LogInv /\ [Next]_vars => DidInv' /\ LogInv'
  BY LogInvStep
<1>3. LogInv => EventsLogged
  <2> SUFFICES ASSUME LogInv, tpc = "done" PROVE Cardinality(Due \ log) <= drops
    BY Zenon DEF EventsLogged
  <2>1. Due \subseteq Owed
    BY Zenon DEF Due, Owed, OwedCalls, OwedExits
  <2>2. /\ drops \in {0, 1} /\ (drops = 0 => Owed \subseteq log)
        /\ \A a, b \in Owed \ log : a = b
    BY Zenon DEF LogInv
  <2>3. CASE Due \ log = {}
    <3>1. Cardinality(Due \ log) = 0
      BY <2>3, CardinalityEmpty, Zenon
    <3> QED
      BY <2>2, <3>1
  <2>4. CASE Due \ log # {}
    <3>1. PICK e : e \in Due \ log
      BY <2>4, Zenon
    <3>2. Due \ log = {e}
      <4>1. e \in Owed \ log /\ \A b \in Due \ log : b \in Owed \ log
        BY <2>1, <3>1, Zenon
      <4>2. \A b \in Due \ log : b = e
        BY <2>2, <4>1, Zenon
      <4> QED
        BY <3>1, <4>2
    <3>3. Cardinality(Due \ log) = 1
      BY <3>2, CardinalitySingle, Zenon
    <3>4. drops # 0
      BY <2>1, <2>2, <3>1, Zenon
    <3> QED
      BY <2>2, <3>3, <3>4
  <2> QED
    BY <2>3, <2>4
<1> QED
  BY <1>1, <1>2, <1>3, TracerInvHolds, PTL DEF Spec
===============================================================================
