---------------------------- MODULE SessionProofs ----------------------------
(***************************************************************************)
(* Theorems about Session, for every value of its constants.               *)
(*                                                                         *)
(* TypeCorrect needs, besides TypeOK, that the clock of a run never runs   *)
(* backwards.  BudgetInv has the four budget properties together: none     *)
(* is inductive alone.  GateImplemented shows that the session is a budget *)
(* gate.  The rest is about what the supervisor records: the events of its *)
(* log and their number, the rows of session_calls, the manifest and the   *)
(* database row that names it.                                             *)
(***************************************************************************)
EXTENDS Session, WellFoundedInduction, TLAPS

-----------------------------------------------------------------------------
(* The operators of Budget.                                                *)

\* Saturating addition stays within the width of the field and never lowers
\* the limit (check_budget_extension).
LEMMA ExtendType ==
    ASSUME NEW l \in [Budgets -> 1 .. LimitMax],
           NEW add \in [Budgets -> 0 .. LimitMax]
    PROVE  /\ Extend(l, add) \in [Budgets -> 1 .. LimitMax]
           /\ \A b \in Budgets : Extend(l, add)[b] >= l[b]
BY BudgetAssumption DEF Extend, SaturatingAdd

\* Charging a call adds to each counter and keeps it a natural number.
LEMMA ChargeType ==
    ASSUME NEW u \in [Charged -> Nat], NEW t \in Nat, NEW n \in Nat
    PROVE  /\ Charge(u, t, n) \in [Charged -> Nat]
           /\ Charge(u, t, n)["tool_calls"] = u["tool_calls"] + 1
           /\ Charge(u, t, n)["tool_time"] = u["tool_time"] + t
           /\ Charge(u, t, n)["output_bytes"] = u["output_bytes"] + n
BY DEF Charge, Charged

\* A number of milliseconds that rounds down to fewer than l seconds is less
\* than l seconds.
LEMMA SecsBound ==
    ASSUME NEW t \in Nat, NEW l \in Nat, ~(Secs(t) >= l)
    PROVE  t < l * MsPerSec
BY BudgetAssumption DEF Secs

\* A charge of at most r overshoots a limit that was not reached by less than r.
LEMMA ChargeBound ==
    ASSUME NEW u \in Nat, NEW d \in Nat, NEW l \in Nat, NEW r \in Nat, u < l, d <= r
    PROVE  u + d < l + r
OBVIOUS

\* Multiplication by a natural number is monotonic.
LEMMA MulMono ==
    ASSUME NEW a \in Nat, NEW b \in Nat, NEW m \in Nat, a <= b
    PROVE  a * m <= b * m
OBVIOUS

-----------------------------------------------------------------------------
(* dispatch_tool_call.                                                     *)

\* Appending events to a log of events gives a log of events.
LEMMA EmitType ==
    ASSUME NEW l \in Seq(Events), NEW es \in Seq(Events)
    PROVE  l \o es \in Seq(Events)
OBVIOUS

\* One event is a log of events.
LEMMA EventType ==
    ASSUME NEW kind \in EventKinds, NEW arg \in EventArgs \cup CallIds
    PROVE  /\ Event(kind, arg) \in Events
           /\ <<Event(kind, arg)>> \in Seq(Events)
<1>1. Event(kind, arg) \in Events
  BY Zenon DEF Event, Events
<1>2. ASSUME NEW e \in Events PROVE <<e>> \in Seq(Events)
  OBVIOUS
<1> QED
  BY <1>1, <1>2, Zenon

\* The 80% warnings are events.
LEMMA WarningEventsType == WarningEvents \in Seq(Events)
<1> DEFINE W(b) == IF WarningDue(b) THEN <<Event("BudgetWarning", b)>> ELSE << >>
<1>1. ASSUME NEW b \in Charged PROVE W(b) \in Seq(Events)
  <2>1. <<Event("BudgetWarning", b)>> \in Seq(Events)
    BY EventType, Zenon DEF EventKinds, EventArgs, Budgets, Charged
  <2>2. << >> \in Seq(Events)
    OBVIOUS
  <2> QED
    BY <2>1, <2>2, Zenon
<1> HIDE DEF W
<1>2. /\ W("tool_calls") \in Seq(Events)
      /\ W("tool_time") \in Seq(Events)
      /\ W("output_bytes") \in Seq(Events)
  BY <1>1, Zenon DEF Charged
<1>3. W("tool_calls") \o W("tool_time") \in Seq(Events)
  BY <1>2, EmitType, Zenon
<1>4. (W("tool_calls") \o W("tool_time")) \o W("output_bytes") \in Seq(Events)
  BY <1>2, <1>3, EmitType, Zenon
<1> QED
  BY <1>4, Zenon DEF W, WarningEvents

\* A request is answered without a run, and then the state changes only if a
\* charged budget has no headroom; or its run starts now, with headroom in
\* every charged budget.
Refused ==
    /\ pc' = "respond"
    /\ UNCHANGED <<execStart, call>>
    /\ \/ UNCHANGED state
       \/ /\ state' = "budget_exhausted"
          /\ \E b \in Charged : Exhausted(used, limit, b)

Admitted(id) ==
    /\ pc' = "exec"
    /\ UNCHANGED state
    /\ execStart' = now
    /\ call' = id
    /\ \A b \in Charged : ~Exhausted(used, limit, b)

LEMMA DispatchOutcome ==
    ASSUME NEW id \in CallIds, NEW class \in Classes,
           log \in Seq(Events), warned \subseteq Charged,
           dispatch_tool_call(id, class)
    PROVE  /\ Refused \/ Admitted(id)
           /\ log' \in Seq(Events)
           /\ warned' \subseteq Charged
<1> DEFINE Goal == /\ Refused \/ Admitted(id)
                   /\ log' \in Seq(Events)
                   /\ warned' \subseteq Charged
<1>1. ASSUME NEW es \in Seq(Events), Reject(es) PROVE Goal
  BY <1>1, EmitType, Zenon DEF Reject, Refused, Emit
<1>2. ASSUME NEW es \in Seq(Events), NEW b \in Charged,
             Exhausted(used, limit, b), RejectExhausted(es, b)
      PROVE  Goal
  <2>1. Append(es, Event("BudgetExhausted", b)) \in Seq(Events)
    BY EventType
       DEF EventKinds, EventArgs, Budgets, Charged
  <2>2. log' \in Seq(Events)
    BY <1>2, <2>1, EmitType, Zenon DEF RejectExhausted, Emit
  <2> QED
    BY <1>2, <2>2, Zenon DEF RejectExhausted, Refused
<1>3. ASSUME NEW es \in Seq(Events), Dispatch(id, es),
             \A b \in Charged : ~Exhausted(used, limit, b)
      PROVE  Goal
  <2>1. <<Event("ToolDispatch", id)>> \in Seq(Events)
    BY EventType, Zenon DEF EventKinds
  <2>2. es \o WarningEvents \in Seq(Events)
    BY EmitType, WarningEventsType, Zenon
  <2>3. (es \o WarningEvents) \o <<Event("ToolDispatch", id)>> \in Seq(Events)
    BY <2>1, <2>2, EmitType, Zenon
  <2>4. log' \in Seq(Events)
    BY <1>3, <2>3, EmitType, Zenon DEF Dispatch, Emit
  <2>5. warned' \subseteq Charged
    BY <1>3, Zenon DEF Dispatch, Warnings
  <2> QED
    BY <1>3, <2>4, <2>5, Zenon DEF Dispatch, Refused, Admitted
<1>4. /\ << >> \in Seq(Events)
      /\ <<Event("ToolDenied", id)>> \in Seq(Events)
      /\ <<Event("ApprovalRequired", "denied")>> \in Seq(Events)
      /\ <<Event("ApprovalRequired", "approved")>> \in Seq(Events)
  BY EventType DEF EventKinds, EventArgs
<1> HIDE DEF Goal
<1>5. ASSUME NEW es \in Seq(Events), CheckBudgets(id, es),
             ~Exhausted(used, limit, "tool_calls")
      PROVE  Goal
  BY <1>2, <1>3, <1>5, Zenon DEF CheckBudgets, Charged
<1>6. ASSUME CheckApproval(id), ~Exhausted(used, limit, "tool_calls")
      PROVE  Goal
  BY <1>1, <1>4, <1>5, <1>6, Zenon DEF CheckApproval
<1>7. Goal
  BY <1>1, <1>2, <1>4, <1>6, Zenon DEF dispatch_tool_call, Charged
<1> QED
  BY <1>7, Zenon DEF Goal

-----------------------------------------------------------------------------
(* The inductive invariant.                                                *)

\* What the budget properties rest on: a run that is in progress was admitted
\* with headroom in every budget and its clock has not passed the timeout, the
\* session is running until the loop starts, and an extension file holds what
\* an operator wrote.
BudgetInv ==
    /\ execStart <= now
    /\ pc = "exec" => /\ state = "running"
                      /\ now - execStart <= RunTimeout
                      /\ \A b \in Charged : ~Exhausted(used, limit, b)
    /\ pc \in {"create", "start"} => state = "running"
    /\ pc \in LoopPcs => state \in {"running", "budget_exhausted"}
    /\ extFile.kind = "full" => extFile.add \in Extensions
    /\ extRead.kind = "full" => extRead.add \in Extensions
    /\ CallBudgetRespected
    /\ OvershootBounded
    /\ ExhaustionIsReal

\* The initial states are well typed.
LEMMA InitType == Init => TypeOK
<1> SUFFICES ASSUME Init PROVE TypeOK
  OBVIOUS
<1>1. ControlTypeOK
  BY CallAssumption DEF Init, ControlTypeOK, Pcs, LoopPcs, States
<1>2. FlagTypeOK
  BY Zenon DEF Init, FlagTypeOK
<1>3. DataTypeOK
  BY BudgetAssumption DEF Init, DataTypeOK, ExtFiles, NoExt, ExtFile
<1>4. log \in Seq(Events)
  BY DEF Init
<1> QED
  BY <1>1, <1>2, <1>3, <1>4, Zenon DEF TypeOK

\* Control points and statuses.
LEMMA ControlStep == TypeOK /\ [Next]_vars => ControlTypeOK'
<1> SUFFICES ASSUME TypeOK, [Next]_vars PROVE ControlTypeOK'
  OBVIOUS
<1> USE DEF TypeOK, ControlTypeOK, loopVars, budgetVars, fileVars, storeVars, cliVars
<1>1. CASE create
  BY <1>1, CallAssumption, Zenon DEF create, Pcs, LoopPcs, States
<1>2. CASE StartAgent
  BY <1>2, CallAssumption, Zenon DEF StartAgent, Pcs, LoopPcs, States
<1>3. CASE CheckKillFlag
  BY <1>3, CallAssumption, Zenon DEF CheckKillFlag, Pcs, LoopPcs, States, LeaveLoop
<1>4. CASE CheckAgentExit
  BY <1>4, CallAssumption, Zenon DEF CheckAgentExit, Pcs, LoopPcs, States, LeaveLoop
<1>5. CASE CheckWallTime
  BY <1>5, CallAssumption, Zenon DEF CheckWallTime, Pcs, LoopPcs, States, LeaveLoop
<1>6. CASE CheckHeartbeat
  BY <1>6, CallAssumption, Zenon DEF CheckHeartbeat, Pcs, LoopPcs, States, LeaveLoop
<1>7. CASE ReadExtension
  BY <1>7, CallAssumption DEF ReadExtension, Pcs, LoopPcs, States
<1>8. CASE check_budget_extension
  BY <1>8, CallAssumption, Zenon DEF check_budget_extension, Pcs, LoopPcs, States
<1>9. CASE emit_resource_snapshot
  BY <1>9, CallAssumption, Zenon DEF emit_resource_snapshot, Pcs, LoopPcs, States
<1>10. CASE Accept
  BY <1>10, CallAssumption DEF Accept, Pcs, LoopPcs, States, LoopError
<1>11. CASE ConnectionWallCheck
  BY <1>11, CallAssumption, Zenon DEF ConnectionWallCheck, Pcs, LoopPcs, States
<1>12. CASE ReadNoRequest
  BY <1>12, CallAssumption DEF ReadNoRequest, Pcs, LoopPcs, States
<1>13. CASE ReadRequest
  <2>1. PICK id \in CallIds, class \in Classes : dispatch_tool_call(id, class)
    BY <1>13, Zenon DEF ReadRequest
  <2>2. Refused \/ Admitted(id)
    BY <2>1, DispatchOutcome, Zenon DEF DataTypeOK
  <2> QED
    BY <1>13, <2>2, Zenon DEF ReadRequest, Refused, Admitted, Pcs, LoopPcs, States
<1>14. CASE write_response
  BY <1>14, CallAssumption DEF write_response, Pcs, LoopPcs, States, LoopError
<1>15. CASE ToolErr
  BY <1>15, CallAssumption, Zenon DEF ToolErr, Pcs, LoopPcs, States
<1>16. CASE Reap
  BY <1>16, CallAssumption, Zenon DEF Reap, Pcs, LoopPcs, States
<1>17. CASE CleanUp
  BY <1>17, CallAssumption, Zenon DEF CleanUp, Pcs, LoopPcs, States
<1>18. CASE StoreEventLog
  BY <1>18, CallAssumption, Zenon DEF StoreEventLog, Pcs, LoopPcs, States
<1>19. CASE StoreManifest
  BY <1>19, CallAssumption, Zenon DEF StoreManifest, Pcs, LoopPcs, States
<1>20. CASE complete_session
  BY <1>20, CallAssumption, Zenon DEF complete_session, Pcs, LoopPcs, States
<1>21. CASE FinalizeFails
  BY <1>21, CallAssumption, Zenon DEF FinalizeFails, Pcs, LoopPcs, States
<1>22. CASE Tick
  BY <1>22, CallAssumption DEF Tick, Pcs, LoopPcs, States
<1>23. CASE AgentExit
  BY <1>23, CallAssumption DEF AgentExit, Pcs, LoopPcs, States
<1>24. CASE TeeKill
  BY <1>24, CallAssumption DEF TeeKill, Pcs, LoopPcs, States
<1>25. CASE StopCheck
  BY <1>25, CallAssumption DEF StopCheck, Pcs, LoopPcs, States
<1>26. CASE StopSignal
  BY <1>26, CallAssumption DEF StopSignal, Pcs, LoopPcs, States
<1>27. CASE StopUpdate
  BY <1>27, CallAssumption, Zenon DEF StopUpdate, Pcs, LoopPcs, States
<1>28. CASE ExtendCheck
  BY <1>28, CallAssumption DEF ExtendCheck, Pcs, LoopPcs, States
<1>29. CASE ExtendOpen
  BY <1>29, CallAssumption DEF ExtendOpen, Pcs, LoopPcs, States
<1>30. CASE ExtendWrite
  BY <1>30, CallAssumption DEF ExtendWrite, Pcs, LoopPcs, States
<1>31. ASSUME NEW bytes \in 0 .. MaxOutput, ToolOk(bytes) PROVE ControlTypeOK'
  BY <1>31, CallAssumption, Zenon
     DEF ToolOk, Pcs, LoopPcs, States, LeaveLoop, LoopError
<1>32. CASE UNCHANGED vars
  BY <1>32, Zenon DEF vars
<1> QED
  BY <1>1, <1>2, <1>3, <1>4, <1>5, <1>6, <1>7, <1>8, <1>9, <1>10, <1>11,
     <1>12, <1>13, <1>14, <1>15, <1>16, <1>17, <1>18, <1>19, <1>20,
     <1>21, <1>22, <1>23, <1>24, <1>25, <1>26, <1>27, <1>28, <1>29,
     <1>30, <1>31, <1>32, Zenon
     DEF Next, Supervisor, LoopStep, FinalStep, Operator, Terminating

\* Flags.
LEMMA FlagStep == TypeOK /\ [Next]_vars => FlagTypeOK'
<1> SUFFICES ASSUME TypeOK, [Next]_vars PROVE FlagTypeOK'
  OBVIOUS
<1> USE DEF TypeOK, FlagTypeOK, loopVars, budgetVars, fileVars, storeVars, cliVars
<1>1. CASE create
  BY <1>1, Zenon DEF create
<1>2. CASE StartAgent
  BY <1>2, Zenon DEF StartAgent
<1>3. CASE CheckKillFlag
  BY <1>3, Zenon DEF CheckKillFlag
<1>4. CASE CheckAgentExit
  BY <1>4, Zenon DEF CheckAgentExit
<1>5. CASE CheckWallTime
  BY <1>5, Zenon DEF CheckWallTime
<1>6. CASE CheckHeartbeat
  BY <1>6, Zenon DEF CheckHeartbeat
<1>7. CASE ReadExtension
  BY <1>7, Zenon DEF ReadExtension
<1>8. CASE check_budget_extension
  BY <1>8, Zenon DEF check_budget_extension
<1>9. CASE emit_resource_snapshot
  BY <1>9, Zenon DEF emit_resource_snapshot
<1>10. CASE Accept
  BY <1>10, Zenon DEF Accept, LoopError
<1>11. CASE ConnectionWallCheck
  BY <1>11, Zenon DEF ConnectionWallCheck
<1>12. CASE ReadNoRequest
  BY <1>12, Zenon DEF ReadNoRequest
<1>13. CASE ReadRequest
  BY <1>13, Zenon DEF ReadRequest
<1>14. CASE write_response
  BY <1>14, Zenon DEF write_response, LoopError
<1>15. CASE ToolErr
  BY <1>15, Zenon DEF ToolErr
<1>16. CASE Reap
  BY <1>16, Zenon DEF Reap
<1>17. CASE CleanUp
  BY <1>17, Zenon DEF CleanUp
<1>18. CASE StoreEventLog
  BY <1>18, Zenon DEF StoreEventLog
<1>19. CASE StoreManifest
  BY <1>19, Zenon DEF StoreManifest
<1>20. CASE complete_session
  BY <1>20, Zenon DEF complete_session
<1>21. CASE FinalizeFails
  BY <1>21, Zenon DEF FinalizeFails
<1>22. CASE Tick
  BY <1>22, Zenon DEF Tick
<1>23. CASE AgentExit
  BY <1>23, Zenon DEF AgentExit
<1>24. CASE TeeKill
  BY <1>24, Zenon DEF TeeKill
<1>25. CASE StopCheck
  BY <1>25, Zenon DEF StopCheck
<1>26. CASE StopSignal
  BY <1>26, Zenon DEF StopSignal
<1>27. CASE StopUpdate
  BY <1>27, Zenon DEF StopUpdate
<1>28. CASE ExtendCheck
  BY <1>28, Zenon DEF ExtendCheck
<1>29. CASE ExtendOpen
  BY <1>29, Zenon DEF ExtendOpen
<1>30. CASE ExtendWrite
  BY <1>30, Zenon DEF ExtendWrite
<1>31. ASSUME NEW bytes \in 0 .. MaxOutput, ToolOk(bytes) PROVE FlagTypeOK'
  BY <1>31, Zenon DEF ToolOk
<1>32. CASE UNCHANGED vars
  BY <1>32, Zenon DEF vars
<1> QED
  BY <1>1, <1>2, <1>3, <1>4, <1>5, <1>6, <1>7, <1>8, <1>9, <1>10, <1>11,
     <1>12, <1>13, <1>14, <1>15, <1>16, <1>17, <1>18, <1>19, <1>20,
     <1>21, <1>22, <1>23, <1>24, <1>25, <1>26, <1>27, <1>28, <1>29,
     <1>30, <1>31, <1>32, Zenon
     DEF Next, Supervisor, LoopStep, FinalStep, Operator, Terminating

\* Limits, counters and files.
LEMMA DataStep == TypeOK /\ BudgetInv /\ [Next]_vars => DataTypeOK'
<1> SUFFICES ASSUME TypeOK /\ BudgetInv, [Next]_vars PROVE DataTypeOK'
  OBVIOUS
<1> USE DEF TypeOK, BudgetInv, DataTypeOK, loopVars, budgetVars, fileVars, storeVars, cliVars
<1>1. CASE create
  BY <1>1, Zenon DEF create
<1>2. CASE StartAgent
  BY <1>2, Zenon DEF StartAgent
<1>3. CASE CheckKillFlag
  BY <1>3, Zenon DEF CheckKillFlag
<1>4. CASE CheckAgentExit
  BY <1>4, Zenon DEF CheckAgentExit
<1>5. CASE CheckWallTime
  BY <1>5, Zenon DEF CheckWallTime
<1>6. CASE CheckHeartbeat
  BY <1>6, Zenon DEF CheckHeartbeat
<1>7. CASE ReadExtension
  <2>1. TornExt \in ExtFiles
    BY BudgetAssumption DEF TornExt, ExtFile, ExtFiles
  <2> QED
    BY <1>7, <2>1, Zenon DEF ReadExtension
<1>8. CASE check_budget_extension
  <2>1. NoExt \in ExtFiles
    BY BudgetAssumption DEF NoExt, ExtFile, ExtFiles
  <2>2. extRead.add \in [Budgets -> 0 .. LimitMax]
    BY Zenon DEF ExtFiles
  <2>3. Extend(limit, extRead.add) \in [Budgets -> 1 .. LimitMax]
    BY <2>2, ExtendType, Zenon
  <2> QED
    BY <1>8, <2>1, <2>3, Zenon DEF check_budget_extension
<1>9. CASE emit_resource_snapshot
  BY <1>9, Zenon DEF emit_resource_snapshot
<1>10. CASE Accept
  BY <1>10, Zenon DEF Accept
<1>11. CASE ConnectionWallCheck
  BY <1>11, Zenon DEF ConnectionWallCheck
<1>12. CASE ReadNoRequest
  BY <1>12 DEF ReadNoRequest
<1>13. CASE ReadRequest
  <2>1. PICK id \in CallIds, class \in Classes : dispatch_tool_call(id, class)
    BY <1>13, Zenon DEF ReadRequest
  <2>2. (Refused \/ Admitted(id)) /\ warned' \subseteq Charged
    BY <2>1, DispatchOutcome, Zenon
  <2> QED
    BY <1>13, <2>2 DEF ReadRequest, Refused, Admitted
<1>14. CASE write_response
  BY <1>14, Zenon DEF write_response
<1>15. CASE ToolErr
  BY <1>15, Zenon DEF ToolErr
<1>16. CASE Reap
  BY <1>16, Zenon DEF Reap
<1>17. CASE CleanUp
  BY <1>17, Zenon DEF CleanUp
<1>18. CASE StoreEventLog
  BY <1>18, Zenon DEF StoreEventLog
<1>19. CASE StoreManifest
  BY <1>19, Zenon DEF StoreManifest
<1>20. CASE complete_session
  BY <1>20, Zenon DEF complete_session
<1>21. CASE FinalizeFails
  BY <1>21, Zenon DEF FinalizeFails
<1>22. CASE Tick
  BY <1>22 DEF Tick
<1>23. CASE AgentExit
  BY <1>23, Zenon DEF AgentExit
<1>24. CASE TeeKill
  BY <1>24, Zenon DEF TeeKill
<1>25. CASE StopCheck
  BY <1>25, Zenon DEF StopCheck
<1>26. CASE StopSignal
  BY <1>26, Zenon DEF StopSignal
<1>27. CASE StopUpdate
  BY <1>27, Zenon DEF StopUpdate
<1>28. CASE ExtendCheck
  BY <1>28, Zenon DEF ExtendCheck
<1>29. CASE ExtendOpen
  <2>1. TornExt \in ExtFiles
    BY BudgetAssumption DEF TornExt, ExtFile, ExtFiles
  <2> QED
    BY <1>29, <2>1, Zenon DEF ExtendOpen
<1>30. CASE ExtendWrite
  <2>1. \A add \in Extensions : ExtFile("full", add) \in ExtFiles
    BY BudgetAssumption, Zenon DEF ExtFile, ExtFiles
  <2> QED
    BY <1>30, <2>1, Zenon DEF ExtendWrite
<1>31. ASSUME NEW bytes \in 0 .. MaxOutput, ToolOk(bytes) PROVE DataTypeOK'
  <2>1. now - execStart \in Nat /\ bytes \in Nat
    <3> HIDE DEF TypeOK, BudgetInv
    <3>1. now \in Nat /\ execStart \in Nat
      BY Zenon DEF TypeOK
    <3>2. execStart <= now
      BY Zenon DEF BudgetInv
    <3> QED
      BY <3>1, <3>2, BudgetAssumption
  <2>2. Charge(used, now - execStart, bytes) \in [Charged -> Nat]
    BY <2>1, ChargeType, Zenon
  <2> QED
    BY <1>31, <2>2, Zenon DEF ToolOk
<1>32. CASE UNCHANGED vars
  BY <1>32, Zenon DEF vars
<1> QED
  BY <1>1, <1>2, <1>3, <1>4, <1>5, <1>6, <1>7, <1>8, <1>9, <1>10, <1>11,
     <1>12, <1>13, <1>14, <1>15, <1>16, <1>17, <1>18, <1>19, <1>20,
     <1>21, <1>22, <1>23, <1>24, <1>25, <1>26, <1>27, <1>28, <1>29,
     <1>30, <1>31, <1>32, Zenon
     DEF Next, Supervisor, LoopStep, FinalStep, Operator, Terminating

\* The event log.
LEMMA LogStep == TypeOK /\ [Next]_vars => log' \in Seq(Events)
<1> SUFFICES ASSUME TypeOK, [Next]_vars PROVE log' \in Seq(Events)
  OBVIOUS
<1> USE DEF TypeOK, loopVars, budgetVars, fileVars, storeVars, cliVars
<1>1. CASE create
  BY <1>1, Zenon DEF create
<1>2. CASE StartAgent
  <2>1. <<Event("SessionStart", "none")>> \in Seq(Events)
    BY EventType, Zenon DEF EventKinds, EventArgs
  <2> QED
    BY <1>2, <2>1, EmitType, Zenon DEF StartAgent, Emit
<1>3. CASE CheckKillFlag
  <2>1. /\ Event("BudgetExhausted", "agent_output") \in Events
        /\ Event("SessionStop", "budget_exhausted") \in Events
    BY EventType, Zenon DEF EventKinds, EventArgs
  <2>2. ASSUME NEW e \in Events, NEW f \in Events PROVE <<e, f>> \in Seq(Events)
    OBVIOUS
  <2>3. <<Event("BudgetExhausted", "agent_output"), Event("SessionStop", "budget_exhausted")>>
          \in Seq(Events)
    BY <2>1, <2>2, Zenon
  <2> QED
    BY <1>3, <2>3, EmitType, Zenon DEF CheckKillFlag, Emit, LeaveLoop
<1>4. CASE CheckAgentExit
  <2>1. <<Event("SessionStop", "stopped")>> \in Seq(Events)
    BY EventType, Zenon DEF EventKinds, EventArgs
  <2> QED
    BY <1>4, <2>1, EmitType, Zenon DEF CheckAgentExit, Emit, LeaveLoop
<1>5. CASE CheckWallTime
  <2>1. <<Event("SessionStop", "timed_out")>> \in Seq(Events)
    BY EventType, Zenon DEF EventKinds, EventArgs
  <2> QED
    BY <1>5, <2>1, EmitType, Zenon DEF CheckWallTime, Emit, LeaveLoop
<1>6. CASE CheckHeartbeat
  <2>1. /\ Event("HeartbeatTimeout", "none") \in Events
        /\ Event("SessionStop", "heartbeat_timeout") \in Events
    BY EventType, Zenon DEF EventKinds, EventArgs
  <2>2. ASSUME NEW e \in Events, NEW f \in Events PROVE <<e, f>> \in Seq(Events)
    OBVIOUS
  <2>3. <<Event("HeartbeatTimeout", "none"), Event("SessionStop", "heartbeat_timeout")>>
          \in Seq(Events)
    BY <2>1, <2>2, Zenon
  <2> QED
    BY <1>6, <2>3, EmitType, Zenon DEF CheckHeartbeat, Emit, LeaveLoop
<1>7. CASE ReadExtension
  BY <1>7, Zenon DEF ReadExtension
<1>8. CASE check_budget_extension
  <2> DEFINE E(b) == ExtensionEvent(extRead.add, b)
  <2>1. ASSUME NEW b \in Budgets PROVE E(b) \in Seq(Events)
    <3>1. <<Event("BudgetExtension", b)>> \in Seq(Events)
      BY EventType, Zenon DEF EventKinds, EventArgs
    <3>2. << >> \in Seq(Events)
      OBVIOUS
    <3> QED
      BY <3>1, <3>2, Zenon DEF ExtensionEvent
  <2> HIDE DEF E
  <2>2. E("tool_calls") \o E("wall_time") \in Seq(Events)
    BY <2>1, EmitType, Zenon DEF Budgets
  <2>3. (E("tool_calls") \o E("wall_time")) \o E("tool_time") \in Seq(Events)
    BY <2>1, <2>2, EmitType, Zenon DEF Budgets
  <2>4. ((E("tool_calls") \o E("wall_time")) \o E("tool_time"))
           \o E("output_bytes") \in Seq(Events)
    BY <2>1, <2>3, EmitType, Zenon DEF Budgets
  <2> QED
    BY <1>8, <2>4, EmitType, Zenon DEF check_budget_extension, Emit, E
<1>9. CASE emit_resource_snapshot
  <2>1. <<Event("ResourceSnapshot", "none")>> \in Seq(Events)
    BY EventType, Zenon DEF EventKinds, EventArgs
  <2> QED
    BY <1>9, <2>1, EmitType, Zenon DEF emit_resource_snapshot, Emit
<1>10. CASE Accept
  BY <1>10, Zenon DEF Accept
<1>11. CASE ConnectionWallCheck
  BY <1>11, Zenon DEF ConnectionWallCheck
<1>12. CASE ReadNoRequest
  BY <1>12, Zenon DEF ReadNoRequest
<1>13. CASE ReadRequest
  <2>1. PICK id \in CallIds, class \in Classes : dispatch_tool_call(id, class)
    BY <1>13, Zenon DEF ReadRequest
  <2> QED
    BY <2>1, DispatchOutcome, Zenon DEF DataTypeOK
<1>14. CASE write_response
  BY <1>14, Zenon DEF write_response
<1>15. CASE ToolErr
  <2>1. <<Event("ToolResult", "err")>> \in Seq(Events)
    BY EventType, Zenon DEF EventKinds, EventArgs
  <2> QED
    BY <1>15, <2>1, EmitType, Zenon DEF ToolErr, Emit
<1>16. CASE Reap
  BY <1>16, Zenon DEF Reap
<1>17. CASE CleanUp
  <2>1. <<Event("SessionStop", "error")>> \in Seq(Events)
    BY EventType, Zenon DEF EventKinds, EventArgs
  <2> QED
    BY <1>17, <2>1, EmitType, Zenon DEF CleanUp, Emit
<1>18. CASE StoreEventLog
  BY <1>18, Zenon DEF StoreEventLog
<1>19. CASE StoreManifest
  BY <1>19, Zenon DEF StoreManifest
<1>20. CASE complete_session
  BY <1>20, Zenon DEF complete_session
<1>21. CASE FinalizeFails
  BY <1>21, Zenon DEF FinalizeFails
<1>22. CASE Tick
  BY <1>22, Zenon DEF Tick
<1>23. CASE AgentExit
  BY <1>23, Zenon DEF AgentExit
<1>24. CASE TeeKill
  BY <1>24, Zenon DEF TeeKill
<1>25. CASE StopCheck
  BY <1>25, Zenon DEF StopCheck
<1>26. CASE StopSignal
  BY <1>26, Zenon DEF StopSignal
<1>27. CASE StopUpdate
  BY <1>27, Zenon DEF StopUpdate
<1>28. CASE ExtendCheck
  BY <1>28, Zenon DEF ExtendCheck
<1>29. CASE ExtendOpen
  BY <1>29, Zenon DEF ExtendOpen
<1>30. CASE ExtendWrite
  BY <1>30, Zenon DEF ExtendWrite
<1>31. ASSUME NEW bytes \in 0 .. MaxOutput, ToolOk(bytes) PROVE log' \in Seq(Events)
  <2>1. <<Event("ToolResult", "ok")>> \in Seq(Events)
    BY EventType, Zenon DEF EventKinds, EventArgs
  <2> QED
    BY <1>31, <2>1, EmitType, Zenon DEF ToolOk, Emit
<1>32. CASE UNCHANGED vars
  BY <1>32, Zenon DEF vars
<1> QED
  BY <1>1, <1>2, <1>3, <1>4, <1>5, <1>6, <1>7, <1>8, <1>9, <1>10, <1>11,
     <1>12, <1>13, <1>14, <1>15, <1>16, <1>17, <1>18, <1>19, <1>20,
     <1>21, <1>22, <1>23, <1>24, <1>25, <1>26, <1>27, <1>28, <1>29,
     <1>30, <1>31, <1>32, Zenon
     DEF Next, Supervisor, LoopStep, FinalStep, Operator, Terminating

\* TypeOK is inductive relative to BudgetInv, which gives the elapsed time of a
\* run its sign.
LEMMA TypeStep == TypeOK /\ BudgetInv /\ [Next]_vars => TypeOK'
BY ControlStep, FlagStep, DataStep, LogStep, Zenon DEF TypeOK

\* The budget properties hold initially: every limit is positive.
LEMMA InitBudget == Init => BudgetInv
<1> SUFFICES ASSUME Init PROVE BudgetInv
  OBVIOUS
<1>1. limit \in [Budgets -> 1 .. LimitMax] /\ used = [b \in Charged |-> 0]
  BY BudgetAssumption, Zenon DEF Init
<1>2. CallBudgetRespected /\ OvershootBounded
  BY <1>1, BudgetAssumption
     DEF CallBudgetRespected, OvershootBounded, Budgets, Charged
<1> QED
  BY <1>2 DEF Init, BudgetInv, ExhaustionIsReal, LoopPcs, NoExt, ExtFile

\* Every step preserves the budget properties.
LEMMA BudgetStep == TypeOK /\ BudgetInv /\ [Next]_vars => BudgetInv'
<1> SUFFICES ASSUME TypeOK /\ BudgetInv, [Next]_vars PROVE BudgetInv'
  OBVIOUS
<1> USE DEF TypeOK, DataTypeOK, BudgetInv, ExhaustionIsReal, loopVars, budgetVars, fileVars, storeVars, cliVars
<1>frame. limit' = limit /\ used' = used => CallBudgetRespected' /\ OvershootBounded'
  BY Zenon DEF CallBudgetRespected, OvershootBounded
<1>1. CASE create
  BY <1>frame, <1>1, Zenon DEF create, LoopPcs
<1>2. CASE StartAgent
  BY <1>frame, <1>2, Zenon DEF StartAgent, LoopPcs
<1>3. CASE CheckKillFlag
  BY <1>frame, <1>3, Zenon DEF CheckKillFlag, LeaveLoop, LoopPcs
<1>4. CASE CheckAgentExit
  BY <1>frame, <1>4, Zenon DEF CheckAgentExit, LeaveLoop, LoopPcs
<1>5. CASE CheckWallTime
  BY <1>frame, <1>5, Zenon DEF CheckWallTime, LeaveLoop, LoopPcs
<1>6. CASE CheckHeartbeat
  BY <1>frame, <1>6, Zenon DEF CheckHeartbeat, LeaveLoop, LoopPcs
<1>7. CASE ReadExtension
  <2>1. TornExt.kind = "torn"
    BY Zenon DEF TornExt, ExtFile
  <2> QED
    BY <1>frame, <1>7, <2>1, Zenon DEF ReadExtension, LoopPcs
<1>8. CASE check_budget_extension
  <2>1. NoExt.kind = "none"
    BY Zenon DEF NoExt, ExtFile
  <2>2. CASE extRead.kind = "torn"
    BY <1>frame, <1>8, <2>1, <2>2, Zenon DEF check_budget_extension, LoopPcs
  <2>3. CASE extRead.kind = "full"
    <3> HIDE DEF OvershootBounded, CallBudgetRespected, ExhaustionIsReal
    <3>1. extRead.add \in [Budgets -> 0 .. LimitMax]
      BY Zenon DEF ExtFiles
    <3>2. limit' = Extend(limit, extRead.add) /\ used' = used
      BY <1>8, <2>3, Zenon DEF check_budget_extension
    <3>3. CallBudgetRespected' /\ OvershootBounded'
      <4> HIDE DEF BudgetInv, DataTypeOK
      <4>1. limit \in [Budgets -> 1 .. LimitMax] /\ used \in [Charged -> Nat]
        BY Zenon DEF DataTypeOK
      <4>2. /\ limit' \in [Budgets -> 1 .. LimitMax]
            /\ \A b \in Budgets : limit'[b] >= limit[b]
        BY <3>1, <3>2, <4>1, ExtendType, Zenon
      <4>3. /\ limit["tool_time"] \in Nat /\ limit'["tool_time"] \in Nat
            /\ limit["tool_time"] <= limit'["tool_time"]
        BY <4>1, <4>2, BudgetAssumption DEF Budgets
      <4>4. limit["tool_time"] * MsPerSec <= limit'["tool_time"] * MsPerSec
        BY <4>3, MulMono, BudgetAssumption, Zenon
      <4>5. CallBudgetRespected /\ OvershootBounded
        BY Zenon DEF BudgetInv
      <4>6. /\ limit["tool_time"] * MsPerSec \in Nat
            /\ limit'["tool_time"] * MsPerSec \in Nat
        BY <4>3, BudgetAssumption
      <4>7. /\ used["tool_time"] \in Nat /\ used["tool_calls"] \in Nat
            /\ used["output_bytes"] \in Nat
        BY <4>1, Zenon DEF Charged
      <4>8. used["tool_time"] < limit'["tool_time"] * MsPerSec + RunTimeout
        BY <4>4, <4>5, <4>6, <4>7, BudgetAssumption DEF OvershootBounded
      <4>9. /\ used["tool_calls"] <= limit'["tool_calls"]
            /\ used["output_bytes"] < limit'["output_bytes"] + MaxOutput
        <5>1. /\ used["tool_calls"] <= limit["tool_calls"]
              /\ used["output_bytes"] < limit["output_bytes"] + MaxOutput
          BY <4>5, Zenon DEF CallBudgetRespected, OvershootBounded
        <5>2. /\ limit["tool_calls"] <= limit'["tool_calls"]
              /\ limit["output_bytes"] <= limit'["output_bytes"]
              /\ limit["tool_calls"] \in Nat /\ limit'["tool_calls"] \in Nat
              /\ limit["output_bytes"] \in Nat /\ limit'["output_bytes"] \in Nat
          BY <4>1, <4>2, BudgetAssumption DEF Budgets
        <5> QED
          BY <4>7, <5>1, <5>2, BudgetAssumption
      <4> QED
        BY <3>2, <4>8, <4>9, Zenon DEF CallBudgetRespected, OvershootBounded
    <3>4. ExhaustionIsReal'
      BY <1>frame, <1>8, <2>3, Zenon DEF check_budget_extension, LoopPcs, ExhaustionIsReal
    <3> QED
      BY <1>frame, <1>8, <2>1, <3>3, <3>4, Zenon DEF check_budget_extension, LoopPcs
  <2> QED
    BY <1>frame, <1>8, <2>2, <2>3, Zenon DEF check_budget_extension
<1>9. CASE emit_resource_snapshot
  BY <1>frame, <1>9, Zenon DEF emit_resource_snapshot, LoopPcs
<1>10. CASE Accept
  BY <1>frame, <1>10, Zenon DEF Accept, LoopError, LoopPcs
<1>11. CASE ConnectionWallCheck
  BY <1>frame, <1>11, Zenon DEF ConnectionWallCheck, LoopPcs
<1>12. CASE ReadNoRequest
  BY <1>frame, <1>12, Zenon DEF ReadNoRequest, LoopPcs
<1>13. CASE ReadRequest
  <2>1. PICK id \in CallIds, class \in Classes : dispatch_tool_call(id, class)
    BY <1>13, Zenon DEF ReadRequest
  <2>2. CASE Refused
    BY <1>frame, <1>13, <2>2, Zenon DEF ReadRequest, Refused, LoopPcs
  <2>3. CASE Admitted(id)
    <3>1. state = "running"
      BY <1>13, <2>3, Zenon DEF ReadRequest, Admitted, LoopPcs
    <3>2. UNCHANGED <<limit, used, now, extFile, extRead>>
      BY <1>13, Zenon DEF ReadRequest
    <3>3. /\ execStart' <= now'
          /\ now' - execStart' <= RunTimeout
      <4> HIDE DEF TypeOK, BudgetInv
      <4>1. now \in Nat
        BY Zenon DEF TypeOK
      <4> QED
        BY <2>3, <3>2, <4>1, BudgetAssumption DEF Admitted
    <3>4. /\ pc' = "exec" /\ state' = "running"
          /\ \A b \in Charged : ~Exhausted(used', limit', b)
      <4> HIDE DEF TypeOK, BudgetInv
      <4> QED
        BY <2>3, <3>1, <3>2, Zenon DEF Admitted
    <3> HIDE DEF TypeOK
    <3> QED
      BY <1>frame, <3>2, <3>3, <3>4, Zenon DEF LoopPcs
  <2> QED
    BY <2>1, <2>2, <2>3, DispatchOutcome, Zenon
<1>14. CASE write_response
  BY <1>frame, <1>14, Zenon DEF write_response, LoopError, LoopPcs
<1>15. CASE ToolErr
  BY <1>frame, <1>15, Zenon DEF ToolErr, LoopPcs
<1>16. CASE Reap
  BY <1>frame, <1>16, Zenon DEF Reap, LoopPcs
<1>17. CASE CleanUp
  BY <1>frame, <1>17, Zenon DEF CleanUp, LoopPcs
<1>18. CASE StoreEventLog
  BY <1>frame, <1>18, Zenon DEF StoreEventLog, LoopPcs
<1>19. CASE StoreManifest
  BY <1>frame, <1>19, Zenon DEF StoreManifest, LoopPcs
<1>20. CASE complete_session
  BY <1>frame, <1>20, Zenon DEF complete_session, LoopPcs
<1>21. CASE FinalizeFails
  BY <1>frame, <1>21, Zenon DEF FinalizeFails, LoopPcs
<1>22. CASE Tick
  <2>1. /\ now' = now + 1
        /\ pc = "exec" => now - execStart < RunTimeout
        /\ UNCHANGED <<pc, state, limit, used, execStart, extFile, extRead>>
    <3> HIDE DEF TypeOK, BudgetInv
    <3> QED
      BY <1>22, Zenon DEF Tick
  <2>2. execStart <= now' /\ (pc = "exec" => now' - execStart <= RunTimeout)
    <3> HIDE DEF TypeOK, BudgetInv
    <3>1. now \in Nat /\ execStart \in Nat
      BY Zenon DEF TypeOK
    <3>2. execStart <= now
      BY Zenon DEF BudgetInv
    <3> QED
      BY <2>1, <3>1, <3>2, BudgetAssumption
  <2> HIDE DEF TypeOK
  <2> QED
    BY <1>frame, <2>1, <2>2, Zenon
<1>23. CASE AgentExit
  BY <1>frame, <1>23, Zenon DEF AgentExit, LoopPcs
<1>24. CASE TeeKill
  BY <1>frame, <1>24, Zenon DEF TeeKill, LoopPcs
<1>25. CASE StopCheck
  BY <1>frame, <1>25, Zenon DEF StopCheck, LoopPcs
<1>26. CASE StopSignal
  BY <1>frame, <1>26, Zenon DEF StopSignal, LoopPcs
<1>27. CASE StopUpdate
  BY <1>frame, <1>27, Zenon DEF StopUpdate, LoopPcs
<1>28. CASE ExtendCheck
  BY <1>frame, <1>28, Zenon DEF ExtendCheck, LoopPcs
<1>29. CASE ExtendOpen
  BY <1>frame, <1>29, Zenon DEF ExtendOpen, TornExt, ExtFile
<1>30. CASE ExtendWrite
  <2> HIDE DEF TypeOK
  <2>1. PICK add \in Extensions :
           extFile' = IF extFile.kind = "torn" THEN ExtFile("full", add) ELSE extFile
    BY <1>30, Zenon DEF ExtendWrite
  <2>2. UNCHANGED <<pc, state, limit, used, now, execStart, extRead>>
    BY <1>30, Zenon DEF ExtendWrite
  <2>3. extFile'.kind = "full" => extFile'.add \in Extensions
    BY <2>1, Zenon DEF ExtFile
  <2> QED
    BY <1>frame, <2>2, <2>3, Zenon
<1>31. ASSUME NEW bytes \in 0 .. MaxOutput, ToolOk(bytes) PROVE BudgetInv'
  <2>1. /\ now - execStart \in Nat
        /\ now - execStart <= RunTimeout
        /\ bytes \in Nat
        /\ bytes <= MaxOutput
        /\ \A b \in Charged : ~Exhausted(used, limit, b)
    <3> HIDE DEF TypeOK, BudgetInv
    <3>1. now \in Nat /\ execStart \in Nat
      BY Zenon DEF TypeOK
    <3>2. pc = "exec"
      BY <1>31, Zenon DEF ToolOk
    <3>3. /\ execStart <= now
          /\ now - execStart <= RunTimeout
          /\ \A b \in Charged : ~Exhausted(used, limit, b)
      BY <3>2, Zenon DEF BudgetInv
    <3> QED
      BY <3>1, <3>3, BudgetAssumption
  <2>2. limit \in [Budgets -> 1 .. LimitMax] /\ used \in [Charged -> Nat]
    OBVIOUS
  <2>3. used' = Charge(used, now - execStart, bytes) /\ limit' = limit
    BY <1>31, Zenon DEF ToolOk
  <2>5. CallBudgetRespected' /\ OvershootBounded'
    <3> HIDE DEF BudgetInv, TypeOK, DataTypeOK
    <3>1. /\ used'["tool_calls"] = used["tool_calls"] + 1
          /\ used'["tool_time"] = used["tool_time"] + (now - execStart)
          /\ used'["output_bytes"] = used["output_bytes"] + bytes
      <4>1. PICK t \in Nat : t = now - execStart
        BY <2>1, Zenon
      <4>2. used' = Charge(used, t, bytes)
        BY <2>3, <4>1, Zenon
      <4>3. bytes \in Nat /\ used \in [Charged -> Nat]
        BY <2>1, <2>2, Zenon
      <4>4. Charge(used, t, bytes)["tool_calls"] = used["tool_calls"] + 1
        BY <4>3, ChargeType
      <4>5. Charge(used, t, bytes)["tool_time"] = used["tool_time"] + t
        BY <4>3, ChargeType
      <4>6. Charge(used, t, bytes)["output_bytes"] = used["output_bytes"] + bytes
        BY <4>3, ChargeType
      <4> QED
        BY <4>1, <4>2, <4>4, <4>5, <4>6, Zenon
    <3>2. /\ limit["tool_time"] \in Nat /\ limit["tool_calls"] \in Nat
          /\ limit["output_bytes"] \in Nat /\ used["tool_time"] \in Nat
          /\ used["tool_calls"] \in Nat /\ used["output_bytes"] \in Nat
      BY <2>2, BudgetAssumption DEF Budgets, Charged
    <3>3. /\ ~(Secs(used["tool_time"]) >= limit["tool_time"])
          /\ ~(used["tool_calls"] >= limit["tool_calls"])
          /\ ~(used["output_bytes"] >= limit["output_bytes"])
      BY <2>1, Zenon DEF Exhausted, Spent, Charged
    <3>4. used["tool_time"] < limit["tool_time"] * MsPerSec
      BY <3>2, <3>3, SecsBound, Zenon
    <3>5. limit["tool_time"] * MsPerSec \in Nat
      BY <3>2, BudgetAssumption
    <3>6. used'["tool_time"] < limit["tool_time"] * MsPerSec + RunTimeout
      <4>1. RunTimeout \in Nat
        BY BudgetAssumption, Zenon
      <4>2. used["tool_time"] + (now - execStart) < limit["tool_time"] * MsPerSec + RunTimeout
        BY <2>1, <3>2, <3>4, <3>5, <4>1, ChargeBound, Zenon
      <4> QED
        BY <3>1, <4>2, Zenon
    <3>7. used'["tool_calls"] <= limit["tool_calls"]
      BY <3>1, <3>2, <3>3
    <3>8. used'["output_bytes"] < limit["output_bytes"] + MaxOutput
      BY <2>1, <3>1, <3>2, <3>3, BudgetAssumption
    <3> QED
      BY <2>3, <3>6, <3>7, <3>8, Zenon DEF CallBudgetRespected, OvershootBounded
  <2> QED
    BY <1>frame, <1>31, <2>5, Zenon DEF ToolOk, LoopPcs, ExhaustionIsReal
<1>32. CASE UNCHANGED vars
  BY <1>frame, <1>32, Zenon DEF vars
<1> QED
  BY <1>1, <1>2, <1>3, <1>4, <1>5, <1>6, <1>7, <1>8, <1>9, <1>10, <1>11,
     <1>12, <1>13, <1>14, <1>15, <1>16, <1>17, <1>18, <1>19, <1>20,
     <1>21, <1>22, <1>23, <1>24, <1>25, <1>26, <1>27, <1>28, <1>29,
     <1>30, <1>31, <1>32, Zenon
     DEF Next, Supervisor, LoopStep, FinalStep, Operator, Terminating

-----------------------------------------------------------------------------
(* The theorems.                                                           *)

\* TypeOK and BudgetInv hold in every reachable state.
LEMMA Inductive == Spec => [](TypeOK /\ BudgetInv)
<1>1. Init => TypeOK /\ BudgetInv
  BY InitType, InitBudget, Zenon
<1>2. TypeOK /\ BudgetInv /\ [Next]_vars => TypeOK' /\ BudgetInv'
  BY TypeStep, BudgetStep, Zenon
<1> QED
  BY <1>1, <1>2, PTL DEF Spec

\* Every variable of the supervisor, the files and the database keeps its type.
THEOREM TypeCorrect == Spec => []TypeOK
BY Inductive, PTL

\* The calls that dispatch_tool_call charges never exceed max_tool_calls, for
\* any limits, extensions, requests, failures and interleaving.
THEOREM CallBudgetSafe == Spec => []CallBudgetRespected
<1>1. BudgetInv => CallBudgetRespected
  BY Zenon DEF BudgetInv
<1> QED
  BY Inductive, <1>1, PTL

\* Tool time and output are overdrawn by less than one run's worth.
THEOREM OvershootSafe == Spec => []OvershootBounded
<1>1. BudgetInv => OvershootBounded
  BY Zenon DEF BudgetInv
<1> QED
  BY Inductive, <1>1, PTL

\* In the loop, BudgetExhausted always means a budget without headroom: the
\* extension that gives headroom everywhere also resumes the session.
THEOREM ExhaustionSound == Spec => []ExhaustionIsReal
<1>1. BudgetInv => ExhaustionIsReal
  BY Zenon DEF BudgetInv
<1> QED
  BY Inductive, <1>1, PTL

\* No tool runs while the session is not in the running state.
THEOREM DispatchSafe == Spec => []NoDispatchWhenExhausted
<1>1. BudgetInv => NoDispatchWhenExhausted
  BY Zenon DEF BudgetInv, NoDispatchWhenExhausted
<1> QED
  BY Inductive, <1>1, PTL

-----------------------------------------------------------------------------
(* The session implements BudgetGate.                                      *)

\* The initial states of the session are initial states of the gate.
LEMMA GateInit == Init => Gate!Init
BY DEF Init, Gate!Init, LoopPcs, Charged, Gate!Charged

\* Every step of the session is a step of the gate or leaves it alone.
LEMMA GateStep == TypeOK /\ BudgetInv /\ [Next]_vars => [Gate!Next]_(Gate!gateVars)
<1> SUFFICES ASSUME TypeOK, BudgetInv, [Next]_vars PROVE [Gate!Next]_(Gate!gateVars)
  OBVIOUS
<1> USE DEF LoopPcs, Gate!gateVars, loopVars, budgetVars, fileVars, storeVars, cliVars
<1>0. /\ Gate!Charged = Charged
      /\ \A u, l, b : Gate!Exhausted(u, l, b) <=> Exhausted(u, l, b)
      /\ \A l, add : Gate!Extend(l, add) = Extend(l, add)
      /\ \A u, t, n : Gate!Charge(u, t, n) = Charge(u, t, n)
  BY
     DEF Gate!Charged, Charged, Gate!Budgets, Budgets, Gate!Exhausted,
         Exhausted,
         Gate!Spent, Spent, Gate!Secs, Secs, Gate!Extend, Extend,
         Gate!SaturatingAdd, SaturatingAdd, Gate!Charge, Charge
<1>1. CASE create
  BY <1>1 DEF create, Gate!Next, Gate!Close, BudgetInv
<1>2. CASE StartAgent
  BY <1>2 DEF StartAgent, Gate!Next, Gate!Open, Gate!Close, BudgetInv
<1>3. CASE CheckKillFlag
  BY <1>3 DEF CheckKillFlag, LeaveLoop, Gate!Next, Gate!Close, BudgetInv
<1>4. CASE CheckAgentExit
  BY <1>4 DEF CheckAgentExit, LeaveLoop, Gate!Next, Gate!Close, BudgetInv
<1>5. CASE CheckWallTime
  BY <1>5 DEF CheckWallTime, LeaveLoop, Gate!Next, Gate!Close, BudgetInv
<1>6. CASE CheckHeartbeat
  BY <1>6 DEF CheckHeartbeat, LeaveLoop, Gate!Next, Gate!Close, BudgetInv
<1>7. CASE ReadExtension
  BY <1>7 DEF ReadExtension
<1>8. CASE check_budget_extension
  <2>1. CASE extRead.kind = "torn"
    BY <1>8, <2>1 DEF check_budget_extension
  <2>2. CASE extRead.kind = "full"
    <3>1. Gate!Raise
      BY <1>0, <1>8, <2>2
         DEF check_budget_extension, Gate!Raise, Gate!Headroom, BudgetInv
    <3> QED
      BY <3>1 DEF Gate!Next
  <2> QED
    BY <1>8, <2>1, <2>2 DEF check_budget_extension
<1>9. CASE emit_resource_snapshot
  BY <1>9 DEF emit_resource_snapshot
<1>10. CASE Accept
  BY <1>10 DEF Accept, LoopError, Gate!Next, Gate!Close, BudgetInv
<1>11. CASE ConnectionWallCheck
  BY <1>11 DEF ConnectionWallCheck
<1>12. CASE ReadNoRequest
  BY <1>12 DEF ReadNoRequest
<1>13. CASE ReadRequest
  <2>1. PICK id \in CallIds, class \in Classes : dispatch_tool_call(id, class)
    BY <1>13 DEF ReadRequest
  <2>2. CASE Refused
    BY <1>0, <1>13, <2>2
       DEF ReadRequest, Refused, Gate!Next, Gate!Refuse, Gate!Headroom
  <2>3. CASE Admitted(id)
    BY <1>0, <1>13, <2>3
       DEF ReadRequest, Admitted, BudgetInv, ExhaustionIsReal, Gate!Next,
           Gate!Admit, Gate!Headroom
  <2> QED
    BY <2>1, <2>2, <2>3, DispatchOutcome DEF TypeOK, DataTypeOK
<1>14. CASE write_response
  BY <1>14 DEF write_response, LoopError, Gate!Next, Gate!Close, BudgetInv
<1>15. CASE ToolErr
  BY <1>15 DEF ToolErr, Gate!Next, Gate!Settle, BudgetInv
<1>16. CASE Reap
  BY <1>16 DEF Reap
<1>17. CASE CleanUp
  BY <1>17 DEF CleanUp
<1>18. CASE StoreEventLog
  BY <1>18 DEF StoreEventLog
<1>19. CASE StoreManifest
  BY <1>19 DEF StoreManifest
<1>20. CASE complete_session
  BY <1>20 DEF complete_session
<1>21. CASE FinalizeFails
  BY <1>21 DEF FinalizeFails
<1>22. CASE Tick
  BY <1>22 DEF Tick
<1>23. CASE AgentExit
  BY <1>23 DEF AgentExit
<1>24. CASE TeeKill
  BY <1>24 DEF TeeKill
<1>25. CASE StopCheck
  BY <1>25 DEF StopCheck
<1>26. CASE StopSignal
  BY <1>26 DEF StopSignal
<1>27. CASE StopUpdate
  BY <1>27 DEF StopUpdate
<1>28. CASE ExtendCheck
  BY <1>28 DEF ExtendCheck
<1>29. CASE ExtendOpen
  BY <1>29 DEF ExtendOpen
<1>30. CASE ExtendWrite
  BY <1>30 DEF ExtendWrite
<1>31. ASSUME NEW bytes \in 0 .. MaxOutput, ToolOk(bytes)
       PROVE  [Gate!Next]_(Gate!gateVars)
  <2>1. now - execStart \in 0 .. RunTimeout
    BY <1>31, BudgetAssumption DEF ToolOk, BudgetInv, TypeOK, DataTypeOK
  <2> QED
    BY <1>0, <1>31, <2>1 DEF ToolOk, Gate!Next, Gate!Settle, BudgetInv
<1>32. CASE UNCHANGED vars
  BY <1>32 DEF vars
<1> QED
  BY <1>1, <1>2, <1>3, <1>4, <1>5, <1>6, <1>7, <1>8, <1>9, <1>10, <1>11,
     <1>12, <1>13, <1>14, <1>15, <1>16, <1>17, <1>18, <1>19, <1>20,
     <1>21, <1>22, <1>23, <1>24, <1>25, <1>26, <1>27, <1>28, <1>29,
     <1>30, <1>31, <1>32
     DEF Next, Supervisor, LoopStep, FinalStep, Operator, Terminating

\* The supervisor, with its sockets, files, processes and interleavings,
\* implements the budget gate.
THEOREM GateImplemented == Spec => ImplementsGate
BY Inductive, GateInit, GateStep, PTL DEF Spec, ImplementsGate, Gate!Spec

-----------------------------------------------------------------------------
(* Events and sequences of events.                                         *)

\* Events that neither end the session nor belong to a call or an extension;
\* events other than SessionStop.
Special == {"SessionStop", "ToolDispatch", "ToolResult", "BudgetExtension"}
Plain == [kind : EventKinds \ Special, arg : EventArgs \cup CallIds]
NoStop == [kind : EventKinds \ {"SessionStop"}, arg : EventArgs \cup CallIds]

LEMMA PlainEvent ==
    ASSUME NEW kind \in EventKinds, NEW arg \in EventArgs \cup CallIds
    PROVE  /\ kind \notin Special => <<Event(kind, arg)>> \in Seq(Plain)
           /\ kind # "SessionStop" => <<Event(kind, arg)>> \in Seq(NoStop)
<1>1. /\ kind \notin Special => Event(kind, arg) \in Plain
      /\ kind # "SessionStop" => Event(kind, arg) \in NoStop
  BY DEF Event, Plain, NoStop
<1>2. ASSUME NEW S, NEW e \in S PROVE <<e>> \in Seq(S)
  OBVIOUS
<1> QED
  BY <1>1, <1>2, Zenon

LEMMA SeqConcat ==
    ASSUME NEW S, NEW s \in Seq(S), NEW t \in Seq(S)
    PROVE  s \o t \in Seq(S)
OBVIOUS

LEMMA SeqSubset ==
    ASSUME NEW S, NEW T, S \subseteq T, NEW s \in Seq(S)
    PROVE  s \in Seq(T)
OBVIOUS

LEMMA PlainNoStop == Seq(Plain) \subseteq Seq(NoStop) /\ Seq(NoStop) \subseteq Seq(Events)
<1>1. Plain \subseteq NoStop /\ NoStop \subseteq Events
  BY DEF Plain, NoStop, Events, Special
<1> QED
  BY <1>1, SeqSubset, Zenon

-----------------------------------------------------------------------------
(* What the steps that log more than one event log.                        *)

LEMMA WarningsPlain == WarningEvents \in Seq(Plain)
<1> DEFINE W(b) == IF WarningDue(b) THEN <<Event("BudgetWarning", b)>> ELSE << >>
<1>1. ASSUME NEW b \in Charged PROVE W(b) \in Seq(Plain)
  <2>1. <<Event("BudgetWarning", b)>> \in Seq(Plain)
    BY PlainEvent, Zenon DEF EventKinds, EventArgs, Budgets, Charged, Special
  <2>2. << >> \in Seq(Plain)
    OBVIOUS
  <2> QED
    BY <2>1, <2>2, Zenon
<1> HIDE DEF W
<1>2. W("tool_calls") \in Seq(Plain) /\ W("tool_time") \in Seq(Plain) /\ W("output_bytes") \in Seq(Plain)
  BY <1>1, Zenon DEF Charged
<1>3. (W("tool_calls") \o W("tool_time")) \o W("output_bytes") \in Seq(Plain)
  BY <1>2, SeqConcat, Zenon
<1> QED
  BY <1>3, Zenon DEF W, WarningEvents

\* dispatch_tool_call logs at most one ToolDispatch, as its last event, and then
\* the run starts unless the semaphore or Runner::new refuses; it logs no result.
LEMMA DispatchLog ==
    ASSUME NEW id \in CallIds, NEW class \in Classes, dispatch_tool_call(id, class)
    PROVE  \E es \in Seq(Plain) :
               \/ pc' = "respond" /\ Emit(es)
               \/ /\ pc' = "exec" \/ (pc' = "respond" /\ (MaxConcurrent = 0 \/ Faults))
                  /\ Emit(es \o <<Event("ToolDispatch", id)>>)
<1> DEFINE Goal ==
        \E es \in Seq(Plain) :
            \/ pc' = "respond" /\ Emit(es)
            \/ /\ pc' = "exec" \/ (pc' = "respond" /\ (MaxConcurrent = 0 \/ Faults))
               /\ Emit(es \o <<Event("ToolDispatch", id)>>)
<1>1. ASSUME NEW es \in Seq(Plain), Reject(es) PROVE Goal
  BY <1>1, Zenon DEF Reject
<1>2. ASSUME NEW es \in Seq(Plain), NEW b \in Charged, RejectExhausted(es, b) PROVE Goal
  <2>1. <<Event("BudgetExhausted", b)>> \in Seq(Plain)
    BY PlainEvent, Zenon DEF EventKinds, EventArgs, Budgets, Charged, Special
  <2>2. Append(es, Event("BudgetExhausted", b)) = es \o <<Event("BudgetExhausted", b)>>
    OBVIOUS
  <2>3. Append(es, Event("BudgetExhausted", b)) \in Seq(Plain)
    BY <2>1, <2>2, SeqConcat, Zenon
  <2> QED
    BY <1>2, <2>3, Zenon DEF RejectExhausted
<1>3. ASSUME NEW es \in Seq(Plain), Dispatch(id, es) PROVE Goal
  <2>1. es \o WarningEvents \in Seq(Plain)
    BY SeqConcat, WarningsPlain, Zenon
  <2>2. Emit((es \o WarningEvents) \o <<Event("ToolDispatch", id)>>)
    BY <1>3, Zenon DEF Dispatch
  <2> QED
    BY <1>3, <2>1, <2>2, Zenon DEF Dispatch
<1>4. /\ << >> \in Seq(Plain)
      /\ <<Event("ToolDenied", id)>> \in Seq(Plain)
      /\ <<Event("ApprovalRequired", "denied")>> \in Seq(Plain)
      /\ <<Event("ApprovalRequired", "approved")>> \in Seq(Plain)
  <2>1. << >> \in Seq(Plain)
    OBVIOUS
  <2> QED
    BY <2>1, PlainEvent, Zenon DEF EventKinds, EventArgs, Special
<1> HIDE DEF Goal
<1>5. ASSUME NEW es \in Seq(Plain), CheckBudgets(id, es) PROVE Goal
  BY <1>2, <1>3, <1>5, Zenon DEF CheckBudgets, Charged
<1>6. ASSUME CheckApproval(id) PROVE Goal
  BY <1>1, <1>4, <1>5, <1>6, Zenon DEF CheckApproval
<1>7. Goal
  BY <1>1, <1>2, <1>4, <1>6, Zenon DEF dispatch_tool_call, Charged
<1> QED
  BY <1>7, Zenon DEF Goal

-----------------------------------------------------------------------------
(* The steps of a session, by what they do to the log.                     *)

Early == {"create", "start"} \cup LoopPcs

\* Nothing; a move before or within the loop; an error in the loop; the end of
\* the loop.
Idles == UNCHANGED <<pc, state, log, loopErr, used>>
Moves ==
    /\ pc \in Early \ {"exec"} /\ pc' \in (Early \ {"exec"}) \cup {"failed"}
    /\ UNCHANGED <<loopErr, used>>
    /\ UNCHANGED log \/ \E es \in Seq(Plain) : Emit(es)
Breaks ==
    /\ pc \in LoopPcs \ {"exec"} /\ pc' = "reap"
    /\ loopErr' = TRUE /\ UNCHANGED <<log, used>>
Leaves ==
    /\ pc \in LoopPcs \ {"exec"} /\ pc' = "reap" /\ UNCHANGED <<loopErr, used>>
    /\ \E es \in Seq(Plain), a \in StopStatus(state') : Emit(es \o <<Event("SessionStop", a)>>)

\* A call that is dispatched, its result, an extension.
Admits ==
    /\ pc = "read" /\ UNCHANGED <<loopErr, used>>
    /\ pc' = "exec" \/ (pc' = "respond" /\ (MaxConcurrent = 0 \/ Faults))
    /\ \E es \in Seq(Plain), id \in CallIds : Emit(es \o <<Event("ToolDispatch", id)>>)
Answers ==
    /\ pc = "exec" /\ pc' = "respond" /\ UNCHANGED loopErr
    /\ \E a \in {"ok", "err"} :
          /\ Emit(<<Event("ToolResult", a)>>)
          /\ used'["tool_calls"] = used["tool_calls"] + IF a = "ok" THEN 1 ELSE 0
Extends == check_budget_extension

\* After the loop: the next step of run and finalize, and the late SessionStop
\* of a loop that failed.
Finishes ==
    /\ UNCHANGED <<state, log, loopErr, used>>
    /\ \/ pc = "reap" /\ pc' = "clean"
       \/ pc = "clean" /\ pc' = "finlog" /\ ~loopErr
       \/ pc = "finlog" /\ pc' = "finman"
       \/ pc = "finman" /\ pc' = "findb"
       \/ pc = "findb" /\ pc' = "done"
       \/ pc \in {"finlog", "finman", "findb"} /\ pc' = "failed"
StopsLate ==
    /\ pc = "clean" /\ pc' = "finlog" /\ loopErr /\ UNCHANGED <<loopErr, used>>
    /\ "error" \in StopStatus(state') /\ Emit(<<Event("SessionStop", "error")>>)

LEMMA StepCases ==
    ASSUME TypeOK, [Next]_vars
    PROVE  \/ Idles \/ Moves \/ Breaks \/ Leaves \/ Admits \/ Answers \/ Extends
           \/ Finishes \/ StopsLate
<1> USE DEF loopVars, budgetVars, fileVars, storeVars, cliVars
<1>0. ASSUME NEW es \in Seq(Plain), NEW a \in StopStatus(state'), pc \in LoopPcs \ {"exec"},
             UNCHANGED <<loopErr, used>>, NEW s, LeaveLoop(s, es \o <<Event("SessionStop", a)>>)
      PROVE  Leaves
  BY <1>0, Zenon DEF Leaves, LeaveLoop
<1>1. /\ << >> \in Seq(Plain)
      /\ <<Event("BudgetExhausted", "agent_output")>> \in Seq(Plain)
      /\ <<Event("HeartbeatTimeout", "none")>> \in Seq(Plain)
      /\ <<Event("SessionStart", "none")>> \in Seq(Plain)
      /\ <<Event("ResourceSnapshot", "none")>> \in Seq(Plain)
  <2>1. << >> \in Seq(Plain)
    OBVIOUS
  <2> QED
    BY <2>1, PlainEvent, Zenon DEF EventKinds, EventArgs, Special
<1>2. ASSUME NEW a
      PROVE  /\ <<Event("SessionStop", a)>> = << >> \o <<Event("SessionStop", a)>>
             /\ <<Event("BudgetExhausted", "agent_output"), Event("SessionStop", a)>>
                   = <<Event("BudgetExhausted", "agent_output")>> \o <<Event("SessionStop", a)>>
             /\ <<Event("HeartbeatTimeout", "none"), Event("SessionStop", a)>>
                   = <<Event("HeartbeatTimeout", "none")>> \o <<Event("SessionStop", a)>>
  OBVIOUS
<1>3. CASE create
  BY <1>3, Zenon DEF create, Moves, Early
<1>4. CASE StartAgent
  BY <1>1, <1>4, Zenon DEF StartAgent, Moves, Early, LoopPcs
<1>5. CASE CheckKillFlag
  <2>1. CASE ~killFlag
    BY <1>5, <2>1, Zenon DEF CheckKillFlag, Moves, Early, LoopPcs
  <2>2. CASE killFlag
    <3>1. /\ pc = "kill" /\ UNCHANGED <<loopErr, used>>
          /\ LeaveLoop("budget_exhausted", <<Event("BudgetExhausted", "agent_output")>>
                                           \o <<Event("SessionStop", "budget_exhausted")>>)
      BY <1>2, <1>5, <2>2, Zenon DEF CheckKillFlag
    <3>2. "budget_exhausted" \in StopStatus(state')
      BY <3>1 DEF LeaveLoop, StopStatus
    <3> QED
      BY <1>0, <1>1, <3>1, <3>2, Zenon DEF LoopPcs
  <2> QED
    BY <2>1, <2>2, Zenon
<1>6. CASE CheckAgentExit
  <2>1. CASE LeaveLoop("stopped", <<Event("SessionStop", "stopped")>>) /\ UNCHANGED loopErr
    <3>1. /\ pc = "wait" /\ UNCHANGED <<loopErr, used>>
          /\ LeaveLoop("stopped", << >> \o <<Event("SessionStop", "stopped")>>)
      BY <1>2, <1>6, <2>1, Zenon DEF CheckAgentExit
    <3>2. "stopped" \in StopStatus(state')
      BY <3>1 DEF LeaveLoop, StopStatus
    <3> QED
      BY <1>0, <1>1, <3>1, <3>2, Zenon DEF LoopPcs
  <2>2. CASE pc' = "wall" /\ UNCHANGED <<agent, state, log, loopErr>>
    BY <1>6, <2>2, Zenon DEF CheckAgentExit, Moves, Early, LoopPcs
  <2>3. CASE loopErr' = TRUE /\ pc' = "reap" /\ UNCHANGED <<agent, state, log>>
    BY <1>6, <2>3, Zenon DEF CheckAgentExit, Breaks, LoopPcs
  <2> QED
    BY <1>6, <2>1, <2>2, <2>3, Zenon DEF CheckAgentExit
<1>7. CASE CheckWallTime
  <2>1. CASE ~WallExpired
    BY <1>7, <2>1, Zenon DEF CheckWallTime, Moves, Early, LoopPcs
  <2>2. CASE WallExpired
    <3>1. /\ pc = "wall" /\ UNCHANGED <<loopErr, used>>
          /\ LeaveLoop("timed_out", << >> \o <<Event("SessionStop", "timed_out")>>)
      BY <1>2, <1>7, <2>2, Zenon DEF CheckWallTime
    <3>2. "timed_out" \in StopStatus(state')
      BY <3>1 DEF LeaveLoop, StopStatus
    <3> QED
      BY <1>0, <1>1, <3>1, <3>2, Zenon DEF LoopPcs
  <2> QED
    BY <2>1, <2>2, Zenon
<1>8. CASE CheckHeartbeat
  <2>1. CASE ~HeartbeatMissed
    BY <1>8, <2>1, Zenon DEF CheckHeartbeat, Moves, Early, LoopPcs
  <2>2. CASE HeartbeatMissed
    <3>1. /\ pc = "beat" /\ UNCHANGED <<loopErr, used>>
          /\ LeaveLoop("stopped", <<Event("HeartbeatTimeout", "none")>>
                                  \o <<Event("SessionStop", "heartbeat_timeout")>>)
      BY <1>2, <1>8, <2>2, Zenon DEF CheckHeartbeat
    <3>2. "heartbeat_timeout" \in StopStatus(state')
      BY <3>1 DEF LeaveLoop, StopStatus
    <3> QED
      BY <1>0, <1>1, <3>1, <3>2, Zenon DEF LoopPcs
  <2> QED
    BY <2>1, <2>2, Zenon
<1>9. CASE ReadExtension
  BY <1>9, Zenon DEF ReadExtension, Moves, Early, LoopPcs
<1>10. CASE check_budget_extension
  BY <1>10, Zenon DEF Extends
<1>11. CASE emit_resource_snapshot
  BY <1>1, <1>11, Zenon DEF emit_resource_snapshot, Moves, Early, LoopPcs
<1>12. CASE Accept
  <2>1. CASE UNCHANGED loopErr
    BY <1>12, <2>1, Zenon DEF Accept, LoopError, Moves, Breaks, Early, LoopPcs
  <2>2. CASE LoopError
    BY <1>12, <2>2, Zenon DEF Accept, LoopError, Breaks, LoopPcs
  <2> QED
    BY <1>12, <2>1, <2>2, Zenon DEF Accept
<1>13. CASE ConnectionWallCheck
  BY <1>13, Zenon DEF ConnectionWallCheck, Moves, Early, LoopPcs
<1>14. CASE ReadNoRequest
  BY <1>14, Zenon DEF ReadNoRequest, Moves, Early, LoopPcs
<1>15. CASE ReadRequest
  <2>1. pc = "read" /\ UNCHANGED <<loopErr, used>>
    BY <1>15, Zenon DEF ReadRequest
  <2>2. PICK id \in CallIds, class \in Classes : dispatch_tool_call(id, class)
    BY <1>15, Zenon DEF ReadRequest
  <2>3. PICK es \in Seq(Plain) :
            \/ pc' = "respond" /\ Emit(es)
            \/ /\ pc' = "exec" \/ (pc' = "respond" /\ (MaxConcurrent = 0 \/ Faults))
               /\ Emit(es \o <<Event("ToolDispatch", id)>>)
    BY <2>2, DispatchLog, Zenon
  <2> QED
    BY <2>1, <2>3, Zenon DEF Moves, Admits, Early, LoopPcs
<1>16. CASE write_response
  BY <1>16, Zenon DEF write_response, LoopError, Moves, Breaks, Early, LoopPcs
<1>17. ASSUME NEW bytes \in 0 .. MaxOutput, ToolOk(bytes) PROVE Answers
  <2>1. used'["tool_calls"] = used["tool_calls"] + 1
    <3>1. used' = Charge(used, now - execStart, bytes) /\ used \in [Charged -> Nat]
      BY <1>17, Zenon DEF ToolOk, TypeOK, DataTypeOK
    <3> QED
      BY <3>1 DEF Charge, Charged
  <2> QED
    BY <1>17, <2>1, Zenon DEF ToolOk, Answers
<1>18. CASE ToolErr
  <2>1. used'["tool_calls"] = used["tool_calls"] + 0
    <3>1. used' = used /\ used \in [Charged -> Nat]
      BY <1>18, Zenon DEF ToolErr, TypeOK, DataTypeOK
    <3> QED
      BY <3>1 DEF Charged
  <2>2. Answers
    BY <1>18, <2>1, Zenon DEF ToolErr, Answers
  <2> QED
    BY <2>2, Zenon
<1>19. CASE CleanUp
  <2>1. CASE ~loopErr
    BY <1>19, <2>1, Zenon DEF CleanUp, Finishes
  <2>2. CASE loopErr
    <3>1. state' = "stopped"
      BY <1>19, <2>2, Zenon DEF CleanUp
    <3>2. "error" \in StopStatus(state')
      BY <3>1 DEF StopStatus
    <3> QED
      BY <1>19, <2>2, <3>2, Zenon DEF CleanUp, StopsLate
  <2> QED
    BY <2>1, <2>2, Zenon
<1>20. CASE Reap \/ StoreEventLog \/ StoreManifest \/ complete_session \/ FinalizeFails
  BY <1>20, Zenon
     DEF Reap, StoreEventLog, StoreManifest, complete_session, FinalizeFails, Finishes
<1>21. CASE Tick \/ AgentExit \/ TeeKill \/ Terminating \/ UNCHANGED vars
  BY <1>21, Zenon DEF Tick, AgentExit, TeeKill, Terminating, vars, Idles
<1>22. CASE Operator
  BY <1>22, Zenon
     DEF Operator, StopCheck, StopSignal, StopUpdate, ExtendCheck, ExtendOpen, ExtendWrite, Idles
<1> QED
  BY <1>3, <1>4, <1>5, <1>6, <1>7, <1>8, <1>9, <1>10, <1>11, <1>12, <1>13, <1>14, <1>15,
     <1>16, <1>17, <1>18, <1>19, <1>20, <1>21, <1>22, Zenon
     DEF Next, Supervisor, LoopStep, FinalStep

-----------------------------------------------------------------------------
(* One SessionStop.                                                        *)

\* The log ends with the SessionStop of the state, and has no other.
Stopped ==
    \E es \in Seq(NoStop), a \in StopStatus(state) : log = es \o <<Event("SessionStop", a)>>

\* There is no SessionStop and no error until the loop is left; from then on
\* the log is stopped, unless the loop failed and run has yet to log it.
StopInv ==
    /\ pc \in Early => log \in Seq(NoStop) /\ ~loopErr
    /\ pc \in {"reap", "clean"} => IF loopErr THEN log \in Seq(NoStop) ELSE Stopped
    /\ pc \in {"finlog", "finman", "findb", "done"} => Stopped

\* The events of an extension.
LEMMA ExtensionLog ==
    ASSUME TypeOK, check_budget_extension, log \in Seq(NoStop)
    PROVE  log' \in Seq(NoStop)
<1> DEFINE X(b) == ExtensionEvent(extRead.add, b)
<1>1. ASSUME NEW b \in Budgets PROVE X(b) \in Seq(NoStop)
  <2>1. <<Event("BudgetExtension", b)>> \in Seq(NoStop)
    BY PlainEvent, Zenon DEF EventKinds, EventArgs
  <2>2. << >> \in Seq(NoStop)
    OBVIOUS
  <2> QED
    BY <2>1, <2>2, Zenon DEF ExtensionEvent
<1> HIDE DEF X
<1>2. ((X("tool_calls") \o X("wall_time")) \o X("tool_time")) \o X("output_bytes") \in Seq(NoStop)
  <2>1. /\ X("tool_calls") \in Seq(NoStop) /\ X("wall_time") \in Seq(NoStop)
        /\ X("tool_time") \in Seq(NoStop) /\ X("output_bytes") \in Seq(NoStop)
    BY <1>1, Zenon DEF Budgets
  <2> QED
    BY <2>1, SeqConcat, Zenon
<1>3. log' = log \/ Emit(((X("tool_calls") \o X("wall_time")) \o X("tool_time")) \o X("output_bytes"))
  BY Zenon DEF check_budget_extension, X
<1> QED
  BY <1>2, <1>3, SeqConcat, Zenon DEF Emit

LEMMA StopStep == TypeOK /\ StopInv /\ [Next]_vars => StopInv'
<1> SUFFICES ASSUME TypeOK, StopInv, [Next]_vars PROVE StopInv'
  OBVIOUS
<1> USE DEF StopInv, Early, LoopPcs
<1>plain. ASSUME log \in Seq(NoStop), NEW es \in Seq(Plain), NEW e
          PROVE  /\ Emit(es) => log' \in Seq(NoStop)
                 /\ Emit(es \o <<e>>) /\ <<e>> \in Seq(NoStop) => log' \in Seq(NoStop)
                 /\ Emit(es \o <<e>>) => log' = (log \o es) \o <<e>> /\ log \o es \in Seq(NoStop)
  <2>1. es \in Seq(NoStop)
    BY PlainNoStop, Zenon
  <2>2. log \o es \in Seq(NoStop)
    BY <1>plain, <2>1, SeqConcat, Zenon
  <2>3. log \o (es \o <<e>>) = (log \o es) \o <<e>>
    BY <1>plain, <2>1
  <2> QED
    BY <2>2, <2>3, SeqConcat, Zenon DEF Emit
<1>1. CASE Idles
  BY <1>1, Zenon DEF Idles, Stopped
<1>2. CASE Moves
  <2>1. log' \in Seq(NoStop) /\ loopErr' = loopErr
    BY <1>2, <1>plain, Zenon DEF Moves
  <2>2. pc' \in Early \cup {"failed"} /\ ~loopErr
    BY <1>2, Zenon DEF Moves
  <2> QED
    BY <2>1, <2>2, Zenon
<1>3. CASE Breaks
  BY <1>3, Zenon DEF Breaks
<1>4. CASE Leaves
  <2>1. PICK es \in Seq(Plain), a \in StopStatus(state') : Emit(es \o <<Event("SessionStop", a)>>)
    BY <1>4, Zenon DEF Leaves
  <2>2. /\ log' = (log \o es) \o <<Event("SessionStop", a)>>
        /\ log \o es \in Seq(NoStop)
    BY <1>4, <1>plain, <2>1, Zenon DEF Leaves
  <2>3. Stopped'
    BY <2>2, Zenon DEF Stopped
  <2> QED
    BY <1>4, <2>3, Zenon DEF Leaves
<1>5. CASE Admits
  <2>1. ASSUME NEW id \in CallIds PROVE <<Event("ToolDispatch", id)>> \in Seq(NoStop)
    BY PlainEvent, Zenon DEF EventKinds
  <2>2. log' \in Seq(NoStop)
    BY <1>5, <1>plain, <2>1, Zenon DEF Admits
  <2> QED
    BY <1>5, <2>2, Zenon DEF Admits
<1>6. CASE Answers
  <2>1. ASSUME NEW a \in {"ok", "err"} PROVE <<Event("ToolResult", a)>> \in Seq(NoStop)
    BY PlainEvent, Zenon DEF EventKinds, EventArgs
  <2>2. log' \in Seq(NoStop)
    BY <1>6, <2>1, SeqConcat, Zenon DEF Answers, Emit
  <2> QED
    BY <1>6, <2>2, Zenon DEF Answers
<1>7. CASE Extends
  <2>1. pc = "extrm" /\ pc' = "snap" /\ loopErr' = loopErr
    BY <1>7, Zenon DEF Extends, check_budget_extension
  <2>2. log' \in Seq(NoStop)
    BY <1>7, <2>1, ExtensionLog, Zenon DEF Extends
  <2> QED
    BY <2>1, <2>2, Zenon
<1>8. CASE Finishes
  BY <1>8, Zenon DEF Finishes, Stopped
<1>9. CASE StopsLate
  <2>1. Stopped'
    BY <1>9, Zenon DEF StopsLate, Stopped, Emit
  <2> QED
    BY <1>9, <2>1, Zenon DEF StopsLate
<1> QED
  BY <1>1, <1>2, <1>3, <1>4, <1>5, <1>6, <1>7, <1>8, <1>9, StepCases, Zenon

\* However the loop ends, what finalize records has exactly one SessionStop: it
\* is the last event, and it agrees with the state.
THEOREM OneSessionStopHolds == Spec => []OneSessionStop
<1>1. Init => StopInv
  <2>1. << >> \in Seq(NoStop)
    OBVIOUS
  <2> QED
    BY <2>1, Zenon DEF Init, StopInv
<1>2. StopInv => OneSessionStop
  <2>1. ASSUME NEW l \in Seq(NoStop), NEW i \in 1 .. Len(l) PROVE l[i].kind # "SessionStop"
    <3>1. l[i] \in NoStop
      OBVIOUS
    <3> QED
      BY <3>1 DEF NoStop
  <2>2. ASSUME StopInv, pc \in LoopPcs
        PROVE  \A i \in 1 .. Len(log) : log[i].kind # "SessionStop"
    BY <2>1, <2>2, Zenon DEF StopInv, Early
  <2>3. ASSUME Stopped
        PROVE  /\ log # << >> /\ log[Len(log)].arg \in StopStatus(state)
               /\ \A i \in 1 .. Len(log) : log[i].kind = "SessionStop" <=> i = Len(log)
    <3>1. PICK es \in Seq(NoStop), a \in StopStatus(state) :
              log = es \o <<Event("SessionStop", a)>>
      BY <2>3, Zenon DEF Stopped
    <3>2. /\ Len(log) = Len(es) + 1 /\ Len(es) \in Nat
          /\ log[Len(log)] = Event("SessionStop", a)
          /\ \A i \in 1 .. Len(es) : log[i] = es[i]
      BY <3>1
    <3>3. Event("SessionStop", a).kind = "SessionStop" /\ Event("SessionStop", a).arg = a
      BY DEF Event
    <3>4. ASSUME NEW i \in 1 .. Len(log), i # Len(log) PROVE log[i].kind # "SessionStop"
      <4>1. i \in 1 .. Len(es)
        BY <3>2, <3>4
      <4> QED
        BY <2>1, <3>2, <4>1, Zenon
    <3>5. log # << >>
      BY <3>2
    <3> QED
      BY <3>2, <3>3, <3>4, <3>5, Zenon
  <2> QED
    BY <2>2, <2>3, Zenon DEF StopInv, OneSessionStop
<1> QED
  BY <1>1, <1>2, StopStep, TypeCorrect, PTL DEF Spec

-----------------------------------------------------------------------------
(* The steps of a session, by what else they change.                       *)

\* A step of the loop, and a step that leaves the supervisor alone.
InLoop ==
    /\ pc \in LoopPcs /\ pc' \in LoopPcs \cup {"reap"}
    /\ UNCHANGED <<dbManifest, casLog, manifest>>
Outside ==
    /\ UNCHANGED <<pc, log, dbManifest, casLog, manifest>>
    /\ agent' = agent \/ (agent = "alive" /\ agent' = "exited")

NoCall == UNCHANGED <<dbCalls, used>>
NoExtension == UNCHANGED <<extFile, extPc, exts>> /\ (pc' = "extrm" <=> pc = "extrm")

LEMMA LoopFrame ==
    ASSUME TypeOK, LoopStep
    PROVE  /\ InLoop
           /\ NoCall \/ \E bytes \in 0 .. MaxOutput : ToolOk(bytes)
           /\ NoExtension \/ ReadExtension \/ Extends
<1> USE DEF loopVars, budgetVars, fileVars, storeVars, cliVars
<1> DEFINE Framed == InLoop /\ NoCall /\ NoExtension
<1>1. CASE CheckKillFlag
  <2>1. Framed
    BY <1>1, Zenon DEF CheckKillFlag, LeaveLoop, InLoop, NoCall, NoExtension, LoopPcs
  <2> QED
    BY <2>1, Zenon
<1>2. CASE CheckAgentExit
  <2>1. Framed
    BY <1>2, Zenon DEF CheckAgentExit, LeaveLoop, InLoop, NoCall, NoExtension, LoopPcs
  <2> QED
    BY <2>1, Zenon
<1>3. CASE CheckWallTime
  <2>1. Framed
    BY <1>3, Zenon DEF CheckWallTime, LeaveLoop, InLoop, NoCall, NoExtension, LoopPcs
  <2> QED
    BY <2>1, Zenon
<1>4. CASE CheckHeartbeat
  <2>1. Framed
    BY <1>4, Zenon DEF CheckHeartbeat, LeaveLoop, InLoop, NoCall, NoExtension, LoopPcs
  <2> QED
    BY <2>1, Zenon
<1>5. CASE emit_resource_snapshot
  <2>1. Framed
    BY <1>5, Zenon DEF emit_resource_snapshot, InLoop, NoCall, NoExtension, LoopPcs
  <2> QED
    BY <2>1, Zenon
<1>6. CASE Accept
  <2>1. Framed
    BY <1>6, Zenon DEF Accept, LoopError, InLoop, NoCall, NoExtension, LoopPcs
  <2> QED
    BY <2>1, Zenon
<1>7. CASE ConnectionWallCheck
  <2>1. Framed
    BY <1>7, Zenon DEF ConnectionWallCheck, InLoop, NoCall, NoExtension, LoopPcs
  <2> QED
    BY <2>1, Zenon
<1>8. CASE ReadNoRequest
  <2>1. Framed
    BY <1>8, Zenon DEF ReadNoRequest, InLoop, NoCall, NoExtension, LoopPcs
  <2> QED
    BY <2>1, Zenon
<1>9. CASE write_response
  <2>1. Framed
    BY <1>9, Zenon DEF write_response, LoopError, InLoop, NoCall, NoExtension, LoopPcs
  <2> QED
    BY <2>1, Zenon
<1>10. CASE ToolErr
  <2>1. Framed
    BY <1>10, Zenon DEF ToolErr, InLoop, NoCall, NoExtension, LoopPcs
  <2> QED
    BY <2>1, Zenon
<1>11. CASE ReadRequest
  <2>1. PICK id \in CallIds, class \in Classes : dispatch_tool_call(id, class)
    BY <1>11, Zenon DEF ReadRequest
  <2>2. pc' = "respond" \/ pc' = "exec"
    BY <2>1, DispatchLog, Zenon
  <2>3. Framed
    BY <1>11, <2>2, Zenon DEF ReadRequest, InLoop, NoCall, NoExtension, LoopPcs
  <2> QED
    BY <2>3, Zenon
<1>12. CASE ReadExtension
  BY <1>12, Zenon DEF ReadExtension, InLoop, NoCall, LoopPcs
<1>13. CASE check_budget_extension
  BY <1>13, Zenon DEF check_budget_extension, Extends, InLoop, NoCall, LoopPcs
<1>14. ASSUME NEW bytes \in 0 .. MaxOutput, ToolOk(bytes)
      PROVE  InLoop /\ NoExtension
  BY <1>14, Zenon DEF ToolOk, InLoop, NoExtension, LoopPcs
<1> QED
  BY <1>1, <1>2, <1>3, <1>4, <1>5, <1>6, <1>7, <1>8, <1>9, <1>10, <1>11, <1>12, <1>13, <1>14, Zenon DEF LoopStep

LEMMA Frame ==
    ASSUME TypeOK, [Next]_vars
    PROVE  /\ \/ InLoop \/ Outside \/ create \/ StartAgent \/ Reap \/ CleanUp
              \/ StoreEventLog \/ StoreManifest \/ complete_session \/ FinalizeFails
              \/ StopUpdate
           /\ NoCall \/ \E bytes \in 0 .. MaxOutput : ToolOk(bytes)
           /\ NoExtension \/ ReadExtension \/ Extends \/ ExtendCheck \/ ExtendOpen \/ ExtendWrite
<1> USE DEF loopVars, budgetVars, fileVars, storeVars, cliVars
<1>1. CASE LoopStep
  BY <1>1, LoopFrame, Zenon
<1>2. CASE create \/ StartAgent
  BY <1>2, Zenon DEF create, StartAgent, NoCall, NoExtension
<1>3. CASE Reap \/ CleanUp \/ StoreEventLog
  BY <1>3, Zenon DEF Reap, CleanUp, StoreEventLog, NoCall, NoExtension
<1>4. CASE StoreManifest \/ complete_session \/ FinalizeFails
  BY <1>4, Zenon DEF StoreManifest, complete_session, FinalizeFails, NoCall, NoExtension
<1>5. CASE Tick \/ AgentExit \/ TeeKill
  BY <1>5, Zenon DEF Tick, AgentExit, TeeKill, Outside, NoCall, NoExtension
<1>6. CASE Terminating \/ UNCHANGED vars
  BY <1>6, Zenon DEF Terminating, vars, Outside, NoCall, NoExtension
<1>7. CASE StopCheck \/ StopUpdate
  BY <1>7, Zenon DEF StopCheck, StopUpdate, Outside, NoCall, NoExtension
<1>8. CASE StopSignal
  <2>1. agent' = agent \/ (agent = "alive" /\ agent' = "exited")
    BY <1>8, Zenon DEF StopSignal
  <2> QED
    BY <1>8, <2>1, Zenon DEF StopSignal, Outside, NoCall, NoExtension
<1>9. CASE ExtendCheck \/ ExtendOpen \/ ExtendWrite
  BY <1>9, Zenon DEF ExtendCheck, ExtendOpen, ExtendWrite, Outside, NoCall
<1> QED
  BY <1>1, <1>2, <1>3, <1>4, <1>5, <1>6, <1>7, <1>8, <1>9, Zenon
     DEF Next, Supervisor, FinalStep, Operator

-----------------------------------------------------------------------------
(* The agent, the event log in the store, the manifest.                    *)

\* finalize stores the log, then the manifest that counts its events, then the
\* row that names the manifest; and nothing is logged after the first of these.
FinalInv ==
    /\ pc \in {"create", "start"} => agent = "none"
    /\ AgentReaped
    /\ pc \in {"finman", "findb", "done"} => casLog = Len(log)
    /\ pc \in {"findb", "done"} => manifest.events = Len(log)
    /\ dbManifest # NoManifest => pc = "done" /\ dbManifest = manifest

LEMMA FinalStepInv == TypeOK /\ FinalInv /\ [Next]_vars => FinalInv'
<1> SUFFICES ASSUME TypeOK, FinalInv, [Next]_vars PROVE FinalInv'
  OBVIOUS
<1> USE DEF FinalInv, AgentReaped, LoopPcs, loopVars, budgetVars, fileVars, storeVars, cliVars
<1>1. CASE InLoop
  BY <1>1, Zenon DEF InLoop
<1>2. CASE Outside
  BY <1>2, Zenon DEF Outside
<1>3. CASE create
  BY <1>3, Zenon DEF create
<1>4. CASE StartAgent
  BY <1>4, Zenon DEF StartAgent
<1>5. CASE Reap
  BY <1>5, Zenon DEF Reap
<1>6. CASE CleanUp
  BY <1>6, Zenon DEF CleanUp
<1>7. CASE StoreEventLog
  BY <1>7, Zenon DEF StoreEventLog
<1>8. CASE StoreManifest
  <2>1. manifest'.events = Len(log')
    BY <1>8 DEF StoreManifest
  <2> QED
    BY <1>8, <2>1, Zenon DEF StoreManifest
<1>9. CASE complete_session
  BY <1>9, Zenon DEF complete_session
<1>10. CASE FinalizeFails
  BY <1>10, Zenon DEF FinalizeFails
<1>11. CASE StopUpdate
  BY <1>11, Zenon DEF StopUpdate
<1> QED
  BY <1>1, <1>2, <1>3, <1>4, <1>5, <1>6, <1>7, <1>8, <1>9, <1>10, <1>11, Frame, Zenon

LEMMA FinalHolds == Spec => []FinalInv
<1>1. Init => FinalInv
  BY Zenon DEF Init, FinalInv, AgentReaped
<1> QED
  BY <1>1, FinalStepInv, TypeCorrect, PTL DEF Spec

\* On every way out of run the agent has been waited for before anything of the
\* session is recorded.
THEOREM AgentReapedHolds == Spec => []AgentReaped
<1>1. FinalInv => AgentReaped
  BY Zenon DEF FinalInv
<1> QED
  BY <1>1, FinalHolds, PTL

\* At every point where the process could die, a manifest that the database row
\* names is stored, and so is the whole event log that the manifest counts.
THEOREM ManifestResolvesHolds == Spec => []ManifestResolves
<1>1. FinalInv => ManifestResolves
  BY Zenon DEF FinalInv, ManifestResolves
<1> QED
  BY <1>1, FinalHolds, PTL

-----------------------------------------------------------------------------
(* session_calls.                                                          *)

LEMMA RowsStep == TypeOK /\ RowsNumbered /\ [Next]_vars => RowsNumbered'
<1> SUFFICES ASSUME TypeOK, RowsNumbered, [Next]_vars PROVE RowsNumbered'
  OBVIOUS
<1> DEFINE n == used["tool_calls"]
<1>0. n \in Nat
  BY DEF TypeOK, DataTypeOK, Charged
<1>1. CASE NoCall
  BY <1>1, Zenon DEF NoCall, RowsNumbered
<1>2. ASSUME NEW bytes \in 0 .. MaxOutput, ToolOk(bytes) PROVE RowsNumbered'
  <2>1. used'["tool_calls"] = n + 1
    <3>1. used' = Charge(used, now - execStart, bytes) /\ used \in [Charged -> Nat]
      BY <1>2, Zenon DEF ToolOk, TypeOK, DataTypeOK
    <3> QED
      BY <3>1 DEF Charge, Charged
  <2> DEFINE row == [id |-> call, seq |-> n + 1]
  <2>2. \/ dbCalls' = dbCalls
        \/ dbCalls' = dbCalls \cup {row} /\ call \notin {r.id : r \in dbCalls}
    BY <1>2, Zenon DEF ToolOk, InsertSessionCall, CallRowRefused
  <2>3. row.id = call /\ row.seq = n + 1
    OBVIOUS
  <2> HIDE DEF n, row
  <2>4. \A r \in dbCalls : r.seq \in 1 .. n
    BY Zenon DEF RowsNumbered, n
  <2>5. \A r \in dbCalls : r.seq \in 1 .. n + 1 /\ r.seq # n + 1
    BY <1>0, <2>4
  <2>6. n + 1 \in 1 .. n + 1
    BY <1>0
  <2>7. \A r \in dbCalls' : r.seq \in 1 .. used'["tool_calls"]
    BY <2>1, <2>2, <2>3, <2>5, <2>6, Zenon
  <2>8. \A r1, r2 \in dbCalls' : r1 # r2 => r1.seq # r2.seq /\ r1.id # r2.id
    <3>1. CASE dbCalls' = dbCalls
      BY <3>1, Zenon DEF RowsNumbered
    <3>2. CASE dbCalls' = dbCalls \cup {row} /\ call \notin {r.id : r \in dbCalls}
      <4>1. \A r \in dbCalls : r.seq # row.seq /\ r.id # row.id
        BY <2>3, <2>5, <3>2, Zenon
      <4>2. \A r1, r2 \in dbCalls : r1 # r2 => r1.seq # r2.seq /\ r1.id # r2.id
        BY Zenon DEF RowsNumbered
      <4> QED
        BY <3>2, <4>1, <4>2, Zenon
    <3> QED
      BY <2>2, <3>1, <3>2, Zenon
  <2> QED
    BY <2>7, <2>8, Zenon DEF RowsNumbered
<1> QED
  BY <1>1, <1>2, Frame, Zenon

\* The rows of session_calls have distinct ids and distinct sequence numbers
\* between 1 and the number of charged calls, although an insert may be refused
\* or fail.
THEOREM RowsNumberedHolds == Spec => []RowsNumbered
<1>1. Init => RowsNumbered
  BY Zenon DEF Init, RowsNumbered
<1> QED
  BY <1>1, RowsStep, TypeCorrect, PTL DEF Spec

-----------------------------------------------------------------------------
(* Counting.  FiniteSetTheorems has more than this needs, and makes every  *)
(* other proof of the module slower.                                       *)

\* Induction, for a set of numbers instead of a predicate.
LEMMA SetInduction ==
    ASSUME NEW S, 0 \in S, \A n \in Nat : n \in S => n + 1 \in S
    PROVE  \A n \in Nat : n \in S
<1> DEFINE T == Nat \ S
<1> SUFFICES ASSUME T # {} PROVE FALSE
  OBVIOUS
<1>1. PICK x \in T : \A y \in T : ~(<<y, x>> \in OpToRel(<, Nat))
  BY NatLessThanWellFounded, WFMin, Zenon
<1>2. \A y \in T : ~(y < x)
  BY <1>1, Zenon DEF OpToRel
<1>3. x # 0 /\ x - 1 \in Nat /\ x - 1 \notin T
  BY <1>2
<1> QED
  BY <1>3

\* f lists the elements of T, each once, and there are n.
Listing(f, T, n) ==
    /\ n \in Nat
    /\ f \in [1 .. n -> T]
    /\ \A i, j \in 1 .. n : f[i] = f[j] => i = j
    /\ \A x \in T : \E i \in 1 .. n : f[i] = x

HasSize(T, n) == \E f : Listing(f, T, n)

LEMMA SizeEmpty == HasSize({}, 0) /\ \A T : HasSize(T, 0) => T = {}
<1>1. Listing([i \in 1 .. 0 |-> i], {}, 0)
  BY DEF Listing
<1>2. ASSUME NEW T, HasSize(T, 0) PROVE T = {}
  BY <1>2 DEF HasSize, Listing
<1> QED
  BY <1>1, <1>2, Zenon DEF HasSize

\* An element less is one less.
LEMMA SizeRemove ==
    ASSUME NEW T, NEW n, HasSize(T, n), NEW x \in T
    PROVE  n \in Nat \ {0} /\ HasSize(T \ {x}, n - 1)
<1>1. PICK f : Listing(f, T, n)
  BY Zenon DEF HasSize
<1>2. /\ n \in Nat /\ f \in [1 .. n -> T]
      /\ \A i, j \in 1 .. n : f[i] = f[j] => i = j
      /\ \A y \in T : \E i \in 1 .. n : f[i] = y
  BY <1>1, Zenon DEF Listing
<1>3. PICK m \in 1 .. n : f[m] = x
  BY <1>2, Zenon
<1> DEFINE g == [i \in 1 .. n - 1 |-> IF i = m THEN f[n] ELSE f[i]]
<1>4. n \in Nat \ {0} /\ n - 1 \in Nat /\ n \in 1 .. n /\ n \notin 1 .. n - 1
      /\ \A i \in 1 .. n - 1 : i \in 1 .. n
  BY <1>2, <1>3
<1>5. \A i \in 1 .. n : i = n \/ i \in 1 .. n - 1
  BY <1>2
<1>6. \A i \in 1 .. n - 1 : g[i] = IF i = m THEN f[n] ELSE f[i]
  BY Zenon
<1>7. g \in [1 .. n - 1 -> T \ {x}]
  <2>1. ASSUME NEW i \in 1 .. n - 1 PROVE (IF i = m THEN f[n] ELSE f[i]) \in T \ {x}
    <3>1. f[n] \in T /\ f[i] \in T /\ (i = m => n # m)
      BY <1>2, <1>4, Zenon
    <3>2. i # m => f[i] # x
      BY <1>2, <1>3, <1>4, Zenon
    <3>3. n # m => f[n] # x
      BY <1>2, <1>3, <1>4, Zenon
    <3> QED
      BY <3>1, <3>2, <3>3, Zenon
  <2> QED
    BY <2>1, Zenon
<1> HIDE DEF g
<1>8. \A i, j \in 1 .. n - 1 : g[i] = g[j] => i = j
  <2> SUFFICES ASSUME NEW i \in 1 .. n - 1, NEW j \in 1 .. n - 1, g[i] = g[j] PROVE i = j
    BY Zenon
  <2>1. i \in 1 .. n /\ j \in 1 .. n /\ n \in 1 .. n /\ i # n /\ j # n
    BY <1>4, Zenon
  <2> QED
    BY <1>2, <1>6, <2>1, Zenon
<1>9. \A y \in T \ {x} : \E i \in 1 .. n - 1 : g[i] = y
  <2> SUFFICES ASSUME NEW y \in T \ {x} PROVE \E i \in 1 .. n - 1 : g[i] = y
    BY Zenon
  <2>1. PICK i \in 1 .. n : f[i] = y /\ i # m
    BY <1>2, <1>3, Zenon
  <2>2. CASE i = n
    <3>1. m \in 1 .. n - 1
      BY <1>5, <2>1, <2>2, Zenon
    <3> QED
      BY <1>6, <2>1, <2>2, <3>1, Zenon
  <2>3. CASE i # n
    BY <1>5, <1>6, <2>1, <2>3, Zenon
  <2> QED
    BY <2>2, <2>3, Zenon
<1> QED
  BY <1>4, <1>7, <1>8, <1>9, Zenon DEF HasSize, Listing

\* There is only one number of elements.
LEMMA SizeUnique ==
    ASSUME NEW T, NEW n, NEW m, HasSize(T, n), HasSize(T, m)
    PROVE  n = m
<1> DEFINE S == {a \in Nat : \A U, b : HasSize(U, a) /\ HasSize(U, b) => a = b}
<1>0. \A U, a : HasSize(U, a) => a \in Nat
  BY Zenon DEF HasSize, Listing
<1>1. 0 \in S
  <2>1. ASSUME NEW U, NEW b, HasSize(U, 0), HasSize(U, b) PROVE 0 = b
    <3>1. U = {} /\ b \in Nat
      BY <1>0, <2>1, SizeEmpty, Zenon
    <3>2. PICK f : Listing(f, {}, b)
      BY <2>1, <3>1, Zenon DEF HasSize
    <3> QED
      BY <3>1, <3>2 DEF Listing
  <2>2. 0 \in Nat
    OBVIOUS
  <2> QED
    BY <2>1, <2>2, Zenon
<1>2. ASSUME NEW a \in Nat, a \in S PROVE a + 1 \in S
  <2>1. ASSUME NEW U, NEW b, HasSize(U, a + 1), HasSize(U, b) PROVE a + 1 = b
    <3>1. PICK f : Listing(f, U, a + 1)
      BY <2>1, Zenon DEF HasSize
    <3>2. a + 1 \in 1 .. a + 1
      OBVIOUS
    <3>3. f[a + 1] \in U
      BY <3>1, <3>2, Zenon DEF Listing
    <3>4. HasSize(U \ {f[a + 1]}, (a + 1) - 1) /\ HasSize(U \ {f[a + 1]}, b - 1) /\ b \in Nat
      BY <1>0, <2>1, <3>3, SizeRemove, Zenon
    <3>5. (a + 1) - 1 = a
      OBVIOUS
    <3>6. a = b - 1
      BY <1>2, <3>4, <3>5, Zenon
    <3> QED
      BY <3>4, <3>6
  <2>2. a + 1 \in Nat
    OBVIOUS
  <2> QED
    BY <2>1, <2>2, Zenon
<1>3. \A a \in Nat : a \in S
  <2> HIDE DEF S
  <2> QED
    BY <1>1, <1>2, SetInduction, Zenon
<1> QED
  BY <1>0, <1>3, Zenon

LEMMA SizeSubset ==
    ASSUME NEW T, NEW n, HasSize(T, n), NEW U \in SUBSET T
    PROVE  \E m \in Nat : HasSize(U, m)
<1> DEFINE S == {a \in Nat : \A V : HasSize(V, a) =>
                    \A W \in SUBSET V : \E m \in Nat : HasSize(W, m)}
<1>0. \A V, a : HasSize(V, a) => a \in Nat
  BY Zenon DEF HasSize, Listing
<1>1. 0 \in S
  <2>1. 0 \in Nat
    OBVIOUS
  <2>2. \A V : HasSize(V, 0) => \A W \in SUBSET V : HasSize(W, 0)
    <3>1. ASSUME NEW V, HasSize(V, 0), NEW W \in SUBSET V PROVE HasSize(W, 0)
      <4>1. W = {}
        BY <3>1, SizeEmpty, Zenon
      <4> QED
        BY <4>1, SizeEmpty, Zenon
    <3> QED
      BY <3>1, Zenon
  <2> QED
    BY <2>1, <2>2, Zenon
<1>2. ASSUME NEW a \in Nat, a \in S PROVE a + 1 \in S
  <2>1. a + 1 \in Nat /\ (a + 1) - 1 = a
    OBVIOUS
  <2>2. ASSUME NEW V, HasSize(V, a + 1), NEW W \in SUBSET V
        PROVE  \E m \in Nat : HasSize(W, m)
    <3>1. CASE W = V
      BY <2>1, <2>2, <3>1, Zenon
    <3>2. CASE W # V
      <4>1. PICK x \in V : x \notin W
        BY <3>2, Zenon
      <4>2. HasSize(V \ {x}, a)
        BY <2>1, <2>2, SizeRemove, Zenon
      <4>3. W \in SUBSET (V \ {x})
        BY <4>1, Zenon
      <4> QED
        BY <1>2, <4>2, <4>3, Zenon
    <3> QED
      BY <3>1, <3>2, Zenon
  <2> QED
    BY <2>1, <2>2, Zenon
<1>3. \A a \in Nat : a \in S
  <2> HIDE DEF S
  <2> QED
    BY <1>1, <1>2, SetInduction, Zenon
<1> QED
  BY <1>0, <1>3, Zenon

\* What Cardinality is defined by.
IsCount(f, S) == f = [T \in SUBSET S |-> IF T = {} THEN 0 ELSE 1 + f[T \ {CHOOSE x : x \in T}]]

\* A function that gives every subset its size is the one Cardinality looks for.
LEMMA CountExists ==
    ASSUME NEW S, NEW n, HasSize(S, n)
    PROVE  \E f : IsCount(f, S)
<1> DEFINE F == [T \in SUBSET S |-> CHOOSE m : HasSize(T, m)]
<1>1. \A T \in SUBSET S : HasSize(T, F[T])
  <2> SUFFICES ASSUME NEW T \in SUBSET S PROVE HasSize(T, F[T])
    BY Zenon
  <2>1. HasSize(T, CHOOSE m : HasSize(T, m))
    BY SizeSubset, Zenon
  <2> QED
    BY <2>1, Zenon
<1>2. F = [T \in SUBSET S |-> F[T]]
  OBVIOUS
<1> HIDE DEF F
<1>3. ASSUME NEW T \in SUBSET S
      PROVE  F[T] = IF T = {} THEN 0 ELSE 1 + F[T \ {CHOOSE x : x \in T}]
  <2>1. CASE T = {}
    <3>1. HasSize(T, 0)
      BY <2>1, SizeEmpty, Zenon
    <3> QED
      BY <1>1, <2>1, <3>1, SizeUnique, Zenon
  <2>2. CASE T # {}
    <3> DEFINE c == CHOOSE x : x \in T
               U == T \ {c}
    <3>1. c \in T
      BY <2>2, Zenon
    <3>2. F[T] \in Nat \ {0} /\ HasSize(U, F[T] - 1)
      BY <1>1, <3>1, SizeRemove, Zenon
    <3>3. U \in SUBSET S
      BY Zenon
    <3>4. F[U] = F[T] - 1
      BY <1>1, <3>2, <3>3, SizeUnique, Zenon
    <3> HIDE DEF c, U
    <3>5. F[T] = 1 + F[U]
      BY <3>2, <3>4
    <3> QED
      BY <2>2, <3>5, Zenon DEF c, U
  <2> QED
    BY <2>1, <2>2, Zenon
<1>4. IsCount(F, S)
  BY <1>2, <1>3, Zenon DEF IsCount
<1> QED
  BY <1>4, Zenon

LEMMA SizeIsCardinality ==
    ASSUME NEW S, NEW n, HasSize(S, n)
    PROVE  Cardinality(S) = n
<1>1. PICK g : IsCount(g, S) /\ Cardinality(S) = g[S]
  <2>1. Cardinality(S) = (CHOOSE g : IsCount(g, S))[S]
    BY Zenon DEF Cardinality, IsCount
  <2>2. IsCount(CHOOSE g : IsCount(g, S), S)
    BY CountExists, Zenon
  <2> QED
    BY <2>1, <2>2, Zenon
<1> DEFINE M == {a \in Nat : \A T \in SUBSET S : HasSize(T, a) => g[T] = a}
<1>2. \A T \in SUBSET S : g[T] = IF T = {} THEN 0 ELSE 1 + g[T \ {CHOOSE x : x \in T}]
  <2> DEFINE H(f, T) == IF T = {} THEN 0 ELSE 1 + f[T \ {CHOOSE x : x \in T}]
  <2>1. g = [T \in SUBSET S |-> H(g, T)]
    BY <1>1, Zenon DEF IsCount
  <2> HIDE DEF H
  <2>2. \A T \in SUBSET S : g[T] = H(g, T)
    BY <2>1, Zenon
  <2> QED
    BY <2>2, Zenon DEF H
<1>3. 0 \in M
  <2>1. 0 \in Nat
    OBVIOUS
  <2> QED
    BY <1>2, <2>1, SizeEmpty, Zenon
<1>4. ASSUME NEW a \in Nat, a \in M PROVE a + 1 \in M
  <2>1. a + 1 \in Nat /\ (a + 1) - 1 = a /\ a + 1 # 0 /\ 1 + a = a + 1
    OBVIOUS
  <2>2. ASSUME NEW T \in SUBSET S, HasSize(T, a + 1) PROVE g[T] = a + 1
    <3>1. T # {}
      BY <2>1, <2>2, SizeEmpty, SizeUnique, Zenon
    <3>2. (CHOOSE x : x \in T) \in T
      BY <3>1, Zenon
    <3>3. HasSize(T \ {CHOOSE x : x \in T}, a)
      BY <2>1, <2>2, <3>2, SizeRemove, Zenon
    <3>4. T \ {CHOOSE x : x \in T} \in SUBSET S
      BY Zenon
    <3>5. g[T \ {CHOOSE x : x \in T}] = a
      BY <1>4, <3>3, <3>4, Zenon
    <3> QED
      BY <1>2, <2>1, <3>1, <3>5, Zenon
  <2> QED
    BY <2>1, <2>2, Zenon
<1>5. \A a \in Nat : a \in M
  <2> HIDE DEF M
  <2> QED
    BY <1>3, <1>4, SetInduction, Zenon
<1>6. n \in Nat /\ S \in SUBSET S
  BY Zenon DEF HasSize, Listing
<1> QED
  BY <1>1, <1>5, <1>6, Zenon

\* Two sets without a common element.
LEMMA SizeUnion ==
    ASSUME NEW A, NEW D, NEW a, NEW b, HasSize(A, a), HasSize(D, b), A \cap D = {}
    PROVE  HasSize(A \cup D, a + b)
<1>1. PICK f : Listing(f, A, a)
  BY Zenon DEF HasSize
<1>2. PICK g : Listing(g, D, b)
  BY Zenon DEF HasSize
<1>3. /\ a \in Nat /\ b \in Nat /\ f \in [1 .. a -> A] /\ g \in [1 .. b -> D]
      /\ \A i, j \in 1 .. a : f[i] = f[j] => i = j
      /\ \A i, j \in 1 .. b : g[i] = g[j] => i = j
      /\ \A x \in A : \E i \in 1 .. a : f[i] = x
      /\ \A x \in D : \E i \in 1 .. b : g[i] = x
  BY <1>1, <1>2, Zenon DEF Listing
<1> DEFINE h == [i \in 1 .. a + b |-> IF i <= a THEN f[i] ELSE g[i - a]]
<1>4. /\ a + b \in Nat
      /\ \A i \in 1 .. a + b : (i <= a => i \in 1 .. a) /\ (~(i <= a) => i - a \in 1 .. b)
      /\ \A i \in 1 .. a : i \in 1 .. a + b /\ i <= a
      /\ \A i \in 1 .. b : i + a \in 1 .. a + b /\ ~(i + a <= a) /\ (i + a) - a = i
  BY <1>3
<1>5. \A i \in 1 .. a + b : h[i] = IF i <= a THEN f[i] ELSE g[i - a]
  BY Zenon
<1>6. h \in [1 .. a + b -> A \cup D]
  <2>1. ASSUME NEW i \in 1 .. a + b PROVE (IF i <= a THEN f[i] ELSE g[i - a]) \in A \cup D
    BY <1>3, <1>4, Zenon
  <2> QED
    BY <2>1, Zenon
<1> HIDE DEF h
<1>7. \A i, j \in 1 .. a + b : h[i] = h[j] => i = j
  <2> SUFFICES ASSUME NEW i \in 1 .. a + b, NEW j \in 1 .. a + b, h[i] = h[j] PROVE i = j
    BY Zenon
  <2>1. ASSUME NEW k \in 1 .. a + b
        PROVE  IF k <= a THEN k \in 1 .. a /\ h[k] = f[k] /\ h[k] \in A
                         ELSE k - a \in 1 .. b /\ h[k] = g[k - a] /\ h[k] \in D
    <3>1. CASE k <= a
      <4>1. k \in 1 .. a
        BY <1>4, <3>1, Zenon
      <4>2. h[k] = f[k] /\ f[k] \in A
        BY <1>3, <1>5, <3>1, <4>1, Zenon
      <4> QED
        BY <3>1, <4>1, <4>2, Zenon
    <3>2. CASE ~(k <= a)
      <4>1. k - a \in 1 .. b
        BY <1>4, <3>2, Zenon
      <4>2. h[k] = g[k - a] /\ g[k - a] \in D
        BY <1>3, <1>5, <3>2, <4>1, Zenon
      <4> QED
        BY <3>2, <4>1, <4>2, Zenon
    <3> QED
      BY <3>1, <3>2, Zenon
  <2>2. i <= a <=> j <= a
    BY <2>1, Zenon
  <2>3. CASE i <= a
    BY <1>3, <2>1, <2>2, <2>3, Zenon
  <2>4. CASE ~(i <= a)
    <3>1. i - a \in 1 .. b /\ j - a \in 1 .. b /\ g[i - a] = g[j - a]
      BY <2>1, <2>2, <2>4, Zenon
    <3>2. i - a = j - a
      BY <1>3, <3>1, Zenon
    <3> QED
      BY <1>3, <3>2
  <2> QED
    BY <2>3, <2>4, Zenon
<1>8. \A x \in A \cup D : \E i \in 1 .. a + b : h[i] = x
  <2>1. ASSUME NEW x \in A PROVE \E i \in 1 .. a + b : h[i] = x
    BY <1>3, <1>4, <1>5, <2>1, Zenon
  <2>2. ASSUME NEW x \in D PROVE \E i \in 1 .. a + b : h[i] = x
    <3>1. PICK i \in 1 .. b : g[i] = x
      BY <1>3, <2>2, Zenon
    <3>2. h[i + a] = x
      BY <1>4, <1>5, <3>1, Zenon
    <3> QED
      BY <1>4, <3>2, Zenon
  <2> QED
    BY <2>1, <2>2, Zenon
<1> QED
  BY <1>4, <1>6, <1>7, <1>8, Zenon DEF HasSize, Listing

\* The places of a sequence where S is met can be counted.
LEMMA PlacesSize ==
    ASSUME NEW s \in Seq(Events), NEW S
    PROVE  Count(s, S) \in Nat /\ HasSize({i \in 1 .. Len(s) : s[i] \in S}, Count(s, S))
<1> DEFINE A == {i \in 1 .. Len(s) : s[i] \in S}
           f == [i \in 1 .. Len(s) |-> i]
<1>1. Len(s) \in Nat
  OBVIOUS
<1>2. Listing(f, 1 .. Len(s), Len(s))
  <2>1. f \in [1 .. Len(s) -> 1 .. Len(s)] /\ \A i \in 1 .. Len(s) : f[i] = i
    BY Zenon
  <2> HIDE DEF f
  <2> QED
    BY <1>1, <2>1, Zenon DEF Listing
<1>3. A \in SUBSET (1 .. Len(s))
  BY Zenon
<1>4. PICK m \in Nat : HasSize(A, m)
  <2>1. HasSize(1 .. Len(s), Len(s))
    BY <1>2, Zenon DEF HasSize
  <2> HIDE DEF A
  <2> QED
    BY <1>3, <2>1, SizeSubset, Zenon
<1>5. Cardinality(A) = m
  BY <1>4, SizeIsCardinality, Zenon
<1> QED
  BY <1>4, <1>5, Zenon DEF Count

LEMMA CountType ==
    ASSUME NEW s \in Seq(Events), NEW S
    PROVE  Count(s, S) \in Nat
BY PlacesSize, Zenon

LEMMA CardinalityEmpty == Cardinality({}) = 0
BY SizeEmpty, SizeIsCardinality, Zenon

LEMMA CountEmpty == \A S : Count(<< >>, S) = 0
<1> SUFFICES ASSUME NEW S PROVE Count(<< >>, S) = 0
  OBVIOUS
<1>1. {i \in 1 .. Len(<< >>) : << >>[i] \in S} = {}
  OBVIOUS
<1> QED
  BY <1>1, CardinalityEmpty, Zenon DEF Count

LEMMA CountOne ==
    ASSUME NEW e \in Events, NEW S
    PROVE  Count(<<e>>, S) = IF e \in S THEN 1 ELSE 0
<1>1. {i \in 1 .. Len(<<e>>) : <<e>>[i] \in S} = IF e \in S THEN {1} ELSE {}
  OBVIOUS
<1>2. Listing([i \in 1 .. 1 |-> 1], {1}, 1)
  BY DEF Listing
<1>3. Cardinality({1}) = 1
  BY <1>2, SizeIsCardinality, Zenon DEF HasSize
<1> QED
  BY <1>1, <1>3, CardinalityEmpty, Zenon DEF Count

\* Appending adds up the counts.
LEMMA CountConcat ==
    ASSUME NEW s \in Seq(Events), NEW t \in Seq(Events), NEW S
    PROVE  Count(s \o t, S) = Count(s, S) + Count(t, S)
<1> DEFINE A == {i \in 1 .. Len(s) : s[i] \in S}
           B == {i \in 1 .. Len(t) : t[i] \in S}
           C == {i \in 1 .. Len(s \o t) : (s \o t)[i] \in S}
           D == {i \in Len(s) + 1 .. Len(s) + Len(t) : t[i - Len(s)] \in S}
<1>1. Len(s) \in Nat /\ Len(t) \in Nat
  OBVIOUS
<1>2. C = A \cup D /\ A \cap D = {}
  BY <1>1
<1>3. HasSize(A, Count(s, S)) /\ HasSize(B, Count(t, S)) /\ Count(t, S) \in Nat
  BY PlacesSize, Zenon
<1>4. HasSize(D, Count(t, S))
  <2> DEFINE n == Count(t, S)
  <2>1. PICK f : Listing(f, B, n)
    BY <1>3, Zenon DEF HasSize
  <2> DEFINE g == [i \in 1 .. n |-> f[i] + Len(s)]
  <2>2. /\ n \in Nat /\ f \in [1 .. n -> B]
        /\ \A i, j \in 1 .. n : f[i] = f[j] => i = j
        /\ \A x \in B : \E i \in 1 .. n : f[i] = x
    BY <2>1, Zenon DEF Listing
  <2>3. \A x \in B : x \in Nat /\ x + Len(s) \in D
    BY <1>1
  <2>4. \A d \in D : d - Len(s) \in B /\ (d - Len(s)) + Len(s) = d
    BY <1>1
  <2> HIDE DEF n, B, D
  <2>5. g \in [1 .. n -> D] /\ \A i \in 1 .. n : g[i] = f[i] + Len(s) /\ f[i] \in Nat
    <3>1. \A i \in 1 .. n : f[i] + Len(s) \in D /\ f[i] \in Nat
      BY <2>2, <2>3, Zenon
    <3> QED
      BY <3>1, Zenon
  <2> HIDE DEF g
  <2>6. \A i, j \in 1 .. n : g[i] = g[j] => i = j
    <3> SUFFICES ASSUME NEW i \in 1 .. n, NEW j \in 1 .. n, g[i] = g[j] PROVE i = j
      BY Zenon
    <3>1. f[i] + Len(s) = f[j] + Len(s) /\ f[i] \in Nat /\ f[j] \in Nat
      BY <2>5, Zenon
    <3>2. f[i] = f[j]
      BY <1>1, <3>1
    <3> QED
      BY <2>2, <3>2, Zenon
  <2>7. \A d \in D : \E i \in 1 .. n : g[i] = d
    <3> SUFFICES ASSUME NEW d \in D PROVE \E i \in 1 .. n : g[i] = d
      BY Zenon
    <3>1. PICK i \in 1 .. n : f[i] = d - Len(s)
      BY <2>2, <2>4, Zenon
    <3>2. g[i] = d
      BY <2>4, <2>5, <3>1, Zenon
    <3> QED
      BY <3>2, Zenon
  <2> QED
    BY <2>2, <2>5, <2>6, <2>7, Zenon DEF HasSize, Listing, n
<1> HIDE DEF A, B, C, D
<1>5. HasSize(C, Count(s, S) + Count(t, S))
  BY <1>2, <1>3, <1>4, SizeUnion, Zenon
<1>6. Cardinality(C) = Count(s, S) + Count(t, S)
  BY <1>5, SizeIsCardinality, Zenon
<1> QED
  BY <1>6, Zenon DEF Count, C

\* A sequence of plain events has none of a set that holds no plain event.
LEMMA CountPlain ==
    ASSUME NEW es \in Seq(Plain), NEW S, S \cap Plain = {}
    PROVE  es \in Seq(Events) /\ Count(es, S) = 0
<1>1. {i \in 1 .. Len(es) : es[i] \in S} = {}
  <2>1. \A i \in 1 .. Len(es) : es[i] \in Plain
    OBVIOUS
  <2> QED
    BY <2>1, Zenon
<1> QED
  BY <1>1, PlainNoStop, CardinalityEmpty, Zenon DEF Count

\* What logging one event, after plain ones or none, does to the counts.
LEMMA CountEmitted ==
    ASSUME log \in Seq(Events), NEW S, S \cap Plain = {}, NEW es \in Seq(Plain), NEW e \in Events
    PROVE  /\ Emit(es) => Count(log', S) = Count(log, S)
           /\ Emit(<<e>>) \/ Emit(es \o <<e>>) =>
                 Count(log', S) = Count(log, S) + IF e \in S THEN 1 ELSE 0
<1>1. es \in Seq(Events) /\ <<e>> \in Seq(Events) /\ Count(es, S) = 0
  <2>1. <<e>> \in Seq(Events)
    OBVIOUS
  <2> QED
    BY <2>1, CountPlain, Zenon
<1>2. Count(<<e>>, S) = (IF e \in S THEN 1 ELSE 0) /\ Count(log, S) \in Nat
  BY CountOne, CountType, Zenon
<1>3. ASSUME Emit(es) PROVE Count(log', S) = Count(log, S)
  <2>1. Count(log', S) = Count(log, S) + 0
    BY <1>1, <1>3, CountConcat, Zenon DEF Emit
  <2> QED
    BY <1>2, <2>1
<1>4. ASSUME Emit(<<e>>) PROVE Count(log', S) = Count(log, S) + IF e \in S THEN 1 ELSE 0
  <2>1. Count(log', S) = Count(log, S) + Count(<<e>>, S)
    BY <1>1, <1>4, CountConcat, Zenon DEF Emit
  <2> QED
    BY <1>2, <2>1, Zenon
<1>5. ASSUME Emit(es \o <<e>>)
      PROVE  Count(log', S) = Count(log, S) + IF e \in S THEN 1 ELSE 0
  <2>1. es \o <<e>> \in Seq(Events) /\ Count(es \o <<e>>, S) = 0 + Count(<<e>>, S)
    BY <1>1, SeqConcat, CountConcat, Zenon
  <2>2. Count(log', S) = Count(log, S) + Count(es \o <<e>>, S)
    BY <1>5, <2>1, CountConcat, Zenon DEF Emit
  <2>3. 0 + (IF e \in S THEN 1 ELSE 0) = IF e \in S THEN 1 ELSE 0
    OBVIOUS
  <2> QED
    BY <1>2, <2>1, <2>2, <2>3, Zenon
<1> QED
  BY <1>3, <1>4, <1>5, Zenon

-----------------------------------------------------------------------------
(* The counts after each kind of step.                                     *)

LEMMA CountsAfter ==
    ASSUME TypeOK, NEW S, S \cap Plain = {}
    PROVE  /\ Count(log, S) \in Nat
           /\ Idles \/ Moves \/ Breaks \/ Finishes => Count(log', S) = Count(log, S)
           /\ S \subseteq NoStop /\ (Leaves \/ StopsLate) => Count(log', S) = Count(log, S)
           /\ Admits => \E id \in CallIds : Count(log', S)
                  = Count(log, S) + IF Event("ToolDispatch", id) \in S THEN 1 ELSE 0
           /\ \A a \in {"ok", "err"} : Emit(<<Event("ToolResult", a)>>) => Count(log', S)
                  = Count(log, S) + IF Event("ToolResult", a) \in S THEN 1 ELSE 0
<1>1. log \in Seq(Events) /\ Count(log, S) \in Nat /\ << >> \in Seq(Plain)
  <2>1. << >> \in Seq(Plain)
    OBVIOUS
  <2> QED
    BY <2>1, CountType, Zenon DEF TypeOK
<1>2. ASSUME Idles \/ Moves \/ Breaks \/ Finishes PROVE Count(log', S) = Count(log, S)
  <2>1. CASE log' = log
    BY <2>1, Zenon
  <2>2. ASSUME NEW es \in Seq(Plain), Emit(es) PROVE Count(log', S) = Count(log, S)
    <3>1. Event("SessionStart", "none") \in Events
      BY EventType, Zenon DEF EventKinds, EventArgs
    <3> QED
      BY <1>1, <2>2, <3>1, CountEmitted, Zenon
  <2> QED
    BY <1>2, <2>1, <2>2, Zenon DEF Idles, Moves, Breaks, Finishes
<1>3. ASSUME S \subseteq NoStop, Leaves \/ StopsLate PROVE Count(log', S) = Count(log, S)
  <2>1. PICK es \in Seq(Plain), a \in StopStatus(state') :
            Emit(<<Event("SessionStop", a)>>) \/ Emit(es \o <<Event("SessionStop", a)>>)
    BY <1>1, <1>3, Zenon DEF Leaves, StopsLate
  <2>2. a \in EventArgs
    BY <2>1 DEF StopStatus, EventArgs
  <2>3. Event("SessionStop", a) \in Events /\ Event("SessionStop", a) \notin S
    <3>1. Event("SessionStop", a) \notin NoStop
      BY DEF Event, NoStop
    <3> QED
      BY <1>3, <2>2, <3>1, EventType, Zenon DEF EventKinds
  <2>4. Count(log', S) = Count(log, S) + 0
    BY <1>1, <2>1, <2>3, CountEmitted, Zenon
  <2> QED
    BY <1>1, <2>4
<1>4. ASSUME Admits
      PROVE  \E id \in CallIds : Count(log', S)
                 = Count(log, S) + IF Event("ToolDispatch", id) \in S THEN 1 ELSE 0
  <2>1. PICK es \in Seq(Plain), id \in CallIds : Emit(es \o <<Event("ToolDispatch", id)>>)
    BY <1>4, Zenon DEF Admits
  <2>2. Event("ToolDispatch", id) \in Events
    BY EventType, Zenon DEF EventKinds
  <2> QED
    BY <1>1, <2>1, <2>2, CountEmitted, Zenon
<1>5. ASSUME NEW a \in {"ok", "err"}, Emit(<<Event("ToolResult", a)>>)
      PROVE  Count(log', S) = Count(log, S) + IF Event("ToolResult", a) \in S THEN 1 ELSE 0
  <2>1. Event("ToolResult", a) \in Events
    BY EventType, Zenon DEF EventKinds, EventArgs
  <2> QED
    BY <1>1, <1>5, <2>1, CountEmitted, Zenon
<1> QED
  BY <1>1, <1>2, <1>3, <1>4, <1>5, Zenon

\* The sets that are counted, and which events are in them.
Extended(b) == Count(log, {Event("BudgetExtension", b)})

LEMMA CountedSets ==
    /\ \A k \in Special : OfKind(k) \cap Plain = {}
    /\ \A k \in Special : \A a : {Event(k, a)} \cap Plain = {}
    /\ \A k \in Special \ {"SessionStop"} :
          /\ OfKind(k) \subseteq NoStop
          /\ \A a \in EventArgs \cup CallIds : {Event(k, a)} \subseteq NoStop
<1>1. ASSUME NEW k \in Special PROVE OfKind(k) \cap Plain = {}
  BY DEF OfKind, Plain
<1>2. ASSUME NEW k \in Special, NEW a PROVE {Event(k, a)} \cap Plain = {}
  BY DEF Event, Plain
<1>3. ASSUME NEW k \in Special \ {"SessionStop"} PROVE OfKind(k) \subseteq NoStop
  BY DEF OfKind, NoStop, Special, EventKinds
<1>4. ASSUME NEW k \in Special \ {"SessionStop"}, NEW a \in EventArgs \cup CallIds
      PROVE  {Event(k, a)} \subseteq NoStop
  BY DEF Event, NoStop, Special, EventKinds
<1> QED
  BY <1>1, <1>2, <1>3, <1>4, Zenon

\* An applied extension is logged at most once for each budget, and nothing
\* else is.
LEMMA ExtensionCounts ==
    ASSUME TypeOK, check_budget_extension, NEW S
    PROVE  /\ (\A b \in Budgets : Event("BudgetExtension", b) \notin S)
                  => Count(log', S) = Count(log, S)
           /\ \A b \in Budgets : S = {Event("BudgetExtension", b)}
                  => Count(log', S) <= Count(log, S) + 1
<1> DEFINE X(b) == ExtensionEvent(extRead.add, b)
           N(b) == IF Event("BudgetExtension", b) \in S THEN 1 ELSE 0
<1>1. log \in Seq(Events) /\ Count(log, S) \in Nat
  BY CountType, Zenon DEF TypeOK
<1>2. ASSUME NEW b \in Budgets
      PROVE  X(b) \in Seq(Events) /\ Count(X(b), S) \in Nat /\ Count(X(b), S) <= N(b)
  <2>1. Event("BudgetExtension", b) \in Events
    BY EventType, Zenon DEF EventKinds, EventArgs
  <2>2. /\ << >> \in Seq(Events) /\ Count(<< >>, S) = 0
        /\ <<Event("BudgetExtension", b)>> \in Seq(Events)
        /\ Count(<<Event("BudgetExtension", b)>>, S) = N(b)
    <3>1. << >> \in Seq(Events) /\ <<Event("BudgetExtension", b)>> \in Seq(Events)
      BY <2>1
    <3> QED
      BY <2>1, <3>1, CountEmpty, CountOne, Zenon
  <2>3. X(b) \in Seq(Events) /\ (Count(X(b), S) = 0 \/ Count(X(b), S) = N(b))
    BY <2>2, Zenon DEF ExtensionEvent
  <2> QED
    BY <2>3
<1>3. CASE log' = log
  <2>1. Count(log', S) = Count(log, S)
    BY <1>3, Zenon
  <2> QED
    BY <1>1, <2>1
<1> HIDE DEF X
<1>4. CASE Emit(((X("tool_calls") \o X("wall_time")) \o X("tool_time")) \o X("output_bytes"))
  <2>1. Count(log', S) = Count(log, S) + (((Count(X("tool_calls"), S)
            + Count(X("wall_time"), S)) + Count(X("tool_time"), S))
            + Count(X("output_bytes"), S))
    <3>1. /\ X("tool_calls") \in Seq(Events) /\ X("wall_time") \in Seq(Events)
          /\ X("tool_time") \in Seq(Events) /\ X("output_bytes") \in Seq(Events)
      BY <1>2, Zenon DEF Budgets
    <3> DEFINE A == X("tool_calls") \o X("wall_time")
               B == A \o X("tool_time")
               C == B \o X("output_bytes")
    <3>2. A \in Seq(Events) /\ Count(A, S) = Count(X("tool_calls"), S) + Count(X("wall_time"), S)
    <4>1. A \in Seq(Events)
      BY <3>1, SeqConcat, Zenon
    <4>2. ASSUME NEW s \in Seq(Events), NEW t \in Seq(Events)
          PROVE  Count(s \o t, S) = Count(s, S) + Count(t, S)
      BY CountConcat, Zenon
    <4> QED
      BY <3>1, <4>1, <4>2, Zenon
    <3>3. Emit(C)
      BY <1>4, Zenon
    <3> HIDE DEF A
    <3>4. B \in Seq(Events) /\ Count(B, S) = Count(A, S) + Count(X("tool_time"), S)
      BY <3>1, <3>2, SeqConcat, CountConcat, Zenon
    <3> HIDE DEF B
    <3>5. C \in Seq(Events) /\ Count(C, S) = Count(B, S) + Count(X("output_bytes"), S)
      BY <3>1, <3>4, SeqConcat, CountConcat, Zenon
    <3> HIDE DEF C
    <3>6. Count(log', S) = Count(log, S) + Count(C, S)
      BY <1>1, <3>3, <3>5, CountConcat, Zenon DEF Emit
    <3> QED
      BY <3>2, <3>4, <3>5, <3>6, Zenon
  <2>2. ASSUME \A b \in Budgets : Event("BudgetExtension", b) \notin S
        PROVE  Count(log', S) = Count(log, S)
    <3>1. \A b \in Budgets : Count(X(b), S) \in Nat /\ Count(X(b), S) <= 0
      BY <1>2, <2>2
    <3> QED
      BY <1>1, <2>1, <3>1 DEF Budgets
  <2>3. ASSUME NEW b \in Budgets, S = {Event("BudgetExtension", b)}
        PROVE  Count(log', S) <= Count(log, S) + 1
    <3>1. \A c \in Budgets : N(c) = IF c = b THEN 1 ELSE 0
      BY <2>3 DEF Event
    <3>2. \A c \in Budgets : Count(X(c), S) \in Nat
              /\ Count(X(c), S) <= IF c = b THEN 1 ELSE 0
      BY <1>2, <3>1, Zenon
    <3> QED
      BY <1>1, <2>1, <3>2 DEF Budgets
  <2> QED
    BY <2>2, <2>3, Zenon
<1> QED
  BY <1>3, <1>4, Zenon DEF check_budget_extension, X

-----------------------------------------------------------------------------
(* Every dispatch is answered.                                             *)

Dispatches == Occurrences("ToolDispatch")
Results == Occurrences("ToolResult")
OkResults == Count(log, {Event("ToolResult", "ok")})

LEMMA AnswerStep ==
    ASSUME ~Faults, MaxConcurrent > 0
    PROVE  TypeOK /\ DispatchesAnswered /\ [Next]_vars => DispatchesAnswered'
<1> SUFFICES ASSUME TypeOK, DispatchesAnswered, [Next]_vars PROVE DispatchesAnswered'
  OBVIOUS
<1> DEFINE Busy == IF pc = "exec" THEN 1 ELSE 0
           Tracked(S) == S \in {OfKind("ToolDispatch"), OfKind("ToolResult"),
                                {Event("ToolResult", "ok")}}
<1>0. ASSUME NEW S, Tracked(S)
      PROVE  S \cap Plain = {} /\ S \subseteq NoStop
             /\ \A b \in Budgets : Event("BudgetExtension", b) \notin S
  <2>1. S \cap Plain = {} /\ S \subseteq NoStop
    BY <1>0, CountedSets, Zenon DEF Special, EventArgs
  <2>2. ASSUME NEW b \in Budgets PROVE Event("BudgetExtension", b) \notin S
    BY <1>0 DEF OfKind, Event
  <2> QED
    BY <2>1, <2>2, Zenon
<1>1. /\ Dispatches = Results + Busy /\ used["tool_calls"] = OkResults
      /\ Dispatches \in Nat /\ Results \in Nat /\ OkResults \in Nat
  BY <1>0, CountsAfter, Zenon DEF DispatchesAnswered, Dispatches, Results, OkResults, Occurrences
<1> SUFFICES Dispatches' = Results' + Busy' /\ used'["tool_calls"] = OkResults'
  BY Zenon DEF DispatchesAnswered, Dispatches, Results, OkResults
<1>2. CASE /\ \A S : Tracked(S) => Count(log', S) = Count(log, S)
           /\ used' = used /\ (pc' = "exec" <=> pc = "exec")
  BY <1>1, <1>2, Zenon DEF Dispatches, Results, OkResults, Occurrences
<1>3. CASE Idles \/ Moves \/ Breaks \/ Finishes
  <2>1. used' = used /\ (pc' = "exec" <=> pc = "exec")
    BY <1>3, Zenon DEF Idles, Moves, Breaks, Finishes, Early, LoopPcs
  <2> QED
    BY <1>0, <1>2, <1>3, <2>1, CountsAfter, Zenon
<1>4. CASE Leaves \/ StopsLate
  <2>1. used' = used /\ (pc' = "exec" <=> pc = "exec")
    BY <1>4, Zenon DEF Leaves, StopsLate, LoopPcs
  <2> QED
    BY <1>0, <1>2, <1>4, <2>1, CountsAfter, Zenon
<1>5. CASE Extends
  <2>1. used' = used /\ (pc' = "exec" <=> pc = "exec")
    BY <1>5, Zenon DEF Extends, check_budget_extension
  <2> QED
    BY <1>0, <1>2, <1>5, <2>1, ExtensionCounts, Zenon DEF Extends
<1>6. CASE Admits
  <2>1. pc = "read" /\ pc' = "exec" /\ used' = used
    <3>1. MaxConcurrent # 0
      OBVIOUS
    <3> QED
      BY <1>6, <3>1, Zenon DEF Admits
  <2>2. \A id \in CallIds : /\ Event("ToolDispatch", id) \in OfKind("ToolDispatch")
                            /\ Event("ToolDispatch", id) \notin OfKind("ToolResult")
                            /\ Event("ToolDispatch", id) \notin {Event("ToolResult", "ok")}
    BY DEF Event, OfKind, EventArgs
  <2>3. Dispatches' = Dispatches + 1 /\ Results' = Results + 0 /\ OkResults' = OkResults + 0
    BY <1>0, <1>6, <2>2, CountsAfter, Zenon DEF Dispatches, Results, OkResults, Occurrences
  <2> QED
    BY <1>1, <2>1, <2>3
<1>7. CASE Answers
  <2>1. PICK a \in {"ok", "err"} :
            /\ Emit(<<Event("ToolResult", a)>>)
            /\ used'["tool_calls"] = used["tool_calls"] + IF a = "ok" THEN 1 ELSE 0
    BY <1>7, Zenon DEF Answers
  <2>2. /\ Event("ToolResult", a) \notin OfKind("ToolDispatch")
        /\ Event("ToolResult", a) \in OfKind("ToolResult")
        /\ Event("ToolResult", a) \in {Event("ToolResult", "ok")} <=> a = "ok"
    BY DEF Event, OfKind, EventArgs
  <2>3. /\ Dispatches' = Dispatches + 0 /\ Results' = Results + 1
        /\ OkResults' = OkResults + IF a = "ok" THEN 1 ELSE 0
    BY <1>0, <2>1, <2>2, CountsAfter, Zenon DEF Dispatches, Results, OkResults, Occurrences
  <2>4. pc = "exec" /\ pc' = "respond"
    BY <1>7, Zenon DEF Answers
  <2>5. Dispatches' = Results' + Busy'
    BY <1>1, <2>3, <2>4
  <2> QED
    BY <1>1, <2>1, <2>3, <2>5, Zenon
<1> QED
  BY <1>3, <1>4, <1>5, <1>6, <1>7, StepCases, Zenon

\* Where the runner always starts (no system call fails, and the semaphore has
\* room), every ToolDispatch is followed by its ToolResult before the next one,
\* and the results that are Ok are the calls that were charged.
THEOREM DispatchesAnsweredHolds ==
    ASSUME ~Faults, MaxConcurrent > 0
    PROVE  Spec => []DispatchesAnswered
<1>1. Init => DispatchesAnswered
  <2> SUFFICES ASSUME Init PROVE DispatchesAnswered
    OBVIOUS
  <2>1. Dispatches = 0 /\ Results = 0 /\ OkResults = 0 /\ pc = "create"
    BY CountEmpty, Zenon DEF Init, Dispatches, Results, OkResults, Occurrences
  <2>2. used["tool_calls"] = 0
    BY DEF Init, Charged
  <2>3. Dispatches = Results + 0
    BY <2>1
  <2> QED
    BY <2>1, <2>2, <2>3, Zenon DEF DispatchesAnswered, Dispatches, Results, OkResults
<1>2. TypeOK /\ DispatchesAnswered /\ [Next]_vars => DispatchesAnswered'
  BY AnswerStep, Zenon
<1> QED
  BY <1>1, <1>2, TypeCorrect, PTL DEF Spec

-----------------------------------------------------------------------------
(* Extensions.                                                             *)

\* A command that has begun but not opened the file, and a file that is there
\* or has just been read, may each become one application; every command is
\* one of these or applied, lost or overwritten.
Begun == IF extPc = "open" THEN 1 ELSE 0
Held == IF extFile.kind # "none" \/ pc = "extrm" THEN 1 ELSE 0
ExtInv == exts \in Nat /\ \A b \in Budgets : Extended(b) + Begun + Held <= exts

LEMMA ExtStep == TypeOK /\ ExtInv /\ [Next]_vars => ExtInv'
<1> SUFFICES ASSUME TypeOK, ExtInv, [Next]_vars PROVE ExtInv'
  OBVIOUS
<1>0. ASSUME NEW b \in Budgets
      PROVE  /\ Extended(b) \in Nat /\ Extended(b)' \in Nat
             /\ Extends \/ Extended(b)' = Extended(b)
             /\ Extends => Extended(b)' <= Extended(b) + 1
  <2> DEFINE S == {Event("BudgetExtension", b)}
  <2>1. S \cap Plain = {} /\ S \subseteq NoStop
    BY CountedSets, Zenon DEF Special, EventArgs
  <2>2. /\ \A id \in CallIds : Event("ToolDispatch", id) \notin S
        /\ \A a \in {"ok", "err"} : Event("ToolResult", a) \notin S
    BY DEF Event, OfKind, EventArgs
  <2>3. log \in Seq(Events) /\ log' \in Seq(Events)
    BY LogStep, Zenon DEF TypeOK
  <2>4. Count(log, S) \in Nat /\ Count(log', S) \in Nat
    BY <2>3, CountType, Zenon
  <2> HIDE DEF S
  <2>5. CASE Extends
    BY <2>4, <2>5, ExtensionCounts, Zenon DEF Extends, Extended, S
  <2>6. CASE Idles \/ Moves \/ Breaks \/ Finishes \/ Leaves \/ StopsLate
    BY <2>1, <2>4, <2>5, <2>6, CountsAfter, Zenon DEF Extended, S
  <2>7. CASE Admits \/ Answers
    <3>1. Count(log', S) = Count(log, S) + 0
      BY <2>1, <2>2, <2>7, CountsAfter, Zenon DEF Admits, Answers
    <3>2. Count(log', S) = Count(log, S)
      BY <2>4, <3>1
    <3> QED
      BY <2>4, <2>5, <3>2, Zenon DEF Extended, S
  <2> QED
    BY <2>5, <2>6, <2>7, StepCases, Zenon
<1> SUFFICES ASSUME NEW b \in Budgets
             PROVE  exts' \in Nat /\ Extended(b)' + Begun' + Held' <= exts'
  BY Zenon DEF ExtInv, Budgets
<1>1. /\ exts \in Nat /\ Extended(b) + Begun + Held <= exts
      /\ Extended(b) \in Nat /\ Extended(b)' \in Nat
      /\ Extends \/ Extended(b)' = Extended(b)
      /\ Extends => Extended(b)' <= Extended(b) + 1
  BY <1>0, Zenon DEF ExtInv
<1> USE DEF loopVars, budgetVars, fileVars, storeVars, cliVars
<1>2. CASE Extends
  <2>1. /\ exts' = exts /\ Begun' = Begun /\ Held = 1 /\ Held' = 0
    BY <1>2 DEF Extends, check_budget_extension, Begun, Held, NoExt, ExtFile
  <2>2. Begun \in {0, 1}
    BY Zenon DEF Begun
  <2> QED
    BY <1>1, <1>2, <2>1, <2>2
<1> SUFFICES ASSUME ~Extends
             PROVE  exts' \in Nat /\ Begun' + Held' - Begun - Held <= exts' - exts
  <2>1. {Begun, Begun', Held, Held'} \subseteq {0, 1}
    BY Zenon DEF Begun, Held
  <2> QED
    BY <1>1, <1>2, <2>1
<1>3. CASE NoExtension
  <2>1. exts' = exts /\ Begun' = Begun /\ Held' = Held
    BY <1>3, Zenon DEF NoExtension, Begun, Held
  <2>2. {Begun, Held} \subseteq {0, 1}
    BY Zenon DEF Begun, Held
  <2> QED
    BY <1>1, <2>1, <2>2
<1>4. CASE ReadExtension
  <2>1. exts' = exts /\ Begun' = Begun /\ Held' = Held
    BY <1>4, Zenon DEF ReadExtension, Begun, Held
  <2>2. {Begun, Held} \subseteq {0, 1}
    BY Zenon DEF Begun, Held
  <2> QED
    BY <1>1, <2>1, <2>2
<1>5. CASE ExtendCheck
  <2>1. exts' = exts + 1 /\ Begun' = 1 /\ Begun = 0 /\ Held' = Held
    BY <1>5, Zenon DEF ExtendCheck, Begun, Held
  <2>2. Held \in {0, 1}
    BY Zenon DEF Held
  <2> QED
    BY <1>1, <2>1, <2>2
<1>6. CASE ExtendOpen
  <2>1. exts' = exts /\ Begun' = 0 /\ Begun = 1
    BY <1>6, Zenon DEF ExtendOpen, Begun
  <2>2. ASSUME NEW h \in {0, 1}, NEW k \in {0, 1} PROVE 0 + h - 1 - k <= exts - exts
    BY <1>1
  <2>3. Held \in {0, 1} /\ Held' \in {0, 1}
    BY Zenon DEF Held
  <2>4. 0 + Held' - 1 - Held <= exts - exts
    BY <2>2, <2>3, Zenon
  <2> QED
    BY <1>1, <2>1, <2>4
<1>7. CASE ExtendWrite
  <2>1. exts' = exts /\ Begun' = 0 /\ Begun = 0 /\ pc' = pc
    BY <1>7, Zenon DEF ExtendWrite, Begun
  <2>2. extFile'.kind # "none" <=> extFile.kind # "none"
    BY <1>7 DEF ExtendWrite, ExtFile
  <2>3. Held' = Held /\ Held \in {0, 1}
    BY <2>1, <2>2, Zenon DEF Held
  <2> QED
    BY <1>1, <2>1, <2>3
<1> QED
  BY <1>3, <1>4, <1>5, <1>6, <1>7, Frame, Zenon

\* Each `session extend` raises a limit at most once, although the supervisor
\* reads and removes the file in two steps while another command may be
\* writing it.
THEOREM ExtensionAppliedOnceHolds == Spec => []ExtensionAppliedOnce
<1>1. Init => ExtInv
  <2> SUFFICES ASSUME Init PROVE ExtInv
    OBVIOUS
  <2>1. \A b \in Budgets : Extended(b) = 0
    BY CountEmpty, Zenon DEF Init, Extended
  <2>2. exts = 0 /\ Begun = 0 /\ Held = 0
    BY DEF Init, Begun, Held, NoExt, ExtFile
  <2>3. \A b \in Budgets : Extended(b) + Begun + Held <= exts
    BY <2>1, <2>2
  <2> QED
    BY <2>2, <2>3 DEF ExtInv
<1>2. TypeOK /\ ExtInv => ExtensionAppliedOnce
  <2> SUFFICES ASSUME TypeOK, ExtInv, NEW b \in Budgets PROVE Extended(b) <= exts
    BY Zenon DEF ExtensionAppliedOnce, Extended
  <2>1. Extended(b) \in Nat /\ exts \in Nat /\ Extended(b) + Begun + Held <= exts
    BY CountType, Zenon DEF ExtInv, Extended, TypeOK
  <2>2. Begun \in {0, 1} /\ Held \in {0, 1}
    BY Zenon DEF Begun, Held
  <2> QED
    BY <2>1, <2>2
<1> QED
  BY <1>1, <1>2, ExtStep, TypeCorrect, PTL DEF Spec

=============================================================================
