------------------------------- MODULE Session -------------------------------
(***************************************************************************)
(* The session supervisor of crates/oaie-cli/src/session_runner.rs: one    *)
(* thread that spawns an agent, polls it, accepts its connections, runs    *)
(* its tool calls under a budget and finally records the session.  It      *)
(* shares state with the tee threads (the kill flag), with the agent       *)
(* process, and, through the session directory and the database, with the  *)
(* commands `oaie session stop` and `oaie session extend`.                 *)
(*                                                                         *)
(* pc is the supervisor's control point.  Every read of something another  *)
(* process can change is a step of its own; a stretch of code that only    *)
(* touches the supervisor's own fields is one step.                        *)
(***************************************************************************)
EXTENDS Budget, Sequences, FiniteSets

CONSTANTS
    CallIds,        \* call ids the agent may send
    ForeignIds,     \* those of CallIds other sessions already stored
    HeartbeatTicks, \* heartbeat interval in ticks, 0 when disabled
    SnapshotTicks,  \* interval between resource snapshots, in ticks
    MaxConcurrent,  \* max_concurrent_tools
    Approval,       \* approval.tool_call
    OutputLimited,  \* the agent's output is counted by tee threads
    Faults,         \* system calls on the error paths may fail
    MaxNow,         \* bound: the clock stops here
    MaxRequests,    \* bound: lines the agent sends
    MaxStops,       \* bound: `session stop` commands
    MaxExtends      \* bound: `session extend` commands

ASSUME TimeAssumption ==
    /\ HeartbeatTicks \in Nat
    /\ SnapshotTicks \in Nat \ {0}
    /\ MaxNow \in Nat

ASSUME CallAssumption ==
    /\ ForeignIds \subseteq CallIds
    /\ MaxConcurrent \in Nat
    /\ MaxRequests \in Nat
    /\ MaxStops \in Nat
    /\ MaxExtends \in Nat
    /\ {Approval, OutputLimited, Faults} \subseteq BOOLEAN

States == {"running", "stopped", "timed_out", "budget_exhausted"}

\* How far a request gets before the tool would be run.
Classes == {"bad_id", "empty_command", "bad_input", "filtered", "plain"}

Event(kind, arg) == [kind |-> kind, arg |-> arg]
EventKinds ==
    {"SessionStart", "SessionStop", "ToolDispatch", "ToolResult", "BudgetWarning",
     "BudgetExhausted", "BudgetExtension", "HeartbeatTimeout", "ResourceSnapshot",
     "ToolDenied", "ApprovalRequired"}
EventArgs ==
    Budgets \cup {"none", "agent_output", "ok", "err", "approved", "denied",
                 "stopped", "timed_out", "budget_exhausted", "heartbeat_timeout",
                 "error"}
Events == [kind : EventKinds, arg : EventArgs \cup CallIds]

NoManifest == [status |-> "none", tool_calls |-> 0, calls |-> {}, events |-> 0]

\* budget_extension.json: missing, created but not yet written, or complete.
ExtFile(kind, add) == [kind |-> kind, add |-> add]
NoExt == ExtFile("none", [b \in Budgets |-> 0])
TornExt == ExtFile("torn", [b \in Budgets |-> 0])

VARIABLES
    pc,            \* the supervisor's control point
    state,         \* SessionRunner.state
    limit,         \* SessionRunner.budget
    used,          \* BudgetUsed: tool_calls, tool_time_ms, output_bytes
    warned,        \* BudgetUsed: the one-shot warning flags that are set
    log,           \* SessionEventWriter.events
    lastActivity,  \* dispatch_loop: last_activity
    lastSnapshot,  \* dispatch_loop: last_snapshot
    execStart,     \* tool_start of the running tool call
    call,          \* call id of the running tool call
    loopErr,       \* dispatch_loop returned Err
    now,           \* ticks since the session started
    reqs,          \* lines read from the agent so far
    agent,         \* the agent process
    killFlag,      \* agent_kill_flag, set by the tee threads
    pidFile,       \* agent.pid exists
    extFile,       \* content of budget_extension.json
    extRead,       \* what check_budget_extension has read
    dbStatus,      \* sessions.status
    dbManifest,    \* sessions.manifest_hash: the manifest it names
    dbLimit,       \* sessions.budget_json
    dbCalls,       \* rows of session_calls for this session
    casLog,        \* number of events of the log stored in the CAS
    manifest,      \* session_manifest.toml (also a CAS blob)
    stopPc, stops, \* `session stop`: control point, commands issued
    extPc, exts    \* `session extend`: control point, commands issued

loopVars == <<lastActivity, lastSnapshot, execStart, call, reqs>>
budgetVars == <<limit, used, warned>>
fileVars == <<pidFile, extFile>>
storeVars == <<dbStatus, dbManifest, dbLimit, dbCalls, casLog, manifest>>
cliVars == <<stopPc, stops, extPc, exts>>
vars == <<pc, state, budgetVars, log, loopVars, loopErr, now, agent, killFlag,
          fileVars, extRead, storeVars, cliVars>>

LoopPcs == {"kill", "wait", "wall", "beat", "ext", "extrm", "snap", "accept",
            "connwall", "read", "respond", "exec"}
Pcs == LoopPcs \cup {"create", "start", "reap", "clean", "finlog", "finman",
                     "findb", "done", "failed"}

Emit(es) == log' = log \o es

-----------------------------------------------------------------------------
(* Time: Instant::elapsed, as_secs.                                        *)

\* Mutant: the wall budget is measured from the last activity.
WallExpired_SinceActivity == Secs(now - lastActivity) >= limit["wall_time"]

WallExpired == Secs(now) >= limit["wall_time"]

\* Time passes where the supervisor blocks (the sleep after an accept that
\* found nothing, the read, the run of a tool); its other steps take none.  A
\* tool call runs until its process exits or the run's timeout kills it.
Tick ==
    /\ pc \in {"accept", "read", "exec"}
    /\ now < MaxNow
    /\ pc = "exec" => now - execStart < RunTimeout
    /\ now' = now + 1
    /\ UNCHANGED <<pc, state, budgetVars, log, loopVars, loopErr, agent,
                   killFlag, fileVars, extRead, storeVars, cliVars>>

-----------------------------------------------------------------------------
(* Creation and start.                                                     *)

Init ==
    /\ pc = "create"
    /\ state = "running"
    /\ limit = InitLimit
    /\ used = [b \in Charged |-> 0]
    /\ warned = {}
    /\ log = << >>
    /\ lastActivity = 0
    /\ lastSnapshot = 0
    /\ execStart = 0
    /\ call \in CallIds
    /\ loopErr = FALSE
    /\ now = 0
    /\ reqs = 0
    /\ agent = "none"
    /\ killFlag = FALSE
    /\ pidFile = FALSE
    /\ extFile = NoExt
    /\ extRead = NoExt
    /\ dbStatus = "absent"
    /\ dbManifest = NoManifest
    /\ dbLimit = InitLimit
    /\ dbCalls = {}
    /\ casLog = 0
    /\ manifest = NoManifest
    /\ stopPc = "idle"
    /\ stops = 0
    /\ extPc = "idle"
    /\ exts = 0

\* SessionRunner::create: make the directories, insert the row as running.
create ==
    /\ pc = "create"
    /\ \/ pc' = "start" /\ dbStatus' = "running"
       \/ Faults /\ pc' = "failed" /\ UNCHANGED dbStatus
    /\ UNCHANGED <<state, budgetVars, log, loopVars, loopErr, now, agent,
                   killFlag, fileVars, extRead, dbManifest, dbLimit, dbCalls,
                   casLog, manifest, cliVars>>

\* run, up to the dispatch loop: log SessionStart, bind the socket, spawn the
\* agent and its tee threads, write agent.pid (a failure there is ignored).
StartAgent ==
    /\ pc = "start"
    /\ Emit(<<Event("SessionStart", "none")>>)
    /\ \/ /\ pc' = "kill"
          /\ agent' = "alive"
          /\ pidFile' \in {TRUE, ~Faults}
       \/ /\ Faults
          /\ pc' = "failed"
          /\ UNCHANGED <<agent, pidFile>>
    /\ UNCHANGED <<state, budgetVars, loopVars, loopErr, now, killFlag,
                   extFile, extRead, storeVars, cliVars>>

-----------------------------------------------------------------------------
(* The agent process and its tee threads.                                  *)

AgentExit ==
    /\ agent = "alive"
    /\ agent' = "exited"
    /\ UNCHANGED <<pc, state, budgetVars, log, loopVars, loopErr, now,
                   killFlag, fileVars, extRead, storeVars, cliVars>>

\* A tee thread has read more than the output or rate limit allows.  It may
\* still be draining the pipe of an agent that has exited, until it is joined.
TeeKill ==
    /\ OutputLimited
    /\ agent # "none"
    /\ pc \in LoopPcs \cup {"reap"}
    /\ ~killFlag
    /\ killFlag' = TRUE
    /\ UNCHANGED <<pc, state, budgetVars, log, loopVars, loopErr, now, agent,
                   fileVars, extRead, storeVars, cliVars>>

-----------------------------------------------------------------------------
(* dispatch_loop: the checks at the head of every iteration, in order.     *)

LeaveLoop(s, es) ==
    /\ state' = s
    /\ Emit(es)
    /\ pc' = "reap"

CheckKillFlag ==
    /\ pc = "kill"
    /\ \/ /\ killFlag
          /\ LeaveLoop("budget_exhausted",
                       <<Event("BudgetExhausted", "agent_output"),
                         Event("SessionStop", "budget_exhausted")>>)
       \/ /\ ~killFlag
          /\ pc' = "wait"
          /\ UNCHANGED <<state, log>>
    /\ UNCHANGED <<budgetVars, loopVars, loopErr, now, agent, killFlag,
                   fileVars, extRead, storeVars, cliVars>>

CheckAgentExit ==
    /\ pc = "wait"
    /\ \/ /\ agent = "exited"
          /\ agent' = "reaped"
          /\ LeaveLoop("stopped", <<Event("SessionStop", "stopped")>>)
          /\ UNCHANGED loopErr
       \/ /\ agent = "alive"
          /\ pc' = "wall"
          /\ UNCHANGED <<agent, state, log, loopErr>>
       \/ /\ Faults
          /\ loopErr' = TRUE
          /\ pc' = "reap"
          /\ UNCHANGED <<agent, state, log>>
    /\ UNCHANGED <<budgetVars, loopVars, now, killFlag, fileVars, extRead,
                   storeVars, cliVars>>

CheckWallTime ==
    /\ pc = "wall"
    /\ \/ /\ WallExpired
          /\ LeaveLoop("timed_out", <<Event("SessionStop", "timed_out")>>)
       \/ /\ ~WallExpired
          /\ pc' = "beat"
          /\ UNCHANGED <<state, log>>
    /\ UNCHANGED <<budgetVars, loopVars, loopErr, now, agent, killFlag,
                   fileVars, extRead, storeVars, cliVars>>

HeartbeatMissed ==
    /\ HeartbeatTicks > 0
    /\ now - lastActivity >= HeartbeatTicks

CheckHeartbeat ==
    /\ pc = "beat"
    /\ \/ /\ HeartbeatMissed
          /\ LeaveLoop("stopped",
                       <<Event("HeartbeatTimeout", "none"),
                         Event("SessionStop", "heartbeat_timeout")>>)
       \/ /\ ~HeartbeatMissed
          /\ pc' = "ext"
          /\ UNCHANGED <<state, log>>
    /\ UNCHANGED <<budgetVars, loopVars, loopErr, now, agent, killFlag,
                   fileVars, extRead, storeVars, cliVars>>

-----------------------------------------------------------------------------
(* check_budget_extension.                                                 *)

ExtensionEvent(add, b) ==
    IF add[b] > 0 THEN <<Event("BudgetExtension", b)>> ELSE << >>

ReadExtension ==
    /\ pc = "ext"
    /\ \/ /\ extFile.kind = "none"
          /\ pc' = "snap"
          /\ UNCHANGED extRead
       \/ /\ extFile.kind # "none"
          /\ pc' = "extrm"
          /\ extRead' \in IF Faults THEN {extFile, TornExt} ELSE {extFile}
    /\ UNCHANGED <<state, budgetVars, log, loopVars, loopErr, now, agent,
                   killFlag, fileVars, storeVars, cliVars>>

\* Mutants: the session is not resumed; the file is left in place.
check_budget_extension_NoResume ==
    /\ pc = "extrm"
    /\ pc' = "snap"
    /\ extFile' = NoExt
    /\ extRead' = NoExt
    /\ limit' = Extend(limit, extRead.add)
    /\ UNCHANGED <<state, log, used, warned, loopVars, loopErr, now, agent,
                   killFlag, pidFile, storeVars, cliVars>>

check_budget_extension_KeepFile ==
    /\ pc = "extrm"
    /\ pc' = "snap"
    /\ extRead' = NoExt
    /\ limit' = Extend(limit, extRead.add)
    /\ Emit(ExtensionEvent(extRead.add, "tool_calls"))
    /\ UNCHANGED <<extFile, state, used, warned, loopVars, loopErr, now, agent,
                   killFlag, pidFile, storeVars, cliVars>>

\* Remove the file, then apply what was read from it; a file that could not
\* be read or parsed is dropped.
check_budget_extension ==
    /\ pc = "extrm"
    /\ pc' = "snap"
    /\ extFile' = NoExt
    /\ extRead' = NoExt
    /\ \/ /\ extRead.kind = "torn"
          /\ UNCHANGED <<state, limit, log, dbLimit>>
       \/ /\ extRead.kind = "full"
          /\ limit' = Extend(limit, extRead.add)
          /\ Emit(ExtensionEvent(extRead.add, "tool_calls")
                  \o ExtensionEvent(extRead.add, "wall_time")
                  \o ExtensionEvent(extRead.add, "tool_time")
                  \o ExtensionEvent(extRead.add, "output_bytes"))
          /\ state' = IF /\ state = "budget_exhausted"
                         /\ \A b \in Charged : ~Exhausted(used, limit', b)
                      THEN "running"
                      ELSE state
          /\ dbLimit' \in IF Faults THEN {limit', dbLimit} ELSE {limit'}
    /\ UNCHANGED <<used, warned, loopVars, loopErr, now, agent, killFlag,
                   pidFile, dbStatus, dbManifest, dbCalls, casLog, manifest,
                   cliVars>>

emit_resource_snapshot ==
    /\ pc = "snap"
    /\ pc' = "accept"
    /\ \/ /\ now - lastSnapshot >= SnapshotTicks
          /\ Emit(<<Event("ResourceSnapshot", "none")>>)
          /\ lastSnapshot' = now
       \/ /\ now - lastSnapshot < SnapshotTicks
          /\ UNCHANGED <<log, lastSnapshot>>
    /\ UNCHANGED <<state, budgetVars, lastActivity, execStart, call, reqs,
                   loopErr, now, agent, killFlag, fileVars, extRead, storeVars,
                   cliVars>>

-----------------------------------------------------------------------------
(* Connections.                                                            *)

\* Mutant: the error leaves run before the agent is waited for.
LoopError_NoReap == loopErr' = TRUE /\ pc' = "clean"

LoopError == loopErr' = TRUE /\ pc' = "reap"

\* listener.accept: nothing waiting, or a peer that is not the agent (both
\* start the next iteration); the agent itself; or an error.
Accept ==
    /\ pc = "accept"
    /\ \/ pc' = "kill" /\ UNCHANGED <<lastActivity, loopErr>>
       \/ pc' = "connwall" /\ lastActivity' = now /\ UNCHANGED loopErr
       \/ Faults /\ LoopError /\ UNCHANGED lastActivity
    /\ UNCHANGED <<state, budgetVars, log, lastSnapshot, execStart, call, reqs,
                   now, agent, killFlag, fileVars, extRead, storeVars,
                   cliVars>>

\* The head of handle_connection's loop: only the wall budget is looked at.
ConnectionWallCheck ==
    /\ pc = "connwall"
    /\ pc' = IF WallExpired THEN "kill" ELSE "read"
    /\ UNCHANGED <<state, budgetVars, log, loopVars, loopErr, now, agent,
                   killFlag, fileVars, extRead, storeVars, cliVars>>

\* read_line returns no request: the read timed out, the peer closed, or the
\* line is too long (back to the dispatch loop); or the line is blank or does
\* not parse (next line).
ReadNoRequest ==
    /\ pc = "read"
    /\ \/ pc' = "kill" /\ UNCHANGED reqs
       \/ /\ reqs < MaxRequests
          /\ reqs' = reqs + 1
          /\ pc' = "connwall"
    /\ UNCHANGED <<state, budgetVars, log, lastActivity, lastSnapshot,
                   execStart, call, loopErr, now, agent, killFlag, fileVars,
                   extRead, storeVars, cliVars>>

\* A response that cannot be written (the agent closed its end) ends the loop.
write_response ==
    /\ pc = "respond"
    /\ \/ pc' = "connwall" /\ UNCHANGED loopErr
       \/ LoopError
    /\ UNCHANGED <<state, budgetVars, log, loopVars, now, agent, killFlag,
                   fileVars, extRead, storeVars, cliVars>>

-----------------------------------------------------------------------------
(* dispatch_tool_call, up to the start of the run.                         *)

\* 80% of a limit, in the unit of the counter, truncated.
WarnAt(b) ==
    (4 * limit[b] * (IF b = "tool_time" THEN MsPerSec ELSE 1)) \div 5

WarningDue(b) ==
    /\ b \notin warned
    /\ used[b] >= WarnAt(b)
    /\ b = "tool_calls" => used[b] > 0

\* check_budget_warnings: each warning is given at most once.
Warnings == {b \in Charged : WarningDue(b)}

WarningEvents ==
    LET W(b) == IF WarningDue(b) THEN <<Event("BudgetWarning", b)>> ELSE << >>
    IN  W("tool_calls") \o W("tool_time") \o W("output_bytes")

Reject(es) ==
    /\ pc' = "respond"
    /\ Emit(es)
    /\ UNCHANGED <<state, warned, execStart, call>>

RejectExhausted(es, b) ==
    /\ pc' = "respond"
    /\ state' = "budget_exhausted"
    /\ Emit(Append(es, Event("BudgetExhausted", b)))
    /\ UNCHANGED <<warned, execStart, call>>

\* ToolDispatch is logged; then the semaphore or Runner::new may still refuse,
\* otherwise the run starts.
Dispatch(id, es) ==
    /\ Emit(es \o WarningEvents \o <<Event("ToolDispatch", id)>>)
    /\ warned' = warned \cup Warnings
    /\ UNCHANGED state
    /\ \/ /\ MaxConcurrent = 0 \/ Faults
          /\ pc' = "respond"
          /\ UNCHANGED <<execStart, call>>
       \/ /\ MaxConcurrent > 0
          /\ pc' = "exec"
          /\ execStart' = now
          /\ call' = id

\* Mutants: the check of one budget is missing.
CheckBudgets_NoTime(id, es) ==
    \/ /\ Exhausted(used, limit, "output_bytes")
       /\ RejectExhausted(es, "output_bytes")
    \/ /\ ~Exhausted(used, limit, "output_bytes")
       /\ Dispatch(id, es)

CheckBudgets_NoBytes(id, es) ==
    \/ /\ Exhausted(used, limit, "tool_time")
       /\ RejectExhausted(es, "tool_time")
    \/ /\ ~Exhausted(used, limit, "tool_time")
       /\ Dispatch(id, es)

\* The second half of the checks, after the approval prompt; es is what the
\* prompt has logged.
CheckBudgets(id, es) ==
    \/ /\ Exhausted(used, limit, "tool_time")
       /\ RejectExhausted(es, "tool_time")
    \/ /\ ~Exhausted(used, limit, "tool_time")
       /\ Exhausted(used, limit, "output_bytes")
       /\ RejectExhausted(es, "output_bytes")
    \/ /\ ~Exhausted(used, limit, "tool_time")
       /\ ~Exhausted(used, limit, "output_bytes")
       /\ Dispatch(id, es)

CheckApproval(id) ==
    \/ /\ ~Approval
       /\ CheckBudgets(id, << >>)
    \/ /\ Approval
       /\ \/ Reject(<<Event("ApprovalRequired", "denied")>>)
          \/ CheckBudgets(id, <<Event("ApprovalRequired", "approved")>>)

dispatch_tool_call(id, class) ==
    \/ /\ class \in {"bad_id", "empty_command"}
       /\ Reject(<< >>)
    \/ /\ class \notin {"bad_id", "empty_command"}
       /\ Exhausted(used, limit, "tool_calls")
       /\ RejectExhausted(<< >>, "tool_calls")
    \/ /\ ~Exhausted(used, limit, "tool_calls")
       /\ \/ class = "bad_input" /\ Reject(<< >>)
          \/ class = "filtered" /\ Reject(<<Event("ToolDenied", id)>>)
          \/ class = "plain" /\ CheckApproval(id)

ReadRequest ==
    /\ pc = "read"
    /\ reqs < MaxRequests
    /\ reqs' = reqs + 1
    /\ \E id \in CallIds, class \in Classes : dispatch_tool_call(id, class)
    /\ UNCHANGED <<limit, used, lastActivity, lastSnapshot, loopErr, now, agent,
                   killFlag, fileVars, extRead, storeVars, cliVars>>

-----------------------------------------------------------------------------
(* The outcome of the run.                                                 *)

\* session_calls.call_id is the primary key of the whole table: a call id that
\* this or another session has used is refused, and the refusal only logged.
CallRowRefused == call \in ForeignIds \cup {r.id : r \in dbCalls}

\* Mutant: the sequence number stored is zero-based.
InsertSessionCall_ZeroBased(seq) ==
    dbCalls' = IF CallRowRefused THEN dbCalls
               ELSE dbCalls \cup {[id |-> call, seq |-> seq - 1]}

InsertSessionCall(seq) ==
    dbCalls' \in
        (IF CallRowRefused THEN {} ELSE {dbCalls \cup {[id |-> call, seq |-> seq]}})
        \cup (IF CallRowRefused \/ Faults THEN {dbCalls} ELSE {})

\* runner.execute returned Ok: charge the budgets, publish the outputs, record
\* the call.  bytes is the total size of the artifacts copied.
ToolOk(bytes) ==
    /\ pc = "exec"
    /\ used' = Charge(used, now - execStart, bytes)
    /\ InsertSessionCall(used["tool_calls"] + 1)
    /\ Emit(<<Event("ToolResult", "ok")>>)
    /\ pc' = "respond"
    /\ UNCHANGED <<state, limit, warned, loopVars, loopErr, now, agent, killFlag,
                   fileVars, extRead, dbStatus, dbManifest, dbLimit, casLog,
                   manifest, cliVars>>

\* Mutant: a failed run is not logged.
ToolErr_Silent ==
    /\ pc = "exec"
    /\ now - execStart >= RunTimeout
    /\ pc' = "respond"
    /\ UNCHANGED <<state, budgetVars, log, loopVars, loopErr, now, agent,
                   killFlag, fileVars, extRead, storeVars, cliVars>>

\* runner.execute returned Err: the run timed out, or a system call failed.
ToolErr ==
    /\ pc = "exec"
    /\ now - execStart >= RunTimeout \/ Faults
    /\ Emit(<<Event("ToolResult", "err")>>)
    /\ pc' = "respond"
    /\ UNCHANGED <<state, budgetVars, loopVars, loopErr, now, agent, killFlag,
                   fileVars, extRead, storeVars, cliVars>>

-----------------------------------------------------------------------------
(* The end of run: reap, clean up, finalize.                               *)

\* kill_and_wait, then join the tee threads.
Reap ==
    /\ pc = "reap"
    /\ agent' = "reaped"
    /\ pc' = "clean"
    /\ UNCHANGED <<state, budgetVars, log, loopVars, loopErr, now, killFlag,
                   fileVars, extRead, storeVars, cliVars>>

\* Mutant: SessionStop is logged here on every path.
CleanUp_AlwaysStop ==
    /\ pc = "clean"
    /\ pidFile' = FALSE
    /\ pc' = "finlog"
    /\ Emit(<<Event("SessionStop", "stopped")>>)
    /\ UNCHANGED <<state, budgetVars, loopVars, loopErr, now, agent, killFlag,
                   extFile, extRead, storeVars, cliVars>>

CleanUp ==
    /\ pc = "clean"
    /\ pidFile' = FALSE
    /\ pc' = "finlog"
    /\ \/ /\ loopErr
          /\ state' = "stopped"
          /\ Emit(<<Event("SessionStop", "error")>>)
       \/ /\ ~loopErr
          /\ UNCHANGED <<state, log>>
    /\ UNCHANGED <<budgetVars, loopVars, loopErr, now, agent, killFlag, extFile,
                   extRead, storeVars, cliVars>>

\* finalize returns early when one of its steps fails.
FinalizeFails ==
    /\ Faults
    /\ pc \in {"finlog", "finman", "findb"}
    /\ pc' = "failed"
    /\ UNCHANGED <<state, budgetVars, log, loopVars, loopErr, now, agent,
                   killFlag, fileVars, extRead, storeVars, cliVars>>

StoreEventLog ==
    /\ pc = "finlog"
    /\ casLog' = Len(log)
    /\ pc' = "finman"
    /\ UNCHANGED <<state, budgetVars, log, loopVars, loopErr, now, agent,
                   killFlag, fileVars, extRead, dbStatus, dbManifest, dbLimit,
                   dbCalls, manifest, cliVars>>

\* Mutant: the manifest is written before the event log it names.
StoreManifest_BeforeLog ==
    /\ pc = "finlog"
    /\ manifest' = [status |-> state, tool_calls |-> used["tool_calls"],
                    calls |-> dbCalls, events |-> Len(log)]
    /\ pc' = "findb"
    /\ UNCHANGED <<state, budgetVars, log, loopVars, loopErr, now, agent,
                   killFlag, fileVars, extRead, dbStatus, dbManifest, dbLimit,
                   dbCalls, casLog, cliVars>>

\* The manifest: what the supervisor counted, and the calls the database has.
StoreManifest ==
    /\ pc = "finman"
    /\ \E calls \in IF Faults THEN {dbCalls, {}} ELSE {dbCalls} :
          manifest' = [status |-> state, tool_calls |-> used["tool_calls"],
                       calls |-> calls, events |-> Len(log)]
    /\ pc' = "findb"
    /\ UNCHANGED <<state, budgetVars, log, loopVars, loopErr, now, agent,
                   killFlag, fileVars, extRead, dbStatus, dbManifest, dbLimit,
                   dbCalls, casLog, cliVars>>

complete_session ==
    /\ pc = "findb"
    /\ dbStatus' = state
    /\ dbManifest' = manifest
    /\ pc' = "done"
    /\ UNCHANGED <<state, budgetVars, log, loopVars, loopErr, now, agent,
                   killFlag, fileVars, extRead, dbLimit, dbCalls, casLog,
                   manifest, cliVars>>

-----------------------------------------------------------------------------
(* `oaie session stop`: stop_session.                                      *)

StopCheck ==
    /\ stopPc = "idle"
    /\ stops < MaxStops
    /\ dbStatus = "running"
    /\ stops' = stops + 1
    /\ stopPc' = "signal"
    /\ UNCHANGED <<pc, state, budgetVars, log, loopVars, loopErr, now, agent,
                   killFlag, fileVars, extRead, storeVars, extPc, exts>>

\* SIGTERM to the agent, which may take it or not.
StopSignal ==
    /\ stopPc = "signal"
    /\ stopPc' = "update"
    /\ agent' \in IF pidFile /\ agent = "alive" THEN {"alive", "exited"}
                                               ELSE {agent}
    /\ UNCHANGED <<pc, state, budgetVars, log, loopVars, loopErr, now, killFlag,
                   fileVars, extRead, storeVars, stops, extPc, exts>>

\* complete_session(id, "stopped", None, ..): the UPDATE has no condition on
\* the status.
StopUpdate ==
    /\ stopPc = "update"
    /\ stopPc' = "idle"
    /\ dbStatus' = "stopped"
    /\ dbManifest' = NoManifest
    /\ UNCHANGED <<pc, state, budgetVars, log, loopVars, loopErr, now, agent,
                   killFlag, fileVars, extRead, dbLimit, dbCalls, casLog,
                   manifest, stops, extPc, exts>>

-----------------------------------------------------------------------------
(* `oaie session extend`: SessionExtendCmd::execute.                       *)

ExtendCheck ==
    /\ extPc = "idle"
    /\ exts < MaxExtends
    /\ dbStatus \in {"running", "budget_exhausted"}
    /\ exts' = exts + 1
    /\ extPc' = "open"
    /\ UNCHANGED <<pc, state, budgetVars, log, loopVars, loopErr, now, agent,
                   killFlag, fileVars, extRead, storeVars, stopPc, stops>>

\* fs::write, first half: open with O_CREAT | O_TRUNC.
ExtendOpen ==
    /\ extPc = "open"
    /\ extPc' = "write"
    /\ extFile' = TornExt
    /\ UNCHANGED <<pc, state, budgetVars, log, loopVars, loopErr, now, agent,
                   killFlag, pidFile, extRead, storeVars, stopPc, stops, exts>>

\* Second half: the bytes land in the file that was opened, which the
\* supervisor may have removed since.
ExtendWrite ==
    /\ extPc = "write"
    /\ extPc' = "idle"
    /\ \E add \in Extensions :
          extFile' = IF extFile.kind = "torn" THEN ExtFile("full", add)
                                              ELSE extFile
    /\ UNCHANGED <<pc, state, budgetVars, log, loopVars, loopErr, now, agent,
                   killFlag, pidFile, extRead, storeVars, stopPc, stops, exts>>

-----------------------------------------------------------------------------
(* The specification.                                                      *)

LoopStep ==
    \/ CheckKillFlag \/ CheckAgentExit \/ CheckWallTime \/ CheckHeartbeat
    \/ ReadExtension \/ check_budget_extension \/ emit_resource_snapshot
    \/ Accept \/ ConnectionWallCheck \/ ReadNoRequest \/ ReadRequest
    \/ write_response
    \/ \E bytes \in 0 .. MaxOutput : ToolOk(bytes)
    \/ ToolErr

FinalStep ==
    \/ Reap \/ CleanUp \/ StoreEventLog \/ StoreManifest \/ complete_session
    \/ FinalizeFails

Supervisor == create \/ StartAgent \/ LoopStep \/ FinalStep

Operator ==
    \/ StopCheck \/ StopSignal \/ StopUpdate
    \/ ExtendCheck \/ ExtendOpen \/ ExtendWrite

\* The session is over and no command is in progress.
Terminating ==
    /\ pc \in {"done", "failed"}
    /\ stopPc = "idle"
    /\ extPc = "idle"
    /\ UNCHANGED vars

Next == Supervisor \/ Tick \/ AgentExit \/ TeeKill \/ Operator \/ Terminating

Spec == Init /\ [][Next]_vars

\* The supervisor thread is always scheduled again.  Time passes again and
\* again while it keeps blocking; SF, because the loop blocks only at times.
FairSpec == Spec /\ WF_vars(Supervisor) /\ SF_vars(Tick)

-----------------------------------------------------------------------------
(* Properties.                                                             *)

ExtFiles ==
    [kind : {"none", "torn", "full"}, add : [Budgets -> 0 .. LimitMax]]

ControlTypeOK ==
    /\ pc \in Pcs
    /\ state \in States
    /\ agent \in {"none", "alive", "exited", "reaped"}
    /\ dbStatus \in States \cup {"absent"}
    /\ stopPc \in {"idle", "signal", "update"} /\ stops \in 0 .. MaxStops
    /\ extPc \in {"idle", "open", "write"} /\ exts \in 0 .. MaxExtends

FlagTypeOK == loopErr \in BOOLEAN /\ killFlag \in BOOLEAN /\ pidFile \in BOOLEAN

DataTypeOK ==
    /\ limit \in [Budgets -> 1 .. LimitMax] /\ dbLimit \in [Budgets -> 1 .. LimitMax]
    /\ used \in [Charged -> Nat]
    /\ warned \subseteq Charged
    /\ lastActivity \in Nat /\ lastSnapshot \in Nat /\ execStart \in Nat
    /\ reqs \in Nat /\ now \in Nat
    /\ call \in CallIds
    /\ extFile \in ExtFiles /\ extRead \in ExtFiles

\* Every variable keeps its type; in particular a limit never exceeds the
\* width of its field (check_budget_extension saturates).
TypeOK == ControlTypeOK /\ FlagTypeOK /\ DataTypeOK /\ log \in Seq(Events)

\* max_tool_calls is never exceeded by the calls that are charged, whatever
\* requests, failures and extensions interleave (dispatch_tool_call checks
\* before it runs, and increments only afterwards).
CallBudgetRespected == used["tool_calls"] <= limit["tool_calls"]

\* The two budgets that are only known after the run are overdrawn by less
\* than one run: tool time by the run timeout, output by one call's outputs.
OvershootBounded ==
    /\ used["tool_time"] < limit["tool_time"] * MsPerSec + RunTimeout
    /\ used["output_bytes"] < limit["output_bytes"] + MaxOutput

\* While the loop runs, BudgetExhausted means some budget has no headroom:
\* no extension leaves the state behind, and no charge is missing.
ExhaustionIsReal ==
    (pc \in LoopPcs /\ state = "budget_exhausted")
        => \E b \in Charged : Exhausted(used, limit, b)

\* No tool runs in a session whose state is not running ("the dispatch is
\* rejected and the session transitions to BudgetExhausted").
NoDispatchWhenExhausted == pc = "exec" => state = "running"

StopStatus(s) ==
    CASE s = "stopped"          -> {"stopped", "heartbeat_timeout", "error"}
      [] s = "timed_out"        -> {"timed_out"}
      [] s = "budget_exhausted" -> {"budget_exhausted"}
      [] OTHER                  -> {}

\* However the loop ends (exit, timeout, heartbeat, output limit, error), what
\* is finalized has exactly one SessionStop, it is the last event, and it
\* agrees with the state the manifest and the database record.
OneSessionStop ==
    /\ pc \in LoopPcs => \A i \in 1 .. Len(log) : log[i].kind # "SessionStop"
    /\ pc \in {"finlog", "finman", "findb", "done"} =>
          /\ log # << >> /\ log[Len(log)].arg \in StopStatus(state)
          /\ \A i \in 1 .. Len(log) : log[i].kind = "SessionStop" <=> i = Len(log)

\* A manifest hash in the database always names a stored manifest whose event
\* log is stored whole: at every point where the process could die, what the
\* database refers to exists.
ManifestResolves ==
    dbManifest # NoManifest =>
        /\ dbManifest = manifest
        /\ dbManifest.events = casLog
        /\ casLog = Len(log)

\* Rows of session_calls carry distinct ids and distinct sequence numbers
\* between 1 and the number of charged calls, although inserts may be refused.
RowsNumbered ==
    /\ \A r \in dbCalls : r.seq \in 1 .. used["tool_calls"]
    /\ \A r1, r2 \in dbCalls : r1 # r2 => r1.seq # r2.seq /\ r1.id # r2.id

\* How many elements of the sequence s are in S, and how many events of one
\* kind the log has.
Count(s, S) == Cardinality({i \in 1 .. Len(s) : s[i] \in S})
OfKind(kind) == [kind : {kind}, arg : EventArgs \cup CallIds]
Occurrences(kind) == Count(log, OfKind(kind))

\* Without failures of the runner's own start-up, every ToolDispatch in the log
\* is followed by its ToolResult, and the results that are Ok are the calls the
\* manifest counts.
DispatchesAnswered ==
    /\ Occurrences("ToolDispatch")
          = Occurrences("ToolResult") + (IF pc = "exec" THEN 1 ELSE 0)
    /\ used["tool_calls"] = Count(log, {Event("ToolResult", "ok")})

\* On every way out of run, also after an error in the loop, the agent process
\* has been waited for before anything of the session is recorded.
AgentReaped ==
    pc \in {"clean", "finlog", "finman", "findb", "done", "failed"}
        => agent \in {"none", "reaped"}

\* One `session extend` raises a limit at most once, although the file is read
\* and removed in two steps while another command may be writing it.
ExtensionAppliedOnce ==
    \A b \in Budgets : Count(log, {Event("BudgetExtension", b)}) <= exts

\* Every session ends: the wall budget is looked at in the loop and inside a
\* connection, and every run is cut off by its timeout.
SessionEnds == <>(pc \in {"done", "failed"})

-----------------------------------------------------------------------------
(* What comments and documentation say, and the code does not do.          *)

\* session_runner.rs: stop "only mark[s] the session as stopped if it's still
\* in running state", so that it "avoids overwriting" a finalized result.
FinalizedNotOverwritten ==
    [][dbManifest # NoManifest => dbManifest' = dbManifest]_vars

-----------------------------------------------------------------------------
(* The session implements the budget gate.                                 *)

Gate == INSTANCE BudgetGate WITH
    phase <- IF pc \in {"create", "start"} THEN "new"
             ELSE IF pc \in LoopPcs THEN "open" ELSE "closed",
    blocked <- pc \in LoopPcs /\ state = "budget_exhausted",
    busy <- pc = "exec"

\* Every behaviour of the supervisor, whatever the agent, the operator and the
\* clock do, is one of BudgetGate: dispatch_tool_call admits only with headroom
\* in all charged budgets, charges once, and is reopened only by an extension.
ImplementsGate == Gate!Spec

=============================================================================
