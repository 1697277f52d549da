------------------------------ MODULE BudgetGate ------------------------------
(***************************************************************************)
(* What a session promises about its budget, without sockets, processes,   *)
(* files or events: calls are admitted one at a time and only with         *)
(* headroom in every charged budget, an admitted call is charged at most   *)
(* once when it settles, a refusal closes the gate, and only an extension  *)
(* that gives headroom everywhere opens it again.                          *)
(***************************************************************************)
EXTENDS Budget

VARIABLES
    phase,    \* the session is "new", "open" or "closed"
    limit,    \* the limits in force
    used,     \* what the settled calls have used
    blocked,  \* the gate is closed: a call was refused for want of budget
    busy      \* an admitted call has not settled yet

gateVars == <<phase, limit, used, blocked, busy>>

Headroom(u, l) == \A b \in Charged : ~Exhausted(u, l, b)

Init ==
    /\ phase = "new"
    /\ limit = InitLimit
    /\ used = [b \in Charged |-> 0]
    /\ blocked = FALSE
    /\ busy = FALSE

Open ==
    /\ phase = "new"
    /\ phase' = "open"
    /\ UNCHANGED <<limit, used, blocked, busy>>

\* A refusal or an admission leaves the counters alone.
Admit ==
    /\ phase = "open"
    /\ ~busy
    /\ ~blocked
    /\ Headroom(used, limit)
    /\ busy' = TRUE
    /\ UNCHANGED <<phase, limit, used, blocked>>

Refuse ==
    /\ phase = "open"
    /\ ~busy
    /\ ~Headroom(used, limit)
    /\ blocked' = TRUE
    /\ UNCHANGED <<phase, limit, used, busy>>

\* A call that fails is not charged.
Settle ==
    /\ phase = "open"
    /\ busy
    /\ busy' = FALSE
    /\ \/ \E t \in 0 .. RunTimeout, n \in 0 .. MaxOutput :
             used' = Charge(used, t, n)
       \/ UNCHANGED used
    /\ UNCHANGED <<phase, limit, blocked>>

Raise ==
    /\ phase = "open"
    /\ ~busy
    /\ \E add \in Extensions : limit' = Extend(limit, add)
    /\ blocked' = (blocked /\ ~Headroom(used, limit'))
    /\ UNCHANGED <<phase, used, busy>>

Close ==
    /\ phase # "closed"
    /\ phase' = "closed"
    /\ ~busy
    /\ blocked' = FALSE
    /\ UNCHANGED <<limit, used, busy>>

Next == Open \/ Admit \/ Refuse \/ Settle \/ Raise \/ Close

Spec == Init /\ [][Next]_gateVars
=============================================================================
