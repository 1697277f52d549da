-------------------------------- MODULE Budget --------------------------------
(***************************************************************************)
(* SessionBudget, BudgetUsed and the arithmetic on them                    *)
(* (crates/oaie-core/src/session.rs, crates/oaie-cli/src/session_runner.rs).*)
(***************************************************************************)
EXTENDS Integers

CONSTANTS
    InitLimit,      \* the SessionBudget the session is created with
    Extensions,     \* the BudgetExtensionRequests the operator may write
    LimitMax,       \* the largest value a limit field can hold
    MsPerSec,       \* clock ticks (milliseconds in the code) in one second
    RunTimeout,     \* the policy's timeout for one run, in ticks
    MaxOutput       \* largest total artifact size of one call

Budgets == {"tool_calls", "wall_time", "tool_time", "output_bytes"}
Charged == {"tool_calls", "tool_time", "output_bytes"}

\* `session run` refuses zero limits.
ASSUME BudgetAssumption ==
    /\ LimitMax \in Nat
    /\ InitLimit \in [Budgets -> 1 .. LimitMax]
    /\ Extensions \subseteq [Budgets -> 0 .. LimitMax]
    /\ MsPerSec \in Nat \ {0}
    /\ RunTimeout \in Nat
    /\ MaxOutput \in Nat

\* Duration::as_secs, and the division of tool_time_ms by 1000.
Secs(t) == t \div MsPerSec

\* A counter in the unit of its limit: tool time is kept in milliseconds.
Spent(u, b) == IF b = "tool_time" THEN Secs(u[b]) ELSE u[b]

\* Mutant: one more than the limit is allowed.
Exhausted_OffByOne(u, l, b) == Spent(u, b) > l[b]

Exhausted(u, l, b) == Spent(u, b) >= l[b]

SaturatingAdd(a, b) == IF a + b > LimitMax THEN LimitMax ELSE a + b

\* Mutant: the sum is not saturated.
Extend_NoSaturation(l, add) == [b \in Budgets |-> l[b] + add[b]]

Extend(l, add) == [b \in Budgets |-> SaturatingAdd(l[b], add[b])]

\* The charge for one call that ran for t ticks and produced n bytes.
Charge(u, t, n) ==
    [u EXCEPT !["tool_calls"] = @ + 1, !["tool_time"] = @ + t,
              !["output_bytes"] = @ + n]
=============================================================================
