----------------------------- MODULE AtomicStore -----------------------------
(***************************************************************************)
(* What the content-addressed store promises its callers, without          *)
(* temporary files, renames or directories: a content appears whole, in    *)
(* one step; Ok is returned only for a content that is not damaged, and    *)
(* that is there unless a call has failed or a content rotted before;      *)
(* until then only a crash takes a content away, and only the disk damages *)
(* one.                                                                    *)
(***************************************************************************)
CONSTANT Contents

VARIABLES
    kept,      \* how each content stands in the store
    acked,     \* contents for which a store has returned Ok since they last rotted
    troubles   \* calls have failed ("fault"), contents have rotted ("rot")

storeVars == <<kept, acked, troubles>>

States == {"absent", "intact", "damaged"}

Init ==
    /\ kept = [c \in Contents |-> "absent"]
    /\ acked = {}
    /\ troubles = {}

Publish(c) ==
    /\ kept' = [kept EXCEPT ![c] = "intact"]
    /\ UNCHANGED <<acked, troubles>>

\* Ok is returned for a content that is there; the last call may fail unnoticed.
Acknowledge(c) ==
    /\ kept[c] # "damaged"
    /\ troubles = {} => kept[c] = "intact"
    /\ acked' = acked \cup {c}
    /\ troubles' \in {troubles, troubles \cup {"fault"}}
    /\ UNCHANGED kept

\* Taken away to be replaced.
Withdraw(c) ==
    /\ troubles # {}
    /\ kept' = [kept EXCEPT ![c] = "absent"]
    /\ UNCHANGED <<acked, troubles>>

Fail ==
    /\ troubles' = troubles \cup {"fault"}
    /\ UNCHANGED <<kept, acked>>

Damage(c) ==
    /\ kept[c] = "intact"
    /\ kept' = [kept EXCEPT ![c] = "damaged"]
    /\ acked' = acked \ {c}
    /\ troubles' = troubles \cup {"rot"}

\* A crash may lose contents, and damages none that the disk has kept; only where
\* something went wrong before may it bring back what was there earlier.
Crash ==
    /\ kept' \in [Contents -> States]
    /\ troubles = {} => \A c \in Contents : kept'[c] \in {kept[c], "absent"}
    /\ \A c \in Contents : kept'[c] = "damaged" => "rot" \in troubles
    /\ UNCHANGED <<acked, troubles>>

Next ==
    \/ \E c \in Contents : Publish(c) \/ Acknowledge(c) \/ Withdraw(c) \/ Damage(c)
    \/ Fail \/ Crash

Spec == Init /\ [][Next]_storeVars
=============================================================================
