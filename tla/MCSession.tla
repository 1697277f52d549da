------------------------------ MODULE MCSession ------------------------------
(* Instances of Session for TLC.                                           *)
EXTENDS Session, TLC

Limits(calls, wall, time, bytes) ==
    [tool_calls |-> calls, wall_time |-> wall, tool_time |-> time,
     output_bytes |-> bytes]

\* Two calls, so that the 80% warning and exhaustion are distinct events.
SmallLimit == Limits(2, 2, 1, 2)

\* An extension that revives one budget only, and one that revives all.
SmallExtensions == {Limits(1, 0, 0, 0), Limits(2, 1, 1, 3)}

Symmetry == Permutations(CallIds)

\* The wall budget is one second, which an extension may double.
OneSecondLimit == Limits(2, 1, 1, 2)
WallExtension == {Limits(0, 1, 0, 0)}

CallsExtension == {Limits(1, 0, 0, 0)}
=============================================================================
