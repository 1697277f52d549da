------------------------------- MODULE MCClean -------------------------------
(* Clean on runs that may produce any of the contents. *)
EXTENDS Clean

SharedOuts == [r \in Runs |-> Contents]
=============================================================================
