------------------------------ MODULE MCCasStore ------------------------------
(* CasStore on small sets of writers and contents. *)
EXTENDS CasStore, TLC

Symmetry == Permutations(Writers) \cup Permutations(Contents)
=============================================================================
