---------------------------- MODULE MCChunkedTrace ----------------------------
(* ChunkedTrace on a few events of two sizes. *)
EXTENDS ChunkedTrace
=============================================================================
