------------------------------ MODULE MCNodeStart ------------------------------
(* echofid's own chain id, next to one that no table knows. *)
EXTENDS NodeStart
=============================================================================
