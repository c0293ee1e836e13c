---------------------------- MODULE MCBlockOrder ----------------------------
(* Three validators, two of which may be bonded, over three blocks.         *)
EXTENDS BlockOrder
=============================================================================
