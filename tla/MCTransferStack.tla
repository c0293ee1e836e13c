---------------------------- MODULE MCTransferStack ----------------------------
(* Three packets: a transfer, a forward and its hop, or an outgoing one beside them. *)
EXTENDS TransferStack
=============================================================================
