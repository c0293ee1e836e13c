-------------------------- MODULE MCExportStaking --------------------------
(* Three validators, of which two may be bonded and one signs blocks.      *)
EXTENDS ExportStaking
=============================================================================
