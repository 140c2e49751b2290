-------------------------------- MODULE MCStop --------------------------------
(* The instance of Stop for TLC. *)
EXTENDS Stop, TLC
=============================================================================
