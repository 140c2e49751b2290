----------------------------- MODULE MCCleanup -----------------------------
(***************************************************************************)
(* Instances of Cleanup for TLC.                                           *)
(***************************************************************************)
EXTENDS Cleanup, TLC

ShortPlan == <<"archive", "endpoint_close", "callsign_release">>
=============================================================================
