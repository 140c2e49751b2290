------------------------------ MODULE MCLaunch ------------------------------
(***************************************************************************)
(* Instances of Launch for TLC.                                            *)
(***************************************************************************)
EXTENDS LaunchProperties, TLC

Symmetry == Permutations(Launchers)
=============================================================================
