----------------------------- MODULE MCRequests -----------------------------
(***************************************************************************)
(* The instance of RequestProgress for TLC: one request of two Shotcallers.*)
(* The first state chooses whether its owner reports progress.  With       *)
(* reports it is worked on directly, its results cite no tasks, and Garen's*)
(* second window stays idle.                                               *)
(***************************************************************************)
EXTENDS RequestProperties, RequestProgress, TLC

CONSTANTS garen, jarvan, g1, g2, j1

VARIABLE reporting

\* Garen has two windows, Jarvan one.
TwoAgents == [w \in Windows |-> IF w = j1 THEN jarvan ELSE garen]

\* What a step leaves out.
Within ==
  IF reporting
  THEN \A r \in Requests : /\ g2 \notin fresh'[r] \cup {claim'[r]}
                           /\ mode'[r] # "champion"
                           /\ pending'[r] # garen
                           /\ latest'[r] # "issued"
  ELSE UNCHANGED progress

RequestsInit == ProgressInit /\ reporting \in BOOLEAN

RequestsNext == ProgressNext /\ Within /\ UNCHANGED reporting

RequestsSpec == RequestsInit /\ [][RequestsNext]_<<reporting, allVars>> /\ Attentive /\ Reconciling
=============================================================================
