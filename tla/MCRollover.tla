----------------------------- MODULE MCRollover -----------------------------
(***************************************************************************)
(* The instance of Rollover for TLC.  The first state chooses between one  *)
(* rollover with a request about, and two rollovers along three            *)
(* Shotcallers with a prompt that nobody triages.                          *)
(***************************************************************************)
EXTENDS RolloverProperties, TLC

CONSTANTS home, pred, succ, third, whome, wpred, wsucc, wthird, o1, o2

VARIABLE rollovers

\* One window each.
OwnWindow == [w \in Windows |-> CASE w = whome -> home [] w = wpred -> pred
                            [] w = wsucc -> succ [] w = wthird -> third]

\* What a step leaves out.  The successor is in service until it has handed the
\* Squad on, and the third does not hand it on; results cite no
\* tasks.
Within ==
  /\ wsucc \in live' \/ squad'.owner = third
  /\ \A o \in Operations : operation'[o].from # third
  /\ IF rollovers = 1
     THEN /\ operation'[o2] = None
          /\ intake'[third].state = "none" /\ callsign'[third] = "reserved"
          /\ \A r \in Requests : wthird \notin fresh'[r] /\ latest'[r] # "issued"
     ELSE \A r \in Requests : state'[r] = "absent" /\ prompt'[r] # home

RolloversInit == RolloverInit /\ rollovers \in 1..2

RolloversNext == RolloverNext /\ Within /\ UNCHANGED rollovers

RolloversSpec == RolloversInit /\ [][RolloversNext]_<<rollovers, rolloverVars>> /\ Draining

\* The two rollovers alone.
TwoRolloversSpec == RolloversSpec /\ rollovers = 2
=============================================================================
