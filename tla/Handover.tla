------------------------------ MODULE Handover ------------------------------
(***************************************************************************)
(* What the coordinator of a task may rely on while its Champion is        *)
(* replaced: one handover is under way at a time, the seat goes to the     *)
(* newcomer in one step and, until the predecessor is proved gone, back to *)
(* it in one; a handover that ended never begins again, and nobody is a    *)
(* newcomer twice.                                                         *)
(***************************************************************************)
CONSTANTS First, Newcomers

VARIABLES
  seat,     \* who works on the task
  stage,    \* per newcomer: how far its handover is
  giver     \* per newcomer: from whom it takes, or took, the seat

handoverVars == <<seat, stage, giver>>

UnderWay == {"offered", "taken", "alone"}

HandoverInit ==
  /\ seat = First
  /\ stage = [n \in Newcomers |-> "new"]
  /\ giver = [n \in Newcomers |-> First]

Offer(n) ==
  /\ stage[n] = "new" /\ \A m \in Newcomers : stage[m] \notin UnderWay
  /\ stage' = [stage EXCEPT ![n] = "offered"]
  /\ giver' = [giver EXCEPT ![n] = seat]
  /\ UNCHANGED seat

Take(n) ==
  /\ stage[n] = "offered" /\ seat = giver[n]
  /\ stage' = [stage EXCEPT ![n] = "taken"]
  /\ seat' = n
  /\ UNCHANGED giver

\* The predecessor is gone: there is nobody left to give the seat back to.
Outlast(n) ==
  /\ stage[n] = "taken"
  /\ stage' = [stage EXCEPT ![n] = "alone"]
  /\ UNCHANGED <<seat, giver>>

Finish(n) ==
  /\ stage[n] = "alone" /\ seat = n
  /\ stage' = [stage EXCEPT ![n] = "finished"]
  /\ UNCHANGED <<seat, giver>>

GiveBack(n) ==
  /\ stage[n] \in {"offered", "taken"}
  /\ seat = IF stage[n] = "taken" THEN n ELSE giver[n]
  /\ stage' = [stage EXCEPT ![n] = "refused"]
  /\ seat' = giver[n]
  /\ UNCHANGED giver

HandoverNext ==
  \E n \in Newcomers : Offer(n) \/ Take(n) \/ Outlast(n) \/ Finish(n) \/ GiveBack(n)

HandoverSpec == HandoverInit /\ [][HandoverNext]_handoverVars
=============================================================================
