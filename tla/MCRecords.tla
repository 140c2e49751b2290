------------------------------ MODULE MCRecords ------------------------------
(***************************************************************************)
(* Safety of components that share no state, checked in one run: the first *)
(* state chooses one of them, and the behaviour is that component's.       *)
(***************************************************************************)
EXTENDS Goals, Bootstrap, Selection, RolloverProperties, RequestProperties, TLC

CONSTANTS land, deploy, verify, mend, reconcile, teardown,
          ashe, sona, a1, a2,
          pred, succ, third, wpred, wsucc, wthird

VARIABLE part

Parts == {"goals", "bootstrap", "selection", "succession", "duplicates"}

Only(p) == part = p /\ UNCHANGED part

\* The books of the requests, and what a rollover adds to them.
Books == <<state, owner, requester, pending, mode, latest, claim, lapsed, fresh,
           offer, attention, canonical, requestVars>>

RecordsInit ==
  /\ part \in Parts
  /\ GoalInit
  /\ BootstrapInit
  /\ SelectionInit
  /\ RolloverInit
  /\ \A a \in Shotcallers : given[a] # NoRoute => part = "bootstrap" /\ a = a1

\* Invocations of which one agent's may take up a rolled-back assignment, where
\* nobody else writes to a pane.
InvocationsNext ==
  /\ BootstrapNext
  /\ reused' # {} => reused' = {a1} /\ writes' = 0

\* Selections with a coordinator that retires or an authority to reopen.
SearchesNext ==
  /\ SelectionNext
  /\ retired' = {} \/ \A d \in Reopens : reopened'[d] = 0

\* Rollovers one after the other, with no request about; the successor is in
\* service until it has handed the Squad on.
SuccessionNext ==
  /\ UNCHANGED Books
  /\ RolloverNext
  /\ wsucc \in live' \/ squad'.owner = third

\* Duplicate requests of one Shotcaller in its one window, whose claims are
\* released and do not lapse, and whose results cite no tasks.
DuplicatesNext ==
  /\ UNCHANGED <<live, squadVars, championVars, requestVars>>
  /\ Next
  /\ \A r \in Requests :
       /\ {owner'[r], requester'[r]} \subseteq {pred, NoAgent}
       /\ claim'[r] \in {wpred, NoWindow}
       /\ r \notin lapsed'
       /\ fresh'[r] \subseteq {wpred}
       /\ latest'[r] # "issued"

RecordsNext ==
  \/ Only("goals") /\ GoalNext /\ UNCHANGED <<bootstrapVars, selectionVars, rolloverVars>>
  \/ Only("bootstrap") /\ InvocationsNext /\ UNCHANGED <<goalVars, selectionVars, rolloverVars>>
  \/ Only("selection") /\ SearchesNext /\ UNCHANGED <<goalVars, bootstrapVars, rolloverVars>>
  \/ Only("succession") /\ SuccessionNext /\ UNCHANGED <<goalVars, bootstrapVars, selectionVars>>
  \/ Only("duplicates") /\ DuplicatesNext /\ UNCHANGED <<goalVars, bootstrapVars, selectionVars>>

RecordsSpec ==
  RecordsInit /\ [][RecordsNext]_<<part, goalVars, bootstrapVars, selectionVars, rolloverVars>>

\* The invocations alone.
InvocationsSpec == RecordsSpec /\ part = "bootstrap"

-----------------------------------------------------------------------------
(* One goal: the first revision of its grant is for the landing and the    *)
(* deployment, the second for the repair and the end. The deployment says  *)
(* that it takes two attempts.                                             *)

Kinds == (land :> "land") @@ (deploy :> "deploy") @@ (verify :> "verify") @@
         (mend :> "repair") @@ (reconcile :> "live_reconcile") @@ (teardown :> "cleanup")

KindsOfUses == [a \in Uses |-> Kinds[a]]
UsageOfUses == [a \in Uses |-> IF a = deploy THEN 2 ELSE 1]
TwoAtOnce == <<2, 2>>
ThreeThenFour == <<3, 4>>
OneRepair == <<1, 1>>
Scopes == <<{land, deploy, verify, reconcile}, {verify, mend, teardown}>>

(* Two Shotcallers, one with a failed bootstrap of an older version. *)

Queue == <<ashe, sona>>

(* One window for each Shotcaller of the Squad. *)

OwnWindow == [w \in Windows |-> CASE w = wpred -> pred [] w = wsucc -> succ [] w = wthird -> third]
=============================================================================
