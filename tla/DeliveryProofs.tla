--------------------------- MODULE DeliveryProofs ---------------------------
(***************************************************************************)
(* Proofs about Delivery, for any rows, dispatchers, readers and attempts. *)
(*                                                                         *)
(* The argument follows the code: every transaction of Outbox, started     *)
(* where its caller's checks allow it, keeps the invariant of the delivery *)
(* tables, and the steps between transactions do not touch them.           *)
(***************************************************************************)
EXTENDS DeliveryProperties, FiniteSetTheorems, TLAPS

\* The inductive invariant of the tables: their types, and the three facts
\* that relate them to each other.
TablesInv ==
  /\ TablesType
  /\ LeaseIffInFlight
  /\ DeliveredIffReceipt
  /\ SettledOwesNothing

\* The invariant holds of a store whose rows have just been inserted.
LEMMA TablesInitially == ASSUME TablesInit PROVE TablesInv
  BY OutboxAssumption DEF OutboxAssumption, TablesInit, TablesInv, TablesType, LeaseIffInFlight, DeliveredIffReceipt,
         SettledOwesNothing, Leased, NoLease, NoSteering, OutboxStates, EffectKinds, SteeringStates

-----------------------------------------------------------------------------
(* What the parts of a transaction write.                                  *)

\* SetState changes the state of the given rows and nothing else.
LEMMA SetStateWrites ==
  ASSUME TablesType, NEW S, NEW s \in OutboxStates
  PROVE  /\ SetState(S, s) \in [Rows -> [state : OutboxStates, due : BOOLEAN]]
         /\ \A o \in Rows : SetState(S, s)[o].state = IF o \in S THEN s ELSE outbox[o].state
<1>1. ASSUME NEW o \in Rows
      PROVE  /\ SetState(S, s)[o] \in [state : OutboxStates, due : BOOLEAN]
             /\ SetState(S, s)[o].state = IF o \in S THEN s ELSE outbox[o].state
  <2>1. outbox[o] \in [state : OutboxStates, due : BOOLEAN]
    BY <1>1 DEF TablesType
  <2>2. /\ [outbox[o] EXCEPT !.state = s] \in [state : OutboxStates, due : BOOLEAN]
        /\ [outbox[o] EXCEPT !.state = s].state = s
    BY <2>1
  <2>3. SetState(S, s)[o] = IF o \in S THEN [outbox[o] EXCEPT !.state = s] ELSE outbox[o]
    BY <1>1, Zenon DEF SetState
  <2> QED BY <2>1, <2>2, <2>3, Zenon
<1>2. SetState(S, s) = [o \in Rows |-> SetState(S, s)[o]]
  BY Zenon DEF SetState
<1> QED BY <1>1, <1>2, Zenon

\* DropLease deletes the leases of the given rows and keeps the others.
LEMMA DropLeaseWrites ==
  ASSUME TablesType, NEW S
  PROVE  /\ DropLease(S) \in [Rows -> [holder : Holders \cup {NoHolder}, fence : Nat, expired : BOOLEAN]]
         /\ \A o \in Rows : DropLease(S)[o].fence = IF o \in S THEN 0 ELSE lease[o].fence
  BY DEF TablesType, DropLease, NoLease

\* Satisfy closes the open obligations of the given rows.
LEMMA SatisfyWrites ==
  ASSUME TablesType, NEW S
  PROVE  /\ Satisfy(S) \in [Rows -> {"none", "open", "satisfied"}]
         /\ \A o \in Rows : /\ o \in S => Satisfy(S)[o] # "open"
                            /\ o \notin S => Satisfy(S)[o] = obligation[o]
  BY DEF TablesType, Satisfy

-----------------------------------------------------------------------------
(* Each transaction keeps the invariant.                                   *)

\* claim_outbox, by a dispatcher or for an inbox read.
LEMMA ClaimRowsKeeps ==
  ASSUME TablesInv, NEW S \in SUBSET Rows, NEW h \in Holders,
         \A o \in S : Dispatchable(o) /\ tries[o] < MaxAttempts,
         ClaimRows(S, h)
  PROVE  TablesInv'
<1> USE DEF TablesInv, LeaseIffInFlight, DeliveredIffReceipt, SettledOwesNothing, Leased
<1>0. TablesType /\ "in_flight" \in OutboxStates
  BY DEF OutboxStates
<1>1. /\ outbox' \in [Rows -> [state : OutboxStates, due : BOOLEAN]]
      /\ \A o \in Rows : outbox'[o].state = IF o \in S THEN "in_flight" ELSE outbox[o].state
  BY <1>0, SetStateWrites DEF ClaimRows
<1>2. tries' \in [Rows -> 0..MaxAttempts]
  BY OutboxAssumption DEF TablesType, ClaimRows, OutboxAssumption
<1>3. /\ lease' \in [Rows -> [holder : Holders \cup {NoHolder}, fence : Nat, expired : BOOLEAN]]
      /\ \A o \in Rows : IF o \in S THEN lease'[o].fence > 0 ELSE lease'[o] = lease[o]
  BY DEF TablesType, ClaimRows, NextFence
<1>4. UNCHANGED <<receipt, obligation, steering>>
  BY DEF ClaimRows
<1>5. TablesType'
  BY <1>1, <1>2, <1>3, <1>4 DEF TablesType
<1>6. LeaseIffInFlight'
  BY <1>1, <1>3
<1>7. DeliveredIffReceipt' /\ SettledOwesNothing'
  BY <1>1, <1>4 DEF Dispatchable
<1> QED BY <1>5, <1>6, <1>7

\* claim_outbox of a row with a receipt changes nothing, its reconciliation
\* never has anything to do.
LEMMA ReconcileOnClaimKeeps ==
  ASSUME TablesInv, NEW o \in Rows, receipt[o] # "none", ReconcileOnClaim(o)
  PROVE  UNCHANGED tables
  BY DEF TablesInv, DeliveredIffReceipt, ReconcileOnClaim, tables

\* claim_outbox of an interrupted owner stop, await_outbox_receipt.
LEMMA SuspendKeeps ==
  ASSUME TablesInv, NEW o \in Rows, outbox[o].state = "in_flight", Suspend(o)
  PROVE  TablesInv'
<1> USE DEF TablesInv, LeaseIffInFlight, DeliveredIffReceipt, SettledOwesNothing, Leased
<1>0. TablesType /\ "awaiting_receipt" \in OutboxStates
  BY DEF OutboxStates
<1>1. /\ outbox' \in [Rows -> [state : OutboxStates, due : BOOLEAN]]
      /\ \A x \in Rows : outbox'[x].state = IF x = o THEN "awaiting_receipt" ELSE outbox[x].state
  BY <1>0, SetStateWrites DEF Suspend
<1>2. /\ lease' \in [Rows -> [holder : Holders \cup {NoHolder}, fence : Nat, expired : BOOLEAN]]
      /\ \A x \in Rows : lease'[x].fence = IF x = o THEN 0 ELSE lease[x].fence
  BY DropLeaseWrites DEF Suspend
<1>3. UNCHANGED <<tries, receipt, obligation, steering>>
  BY DEF Suspend
<1>4. TablesType'
  BY <1>1, <1>2, <1>3 DEF TablesType
<1>5. LeaseIffInFlight'
  BY <1>1, <1>2
<1>6. DeliveredIffReceipt' /\ SettledOwesNothing'
  BY <1>1, <1>3
<1> QED BY <1>4, <1>5, <1>6

\* acknowledge_outbox, of one row or of the items of an inbox read.
LEMMA AcknowledgeRowsKeeps ==
  ASSUME TablesInv, NEW S \in SUBSET Rows, NEW k \in EffectKinds,
         AcknowledgeRows(S, k)
  PROVE  TablesInv'
<1> USE DEF TablesInv, LeaseIffInFlight, DeliveredIffReceipt, SettledOwesNothing, Leased
<1> DEFINE fresh == {o \in S : receipt[o] = "none"}
<1>0. TablesType /\ "delivered" \in OutboxStates
  BY DEF OutboxStates
<1>1. /\ outbox' \in [Rows -> [state : OutboxStates, due : BOOLEAN]]
      /\ \A x \in Rows : outbox'[x].state = IF x \in S THEN "delivered" ELSE outbox[x].state
  BY <1>0, SetStateWrites DEF AcknowledgeRows, ReconcileDelivered
<1>2. /\ lease' \in [Rows -> [holder : Holders \cup {NoHolder}, fence : Nat, expired : BOOLEAN]]
      /\ \A x \in Rows : lease'[x].fence = IF x \in S THEN 0 ELSE lease[x].fence
  BY DropLeaseWrites DEF AcknowledgeRows, ReconcileDelivered
<1>3. obligation' = Satisfy(fresh)
  BY DEF AcknowledgeRows
<1>4. /\ obligation' \in [Rows -> {"none", "open", "satisfied"}]
      /\ \A x \in Rows : /\ x \in fresh => obligation'[x] # "open"
                         /\ x \notin fresh => obligation'[x] = obligation[x]
  BY <1>3, SatisfyWrites
<1>5. /\ receipt' \in [Rows -> EffectKinds \cup {"none"}]
      /\ \A x \in Rows : receipt'[x] = IF x \in fresh THEN k ELSE receipt[x]
  BY DEF TablesType, AcknowledgeRows
<1>6. k # "none"
  BY DEF EffectKinds
<1>7. steering' \in [Rows -> [state : SteeringStates, attempt : 0..MaxAttempts, working : BOOLEAN]]
  <2>1. steering' = MarkAcknowledged(S, k)
    BY DEF AcknowledgeRows
  <2>2. ASSUME NEW x \in Rows
        PROVE  MarkAcknowledged(S, k)[x] \in [state : SteeringStates, attempt : 0..MaxAttempts, working : BOOLEAN]
    <3>1. steering[x] \in [state : SteeringStates, attempt : 0..MaxAttempts, working : BOOLEAN]
      BY <2>2 DEF TablesType
    <3>2. [steering[x] EXCEPT !.state = "acknowledged"]
            \in [state : SteeringStates, attempt : 0..MaxAttempts, working : BOOLEAN]
      BY <3>1 DEF SteeringStates
    <3>3. MarkAcknowledged(S, k)[x] \in {steering[x], [steering[x] EXCEPT !.state = "acknowledged"]}
      BY <2>2, Zenon DEF MarkAcknowledged
    <3> QED BY <3>1, <3>2, <3>3, Zenon
  <2>3. MarkAcknowledged(S, k) = [x \in Rows |-> MarkAcknowledged(S, k)[x]]
    BY Zenon DEF MarkAcknowledged
  <2> QED BY <2>1, <2>2, <2>3, Zenon
<1>8. tries' = tries
  BY DEF AcknowledgeRows
<1>9. TablesType'
  BY <1>1, <1>2, <1>4, <1>5, <1>7, <1>8 DEF TablesType
<1>10. LeaseIffInFlight'
  BY <1>1, <1>2
<1>11. DeliveredIffReceipt'
  BY <1>1, <1>5, <1>6
<1>12. SettledOwesNothing'
  BY <1>1, <1>4
<1> QED BY <1>9, <1>10, <1>11, <1>12

\* fail_outbox.
LEMMA FailRowKeeps ==
  ASSUME TablesInv, NEW o \in Rows, outbox[o].state = "in_flight", FailRow(o)
  PROVE  TablesInv'
<1> USE DEF TablesInv, LeaseIffInFlight, DeliveredIffReceipt, SettledOwesNothing, Leased
<1>1. /\ outbox' \in [Rows -> [state : OutboxStates, due : BOOLEAN]]
      /\ \A x \in Rows : outbox'[x].state = IF x = o THEN "pending" ELSE outbox[x].state
  BY DEF FailRow, TablesType, OutboxStates
<1>2. /\ lease' \in [Rows -> [holder : Holders \cup {NoHolder}, fence : Nat, expired : BOOLEAN]]
      /\ \A x \in Rows : lease'[x].fence = IF x = o THEN 0 ELSE lease[x].fence
  BY DropLeaseWrites DEF FailRow
<1>3. /\ obligation' \in [Rows -> {"none", "open", "satisfied"}]
      /\ \A x \in Rows : x # o => obligation'[x] = obligation[x]
  BY DEF FailRow, TablesType
<1>4. UNCHANGED <<tries, receipt, steering>>
  BY DEF FailRow
<1>5. TablesType'
  BY <1>1, <1>2, <1>3, <1>4 DEF TablesType
<1>6. LeaseIffInFlight'
  BY <1>1, <1>2
<1>7. DeliveredIffReceipt' /\ SettledOwesNothing'
  BY <1>1, <1>3, <1>4
<1> QED BY <1>5, <1>6, <1>7

\* apply_supervision_delivery_policy, on a row it found pending.
LEMMA SilenceRowKeeps ==
  ASSUME TablesInv, NEW o \in Rows, outbox[o].state = "pending", SilenceRow(o)
  PROVE  TablesInv'
<1> USE DEF TablesInv, LeaseIffInFlight, DeliveredIffReceipt, SettledOwesNothing, Leased
<1>0. TablesType /\ "cancelled" \in OutboxStates
  BY DEF OutboxStates
<1>1. /\ outbox' \in [Rows -> [state : OutboxStates, due : BOOLEAN]]
      /\ \A x \in Rows : outbox'[x].state = IF x = o THEN "cancelled" ELSE outbox[x].state
  BY <1>0, SetStateWrites DEF SilenceRow
<1>2. /\ lease' \in [Rows -> [holder : Holders \cup {NoHolder}, fence : Nat, expired : BOOLEAN]]
      /\ \A x \in Rows : lease'[x].fence = IF x = o THEN 0 ELSE lease[x].fence
  BY DropLeaseWrites DEF SilenceRow
<1>3. /\ obligation' \in [Rows -> {"none", "open", "satisfied"}]
      /\ obligation'[o] # "open"
      /\ \A x \in Rows : x # o => obligation'[x] = obligation[x]
  BY SatisfyWrites DEF SilenceRow
<1>4. UNCHANGED <<tries, receipt, steering>>
  BY DEF SilenceRow
<1>5. TablesType'
  BY <1>1, <1>2, <1>3, <1>4 DEF TablesType
<1>6. LeaseIffInFlight'
  BY <1>1, <1>2
<1>7. DeliveredIffReceipt' /\ SettledOwesNothing'
  BY <1>1, <1>3, <1>4
<1> QED BY <1>5, <1>6, <1>7

\* reconcile_received_outbox.
LEMMA RecoverRowKeeps ==
  ASSUME TablesInv, NEW o \in Rows, RecoverRow(o)
  PROVE  TablesInv'
<1> USE DEF TablesInv, LeaseIffInFlight, DeliveredIffReceipt, SettledOwesNothing, Leased
<1>0. TablesType /\ "delivered" \in OutboxStates
  BY DEF OutboxStates
<1>1. /\ outbox' \in [Rows -> [state : OutboxStates, due : BOOLEAN]]
      /\ \A x \in Rows : outbox'[x].state = IF x = o THEN "delivered" ELSE outbox[x].state
  BY <1>0, SetStateWrites DEF RecoverRow, ReconcileDelivered
<1>2. /\ lease' \in [Rows -> [holder : Holders \cup {NoHolder}, fence : Nat, expired : BOOLEAN]]
      /\ \A x \in Rows : lease'[x].fence = IF x = o THEN 0 ELSE lease[x].fence
  BY DropLeaseWrites DEF RecoverRow, ReconcileDelivered
<1>3. /\ obligation' \in [Rows -> {"none", "open", "satisfied"}]
      /\ obligation'[o] # "open"
      /\ \A x \in Rows : x # o => obligation'[x] = obligation[x]
  BY SatisfyWrites DEF RecoverRow
<1>4. /\ receipt' \in [Rows -> EffectKinds \cup {"none"}]
      /\ \A x \in Rows : receipt'[x] = IF x = o THEN "recovery_read" ELSE receipt[x]
  BY DEF RecoverRow, TablesType, EffectKinds
<1>5. UNCHANGED <<tries, steering>>
  BY DEF RecoverRow
<1>6. TablesType'
  BY <1>1, <1>2, <1>3, <1>4, <1>5 DEF TablesType
<1>7. LeaseIffInFlight'
  BY <1>1, <1>2
<1>8. DeliveredIffReceipt' /\ SettledOwesNothing'
  BY <1>1, <1>3, <1>4
<1> QED BY <1>6, <1>7, <1>8

\* _settle_assignment_activation_delivery, on a row it found pending: no lease
\* is left behind although it deletes none.
LEMMA SettleRowKeeps ==
  ASSUME TablesInv, NEW o \in Rows, outbox[o].state = "pending", SettleRow(o)
  PROVE  TablesInv'
<1> USE DEF TablesInv, LeaseIffInFlight, DeliveredIffReceipt, SettledOwesNothing, Leased
<1>0. TablesType /\ "delivered" \in OutboxStates
  BY DEF OutboxStates
<1>1. /\ outbox' \in [Rows -> [state : OutboxStates, due : BOOLEAN]]
      /\ \A x \in Rows : outbox'[x].state = IF x = o THEN "delivered" ELSE outbox[x].state
  BY <1>0, SetStateWrites DEF SettleRow
<1>2. /\ obligation' \in [Rows -> {"none", "open", "satisfied"}]
      /\ obligation'[o] # "open"
      /\ \A x \in Rows : x # o => obligation'[x] = obligation[x]
  BY SatisfyWrites DEF SettleRow
<1>3. /\ receipt' \in [Rows -> EffectKinds \cup {"none"}]
      /\ \A x \in Rows : receipt'[x] = IF x = o THEN "assignment_context" ELSE receipt[x]
  BY DEF SettleRow, TablesType, EffectKinds
<1>4. UNCHANGED <<tries, lease, steering>>
  BY DEF SettleRow
<1>5. TablesType'
  BY <1>1, <1>2, <1>3, <1>4 DEF TablesType
<1>6. LeaseIffInFlight'
  BY <1>1, <1>4
<1>7. DeliveredIffReceipt' /\ SettledOwesNothing'
  BY <1>1, <1>2, <1>3
<1> QED BY <1>5, <1>6, <1>7

\* begin_cursor_steering.
LEMMA BeginSteeringKeeps ==
  ASSUME TablesInv, NEW o \in Rows, NEW a \in 0..MaxAttempts, NEW working \in BOOLEAN,
         BeginSteering(o, a, working)
  PROVE  TablesInv'
<1>1. UNCHANGED <<outbox, tries, lease, receipt, obligation>>
  BY DEF BeginSteering
<1>2. steering' \in [Rows -> [state : SteeringStates, attempt : 0..MaxAttempts, working : BOOLEAN]]
  BY DEF BeginSteering, TablesInv, TablesType, SteeringStates
<1> QED BY <1>1, <1>2 DEF TablesInv, TablesType, LeaseIffInFlight, DeliveredIffReceipt, SettledOwesNothing, Leased

\* record_cursor_steering_phase.
LEMMA RecordPhaseKeeps ==
  ASSUME TablesInv, NEW o \in Rows, NEW s \in SteeringStates, RecordPhase(o, s)
  PROVE  TablesInv'
<1>1. UNCHANGED <<outbox, tries, lease, receipt, obligation>>
  BY DEF RecordPhase
<1>2. steering' \in [Rows -> [state : SteeringStates, attempt : 0..MaxAttempts, working : BOOLEAN]]
  BY DEF RecordPhase, TablesInv, TablesType
<1> QED BY <1>1, <1>2 DEF TablesInv, TablesType, LeaseIffInFlight, DeliveredIffReceipt, SettledOwesNothing, Leased

\* The passage of time.
LEMMA ExpireLeaseKeeps ==
  ASSUME TablesInv, NEW o \in Rows, ExpireLease(o)
  PROVE  TablesInv'
<1>1. UNCHANGED <<outbox, tries, receipt, obligation, steering>>
  BY DEF ExpireLease
<1>2. /\ lease' \in [Rows -> [holder : Holders \cup {NoHolder}, fence : Nat, expired : BOOLEAN]]
      /\ \A x \in Rows : lease'[x].fence = lease[x].fence
  BY DEF ExpireLease, TablesInv, TablesType
<1> QED BY <1>1, <1>2 DEF TablesInv, TablesType, LeaseIffInFlight, DeliveredIffReceipt, SettledOwesNothing, Leased

LEMMA BecomeDueKeeps ==
  ASSUME TablesInv, NEW o \in Rows, BecomeDue(o)
  PROVE  TablesInv'
<1>1. UNCHANGED <<tries, lease, receipt, obligation, steering>>
  BY DEF BecomeDue
<1>2. /\ outbox' \in [Rows -> [state : OutboxStates, due : BOOLEAN]]
      /\ \A x \in Rows : outbox'[x].state = outbox[x].state
  BY DEF BecomeDue, TablesInv, TablesType
<1> QED BY <1>1, <1>2 DEF TablesInv, TablesType, LeaseIffInFlight, DeliveredIffReceipt, SettledOwesNothing, Leased

-----------------------------------------------------------------------------
(* The invariant of the dispatchers, the readers and the effects.          *)

Transports == {"watcher_event", "direct_prompt", "cursor_steering"}

\* A dispatcher at these steps has a channel, ...
Sending == {"sending", "pushed", "observed", "intended", "typed", "texted", "posted", "receipted"}

\* ... at these it steers a Cursor, ...
Steering == {"observed", "intended", "typed", "texted", "posted"}

\* ... and at these its own intent is recorded and not finished.
Owning == {"intended", "typed", "texted", "posted"}

ControlType ==
  /\ pc \in [Workers -> Steps]
  /\ job \in [Workers -> [row : Rows \cup {NoRow}, fence : Nat, attempt : 0..MaxAttempts,
                          channel : EffectKinds \cup {"none"}]]
  /\ \A p \in Workers : pc[p] # "idle" => job[p].row \in Rows
  /\ hand \in [Readers -> SUBSET Items]
  /\ busy \in BOOLEAN
  /\ effects \in [Rows -> SUBSET ((0..MaxAttempts) \X Reached)]

ChannelKnown ==
  \A p \in Workers :
    /\ pc[p] \in Sending => job[p].channel \in Transports
    /\ pc[p] \in Steering => job[p].channel = "cursor_steering"

\* What every process believes of an effect is true.
Evidence ==
  /\ \A p \in Workers :
       /\ pc[p] = "pushed" => <<job[p].attempt, job[p].channel>> \in effects[job[p].row]
       /\ pc[p] = "posted" => <<job[p].attempt, "cursor_steering">> \in effects[job[p].row]
       /\ pc[p] = "receipted" =>
            \E a \in 0..MaxAttempts : <<a, job[p].channel>> \in effects[job[p].row]
  /\ \A r \in Readers : \A i \in hand[r] : <<i.attempt, "inbox_read">> \in effects[i.row]
  /\ \A o \in Rows : steering[o].state \in {"effect_applied", "acknowledged"} =>
       <<steering[o].attempt, "cursor_steering">> \in effects[o]

\* One dispatcher at most owns the intent of a row.
OneOwner ==
  /\ \A p, q \in Workers :
       pc[p] \in Owning /\ pc[q] \in Owning /\ job[p].row = job[q].row => p = q
  /\ \A p \in Workers : pc[p] \in Owning =>
       /\ steering[job[p].row].attempt = job[p].attempt
       /\ pc[p] \in {"intended", "typed"} => steering[job[p].row].state = "intent_recorded"
       /\ pc[p] = "texted" => steering[job[p].row].state = "text_sent"
       /\ pc[p] = "posted" => steering[job[p].row].state \in {"intent_recorded", "text_sent"}

CursorEffects(o) == {x \in effects[o] : x[2] \in {"cursor_text", "cursor_steering"}}

\* Whatever reached a Cursor terminal came from that owner.
InputIsOwners ==
  /\ \A o \in Rows : \A x \in CursorEffects(o) : x[1] = steering[o].attempt
  /\ \A o \in Rows : steering[o].state \in {"none", "refused_pre_effect"} => CursorEffects(o) = {}
  /\ \A p \in Workers : pc[p] = "intended" => CursorEffects(job[p].row) = {}

AcknowledgedIffReceipt ==
  \A o \in Rows : steering[o].state = "acknowledged" <=> receipt[o] = "cursor_steering"

Inv ==
  /\ TablesInv
  /\ ControlType
  /\ ChannelKnown
  /\ Evidence
  /\ ReceiptProvesEffect
  /\ OneOwner
  /\ InputIsOwners
  /\ AcknowledgedIffReceipt

-----------------------------------------------------------------------------
(* The steps of a dispatcher that touch no table and no effect.            *)

\* The tables do not move when their variables do not.
LEMMA TablesUnchanged == ASSUME TablesInv, UNCHANGED tables PROVE TablesInv'
  BY DEF TablesInv, TablesType, LeaseIffInFlight, DeliveredIffReceipt, SettledOwesNothing, Leased, tables

\* A decision of the adapter: only a receipt needs evidence.
LEMMA DecidesKeeps ==
  ASSUME Inv, NEW p \in Workers, NEW step \in {"observed", "receipted", "unavailable", "ambiguous"},
         pc[p] # "idle",
         step \in {"observed", "receipted"} => job[p].channel \in Transports,
         step = "observed" => job[p].channel = "cursor_steering",
         step = "receipted" => \E a \in 0..MaxAttempts : <<a, job[p].channel>> \in effects[job[p].row],
         Decides(p, step)
  PROVE  Inv'
<1>1. TablesInv'
  BY TablesUnchanged DEF Inv, Decides
<1>2. ControlType'
  BY DEF Inv, ControlType, Decides, Goto, Steps
<1>3. /\ pc' = [pc EXCEPT ![p] = step]
      /\ pc \in [Workers -> Steps]
      /\ UNCHANGED <<job, hand, effects, steering, receipt>>
  BY DEF Inv, ControlType, Decides, Goto, tables
<1>4. ChannelKnown'
  BY <1>3 DEF Inv, ChannelKnown, Sending, Steering
<1>5. Evidence'
  BY <1>3 DEF Inv, Evidence
<1>6. ReceiptProvesEffect' /\ AcknowledgedIffReceipt'
  BY <1>3 DEF Inv, ReceiptProvesEffect, AcknowledgedIffReceipt
<1>7. OneOwner'
  BY <1>3 DEF Inv, OneOwner, Owning
<1>8. InputIsOwners'
  BY <1>3 DEF Inv, InputIsOwners, CursorEffects
<1> QED BY <1>1, <1>2, <1>4, <1>5, <1>6, <1>7, <1>8 DEF Inv

\* Begin, ResolveTarget: a dispatcher moves on with a new job.
LEMMA BeginKeeps ==
  ASSUME Inv, NEW p \in Workers, NEW o \in Rows, Begin(p, o)
  PROVE  Inv'
<1>1. TablesInv'
  BY TablesUnchanged DEF Inv, Begin
<1>2. ControlType'
  BY OutboxAssumption DEF OutboxAssumption, Inv, ControlType, Begin, Goto, Steps, NoJob
<1>3. /\ pc' = [pc EXCEPT ![p] = "cleared"]
      /\ pc \in [Workers -> Steps]
      /\ \A q \in Workers : q # p => job'[q] = job[q]
      /\ UNCHANGED <<hand, effects, steering, receipt>>
  BY DEF Inv, ControlType, Begin, Goto, tables
<1>4. ChannelKnown' /\ Evidence'
  BY <1>3 DEF Inv, ChannelKnown, Sending, Steering, Evidence
<1>5. ReceiptProvesEffect' /\ AcknowledgedIffReceipt'
  BY <1>3 DEF Inv, ReceiptProvesEffect, AcknowledgedIffReceipt
<1>6. OneOwner' /\ InputIsOwners'
  BY <1>3 DEF Inv, OneOwner, Owning, InputIsOwners, CursorEffects
<1> QED BY <1>1, <1>2, <1>4, <1>5, <1>6 DEF Inv

LEMMA ResolveTargetKeeps ==
  ASSUME Inv, NEW p \in Workers, ResolveTarget(p)
  PROVE  Inv'
<1>1. TablesInv'
  BY TablesUnchanged DEF Inv, ResolveTarget
<1>2. PICK c \in Channels[job[p].row] : job' = [job EXCEPT ![p].channel = c]
  BY DEF ResolveTarget
<1>3. job[p].row \in Rows
  BY DEF ResolveTarget, Inv, ControlType
<1>4. c \in Transports
  BY <1>2, <1>3, DeliveryAssumption DEF DeliveryAssumption, Transports
<1>5. ControlType'
  BY <1>2, <1>4 DEF Inv, ControlType, ResolveTarget, Goto, Steps, Transports, EffectKinds
<1>6. /\ pc' = [pc EXCEPT ![p] = "sending"]
      /\ pc \in [Workers -> Steps]
      /\ \A q \in Workers : q # p => job'[q] = job[q]
      /\ job'[p].channel = c
      /\ UNCHANGED <<hand, effects, steering, receipt>>
  BY <1>2 DEF Inv, ControlType, ResolveTarget, Goto, tables
<1>7. ChannelKnown' /\ Evidence'
  BY <1>4, <1>6 DEF Inv, ChannelKnown, Sending, Steering, Evidence
<1>8. ReceiptProvesEffect' /\ AcknowledgedIffReceipt'
  BY <1>6 DEF Inv, ReceiptProvesEffect, AcknowledgedIffReceipt
<1>9. OneOwner' /\ InputIsOwners'
  BY <1>6 DEF Inv, OneOwner, Owning, InputIsOwners, CursorEffects
<1> QED BY <1>1, <1>5, <1>7, <1>8, <1>9 DEF Inv

\* A dispatcher that ends, or dies, believes nothing any more.
LEMMA FinishKeeps ==
  ASSUME Inv, NEW p \in Workers, Finish(p), TablesInv', busy' \in BOOLEAN,
         UNCHANGED <<hand, effects, steering, receipt>>
  PROVE  Inv'
<1>1. ControlType'
  BY OutboxAssumption DEF OutboxAssumption, Inv, ControlType, Finish, Steps, NoJob
<1>2. /\ pc' = [pc EXCEPT ![p] = "idle"]
      /\ pc \in [Workers -> Steps]
      /\ \A q \in Workers : q # p => job'[q] = job[q]
  BY DEF Inv, ControlType, Finish
<1>3. ChannelKnown' /\ Evidence'
  BY <1>2 DEF Inv, ChannelKnown, Sending, Steering, Evidence
<1>4. ReceiptProvesEffect' /\ AcknowledgedIffReceipt'
  BY DEF Inv, ReceiptProvesEffect, AcknowledgedIffReceipt
<1>5. OneOwner' /\ InputIsOwners'
  BY <1>2 DEF Inv, OneOwner, Owning, InputIsOwners, CursorEffects
<1> QED BY <1>1, <1>3, <1>4, <1>5 DEF Inv

\* Neither do the policy, the clock and the end of the recipient's turn change
\* what anyone believes.
LEMMA OthersKeep ==
  ASSUME Inv, TablesInv', busy' \in BOOLEAN,
         UNCHANGED <<pc, job, hand, effects, steering, receipt>>
  PROVE  Inv'
<1>1. ControlType' /\ ChannelKnown' /\ Evidence'
  BY DEF Inv, ControlType, ChannelKnown, Evidence
<1>2. ReceiptProvesEffect' /\ AcknowledgedIffReceipt'
  BY DEF Inv, ReceiptProvesEffect, AcknowledgedIffReceipt
<1>3. OneOwner' /\ InputIsOwners'
  BY DEF Inv, OneOwner, InputIsOwners, CursorEffects
<1> QED BY <1>1, <1>2, <1>3 DEF Inv

\* A claim gives its dispatcher a job, or an inbox read its items.
LEMMA ClaimOutboxKeeps ==
  ASSUME Inv, NEW p \in Workers, ClaimOutbox(p)
  PROVE  Inv'
<1> DEFINE o == job[p].row
<1>1. o \in Rows /\ Dispatcher[p] \in Holders
  BY DeliveryAssumption DEF ClaimOutbox, Inv, ControlType, DeliveryAssumption
<1>2. Dispatchable(o) /\ tries[o] < MaxAttempts /\ ClaimRows({o}, Dispatcher[p])
  BY DEF ClaimOutbox
<1>3. TablesInv'
  BY <1>1, <1>2, ClaimRowsKeeps DEF Inv
<1>4. NextFence(o) \in Nat /\ tries[o] + 1 \in 0..MaxAttempts
  BY <1>1, <1>2, OutboxAssumption DEF Inv, TablesInv, TablesType, NextFence, OutboxAssumption
<1>5. ControlType'
  BY <1>1, <1>4 DEF Inv, ControlType, ClaimOutbox, Goto, Steps
<1>6. /\ pc' = [pc EXCEPT ![p] = "leased"]
      /\ pc \in [Workers -> Steps]
      /\ \A q \in Workers : q # p => job'[q] = job[q]
      /\ UNCHANGED <<hand, effects, steering, receipt>>
  BY <1>2 DEF Inv, ControlType, ClaimOutbox, ClaimRows, Goto
<1>7. ChannelKnown' /\ Evidence'
  BY <1>6 DEF Inv, ChannelKnown, Sending, Steering, Evidence
<1>8. ReceiptProvesEffect' /\ AcknowledgedIffReceipt'
  BY <1>6 DEF Inv, ReceiptProvesEffect, AcknowledgedIffReceipt
<1>9. OneOwner' /\ InputIsOwners'
  BY <1>6 DEF Inv, OneOwner, Owning, InputIsOwners, CursorEffects
<1> QED BY <1>3, <1>5, <1>7, <1>8, <1>9 DEF Inv

-----------------------------------------------------------------------------
(* The steps that reach a recipient, and those of the Cursor adapter.      *)

\* A dispatcher that goes on with the same job keeps the types.
LEMMA GotoKeepsTypes ==
  ASSUME ControlType, NEW p \in Workers, NEW step \in Steps, pc[p] # "idle",
         pc' = [pc EXCEPT ![p] = step], UNCHANGED <<job, hand, busy>>,
         effects' \in [Rows -> SUBSET ((0..MaxAttempts) \X Reached)]
  PROVE  ControlType'
  BY DEF ControlType

\* Whatever a process works with are rows of the table.
LEMMA RowsKnown ==
  ASSUME ControlType
  PROVE  /\ \A q \in Workers : pc[q] # "idle" => job[q].row \in Rows
         /\ \A r \in Readers : \A i \in hand[r] : i \in Items /\ i.row \in Rows
<1>1. ASSUME NEW r \in Readers, NEW i \in hand[r] PROVE i \in Items /\ i.row \in Rows
  BY <1>1 DEF ControlType, Items
<1> QED BY <1>1 DEF ControlType

\* One more effect of a row makes no one's belief false.
LEMMA MoreEffects ==
  ASSUME Inv, NEW o \in Rows, NEW x \in (0..MaxAttempts) \X Reached,
         effects' = [effects EXCEPT ![o] = effects[o] \cup {x}]
  PROVE  /\ effects' \in [Rows -> SUBSET ((0..MaxAttempts) \X Reached)]
         /\ x \in effects'[o]
         /\ \A y \in Rows : effects[y] \subseteq effects'[y]
         /\ \A y \in Rows : y # o => effects'[y] = effects[y]
         /\ \A z \in effects'[o] : z \in effects[o] \/ z = x
  BY DEF Inv, ControlType


\* Push: the watcher or the terminal got the message.
LEMMA PushKeeps ==
  ASSUME Inv, NEW p \in Workers, Push(p)
  PROVE  Inv'
<1> DEFINE o == job[p].row
           x == <<job[p].attempt, job[p].channel>>
<1>1. TablesInv'
  BY TablesUnchanged DEF Inv, Push
<1>2. o \in Rows /\ job[p].attempt \in 0..MaxAttempts /\ job[p].channel \in {"watcher_event", "direct_prompt"}
  BY DEF Push, Plain, Inv, ControlType
<1>3. /\ pc' = [pc EXCEPT ![p] = "pushed"]
      /\ pc \in [Workers -> Steps]
      /\ effects' = [effects EXCEPT ![o] = effects[o] \cup {x}]
      /\ UNCHANGED <<job, hand, busy, steering, receipt>>
  BY DEF Inv, ControlType, Push, Reaches, Goto, tables
<1>4. effects \in [Rows -> SUBSET ((0..MaxAttempts) \X Reached)]
  BY DEF Inv, ControlType
<1>5. x \in (0..MaxAttempts) \X Reached
  BY <1>2 DEF Reached, EffectKinds
<1>7. /\ effects' \in [Rows -> SUBSET ((0..MaxAttempts) \X Reached)]
      /\ x \in effects'[o]
      /\ \A y \in Rows : effects[y] \subseteq effects'[y]
  BY <1>2, <1>3, <1>5, MoreEffects
<1>6. ControlType'
  BY <1>3, <1>7, GotoKeepsTypes DEF Inv, Push, Steps
<1>8. ChannelKnown'
  BY <1>2, <1>3 DEF Inv, ChannelKnown, Sending, Steering, Transports
<1>9. Evidence'
  BY <1>3, <1>7, RowsKnown DEF Inv, Evidence
<1>10. ReceiptProvesEffect' /\ AcknowledgedIffReceipt'
  BY <1>3, <1>7 DEF Inv, ReceiptProvesEffect, AcknowledgedIffReceipt
<1>11. OneOwner'
  BY <1>3 DEF Inv, OneOwner, Owning
<1>12. \A y \in Rows : CursorEffects(y)' = CursorEffects(y)
  BY <1>2, <1>3, <1>4 DEF CursorEffects
<1>13. InputIsOwners'
  BY <1>3, <1>12 DEF Inv, InputIsOwners, ControlType
<1> QED BY <1>1, <1>6, <1>8, <1>9, <1>10, <1>11, <1>13 DEF Inv

\* A terminal command of the owner of a Cursor intent.
LEMMA CommandKeeps ==
  ASSUME Inv, NEW p \in Workers, NEW e \in {"cursor_text", "cursor_steering"},
         NEW step \in {"typed", "posted"}, pc[p] \in {"intended", "texted"},
         step = "typed" => pc[p] = "intended",
         step = "posted" <=> e = "cursor_steering",
         Command(p, e, step)
  PROVE  Inv'
<1> DEFINE o == job[p].row
           x == <<job[p].attempt, e>>
<1>1. TablesInv'
  BY TablesUnchanged DEF Inv, Command
<1>2. o \in Rows /\ job[p].attempt \in 0..MaxAttempts /\ job[p].channel = "cursor_steering"
  BY DEF Inv, ControlType, ChannelKnown, Steering
<1>3. effects \in [Rows -> SUBSET ((0..MaxAttempts) \X Reached)] /\ pc \in [Workers -> Steps]
  BY DEF Inv, ControlType
<1>4. PICK s \in {step, "ambiguous"} :
        /\ pc' = [pc EXCEPT ![p] = s]
        /\ \/ effects' = [effects EXCEPT ![o] = effects[o] \cup {x}]
           \/ effects' = effects /\ s = "ambiguous"
  BY DEF Command, Reaches, Goto
<1>5. UNCHANGED <<job, hand, busy, steering, receipt>>
  BY DEF Command, tables
<1>6. x \in (0..MaxAttempts) \X Reached
  BY <1>2 DEF Reached, EffectKinds
<1>7. /\ effects' \in [Rows -> SUBSET ((0..MaxAttempts) \X Reached)]
      /\ \A y \in Rows : effects[y] \subseteq effects'[y]
      /\ \A y \in Rows : y # o => effects'[y] = effects[y]
      /\ s # "ambiguous" => x \in effects'[o]
      /\ \A z \in effects'[o] : z \in effects[o] \/ z = x
  BY <1>2, <1>3, <1>4, <1>6, MoreEffects
<1>8. ControlType'
  BY <1>4, <1>5, <1>7, GotoKeepsTypes DEF Inv, Steps
<1>9. ChannelKnown'
  BY <1>2, <1>3, <1>4, <1>5 DEF Inv, ChannelKnown, Sending, Steering, Transports
<1>10. Evidence'
  BY <1>2, <1>3, <1>4, <1>5, <1>7, RowsKnown DEF Inv, Evidence
<1>11. ReceiptProvesEffect' /\ AcknowledgedIffReceipt'
  BY <1>5, <1>7 DEF Inv, ReceiptProvesEffect, AcknowledgedIffReceipt
<1>12. OneOwner'
  BY <1>3, <1>4, <1>5 DEF Inv, OneOwner, Owning
<1>13. steering[o].attempt = job[p].attempt /\ steering[o].state \in {"intent_recorded", "text_sent"}
  BY DEF Inv, OneOwner, Owning
<1>14. /\ \A y \in Rows : y # o => CursorEffects(y)' = CursorEffects(y)
       /\ \A z \in CursorEffects(o)' : z \in CursorEffects(o) \/ z = x
  BY <1>2, <1>5, <1>7 DEF CursorEffects
<1>15. \A q \in Workers : pc'[q] = "intended" => q # p /\ pc[q] = "intended" /\ job[q].row # o
  BY <1>3, <1>4 DEF Inv, OneOwner, Owning
<1>16. InputIsOwners'
  <2>1. \A y \in Rows : \A z \in CursorEffects(y)' : z[1] = steering'[y].attempt
    BY <1>2, <1>5, <1>13, <1>14 DEF Inv, InputIsOwners
  <2>2. \A y \in Rows : steering'[y].state \in {"none", "refused_pre_effect"} => CursorEffects(y)' = {}
    BY <1>5, <1>13, <1>14 DEF Inv, InputIsOwners
  <2>3. \A q \in Workers : pc'[q] = "intended" => CursorEffects(job[q].row)' = {}
    BY <1>5, <1>14, <1>15, RowsKnown DEF Inv, InputIsOwners
  <2> QED BY <2>1, <2>2, <2>3 DEF InputIsOwners
<1> QED BY <1>1, <1>8, <1>9, <1>10, <1>11, <1>12, <1>16 DEF Inv

\* begin_cursor_steering: its dispatcher becomes the owner of the row.
LEMMA CursorBeginKeeps ==
  ASSUME Inv, NEW p \in Workers, NEW working \in BOOLEAN, CursorBegin(p, working)
  PROVE  Inv'
<1> DEFINE o == job[p].row
           a == job[p].attempt
<1>1. o \in Rows /\ a \in 0..MaxAttempts /\ job[p].channel = "cursor_steering"
  BY DEF Inv, ControlType, ChannelKnown, Steering, CursorBegin
<1>2. TablesInv'
  BY <1>1, BeginSteeringKeeps DEF Inv, CursorBegin
<1>3. /\ pc \in [Workers -> Steps]
      /\ pc' = [pc EXCEPT ![p] = "intended"]
      /\ UNCHANGED <<job, hand, busy, effects, receipt>>
  BY DEF Inv, ControlType, CursorBegin, BeginSteering, Goto
<1>4. /\ steering[o].state = "none"
      /\ steering'[o].state = "intent_recorded"
      /\ steering'[o].attempt = a
      /\ \A y \in Rows : y # o => steering'[y] = steering[y]
  BY <1>1 DEF Inv, TablesInv, TablesType, CursorBegin, BeginSteering
<1>5. ControlType'
  BY <1>3, GotoKeepsTypes DEF Inv, ControlType, Steps, CursorBegin
<1>6. ChannelKnown' /\ Evidence'
  BY <1>1, <1>3, <1>4 DEF Inv, ChannelKnown, Sending, Steering, Transports, Evidence
<1>7. ReceiptProvesEffect' /\ AcknowledgedIffReceipt'
  BY <1>3, <1>4 DEF Inv, ReceiptProvesEffect, AcknowledgedIffReceipt
<1>8. \A q \in Workers : pc[q] \in Owning => job[q].row # o
  BY <1>4 DEF Inv, OneOwner, Owning
<1>9. OneOwner'
  BY <1>3, <1>4, <1>8 DEF Inv, OneOwner, Owning, ControlType
<1>10. CursorEffects(o) = {}
  BY <1>1, <1>4 DEF Inv, InputIsOwners
<1>11. InputIsOwners'
  BY <1>3, <1>4, <1>8, <1>10 DEF Inv, InputIsOwners, CursorEffects, ControlType
<1> QED BY <1>2, <1>5, <1>6, <1>7, <1>9, <1>11 DEF Inv

\* record_cursor_steering_phase by the owner.
LEMMA RecordKeeps ==
  ASSUME Inv, NEW p \in Workers, NEW s \in SteeringStates, NEW step \in Steps,
         pc[p] \in Owning,
         \/ pc[p] = "typed" /\ s = "text_sent" /\ step = "texted"
         \/ pc[p] = "intended" /\ s = "refused_pre_effect" /\ step = "unavailable"
         \/ s = "refused_later" /\ step = "ambiguous"
         \/ pc[p] = "posted" /\ s = "effect_applied" /\ step = "receipted",
         RecordPhase(job[p].row, s), Goto(p, step),
         UNCHANGED <<job, hand, busy, effects>>
  PROVE  Inv'
<1> DEFINE o == job[p].row
<1>1. o \in Rows /\ job[p].attempt \in 0..MaxAttempts /\ job[p].channel = "cursor_steering"
  BY DEF Inv, ControlType, ChannelKnown, Steering, Owning
<1>2. TablesInv'
  BY <1>1, RecordPhaseKeeps DEF Inv
<1>3. /\ pc \in [Workers -> Steps]
      /\ pc' = [pc EXCEPT ![p] = step]
      /\ receipt' = receipt
  BY DEF Inv, ControlType, RecordPhase, Goto
<1>4. /\ steering[o].attempt = job[p].attempt
      /\ steering[o].state \in {"intent_recorded", "text_sent"}
      /\ steering'[o].state = s
      /\ steering'[o].attempt = job[p].attempt
      /\ \A y \in Rows : y # o => steering'[y] = steering[y]
  BY <1>1 DEF Inv, TablesInv, TablesType, RecordPhase, OneOwner, Owning
<1>5. ControlType'
  BY <1>3, GotoKeepsTypes DEF Inv, ControlType, Owning
<1>6. ChannelKnown'
  BY <1>1, <1>3 DEF Inv, ChannelKnown, Sending, Steering, Transports
<1>7. Evidence'
  BY <1>1, <1>3, <1>4 DEF Inv, Evidence
<1>8. ReceiptProvesEffect' /\ AcknowledgedIffReceipt'
  BY <1>3, <1>4 DEF Inv, ReceiptProvesEffect, AcknowledgedIffReceipt
<1>9. \A q \in Workers : q # p /\ pc[q] \in Owning => job[q].row # o
  BY DEF Inv, OneOwner
<1>10. OneOwner'
  BY <1>3, <1>4, <1>9 DEF Inv, OneOwner, Owning, ControlType
<1>11. s = "refused_pre_effect" => CursorEffects(o) = {}
  BY <1>1 DEF Inv, InputIsOwners
<1>12. \A y \in Rows : steering'[y].attempt = steering[y].attempt
  BY <1>4
<1>13. InputIsOwners'
  BY <1>3, <1>4, <1>9, <1>11, <1>12 DEF Inv, InputIsOwners, CursorEffects, ControlType
<1> QED BY <1>2, <1>5, <1>6, <1>7, <1>8, <1>10, <1>13 DEF Inv

-----------------------------------------------------------------------------
(* How a dispatch ends, and the recipient.                                 *)

\* acknowledge_outbox leaves the intents in progress alone: it changes only
\* records it found applied.
LEMMA AcknowledgedSteering ==
  ASSUME Inv, NEW S \in SUBSET Rows, NEW k \in EffectKinds,
         \A o \in S : k = "cursor_steering" => steering[o].state \in {"effect_applied", "acknowledged"},
         AcknowledgeRows(S, k)
  PROVE  \A o \in Rows :
           /\ steering'[o].attempt = steering[o].attempt
           /\ IF o \in S /\ k = "cursor_steering"
                THEN steering[o].state \in {"effect_applied", "acknowledged"} /\ steering'[o].state = "acknowledged"
                ELSE steering'[o] = steering[o]
<1> SUFFICES ASSUME NEW o \in Rows
    PROVE  /\ steering'[o].attempt = steering[o].attempt
           /\ IF o \in S /\ k = "cursor_steering"
                THEN steering[o].state \in {"effect_applied", "acknowledged"} /\ steering'[o].state = "acknowledged"
                ELSE steering'[o] = steering[o]
  OBVIOUS
<1>1. steering[o] \in [state : SteeringStates, attempt : 0..MaxAttempts, working : BOOLEAN]
  BY DEF Inv, TablesInv, TablesType
<1>2. /\ [steering[o] EXCEPT !.state = "acknowledged"].state = "acknowledged"
      /\ [steering[o] EXCEPT !.state = "acknowledged"].attempt = steering[o].attempt
  BY <1>1
<1>3. steering'[o] = IF o \in S /\ k = "cursor_steering"
                     THEN [steering[o] EXCEPT !.state = "acknowledged"]
                     ELSE steering[o]
  BY Zenon DEF AcknowledgeRows, MarkAcknowledged
<1> QED BY <1>2, <1>3

\* What an acknowledgement keeps, with the steps of its process apart.
LEMMA AcknowledgeKeepsBeliefs ==
  ASSUME Inv, NEW S \in SUBSET Rows, NEW k \in EffectKinds,
         \A o \in S : \/ receipt[o] = k
                      \/ receipt[o] = "none" /\ \E a \in 0..MaxAttempts : <<a, k>> \in effects[o],
         \A o \in S : k = "cursor_steering" => steering[o].state \in {"effect_applied", "acknowledged"},
         AcknowledgeRows(S, k), effects' = effects
  PROVE  TablesInv' /\ ReceiptProvesEffect' /\ AcknowledgedIffReceipt'
<1>1. TablesInv'
  BY AcknowledgeRowsKeeps DEF Inv
<1>2. \A o \in Rows : receipt'[o] = IF o \in S THEN k ELSE receipt[o]
  BY DEF AcknowledgeRows
<1>3. ReceiptProvesEffect'
  BY <1>2 DEF Inv, ReceiptProvesEffect
<1>4. AcknowledgedIffReceipt'
  BY <1>2, AcknowledgedSteering DEF Inv, AcknowledgedIffReceipt
<1> QED BY <1>1, <1>3, <1>4

LEMMA AcknowledgeKeeps ==
  ASSUME Inv, NEW p \in Workers, Acknowledge(p)
  PROVE  Inv'
<1> DEFINE o == job[p].row
           k == job[p].channel
<1>1. /\ o \in Rows /\ k \in Transports /\ k \in EffectKinds
      /\ \E a \in 0..MaxAttempts : <<a, k>> \in effects[o]
  BY DEF Acknowledge, Inv, ControlType, ChannelKnown, Sending, Transports, EffectKinds, Evidence
<1>2. receipt[o] \in {k, "none"} /\ SteeringProves(o, k, {"effect_applied", "acknowledged"})
  BY DEF Acknowledge, AcknowledgesAgain, AcknowledgesFirst, SteeringProves
<1>3. AcknowledgeRows({o}, k) /\ Finish(p) /\ UNCHANGED <<hand, effects>>
  BY DEF Acknowledge
<1>4. TablesInv' /\ ReceiptProvesEffect' /\ AcknowledgedIffReceipt'
  BY <1>1, <1>2, <1>3, AcknowledgeKeepsBeliefs DEF SteeringProves
<1>5. \A y \in Rows :
        /\ steering'[y].attempt = steering[y].attempt
        /\ \/ steering'[y] = steering[y]
           \/ /\ steering[y].state \in {"effect_applied", "acknowledged"}
              /\ steering'[y].state = "acknowledged"
  BY <1>1, <1>2, <1>3, AcknowledgedSteering DEF SteeringProves
<1>6. busy' \in BOOLEAN
  BY DEF Acknowledge, MarkBusy, Inv, ControlType
<1>7. ControlType'
  BY <1>3, <1>6, OutboxAssumption DEF OutboxAssumption, Inv, ControlType, Finish, Steps, NoJob
<1>8. /\ pc' = [pc EXCEPT ![p] = "idle"]
      /\ pc \in [Workers -> Steps]
      /\ \A q \in Workers : q # p => job'[q] = job[q]
  BY <1>3 DEF Inv, ControlType, Finish
<1>9. ChannelKnown'
  BY <1>8 DEF Inv, ChannelKnown, Sending, Steering
<1>10. Evidence'
  BY <1>3, <1>5, <1>8 DEF Inv, Evidence
<1>11. \A q \in Workers : pc'[q] \in Owning => q # p /\ steering'[job[q].row] = steering[job[q].row]
  BY <1>5, <1>8, RowsKnown DEF Inv, OneOwner, Owning
<1>12. OneOwner'
  BY <1>8, <1>11 DEF Inv, OneOwner, Owning
<1>13. InputIsOwners'
  BY <1>3, <1>5, <1>8 DEF Inv, InputIsOwners, CursorEffects
<1> QED BY <1>4, <1>7, <1>9, <1>10, <1>12, <1>13 DEF Inv

\* acknowledge_inbox of everything an inbox read returned.
LEMMA AcknowledgeInboxKeeps ==
  ASSUME Inv, NEW r \in Readers, AcknowledgeInbox(r)
  PROVE  Inv'
<1> DEFINE S == {i.row : i \in hand[r]}
           k == "inbox_read"
<1>1. /\ S \in SUBSET Rows
      /\ k \in EffectKinds
      /\ \A i \in hand[r] : i.attempt \in 0..MaxAttempts
  BY RowsKnown DEF Inv, EffectKinds, Items
<1>2. AcknowledgeRows(S, k) /\ hand' = [hand EXCEPT ![r] = {}] /\ UNCHANGED <<pc, job, busy, effects>>
  BY DEF AcknowledgeInbox
<1>3. ASSUME NEW o \in S
      PROVE  \/ receipt[o] = k
             \/ receipt[o] = "none" /\ \E a \in 0..MaxAttempts : <<a, k>> \in effects[o]
  <2>1. PICK i \in hand[r] : o = i.row
    OBVIOUS
  <2>2. receipt[o] \in {k, "none"}
    BY <2>1 DEF AcknowledgeInbox, Acceptable, AcknowledgesAgain, AcknowledgesFirst
  <2>3. <<i.attempt, k>> \in effects[o]
    BY <2>1 DEF Inv, Evidence
  <2> QED BY <1>1, <2>1, <2>2, <2>3
<1>4. TablesInv' /\ ReceiptProvesEffect' /\ AcknowledgedIffReceipt'
  BY <1>1, <1>2, <1>3, AcknowledgeKeepsBeliefs
<1>5. steering' = steering
  BY <1>1, <1>2, Zenon DEF AcknowledgeRows, MarkAcknowledged, Inv, TablesInv, TablesType
<1>6. ControlType' /\ ChannelKnown'
  BY <1>2 DEF Inv, ControlType, ChannelKnown
<1>7. Evidence'
  BY <1>2, <1>5 DEF Inv, Evidence, ControlType
<1>8. OneOwner' /\ InputIsOwners'
  BY <1>2, <1>5 DEF Inv, OneOwner, InputIsOwners, CursorEffects
<1> QED BY <1>4, <1>6, <1>7, <1>8 DEF Inv

LEMMA DropHandKeeps ==
  ASSUME Inv, NEW r \in Readers, DropHand(r)
  PROVE  Inv'
<1>1. /\ hand' = [hand EXCEPT ![r] = {}]
      /\ UNCHANGED tables
      /\ UNCHANGED <<pc, job, busy, effects, steering, receipt>>
  BY DEF DropHand, tables
<1>2. TablesInv'
  BY <1>1, TablesUnchanged DEF Inv
<1>3. ControlType' /\ ChannelKnown' /\ Evidence'
  BY <1>1 DEF Inv, ControlType, ChannelKnown, Evidence
<1>4. ReceiptProvesEffect' /\ AcknowledgedIffReceipt' /\ OneOwner' /\ InputIsOwners'
  BY <1>1 DEF Inv, ReceiptProvesEffect, AcknowledgedIffReceipt, OneOwner, InputIsOwners, CursorEffects
<1> QED BY <1>2, <1>3, <1>4 DEF Inv

\* A read marks what it returns as read, in the transaction that claims it.
LEMMA ReadInboxKeeps ==
  ASSUME Inv, NEW r \in Readers, ReadInbox(r)
  PROVE  Inv'
<1> DEFINE due == {o \in Inbox : Dispatchable(o) /\ tries[o] < MaxAttempts}
           item(o) == [row |-> o, fence |-> NextFence(o), attempt |-> tries[o] + 1]
<1>1. due \in SUBSET Rows /\ InboxHolder \in Holders
  BY DeliveryAssumption DEF DeliveryAssumption
<1>2. /\ ClaimRows(due, InboxHolder)
      /\ hand' = [hand EXCEPT ![r] = {item(o) : o \in due}]
      /\ effects' = [o \in Rows |-> IF o \in due
                                    THEN effects[o] \cup {<<tries[o] + 1, "inbox_read">>}
                                    ELSE effects[o]]
      /\ busy' = TRUE
      /\ UNCHANGED <<pc, job, steering, receipt>>
  BY DEF ReadInbox, ClaimRows
<1>3. TablesInv'
  BY <1>1, <1>2, ClaimRowsKeeps DEF Inv
<1>4. \A o \in due : NextFence(o) \in Nat /\ tries[o] + 1 \in 0..MaxAttempts
  BY <1>1, OutboxAssumption DEF Inv, TablesInv, TablesType, NextFence, OutboxAssumption
<1>5. \A o \in due : item(o) \in Items /\ <<tries[o] + 1, "inbox_read">> \in (0..MaxAttempts) \X Reached
  BY <1>1, <1>4 DEF Items, Reached, EffectKinds
<1>6. effects' \in [Rows -> SUBSET ((0..MaxAttempts) \X Reached)]
  <2>1. \A o \in Rows : effects[o] \in SUBSET ((0..MaxAttempts) \X Reached)
    BY DEF Inv, ControlType
  <2>2. \A o \in due : effects[o] \cup {<<tries[o] + 1, "inbox_read">>} \in SUBSET ((0..MaxAttempts) \X Reached)
    BY <1>1, <1>5, <2>1
  <2> QED BY <1>2, <2>1, <2>2
<1>7. hand' \in [Readers -> SUBSET Items]
  <2>1. {item(o) : o \in due} \in SUBSET Items
    BY <1>5
  <2>2. hand \in [Readers -> SUBSET Items]
    BY DEF Inv, ControlType
  <2> QED BY <1>2, <2>1, <2>2, Zenon
<1>8. ControlType' /\ ChannelKnown'
  BY <1>2, <1>6, <1>7 DEF Inv, ControlType, ChannelKnown
<1>9. /\ \A y \in Rows : effects[y] \subseteq effects'[y]
      /\ \A o \in due : <<tries[o] + 1, "inbox_read">> \in effects'[o]
      /\ \A y \in Rows : \A z \in effects'[y] : z \in effects[y] \/ z[2] = "inbox_read"
  BY <1>1, <1>2
<1>10. Evidence'
  <2>1. ASSUME NEW q \in Readers, NEW i \in hand'[q]
        PROVE  <<i.attempt, "inbox_read">> \in effects'[i.row]
    <3>1. CASE q = r
      <4>1. PICK o \in due : i = item(o)
        BY <1>2, <2>1, <3>1 DEF Inv, ControlType
      <4> QED BY <1>9, <4>1
    <3>2. CASE q # r
      BY <1>2, <1>9, <2>1, <3>2, RowsKnown DEF Inv, ControlType, Evidence
    <3> QED BY <3>1, <3>2
  <2>2. \A p \in Workers :
          /\ pc[p] = "pushed" => <<job[p].attempt, job[p].channel>> \in effects'[job[p].row]
          /\ pc[p] = "posted" => <<job[p].attempt, "cursor_steering">> \in effects'[job[p].row]
          /\ pc[p] = "receipted" => \E a \in 0..MaxAttempts : <<a, job[p].channel>> \in effects'[job[p].row]
    BY <1>9, RowsKnown DEF Inv, Evidence
  <2> QED BY <1>2, <1>9, <2>1, <2>2 DEF Inv, Evidence
<1>11. ReceiptProvesEffect' /\ AcknowledgedIffReceipt'
  BY <1>2, <1>9 DEF Inv, ReceiptProvesEffect, AcknowledgedIffReceipt
<1>12. OneOwner'
  BY <1>2 DEF Inv, OneOwner
<1>13. \A y \in Rows : CursorEffects(y)' = CursorEffects(y)
  BY <1>9 DEF CursorEffects
<1>14. InputIsOwners'
  BY <1>2, <1>13, RowsKnown DEF Inv, InputIsOwners
<1> QED BY <1>3, <1>8, <1>10, <1>11, <1>12, <1>14 DEF Inv

\* The recipient reports what it read, or the launch what it handed over.
LEMMA ReportKeeps ==
  ASSUME Inv, NEW o \in Rows, NEW k \in {"recovery_read", "assignment_context"},
         receipt[o] = "none", TablesInv', receipt' = [receipt EXCEPT ![o] = k],
         effects' = [effects EXCEPT ![o] = effects[o] \cup {<<tries[o], k>>}],
         UNCHANGED <<pc, job, hand, busy, steering>>
  PROVE  Inv'
<1> DEFINE x == <<tries[o], k>>
<1>1. tries[o] \in 0..MaxAttempts /\ receipt \in [Rows -> EffectKinds \cup {"none"}]
  BY DEF Inv, TablesInv, TablesType
<1>2. x \in (0..MaxAttempts) \X Reached
  BY <1>1 DEF Reached, EffectKinds
<1>3. /\ effects' \in [Rows -> SUBSET ((0..MaxAttempts) \X Reached)]
      /\ x \in effects'[o]
      /\ \A y \in Rows : effects[y] \subseteq effects'[y]
      /\ \A y \in Rows : y # o => effects'[y] = effects[y]
      /\ \A z \in effects'[o] : z \in effects[o] \/ z = x
  BY <1>2, MoreEffects
<1>4. ControlType' /\ ChannelKnown'
  BY <1>3 DEF Inv, ControlType, ChannelKnown
<1>5. Evidence'
  BY <1>3, RowsKnown DEF Inv, Evidence
<1>6. ReceiptProvesEffect' /\ AcknowledgedIffReceipt'
  BY <1>1, <1>3 DEF Inv, ReceiptProvesEffect, AcknowledgedIffReceipt
<1>7. OneOwner'
  BY DEF Inv, OneOwner
<1>8. \A y \in Rows : CursorEffects(y)' = CursorEffects(y)
  BY <1>3 DEF CursorEffects
<1>9. InputIsOwners'
  BY <1>8, RowsKnown DEF Inv, InputIsOwners
<1> QED BY <1>4, <1>5, <1>6, <1>7, <1>9 DEF Inv

-----------------------------------------------------------------------------
(* The theorems.                                                           *)

LEMMA Initially == Init => Inv
<1> SUFFICES ASSUME Init PROVE Inv
  OBVIOUS
<1>1. TablesInv
  BY TablesInitially DEF Init
<1>2. ControlType
  <2>1. pc \in [Workers -> Steps] /\ \A p \in Workers : pc[p] = "idle"
    BY DEF Init, Steps
  <2>2. NoJob \in [row : Rows \cup {NoRow}, fence : Nat, attempt : 0..MaxAttempts,
                   channel : EffectKinds \cup {"none"}]
    BY OutboxAssumption DEF OutboxAssumption, NoJob
  <2>3. hand \in [Readers -> SUBSET Items] /\ busy \in BOOLEAN
    BY DEF Init
  <2>4. effects \in [Rows -> SUBSET ((0..MaxAttempts) \X Reached)]
    BY DEF Init
  <2> QED BY <2>1, <2>2, <2>3, <2>4 DEF Init, ControlType
<1>3. ChannelKnown /\ Evidence /\ OneOwner
  BY DEF Init, TablesInit, NoSteering, ChannelKnown, Sending, Steering, Evidence, OneOwner, Owning
<1>4. ReceiptProvesEffect /\ AcknowledgedIffReceipt /\ InputIsOwners
  BY DEF Init, TablesInit, NoSteering, ReceiptProvesEffect, AcknowledgedIffReceipt, InputIsOwners, CursorEffects
<1> QED BY <1>1, <1>2, <1>3, <1>4 DEF Inv

\* One step of a running dispatcher.
LEMMA WorkerKeeps ==
  ASSUME Inv, NEW p \in Workers, WorkerStep(p)
  PROVE  Inv'
<1> DEFINE o == job[p].row
<1>0. pc[p] # "idle" => o \in Rows
  BY RowsKnown DEF Inv
<1>1. CASE ClaimOutbox(p)
  BY <1>1, ClaimOutboxKeeps
<1>2. CASE ClaimDelivered(p)
  BY <1>0, <1>2, ReconcileOnClaimKeeps, TablesUnchanged, FinishKeeps DEF ClaimDelivered, Inv, ControlType, tables
<1>3. CASE ClaimInterrupted(p)
  BY <1>0, <1>3, SuspendKeeps, FinishKeeps DEF ClaimInterrupted, Interrupted, Suspend, Inv, ControlType
<1>4. CASE ClaimRefused(p)
  BY <1>4, TablesUnchanged, FinishKeeps DEF ClaimRefused, Inv, ControlType, tables
<1>5. CASE ResolveTarget(p)
  BY <1>5, ResolveTargetKeeps
<1>6. CASE NoTarget(p)
  BY <1>6, DecidesKeeps DEF NoTarget, Decides
<1>7. CASE Push(p)
  BY <1>7, PushKeeps
<1>8. CASE PushNothing(p)
  BY <1>8, DecidesKeeps DEF PushNothing
<1>9. CASE PushReturns(p)
  <2>1. job[p].channel \in Transports
    BY <1>9 DEF PushReturns, Inv, ChannelKnown, Sending
  <2>2. \E a \in 0..MaxAttempts : <<a, job[p].channel>> \in effects[o]
    BY <1>9 DEF PushReturns, Inv, Evidence, ControlType
  <2> QED BY <1>9, <2>1, <2>2, DecidesKeeps DEF PushReturns
<1>10. ASSUME NEW state, state = steering[o].state, pc[p] # "idle",
              job[p].channel = "cursor_steering", Replays(p, state)
       PROVE  Inv'
  <2>1. state \in {"effect_applied", "acknowledged"} =>
          \E a \in 0..MaxAttempts : <<a, job[p].channel>> \in effects[o]
    BY <1>0, <1>10 DEF Inv, Evidence, TablesInv, TablesType
  <2> QED BY <1>10, <2>1, DecidesKeeps DEF Replays, Transports
<1>11. CASE CursorLookup(p)
  BY <1>10, <1>11, DecidesKeeps DEF CursorLookup, Transports
<1>12. CASE CursorFenced(p)
  <2>1. job[p].channel = "cursor_steering"
    BY <1>12 DEF CursorFenced, Inv, ChannelKnown, Steering
  <2> QED BY <1>10, <1>12, <2>1, DecidesKeeps DEF CursorFenced
<1>13. CASE CursorChanged(p)
  <2>1. CASE Decides(p, "unavailable")
    BY <1>13, <2>1, DecidesKeeps DEF CursorChanged
  <2>2. CASE Refuse(p, "refused_pre_effect", "unavailable")
    BY <1>13, <2>2, RecordKeeps DEF CursorChanged, Refuse, Owning, SteeringStates, Steps
  <2> QED BY <1>13, <2>1, <2>2 DEF CursorChanged
<1>14. CASE CursorInput(p)
  BY <1>14, CommandKeeps DEF CursorInput
<1>15. CASE \E working \in BOOLEAN : CursorBegin(p, working)
  BY <1>15, CursorBeginKeeps
<1>16. CASE CursorRecordText(p)
  BY <1>16, RecordKeeps DEF CursorRecordText, Owning, SteeringStates, Steps
<1>17. CASE CursorInterrupt(p)
  <2>1. CASE Decides(p, "unavailable")
    BY <1>17, <2>1, DecidesKeeps DEF CursorInterrupt
  <2>2. CASE Refuse(p, "refused_later", "ambiguous")
    BY <1>17, <2>2, RecordKeeps DEF CursorInterrupt, Refuse, Owning, SteeringStates, Steps
  <2>3. CASE Command(p, "cursor_steering", "posted")
    BY <1>17, <2>3, CommandKeeps DEF CursorInterrupt
  <2> QED BY <1>17, <2>1, <2>2, <2>3 DEF CursorInterrupt
<1>18. CASE CursorConfirm(p)
  <2>1. CASE Decides(p, "unavailable")
    BY <1>18, <2>1, DecidesKeeps DEF CursorConfirm
  <2>2. CASE Refuse(p, "refused_later", "ambiguous")
    BY <1>18, <2>2, RecordKeeps DEF CursorConfirm, Refuse, Owning, SteeringStates, Steps
  <2>3. CASE Refuse(p, "effect_applied", "receipted")
    BY <1>18, <2>3, RecordKeeps DEF CursorConfirm, Refuse, Owning, SteeringStates, Steps
  <2> QED BY <1>18, <2>1, <2>2, <2>3 DEF CursorConfirm
<1>19. CASE Acknowledge(p)
  BY <1>19, AcknowledgeKeeps
<1>20. CASE Await(p)
  BY <1>0, <1>20, SuspendKeeps, FinishKeeps
     DEF Await, Suspend, Holds, Inv, ControlType, TablesInv, LeaseIffInFlight
<1>21. CASE Fail(p)
  BY <1>0, <1>21, FailRowKeeps, FinishKeeps
     DEF Fail, FailRow, Holds, Inv, ControlType, TablesInv, LeaseIffInFlight
<1>22. CASE Fenced(p)
  BY <1>22, TablesUnchanged, FinishKeeps DEF Fenced, Inv, ControlType, tables
<1> QED BY <1>1, <1>2, <1>3, <1>4, <1>5, <1>6, <1>7, <1>8, <1>9, <1>11, <1>12, <1>13, <1>14, <1>15,
           <1>16, <1>17, <1>18, <1>19, <1>20, <1>21, <1>22 DEF WorkerStep

LEMMA StepKeeps == Inv /\ [Next]_vars => Inv'
<1> SUFFICES ASSUME Inv, [Next]_vars PROVE Inv'
  OBVIOUS
<1>1. ASSUME NEW p \in Workers, NEW o \in Rows, Begin(p, o) PROVE Inv'
  BY <1>1, BeginKeeps
<1>2. ASSUME NEW p \in Workers, WorkerStep(p) PROVE Inv'
  BY <1>2, WorkerKeeps
<1>3. ASSUME NEW p \in Workers, Crash(p) PROVE Inv'
  BY <1>3, TablesUnchanged, FinishKeeps DEF Crash, Inv, ControlType, tables
<1>4. ASSUME NEW r \in Readers, ReadInbox(r) PROVE Inv'
  BY <1>4, ReadInboxKeeps
<1>5. ASSUME NEW r \in Readers, AcknowledgeInbox(r) PROVE Inv'
  BY <1>5, AcknowledgeInboxKeeps
<1>6. ASSUME NEW r \in Readers, DropHand(r) PROVE Inv'
  BY <1>6, DropHandKeeps
<1>7. ASSUME NEW o \in Rows, Silence(o) PROVE Inv'
  BY <1>7, SilenceRowKeeps, OthersKeep DEF Silence, SilenceRow, Inv, ControlType
<1>8. ASSUME NEW o \in Rows, RecoverRead(o) PROVE Inv'
  BY <1>8, RecoverRowKeeps, ReportKeeps DEF RecoverRead, RecoverRow, Inv
<1>9. ASSUME NEW o \in Rows, SettleActivation(o) PROVE Inv'
  BY <1>9, SettleRowKeeps, ReportKeeps DEF SettleActivation, SettleRow, Inv
<1>10. CASE FinishWork
  BY <1>10, TablesUnchanged, OthersKeep DEF FinishWork, Inv, tables
<1>11. CASE Time
  BY <1>11, ExpireLeaseKeeps, BecomeDueKeeps, OthersKeep
     DEF Time, ExpireLease, BecomeDue, Inv, ControlType
<1>12. CASE UNCHANGED vars
  BY <1>12, TablesUnchanged, OthersKeep DEF vars, tables, Inv, ControlType
<1> QED BY <1>1, <1>2, <1>3, <1>4, <1>5, <1>6, <1>7, <1>8, <1>9, <1>10, <1>11, <1>12 DEF Next

LEMMA Invariant == Spec => []Inv
  BY Initially, StepKeeps, PTL DEF Spec

\* Delivery is type correct.
THEOREM Types == Spec => []TypeOK
<1>1. Inv => TypeOK
  BY DEF Inv, TablesInv, ControlType, TypeOK
<1> QED BY <1>1, Invariant, PTL

\* claim, fail, await, acknowledge, policy, recovery and settlement keep the
\* lease table, the receipts and the obligations in step with the row states.
THEOREM TablesAlwaysAgree == Spec => []TablesAgree
<1>1. Inv => TablesAgree
  BY DEF Inv, TablesInv, TablesAgree, ControlType, TypeOK
<1> QED BY <1>1, Invariant, PTL

\* acknowledge_outbox and the two recovery transactions never invent an effect.
THEOREM ReceiptsAreProved == Spec => []ReceiptProvesEffect
<1>1. Inv => ReceiptProvesEffect
  BY DEF Inv
<1> QED BY <1>1, Invariant, PTL

\* cursor_steering_effects tells the truth about the terminal.
THEOREM SteeringRecordsAreTrue == Spec => []SteeringRecordTrue
<1>1. Inv => SteeringRecordTrue
  BY DEF Inv, Evidence, InputIsOwners, CursorEffects, AcknowledgedIffReceipt, SteeringRecordTrue
<1> QED BY <1>1, Invariant, PTL

\* A Cursor session gets the text and the submission of a row at most once,
\* whatever dispatchers, crashes, retries and fences there are.
THEOREM CursorInputAtMostOnce == Spec => []CursorInputOnce
<1>1. ASSUME NEW T, NEW x, T \subseteq {x}
      PROVE  Cardinality(T) <= 1
  <2>1. IsFiniteSet({x}) /\ Cardinality({x}) = 1
    BY FS_Singleton
  <2>2. Cardinality(T) <= Cardinality({x})
    BY <1>1, <2>1, FS_Subset
  <2> QED BY <2>1, <2>2
<1>2. ASSUME Inv, NEW o \in Rows, NEW e \in {"cursor_text", "cursor_steering"}
      PROVE  Cardinality({x \in effects[o] : x[2] = e}) <= 1
  <2>1. effects[o] \in SUBSET ((0..MaxAttempts) \X Reached)
    BY <1>2 DEF Inv, ControlType
  <2>2. {x \in effects[o] : x[2] = e} \subseteq {<<steering[o].attempt, e>>}
    BY <1>2, <2>1 DEF Inv, InputIsOwners, CursorEffects
  <2> QED BY <1>1, <2>2
<1>3. Inv => CursorInputOnce
  BY <1>2 DEF CursorInputOnce
<1> QED BY <1>3, Invariant, PTL

\* A Cursor session is steered at most once per row, and its record is true.
THEOREM CursorIsSteeredOnce == Spec => []CursorSteeredOnce
BY CursorInputAtMostOnce, SteeringRecordsAreTrue, PTL DEF CursorSteeredOnce

-----------------------------------------------------------------------------
(* Delivery implements the receipt contract.                               *)

\* A step that leaves the settlement of every row alone.
Quiet ==
  \A o \in Rows :
    /\ effects[o] \subseteq effects'[o]
    /\ receipt'[o] = receipt[o]
    /\ outbox'[o].state = "cancelled" <=> outbox[o].state = "cancelled"

\* A step that settles rows the contract's way.
Settling ==
  \A o \in Rows :
    \/ /\ effects[o] \subseteq effects'[o]
       /\ Settlement(o)' = Settlement(o)
    \/ /\ effects[o] \subseteq effects'[o]
       /\ Settlement(o) = "open"
       /\ \/ \E x \in effects[o] : Settlement(o)' = x[2]
          \/ \E x \in effects'[o] : Settlement(o)' = x[2] /\ x[2] \in {"recovery_read", "assignment_context"}
    \/ /\ effects'[o] = effects[o]
       /\ Settlement(o) = "open"
       /\ Settlement(o)' = "withdrawn"

LEMMA QuietSettles == ASSUME Quiet PROVE Settling
  BY DEF Quiet, Settling, Settlement

LEMMA ClaimIsQuiet ==
  ASSUME Inv, NEW S \in SUBSET Rows, NEW h, \A o \in S : Dispatchable(o), ClaimRows(S, h),
         \A o \in Rows : effects[o] \subseteq effects'[o]
  PROVE  Quiet
<1>1. TablesType /\ "in_flight" \in OutboxStates
  BY DEF Inv, TablesInv, OutboxStates
<1>2. \A o \in Rows : outbox'[o].state = IF o \in S THEN "in_flight" ELSE outbox[o].state
  BY <1>1, SetStateWrites DEF ClaimRows
<1> QED BY <1>2 DEF Quiet, ClaimRows, Dispatchable

LEMMA SuspendIsQuiet ==
  ASSUME Inv, NEW o \in Rows, outbox[o].state = "in_flight", Suspend(o), effects' = effects
  PROVE  Quiet
<1>1. TablesType /\ "awaiting_receipt" \in OutboxStates
  BY DEF Inv, TablesInv, OutboxStates
<1>2. \A y \in Rows : outbox'[y].state = IF y = o THEN "awaiting_receipt" ELSE outbox[y].state
  BY <1>1, SetStateWrites DEF Suspend
<1> QED BY <1>2 DEF Quiet, Suspend

\* acknowledge_outbox settles the rows that had no receipt yet, by an effect
\* that happened before.
LEMMA AcknowledgeSettles ==
  ASSUME Inv, NEW S \in SUBSET Rows, NEW k \in EffectKinds, effects' = effects,
         \A o \in S : \/ receipt[o] = k
                      \/ /\ receipt[o] = "none"
                         /\ outbox[o].state = "in_flight"
                         /\ \E a \in 0..MaxAttempts : <<a, k>> \in effects[o],
         AcknowledgeRows(S, k)
  PROVE  Settling
<1>1. TablesType /\ "delivered" \in OutboxStates /\ k # "none"
  BY DEF Inv, TablesInv, OutboxStates, EffectKinds
<1>2. \A y \in Rows : outbox'[y].state = IF y \in S THEN "delivered" ELSE outbox[y].state
  BY <1>1, SetStateWrites DEF AcknowledgeRows, ReconcileDelivered
<1>3. \A y \in Rows : receipt'[y] = IF y \in S THEN k ELSE receipt[y]
  BY DEF AcknowledgeRows
<1>4. ASSUME NEW o \in S, receipt[o] = "none"
      PROVE  Settlement(o) = "open" /\ \E x \in effects[o] : Settlement(o)' = x[2]
  BY <1>1, <1>3, <1>4 DEF Settlement
<1>5. ASSUME NEW o \in Rows, o \notin S \/ receipt[o] # "none"
      PROVE  Settlement(o)' = Settlement(o)
  BY <1>1, <1>2, <1>3, <1>5 DEF Settlement
<1> QED BY <1>4, <1>5 DEF Settling

LEMMA WorkerSettles ==
  ASSUME Inv, NEW p \in Workers, WorkerStep(p)
  PROVE  Settling
<1> DEFINE o == job[p].row
<1>0. /\ pc[p] # "idle" => o \in Rows
      /\ effects \in [Rows -> SUBSET ((0..MaxAttempts) \X Reached)]
  BY RowsKnown DEF Inv, ControlType
<1>1. CASE ClaimOutbox(p)
  BY <1>0, <1>1, ClaimIsQuiet, QuietSettles DEF ClaimOutbox
<1>2. CASE ClaimDelivered(p)
  BY <1>0, <1>2, ReconcileOnClaimKeeps, QuietSettles DEF ClaimDelivered, Inv, Quiet, tables
<1>3. CASE ClaimInterrupted(p)
  BY <1>0, <1>3, SuspendIsQuiet, QuietSettles DEF ClaimInterrupted, Interrupted
<1>4. CASE Acknowledge(p)
  <2> DEFINE k == job[p].channel
  <2>1. /\ o \in Rows /\ k \in EffectKinds
        /\ \E a \in 0..MaxAttempts : <<a, k>> \in effects[o]
    BY <1>4 DEF Acknowledge, Inv, ControlType, ChannelKnown, Sending, Transports, EffectKinds, Evidence
  <2>2. \/ receipt[o] = k
        \/ receipt[o] = "none" /\ outbox[o].state = "in_flight"
    BY <1>4, <2>1 DEF Acknowledge, AcknowledgesAgain, AcknowledgesFirst, Holds, Inv, TablesInv, LeaseIffInFlight
  <2> QED BY <1>4, <2>1, <2>2, AcknowledgeSettles DEF Acknowledge
<1>5. CASE Await(p)
  BY <1>0, <1>5, SuspendIsQuiet, QuietSettles DEF Await, Holds, Inv, TablesInv, LeaseIffInFlight
<1>6. CASE Fail(p)
  <2>1. o \in Rows /\ outbox[o].state = "in_flight" /\ FailRow(o) /\ effects' = effects
    BY <1>0, <1>6 DEF Fail, Holds, Inv, TablesInv, LeaseIffInFlight
  <2>2. Quiet
    BY <2>1 DEF Quiet, FailRow, Inv, TablesInv, TablesType
  <2> QED BY <2>2, QuietSettles
<1>7. ASSUME UNCHANGED <<outbox, receipt>>,
             \/ effects' = effects
             \/ \E e \in Reached : Reaches(p, e) /\ pc[p] # "idle"
      PROVE  Settling
  <2>1. \A y \in Rows : effects[y] \subseteq effects'[y]
    BY <1>0, <1>7 DEF Reaches
  <2> QED BY <1>7, <2>1, QuietSettles DEF Quiet
<1>8. CASE Push(p)
  BY <1>7, <1>8 DEF Push, tables, Plain, Reached, EffectKinds
<1>9. CASE CursorInput(p) \/ CursorInterrupt(p)
  BY <1>7, <1>9 DEF CursorInput, CursorInterrupt, Decides, Refuse, RecordPhase, Command, tables, Reached, EffectKinds
<1>10. CASE CursorConfirm(p) \/ CursorChanged(p) \/ CursorRecordText(p)
  BY <1>7, <1>10 DEF CursorConfirm, CursorChanged, CursorRecordText, Decides, Refuse, RecordPhase, tables
<1>11. CASE \E working \in BOOLEAN : CursorBegin(p, working)
  BY <1>7, <1>11 DEF CursorBegin, BeginSteering
<1>12. CASE CursorLookup(p) \/ CursorFenced(p)
  BY <1>7, <1>12 DEF CursorLookup, CursorFenced, Replays, Decides, tables
<1>13. CASE ClaimRefused(p) \/ ResolveTarget(p) \/ NoTarget(p) \/ PushNothing(p) \/ PushReturns(p) \/ Fenced(p)
  BY <1>7, <1>13 DEF ClaimRefused, ResolveTarget, NoTarget, PushNothing, PushReturns, Fenced, Decides, tables
<1> QED BY <1>1, <1>2, <1>3, <1>4, <1>5, <1>6, <1>8, <1>9, <1>10, <1>11, <1>12, <1>13 DEF WorkerStep

LEMMA StepSettles == ASSUME Inv, [Next]_vars PROVE Settling
<1>0. effects \in [Rows -> SUBSET ((0..MaxAttempts) \X Reached)]
  BY DEF Inv, ControlType
<1>1. ASSUME UNCHANGED <<outbox, receipt, effects>> PROVE Settling
  BY <1>1, QuietSettles DEF Quiet
<1>2. ASSUME NEW p \in Workers, NEW o \in Rows, Begin(p, o) PROVE Settling
  BY <1>1, <1>2 DEF Begin, tables
<1>3. ASSUME NEW p \in Workers, WorkerStep(p) PROVE Settling
  BY <1>3, WorkerSettles
<1>4. ASSUME NEW p \in Workers, Crash(p) PROVE Settling
  BY <1>1, <1>4 DEF Crash, tables
<1>5. ASSUME NEW r \in Readers, ReadInbox(r) PROVE Settling
  <2> DEFINE due == {o \in Inbox : Dispatchable(o) /\ tries[o] < MaxAttempts}
  <2>1. due \in SUBSET Rows /\ ClaimRows(due, InboxHolder)
    BY <1>5, DeliveryAssumption DEF ReadInbox, DeliveryAssumption
  <2>2. \A y \in Rows : effects[y] \subseteq effects'[y]
    BY <1>5 DEF ReadInbox
  <2> QED BY <2>1, <2>2, ClaimIsQuiet, QuietSettles
<1>6. ASSUME NEW r \in Readers, AcknowledgeInbox(r) PROVE Settling
  <2> DEFINE S == {i.row : i \in hand[r]}
             k == "inbox_read"
  <2>1. S \in SUBSET Rows /\ k \in EffectKinds /\ \A i \in hand[r] : i.attempt \in 0..MaxAttempts
    BY RowsKnown DEF Inv, EffectKinds, Items
  <2>2. AcknowledgeRows(S, k) /\ effects' = effects
    BY <1>6 DEF AcknowledgeInbox
  <2>3. ASSUME NEW o \in S
        PROVE  \/ receipt[o] = k
               \/ /\ receipt[o] = "none"
                  /\ outbox[o].state = "in_flight"
                  /\ \E a \in 0..MaxAttempts : <<a, k>> \in effects[o]
    <3>1. PICK i \in hand[r] : o = i.row
      OBVIOUS
    <3>2. receipt[o] = k \/ (receipt[o] = "none" /\ outbox[o].state = "in_flight")
      BY <1>6, <2>1, <3>1 DEF AcknowledgeInbox, Acceptable, AcknowledgesAgain, AcknowledgesFirst, Holds,
         Inv, TablesInv, LeaseIffInFlight
    <3>3. <<i.attempt, k>> \in effects[o]
      BY <3>1 DEF Inv, Evidence
    <3> QED BY <2>1, <3>1, <3>2, <3>3
  <2> QED BY <2>1, <2>2, <2>3, AcknowledgeSettles
<1>7. ASSUME NEW r \in Readers, DropHand(r) PROVE Settling
  BY <1>1, <1>7 DEF DropHand, tables
<1>8. ASSUME NEW o \in Rows, Silence(o) PROVE Settling
  <2>1. TablesType /\ "cancelled" \in OutboxStates /\ receipt[o] = "none" /\ outbox[o].state = "pending"
    BY <1>8 DEF Silence, Inv, TablesInv, DeliveredIffReceipt, OutboxStates
  <2>2. \A y \in Rows : outbox'[y].state = IF y = o THEN "cancelled" ELSE outbox[y].state
    BY <1>8, <2>1, SetStateWrites DEF Silence, SilenceRow
  <2> QED BY <1>8, <2>1, <2>2 DEF Silence, SilenceRow, Settling, Settlement
<1>9. ASSUME NEW o \in Rows, NEW k \in {"recovery_read", "assignment_context"},
             receipt[o] = "none", outbox[o].state # "cancelled",
             receipt' = [receipt EXCEPT ![o] = k],
             \A y \in Rows : outbox'[y].state = IF y = o THEN "delivered" ELSE outbox[y].state,
             effects' = [effects EXCEPT ![o] = effects[o] \cup {<<tries[o], k>>}]
      PROVE  Settling
  <2>1. receipt \in [Rows -> EffectKinds \cup {"none"}]
    BY DEF Inv, TablesInv, TablesType
  <2>2. \A y \in Rows : y # o => effects'[y] = effects[y] /\ Settlement(y)' = Settlement(y)
    BY <1>0, <1>9, <2>1 DEF Settlement
  <2>3. Settlement(o) = "open" /\ Settlement(o)' = k
    BY <1>9, <2>1 DEF Settlement
  <2>4. <<tries[o], k>> \in effects'[o] /\ effects[o] \subseteq effects'[o]
    BY <1>0, <1>9
  <2> QED BY <2>2, <2>3, <2>4 DEF Settling
<1>10. TablesType /\ "delivered" \in OutboxStates
  BY DEF Inv, TablesInv, OutboxStates
<1>11. ASSUME NEW o \in Rows, RecoverRead(o) PROVE Settling
  <2>1. \A y \in Rows : outbox'[y].state = IF y = o THEN "delivered" ELSE outbox[y].state
    BY <1>10, <1>11, SetStateWrites DEF RecoverRead, RecoverRow, ReconcileDelivered
  <2> QED BY <1>9, <1>11, <2>1 DEF RecoverRead, RecoverRow
<1>12. ASSUME NEW o \in Rows, SettleActivation(o) PROVE Settling
  <2>1. \A y \in Rows : outbox'[y].state = IF y = o THEN "delivered" ELSE outbox[y].state
    BY <1>10, <1>12, SetStateWrites DEF SettleActivation, SettleRow
  <2> QED BY <1>9, <1>12, <2>1 DEF SettleActivation, SettleRow
<1>13. CASE FinishWork
  BY <1>1, <1>13 DEF FinishWork, tables
<1>14. CASE Time
  <2>1. Quiet
    BY <1>14 DEF Time, ExpireLease, BecomeDue, Quiet, Inv, TablesInv, TablesType
  <2> QED BY <2>1, QuietSettles
<1>15. CASE UNCHANGED vars
  BY <1>1, <1>15 DEF vars, tables
<1> QED BY <1>2, <1>3, <1>4, <1>5, <1>6, <1>7, <1>8, <1>11, <1>12, <1>13, <1>14, <1>15 DEF Next

\* Every delivery of the code is one the contract allows: effects may repeat,
\* a row is settled once, by an effect that happened, and stays settled.
THEOREM DeliveryImplementsContract == Spec => ImplementsContract
<1>1. Init => Contract!Init
  <2> SUFFICES ASSUME Init PROVE Contract!Init
    OBVIOUS
  <2> QED BY DEF Init, TablesInit, Contract!Init, Settlement
<1>2. Inv /\ Inv' /\ [Next]_vars => [Contract!Next]_<<[o \in Rows |-> {x[2] : x \in effects[o]}],
                                                  [o \in Rows |-> Settlement(o)]>>
  <2> SUFFICES ASSUME Inv, Inv', [Next]_vars PROVE Contract!Next
    OBVIOUS
  <2>1. Settling
    BY StepSettles
  <2>2. \A o \in Rows : effects'[o] \in SUBSET ((0..MaxAttempts) \X Reached) /\ effects[o] \in SUBSET ((0..MaxAttempts) \X Reached)
    BY DEF Inv, ControlType
  <2>3. [o \in Rows |-> {x[2] : x \in effects'[o]}] \in [Rows -> SUBSET (Reached \cup {"recovery_read", "assignment_context"})]
    BY <2>2
  <2>4. \A o \in Rows : \A x \in effects[o] : x[2] \in Reached
    BY <2>2
  <2>5. ASSUME NEW o \in Rows
        PROVE  Contract!Arrives(o) \/ Contract!Settles(o) \/ Contract!Withdraws(o)
    BY <2>1, <2>4 DEF Settling, Contract!Arrives, Contract!Settles, Contract!Withdraws
  <2> QED BY <2>3, <2>5 DEF Contract!Next
<1> QED BY <1>1, <1>2, Invariant, PTL DEF Spec, ImplementsContract, Contract!Spec

-----------------------------------------------------------------------------
(* An owner stop has one claimant.  A control row is claimed only while it  *)
(* is pending, and it is pending again only after its claimant reported     *)
(* that nothing was sent, which ends that claimant.  So no second dispatcher *)
(* is ever past its claim on the same row, whatever the fences are.          *)

\* A dispatcher that has claimed its row.
Past(p) == pc[p] \notin {"idle", "cleared"}

Prompts(o) == {x \in effects[o] : x[2] = "direct_prompt"}

OneClaimant ==
  \A p, q \in Workers :
    Past(p) /\ Past(q) /\ job[p].row = job[q].row /\ job[p].row \in Control => p = q

ClaimantIsLatest ==
  \A p \in Workers : Past(p) /\ job[p].row \in Control =>
    job[p].attempt = tries[job[p].row] /\ outbox[job[p].row].state # "pending"

\* The target of a row fixes its transports.
ChannelOfTarget == \A p \in Workers : pc[p] \in Sending => job[p].channel \in Channels[job[p].row]

EffectsOfTarget == \A o \in Control : \A x \in effects[o] : x[2] \in Channels[o] \cup {"cursor_text"}

\* A claimant that may still push, or report that it did not, has not pushed.
PromptedOnce ==
  /\ \A o \in Control : \A x, y \in Prompts(o) : x = y
  /\ \A o \in Control : outbox[o].state = "pending" => Prompts(o) = {}
  /\ \A p \in Workers : job[p].row \in Control /\ pc[p] \in {"leased", "sending", "unavailable"}
       => Prompts(job[p].row) = {}

StopInv == OneClaimant /\ ClaimantIsLatest /\ ChannelOfTarget /\ EffectsOfTarget /\ PromptedOnce

\* A step that claims, fails and sends no control row, and lets no dispatcher
\* go past its claim.
LEMMA ControlUntouched ==
  ASSUME Inv, StopInv,
         \A q \in Workers : pc'[q] \in {"idle", "cleared"} \/ (pc'[q] = pc[q] /\ job'[q] = job[q]),
         \A o \in Control : /\ tries'[o] = tries[o] /\ effects'[o] = effects[o]
                            /\ outbox'[o].state = "pending" => outbox[o].state = "pending"
  PROVE  StopInv'
<1>1. OneClaimant' /\ ClaimantIsLatest'
  BY DEF StopInv, OneClaimant, ClaimantIsLatest, Past
<1>2. ChannelOfTarget' /\ EffectsOfTarget'
  BY DEF StopInv, ChannelOfTarget, EffectsOfTarget, Sending
<1>3. PromptedOnce'
  BY DEF StopInv, PromptedOnce, Prompts
<1> QED BY <1>1, <1>2, <1>3 DEF StopInv

\* A claimant goes on with its job and sends nothing.
LEMMA ClaimantGoesOn ==
  ASSUME Inv, StopInv, NEW p \in Workers, NEW step \in Steps, Past(p), step \notin {"idle", "cleared"},
         pc' = [pc EXCEPT ![p] = step], UNCHANGED <<job, outbox, tries, effects>>,
         step \in Sending => pc[p] \in Sending,
         step \in {"leased", "sending", "unavailable"} /\ job[p].row \in Control =>
           Prompts(job[p].row) = {}
  PROVE  StopInv'
<1>1. pc \in [Workers -> Steps]
  BY DEF Inv, ControlType
<1>2. OneClaimant' /\ ClaimantIsLatest'
  BY <1>1 DEF StopInv, OneClaimant, ClaimantIsLatest, Past
<1>3. ChannelOfTarget' /\ EffectsOfTarget'
  BY <1>1 DEF StopInv, ChannelOfTarget, EffectsOfTarget
<1>4. PromptedOnce'
  BY <1>1 DEF StopInv, PromptedOnce, Prompts
<1> QED BY <1>2, <1>3, <1>4 DEF StopInv

\* The transports of a control row that a claimant sends to.
LEMMA ClaimantsChannel ==
  ASSUME Inv, StopInv, NEW p \in Workers, pc[p] \in Sending, job[p].row \in Control
  PROVE  /\ job[p].channel \in {"direct_prompt", "cursor_steering"}
         /\ Channels[job[p].row] = {job[p].channel}
         /\ job[p].channel = "cursor_steering" => Prompts(job[p].row) = {}
<1>1. job[p].channel \in Channels[job[p].row]
  BY DEF StopInv, ChannelOfTarget
<1>2. Channels[job[p].row] \in {{"direct_prompt"}, {"cursor_steering"}}
  BY DeliveryAssumption DEF DeliveryAssumption
<1>3. \A x \in effects[job[p].row] : x[2] \in Channels[job[p].row] \cup {"cursor_text"}
  BY DEF StopInv, EffectsOfTarget
<1> QED BY <1>1, <1>2, <1>3 DEF Prompts

\* A claimant decides how it goes on.
LEMMA DecidesOnce ==
  ASSUME Inv, StopInv, NEW p \in Workers, NEW step \in {"observed", "receipted", "unavailable", "ambiguous"},
         Past(p), step \in {"observed", "receipted"} => pc[p] \in Sending,
         step = "unavailable" => pc[p] \in {"leased", "sending"} \/ job[p].channel = "cursor_steering",
         pc[p] \in Sending \cup {"leased"},
         Decides(p, step)
  PROVE  StopInv'
<1>1. /\ pc' = [pc EXCEPT ![p] = step]
      /\ UNCHANGED <<job, outbox, tries, effects>>
      /\ step \in Steps /\ step \notin {"idle", "cleared", "leased", "sending"}
  BY DEF Decides, Goto, tables, Steps
<1>2. step = "unavailable" /\ job[p].row \in Control => Prompts(job[p].row) = {}
  BY ClaimantsChannel DEF StopInv, PromptedOnce
<1>3. step \in Sending => pc[p] \in Sending
  BY DEF Sending
<1> QED BY <1>1, <1>2, <1>3, ClaimantGoesOn

\* ClaimOutbox: the row was pending, so nobody is past its claim.
LEMMA ClaimOutboxOnce ==
  ASSUME Inv, StopInv, NEW p \in Workers, ClaimOutbox(p)
  PROVE  StopInv'
<1> DEFINE o == job[p].row
           a == tries[o] + 1
<1>1. o \in Rows /\ pc[p] = "cleared" /\ pc \in [Workers -> Steps]
  BY DEF ClaimOutbox, Inv, ControlType
<1>2. TablesType /\ "in_flight" \in OutboxStates
  BY DEF Inv, TablesInv, OutboxStates
<1>3. o \in Control => outbox[o].state = "pending"
  BY DEF ClaimOutbox, Dispatchable, Interrupted
<1>4. /\ pc' = [pc EXCEPT ![p] = "leased"]
      /\ job'[p].row = o /\ job'[p].attempt = a
      /\ \A q \in Workers : q # p => job'[q] = job[q]
      /\ effects' = effects
  BY <1>1 DEF ClaimOutbox, Goto, Inv, ControlType
<1>5. /\ \A y \in Rows : outbox'[y].state = IF y = o THEN "in_flight" ELSE outbox[y].state
      /\ \A y \in Rows : tries'[y] = IF y = o THEN a ELSE tries[y]
  BY <1>1, <1>2, SetStateWrites DEF ClaimOutbox, ClaimRows
<1>6. \A q \in Workers : o \in Control /\ Past(q) => job[q].row # o
  BY <1>3 DEF StopInv, ClaimantIsLatest
<1>7. OneClaimant'
  BY <1>1, <1>4, <1>6 DEF StopInv, OneClaimant, Past
<1>8. ClaimantIsLatest'
  <2> SUFFICES ASSUME NEW q \in Workers, Past(q)', job'[q].row \in Control
      PROVE  job'[q].attempt = tries'[job'[q].row] /\ outbox'[job'[q].row].state # "pending"
    BY DEF ClaimantIsLatest
  <2>1. CASE q = p
    BY <1>1, <1>4, <1>5, <2>1
  <2>2. CASE q # p
    <3>1. Past(q) /\ job'[q] = job[q] /\ job[q].row \in Rows
      BY <1>1, <1>4, <2>2, RowsKnown DEF Past, Inv
    <3> QED BY <1>5, <1>6, <3>1 DEF StopInv, ClaimantIsLatest
  <2> QED BY <2>1, <2>2
<1>9. ChannelOfTarget' /\ EffectsOfTarget'
  BY <1>1, <1>4 DEF StopInv, ChannelOfTarget, EffectsOfTarget, Sending
<1>10. PromptedOnce'
  BY <1>1, <1>3, <1>4, <1>5, DeliveryAssumption DEF StopInv, PromptedOnce, Prompts, DeliveryAssumption
<1> QED BY <1>7, <1>8, <1>9, <1>10 DEF StopInv

\* ResolveTarget: the claimant gets a transport of its row.
LEMMA ResolveTargetOnce ==
  ASSUME Inv, StopInv, NEW p \in Workers, ResolveTarget(p)
  PROVE  StopInv'
<1>1. PICK c \in Channels[job[p].row] : job' = [job EXCEPT ![p].channel = c]
  BY DEF ResolveTarget
<1>2. /\ pc \in [Workers -> Steps]
      /\ pc[p] = "leased"
      /\ pc' = [pc EXCEPT ![p] = "sending"]
      /\ job'[p].row = job[p].row /\ job'[p].attempt = job[p].attempt /\ job'[p].channel = c
      /\ \A q \in Workers : q # p => job'[q] = job[q]
      /\ UNCHANGED <<outbox, tries, effects>>
  BY <1>1 DEF ResolveTarget, Goto, tables, Inv, ControlType
<1>3. \A q \in Workers : job'[q].row = job[q].row /\ job'[q].attempt = job[q].attempt /\ (Past(q)' <=> Past(q))
  BY <1>2 DEF Past
<1>4. OneClaimant' /\ ClaimantIsLatest'
  BY <1>2, <1>3 DEF StopInv, OneClaimant, ClaimantIsLatest
<1>5. ChannelOfTarget' /\ EffectsOfTarget'
  BY <1>1, <1>2 DEF StopInv, ChannelOfTarget, EffectsOfTarget
<1>6. PromptedOnce'
  BY <1>2, <1>3 DEF StopInv, PromptedOnce, Prompts
<1> QED BY <1>4, <1>5, <1>6 DEF StopInv

\* Something reaches the target: the prompt, once, or an input of Cursor.
LEMMA SendingOnce ==
  ASSUME Inv, StopInv, NEW p \in Workers, NEW step \in {"pushed", "typed", "posted", "ambiguous"},
         NEW e \in {"watcher_event", "direct_prompt", "cursor_text", "cursor_steering"},
         pc[p] \in Sending, pc' = [pc EXCEPT ![p] = step], Reaches(p, e), UNCHANGED <<job, outbox, tries>>,
         e = job[p].channel \/ e = "cursor_text",
         e # "cursor_text" /\ e # "cursor_steering" => pc[p] = "sending"
  PROVE  StopInv'
<1> DEFINE o == job[p].row
           x == <<job[p].attempt, e>>
<1>1. o \in Rows /\ job[p].attempt \in 0..MaxAttempts
  BY DEF Sending, Inv, ControlType
<1>2. x \in (0..MaxAttempts) \X Reached /\ effects' = [effects EXCEPT ![o] = effects[o] \cup {x}]
  BY <1>1 DEF Reached, EffectKinds, Reaches
<1>3. /\ \A y \in Rows : y # o => effects'[y] = effects[y]
      /\ \A z \in effects'[o] : z \in effects[o] \/ z = x
  BY <1>1, <1>2, MoreEffects
<1>4. /\ pc \in [Workers -> Steps]
      /\ \A q \in Workers : Past(q)' <=> Past(q)
      /\ \A y \in Control : y \in Rows
  BY DeliveryAssumption DEF Inv, ControlType, Past, Sending, DeliveryAssumption
<1>5. OneClaimant' /\ ClaimantIsLatest'
  BY <1>4 DEF StopInv, OneClaimant, ClaimantIsLatest
<1>6. ChannelOfTarget'
  BY <1>4 DEF StopInv, ChannelOfTarget, Sending
<1>7. o \in Control =>
        /\ job[p].channel \in Channels[o]
        /\ job[p].channel # "watcher_event"
        /\ outbox[o].state # "pending"
        /\ \A q \in Workers : Past(q) /\ job[q].row = o => q = p
        /\ e = "direct_prompt" => Prompts(o) = {}
  BY ClaimantsChannel DEF StopInv, OneClaimant, ClaimantIsLatest, PromptedOnce, Past, Sending
<1>8. EffectsOfTarget'
  BY <1>3, <1>4, <1>7 DEF StopInv, EffectsOfTarget
<1>9. \A y \in Rows : (y # o \/ e # "direct_prompt") => Prompts(y)' \subseteq Prompts(y)
  BY <1>3 DEF Prompts
<1>10. o \in Control /\ e = "direct_prompt" => \A z \in Prompts(o)' : z = x
  BY <1>3, <1>7 DEF Prompts
<1>11. PromptedOnce'
  <2>1. \A y \in Control : \A z, w \in Prompts(y)' : z = w
    BY <1>4, <1>9, <1>10 DEF StopInv, PromptedOnce
  <2>2. \A y \in Control : outbox'[y].state = "pending" => Prompts(y)' = {}
    BY <1>4, <1>7, <1>9 DEF StopInv, PromptedOnce
  <2>3. ASSUME NEW q \in Workers, job'[q].row \in Control, pc'[q] \in {"leased", "sending", "unavailable"}
        PROVE  Prompts(job[q].row)' = {}
    <3>1. q # p /\ pc'[q] = pc[q] /\ Past(q) /\ job'[q] = job[q]
      BY <1>4, <2>3 DEF Past
    <3>2. job[q].row # o
      BY <1>7, <2>3, <3>1
    <3> QED BY <1>4, <1>9, <2>3, <3>1, <3>2 DEF StopInv, PromptedOnce
  <2> QED BY <2>1, <2>2, <2>3 DEF PromptedOnce
<1> QED BY <1>5, <1>6, <1>8, <1>11 DEF StopInv

\* Fail: its claimant sent no prompt, and is the only one.
LEMMA FailOnce ==
  ASSUME Inv, StopInv, NEW p \in Workers, Fail(p)
  PROVE  StopInv'
<1> DEFINE o == job[p].row
<1>1. o \in Rows /\ pc[p] = "unavailable" /\ pc \in [Workers -> Steps]
  BY DEF Fail, Inv, ControlType
<1>2. /\ pc' = [pc EXCEPT ![p] = "idle"]
      /\ \A q \in Workers : q # p => job'[q] = job[q]
      /\ UNCHANGED <<tries, effects>>
  BY <1>1 DEF Fail, Finish, FailRow, Inv, ControlType
<1>3. \A y \in Rows : y # o => outbox'[y] = outbox[y]
  BY DEF Fail, FailRow, Inv, TablesInv, TablesType
<1>4. o \in Control => /\ Prompts(o) = {}
                       /\ \A q \in Workers : Past(q) /\ job[q].row = o => q = p
  BY <1>1 DEF StopInv, PromptedOnce, OneClaimant, Past
<1>5. OneClaimant'
  BY <1>1, <1>2 DEF StopInv, OneClaimant, Past
<1>6. ClaimantIsLatest'
  <2> SUFFICES ASSUME NEW q \in Workers, Past(q)', job'[q].row \in Control
      PROVE  job'[q].attempt = tries'[job'[q].row] /\ outbox'[job'[q].row].state # "pending"
    BY DEF ClaimantIsLatest
  <2>1. q # p /\ Past(q) /\ job'[q] = job[q] /\ job[q].row \in Rows
    BY <1>1, <1>2, RowsKnown DEF Past, Inv
  <2> QED BY <1>2, <1>3, <1>4, <2>1 DEF StopInv, ClaimantIsLatest
<1>7. ChannelOfTarget' /\ EffectsOfTarget'
  BY <1>1, <1>2 DEF StopInv, ChannelOfTarget, EffectsOfTarget, Sending
<1>8. PromptedOnce'
  BY <1>1, <1>2, <1>3, <1>4, DeliveryAssumption DEF StopInv, PromptedOnce, Prompts, DeliveryAssumption
<1> QED BY <1>5, <1>6, <1>7, <1>8 DEF StopInv

\* One step of a running dispatcher.
LEMMA WorkerOnce ==
  ASSUME Inv, StopInv, NEW p \in Workers, WorkerStep(p)
  PROVE  StopInv'
<1> DEFINE o == job[p].row
<1>0. /\ pc[p] # "idle" => o \in Rows
      /\ pc \in [Workers -> Steps]
      /\ TablesType
      /\ Control \subseteq Rows
      /\ {"awaiting_receipt", "delivered"} \subseteq OutboxStates
  BY RowsKnown, DeliveryAssumption DEF Inv, ControlType, TablesInv, OutboxStates, DeliveryAssumption
<1>1. ASSUME Finish(p), UNCHANGED <<tries, effects>>,
             \A y \in Rows : outbox'[y].state = "pending" => outbox[y].state = "pending"
      PROVE  StopInv'
  BY <1>0, <1>1, ControlUntouched DEF Finish
<1>2. CASE ClaimOutbox(p)
  BY <1>2, ClaimOutboxOnce
<1>3. CASE ClaimDelivered(p)
  BY <1>0, <1>1, <1>3, ReconcileOnClaimKeeps DEF ClaimDelivered, Inv, tables
<1>4. CASE ClaimInterrupted(p)
  BY <1>0, <1>1, <1>4, SetStateWrites DEF ClaimInterrupted, Suspend
<1>5. CASE ClaimRefused(p)
  BY <1>1, <1>5 DEF ClaimRefused, tables
<1>6. CASE ResolveTarget(p)
  BY <1>6, ResolveTargetOnce
<1>7. CASE NoTarget(p)
  BY <1>7, DecidesOnce DEF NoTarget, Decides, Past
<1>8. CASE Push(p)
  <2>1. pc[p] = "sending" /\ job[p].channel \in {"watcher_event", "direct_prompt"}
    BY <1>8 DEF Push, Plain
  <2> QED BY <1>8, <2>1, SendingOnce DEF Push, Goto, tables, Sending
<1>9. CASE PushNothing(p)
  BY <1>9, DecidesOnce DEF PushNothing, Past, Sending
<1>10. CASE PushReturns(p)
  <2>1. pc[p] = "pushed" /\ Past(p) /\ pc[p] \in Sending
    BY <1>10 DEF PushReturns, Past, Sending
  <2>2. CASE Decides(p, "receipted") \/ Decides(p, "ambiguous")
    BY <2>1, <2>2, DecidesOnce
  <2>3. CASE job[p].channel = "watcher_event" /\ Decides(p, "unavailable")
    <3>1. o \notin Control
      BY <2>1, <2>3, ClaimantsChannel
    <3> QED BY <2>1, <2>3, <3>1, ClaimantGoesOn DEF Decides, Goto, tables, Steps, Sending
  <2> QED BY <1>10, <2>2, <2>3 DEF PushReturns
<1>11. ASSUME NEW state, pc[p] \in Sending, job[p].channel = "cursor_steering", Replays(p, state)
       PROVE  StopInv'
  BY <1>11, DecidesOnce DEF Replays, Past, Sending
<1>12. CASE CursorLookup(p)
  BY <1>11, <1>12, DecidesOnce DEF CursorLookup, Past, Sending
<1>13. pc[p] \in Steering => job[p].channel = "cursor_steering" /\ pc[p] \in Sending /\ Past(p)
  BY DEF Inv, ChannelKnown, Steering, Sending, Past
<1>14. CASE CursorFenced(p)
  BY <1>11, <1>13, <1>14, DecidesOnce DEF CursorFenced, Steering
<1>15. ASSUME NEW s, NEW step \in {"texted", "receipted", "unavailable", "ambiguous"}, pc[p] \in Steering,
              RecordPhase(o, s), Goto(p, step), UNCHANGED <<job, effects>>
       PROVE  StopInv'
  BY <1>13, <1>15, ClaimantGoesOn, ClaimantsChannel DEF RecordPhase, Goto, Steps
<1>16. ASSUME NEW e \in {"cursor_text", "cursor_steering"}, NEW step \in {"typed", "posted"},
              pc[p] \in Steering, Command(p, e, step)
       PROVE  StopInv'
  <2>1. CASE effects' = effects /\ Goto(p, "ambiguous")
    BY <1>13, <1>16, <2>1, ClaimantGoesOn DEF Command, Goto, tables, Steps, Sending
  <2>2. CASE Reaches(p, e)
    BY <1>13, <1>16, <2>2, SendingOnce DEF Command, Goto, tables
  <2> QED BY <1>16, <2>1, <2>2 DEF Command
<1>17. CASE CursorChanged(p)
  BY <1>13, <1>15, <1>17, DecidesOnce DEF CursorChanged, Refuse, Steering
<1>18. CASE CursorInput(p)
  BY <1>16, <1>18 DEF CursorInput, Steering
<1>19. CASE \E working \in BOOLEAN : CursorBegin(p, working)
  BY <1>13, <1>19, ClaimantGoesOn DEF CursorBegin, BeginSteering, Goto, Steering, Steps
<1>20. CASE CursorRecordText(p)
  BY <1>15, <1>20 DEF CursorRecordText, Steering
<1>21. CASE CursorInterrupt(p)
  BY <1>13, <1>15, <1>16, <1>21, DecidesOnce DEF CursorInterrupt, Refuse, Steering
<1>22. CASE CursorConfirm(p)
  BY <1>13, <1>15, <1>22, DecidesOnce DEF CursorConfirm, Refuse, Steering
<1>23. CASE Acknowledge(p)
  BY <1>0, <1>1, <1>23, SetStateWrites DEF Acknowledge, AcknowledgeRows, ReconcileDelivered
<1>24. CASE Await(p)
  BY <1>0, <1>1, <1>24, SetStateWrites DEF Await, Suspend
<1>25. CASE Fail(p)
  BY <1>25, FailOnce
<1>26. CASE Fenced(p)
  BY <1>1, <1>26 DEF Fenced, tables
<1> QED BY <1>2, <1>3, <1>4, <1>5, <1>6, <1>7, <1>8, <1>9, <1>10, <1>12, <1>14, <1>17, <1>18, <1>19,
           <1>20, <1>21, <1>22, <1>23, <1>24, <1>25, <1>26 DEF WorkerStep

LEMMA StepOnce == Inv /\ StopInv /\ [Next]_vars => StopInv'
<1> SUFFICES ASSUME Inv, StopInv, [Next]_vars PROVE StopInv'
  OBVIOUS
<1>0. /\ TablesType
      /\ pc \in [Workers -> Steps]
      /\ \A o \in Control : o \in Rows /\ o \notin Inbox /\ o \notin Activation
      /\ {"in_flight", "cancelled", "delivered"} \subseteq OutboxStates
  BY DeliveryAssumption DEF Inv, ControlType, TablesInv, DeliveryAssumption, OutboxStates
<1>1. ASSUME UNCHANGED <<pc, job>>,
             \A o \in Control : /\ tries'[o] = tries[o] /\ effects'[o] = effects[o]
                                /\ outbox'[o].state = "pending" => outbox[o].state = "pending"
      PROVE  StopInv'
  BY <1>1, ControlUntouched
<1>2. ASSUME NEW p \in Workers, NEW o \in Rows, Begin(p, o) PROVE StopInv'
  BY <1>0, <1>2, ControlUntouched DEF Begin, Goto, tables, Inv, ControlType
<1>3. ASSUME NEW p \in Workers, WorkerStep(p) PROVE StopInv'
  BY <1>3, WorkerOnce
<1>4. ASSUME NEW p \in Workers, Crash(p) PROVE StopInv'
  BY <1>0, <1>4, ControlUntouched DEF Crash, Finish, tables, Inv, ControlType
<1>5. ASSUME NEW r \in Readers, ReadInbox(r) PROVE StopInv'
  <2> DEFINE due == {o \in Inbox : Dispatchable(o) /\ tries[o] < MaxAttempts}
  <2>1. ClaimRows(due, InboxHolder)
    BY <1>5 DEF ReadInbox
  <2>2. \A o \in Rows : outbox'[o].state = IF o \in due THEN "in_flight" ELSE outbox[o].state
    BY <1>0, <2>1, SetStateWrites DEF ClaimRows
  <2>3. \A o \in Control : o \notin due /\ o \in Rows
    BY <1>0
  <2>4. \A o \in Control : tries'[o] = tries[o] /\ effects'[o] = effects[o]
    BY <1>5, <2>1, <2>3 DEF ReadInbox, ClaimRows
  <2>5. UNCHANGED <<pc, job>>
    BY <1>5 DEF ReadInbox
  <2> QED BY <1>1, <2>2, <2>3, <2>4, <2>5
<1>6. ASSUME NEW r \in Readers, AcknowledgeInbox(r) PROVE StopInv'
  <2> DEFINE S == {i.row : i \in hand[r]}
  <2>1. AcknowledgeRows(S, "inbox_read") /\ UNCHANGED <<pc, job, effects>>
    BY <1>6 DEF AcknowledgeInbox
  <2>2. /\ \A o \in Rows : outbox'[o].state = IF o \in S THEN "delivered" ELSE outbox[o].state
        /\ tries' = tries
    BY <1>0, <2>1, SetStateWrites DEF AcknowledgeRows, ReconcileDelivered
  <2> QED BY <1>0, <1>1, <2>1, <2>2
<1>7. ASSUME NEW r \in Readers, DropHand(r) PROVE StopInv'
  BY <1>1, <1>7 DEF DropHand, tables
<1>8. ASSUME NEW o \in Rows, Silence(o) PROVE StopInv'
  BY <1>0, <1>1, <1>8, SetStateWrites DEF Silence, SilenceRow
<1>9. ASSUME NEW o \in Rows, RecoverRead(o) PROVE StopInv'
  <2>1. \A y \in Rows : outbox'[y].state = IF y = o THEN "delivered" ELSE outbox[y].state
    BY <1>0, <1>9, SetStateWrites DEF RecoverRead, RecoverRow, ReconcileDelivered
  <2>2. UNCHANGED <<pc, job, tries>> /\ \A y \in Control : effects'[y] = effects[y]
    BY <1>0, <1>9 DEF RecoverRead, RecoverRow, Inv, ControlType
  <2> QED BY <1>0, <1>1, <2>1, <2>2
<1>10. ASSUME NEW o \in Rows, SettleActivation(o) PROVE StopInv'
  <2>1. \A y \in Rows : outbox'[y].state = IF y = o THEN "delivered" ELSE outbox[y].state
    BY <1>0, <1>10, SetStateWrites DEF SettleActivation, SettleRow
  <2>2. UNCHANGED <<pc, job, tries>> /\ \A y \in Control : effects'[y] = effects[y]
    BY <1>0, <1>10 DEF SettleActivation, SettleRow, Inv, ControlType
  <2> QED BY <1>0, <1>1, <2>1, <2>2
<1>11. CASE FinishWork
  BY <1>1, <1>11 DEF FinishWork, tables
<1>12. CASE Time
  <2>1. \A o \in Rows : outbox'[o].state = outbox[o].state
    <3>1. CASE outbox' = outbox
      BY <3>1
    <3>2. ASSUME NEW y \in Rows, outbox' = [outbox EXCEPT ![y].due = TRUE]
          PROVE  \A o \in Rows : outbox'[o].state = outbox[o].state
      BY <1>0, <3>2 DEF TablesType
    <3> QED BY <1>12, <3>1, <3>2 DEF Time, ExpireLease, BecomeDue
  <2> QED BY <1>0, <1>1, <1>12, <2>1 DEF Time, ExpireLease, BecomeDue
<1>13. CASE UNCHANGED vars
  BY <1>1, <1>13 DEF vars, tables
<1> QED BY <1>2, <1>3, <1>4, <1>5, <1>6, <1>7, <1>8, <1>9, <1>10, <1>11, <1>12, <1>13 DEF Next

LEMMA StopInvariant == Spec => []StopInv
<1>1. Init => StopInv
  BY DeliveryAssumption DEF Init, TablesInit, StopInv, OneClaimant, ClaimantIsLatest, ChannelOfTarget, Sending,
     EffectsOfTarget, PromptedOnce, Prompts, Past, DeliveryAssumption
<1> QED BY <1>1, Invariant, StepOnce, PTL DEF Spec

\* A set of at most one element.
LEMMA AtMostOne ==
  ASSUME NEW T, \A x, y \in T : x = y
  PROVE  Cardinality(T) <= 1
<1>1. CASE T = {}
  <2>1. Cardinality({}) = 0
    BY FS_EmptySet
  <2> QED BY <1>1, <2>1
<1>2. CASE T # {}
  <2>1. PICK x \in T : T = {x}
    BY <1>2
  <2>2. Cardinality({x}) = 1
    BY FS_Singleton
  <2> QED BY <2>1, <2>2
<1> QED BY <1>1, <1>2

\* An owner stop is pushed to its target at most once: claim_outbox suspends a
\* control row it finds in flight, and only the claimant that sent nothing
\* makes the row claimable again, although fences repeat and the executors
\* share their dispatcher_id.
THEOREM OwnerStopsAreSentOnce == Spec => []OwnerStopOnce
<1>1. ASSUME Inv, StopInv, NEW o \in Control PROVE \A x, y \in Pushed(o) : x = y
  <2>1. o \in Rows /\ Channels[o] \in {{"direct_prompt"}, {"cursor_steering"}}
    BY DeliveryAssumption DEF DeliveryAssumption
  <2>2. effects[o] \in SUBSET ((0..MaxAttempts) \X Reached)
    BY <1>1, <2>1 DEF Inv, ControlType
  <2>3. \A x \in effects[o] : x[2] \in Channels[o] \cup {"cursor_text"}
    BY <1>1 DEF StopInv, EffectsOfTarget
  <2>4. CASE Channels[o] = {"direct_prompt"}
    BY <1>1, <2>3, <2>4 DEF Pushed, Prompts, StopInv, PromptedOnce
  <2>5. CASE Channels[o] = {"cursor_steering"}
    BY <1>1, <2>1, <2>2, <2>3, <2>5 DEF Pushed, Inv, InputIsOwners, CursorEffects
  <2> QED BY <2>1, <2>4, <2>5
<1>2. Inv /\ StopInv => OwnerStopOnce
  BY <1>1, AtMostOne DEF OwnerStopOnce
<1> QED BY <1>2, Invariant, StopInvariant, PTL

\* The executor that writes the result of an owner stop is the one that
\* claimed it last, although Holds compares no attempt.
THEOREM StopResultsAreTheClaimants == Spec => StopResultIsClaimants
<1> DEFINE Body == \A p \in Workers :
      ResultWriter(p) /\ job[p].row \in Control /\ outbox' # outbox => job[p].attempt = tries[job[p].row]
<1>1. StopInv => Body
  BY DEF StopInv, ClaimantIsLatest, Past, ResultWriter
<1> QED BY <1>1, StopInvariant, PTL DEF StopResultIsClaimants
=============================================================================
