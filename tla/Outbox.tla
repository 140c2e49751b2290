------------------------------- MODULE Outbox -------------------------------
(***************************************************************************)
(* The delivery tables of the canonical store and the transactions on      *)
(* them: delivery_outbox, outbox_dispatch_leases, recipient_receipts, the  *)
(* obligations of kind 'delivery', and cursor_steering_effects.  A         *)
(* transaction is one BEGIN IMMEDIATE block, so each operator below is one *)
(* atomic step of whichever process runs it.                               *)
(*                                                                         *)
(* Time enters only through two facts the code compares with the clock: a  *)
(* row is due (available_at <= now) and a lease is expired (leased_until   *)
(* <= now).  Each is a flag that the passage of time sets.                 *)
(***************************************************************************)
EXTENDS Naturals, FiniteSets

CONSTANTS
  Rows,          \* rows of delivery_outbox, each one event for one recipient
  Holders,       \* values of outbox_dispatch_leases.dispatcher_id
  NoHolder,      \* the dispatcher of a row with no lease
  MaxAttempts    \* bound: claims of one row (attempt_count)

ASSUME OutboxAssumption ==
  /\ NoHolder \notin Holders
  /\ MaxAttempts \in Nat \ {0}

VARIABLES
  outbox,        \* per row: the delivery_outbox state and whether it is due
  tries,         \* per row: attempt_count
  lease,         \* per row: the dispatch lease; fence 0 when there is no lease
  receipt,       \* per row: the effect_kind of its recipient receipt, or "none"
  obligation,    \* per row: the state of its delivery obligation, or "none"
  steering       \* per row: its cursor_steering_effects row, state "none" if absent

tables == <<outbox, tries, lease, receipt, obligation, steering>>

OutboxStates == {"pending", "in_flight", "awaiting_receipt", "delivered", "cancelled"}

\* The receipts of an inbox read and of a recovery read have one effect_kind,
\* recipient_read, and differ in their effect_id.
EffectKinds == {"watcher_event", "direct_prompt", "cursor_steering",
                "inbox_read", "recovery_read", "assignment_context"}

SteeringStates == {"none", "intent_recorded", "text_sent", "effect_applied",
                   "refused_pre_effect", "refused_later", "acknowledged"}

NoLease == [holder |-> NoHolder, fence |-> 0, expired |-> FALSE]

NoSteering == [state |-> "none", attempt |-> 0, working |-> FALSE]

TablesType ==
  /\ outbox \in [Rows -> [state : OutboxStates, due : BOOLEAN]]
  /\ tries \in [Rows -> 0..MaxAttempts]
  /\ lease \in [Rows -> [holder : Holders \cup {NoHolder}, fence : Nat, expired : BOOLEAN]]
  /\ receipt \in [Rows -> EffectKinds \cup {"none"}]
  /\ obligation \in [Rows -> {"none", "open", "satisfied"}]
  /\ steering \in [Rows -> [state : SteeringStates, attempt : 0..MaxAttempts, working : BOOLEAN]]

\* A row is inserted 'pending' and due with its event; a routed request opens
\* a delivery obligation in the same transaction, other producers do not.
TablesInit ==
  /\ outbox = [o \in Rows |-> [state |-> "pending", due |-> TRUE]]
  /\ tries = [o \in Rows |-> 0]
  /\ lease = [o \in Rows |-> NoLease]
  /\ receipt = [o \in Rows |-> "none"]
  /\ obligation \in [Rows -> {"none", "open"}]
  /\ steering = [o \in Rows |-> NoSteering]

-----------------------------------------------------------------------------
Leased(o) == lease[o].fence > 0

LiveLease(o) == Leased(o) /\ ~lease[o].expired

\* Mutant of Dispatchable: a row in flight is not claimable again.
DispatchableOncePending(o) ==
  /\ receipt[o] = "none"
  /\ outbox[o].state = "pending"
  /\ outbox[o].due
  /\ ~LiveLease(o)

\* What claim_outbox accepts: no receipt, not cancelled or ambiguous, due, and
\* no unexpired lease.
Dispatchable(o) ==
  /\ receipt[o] = "none"
  /\ outbox[o].state \in {"pending", "in_flight"}
  /\ outbox[o].due
  /\ ~LiveLease(o)

\* The lease check of acknowledge_outbox, await_outbox_receipt and
\* fail_outbox: dispatcher and fence, never the expiry.
Holds(o, h, f) == Leased(o) /\ lease[o].holder = h /\ lease[o].fence = f

\* fence = 1 without a lease row, the stored fence + 1 otherwise.
NextFence(o) == lease[o].fence + 1

SetState(S, s) == [o \in Rows |-> IF o \in S THEN [outbox[o] EXCEPT !.state = s] ELSE outbox[o]]

DropLease(S) == [o \in Rows |-> IF o \in S THEN NoLease ELSE lease[o]]

\* Mutant of Satisfy: the obligation is forgotten.
SatisfyNothing(S) == obligation

\* UPDATE obligations SET state='satisfied' ... AND state='open'
Satisfy(S) == [o \in Rows |-> IF o \in S /\ obligation[o] = "open" THEN "satisfied" ELSE obligation[o]]

-----------------------------------------------------------------------------
\* claim_outbox on a set of dispatchable rows: a dispatcher claims one, an
\* inbox read claims every due row of its owner in one transaction.
ClaimRows(S, h) ==
  /\ outbox' = SetState(S, "in_flight")
  /\ lease' = [o \in Rows |-> IF o \in S
                              THEN [holder |-> h, fence |-> NextFence(o), expired |-> FALSE]
                              ELSE lease[o]]
  /\ tries' = [o \in Rows |-> IF o \in S THEN tries[o] + 1 ELSE tries[o]]
  /\ UNCHANGED <<receipt, obligation, steering>>

\* Mutant of ReconcileDelivered: only a row in flight is marked delivered.
ReconcileInFlight(S) ==
  /\ outbox' = SetState({o \in S : outbox[o].state = "in_flight"}, "delivered")
  /\ lease' = DropLease(S)

\* _reconcile_delivered: the row has its receipt already.
ReconcileDelivered(S) ==
  /\ outbox' = SetState(S, "delivered")
  /\ lease' = DropLease(S)

\* claim_outbox of a row that has a receipt.
ReconcileOnClaim(o) ==
  /\ IF outbox[o].state # "delivered"
       THEN ReconcileDelivered({o})
       ELSE UNCHANGED <<outbox, lease>>
  /\ UNCHANGED <<tries, receipt, obligation, steering>>

\* claim_outbox, await_outbox_receipt: the effect may have happened.
Suspend(o) ==
  /\ outbox' = SetState({o}, "awaiting_receipt")
  /\ lease' = DropLease({o})
  /\ UNCHANGED <<tries, receipt, obligation, steering>>

\* The Cursor check of acknowledge_outbox: one exact applied effect.
SteeringProves(o, k, states) == k = "cursor_steering" => steering[o].state \in states

\* acknowledge_outbox finds the same effect already recorded, ...
AcknowledgesAgain(o, k) ==
  /\ receipt[o] = k
  /\ SteeringProves(o, k, {"effect_applied", "acknowledged"})

\* ... or records it under the current lease.
AcknowledgesFirst(o, h, f, k) ==
  /\ receipt[o] = "none"
  /\ Holds(o, h, f)
  /\ SteeringProves(o, k, {"effect_applied"})

MarkAcknowledged(S, k) ==
  [o \in Rows |-> IF o \in S /\ k = "cursor_steering"
                  THEN [steering[o] EXCEPT !.state = "acknowledged"]
                  ELSE steering[o]]

\* The writes of acknowledge_outbox on a set of rows, fresh ones (without a
\* receipt) and repeated ones.
AcknowledgeRows(S, k) ==
  LET fresh == {o \in S : receipt[o] = "none"} IN
  /\ receipt' = [o \in Rows |-> IF o \in fresh THEN k ELSE receipt[o]]
  /\ ReconcileDelivered(S)
  /\ steering' = MarkAcknowledged(S, k)
  /\ obligation' = Satisfy(fresh)
  /\ UNCHANGED tries

\* Mutant of FailRow: the lease stays behind.
FailRowKeepingLease(o) ==
  /\ outbox' = [outbox EXCEPT ![o] = [state |-> "pending", due |-> FALSE]]
  /\ obligation' = [obligation EXCEPT ![o] = "open"]
  /\ UNCHANGED <<tries, lease, receipt, steering>>

\* fail_outbox: back to pending, due later, with an open obligation.
FailRow(o) ==
  /\ outbox' = [outbox EXCEPT ![o] = [state |-> "pending", due |-> FALSE]]
  /\ lease' = DropLease({o})
  /\ obligation' = [obligation EXCEPT ![o] = "open"]
  /\ UNCHANGED <<tries, receipt, steering>>

\* apply_supervision_delivery_policy in Calm mode, routine update.
SilenceRow(o) ==
  /\ outbox' = SetState({o}, "cancelled")
  /\ lease' = DropLease({o})
  /\ obligation' = Satisfy({o})
  /\ UNCHANGED <<tries, receipt, steering>>

\* reconcile_received_outbox: the recipient read an uncertain delivery.
RecoverRow(o) ==
  /\ receipt' = [receipt EXCEPT ![o] = "recovery_read"]
  /\ ReconcileDelivered({o})
  /\ obligation' = Satisfy({o})
  /\ UNCHANGED <<tries, steering>>

\* _settle_assignment_activation_delivery: the launch handed the Champion its
\* context, so its activation event needs no dispatch.  The lease is not touched.
SettleRow(o) ==
  /\ receipt' = [receipt EXCEPT ![o] = "assignment_context"]
  /\ outbox' = SetState({o}, "delivered")
  /\ obligation' = Satisfy({o})
  /\ UNCHANGED <<tries, lease, steering>>

\* begin_cursor_steering inserts the one intent of a row in flight.
BeginSteering(o, a, working) ==
  /\ steering' = [steering EXCEPT ![o] =
                    [state |-> "intent_recorded", attempt |-> a, working |-> working]]
  /\ UNCHANGED <<outbox, tries, lease, receipt, obligation>>

\* record_cursor_steering_phase: only the owner of the intent, only forward.
MayRecord(o, a, s) ==
  /\ steering[o].attempt = a
  /\ \/ steering[o].state = "intent_recorded"
     \/ steering[o].state = "text_sent" /\ s # "text_sent"

RecordPhase(o, s) ==
  /\ steering' = [steering EXCEPT ![o].state = s]
  /\ UNCHANGED <<outbox, tries, lease, receipt, obligation>>

\* The passage of time.
ExpireLease(o) ==
  /\ LiveLease(o)
  /\ lease' = [lease EXCEPT ![o].expired = TRUE]
  /\ UNCHANGED <<outbox, tries, receipt, obligation, steering>>

BecomeDue(o) ==
  /\ ~outbox[o].due
  /\ outbox' = [outbox EXCEPT ![o].due = TRUE]
  /\ UNCHANGED <<tries, lease, receipt, obligation, steering>>
=============================================================================
