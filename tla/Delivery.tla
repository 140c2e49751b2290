------------------------------ MODULE Delivery ------------------------------
(***************************************************************************)
(* Delivery of outbox rows: any number of dispatchers (hook processes,     *)
(* supervisor threads, the owner-stop executor) each run                   *)
(* DeliveryService.dispatch_source around one adapter call, the recipient  *)
(* reads and acknowledges its inbox, and time expires leases.  A           *)
(* dispatcher may die between any two of its steps.                        *)
(*                                                                         *)
(* The store transactions are those of Outbox.  Between them a dispatcher  *)
(* holds only what it read: its job.                                       *)
(***************************************************************************)
EXTENDS Outbox

CONSTANTS
  Workers,       \* concurrent executions of dispatch_source
  Dispatcher,    \* the dispatcher_id each of them uses
  InboxHolder,   \* 'inbox:' + the runtime that reads
  Readers,       \* concurrent inbox reads of that runtime
  Control,       \* rows whose event is an owner_stop_control
  Inbox,         \* rows addressed to a Shotcaller, which has an inbox
  Routine,       \* rows a Calm Shotcaller is not woken for
  Activation,    \* rows of an assignment_active event
  Channels,      \* per row: the transports its target may resolve to
  NoRow

ASSUME DeliveryAssumption ==
  /\ Dispatcher \in [Workers -> Holders \ {InboxHolder}]
  /\ InboxHolder \in Holders
  /\ Inbox \subseteq Rows \ Control
  /\ Control \subseteq Rows
  /\ Routine \subseteq Inbox
  /\ Activation \subseteq Rows \ (Control \cup Inbox)
  /\ Channels \in [Rows -> SUBSET {"watcher_event", "direct_prompt", "cursor_steering"}]
  /\ \A o \in Control : Channels[o] \in {{"direct_prompt"}, {"cursor_steering"}}
  /\ NoRow \notin Rows

VARIABLES
  pc,            \* per worker: where it is in dispatch_source
  job,           \* per worker: the row, fence, attempt and channel it works with
  hand,          \* per reader: the items its last inbox read returned
  busy,          \* receiver_activity of the Shotcaller: busy, or idle/unknown
  effects        \* history: the <<attempt, effect>> pairs that reached a recipient

vars == <<tables, pc, job, hand, busy, effects>>

Steps == {"idle", "cleared", "leased", "sending", "pushed", "observed", "intended",
          "typed", "texted", "posted", "receipted", "unavailable", "ambiguous"}

Reached == EffectKinds \cup {"cursor_text"}

NoJob == [row |-> NoRow, fence |-> 0, attempt |-> 0, channel |-> "none"]

Items == [row : Rows, fence : Nat, attempt : 0..MaxAttempts]

TypeOK ==
  /\ TablesType
  /\ pc \in [Workers -> Steps]
  /\ job \in [Workers -> [row : Rows \cup {NoRow}, fence : Nat, attempt : 0..MaxAttempts,
                          channel : EffectKinds \cup {"none"}]]
  /\ \A p \in Workers : pc[p] # "idle" => job[p].row \in Rows
  /\ hand \in [Readers -> SUBSET Items]
  /\ busy \in BOOLEAN
  /\ effects \in [Rows -> SUBSET ((0..MaxAttempts) \X Reached)]

Init ==
  /\ TablesInit
  /\ pc = [p \in Workers |-> "idle"]
  /\ job = [p \in Workers |-> NoJob]
  /\ hand = [r \in Readers |-> {}]
  /\ busy = FALSE
  /\ effects = [o \in Rows |-> {}]

-----------------------------------------------------------------------------
(* One execution of dispatch_event / dispatch_source.                      *)

Goto(p, step) == pc' = [pc EXCEPT ![p] = step]

\* dispatch_source returned or raised: nothing survives it.
Finish(p) ==
  /\ pc' = [pc EXCEPT ![p] = "idle"]
  /\ job' = [job EXCEPT ![p] = NoJob]

\* The delivery policy lets an event wake its recipient: pending, and its
\* Shotcaller not known to be working.  An owner stop is executed without it.
Begin(p, o) ==
  /\ pc[p] = "idle"
  /\ \/ o \in Control /\ outbox[o].state \in {"pending", "in_flight"}
     \/ o \notin Control /\ outbox[o].state = "pending" /\ (o \in Inbox => ~busy)
  /\ Goto(p, "cleared")
  /\ job' = [job EXCEPT ![p] = [NoJob EXCEPT !.row = o]]
  /\ UNCHANGED <<tables, hand, busy, effects>>

\* The delivery policy of a Calm Shotcaller: a routine update is not delivered.
Silence(o) ==
  /\ o \in Routine
  /\ outbox[o].state = "pending"
  /\ ~busy
  /\ SilenceRow(o)
  /\ UNCHANGED <<pc, job, hand, busy, effects>>

\* Mutant of Interrupted: a stop found in flight is sent again.
NeverInterrupted(o) == FALSE

\* An owner stop found in flight was interrupted: its effect may have happened.
Interrupted(o) == o \in Control /\ outbox[o].state = "in_flight"

ClaimOutbox(p) ==
  LET o == job[p].row IN
  /\ pc[p] = "cleared"
  /\ Dispatchable(o)
  /\ ~Interrupted(o)
  /\ tries[o] < MaxAttempts
  /\ ClaimRows({o}, Dispatcher[p])
  /\ Goto(p, "leased")
  /\ job' = [job EXCEPT ![p] = [row |-> o, fence |-> NextFence(o),
                                attempt |-> tries[o] + 1, channel |-> "none"]]
  /\ UNCHANGED <<hand, busy, effects>>

\* The other outcomes of the claim end the dispatch.
ClaimDelivered(p) ==
  /\ pc[p] = "cleared"
  /\ receipt[job[p].row] # "none"
  /\ ReconcileOnClaim(job[p].row)
  /\ Finish(p)
  /\ UNCHANGED <<hand, busy, effects>>

ClaimInterrupted(p) ==
  /\ pc[p] = "cleared"
  /\ Dispatchable(job[p].row)
  /\ Interrupted(job[p].row)
  /\ Suspend(job[p].row)
  /\ Finish(p)
  /\ UNCHANGED <<hand, busy, effects>>

ClaimRefused(p) ==
  LET o == job[p].row IN
  /\ pc[p] = "cleared"
  /\ receipt[o] = "none"
  /\ ~Dispatchable(o) \/ tries[o] = MaxAttempts
  /\ ~(Dispatchable(o) /\ Interrupted(o))
  /\ Finish(p)
  /\ UNCHANGED <<tables, hand, busy, effects>>

\* target_resolver: a channel, or no receiver at all.
ResolveTarget(p) ==
  /\ pc[p] = "leased"
  /\ Goto(p, "sending")
  /\ \E c \in Channels[job[p].row] : job' = [job EXCEPT ![p].channel = c]
  /\ UNCHANGED <<tables, hand, busy, effects>>

NoTarget(p) ==
  /\ pc[p] = "leased"
  /\ Goto(p, "unavailable")
  /\ UNCHANGED <<tables, job, hand, busy, effects>>

\* Something reaches the recipient, or its terminal.
Reaches(p, e) ==
  effects' = [effects EXCEPT ![job[p].row] = @ \cup {<<job[p].attempt, e>>}]

\* A step of an adapter that only decides how it goes on.
Decides(p, step) ==
  /\ Goto(p, step)
  /\ UNCHANGED <<tables, job, hand, busy, effects>>

(* InstalledDeliveryAdapter.send to a watcher or to a terminal prompt.     *)

Plain(p) == job[p].channel \in {"watcher_event", "direct_prompt"}

\* require_no_known_work, read just before anything is typed.
KnownWork(p) ==
  /\ job[p].channel \in {"direct_prompt", "cursor_steering"}
  /\ job[p].row \in Inbox
  /\ busy

Push(p) ==
  /\ pc[p] = "sending" /\ Plain(p)
  /\ ~KnownWork(p)
  /\ Reaches(p, job[p].channel)
  /\ Goto(p, "pushed")
  /\ UNCHANGED <<tables, job, hand, busy>>

\* Mutant of PushNothing: a refused push is taken for a receipt.
PushNothingReceipted(p) ==
  /\ pc[p] = "sending"
  /\ Plain(p) \/ KnownWork(p)
  /\ \/ Decides(p, "unavailable")
     \/ ~KnownWork(p) /\ Decides(p, "receipted")

\* Nothing was sent; a refusal the adapter cannot place is called ambiguous.
PushNothing(p) ==
  /\ pc[p] = "sending"
  /\ Plain(p) \/ KnownWork(p)
  /\ \/ Decides(p, "unavailable")
     \/ ~KnownWork(p) /\ Decides(p, "ambiguous")

\* It was sent: a receipt, an ambiguous outcome, or the watcher's answer was
\* lost (socket timeout, refused wake), which send reports as unavailable.
PushReturns(p) ==
  /\ pc[p] = "pushed"
  /\ \/ Decides(p, "receipted")
     \/ Decides(p, "ambiguous")
     \/ job[p].channel = "watcher_event" /\ Decides(p, "unavailable")

(* HerdrCursorSteeringAdapter.send.                                        *)

\* How send answers when the row already has a steering record.
Replays(p, state) ==
  CASE state \in {"effect_applied", "acknowledged"} -> Decides(p, "receipted")
    [] state = "refused_pre_effect"                 -> Decides(p, "unavailable")
    [] OTHER                                        -> Decides(p, "ambiguous")

\* First the record of an earlier attempt, then the first observation.
CursorLookup(p) ==
  LET state == steering[job[p].row].state IN
  /\ pc[p] = "sending" /\ job[p].channel = "cursor_steering"
  /\ ~KnownWork(p)
  /\ IF state = "none"
       THEN Decides(p, "observed") \/ Decides(p, "unavailable")
       ELSE Replays(p, state)

\* Mutant of CursorBegin: a later attempt takes the record over.
CursorBeginAgain(p, working) ==
  LET o == job[p].row IN
  /\ pc[p] = "observed"
  /\ outbox[o].state = "in_flight"
  /\ BeginSteering(o, job[p].attempt, working)
  /\ Goto(p, "intended")
  /\ UNCHANGED <<job, hand, busy, effects>>

\* begin_cursor_steering: the intent is durable before any input.
CursorBegin(p, working) ==
  LET o == job[p].row IN
  /\ pc[p] = "observed"
  /\ steering[o].state = "none"
  /\ outbox[o].state = "in_flight"
  /\ BeginSteering(o, job[p].attempt, working)
  /\ Goto(p, "intended")
  /\ UNCHANGED <<job, hand, busy, effects>>

\* Another attempt was first (with the same digest, or another one), the row
\* is no longer in flight, or the runtime changed.
CursorFenced(p) ==
  LET state == steering[job[p].row].state IN
  /\ pc[p] = "observed"
  /\ \/ state # "none" /\ Replays(p, state)
     \/ Decides(p, "ambiguous")

Mine(p, s) == MayRecord(job[p].row, job[p].attempt, s)

\* _refuse records a changed or unverified observation.
Refuse(p, s, step) ==
  /\ Mine(p, s)
  /\ RecordPhase(job[p].row, s)
  /\ Goto(p, step)
  /\ UNCHANGED <<job, hand, busy, effects>>

\* The second observation, before any input: it failed, or it changed.
CursorChanged(p) ==
  /\ pc[p] = "intended"
  /\ \/ Decides(p, "unavailable")
     \/ Refuse(p, "refused_pre_effect", "unavailable")

\* One terminal command; when it fails, its effect may have happened or not.
Command(p, e, step) ==
  /\ \/ Reaches(p, e) /\ (Goto(p, step) \/ Goto(p, "ambiguous"))
     \/ UNCHANGED effects /\ Goto(p, "ambiguous")
  /\ UNCHANGED <<tables, job, hand, busy>>

\* idle_submit: agent prompt.  working_steer: pane send-text.
CursorInput(p) ==
  /\ pc[p] = "intended"
  /\ IF steering[job[p].row].working
       THEN Command(p, "cursor_text", "typed")
       ELSE Command(p, "cursor_steering", "posted")

CursorRecordText(p) ==
  /\ pc[p] = "typed"
  /\ Mine(p, "text_sent")
  /\ RecordPhase(job[p].row, "text_sent")
  /\ Goto(p, "texted")
  /\ UNCHANGED <<job, hand, busy, effects>>

\* Mutant of CursorInterrupt: a change after the text counts as before it.
CursorInterruptPreEffect(p) ==
  /\ pc[p] = "texted"
  /\ \/ Decides(p, "unavailable")
     \/ Refuse(p, "refused_pre_effect", "ambiguous")
     \/ Command(p, "cursor_steering", "posted")

\* The observation before the interrupt: it failed, it changed, or the same
\* session is still working and gets its two Enter keys.
CursorInterrupt(p) ==
  /\ pc[p] = "texted"
  /\ \/ Decides(p, "unavailable")
     \/ Refuse(p, "refused_later", "ambiguous")
     \/ Command(p, "cursor_steering", "posted")

\* The observation after the effect: it failed, it proves nothing, or it
\* proves that the session took the input.
CursorConfirm(p) ==
  /\ pc[p] = "posted"
  /\ \/ Decides(p, "unavailable")
     \/ Refuse(p, "refused_later", "ambiguous")
     \/ Refuse(p, "effect_applied", "receipted")

(* How dispatch_source ends.                                               *)

\* A recorded prompt marks its Shotcaller busy, unless the mark of a later
\* moment is already there.
MarkBusy(k, o) ==
  IF k = "direct_prompt" /\ o \in Inbox THEN busy' \in {busy, TRUE} ELSE busy' = busy

Acknowledge(p) ==
  LET o == job[p].row
      k == job[p].channel IN
  /\ pc[p] = "receipted"
  /\ \/ AcknowledgesAgain(o, k) /\ UNCHANGED busy
     \/ AcknowledgesFirst(o, Dispatcher[p], job[p].fence, k) /\ MarkBusy(k, o)
  /\ AcknowledgeRows({o}, k)
  /\ Finish(p)
  /\ UNCHANGED <<hand, effects>>

Await(p) ==
  LET o == job[p].row IN
  /\ pc[p] = "ambiguous"
  /\ Holds(o, Dispatcher[p], job[p].fence)
  /\ Suspend(o)
  /\ Finish(p)
  /\ UNCHANGED <<hand, busy, effects>>

Fail(p) ==
  LET o == job[p].row IN
  /\ pc[p] = "unavailable"
  /\ Holds(o, Dispatcher[p], job[p].fence)
  /\ FailRow(o)
  /\ Finish(p)
  /\ UNCHANGED <<hand, busy, effects>>

\* delivery_fenced, receipt_conflict, cursor_steering_receipt_mismatch.
Fenced(p) ==
  LET o == job[p].row
      k == job[p].channel IN
  /\ \/ pc[p] = "receipted"
        /\ ~AcknowledgesAgain(o, k)
        /\ ~AcknowledgesFirst(o, Dispatcher[p], job[p].fence, k)
     \/ pc[p] \in {"unavailable", "ambiguous"} /\ ~Holds(o, Dispatcher[p], job[p].fence)
  /\ Finish(p)
  /\ UNCHANGED <<tables, hand, busy, effects>>

\* The process dies between two of its steps.
Crash(p) ==
  /\ pc[p] # "idle"
  /\ Finish(p)
  /\ UNCHANGED <<tables, hand, busy, effects>>

-----------------------------------------------------------------------------
(* The recipient.                                                          *)

\* One transaction marks the reader busy and leases every due row to it.
ReadInbox(r) ==
  LET due == {o \in Inbox : Dispatchable(o) /\ tries[o] < MaxAttempts} IN
  /\ hand[r] = {}
  /\ busy' = TRUE
  /\ ClaimRows(due, InboxHolder)
  /\ hand' = [hand EXCEPT ![r] =
       {[row |-> o, fence |-> NextFence(o), attempt |-> tries[o] + 1] : o \in due}]
  /\ effects' = [o \in Rows |-> IF o \in due
                                THEN effects[o] \cup {<<tries[o] + 1, "inbox_read">>}
                                ELSE effects[o]]
  /\ UNCHANGED <<pc, job>>

\* Every item must pass, or the whole acknowledgement rolls back.
Acceptable(i) ==
  /\ ~lease[i.row].expired
  /\ \/ AcknowledgesAgain(i.row, "inbox_read")
     \/ AcknowledgesFirst(i.row, InboxHolder, i.fence, "inbox_read")

AcknowledgeInbox(r) ==
  /\ hand[r] # {}
  /\ \A i \in hand[r] : Acceptable(i)
  /\ AcknowledgeRows({i.row : i \in hand[r]}, "inbox_read")
  /\ hand' = [hand EXCEPT ![r] = {}]
  /\ UNCHANGED <<pc, job, busy, effects>>

\* The reader was interrupted, or its acknowledgement was refused.
DropHand(r) ==
  /\ hand[r] # {}
  /\ hand' = [hand EXCEPT ![r] = {}]
  /\ UNCHANGED <<tables, pc, job, busy, effects>>

\* Mutant of RecoverRead: any row without a live lease can be recovered.
RecoverReadAnyState(o) ==
  /\ o \in Inbox
  /\ ~LiveLease(o)
  /\ RecoverRow(o)
  /\ effects' = [effects EXCEPT ![o] = @ \cup {<<tries[o], "recovery_read">>}]
  /\ UNCHANGED <<pc, job, hand, busy>>

\* reconcile_received_outbox by the live Shotcaller the row is addressed to.
RecoverRead(o) ==
  /\ o \in Inbox
  /\ receipt[o] = "none"
  /\ outbox[o].state = "awaiting_receipt"
  /\ ~LiveLease(o)
  /\ RecoverRow(o)
  /\ effects' = [effects EXCEPT ![o] = @ \cup {<<tries[o], "recovery_read">>}]
  /\ UNCHANGED <<pc, job, hand, busy>>

\* An allowed Stop is the only thing that clears observed work.
FinishWork ==
  /\ busy
  /\ busy' = FALSE
  /\ UNCHANGED <<tables, pc, job, hand, effects>>

\* The launch records that the Champion has its context.
SettleActivation(o) ==
  /\ o \in Activation
  /\ receipt[o] = "none"
  /\ outbox[o].state = "pending"
  /\ SettleRow(o)
  /\ effects' = [effects EXCEPT ![o] = @ \cup {<<tries[o], "assignment_context">>}]
  /\ UNCHANGED <<pc, job, hand, busy>>

-----------------------------------------------------------------------------
(* The system.                                                             *)

\* What a live dispatcher does next, once it has started.
WorkerStep(p) ==
  \/ ClaimOutbox(p) \/ ClaimDelivered(p) \/ ClaimInterrupted(p) \/ ClaimRefused(p)
  \/ ResolveTarget(p) \/ NoTarget(p)
  \/ Push(p) \/ PushNothing(p) \/ PushReturns(p)
  \/ CursorLookup(p) \/ CursorFenced(p) \/ CursorChanged(p) \/ CursorInput(p)
  \/ \E working \in BOOLEAN : CursorBegin(p, working)
  \/ CursorRecordText(p) \/ CursorInterrupt(p) \/ CursorConfirm(p)
  \/ Acknowledge(p) \/ Await(p) \/ Fail(p) \/ Fenced(p)

Time == /\ \E o \in Rows : ExpireLease(o) \/ BecomeDue(o)
        /\ UNCHANGED <<pc, job, hand, busy, effects>>

Next ==
  \/ \E p \in Workers, o \in Rows : Begin(p, o)
  \/ \E p \in Workers : WorkerStep(p)
  \/ \E p \in Workers : Crash(p)
  \/ \E r \in Readers : ReadInbox(r)
  \/ \E r \in Readers : AcknowledgeInbox(r)
  \/ \E r \in Readers : DropHand(r)
  \/ \E o \in Rows : Silence(o)
  \/ \E o \in Rows : RecoverRead(o)
  \/ \E o \in Rows : SettleActivation(o)
  \/ FinishWork
  \/ Time

Spec == Init /\ [][Next]_vars
=============================================================================
