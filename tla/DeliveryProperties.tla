------------------------- MODULE DeliveryProperties -------------------------
(***************************************************************************)
(* What Delivery is checked against, and proved to satisfy.                *)
(***************************************************************************)
EXTENDS Delivery

\* A dispatch lease exists exactly while its row is in flight, whoever
\* claimed, failed, suspended, silenced or settled the row and in whatever
\* order: claim, fail, await, acknowledge, policy and context settlement each
\* write the two tables separately.
LeaseIffInFlight ==
  \A o \in Rows : Leased(o) <=> outbox[o].state = "in_flight"

\* A row is delivered exactly when its recipient receipt exists.  No late
\* failure, suspension or silence of another dispatcher takes a row with a
\* receipt out of 'delivered': none of them looks at the receipt.
DeliveredIffReceipt ==
  \A o \in Rows : outbox[o].state = "delivered" <=> receipt[o] # "none"

\* A row that needs no more delivery leaves no open delivery obligation to
\* block a later Stop, although each failure reopens the obligation.
SettledOwesNothing ==
  \A o \in Rows : outbox[o].state \in {"delivered", "cancelled"} => obligation[o] # "open"

\* A receipt is never invented: the effect it names reached the recipient in
\* some attempt, also when the dispatcher that sent it died and another one,
\* or the inbox, wrote the receipt.
ReceiptProvesEffect ==
  \A o \in Rows : receipt[o] # "none" => \E a \in 0..MaxAttempts : <<a, receipt[o]>> \in effects[o]

\* The tables of a delivery agree with each other and with the world in every
\* state: row and lease, row and receipt, row and obligation, receipt and
\* effect, after any steps of any dispatchers.
TablesAgree ==
  TypeOK /\ LeaseIffInFlight /\ DeliveredIffReceipt /\ SettledOwesNothing /\ ReceiptProvesEffect

\* The effects of a row that a terminal or socket executed.
Pushed(o) == {x \in effects[o] : x[2] \in {"watcher_event", "direct_prompt", "cursor_steering"}}

\* An owner stop reaches its target at most once: a dispatch found in flight
\* is suspended for reconciliation instead of being sent again.
OwnerStopOnce == \A o \in Control : Cardinality(Pushed(o)) <= 1

\* Prompt text reaches a Cursor terminal at most once per row, and at most one
\* submission, over all dispatchers, retries and crashes: the intent is
\* durable before the first input and is never replayed.
CursorInputOnce ==
  \A o \in Rows :
    /\ Cardinality({x \in effects[o] : x[2] = "cursor_text"}) <= 1
    /\ Cardinality({x \in effects[o] : x[2] = "cursor_steering"}) <= 1

\* The steering record never lies about the terminal: a proved refusal before
\* the effect means no input was given, an applied or acknowledged effect means
\* this very attempt submitted it, and acknowledged goes with the receipt.
SteeringRecordTrue ==
  \A o \in Rows :
    /\ steering[o].state = "refused_pre_effect" =>
         \A x \in effects[o] : x[2] \notin {"cursor_text", "cursor_steering"}
    /\ steering[o].state \in {"effect_applied", "acknowledged"} =>
         <<steering[o].attempt, "cursor_steering">> \in effects[o]
    /\ steering[o].state = "acknowledged" <=> receipt[o] = "cursor_steering"

\* A Cursor session is steered once, and the record says so: neither the input
\* is repeated nor the record wrong about it, wherever the process dies between
\* the intent, the text, the submission and the receipt.
CursorSteeredOnce == CursorInputOnce /\ SteeringRecordTrue

\* The attempt that wrote the result of a row is the one that claimed it last:
\* a dispatcher that lost its lease to another one never writes (section 8 of
\* docs/design/sqlite-request-lifecycle.md, "Each lease has its own fence").
ResultWriter(p) == pc[p] \in {"receipted", "unavailable", "ambiguous"} /\ pc'[p] = "idle"

OnlyLatestAttemptWrites ==
  [][\A p \in Workers : ResultWriter(p) /\ outbox' # outbox
       => job[p].attempt = tries[job[p].row]]_vars

\* DeliveryUnavailable says that no external effect occurred (its docstring in
\* request_services.py).
UnavailableMeansNoEffect ==
  \A p \in Workers : pc[p] = "unavailable" =>
    \A x \in effects[job[p].row] : x[1] # job[p].attempt

\* The executors of one owner stop (the Stop hook and the supervisor) share a
\* dispatcher_id and its fences repeat, yet none of them writes the result of
\* another's attempt: a stop in flight is never claimed a second time.
StopResultIsClaimants ==
  [][\A p \in Workers : ResultWriter(p) /\ job[p].row \in Control /\ outbox' # outbox
       => job[p].attempt = tries[job[p].row]]_vars

-----------------------------------------------------------------------------
(* Delivery implements the receipt contract.                               *)

Settlement(o) ==
  IF receipt[o] # "none" THEN receipt[o]
  ELSE IF outbox[o].state = "cancelled" THEN "withdrawn" ELSE "open"

Contract == INSTANCE ReceiptContract WITH
  Effects <- Reached,
  Witnessed <- {"recovery_read", "assignment_context"},
  happened <- [o \in Rows |-> {x[2] : x \in effects[o]}],
  settled <- [o \in Rows |-> Settlement(o)]

\* Every behaviour of Delivery is one the contract allows.
ImplementsContract == Contract!Spec

-----------------------------------------------------------------------------
(* Liveness.                                                               *)

Claiming(p, o) == pc[p] = "cleared" /\ job[p].row = o

\* A process that runs takes its steps; the clock passes every lease and retry
\* time; the supervisor keeps starting what its backlog queries return, and
\* is not killed every single time before it claims.
Running ==
  /\ \A p \in Workers : WF_vars(WorkerStep(p))
  /\ \A o \in Rows : WF_vars(Time /\ ExpireLease(o)) /\ WF_vars(Time /\ BecomeDue(o))
  /\ \A o \in Rows : SF_vars(\E p \in Workers : Begin(p, o))
  /\ \A o \in Rows : SF_vars(\E p \in Workers : Claiming(p, o) /\ WorkerStep(p))

\* The Shotcaller reads its inbox, and acknowledges what it read or gives up.
Reading ==
  \A r \in Readers : WF_vars(ReadInbox(r)) /\ WF_vars(AcknowledgeInbox(r) \/ DropHand(r))

LiveSpec == Spec /\ Running

ReadingSpec == LiveSpec /\ Reading

Exhausted(o) == tries[o] = MaxAttempts

\* Every update for a Shotcaller that keeps reading its inbox, and every owner
\* stop, is eventually delivered, withdrawn, or held for its recipient's
\* report, whichever dispatchers die and whichever leases they leave behind,
\* unless it used up the attempts of this model.
EveryRowSettles ==
  \A o \in Inbox \cup Control :
    <>(outbox[o].state \in {"awaiting_receipt", "delivered", "cancelled"} \/ Exhausted(o))

\* "A lost wake or crashed dispatcher leaves a durable pending row for
\* reconciliation" (docs/design/sqlite-request-lifecycle.md, section 9): a row
\* in flight does not stay in flight when its dispatcher has died.
InterruptedDispatchReturns ==
  \A o \in Rows : outbox[o].state = "in_flight" ~> (outbox[o].state # "in_flight" \/ Exhausted(o))
=============================================================================
