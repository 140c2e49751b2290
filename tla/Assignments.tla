---------------------------- MODULE Assignments ----------------------------
(***************************************************************************)
(* The launch tables of the canonical store and the transactions on them:  *)
(* task_assignments, tasks, cleanup_obligations, the callsign queue with   *)
(* its callsign_assignments, and the runtime row of the Champion.  Each    *)
(* operator is one BEGIN IMMEDIATE block, one atomic step of the process   *)
(* that runs it.  Every assignment has its own task and Champion.          *)
(***************************************************************************)
EXTENDS Naturals, Sequences, SequencesExt

CONSTANTS
  Assignments,   \* task assignments, each with its task and its Champion
  NoAssignment,
  Callsigns,     \* the callsign pool of the role
  NoCallsign,
  Launchers,     \* processes of `league assign run`, each with one adapter
  NoLauncher

ASSUME AssignmentsAssumption ==
  /\ NoAssignment \notin Assignments
  /\ NoCallsign \notin Callsigns
  /\ NoLauncher \notin Launchers
  /\ IsFiniteSet(Callsigns)

VARIABLES
  assignment,    \* per assignment: state, version, failure class, cleanup receipt
  accepted,      \* per assignment: the launcher whose endpoint its acceptance
                 \* receipt names, or NoLauncher
  context,       \* assignments with an assignment_context_delivered event
  task,          \* per assignment: the state of its task
  cleanup,       \* per assignment: its cleanup_obligations row
  order,         \* callsigns that have a queue_position, in its order
  slot,          \* per callsign: callsign_queue state and reservation
  reservation,   \* per assignment: its callsign_assignments row
  runtime        \* per assignment: status of runtime:{champion}, "none" if absent

tables == <<assignment, accepted, context, task, cleanup, order, slot, reservation, runtime>>

\* Failure classes, by the step that names them.
Failures == {"route", "adapter", "receipt", "conflict", "context", "title", "stale_runtime"}

\* Receipt digests: of a failed launch, and of an exact launch cleanup.
Digests == [kind : {"failure"}, class : Failures, proven : BOOLEAN]
             \cup [kind : {"none", "launch"}, class : {"none"}, proven : BOOLEAN]

NoDigest == [kind |-> "none", class |-> "none", proven |-> FALSE]

FailureDigest(class, proven) == [kind |-> "failure", class |-> class, proven |-> proven]

LaunchCleanup == [kind |-> "launch", class |-> "none", proven |-> TRUE]

TerminalTasks == {"completed"}

Policies == {"none", "failed_launch", "failed_launch_context",
             "failed_launch_title_validation", "stale_assignment_runtime", "terminal_task"}

\* The rows of task_assignments, cleanup_obligations, callsign_queue and
\* callsign_assignments.
AssignmentRows ==
  [state : {"none", "pending", "launching", "active", "cleanup_pending", "blocked"},
   version : Nat, failure : Failures \cup {"none"}, receipt : Digests]

CleanupRows == [state : {"none", "pending", "cleanup_completed"}, policy : Policies]

QueueRows == [state : {"available", "reserved", "active"}, holder : Assignments \cup {NoAssignment}]

ReservationRows ==
  [state : {"none", "reserved", "active", "rolled_back", "released"},
   callsign : Callsigns \cup {NoCallsign}, digest : Digests]

TablesType ==
  /\ assignment \in [Assignments -> AssignmentRows]
  /\ accepted \in [Assignments -> Launchers \cup {NoLauncher}]
  /\ context \subseteq Assignments
  /\ task \in [Assignments -> {"none", "pending", "accepted", "in_progress", "completed", "blocked"}]
  /\ cleanup \in [Assignments -> CleanupRows]
  /\ order \in Seq(Callsigns) /\ IsInjective(order)
  /\ \A c \in Callsigns : slot[c].state = "active" <=> c \notin ToSet(order)
  /\ slot \in [Callsigns -> QueueRows]
  /\ reservation \in [Assignments -> ReservationRows]
  /\ runtime \in [Assignments -> {"none", "active", "failed", "closed"}]

TablesInit ==
  /\ assignment = [a \in Assignments |->
       [state |-> "none", version |-> 0, failure |-> "none", receipt |-> NoDigest]]
  /\ accepted = [a \in Assignments |-> NoLauncher]
  /\ context = {}
  /\ task = [a \in Assignments |-> "none"]
  /\ cleanup = [a \in Assignments |-> [state |-> "none", policy |-> "none"]]
  /\ order \in Bijection(1..Cardinality(Callsigns), Callsigns)
  /\ slot = [c \in Callsigns |-> [state |-> "available", holder |-> NoAssignment]]
  /\ reservation = [a \in Assignments |->
       [state |-> "none", callsign |-> NoCallsign, digest |-> NoDigest]]
  /\ runtime = [a \in Assignments |-> "none"]

-----------------------------------------------------------------------------
(* The callsign queue.                                                     *)

\* Positions of the queue that _availability may select.
Selectable(excluded) ==
  {i \in DOMAIN order : slot[order[i]].state = "available" /\ order[i] \notin excluded}

\* _availability: the callsign at the first of them.
IsFront(c, excluded) ==
  \E i \in Selectable(excluded) : order[i] = c /\ \A j \in Selectable(excluded) : i <= j

\* _reserve_in_transaction of a new identity.  The entry keeps its position.
Reserve(a, c) ==
  /\ slot' = [slot EXCEPT ![c] = [state |-> "reserved", holder |-> a]]
  /\ reservation' = [reservation EXCEPT ![a] =
                       [state |-> "reserved", callsign |-> c, digest |-> NoDigest]]
  /\ UNCHANGED order

\* Mutant of Confirm: the entry keeps its queue_position.
ConfirmInOrder(a) ==
  /\ slot' = [slot EXCEPT ![reservation[a].callsign] = [state |-> "active", holder |-> NoAssignment]]
  /\ reservation' = [reservation EXCEPT ![a].state = "active"]
  /\ UNCHANGED order

\* The callsign part of activate_assignment: the entry leaves the order.
Confirm(a) ==
  LET c == reservation[a].callsign IN
  /\ slot' = [slot EXCEPT ![c] = [state |-> "active", holder |-> NoAssignment]]
  /\ reservation' = [reservation EXCEPT ![a].state = "active"]
  /\ \E i \in DOMAIN order : order[i] = c /\ order' = RemoveAt(order, i)

\* _rollback_reserved_in_transaction: the callsign is available again where it
\* was.  A reservation that was rolled back with this digest stays as it is.
RolledBack(a, digest) ==
  IF reservation[a].state = "rolled_back"
    THEN UNCHANGED <<order, slot, reservation>>
    ELSE /\ slot' = [slot EXCEPT ![reservation[a].callsign] =
                       [state |-> "available", holder |-> NoAssignment]]
         /\ reservation' = [reservation EXCEPT ![a].state = "rolled_back", ![a].digest = digest]
         /\ UNCHANGED order

\* Mutant of MayRelease: the runtime may be live.
MayReleaseLive(a, digest) == reservation[a].state = "active"

\* release_callsign: an active callsign whose agent has no live runtime.
MayRelease(a, digest) == reservation[a].state = "active" /\ runtime[a] # "active"

ReleasedAlready(a, digest) == reservation[a].state = "released" /\ reservation[a].digest = digest

\* _release_active_in_transaction: the callsign goes to the tail.
Released(a, digest) ==
  LET c == reservation[a].callsign IN
  /\ slot' = [slot EXCEPT ![c] = [state |-> "available", holder |-> NoAssignment]]
  /\ reservation' = [reservation EXCEPT ![a].state = "released", ![a].digest = digest]
  /\ order' = Append(order, c)
  /\ UNCHANGED <<assignment, accepted, context, task, cleanup, runtime>>

-----------------------------------------------------------------------------
(* Assignments up to activation.                                           *)

\* prepare_assignment of an unknown assignment.
PrepareNew(a, excluded) ==
  /\ \E c \in Callsigns : IsFront(c, excluded) /\ Reserve(a, c)
  /\ assignment' = [assignment EXCEPT ![a].state = "pending", ![a].version = 1]
  /\ task' = [task EXCEPT ![a] = "pending"]
  /\ UNCHANGED <<accepted, context, cleanup, runtime>>

\* mark_assignment_launching
MarkedLaunching(a) ==
  /\ assignment' = [assignment EXCEPT ![a].state = "launching", ![a].version = @ + 1]
  /\ task' = [task EXCEPT ![a] = "accepted"]
  /\ UNCHANGED <<accepted, context, cleanup, order, slot, reservation, runtime>>

\* Mutant of MayActivate: the version and state are not compared.
MayActivateAnyway(a, v) == reservation[a].state = "reserved" /\ runtime[a] = "none"

\* What activate_assignment accepts: the launch it was started for, with its
\* reservation, and a runtime identity nobody registered.
MayActivate(a, v) ==
  /\ assignment[a].state = "launching"
  /\ assignment[a].version = v
  /\ reservation[a].state = "reserved"
  /\ runtime[a] = "none"

\* activate_assignment
Activated(a, p) ==
  /\ assignment' = [assignment EXCEPT ![a].state = "active", ![a].version = @ + 1]
  /\ accepted' = [accepted EXCEPT ![a] = p]
  /\ runtime' = [runtime EXCEPT ![a] = "active"]
  /\ task' = [task EXCEPT ![a] = "in_progress"]
  /\ Confirm(a)
  /\ UNCHANGED <<context, cleanup>>

-----------------------------------------------------------------------------
(* block_assignment.                                                       *)

\* _validate_failed_launch_rollback: an exact partial launch, never accepted.
ExactRollback(a, class, digest) ==
  /\ assignment[a].failure \in {"none", class}
  /\ assignment[a].state \in {"blocked", "cleanup_pending"} => assignment[a].failure = class
  /\ assignment[a].receipt \in {NoDigest, digest}
  /\ task[a] = CASE assignment[a].state = "pending" -> "pending"
                 [] assignment[a].state = "launching" -> "accepted"
                 [] OTHER -> "blocked"
  /\ \/ reservation[a].state = "rolled_back" /\ reservation[a].digest = digest
     \/ reservation[a].state = "reserved" /\ assignment[a].state # "blocked"
  /\ accepted[a] = NoLauncher
  /\ runtime[a] \in {"none", "closed"}

\* What a block that leaves nothing to clean has to show.
MaySettleBlocked(a, class, proven) ==
  /\ cleanup[a].policy \in {"none", "failed_launch"}
  /\ cleanup[a].state # "none" => proven
  /\ proven => ExactRollback(a, class, FailureDigest(class, TRUE))

Target(required, proven) == IF required /\ ~proven THEN "cleanup_pending" ELSE "blocked"

\* The retry of a settled block changes nothing.
BlockedAlready(a, v, class, required, proven) ==
  /\ Target(required, proven) = "blocked" /\ proven
  /\ MaySettleBlocked(a, class, proven)
  /\ assignment[a].state = "blocked"
  /\ assignment[a].receipt = FailureDigest(class, TRUE)
  /\ assignment[a].version \in {v, v + 1}
  /\ cleanup[a].state = "cleanup_completed"

\* What block_assignment accepts.  (An assignment that is blocked with a
\* pending obligation exists only in stores older than the settlement.)
MayBlock(a, v, class, required, proven) ==
  /\ assignment[a].version = v
  /\ assignment[a].state \in {"pending", "launching", "cleanup_pending"}
  /\ Target(required, proven) = "blocked" =>
       /\ MaySettleBlocked(a, class, proven)
       /\ \/ reservation[a].state = "reserved"
          \/ /\ reservation[a].state = "rolled_back"
             /\ reservation[a].digest = FailureDigest(class, proven)

\* _settle_failed_launch_obligation, of an obligation that was scheduled.
SettledObligation(a) ==
  IF cleanup[a].state = "none" THEN cleanup[a] ELSE [cleanup[a] EXCEPT !.state = "cleanup_completed"]

\* The insert of block_assignment keeps the policy of a row that exists.
OwedCleanup(a) ==
  [state |-> "pending",
   policy |-> IF cleanup[a].state = "none" THEN "failed_launch" ELSE cleanup[a].policy]

\* block_assignment
Blocked(a, class, required, proven) ==
  LET settled == Target(required, proven) = "blocked"
      digest == FailureDigest(class, proven)
  IN
  /\ assignment' = [assignment EXCEPT
       ![a] = [state |-> Target(required, proven), version |-> @.version + 1, failure |-> class,
               receipt |-> IF settled /\ proven /\ cleanup[a].state # "none"
                             THEN digest ELSE @.receipt]]
  /\ task' = [task EXCEPT ![a] = "blocked"]
  /\ cleanup' = [cleanup EXCEPT ![a] = IF ~settled THEN OwedCleanup(a)
                                       ELSE IF proven THEN SettledObligation(a) ELSE @]
  /\ IF settled THEN RolledBack(a, digest) ELSE UNCHANGED <<order, slot, reservation>>
  /\ UNCHANGED <<accepted, context, runtime>>

-----------------------------------------------------------------------------
(* Failures after activation.                                              *)

\* record_assignment_context_delivery
ContextRecorded(a) ==
  /\ context' = context \cup {a}
  /\ assignment' = [assignment EXCEPT ![a].version = @ + 1]
  /\ UNCHANGED <<accepted, task, cleanup, order, slot, reservation, runtime>>

\* fail_assignment_context_delivery, fail_assignment_title_validation
FailedAfterActivation(a, class, policy) ==
  /\ assignment' = [assignment EXCEPT ![a].state = "cleanup_pending", ![a].version = @ + 1,
                                      ![a].failure = class]
  /\ task' = [task EXCEPT ![a] = "blocked"]
  /\ cleanup' = [cleanup EXCEPT ![a] = [state |-> "pending", policy |-> policy]]
  /\ UNCHANGED <<accepted, context, order, slot, reservation, runtime>>

\* close_runtime_for_cleanup: a failed runtime is not eligible.
MayCloseRuntime(a) == runtime[a] \in {"active", "closed"}

ClosedRuntime(a) ==
  /\ runtime' = [runtime EXCEPT ![a] = "closed"]
  /\ UNCHANGED <<assignment, accepted, context, task, cleanup, order, slot, reservation>>

\* Mutant of MaySettleLaunch: the callsign may still be held.
MaySettleLaunchHeld(a, v, digest) ==
  /\ assignment[a].state = "cleanup_pending"
  /\ assignment[a].version = v
  /\ accepted[a] # NoLauncher

\* settle_assignment_launch_cleanup: runtime closed, callsign released.
MaySettleLaunch(a, v, digest) ==
  /\ assignment[a].state = "cleanup_pending"
  /\ assignment[a].version = v
  /\ accepted[a] # NoLauncher
  /\ runtime[a] = "closed"
  /\ ReleasedAlready(a, digest)

LaunchSettled(a, digest) ==
  /\ assignment' = [assignment EXCEPT ![a].state = "blocked", ![a].version = @ + 1,
                                      ![a].receipt = digest]
  /\ cleanup' = [cleanup EXCEPT ![a].state = "cleanup_completed"]
  /\ UNCHANGED <<accepted, context, task, order, slot, reservation, runtime>>

\* reconcile_assignment_runtime leaves a terminal task alone.
TaskAfterLoss(a) == IF task[a] \in TerminalTasks THEN task[a] ELSE "blocked"

\* reconcile_assignment_runtime of an active assignment whose runtime row is
\* not live.
Reconciled(a) ==
  /\ assignment' = [assignment EXCEPT ![a].state = "cleanup_pending", ![a].version = @ + 1,
                                      ![a].failure = "stale_runtime"]
  /\ task' = [task EXCEPT ![a] = TaskAfterLoss(a)]
  /\ cleanup' = [cleanup EXCEPT ![a] =
                   [state |-> "pending", policy |-> "stale_assignment_runtime"]]
  /\ UNCHANGED <<accepted, context, order, slot, reservation, runtime>>

-----------------------------------------------------------------------------
(* Task transitions.                                                       *)

\* _validated_transition_context: a live runtime, on an active assignment or
\* on one recovered from a lost runtime, and then only to complete.
MayTransition(a, s) ==
  /\ task[a] \notin TerminalTasks
  /\ runtime[a] = "active"
  /\ \/ assignment[a].state = "active"
     \/ /\ assignment[a].state = "cleanup_pending"
        /\ assignment[a].failure = "stale_runtime"
        /\ s = "completed"

\* transition_task, with the obligation _persist_task_cleanup adds unless the
\* task has one.
Transitioned(a, s) ==
  /\ task' = [task EXCEPT ![a] = s]
  /\ cleanup' = [cleanup EXCEPT ![a] =
                   IF s \in TerminalTasks \cup {"blocked"} /\ @.state = "none"
                     THEN [state |-> "pending", policy |-> "terminal_task"] ELSE @]
  /\ UNCHANGED <<assignment, accepted, context, order, slot, reservation, runtime>>
=============================================================================
