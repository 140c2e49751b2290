------------------------------ MODULE Launch ------------------------------
(***************************************************************************)
(* Visible Champion launches: concurrent and retried `league assign run`   *)
(* processes, the endpoints they open in the multiplexer, the supervisor   *)
(* that observes runtimes, the Champions that report their tasks, and the  *)
(* operator who settles what stayed cleanup_pending.                       *)
(***************************************************************************)
EXTENDS Assignments

VARIABLES
  job,           \* per launcher: where it is, and what it read and decided
  endpoint,      \* per launcher: the endpoint its adapter created
  sent           \* history, per assignment: how often its context was sent

vars == <<tables, job, endpoint, sent>>

Steps == {"idle", "prepare", "mark", "launch", "placed", "refuse", "activate", "undo",
          "clean", "block", "deliver", "record", "failcontext", "cleanup", "close",
          "release", "settle", "title", "failtitle", "done", "dead"}

NoJob == [pc |-> "idle", a |-> NoAssignment, names |-> {}, told |-> FALSE,
          version |-> 0, class |-> "none", required |-> FALSE, proven |-> FALSE]

Jobs ==
  [pc : Steps, a : Assignments \cup {NoAssignment}, names : SUBSET Callsigns,
   told : BOOLEAN, version : Nat, class : Failures \cup {"none"},
   required : BOOLEAN, proven : BOOLEAN]

TypeOK ==
  /\ TablesType
  /\ job \in [Launchers -> Jobs]
  /\ endpoint \in [Launchers -> {"none", "placed", "running", "closed"}]
  /\ sent \in [Assignments -> Nat]

Init ==
  /\ TablesInit
  /\ job = [p \in Launchers |-> NoJob]
  /\ endpoint = [p \in Launchers |-> "none"]
  /\ sent = [a \in Assignments |-> 0]

-----------------------------------------------------------------------------
At(p, s) == job[p].pc = s

Goto(p, s) == job' = [job EXCEPT ![p].pc = s]

\* The routing name of an endpoint is the callsign of its assignment.
RouteName(p) == reservation[job[p].a].callsign

\* The launchers whose agent answers to the name of p, in the multiplexer.
Matching(p) == {q \in Launchers : endpoint[q] = "running" /\ RouteName(q) = RouteName(p)}

OccupiedNames == {RouteName(q) : q \in {q \in Launchers : endpoint[q] = "running"}}

-----------------------------------------------------------------------------
(* The launcher up to activation.                                          *)

\* VisibleChampionLaunchService.launch reads the launch context, and assign
\* the names in use, before the reservation.
Start(p, a) ==
  /\ At(p, "idle")
  /\ job' = [job EXCEPT ![p] = [@ EXCEPT !.pc = "prepare", !.a = a, !.names = OccupiedNames,
                                         !.told = a \in context, !.version = assignment[a].version]]
  /\ UNCHANGED <<tables, endpoint, sent>>

\* prepare_assignment of a new assignment.
Prepare(p) ==
  LET a == job[p].a IN
  /\ At(p, "prepare")
  /\ assignment[a].state = "none"
  /\ IF Selectable(job[p].names) # {}
       THEN PrepareNew(a, job[p].names) /\ job' = [job EXCEPT ![p].pc = "mark", ![p].version = 1]
       ELSE Goto(p, "done") /\ UNCHANGED tables
  /\ UNCHANGED <<endpoint, sent>>

\* prepare_assignment of a known one returns its state; a launch whose context
\* was already delivered keeps the version it read at the start.
PrepareAgain(p) ==
  LET a == job[p].a
      s == assignment[a].state
  IN
  /\ At(p, "prepare")
  /\ s # "none"
  /\ job' = [job EXCEPT
       ![p].pc = CASE s = "pending" -> "mark"
                   [] s = "launching" -> "launch"
                   [] s = "active" -> IF job[p].told THEN "title" ELSE "deliver"
                   [] OTHER -> "done",
       ![p].version = IF s = "active" THEN @ ELSE assignment[a].version]
  /\ UNCHANGED <<tables, endpoint, sent>>

\* mark_assignment_launching; the other of two launchers finds it marked.
MarkLaunching(p) ==
  LET a == job[p].a
      v == job[p].version
  IN
  /\ At(p, "mark")
  /\ \/ /\ assignment[a].state = "pending" /\ assignment[a].version = v
        /\ MarkedLaunching(a)
        /\ job' = [job EXCEPT ![p].pc = "launch", ![p].version = v + 1]
     \/ /\ assignment[a].state = "launching" /\ assignment[a].version = v + 1
        /\ job' = [job EXCEPT ![p].pc = "launch", ![p].version = v + 1]
        /\ UNCHANGED tables
     \/ /\ ~(assignment[a].state = "pending" /\ assignment[a].version = v)
        /\ ~(assignment[a].state = "launching" /\ assignment[a].version = v + 1)
        /\ Goto(p, "done")
        /\ UNCHANGED tables
  /\ UNCHANGED <<endpoint, sent>>

\* Refusing a launch: assign blocks the assignment with what the error says.
Refuse(p, class, required, proven) ==
  job' = [job EXCEPT ![p].pc = "refuse", ![p].class = class, ![p].required = required,
                     ![p].proven = proven]

\* Mutant of PlaceEndpoint: only a LaunchAdapterError is caught.
PlaceEndpointUnwrapped(p) ==
  /\ At(p, "launch")
  /\ \/ /\ Matching(p) = {}
        /\ Goto(p, "placed")
        /\ endpoint' = [endpoint EXCEPT ![p] = "placed"]
     \/ /\ Matching(p) # {}
        /\ Refuse(p, "route", FALSE, FALSE)
        /\ UNCHANGED endpoint
     \/ /\ Goto(p, "done")
        /\ UNCHANGED endpoint
  /\ UNCHANGED <<tables, sent>>

\* VisibleAdapter.launch: the name must be free before a pane is placed.  A
\* placement that fails left nothing to clean up, which counts as proven; other
\* errors before any effect reach assign as unproven.
PlaceEndpoint(p) ==
  /\ At(p, "launch")
  /\ \/ /\ Matching(p) = {}
        /\ Goto(p, "placed")
        /\ endpoint' = [endpoint EXCEPT ![p] = "placed"]
     \/ /\ Matching(p) = {}
        /\ Refuse(p, "adapter", FALSE, TRUE)
        /\ UNCHANGED endpoint
     \/ /\ Matching(p) # {}
        /\ Refuse(p, "route", FALSE, FALSE)
        /\ UNCHANGED endpoint
     \/ /\ Refuse(p, "adapter", TRUE, FALSE)
        /\ UNCHANGED endpoint
  /\ UNCHANGED <<tables, sent>>

\* The adapter's cleanup of its own endpoint: it closes nothing when another
\* agent answers to the name, and may fail anyway.
CleansOwn(p, ok) ==
  /\ ok => Matching(p) \subseteq {p}
  /\ endpoint' = IF ok THEN [endpoint EXCEPT ![p] = "closed"] ELSE endpoint

\* `herdr agent start`, and the verification of what started; on failure the
\* adapter cleans up and reports whether that was proven.
StartAgent(p) ==
  /\ At(p, "placed")
  /\ \/ /\ Matching(p) = {}
        /\ endpoint' = [endpoint EXCEPT ![p] = "running"]
        /\ Goto(p, "activate") \/ Refuse(p, "adapter", TRUE, FALSE)
     \/ \E ok \in BOOLEAN : CleansOwn(p, ok) /\ Refuse(p, "adapter", TRUE, ok)
  /\ UNCHANGED <<tables, sent>>

Created(p) == endpoint[p] # "none"

\* block_assignment inside assign.  A refusal of the store, when the adapter
\* created an endpoint, ends in the outer handler.
RefuseLaunch(p) ==
  LET a == job[p].a
      v == job[p].version
  IN
  /\ At(p, "refuse")
  /\ \/ /\ MayBlock(a, v, job[p].class, job[p].required, job[p].proven)
        /\ Blocked(a, job[p].class, job[p].required, job[p].proven)
        /\ job' = [job EXCEPT
             ![p].version = v + 1,
             ![p].pc = IF Target(job[p].required, job[p].proven) = "cleanup_pending" /\ Created(p)
                         THEN "clean" ELSE "done"]
     \/ /\ BlockedAlready(a, v, job[p].class, job[p].required, job[p].proven)
        /\ Goto(p, "done")
        /\ UNCHANGED tables
     \/ /\ ~MayBlock(a, v, job[p].class, job[p].required, job[p].proven)
        /\ ~BlockedAlready(a, v, job[p].class, job[p].required, job[p].proven)
        /\ Goto(p, IF Created(p) THEN "undo" ELSE "done")
        /\ UNCHANGED tables
  /\ UNCHANGED <<endpoint, sent>>

\* Mutant of Activate: for an active assignment it is a retry that only records
\* the endpoint anew.
ActivateAgain(p) ==
  LET a == job[p].a IN
  /\ At(p, "activate")
  /\ \/ MayActivate(a, job[p].version) /\ Activated(a, p)
     \/ /\ assignment[a].state = "active"
        /\ accepted' = [accepted EXCEPT ![a] = p]
        /\ UNCHANGED <<assignment, task, context, cleanup, order, slot, reservation, runtime>>
  /\ Goto(p, "deliver")
  /\ UNCHANGED <<endpoint, sent>>

\* activate_assignment.  A receipt the store does not accept as exact is
\* refused as unproven; any other refusal ends in the outer handler.
Activate(p) ==
  LET a == job[p].a IN
  /\ At(p, "activate")
  /\ \/ /\ MayActivate(a, job[p].version)
        /\ Activated(a, p)
        /\ Goto(p, "deliver")
     \/ /\ MayActivate(a, job[p].version)
        /\ Refuse(p, "receipt", TRUE, FALSE)
        /\ UNCHANGED tables
     \/ /\ ~MayActivate(a, job[p].version)
        /\ Goto(p, "undo")
        /\ UNCHANGED tables
  /\ UNCHANGED <<endpoint, sent>>

-----------------------------------------------------------------------------
(* Failed launches.                                                        *)

\* The outer handler of launch: read the version, clean up, then block.
UndoLaunch(p) ==
  /\ At(p, "undo")
  /\ \E ok \in BOOLEAN :
       /\ CleansOwn(p, ok)
       /\ job' = [job EXCEPT ![p].pc = "block", ![p].version = assignment[job[p].a].version,
                             ![p].class = "conflict", ![p].required = TRUE, ![p].proven = ok]
  /\ UNCHANGED <<tables, sent>>

\* After a cleanup_pending outcome: clean up unless the assignment was accepted
\* meanwhile, and block again once that is proven.
CleanLaunch(p) ==
  LET a == job[p].a IN
  /\ At(p, "clean")
  /\ \/ /\ accepted[a] = NoLauncher
        /\ CleansOwn(p, TRUE)
        /\ job' = [job EXCEPT ![p].pc = "block", ![p].class = assignment[a].failure,
                              ![p].required = TRUE, ![p].proven = TRUE]
     \/ /\ Goto(p, "done")
        /\ UNCHANGED endpoint
  /\ UNCHANGED <<tables, sent>>

\* The last block_assignment of launch; its refusal ends the command.
BlockLaunch(p) ==
  LET a == job[p].a IN
  /\ At(p, "block")
  /\ IF MayBlock(a, job[p].version, job[p].class, job[p].required, job[p].proven)
       THEN Blocked(a, job[p].class, job[p].required, job[p].proven)
       ELSE UNCHANGED tables
  /\ Goto(p, "done")
  /\ UNCHANGED <<endpoint, sent>>

-----------------------------------------------------------------------------
(* The context, and the title of a retry.                                  *)

\* deliver_context sends to the endpoint of the acceptance receipt, then
\* restores the title, which it can do for an endpoint of its own only.
DeliverContext(p) ==
  LET a == job[p].a
      q == accepted[a]
  IN
  /\ At(p, "deliver")
  /\ \/ /\ endpoint[q] = "running"
        /\ sent' = [sent EXCEPT ![a] = @ + 1]
        /\ \/ q = p /\ job' = [job EXCEPT ![p].pc = "record", ![p].version = assignment[a].version]
           \/ job' = [job EXCEPT ![p].pc = "failcontext", ![p].version = assignment[a].version]
     \/ /\ job' = [job EXCEPT ![p].pc = "failcontext", ![p].version = assignment[a].version]
        /\ UNCHANGED sent
  /\ UNCHANGED <<tables, endpoint>>

MayRecordContext(a, v) ==
  assignment[a].state = "active" /\ assignment[a].version = v /\ a \notin context

\* record_assignment_context_delivery; its refusal ends the command.
RecordContext(p) ==
  LET a == job[p].a IN
  /\ At(p, "record")
  /\ IF MayRecordContext(a, job[p].version) THEN ContextRecorded(a) ELSE UNCHANGED tables
  /\ Goto(p, "done")
  /\ UNCHANGED <<endpoint, sent>>

\* fail_assignment_context_delivery: of an active, undelivered assignment.
MayFailContext(a, v) ==
  assignment[a].state = "active" /\ assignment[a].version = v /\ a \notin context

FailedWith(a, class) == assignment[a].state = "cleanup_pending" /\ assignment[a].failure = class

\* fail_assignment_context_delivery; the version of what it left is kept.
FailContext(p) ==
  LET a == job[p].a IN
  /\ At(p, "failcontext")
  /\ \/ /\ MayFailContext(a, job[p].version)
        /\ FailedAfterActivation(a, "context", "failed_launch_context")
        /\ job' = [job EXCEPT ![p].pc = "cleanup", ![p].version = @ + 1]
     \/ /\ FailedWith(a, "context")
        /\ job' = [job EXCEPT ![p].pc = "cleanup", ![p].version = assignment[a].version]
        /\ UNCHANGED tables
     \/ /\ ~MayFailContext(a, job[p].version) /\ ~FailedWith(a, "context")
        /\ Goto(p, "done")
        /\ UNCHANGED tables
  /\ UNCHANGED <<endpoint, sent>>

\* adapter.cleanup(receipt) of the accepted endpoint q: proven for an own
\* endpoint that is alone on its name, and for one that is already gone.
CleanContext(p) ==
  LET q == accepted[job[p].a] IN
  /\ At(p, "cleanup")
  /\ \/ /\ \/ q = p /\ Matching(p) \subseteq {p}
           \/ Matching(p) = {}
        /\ endpoint' = [endpoint EXCEPT ![q] = "closed"]
        /\ Goto(p, "close")
     \/ /\ Goto(p, "done")
        /\ UNCHANGED endpoint
  /\ UNCHANGED <<tables, sent>>

\* close_runtime_for_cleanup, release_callsign, settle_assignment_launch_cleanup:
\* three transactions, and the first refusal leaves cleanup_pending.
CloseRuntime(p) ==
  LET a == job[p].a IN
  /\ At(p, "close")
  /\ IF MayCloseRuntime(a)
       THEN ClosedRuntime(a) /\ Goto(p, "release")
       ELSE Goto(p, "done") /\ UNCHANGED tables
  /\ UNCHANGED <<endpoint, sent>>

ReleaseCallsign(p) ==
  LET a == job[p].a IN
  /\ At(p, "release")
  /\ \/ /\ MayRelease(a, LaunchCleanup)
        /\ Released(a, LaunchCleanup)
        /\ Goto(p, "settle")
     \/ /\ ~MayRelease(a, LaunchCleanup)
        /\ Goto(p, IF ReleasedAlready(a, LaunchCleanup) THEN "settle" ELSE "done")
        /\ UNCHANGED tables
  /\ UNCHANGED <<endpoint, sent>>

SettleLaunch(p) ==
  LET a == job[p].a IN
  /\ At(p, "settle")
  /\ IF MaySettleLaunch(a, job[p].version, LaunchCleanup)
       THEN LaunchSettled(a, LaunchCleanup)
       ELSE UNCHANGED tables
  /\ Goto(p, "done")
  /\ UNCHANGED <<endpoint, sent>>

\* verify_active_title of a retry after the context was delivered.
VerifyTitle(p) ==
  /\ At(p, "title")
  /\ \/ endpoint[accepted[job[p].a]] = "running" /\ Goto(p, "done")
     \/ Goto(p, "failtitle")
  /\ UNCHANGED <<tables, endpoint, sent>>

\* fail_assignment_title_validation, with the version read at the start.
FailTitle(p) ==
  LET a == job[p].a IN
  /\ At(p, "failtitle")
  /\ IF assignment[a].state = "active" /\ assignment[a].version = job[p].version /\ a \in context
       THEN FailedAfterActivation(a, "title", "failed_launch_title_validation")
       ELSE UNCHANGED tables
  /\ Goto(p, "done")
  /\ UNCHANGED <<endpoint, sent>>

LauncherStep(p) ==
  \/ Prepare(p) \/ PrepareAgain(p) \/ MarkLaunching(p) \/ PlaceEndpoint(p) \/ StartAgent(p)
  \/ RefuseLaunch(p) \/ Activate(p) \/ UndoLaunch(p) \/ CleanLaunch(p) \/ BlockLaunch(p)
  \/ DeliverContext(p) \/ RecordContext(p) \/ FailContext(p) \/ CleanContext(p)
  \/ CloseRuntime(p) \/ ReleaseCallsign(p) \/ SettleLaunch(p) \/ VerifyTitle(p) \/ FailTitle(p)

\* The process is killed.  What it opened stays open.
KillLauncher(p) ==
  /\ job[p].pc \notin {"idle", "done", "dead"}
  /\ Goto(p, "dead")
  /\ UNCHANGED <<tables, endpoint, sent>>

-----------------------------------------------------------------------------
(* The others.                                                             *)

\* An agent exits, or its user closes the pane.
EndpointExits(p) ==
  /\ endpoint[p] = "running"
  /\ endpoint' = [endpoint EXCEPT ![p] = "closed"]
  /\ UNCHANGED <<tables, job, sent>>

\* A Champion that got its context reports its task (transition_task).
ReportTask(a, s) ==
  /\ sent[a] > 0
  /\ endpoint[accepted[a]] = "running"
  /\ MayTransition(a, s)
  /\ Transitioned(a, s)
  /\ UNCHANGED <<job, endpoint, sent>>

\* _apply_runtime_observation registers what the supervisor saw twice; the
\* candidates are active assignments whose Champion is not retired.
ObserveRuntime(a) ==
  /\ assignment[a].state = "active"
  /\ reservation[a].state = "active"
  /\ runtime' = [runtime EXCEPT ![a] =
                   IF endpoint[accepted[a]] = "running" THEN "active" ELSE "failed"]
  /\ UNCHANGED <<assignment, accepted, context, task, cleanup, order, slot, reservation,
                 job, endpoint, sent>>

\* reconcile_assignment_runtime, by the supervisor or an operator.
ReconcileRuntime(a) ==
  /\ assignment[a].state = "active"
  /\ runtime[a] # "active"
  /\ Reconciled(a)
  /\ UNCHANGED <<job, endpoint, sent>>

\* Every endpoint of the assignment is gone: what an operator proves.
EndpointsGone(a) == \A p \in Launchers : job[p].a = a => endpoint[p] \in {"none", "closed"}

\* `league assign block` with a proven cleanup of a failed launch.
OperatorBlock(a) ==
  /\ assignment[a].state = "cleanup_pending"
  /\ EndpointsGone(a)
  /\ MayBlock(a, assignment[a].version, assignment[a].failure, TRUE, TRUE)
  /\ Blocked(a, assignment[a].failure, TRUE, TRUE)
  /\ UNCHANGED <<job, endpoint, sent>>

\* `league callsign rollback` before it, with the digest of that block.
OperatorRollback(a) ==
  /\ assignment[a].state = "cleanup_pending"
  /\ EndpointsGone(a)
  /\ reservation[a].state = "reserved"
  /\ RolledBack(a, FailureDigest(assignment[a].failure, TRUE))
  /\ UNCHANGED <<assignment, accepted, context, task, cleanup, runtime, job, endpoint, sent>>

\* The operator's close_runtime_for_cleanup, `league callsign release` and
\* `league assign settle-cleanup`, each a command of its own.
OperatorSettles(a) ==
  /\ assignment[a].state = "cleanup_pending"
  /\ accepted[a] # NoLauncher
  /\ EndpointsGone(a)
  /\ \/ MayCloseRuntime(a) /\ ClosedRuntime(a)
     \/ MayRelease(a, LaunchCleanup) /\ Released(a, LaunchCleanup)
     \/ MaySettleLaunch(a, assignment[a].version, LaunchCleanup) /\ LaunchSettled(a, LaunchCleanup)
  /\ UNCHANGED <<job, endpoint, sent>>

Next ==
  \/ \E p \in Launchers, a \in Assignments : Start(p, a)
  \/ \E p \in Launchers : LauncherStep(p) \/ KillLauncher(p) \/ EndpointExits(p)
  \/ \E a \in Assignments, s \in {"in_progress", "completed", "blocked"} : ReportTask(a, s)
  \/ \E a \in Assignments :
       \/ ObserveRuntime(a) \/ ReconcileRuntime(a)
       \/ OperatorBlock(a) \/ OperatorRollback(a) \/ OperatorSettles(a)

Spec == Init /\ [][Next]_vars

\* A launcher that is not killed runs to its end.
Running == \A p \in Launchers : WF_vars(LauncherStep(p))

FairSpec == Spec /\ Running
=============================================================================
