--------------------------- MODULE RequestProgress ---------------------------
(***************************************************************************)
(* Requests with the progress reports of their owners.  Routine progress is*)
(* buffered in request_progress_buffers, one aggregate per request for its *)
(* requester, until it is emitted with a later report, superseded by an    *)
(* immediate report or a return, or escalated as stalled by                *)
(* reconcile_request_progress.  That reconciliation reads the aggregates   *)
(* before its transaction begins.                                          *)
(*                                                                         *)
(* The clock enters through two facts: the aggregate is due (now >= due_at)*)
(* and its grace is over (now > grace_expires_at).  "pending" also stands  *)
(* for buffer state 'due', which every statement treats alike, and the     *)
(* obligation of kind request_progress_due that goes with it is left out.  *)
(***************************************************************************)
EXTENDS Requests

VARIABLES
  buffer,        \* per request: state of its progress aggregate
  reporter,      \* per request: owner_agent_id of the aggregate
  clock,         \* per request: whether the aggregate is early, due or late
  scan           \* per request: what a reconciliation read and has not yet used

progress == <<buffer, reporter, clock, scan>>

allVars == <<vars, progress>>

BufferStates == {"none", "pending", "emitted", "superseded", "escalated"}

Clocks == {"early", "due", "late"}

\* Nothing read; an aggregate that is early, due, or needs escalation; one
\* whose generation has been emitted since.
Scans == {"idle", "waiting", "due", "stalled", "emitted"}

\* The domains of the variables.
ProgressType ==
  /\ buffer \in [Requests -> BufferStates]
  /\ reporter \in [Requests -> Agents \cup {NoAgent}]
  /\ clock \in [Requests -> Clocks]
  /\ scan \in [Requests -> Scans]

ProgressInit ==
  /\ Init
  /\ buffer = [r \in Requests |-> "none"]
  /\ reporter = [r \in Requests |-> NoAgent]
  /\ clock = [r \in Requests |-> "early"]
  /\ scan = [r \in Requests |-> "idle"]

-----------------------------------------------------------------------------
(* emit_request_progress, by the claim holder at the current version.      *)

\* A report that is not the first of its interval is due when the aggregate
\* or the last report makes it due, or at a promised checkpoint before that.
BufferRoutine(w, r) ==
  /\ WritesCurrent(w, r)
  /\ buffer[r] = "pending" => clock[r] = "early"
  /\ buffer' = [buffer EXCEPT ![r] = "pending"]
  /\ reporter' = [reporter EXCEPT ![r] = owner[r]]
  /\ clock' = [clock EXCEPT ![r] = "early"]
  /\ UNCHANGED <<vars, scan>>

\* The report may have the generation a reconciliation read.
Emitted(r) == scan' \in {scan, [scan EXCEPT ![r] = IF @ = "stalled" THEN "emitted" ELSE @]}

\* A routine report that is due is emitted with what was buffered; its grace
\* is a parameter of the command.
EmitRoutine(w, r) ==
  /\ WritesCurrent(w, r)
  /\ buffer' = [buffer EXCEPT ![r] = "emitted"]
  /\ reporter' = [reporter EXCEPT ![r] = owner[r]]
  /\ \E c \in {"due", "late"} : clock' = [clock EXCEPT ![r] = c]
  /\ Emitted(r)
  /\ UNCHANGED vars

Supersede(r) ==
  buffer' = [buffer EXCEPT ![r] = IF @ = "pending" THEN "superseded" ELSE @]

\* An immediate report clears the aggregate.
EmitImmediate(w, r) ==
  /\ WritesCurrent(w, r)
  /\ Supersede(r)
  /\ Emitted(r)
  /\ UNCHANGED <<vars, reporter, clock>>

-----------------------------------------------------------------------------
(* reconcile_request_progress.                                             *)

OwnerLive(r) == \E w \in live : AgentOf[w] = reporter[r]

\* The claim or the runtime the report depends on is gone.
LeaseStalled(r) == ~OwnerLive(r) \/ claim[r] = NoWindow \/ r \in lapsed

\* Mutant of ScanProgress: only a lost lease escalates, never the grace time.
ScanLeasesOnly(r) ==
  /\ buffer[r] = "pending"
  /\ scan[r] = "idle"
  /\ scan' = [scan EXCEPT ![r] = IF LeaseStalled(r) THEN "stalled" ELSE "waiting"]
  /\ UNCHANGED <<vars, buffer, reporter, clock>>

\* The read, outside the transaction, of an aggregate that is still pending.
ScanProgress(r) ==
  /\ buffer[r] = "pending"
  /\ scan[r] = "idle"
  /\ scan' = [scan EXCEPT ![r] =
       IF LeaseStalled(r) \/ clock[r] = "late" THEN "stalled"
       ELSE IF clock[r] = "due" THEN "due" ELSE "waiting"]
  /\ UNCHANGED <<vars, buffer, reporter, clock>>

\* The transaction: it escalates what was read, or marks it due, whatever the
\* aggregate and the request have become since; a generation emitted in the
\* meantime conflicts and aborts it.
ReconcileProgress(r) ==
  /\ scan[r] # "idle"
  /\ scan' = [scan EXCEPT ![r] = "idle"]
  /\ buffer' = [buffer EXCEPT ![r] =
       CASE scan[r] = "stalled" -> "escalated"
         [] scan[r] = "due" -> "pending"
         [] OTHER -> @]
  /\ UNCHANGED <<vars, reporter, clock>>

TimePasses(r) ==
  /\ buffer[r] = "pending"
  /\ \/ clock[r] = "early" /\ clock' = [clock EXCEPT ![r] = "due"]
     \/ clock[r] = "due" /\ clock' = [clock EXCEPT ![r] = "late"]
  /\ UNCHANGED <<vars, buffer, reporter, scan>>

-----------------------------------------------------------------------------
\* A return supersedes the aggregate; no other step of a request touches it,
\* an answer, a cancellation, an offer and its acceptance included.
RequestStep ==
  \/ NotReturning /\ UNCHANGED progress
  \/ \E r \in Requests : Returning(r) /\ Supersede(r) /\ UNCHANGED <<reporter, clock, scan>>

Report(w, r) == BufferRoutine(w, r) \/ EmitRoutine(w, r) \/ EmitImmediate(w, r)

ProgressNext ==
  \/ RequestStep
  \/ \E r \in Requests, w \in Windows : Report(w, r)
  \/ \E r \in Requests : ScanProgress(r) \/ ReconcileProgress(r) \/ TimePasses(r)

ProgressSpec == ProgressInit /\ [][ProgressNext]_allVars

-----------------------------------------------------------------------------
(* What progress reporting promises.                                       *)

\* The owner keeps reconciling, and time passes.
Reconciling ==
  \A r \in Requests :
    WF_allVars(ScanProgress(r)) /\ WF_allVars(ReconcileProgress(r)) /\ WF_allVars(TimePasses(r))

ReconcilingSpec == ProgressSpec /\ Reconciling

\* Buffered progress does not stay silent: whatever happens to the request,
\* its owner and their runtimes, it is emitted, superseded or escalated.
NoSilentProgress ==
  \A r \in Requests : buffer[r] = "pending" ~> buffer[r] # "pending"

\* "An immediate or final event clears the pending routine aggregate"
\* (docs/research/orchestration-model-routing-policy-evidence.md): a request
\* that was answered or cancelled is not reported as stalled.
StalledIsUnfinished ==
  [][\A r \in Requests : buffer[r] # "escalated" /\ buffer'[r] = "escalated"
       => state[r] \notin Terminal]_allVars
=============================================================================
