------------------------------ MODULE Rollover ------------------------------
(***************************************************************************)
(* The rollover of a Squad from one Shotcaller to the next, over the       *)
(* requests of Requests: prepare freezes the bindings of the Champions, the*)
(* successor acknowledges them, one transaction switches the owner, and the*)
(* predecessor is drained: its Champions, requests and prompts are moved   *)
(* one command at a time while everybody goes on working.                  *)
(*                                                                         *)
(* squads.version changes with owner_fence only, so one counter stands for *)
(* both.  A request's owner_squad_id and pending_owner_squad_id are told   *)
(* apart as "this Squad" or not.                                           *)
(***************************************************************************)
EXTENDS Naturals, Requests

CONSTANTS
  Line,          \* the Shotcallers that may own the Squad
  First,         \* its owner in the beginning
  Champions,     \* the Champions of the Squad
  Operations,    \* rollover operations
  MaxBinding     \* bound on the changes of a Champion's binding

ASSUME RolloverAssumption ==
  /\ Line \subseteq Agents
  /\ First \in Line
  /\ MaxBinding \in Nat

VARIABLES
  squad,         \* the owner of the Squad and the owner_fence
  intake,        \* shotcaller_intake: state and fence
  callsign,      \* the callsign_assignments row of each Shotcaller; released: retired
  operation,     \* the rollover_operations rows
  frozen,        \* per operation: the bindings in its current snapshot
  coordinator,   \* per Champion: coordinator_agent_id and shotcaller_agent_id
  binding,       \* per Champion: the rest of what binding_digest covers
  task,          \* per Champion: its task is active, settled, or it is retired
  report,        \* per Champion: its undelivered outbox row
  prompt,        \* per request to be: the owner of its untriaged prompt
  inSquad,       \* requests whose owner_squad_id is the Squad
  addressee,     \* per request: the recipient of its last route event
  keeper         \* per request: the owner of its open return obligation

squadVars == <<squad, intake, callsign, operation, frozen>>
championVars == <<coordinator, binding, task, report>>
requestVars == <<prompt, inSquad, addressee, keeper>>
rolloverVars == <<vars, squadVars, championVars, requestVars>>

None == [state |-> "none", from |-> NoAgent, to |-> NoAgent, fence |-> 0, expired |-> FALSE]

NoReport == [state |-> "none", to |-> NoAgent]

Committed == {"switched", "completed"}

\* A binding is what binding_digest tells apart.
Bindings == Agents \X (0..MaxBinding)

\* The rows in their domains; only what may serve has an accepting intake.
RolloverTypeOK ==
  /\ TypeOK
  /\ squad \in [owner : Line, fence : Nat]
  /\ intake \in [Line -> [state : {"none", "accepting", "draining", "closed"}, fence : Nat]]
  /\ callsign \in [Line -> {"reserved", "active", "released"}]
  /\ operation \in [Operations ->
       [state : {"none", "prepared", "acknowledged", "switched", "completed", "aborted"},
        from : Line \cup {NoAgent}, to : Line \cup {NoAgent}, fence : Nat, expired : BOOLEAN]]
  /\ \A o \in Operations : frozen[o] \in [DOMAIN frozen[o] -> Bindings] /\ DOMAIN frozen[o] \subseteq Champions
  /\ coordinator \in [Champions -> Line]
  /\ binding \in [Champions -> 0..MaxBinding]
  /\ task \in [Champions -> {"active", "settled", "retired"}]
  /\ report \in [Champions -> [state : {"none", "pending", "in_flight"}, to : Line \cup {NoAgent}]]
  /\ \A c \in Champions : report[c].state = "none" <=> report[c].to = NoAgent
  /\ prompt \in [Requests -> Agents \cup {NoAgent}]
  /\ inSquad \subseteq Requests
  /\ addressee \in [Requests -> Agents \cup {NoAgent}]
  /\ keeper \in [Requests -> Agents \cup {NoAgent}]

RolloverInit ==
  /\ Init
  /\ squad = [owner |-> First, fence |-> 1]
  /\ intake = [s \in Line |-> IF s = First THEN [state |-> "accepting", fence |-> 1]
                              ELSE [state |-> "none", fence |-> 0]]
  /\ callsign = [s \in Line |-> IF s = First THEN "active" ELSE "reserved"]
  /\ operation = [o \in Operations |-> None]
  /\ frozen = [o \in Operations |-> <<>>]
  /\ coordinator = [c \in Champions |-> First]
  /\ binding = [c \in Champions |-> 0]
  /\ task = [c \in Champions |-> "active"]
  /\ report = [c \in Champions |-> NoReport]
  /\ prompt = [r \in Requests |-> NoAgent]
  /\ inSquad = {}
  /\ addressee = [r \in Requests |-> NoAgent]
  /\ keeper = [r \in Requests |-> NoAgent]

-----------------------------------------------------------------------------
\* A verified live runtime of an agent that is not retired.
InService(a) == \E w \in live : AgentOf[w] = a

\* _snapshot_rows: the Champions that are not retired, by binding digest.
Rows == [c \in {x \in Champions : task[x] # "retired"} |-> <<coordinator[c], binding[c]>>]

\* The Squad is owned as it was when the operation was prepared.
Unmoved(o) == squad.owner = operation[o].from /\ squad.fence = operation[o].fence

\* The Squad is owned as the operation's commit left it.
Landed(o) == squad.owner = operation[o].to /\ squad.fence = operation[o].fence + 1

Unsettled(r) == Exists(r) /\ state[r] \notin Terminal

SetOperation(o, s) == operation' = [operation EXCEPT ![o].state = s]

-----------------------------------------------------------------------------
(* Before the switch.                                                      *)

\* Mutant of Selectable: who has served, or was selected before, is not refused.
SelectableAgain(s) ==
  /\ s # squad.owner
  /\ callsign[s] \in {"reserved", "active"}

\* The successor's intake row is new: its key is the agent.
Selectable(s) ==
  /\ s # squad.owner
  /\ callsign[s] \in {"reserved", "active"}
  /\ intake[s].state = "none"

\* The new operation: it names who owns the Squad at which fence.
Handoff(s) == [state |-> "prepared", from |-> squad.owner, to |-> s,
               fence |-> squad.fence, expired |-> FALSE]

\* The bindings of the Champions as the operation's current snapshot.
Freeze(o) == frozen' = [frozen EXCEPT ![o] = Rows]

\* The successor's intake row, at the predecessor's fence.
Enlist(s) == intake' = [intake EXCEPT ![s] = [state |-> "draining", fence |-> squad.fence]]

\* prepare_rollover
Prepare(o, s) ==
  /\ operation[o].state = "none"
  /\ intake[squad.owner] = [state |-> "accepting", fence |-> squad.fence]
  /\ Selectable(s)
  /\ operation' = [operation EXCEPT ![o] = Handoff(s)]
  /\ Freeze(o)
  /\ Enlist(s)
  /\ UNCHANGED <<vars, squad, callsign, championVars, requestVars>>

\* activate_callsign: the successor's launched runtime accepts.
ActivateCallsign(s) ==
  /\ callsign[s] = "reserved"
  /\ InService(s)
  /\ callsign' = [callsign EXCEPT ![s] = "active"]
  /\ UNCHANGED <<vars, squad, intake, operation, frozen, championVars, requestVars>>

\* acknowledge_rollover, with every page of the snapshot.
Acknowledge(o) ==
  /\ operation[o].state = "prepared"
  /\ ~operation[o].expired
  /\ InService(operation[o].to)
  /\ callsign[operation[o].to] = "active"
  /\ Unmoved(o)
  /\ SetOperation(o, "acknowledged")
  /\ UNCHANGED <<vars, squad, intake, callsign, frozen, championVars, requestVars>>

\* _unsafe_inflight: a running claim on a request of a, or a claimed row for it.
Unsafe(a) ==
  \/ \E r \in Requests : owner[r] = a /\ claim[r] # NoWindow /\ r \notin lapsed
  \/ \E c \in Champions : report[c] = [state |-> "in_flight", to |-> a]

\* An offer to the Squad, whoever owned it.
OfferedToSquad(r) == state[r] = "routed" /\ pending[r] \in Line

\* Mutant of Redirect: offers that are not accepted yet keep their recipient.
RedirectOwned(s) ==
  /\ owner' = [r \in Requests |-> IF Unsettled(r) /\ r \in inSquad THEN s ELSE owner[r]]
  /\ fresh' = [r \in Requests |-> IF Unsettled(r) /\ r \in inSquad THEN {} ELSE fresh[r]]
  /\ pending' = pending

\* The requests of the Squad and the offers to it get a new version: by
\* owner_squad_id, in every unsettled state.
Redirect(s) ==
  /\ owner' = [r \in Requests |-> IF Unsettled(r) /\ r \in inSquad THEN s ELSE owner[r]]
  /\ pending' = [r \in Requests |-> IF OfferedToSquad(r) THEN s ELSE pending[r]]
  /\ fresh' = [r \in Requests |-> IF (Unsettled(r) /\ r \in inSquad) \/ OfferedToSquad(r)
                                  THEN {} ELSE fresh[r]]

\* Mutant of MayCommit: the owner and its fence are not compared.
MayCommitStale(o) ==
  /\ operation[o].state = "acknowledged"
  /\ ~operation[o].expired
  /\ frozen[o] = Rows
  /\ InService(operation[o].to)
  /\ ~Unsafe(operation[o].from)

\* commit_rollover: the acknowledged handoff still describes the Squad.
MayCommit(o) ==
  /\ operation[o].state = "acknowledged"
  /\ ~operation[o].expired
  /\ Unmoved(o)
  /\ intake[operation[o].from].state = "accepting"
  /\ intake[operation[o].to].state = "draining"
  /\ frozen[o] = Rows
  /\ InService(operation[o].to)
  /\ ~Unsafe(operation[o].from)

\* The owner and both intake rows, at the next fence.
Switch(o) ==
  LET fence == operation[o].fence + 1 IN
  /\ squad' = [owner |-> operation[o].to, fence |-> fence]
  /\ intake' = [intake EXCEPT ![operation[o].from] = [state |-> "draining", fence |-> fence],
                              ![operation[o].to] = [state |-> "accepting", fence |-> fence]]

Commit(o) ==
  /\ MayCommit(o)
  /\ Switch(o)
  /\ Redirect(operation[o].to)
  /\ SetOperation(o, "switched")
  /\ UNCHANGED <<state, requester, mode, latest, claim, lapsed, offer, attention, canonical, live,
                 callsign, frozen, championVars, requestVars>>

\* Mutant of ReleaseCallsign: only a reserved callsign is rolled back.
RollbackCallsign(a) ==
  /\ ~InService(a)
  /\ callsign[a] = "reserved"
  /\ callsign' = [callsign EXCEPT ![a] = "released"]

\* _verified_closed_runtime_cleanup and the release or rollback of a callsign.
ReleaseCallsign(a) == ~InService(a) /\ callsign' = [callsign EXCEPT ![a] = "released"]

\* abort_rollover
Abort(o) ==
  LET s == operation[o].to IN
  /\ operation[o].state \in {"prepared", "acknowledged"}
  /\ \/ callsign[s] # "released" /\ ReleaseCallsign(s)
     \/ callsign[s] = "released" /\ UNCHANGED callsign
  /\ intake' = [intake EXCEPT ![s].state = "closed"]
  /\ SetOperation(o, "aborted")
  /\ UNCHANGED <<vars, squad, frozen, championVars, requestVars>>

\* Time passes expires_at of the current snapshot.
Expire(o) ==
  /\ operation[o].state \in {"prepared", "acknowledged", "switched"}
  /\ ~operation[o].expired
  /\ operation' = [operation EXCEPT ![o].expired = TRUE]
  /\ UNCHANGED <<vars, squad, intake, callsign, frozen, championVars, requestVars>>

-----------------------------------------------------------------------------
(* After the switch.                                                       *)

\* The Champion is still bound as the operation's snapshot has it.
AsFrozen(o, c) == c \in DOMAIN frozen[o] /\ frozen[o][c] = <<coordinator[c], binding[c]>>

\* It works for the predecessor, on a task that has not ended.
StillFollows(o, c) == task[c] = "active" /\ coordinator[c] = operation[o].from

\* No row about it is being delivered to the predecessor.
NotReporting(o, c) == report[c] # [state |-> "in_flight", to |-> operation[o].from]

\* Mutant of MayReconcile: the Squad's owner is not read again.
MayReconcileLate(o, c) ==
  /\ operation[o].state \in Committed
  /\ AsFrozen(o, c) /\ StillFollows(o, c) /\ NotReporting(o, c)

\* rollover_descendant_target, which the transaction repeats.
MayReconcile(o, c) ==
  /\ operation[o].state \in Committed
  /\ Landed(o)
  /\ AsFrozen(o, c) /\ StillFollows(o, c) /\ NotReporting(o, c)

\* Mutant of Retarget: the Champion's pending rows stay.
RetargetNothing(c, s) == report' = report

\* The pending rows about the Champion go to the successor with it.
Retarget(c, s) ==
  report' = [report EXCEPT ![c].to = IF report[c].to = coordinator[c] THEN s ELSE @]

\* The task, the assignment and the agent row name the successor.
Hand(o, c) == coordinator' = [coordinator EXCEPT ![c] = operation[o].to]

\* reconcile_rollover_descendant
ReconcileDescendant(o, c) ==
  /\ MayReconcile(o, c)
  /\ Hand(o, c)
  /\ Retarget(c, operation[o].to)
  /\ UNCHANGED <<vars, squadVars, binding, task, requestVars>>

\* What predecessor p has left, as _canonical_intake_page lists it.
OwnedRequests(p) == {r \in Requests : Unsettled(r) /\ owner[r] = p}

OwnedPrompts(p) == {r \in Requests : prompt[r] = p}

OwnedObligations(p) == {r \in Requests : keeper[r] = p}

Owes(p) == OwnedRequests(p) \cup OwnedPrompts(p) \cup OwnedObligations(p) # {}

\* What p owns, row by row, becomes s's, in new versions.
MoveIntake(p, s) ==
  /\ owner' = [r \in Requests |-> IF r \in OwnedRequests(p) THEN s ELSE owner[r]]
  /\ pending' = [r \in Requests |-> IF r \in OwnedRequests(p) /\ pending[r] = p THEN s ELSE pending[r]]
  /\ fresh' = [r \in Requests |-> IF r \in OwnedRequests(p) THEN {} ELSE fresh[r]]
  /\ prompt' = [r \in Requests |-> IF prompt[r] = p THEN s ELSE prompt[r]]
  /\ keeper' = [r \in Requests |-> IF keeper[r] = p THEN s ELSE keeper[r]]

\* reconcile_rollover_intake: a plan is accepted only if it still is what the
\* predecessor owns, so reading it and applying it are one step.  No claim is
\* looked at, nor who owns the Squad by now.
ReconcileIntake(o) ==
  /\ operation[o].state = "switched"
  /\ InService(operation[o].to)
  /\ Owes(operation[o].from)
  /\ MoveIntake(operation[o].from, operation[o].to)
  /\ UNCHANGED <<state, requester, mode, latest, claim, lapsed, offer, attention, canonical, live,
                 squadVars, championVars, inSquad, addressee>>

\* Mutant of Drained: untriaged prompts are forgotten.
DrainedOfRequests(p) ==
  /\ OwnedRequests(p) \cup OwnedObligations(p) = {}
  /\ \A r \in Requests : offer[r] = "sent" => addressee[r] # p
  /\ \A c \in Champions : report[c].to # p

\* Nothing is owned by the predecessor, and every row for it is delivered.
Drained(p) ==
  /\ ~Owes(p)
  /\ \A r \in Requests : offer[r] = "sent" => addressee[r] # p
  /\ \A c \in Champions : report[c].to # p

\* complete_rollover_drain: the predecessor's Champions are not looked at.
CompleteDrain(o) ==
  LET p == operation[o].from IN
  /\ operation[o].state = "switched"
  /\ squad.owner = operation[o].to
  /\ InService(operation[o].to)
  /\ Drained(p)
  /\ ReleaseCallsign(p)
  /\ intake' = [intake EXCEPT ![p].state = IF @ = "draining" THEN "closed" ELSE @]
  /\ SetOperation(o, "completed")
  /\ UNCHANGED <<vars, squad, frozen, championVars, requestVars>>

\* _successor_progress: this operation moved it, from the binding it has, and
\* no row about it is left with the predecessor.
Moved(o, c) ==
  /\ coordinator[c] = operation[o].to
  /\ frozen[o][c] \in {<<operation[o].from, binding[c]>>, <<operation[o].to, binding[c]>>}
  /\ report[c].to # operation[o].from

\* A Champion that refresh accepts: still the predecessor's, or moved.
Refreshable(o, c) == StillFollows(o, c) \/ (task[c] = "active" /\ Moved(o, c))

\* _context: the operation's switch still is the last one, its predecessor
\* drains, and the Champions are those of the expired snapshot.
MayRefresh(o) ==
  LET p == operation[o].from
      s == operation[o].to
  IN
  /\ operation[o].state = "switched"
  /\ operation[o].expired
  /\ Landed(o)
  /\ callsign[p] # "released" /\ callsign[s] # "released"
  /\ intake[p] = [state |-> "draining", fence |-> squad.fence]
  /\ intake[s] = [state |-> "accepting", fence |-> squad.fence]
  /\ InService(s)
  /\ DOMAIN frozen[o] = DOMAIN Rows
  /\ \A c \in DOMAIN Rows : Refreshable(o, c)

\* refresh: an expired snapshot gets a new revision over the same Champions.
Refresh(o) ==
  /\ MayRefresh(o)
  /\ Freeze(o)
  /\ operation' = [operation EXCEPT ![o].expired = FALSE]
  /\ UNCHANGED <<vars, squad, intake, callsign, championVars, requestVars>>

-----------------------------------------------------------------------------
(* The Champions, whom the handoff does not stop.                          *)

\* A row for the coordinator about the Champion.
Report(c) ==
  /\ task[c] # "retired"
  /\ report[c].state = "none"
  /\ report' = [report EXCEPT ![c] = [state |-> "pending", to |-> coordinator[c]]]
  /\ UNCHANGED <<vars, squadVars, coordinator, binding, task, requestVars>>

\* claim_outbox and the end of the dispatch (see Delivery).  The effect needs a live
\* runtime of the recipient, its acknowledgement does not.
DispatchReport(c) ==
  /\ report[c].state = "pending"
  /\ report' = [report EXCEPT ![c].state = "in_flight"]
  /\ UNCHANGED <<vars, squadVars, coordinator, binding, task, requestVars>>

ReportReceived(c) ==
  /\ report[c].state = "in_flight"
  /\ report' = [report EXCEPT ![c] = NoReport]
  /\ UNCHANGED <<vars, squadVars, coordinator, binding, task, requestVars>>

ReportFailed(c) ==
  /\ report[c].state = "in_flight"
  /\ report' = [report EXCEPT ![c].state = "pending"]
  /\ UNCHANGED <<vars, squadVars, coordinator, binding, task, requestVars>>

\* A new runtime, endpoint or worktree of a Champion.
Rebind(c) ==
  /\ task[c] # "retired"
  /\ binding[c] < MaxBinding
  /\ binding' = [binding EXCEPT ![c] = @ + 1]
  /\ UNCHANGED <<vars, squadVars, coordinator, task, report, requestVars>>

\* The task ends; later the Champion is cleaned up.
Settle(c) ==
  /\ task[c] = "active"
  /\ task' = [task EXCEPT ![c] = "settled"]
  /\ UNCHANGED <<vars, squadVars, coordinator, binding, report, requestVars>>

Retire(c) ==
  /\ task[c] = "settled"
  /\ task' = [task EXCEPT ![c] = "retired"]
  /\ UNCHANGED <<vars, squadVars, coordinator, binding, report, requestVars>>

ChampionStep(c) ==
  \/ Report(c) \/ DispatchReport(c) \/ ReportReceived(c) \/ ReportFailed(c)
  \/ Rebind(c) \/ Settle(c) \/ Retire(c)

-----------------------------------------------------------------------------
(* The steps of Requests, as they are in a Squad.                          *)

\* A Shotcaller that takes prompts and offers: intake_prompt, route_request.
Accepts(a) ==
  /\ InService(a)
  /\ a \in Line => squad.owner = a /\ intake[a] = [state |-> "accepting", fence |-> squad.fence]

\* intake_prompt; a prompt that becomes no request is triaged without effect here.
CapturePrompt(r, a) ==
  /\ ~Exists(r) /\ prompt[r] = NoAgent
  /\ Accepts(a)
  /\ prompt' = [prompt EXCEPT ![r] = a]
  /\ UNCHANGED <<vars, squadVars, championVars, inSquad, addressee, keeper>>

TriagePrompt(r) ==
  /\ \/ TriageNew(r, prompt[r])
     \/ \E w \in Windows, m \in Modes : AgentOf[w] = prompt[r] /\ BeginTurn(w, r, m)
  /\ prompt' = [prompt EXCEPT ![r] = NoAgent]
  /\ UNCHANGED <<squadVars, championVars, inSquad, addressee, keeper>>

Offer(w, r, a) ==
  /\ Accepts(a)
  /\ RouteRequest(w, r, a)
  /\ addressee' = [addressee EXCEPT ![r] = a]
  /\ UNCHANGED <<squadVars, championVars, prompt, inSquad, keeper>>

\* The route event names the recipient of the offer as it was made; the
\* receipt that acceptance requires is the accepting Shotcaller's.
TakeOffer(w, r) ==
  /\ addressee[r] = pending[r]
  /\ AcceptRoute(w, r)
  /\ inSquad' = IF pending[r] \in Line THEN inSquad \cup {r} ELSE inSquad \ {r}
  /\ UNCHANGED <<squadVars, championVars, prompt, addressee, keeper>>

\* The obligation of a return is the requester's; owner_squad_id stays.
Return(w, r, e) ==
  /\ ReturnResult(w, r, e)
  /\ keeper' = [keeper EXCEPT ![r] = requester[r]]
  /\ UNCHANGED <<squadVars, championVars, prompt, inSquad, addressee>>

\* Settling a request settles its obligation.
Work(w, r) ==
  /\ \/ \E m \in Modes : DispatchRequest(w, r, m)
     \/ \E s \in Settable : SetRequestState(w, r, s)
     \/ \E e \in Evidence : RecordResult(w, r, e)
     \/ CancelRequest(w, r)
     \/ AnswerRequest(w, r)
  /\ keeper' = [keeper EXCEPT ![r] = IF attention'[r] = "open" THEN @ ELSE NoAgent]
  /\ UNCHANGED <<squadVars, championVars, prompt, inSquad, addressee>>

Handle(w, r) ==
  /\ \/ Read(w, r) \/ RenewClaim(w, r) \/ ClaimRequest(w, r) \/ ReleaseClaim(w, r)
     \/ TriageDefer(r, w)
  /\ UNCHANGED <<squadVars, championVars, requestVars>>

\* The offer's route event reaches the recipient it names, if that one is in service.
DeliverOffer(r) ==
  /\ ReceiveOffer(r, addressee[r])
  /\ UNCHANGED <<squadVars, championVars, requestVars>>

Close(w) ==
  /\ LoseRuntime(w)
  /\ UNCHANGED <<squadVars, championVars, requestVars>>

\* No runtime is registered for a retired agent.
Reopen(w) ==
  /\ AgentOf[w] \in Line => callsign[AgentOf[w]] # "released"
  /\ RestoreRuntime(w)
  /\ UNCHANGED <<squadVars, championVars, requestVars>>

Lapse(r) ==
  /\ ExpireClaim(r)
  /\ UNCHANGED <<squadVars, championVars, requestVars>>

RequestStep ==
  \/ \E r \in Requests : \/ \E a \in Agents : CapturePrompt(r, a)
                         \/ TriagePrompt(r) \/ DeliverOffer(r) \/ Lapse(r)
  \/ \E r \in Requests, w \in Windows :
       \/ \E a \in Intake : Offer(w, r, a)
       \/ \E e \in Evidence : Return(w, r, e)
       \/ TakeOffer(w, r) \/ Work(w, r) \/ Handle(w, r)
  \/ \E w \in Windows : Close(w) \/ Reopen(w)

RolloverStep ==
  \/ \E o \in Operations :
       \/ \E s \in Line : Prepare(o, s)
       \/ Acknowledge(o) \/ Commit(o) \/ Abort(o) \/ Expire(o)
       \/ ReconcileIntake(o) \/ CompleteDrain(o) \/ Refresh(o)
       \/ \E c \in Champions : ReconcileDescendant(o, c)
  \/ \E s \in Line : ActivateCallsign(s)

RolloverNext == RequestStep \/ RolloverStep \/ \E c \in Champions : ChampionStep(c)

RolloverSpec == RolloverInit /\ [][RolloverNext]_rolloverVars
=============================================================================
