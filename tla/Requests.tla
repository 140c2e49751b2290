------------------------------ MODULE Requests ------------------------------
(***************************************************************************)
(* The life of a request: the requests and request_claims rows, the offer  *)
(* of a route, the requester's attention obligation and the links between  *)
(* duplicates.  Each operation is one BEGIN IMMEDIATE transaction run for  *)
(* a window (a runtime) of some agent; what makes them hard is what happens*)
(* between a window's read of a request and its next command.              *)
(*                                                                         *)
(* requests.version is compared only for equality with the version a       *)
(* command's author has read, and every write of a request increments it:  *)
(* fresh[r] is the set of windows whose last read is still the stored      *)
(* version.  A claim lease is expired or not: lapsed is the set of requests*)
(* whose unreleased claim has expired.  A refused command changes nothing. *)
(***************************************************************************)
EXTENDS FiniteSets

CONSTANTS
  Requests,      \* request identifiers
  Agents,        \* Shotcallers
  Windows,       \* their runtime instances
  AgentOf,       \* the agent of each window
  Capturing,     \* agents whose prompts become requests
  Intake,        \* agents whose Squad accepts routed requests
  Modes,         \* execution modes the dispatch classification yields
  Flaky,         \* windows whose registered runtime may be lost
  NoAgent, NoWindow, NoRequest

ASSUME RequestsAssumption ==
  /\ AgentOf \in [Windows -> Agents]
  /\ Capturing \subseteq Agents
  /\ Intake \subseteq Agents
  /\ Modes \subseteq {"direct", "hidden", "champion"}
  /\ Flaky \subseteq Windows
  /\ NoAgent \notin Agents
  /\ NoWindow \notin Windows
  /\ NoRequest \notin Requests

VARIABLES
  state,         \* requests.state, "absent" before triage
  owner,         \* owner_agent_id
  requester,     \* requester_agent_id
  pending,       \* pending_owner_agent_id
  mode,          \* execution_mode, "none" while unclassified
  latest,        \* latest_result_id: "none", or what its cited tasks prove
  claim,         \* window of the unreleased claim, NoWindow if there is none
  lapsed,        \* requests whose unreleased claim has expired
  fresh,         \* per request: the windows that have read its current version
  offer,         \* last_route_event_id: "none", "sent", or "received" by its recipient
  attention,     \* the obligation 'obligation:request:{id}:return'
  canonical,     \* request_reconciliations: what a duplicate was merged into
  live           \* windows registered as verified and active or idle

vars == <<state, owner, requester, pending, mode, latest, claim, lapsed, fresh,
          offer, attention, canonical, live>>

Terminal == {"answered", "cancelled"}

Classifiable == {"open", "accepted", "blocked", "deferred"}

Settable == {"awaiting_user", "blocked", "deferred", "cancelled"}

States == {"open", "routed", "accepted", "in_progress", "awaiting_user", "blocked",
           "deferred", "awaiting_requester", "answered", "cancelled"}

\* A result cites settled tasks that prove an issue-owned Champion (or has the
\* accepted legacy proof of one), or it cites none or others.
Evidence == {"plain", "issued"}

TypeOK ==
  /\ state \in [Requests -> States \cup {"absent"}]
  /\ owner \in [Requests -> Agents \cup {NoAgent}]
  /\ requester \in [Requests -> Agents \cup {NoAgent}]
  /\ \A r \in Requests : state[r] # "absent" => owner[r] \in Agents /\ requester[r] \in Agents
  /\ pending \in [Requests -> Agents \cup {NoAgent}]
  /\ mode \in [Requests -> Modes \cup {"none"}]
  /\ latest \in [Requests -> Evidence \cup {"none"}]
  /\ claim \in [Requests -> Windows \cup {NoWindow}]
  /\ lapsed \subseteq {r \in Requests : claim[r] # NoWindow}
  /\ fresh \in [Requests -> SUBSET Windows]
  /\ offer \in [Requests -> {"none", "sent", "received"}]
  /\ attention \in [Requests -> {"none", "open", "satisfied", "cancelled"}]
  /\ canonical \in [Requests -> Requests \cup {NoRequest}]
  /\ live \subseteq Windows

Init ==
  /\ state = [r \in Requests |-> "absent"]
  /\ owner = [r \in Requests |-> NoAgent]
  /\ requester = [r \in Requests |-> NoAgent]
  /\ pending = [r \in Requests |-> NoAgent]
  /\ mode = [r \in Requests |-> "none"]
  /\ latest = [r \in Requests |-> "none"]
  /\ claim = [r \in Requests |-> NoWindow]
  /\ lapsed = {}
  /\ fresh = [r \in Requests |-> {}]
  /\ offer = [r \in Requests |-> "none"]
  /\ attention = [r \in Requests |-> "none"]
  /\ canonical = [r \in Requests |-> NoRequest]
  /\ live = Windows

-----------------------------------------------------------------------------
Exists(r) == state[r] # "absent"

\* The agent whose windows may claim a request: of an offer, its recipient.
ClaimOwner(r) == IF state[r] = "routed" THEN pending[r] ELSE owner[r]

\* _active_claim with a time: the unexpired claim, held by its token.
Writes(w, r) == claim[r] = w /\ r \notin lapsed

\* A command with --expected-version.
WritesCurrent(w, r) == Writes(w, r) /\ w \in fresh[r]

\* A write of a new version, which its author learns from the answer.
NewVersion(r, w) == fresh' = [fresh EXCEPT ![r] = {w} \cap Windows]

SetState(r, s) == state' = [state EXCEPT ![r] = s]

Lease(r, w) ==
  /\ claim' = [claim EXCEPT ![r] = w]
  /\ lapsed' = lapsed \ {r}

Release(r) == Lease(r, NoWindow)

\* Mutant of SettleAttention: the obligation is forgotten.
SettleNothing(r, s) == attention' = attention

SettleAttention(r, s) ==
  attention' = [attention EXCEPT ![r] = IF @ = "open" THEN s ELSE @]

-----------------------------------------------------------------------------
(* Triage of a captured prompt, and reads.                                 *)

\* A prompt item of disposition new_request.
TriageNew(r, a) ==
  /\ state[r] = "absent"
  /\ a \in Capturing
  /\ SetState(r, "open")
  /\ owner' = [owner EXCEPT ![r] = a]
  /\ requester' = [requester EXCEPT ![r] = a]
  /\ UNCHANGED <<pending, mode, latest, claim, lapsed, fresh, offer, attention,
                 canonical, live>>

\* begin_request_turn: triage, claim and dispatch in one transaction.
BeginTurn(w, r, m) ==
  /\ state[r] = "absent"
  /\ w \in live
  /\ AgentOf[w] \in Capturing
  /\ SetState(r, "in_progress")
  /\ owner' = [owner EXCEPT ![r] = AgentOf[w]]
  /\ requester' = [requester EXCEPT ![r] = AgentOf[w]]
  /\ mode' = [mode EXCEPT ![r] = m]
  /\ Lease(r, w)
  /\ NewVersion(r, w)
  /\ UNCHANGED <<pending, latest, offer, attention, canonical, live>>

\* A prompt item of disposition deferred, triaged for the request's owner by
\* one of its windows or by the background worker (NoWindow).  It needs no
\* claim, it leaves an offer and its pending owner in place, and it is not
\* limited to some states; the candidate's version is compared if given.
TriageDefer(r, w) ==
  /\ Exists(r)
  /\ w = NoWindow \/ (w \in Windows /\ AgentOf[w] = owner[r])
  /\ SetState(r, "deferred")
  /\ NewVersion(r, w)
  /\ UNCHANGED <<owner, requester, pending, mode, latest, claim, lapsed, offer,
                 attention, canonical, live>>

\* A window reads a request.  Only the windows that may claim it use what
\* they read; when that changes, so does the version.
Read(w, r) ==
  /\ Exists(r)
  /\ AgentOf[w] = ClaimOwner(r)
  /\ fresh' = [fresh EXCEPT ![r] = @ \cup {w}]
  /\ UNCHANGED <<state, owner, requester, pending, mode, latest, claim, lapsed, offer,
                 attention, canonical, live>>

-----------------------------------------------------------------------------
(* claim_request and release_request_claim.                                *)

MayClaim(w, r) ==
  /\ Exists(r)
  /\ w \in live
  /\ AgentOf[w] = ClaimOwner(r)

\* No unreleased claim, or one of another window that has expired.
Claimable(w, r) == claim[r] = NoWindow \/ (claim[r] # w /\ r \in lapsed)

\* The same runtime and proof extend the lease, expired or not, and no more.
RenewClaim(w, r) ==
  /\ MayClaim(w, r)
  /\ claim[r] = w
  /\ Lease(r, w)
  /\ UNCHANGED <<state, owner, requester, pending, mode, latest, fresh, offer,
                 attention, canonical, live>>

\* A new claim, or the recovery of an expired one; in any state.
ClaimRequest(w, r) ==
  /\ MayClaim(w, r)
  /\ Claimable(w, r)
  /\ state[r] # "routed"
  /\ Lease(r, w)
  /\ UNCHANGED <<state, owner, requester, pending, mode, latest, fresh, offer,
                 attention, canonical, live>>

\* Mutant of AcceptRoute: the receipt of the route event is not required.
AcceptUnreceived(w, r) ==
  /\ MayClaim(w, r)
  /\ Claimable(w, r)
  /\ state[r] = "routed"
  /\ Lease(r, w)
  /\ SetState(r, "accepted")
  /\ owner' = [owner EXCEPT ![r] = pending[r]]
  /\ pending' = [pending EXCEPT ![r] = NoAgent]
  /\ fresh' = [fresh EXCEPT ![r] = {}]
  /\ UNCHANGED <<requester, mode, latest, offer, attention, canonical, live>>

\* claim_request, or accept_routed_delivery with its deterministic token, by
\* the recipient of a received offer: ownership moves with the claim.  The
\* answer does not name the new version.
AcceptRoute(w, r) ==
  /\ MayClaim(w, r)
  /\ Claimable(w, r)
  /\ state[r] = "routed"
  /\ offer[r] = "received"
  /\ Lease(r, w)
  /\ SetState(r, "accepted")
  /\ owner' = [owner EXCEPT ![r] = pending[r]]
  /\ pending' = [pending EXCEPT ![r] = NoAgent]
  /\ fresh' = [fresh EXCEPT ![r] = {}]
  /\ UNCHANGED <<requester, mode, latest, offer, attention, canonical, live>>

\* Only the holder releases, also after its lease has expired.
ReleaseClaim(w, r) ==
  /\ claim[r] = w
  /\ Release(r)
  /\ UNCHANGED <<state, owner, requester, pending, mode, latest, fresh, offer,
                 attention, canonical, live>>

-----------------------------------------------------------------------------
(* Commands of the claim holder.                                           *)

\* dispatch_request takes no expected version.  A dispatch recorded at the
\* current version has left the request in_progress, so it is refused here.
DispatchRequest(w, r, m) ==
  /\ Writes(w, r)
  /\ state[r] \in Classifiable
  /\ SetState(r, "in_progress")
  /\ mode' = [mode EXCEPT ![r] = m]
  /\ NewVersion(r, w)
  /\ UNCHANGED <<owner, requester, pending, latest, claim, lapsed, offer, attention,
                 canonical, live>>

\* Mutant of RouteRequest: the claim of the offering window survives.
RouteKeepingClaim(w, r, a) ==
  /\ WritesCurrent(w, r)
  /\ SetState(r, "routed")
  /\ pending' = [pending EXCEPT ![r] = a]
  /\ offer' = [offer EXCEPT ![r] = "sent"]
  /\ NewVersion(r, w)
  /\ UNCHANGED <<owner, requester, mode, latest, claim, lapsed, attention, canonical, live>>

\* route_request to the accepting Shotcaller of a Squad, in any state: the
\* owner stays responsible until the recipient accepts.
RouteRequest(w, r, a) ==
  /\ WritesCurrent(w, r)
  /\ SetState(r, "routed")
  /\ pending' = [pending EXCEPT ![r] = a]
  /\ offer' = [offer EXCEPT ![r] = "sent"]
  /\ Release(r)
  /\ NewVersion(r, w)
  /\ UNCHANGED <<owner, requester, mode, latest, attention, canonical, live>>

\* The receipt of the route event by a, its recipient (see Delivery): a watcher, a
\* direct prompt and the inbox all need a registered live runtime of a.
ReceiveOffer(r, a) ==
  /\ offer[r] = "sent"
  /\ \E w \in live : AgentOf[w] = a
  /\ offer' = [offer EXCEPT ![r] = "received"]
  /\ UNCHANGED <<state, owner, requester, pending, mode, latest, claim, lapsed, fresh,
                 attention, canonical, live>>

\* set_request_state to a state that keeps the claim.
SetRequestState(w, r, s) ==
  /\ WritesCurrent(w, r)
  /\ s # "cancelled"
  /\ SetState(r, s)
  /\ NewVersion(r, w)
  /\ UNCHANGED <<owner, requester, pending, mode, latest, claim, lapsed, offer,
                 attention, canonical, live>>

\* set_request_state to cancelled.
CancelRequest(w, r) ==
  /\ WritesCurrent(w, r)
  /\ SetState(r, "cancelled")
  /\ Release(r)
  /\ SettleAttention(r, "cancelled")
  /\ NewVersion(r, w)
  /\ UNCHANGED <<owner, requester, pending, mode, latest, offer, canonical, live>>

\* record_request_result demands issue-owned tasks of a Champion request.
Resolves(w, r, e) ==
  /\ WritesCurrent(w, r)
  /\ mode[r] = "champion" => e = "issued"

\* record_request_result without a return: owner, state and claim stay.
RecordResult(w, r, e) ==
  /\ Resolves(w, r, e)
  /\ latest' = [latest EXCEPT ![r] = e]
  /\ NewVersion(r, w)
  /\ UNCHANGED <<state, owner, requester, pending, mode, claim, lapsed, offer,
                 attention, canonical, live>>

\* The obligation of a return has one identifier per request, the primary key
\* of its table: inserting it again aborts the transaction.
ReturnInsertable(r) == attention[r] = "none"

\* Mutant of ReturnResult: the claim of the returning window survives.
ReturnKeepingClaim(w, r, e) ==
  /\ Resolves(w, r, e)
  /\ ReturnInsertable(r)
  /\ latest' = [latest EXCEPT ![r] = e]
  /\ owner' = [owner EXCEPT ![r] = requester[r]]
  /\ SetState(r, "awaiting_requester")
  /\ attention' = [attention EXCEPT ![r] = "open"]
  /\ NewVersion(r, w)
  /\ UNCHANGED <<requester, pending, mode, offer, canonical, live, claim, lapsed>>

\* Mutant of ReturnResult: a conflicting obligation is ignored, not refused.
ReturnIgnoringConflict(w, r, e) ==
  /\ Resolves(w, r, e)
  /\ latest' = [latest EXCEPT ![r] = e]
  /\ owner' = [owner EXCEPT ![r] = requester[r]]
  /\ SetState(r, "awaiting_requester")
  /\ Release(r)
  /\ attention' = [attention EXCEPT ![r] = IF @ = "none" THEN "open" ELSE @]
  /\ NewVersion(r, w)
  /\ UNCHANGED <<requester, pending, mode, offer, canonical, live>>

\* record_request_result with --return-to-requester.
ReturnResult(w, r, e) ==
  /\ Resolves(w, r, e)
  /\ ReturnInsertable(r)
  /\ latest' = [latest EXCEPT ![r] = e]
  /\ owner' = [owner EXCEPT ![r] = requester[r]]
  /\ SetState(r, "awaiting_requester")
  /\ Release(r)
  /\ attention' = [attention EXCEPT ![r] = "open"]
  /\ NewVersion(r, w)
  /\ UNCHANGED <<requester, pending, mode, offer, canonical, live>>

\* Mutant of AnswerRequest: no Champion result is required.
AnswerUnproved(w, r) ==
  /\ WritesCurrent(w, r)
  /\ SetState(r, "answered")
  /\ Release(r)
  /\ SettleAttention(r, "satisfied")
  /\ NewVersion(r, w)
  /\ UNCHANGED <<owner, requester, pending, mode, latest, offer, canonical, live>>

\* answer_request, in any state.
AnswerRequest(w, r) ==
  /\ WritesCurrent(w, r)
  /\ mode[r] = "champion" => latest[r] = "issued"
  /\ SetState(r, "answered")
  /\ Release(r)
  /\ SettleAttention(r, "satisfied")
  /\ NewVersion(r, w)
  /\ UNCHANGED <<owner, requester, pending, mode, latest, offer, canonical, live>>

-----------------------------------------------------------------------------
(* reconcile_duplicate_request.                                            *)

\* A dispatch, a task (which needs a dispatch) or a result.
Executed(r) == mode[r] # "none" \/ latest[r] # "none"

\* Mutant of Chained: the two parameters of the query are swapped.
ChainedSwapped(d, c) == canonical[d] # NoRequest \/ \E x \in Requests : canonical[x] = c

\* The canonical request was itself merged, or something into the duplicate.
Chained(d, c) == canonical[c] # NoRequest \/ \E x \in Requests : canonical[x] = d

\* An agent merges d into c, having read both; no claim is needed, and one
\* on the duplicate is released.
ReconcileDuplicate(w, d, c) ==
  /\ d # c
  /\ Exists(d) /\ Exists(c)
  /\ canonical[d] = NoRequest
  /\ AgentOf[w] = owner[d] /\ owner[d] = owner[c]
  /\ w \in fresh[d] \cap fresh[c]
  /\ state[d] \notin Terminal /\ state[c] \notin Terminal
  /\ ~Chained(d, c)
  /\ ~Executed(d)
  /\ SetState(d, "cancelled")
  /\ Release(d)
  /\ canonical' = [canonical EXCEPT ![d] = c]
  /\ NewVersion(d, w)
  /\ UNCHANGED <<owner, requester, pending, mode, latest, offer, attention, live>>

-----------------------------------------------------------------------------
(* The environment: the clock, and observations of the runtimes.           *)

ExpireClaim(r) ==
  /\ claim[r] # NoWindow
  /\ r \notin lapsed
  /\ lapsed' = lapsed \cup {r}
  /\ UNCHANGED <<state, owner, requester, pending, mode, latest, claim, fresh, offer,
                 attention, canonical, live>>

LoseRuntime(w) ==
  /\ w \in live \cap Flaky
  /\ live' = live \ {w}
  /\ UNCHANGED <<state, owner, requester, pending, mode, latest, claim, lapsed, fresh,
                 offer, attention, canonical>>

RestoreRuntime(w) ==
  /\ w \in Windows \ live
  /\ live' = live \cup {w}
  /\ UNCHANGED <<state, owner, requester, pending, mode, latest, claim, lapsed, fresh,
                 offer, attention, canonical>>

Environment ==
  \/ \E r \in Requests : ExpireClaim(r) \/ ReceiveOffer(r, pending[r])
  \/ \E w \in Windows : LoseRuntime(w) \/ RestoreRuntime(w)

Claiming(w, r) == RenewClaim(w, r) \/ ClaimRequest(w, r) \/ AcceptRoute(w, r) \/ ReleaseClaim(w, r)

\* The other commands of a claim holder.
Working(w, r) ==
  \/ \E m \in Modes : DispatchRequest(w, r, m)
  \/ \E a \in Intake : RouteRequest(w, r, a)
  \/ \E s \in Settable : SetRequestState(w, r, s)
  \/ \E e \in Evidence : RecordResult(w, r, e)
  \/ CancelRequest(w, r)
  \/ AnswerRequest(w, r)

Returning(r) == \E w \in Windows, e \in Evidence : ReturnResult(w, r, e)

NotReturning ==
  \/ \E r \in Requests, a \in Agents : TriageNew(r, a)
  \/ \E r \in Requests, w \in Windows, m \in Modes : BeginTurn(w, r, m)
  \/ \E r \in Requests, w \in Windows \cup {NoWindow} : TriageDefer(r, w)
  \/ \E r \in Requests, w \in Windows : Read(w, r) \/ Claiming(w, r) \/ Working(w, r)
  \/ \E d, c \in Requests, w \in Windows : ReconcileDuplicate(w, d, c)
  \/ Environment

Next == NotReturning \/ \E r \in Requests : Returning(r)

Spec == Init /\ [][Next]_vars
=============================================================================
