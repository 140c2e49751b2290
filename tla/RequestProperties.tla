-------------------------- MODULE RequestProperties --------------------------
(***************************************************************************)
(* What Requests is checked against, and proved to satisfy.                *)
(***************************************************************************)
EXTENDS Requests

\* Whoever holds the claim of a request is a window of its owner, through
\* offers, acceptances, returns, expired and recovered claims: a window of an
\* agent that gave a request away can no longer write it.
ClaimIsOwners ==
  \A r \in Requests : claim[r] # NoWindow => AgentOf[claim[r]] = owner[r]

\* While a request is offered nobody holds its claim, and the recipient and
\* the route event it has to receive are known: the offering window, its other
\* windows and late commands cannot act on it behind the recipient's back.
RoutedIsUnclaimed ==
  \A r \in Requests : state[r] = "routed" =>
    claim[r] = NoWindow /\ pending[r] \in Agents /\ offer[r] # "none"

\* The pen is the owner's: between offer and acceptance nobody has it, and at
\* any other time no window but one of the owner.
PenIsOwners == TypeOK /\ ClaimIsOwners /\ RoutedIsUnclaimed

\* A request that waits for its requester is owned by it, has the result, and
\* has the obligation that brings it to the requester's attention.
ReturnedIsHome ==
  \A r \in Requests : state[r] = "awaiting_requester" =>
    owner[r] = requester[r] /\ latest[r] # "none" /\ attention[r] = "open"

\* An answered or cancelled request has no open attention obligation, whether
\* it was returned, offered again, merged or reopened before.
SettledOwesNoAttention ==
  \A r \in Requests : state[r] \in Terminal => attention[r] # "open"

\* The requester's attention is asked for exactly as long as it is needed: an
\* obligation is open while a return waits, and no settled request keeps one.
AttentionAgrees == ReturnedIsHome /\ SettledOwesNoAttention

\* A request answered in Champion mode has a latest result that proves an
\* issue-owned Champion, over all changes of mode and results recorded before
\* them (README.md, "cannot be answered or settled without its issue-bound
\* visible Champion task receipt").
ChampionAnswerIsProved ==
  \A r \in Requests : state[r] = "answered" /\ mode[r] = "champion" => latest[r] = "issued"

\* Who may write a request, whose attention it asks for and what its answer
\* rests on agree, through offers, returns, changes of mode and reopening.
RequestsAgree == PenIsOwners /\ AttentionAgrees /\ ChampionAnswerIsProved

\* Merging makes no chains and no cycles, also when a merged request was
\* deferred or claimed and so opened again.
MergedOnce ==
  \A r \in Requests : canonical[r] # NoRequest => canonical[canonical[r]] = NoRequest

\* Ownership moves to an agent that received the current offer, or back to the
\* requester with a result and an attention obligation, and in no other way.
OwnershipMovesByConsent ==
  [][\A r \in Requests : Exists(r) /\ owner'[r] # owner[r] =>
       \/ state[r] = "routed" /\ owner'[r] = pending[r] /\ offer[r] = "received"
       \/ owner'[r] = requester[r] /\ latest'[r] # "none" /\ attention'[r] = "open"]_vars

\* "A state change checks the current owner, matching claim, expected version"
\* (docs/design/sqlite-request-lifecycle.md, state diagram): a command takes a
\* request out of deferral only if its author has read the deferral.
DeferralIsSeen ==
  [][\A r \in Requests : state[r] = "deferred" /\ state'[r] # "deferred" =>
       claim[r] \in fresh[r] \/ canonical'[r] # canonical[r]]_vars

\* "Missing task result, stale version, or expired claim leaves Jarvan as
\* owner" (docs/design/sqlite-request-lifecycle.md, step 9) and nothing else
\* does: a window that holds the claim of another agent's request and has read
\* its current version can return a proved result.
ProvedReturnIsAccepted ==
  \A r \in Requests, w \in Windows :
    Resolves(w, r, "issued") /\ owner[r] # requester[r] => ReturnInsertable(r)

-----------------------------------------------------------------------------
(* Requests implements stewardship: the claim is the pen, an offer stands  *)
(* while the request is routed.                                            *)

Offered(r) == IF state[r] = "routed" THEN pending[r] ELSE NoAgent

Steward == INSTANCE Stewardship WITH
  steward <- owner,
  home <- requester,
  writer <- claim,
  offered <- [r \in Requests |-> Offered(r)]

\* Every behaviour of Requests is one that stewardship allows.
ImplementsStewardship == Steward!Spec

-----------------------------------------------------------------------------
(* Liveness.                                                               *)

Accepting(r) == \E w \in Windows : AcceptRoute(w, r)

\* The outbox delivers every route event whose recipient has a live runtime again
\* and again (Delivery!EveryRowSettles), a lost runtime is registered again, and a
\* recipient that has a received offer and a live window does not refuse it for ever.
Attentive ==
  /\ \A r \in Requests : SF_vars(ReceiveOffer(r, pending[r])) /\ SF_vars(Accepting(r))
  /\ \A w \in Windows : WF_vars(RestoreRuntime(w))

AttentiveSpec == Spec /\ Attentive

\* An offer is taken or withdrawn: no claim, runtime loss or second offer
\* leaves a routed request that its recipient can never accept.
OfferIsTaken ==
  \A r \in Requests : state[r] = "routed" ~> state[r] # "routed"
=============================================================================
