---------------------------- MODULE RequestProofs ----------------------------
(***************************************************************************)
(* Proofs that every instance of Requests has the safety properties of     *)
(* RequestProperties.                                                      *)
(***************************************************************************)
EXTENDS RequestProperties, TLAPS

\* The row of a request that was not triaged yet.
Untouched(r) ==
  state[r] = "absent" => owner[r] = NoAgent /\ claim[r] = NoWindow /\ attention[r] = "none"

\* A return is the only thing that opens attention, and it records a result.
AttentionHasResult(r) == attention[r] # "none" => latest[r] # "none"

\* The invariant, for one request.
SafeAt(r) ==
  /\ Untouched(r)
  /\ AttentionHasResult(r)
  /\ claim[r] # NoWindow => AgentOf[claim[r]] = owner[r]
  /\ state[r] = "routed" => claim[r] = NoWindow /\ pending[r] \in Agents /\ offer[r] # "none"
  /\ state[r] = "awaiting_requester" =>
       owner[r] = requester[r] /\ latest[r] # "none" /\ attention[r] = "open"
  /\ state[r] \in Terminal => attention[r] # "open"
  /\ state[r] = "answered" /\ mode[r] = "champion" => latest[r] = "issued"

Safe == \A r \in Requests : SafeAt(r)

Inv == TypeOK /\ Safe /\ MergedOnce

USE RequestsAssumption DEF RequestsAssumption, Terminal, States, Evidence

LEMMA InitInv == Init => Inv
BY DEF Init, Inv, TypeOK, Safe, SafeAt, Untouched, AttentionHasResult, MergedOnce

-----------------------------------------------------------------------------
(* One lemma per action: it keeps the invariant.                           *)

\* A new request has no claim, offer, result or attention.
LEMMA TriageNewKeeps ==
  ASSUME Inv, NEW r \in Requests, NEW a \in Agents,
         TriageNew(r, a)
  PROVE  Inv'
<1>1. TypeOK'
  BY DEF Inv, TypeOK, Safe, SafeAt, Untouched, TriageNew, SetState
<1>2. Safe'
  BY DEF Inv, TypeOK, Safe, SafeAt, Untouched, AttentionHasResult, TriageNew, SetState
<1>3. MergedOnce'
  BY DEF Inv, MergedOnce, TriageNew
<1> QED  BY <1>1, <1>2, <1>3 DEF Inv

\* The claim of a turn is taken by a window of the new owner.
LEMMA BeginTurnKeeps ==
  ASSUME Inv, NEW r \in Requests, NEW w \in Windows, NEW m \in Modes,
         BeginTurn(w, r, m)
  PROVE  Inv'
<1>1. TypeOK'
  BY DEF Inv, TypeOK, Safe, SafeAt, Untouched, BeginTurn, SetState, Lease, NewVersion
<1>2. Safe'
  BY DEF Inv, TypeOK, Safe, SafeAt, Untouched, AttentionHasResult, BeginTurn, SetState,
     Lease, NewVersion
<1>3. MergedOnce'
  BY DEF Inv, MergedOnce, BeginTurn
<1> QED  BY <1>1, <1>2, <1>3 DEF Inv

\* A deferral changes no owner, claim or obligation and enters no state that
\* promises one.
LEMMA TriageDeferKeeps ==
  ASSUME Inv, NEW r \in Requests, NEW w \in Windows \cup {NoWindow},
         TriageDefer(r, w)
  PROVE  Inv'
<1>1. TypeOK'
  BY DEF Inv, TypeOK, Safe, SafeAt, Untouched, TriageDefer, SetState, NewVersion, Exists
<1>2. Safe'
  BY DEF Inv, TypeOK, Safe, SafeAt, Untouched, AttentionHasResult, TriageDefer,
     SetState, NewVersion, Exists
<1>3. MergedOnce'
  BY DEF Inv, MergedOnce, TriageDefer
<1> QED  BY <1>1, <1>2, <1>3 DEF Inv

\* Reading changes what is fresh.
LEMMA ReadKeeps ==
  ASSUME Inv, NEW r \in Requests, NEW w \in Windows,
         Read(w, r)
  PROVE  Inv'
<1>1. TypeOK'
  BY DEF Inv, TypeOK, Safe, SafeAt, Untouched, Read, Exists, ClaimOwner
<1>2. Safe'
  BY DEF Inv, TypeOK, Safe, SafeAt, Untouched, AttentionHasResult, Read, Exists,
     ClaimOwner
<1>3. MergedOnce'
  BY DEF Inv, MergedOnce, Read
<1> QED  BY <1>1, <1>2, <1>3 DEF Inv

\* The renewed claim exists, so the request is not routed.
LEMMA RenewClaimKeeps ==
  ASSUME Inv, NEW r \in Requests, NEW w \in Windows,
         RenewClaim(w, r)
  PROVE  Inv'
<1>1. TypeOK'
  BY DEF Inv, TypeOK, Safe, SafeAt, Untouched, RenewClaim, Lease, MayClaim, ClaimOwner,
     Exists
<1>2. Safe'
  BY DEF Inv, TypeOK, Safe, SafeAt, Untouched, AttentionHasResult, RenewClaim, Lease,
     MayClaim, ClaimOwner, Exists
<1>3. MergedOnce'
  BY DEF Inv, MergedOnce, RenewClaim
<1> QED  BY <1>1, <1>2, <1>3 DEF Inv

\* Outside routed the claim owner is the owner.
LEMMA ClaimRequestKeeps ==
  ASSUME Inv, NEW r \in Requests, NEW w \in Windows,
         ClaimRequest(w, r)
  PROVE  Inv'
<1>1. TypeOK'
  BY DEF Inv, TypeOK, Safe, SafeAt, Untouched, ClaimRequest, Lease, MayClaim,
     ClaimOwner, Exists
<1>2. Safe'
  BY DEF Inv, TypeOK, Safe, SafeAt, Untouched, AttentionHasResult, ClaimRequest, Lease,
     MayClaim, ClaimOwner, Exists
<1>3. MergedOnce'
  BY DEF Inv, MergedOnce, ClaimRequest
<1> QED  BY <1>1, <1>2, <1>3 DEF Inv

\* Ownership and claim move together to the recipient's window.
LEMMA AcceptRouteKeeps ==
  ASSUME Inv, NEW r \in Requests, NEW w \in Windows,
         AcceptRoute(w, r)
  PROVE  Inv'
<1>1. TypeOK'
  BY DEF Inv, TypeOK, Safe, SafeAt, Untouched, AcceptRoute, SetState, Lease, MayClaim,
     ClaimOwner, Exists
<1>2. Safe'
  BY DEF Inv, TypeOK, Safe, SafeAt, Untouched, AttentionHasResult, AcceptRoute,
     SetState, Lease, MayClaim, ClaimOwner, Exists
<1>3. MergedOnce'
  BY DEF Inv, MergedOnce, AcceptRoute
<1> QED  BY <1>1, <1>2, <1>3 DEF Inv

\* A released claim binds nobody.
LEMMA ReleaseClaimKeeps ==
  ASSUME Inv, NEW r \in Requests, NEW w \in Windows,
         ReleaseClaim(w, r)
  PROVE  Inv'
<1>1. TypeOK'
  BY DEF Inv, TypeOK, Safe, SafeAt, Untouched, ReleaseClaim, Lease, Release
<1>2. Safe'
  BY DEF Inv, TypeOK, Safe, SafeAt, Untouched, AttentionHasResult, ReleaseClaim, Lease,
     Release
<1>3. MergedOnce'
  BY DEF Inv, MergedOnce, ReleaseClaim
<1> QED  BY <1>1, <1>2, <1>3 DEF Inv

\* A dispatch may change the mode, but leaves the request in progress.
LEMMA DispatchRequestKeeps ==
  ASSUME Inv, NEW r \in Requests, NEW w \in Windows, NEW m \in Modes,
         DispatchRequest(w, r, m)
  PROVE  Inv'
<1>1. TypeOK'
  BY DEF Inv, TypeOK, Safe, SafeAt, Untouched, DispatchRequest, SetState, NewVersion,
     Writes, Classifiable
<1>2. Safe'
  BY DEF Inv, TypeOK, Safe, SafeAt, Untouched, AttentionHasResult, DispatchRequest,
     SetState, NewVersion, Writes, Classifiable
<1>3. MergedOnce'
  BY DEF Inv, MergedOnce, DispatchRequest
<1> QED  BY <1>1, <1>2, <1>3 DEF Inv

\* An offer releases the claim and names its recipient.
LEMMA RouteRequestKeeps ==
  ASSUME Inv, NEW r \in Requests, NEW w \in Windows, NEW a \in Agents,
         RouteRequest(w, r, a)
  PROVE  Inv'
<1>1. TypeOK'
  BY DEF Inv, TypeOK, Safe, SafeAt, Untouched, RouteRequest, SetState, NewVersion,
     Writes, WritesCurrent, Lease, Release
<1>2. Safe'
  BY DEF Inv, TypeOK, Safe, SafeAt, Untouched, AttentionHasResult, RouteRequest,
     SetState, NewVersion, Writes, WritesCurrent, Lease, Release
<1>3. MergedOnce'
  BY DEF Inv, MergedOnce, RouteRequest
<1> QED  BY <1>1, <1>2, <1>3 DEF Inv

\* A received offer is still an offer; it exists, so does the request.
LEMMA ReceiveOfferKeeps ==
  ASSUME Inv, NEW r \in Requests,
         ReceiveOffer(r, pending[r])
  PROVE  Inv'
<1>1. TypeOK'
  BY DEF Inv, TypeOK, Safe, SafeAt, Untouched, ReceiveOffer
<1>2. Safe'
  BY DEF Inv, TypeOK, Safe, SafeAt, Untouched, AttentionHasResult, ReceiveOffer
<1>3. MergedOnce'
  BY DEF Inv, MergedOnce, ReceiveOffer
<1> QED  BY <1>1, <1>2, <1>3 DEF Inv

\* The settable states other than cancelled promise nothing.
LEMMA SetRequestStateKeeps ==
  ASSUME Inv, NEW r \in Requests, NEW w \in Windows, NEW s \in Settable,
         SetRequestState(w, r, s)
  PROVE  Inv'
<1>1. TypeOK'
  BY DEF Inv, TypeOK, Safe, SafeAt, Untouched, SetRequestState, SetState, NewVersion,
     Writes, WritesCurrent, Settable
<1>2. Safe'
  BY DEF Inv, TypeOK, Safe, SafeAt, Untouched, AttentionHasResult, SetRequestState,
     SetState, NewVersion, Writes, WritesCurrent, Settable
<1>3. MergedOnce'
  BY DEF Inv, MergedOnce, SetRequestState
<1> QED  BY <1>1, <1>2, <1>3 DEF Inv

\* A cancellation closes an open attention obligation.
LEMMA CancelRequestKeeps ==
  ASSUME Inv, NEW r \in Requests, NEW w \in Windows,
         CancelRequest(w, r)
  PROVE  Inv'
<1>1. TypeOK'
  BY DEF Inv, TypeOK, Safe, SafeAt, Untouched, CancelRequest, SetState, NewVersion,
     Writes, WritesCurrent, Lease, Release, SettleAttention
<1>2. Safe'
  BY DEF Inv, TypeOK, Safe, SafeAt, Untouched, AttentionHasResult, CancelRequest,
     SetState, NewVersion, Writes, WritesCurrent, Lease, Release, SettleAttention
<1>3. MergedOnce'
  BY DEF Inv, MergedOnce, CancelRequest
<1> QED  BY <1>1, <1>2, <1>3 DEF Inv

\* A result recorded after a Champion answer is proved like the first.
LEMMA RecordResultKeeps ==
  ASSUME Inv, NEW r \in Requests, NEW w \in Windows, NEW e \in Evidence,
         RecordResult(w, r, e)
  PROVE  Inv'
<1>1. TypeOK'
  BY DEF Inv, TypeOK, Safe, SafeAt, Untouched, RecordResult, NewVersion, Writes,
     WritesCurrent, Resolves
<1>2. Safe'
  BY DEF Inv, TypeOK, Safe, SafeAt, Untouched, AttentionHasResult, RecordResult,
     NewVersion, Writes, WritesCurrent, Resolves
<1>3. MergedOnce'
  BY DEF Inv, MergedOnce, RecordResult
<1> QED  BY <1>1, <1>2, <1>3 DEF Inv

\* A return brings result, owner and obligation together.
LEMMA ReturnResultKeeps ==
  ASSUME Inv, NEW r \in Requests, NEW w \in Windows, NEW e \in Evidence,
         ReturnResult(w, r, e)
  PROVE  Inv'
<1>1. TypeOK'
  BY DEF Inv, TypeOK, Safe, SafeAt, Untouched, ReturnResult, SetState, NewVersion,
     Writes, WritesCurrent, Resolves, Lease, Release, ReturnInsertable
<1>2. Safe'
  BY DEF Inv, TypeOK, Safe, SafeAt, Untouched, AttentionHasResult, ReturnResult,
     SetState, NewVersion, Writes, WritesCurrent, Resolves, Lease, Release,
     ReturnInsertable
<1>3. MergedOnce'
  BY DEF Inv, MergedOnce, ReturnResult
<1> QED  BY <1>1, <1>2, <1>3 DEF Inv

\* An answer closes the obligation, in Champion mode with a proved result.
LEMMA AnswerRequestKeeps ==
  ASSUME Inv, NEW r \in Requests, NEW w \in Windows,
         AnswerRequest(w, r)
  PROVE  Inv'
<1>1. TypeOK'
  BY DEF Inv, TypeOK, Safe, SafeAt, Untouched, AnswerRequest, SetState, NewVersion,
     Writes, WritesCurrent, Lease, Release, SettleAttention
<1>2. Safe'
  BY DEF Inv, TypeOK, Safe, SafeAt, Untouched, AttentionHasResult, AnswerRequest,
     SetState, NewVersion, Writes, WritesCurrent, Lease, Release, SettleAttention
<1>3. MergedOnce'
  BY DEF Inv, MergedOnce, AnswerRequest
<1> QED  BY <1>1, <1>2, <1>3 DEF Inv

\* An expired claim is still its window's.
LEMMA ExpireClaimKeeps ==
  ASSUME Inv, NEW r \in Requests,
         ExpireClaim(r)
  PROVE  Inv'
<1>1. TypeOK'
  BY DEF Inv, TypeOK, Safe, SafeAt, Untouched, ExpireClaim
<1>2. Safe'
  BY DEF Inv, TypeOK, Safe, SafeAt, Untouched, AttentionHasResult, ExpireClaim
<1>3. MergedOnce'
  BY DEF Inv, MergedOnce, ExpireClaim
<1> QED  BY <1>1, <1>2, <1>3 DEF Inv

\* A duplicate has no result, so it was never returned and owes no attention;
\* neither side was merged before, so no chain appears.
LEMMA ReconcileDuplicateKeeps ==
  ASSUME Inv, NEW d \in Requests, NEW c \in Requests, NEW w \in Windows,
         ReconcileDuplicate(w, d, c)
  PROVE  Inv'
<1>1. TypeOK'
  BY DEF Inv, TypeOK, ReconcileDuplicate, SetState, Release, Lease, NewVersion, Exists
<1>2. attention[d] = "none"
  BY DEF Inv, TypeOK, Safe, SafeAt, AttentionHasResult, ReconcileDuplicate, Executed
<1>3. Safe'
  BY <1>2 DEF Inv, TypeOK, Safe, SafeAt, Untouched, AttentionHasResult,
     ReconcileDuplicate,
     SetState, Release, Lease, NewVersion, Exists
<1>4. MergedOnce'
  <2> SUFFICES ASSUME NEW x \in Requests, canonical'[x] # NoRequest
               PROVE  canonical'[canonical'[x]] = NoRequest
    BY DEF MergedOnce
  <2>1. canonical' = [canonical EXCEPT ![d] = c] /\ d # c
    BY DEF ReconcileDuplicate
  <2>2. canonical[c] = NoRequest /\ \A y \in Requests : canonical[y] # d
    BY DEF ReconcileDuplicate, Chained
  <2>3. CASE x = d
    BY <2>1, <2>2, <2>3 DEF Inv, TypeOK
  <2>4. CASE x # d
    BY <2>1, <2>2, <2>4 DEF Inv, TypeOK, MergedOnce
  <2> QED  BY <2>3, <2>4
<1> QED  BY <1>1, <1>3, <1>4 DEF Inv

\* A runtime that is lost or restored changes no request.
LEMMA RuntimeKeeps ==
  ASSUME Inv, NEW w \in Windows, LoseRuntime(w) \/ RestoreRuntime(w)
  PROVE  Inv'
BY DEF Inv, TypeOK, Safe, SafeAt, Untouched, AttentionHasResult, MergedOnce, LoseRuntime,
   RestoreRuntime

-----------------------------------------------------------------------------
LEMMA NextKeeps == Inv /\ [Next]_vars => Inv'
<1> SUFFICES ASSUME Inv, [Next]_vars PROVE Inv'
  OBVIOUS
<1>1. CASE UNCHANGED vars
  BY <1>1 DEF vars, Inv, TypeOK, Safe, SafeAt, Untouched, AttentionHasResult, MergedOnce
<1>2. CASE \E r \in Requests, a \in Agents : TriageNew(r, a)
  BY <1>2, TriageNewKeeps
<1>3. CASE \E r \in Requests, w \in Windows, m \in Modes : BeginTurn(w, r, m)
  BY <1>3, BeginTurnKeeps
<1>4. CASE \E r \in Requests, w \in Windows \cup {NoWindow} : TriageDefer(r, w)
  BY <1>4, TriageDeferKeeps
<1>5. CASE \E r \in Requests, w \in Windows : Read(w, r)
  BY <1>5, ReadKeeps
<1>6. CASE \E r \in Requests, w \in Windows : Claiming(w, r)
  BY <1>6, RenewClaimKeeps, ClaimRequestKeeps, AcceptRouteKeeps, ReleaseClaimKeeps DEF
     Claiming
<1>7. CASE \E r \in Requests, w \in Windows : Working(w, r)
  BY <1>7, DispatchRequestKeeps, RouteRequestKeeps, SetRequestStateKeeps,
     RecordResultKeeps,
     CancelRequestKeeps, AnswerRequestKeeps DEF Working
<1>8. CASE \E r \in Requests : Returning(r)
  BY <1>8, ReturnResultKeeps DEF Returning
<1>9. CASE \E d, c \in Requests, w \in Windows : ReconcileDuplicate(w, d, c)
  BY <1>9, ReconcileDuplicateKeeps
<1>10. CASE Environment
  BY <1>10, ExpireClaimKeeps, ReceiveOfferKeeps, RuntimeKeeps DEF Environment
<1> QED
  BY <1>1, <1>2, <1>3, <1>4, <1>5, <1>6, <1>7, <1>8, <1>9, <1>10 DEF Next, NotReturning

\* Every reachable state of every instance satisfies the invariant.
THEOREM Invariance == Spec => []Inv
BY InitInv, NextKeeps, PTL DEF Spec

\* The state is well typed, and a claim that has expired exists.
THEOREM RequestsTypes == Spec => []TypeOK
BY Invariance, PTL DEF Inv

\* Only a window of the owner holds the claim of a request, and none while it
\* is offered: no window of an agent that routed it away or returned it keeps a
\* claim it could write with.
THEOREM OwnersHaveThePen == Spec => []PenIsOwners
<1>1. Inv => PenIsOwners
  BY DEF Inv, Safe, SafeAt, PenIsOwners, ClaimIsOwners, RoutedIsUnclaimed
<1> QED  BY <1>1, Invariance, PTL

\* A returned request is its requester's, with a result and an obligation, and
\* answered and cancelled requests leave no open one.
THEOREM AttentionIsOwed == Spec => []AttentionAgrees
<1>1. Inv => AttentionAgrees
  BY DEF Inv, Safe, SafeAt, AttentionAgrees, ReturnedIsHome, SettledOwesNoAttention
<1> QED  BY <1>1, Invariance, PTL

\* No Champion request is answered without an issue-owned result.
THEOREM ChampionAnswersAreProved == Spec => []ChampionAnswerIsProved
<1>1. Inv => ChampionAnswerIsProved
  BY DEF Inv, Safe, SafeAt, ChampionAnswerIsProved
<1> QED  BY <1>1, Invariance, PTL

\* Pen, attention and answer of every request agree, for any number of requests,
\* agents and windows.
THEOREM RequestsAlwaysAgree == Spec => []RequestsAgree
BY OwnersHaveThePen, AttentionIsOwed, ChampionAnswersAreProved, PTL DEF RequestsAgree

\* Merges form no chains, for any number of requests.
THEOREM MergesDoNotChain == Spec => []MergedOnce
BY Invariance, PTL DEF Inv

-----------------------------------------------------------------------------
(* How ownership moves.                                                    *)

Consented(r) ==
  Exists(r) /\ owner'[r] # owner[r] =>
    \/ state[r] = "routed" /\ owner'[r] = pending[r] /\ offer[r] = "received"
    \/ owner'[r] = requester[r] /\ latest'[r] # "none" /\ attention'[r] = "open"

\* Most actions leave every owner alone.
LEMMA OwnersStay ==
  ASSUME NEW r \in Requests, UNCHANGED owner
  PROVE  Consented(r)
BY DEF Consented

LEMMA ReturnsConsent ==
  ASSUME Inv, NEW r \in Requests, NEW x \in Requests, Returning(x)
  PROVE  Consented(r)
BY DEF Inv, TypeOK, Returning, ReturnResult, Consented

LEMMA ClaimsConsent ==
  ASSUME Inv, NEW r \in Requests, NEW x \in Requests, NEW w \in Windows, Claiming(w, x)
  PROVE  Consented(r)
BY DEF Inv, TypeOK, Claiming, RenewClaim, ClaimRequest, AcceptRoute, ReleaseClaim,
   Consented

LEMMA StepsConsent ==
  ASSUME Inv, [Next]_vars, NEW r \in Requests
  PROVE  Consented(r)
<1>1. CASE UNCHANGED vars
  BY <1>1, OwnersStay DEF vars
<1>2. CASE \E x \in Requests, a \in Agents : TriageNew(x, a)
  BY <1>2 DEF Inv, TypeOK, TriageNew, Consented, Exists
<1>3. CASE \E x \in Requests, w \in Windows, m \in Modes : BeginTurn(w, x, m)
  BY <1>3 DEF Inv, TypeOK, BeginTurn, Consented, Exists
<1>4. CASE \E x \in Requests, w \in Windows \cup {NoWindow} : TriageDefer(x, w)
  BY <1>4, OwnersStay DEF TriageDefer
<1>5. CASE \E x \in Requests, w \in Windows : Read(w, x) \/ Working(w, x)
  BY <1>5, OwnersStay DEF Read, Working, DispatchRequest, RouteRequest, SetRequestState,
     RecordResult, CancelRequest, AnswerRequest
<1>6. CASE \E x \in Requests, w \in Windows : Claiming(w, x)
  BY <1>6, ClaimsConsent
<1>7. CASE \E x \in Requests : Returning(x)
  BY <1>7, ReturnsConsent
<1>8. CASE \E d, c \in Requests, w \in Windows : ReconcileDuplicate(w, d, c)
  BY <1>8, OwnersStay DEF ReconcileDuplicate
<1>9. CASE Environment
  BY <1>9, OwnersStay DEF Environment, ExpireClaim, ReceiveOffer, LoseRuntime,
     RestoreRuntime
<1> QED
  BY <1>1, <1>2, <1>3, <1>4, <1>5, <1>6, <1>7, <1>8, <1>9 DEF Next, NotReturning

\* An agent becomes owner by accepting an offer it received, or as requester
\* of a returned result; no other transaction moves ownership.
THEOREM OwnershipIsConsented == Spec => OwnershipMovesByConsent
<1>1. Inv /\ [Next]_vars => [\A r \in Requests : Consented(r)]_vars
  BY StepsConsent
<1> QED  BY <1>1, Invariance, PTL DEF Spec, OwnershipMovesByConsent, Consented

-----------------------------------------------------------------------------
(* Requests implements Stewardship.                                        *)

Mapped == [Steward!Next]_(Steward!shared)

LEMMA InitStewards == Init => Steward!Init
BY DEF Init, Steward!Init, Offered

\* A step that leaves owners, claims and offers alone is a stutter.
LEMMA StewardStutters ==
  ASSUME UNCHANGED <<owner, requester, claim>>,
         \A x \in Requests : Offered(x)' = Offered(x)
  PROVE  Mapped
BY DEF Mapped, Steward!shared

LEMMA StewardAdopts ==
  ASSUME Inv, NEW r \in Requests, NEW a \in Agents, TriageNew(r, a)
  PROVE  Steward!Adopt(r, a)
<1>1. \A x \in Requests : Offered(x)' = Offered(x)
  BY DEF Inv, TypeOK, TriageNew, SetState, Offered
<1>2. Steward!Pen(r, NoWindow)
  BY DEF Inv, TypeOK, Safe, SafeAt, Untouched, TriageNew, Steward!Pen
<1>3. \E w \in Windows \cup {NoWindow} : (w = NoWindow \/ AgentOf[w] = a) /\ Steward!Pen(r, w)
  BY <1>2
<1> QED
  BY <1>1, <1>3 DEF Inv, Safe, SafeAt, Untouched, TriageNew, Steward!Adopt

LEMMA StewardAdoptsTurn ==
  ASSUME Inv, NEW r \in Requests, NEW w \in Windows, NEW m \in Modes, BeginTurn(w, r, m)
  PROVE  Steward!Adopt(r, AgentOf[w])
<1>1. \A x \in Requests : Offered(x)' = Offered(x)
  BY DEF Inv, TypeOK, BeginTurn, SetState, Offered
<1>2. Steward!Pen(r, w)
  BY DEF BeginTurn, Lease, Steward!Pen
<1>3. \E v \in Windows \cup {NoWindow} :
        (v = NoWindow \/ AgentOf[v] = AgentOf[w]) /\ Steward!Pen(r, v)
  BY <1>2
<1> QED
  BY <1>1, <1>3 DEF Inv, Safe, SafeAt, Untouched, BeginTurn, Steward!Adopt

\* A deferral withdraws an offer and is a stutter otherwise.
LEMMA StewardDefers ==
  ASSUME Inv, NEW r \in Requests, NEW w \in Windows \cup {NoWindow}, TriageDefer(r, w)
  PROVE  Steward!Withdraw(r)
<1>1. \A x \in Requests : Offered(x)' = IF x = r THEN NoAgent ELSE Offered(x)
  BY DEF Inv, TypeOK, TriageDefer, SetState, Offered
<1> QED  BY <1>1 DEF TriageDefer, Steward!Withdraw

LEMMA StewardClaims ==
  ASSUME Inv, NEW r \in Requests, NEW w \in Windows, Claiming(w, r)
  PROVE  Mapped
<1>1. CASE RenewClaim(w, r) \/ ClaimRequest(w, r)
  <2>1. state[r] # "routed"
    BY <1>1 DEF Inv, Safe, SafeAt, RenewClaim, ClaimRequest
  <2>2. Steward!TakePen(r, w)
    BY <1>1, <2>1 DEF RenewClaim, ClaimRequest, MayClaim, ClaimOwner, Lease, Offered,
       Steward!TakePen, Steward!Pen
  <2> QED  BY <2>2 DEF Mapped, Steward!Next
<1>2. CASE AcceptRoute(w, r)
  <2>1. \A x \in Requests : Offered(x)' = IF x = r THEN NoAgent ELSE Offered(x)
    BY <1>2 DEF Inv, TypeOK, AcceptRoute, SetState, Offered
  <2>2. claim[r] = NoWindow /\ Offered(r) = AgentOf[w] /\ pending[r] = AgentOf[w]
    BY <1>2 DEF Inv, Safe, SafeAt, AcceptRoute, MayClaim, ClaimOwner, Offered
  <2>3. Steward!Accept(r, w)
    BY <1>2, <2>1, <2>2 DEF AcceptRoute, Lease, Steward!Accept, Steward!Pen
  <2> QED  BY <2>3 DEF Mapped, Steward!Next
<1>3. CASE ReleaseClaim(w, r)
  <2>1. Steward!DropPen(r)
    BY <1>3 DEF ReleaseClaim, Release, Lease, Offered, Steward!DropPen, Steward!Pen
  <2> QED  BY <2>1 DEF Mapped, Steward!Next
<1> QED  BY <1>1, <1>2, <1>3 DEF Claiming

\* Route is the offer of the writer; a cancellation and an answer drop the
\* pen; a claim holder's other commands stutter, for no request with a claim
\* is routed.
LEMMA StewardWorks ==
  ASSUME Inv, NEW r \in Requests, NEW w \in Windows, Working(w, r)
  PROVE  Mapped
<1>1. CASE \E a \in Intake : RouteRequest(w, r, a)
  <2>1. PICK a \in Intake : RouteRequest(w, r, a)
    BY <1>1
  <2>2. \A x \in Requests : Offered(x)' = IF x = r THEN a ELSE Offered(x)
    BY <2>1 DEF Inv, TypeOK, RouteRequest, SetState, Offered
  <2>3. Steward!Offer(r, a)
    BY <2>1, <2>2 DEF RouteRequest, WritesCurrent, Writes, Release, Lease, Steward!Offer,
       Steward!Pen
  <2> QED  BY <2>1, <2>3 DEF Mapped, Steward!Next
<1>2. CASE CancelRequest(w, r) \/ AnswerRequest(w, r)
  <2>1. \A x \in Requests : Offered(x)' = Offered(x)
    BY <1>2 DEF Inv, TypeOK, Safe, SafeAt, CancelRequest, AnswerRequest,
       WritesCurrent, Writes,
       SetState, Offered
  <2>2. Steward!DropPen(r)
    BY <1>2, <2>1 DEF CancelRequest, AnswerRequest, Release, Lease, Steward!DropPen,
       Steward!Pen
  <2> QED  BY <2>2 DEF Mapped, Steward!Next
<1>3. CASE \/ \E m \in Modes : DispatchRequest(w, r, m)
           \/ \E s \in Settable : SetRequestState(w, r, s)
           \/ \E e \in Evidence : RecordResult(w, r, e)
  <2>1. state[r] # "routed"
    BY <1>3 DEF Inv, Safe, SafeAt, DispatchRequest, SetRequestState, RecordResult,
       Resolves,
       WritesCurrent, Writes
  <2>2. \A x \in Requests : Offered(x)' = Offered(x)
    BY <1>3, <2>1 DEF Inv, TypeOK, DispatchRequest, SetRequestState, RecordResult,
       SetState,
       Settable, Offered
  <2> QED
    BY <1>3, <2>2, StewardStutters DEF DispatchRequest, SetRequestState, RecordResult
<1> QED  BY <1>1, <1>2, <1>3 DEF Working

LEMMA StewardReturns ==
  ASSUME Inv, NEW r \in Requests, Returning(r)
  PROVE  Mapped
<1>1. PICK w \in Windows, e \in Evidence : ReturnResult(w, r, e)
  BY DEF Returning
<1>2. state[r] # "routed"
  BY <1>1 DEF Inv, Safe, SafeAt, ReturnResult, Resolves, WritesCurrent, Writes
<1>3. \A x \in Requests : Offered(x)' = Offered(x)
  BY <1>1, <1>2 DEF Inv, TypeOK, ReturnResult, SetState, Offered
<1>4. Steward!HandBack(r)
  BY <1>1, <1>2, <1>3 DEF ReturnResult, Resolves, WritesCurrent, Writes, Release, Lease,
     Offered,
     Steward!HandBack, Steward!Pen
<1> QED  BY <1>4 DEF Mapped, Steward!Next

\* The merged duplicate may have been offered: its offer is withdrawn and its
\* claim, if any, released.
LEMMA StewardMerges ==
  ASSUME Inv, NEW d \in Requests, NEW c \in Requests, NEW w \in Windows,
         ReconcileDuplicate(w, d, c)
  PROVE  Mapped
<1>1. \A x \in Requests : Offered(x)' = IF x = d THEN NoAgent ELSE Offered(x)
  BY DEF Inv, TypeOK, ReconcileDuplicate, SetState, Offered
<1>2. CASE state[d] = "routed"
  <2>1. claim' = claim
    BY <1>2 DEF Inv, TypeOK, Safe, SafeAt, ReconcileDuplicate, Release, Lease
  <2>2. Steward!Withdraw(d)
    BY <1>1, <2>1 DEF ReconcileDuplicate, Steward!Withdraw
  <2> QED  BY <2>2 DEF Mapped, Steward!Next
<1>3. CASE state[d] # "routed"
  <2>1. \A x \in Requests : Offered(x)' = Offered(x)
    BY <1>1, <1>3 DEF Offered
  <2>2. Steward!DropPen(d)
    BY <2>1 DEF ReconcileDuplicate, Release, Lease, Steward!DropPen, Steward!Pen
  <2> QED  BY <2>2 DEF Mapped, Steward!Next
<1> QED  BY <1>2, <1>3

LEMMA StewardSteps == Inv /\ [Next]_vars => Mapped
<1> SUFFICES ASSUME Inv, [Next]_vars PROVE Mapped
  OBVIOUS
<1>1. CASE UNCHANGED vars
  BY <1>1, StewardStutters DEF vars, Offered
<1>2. CASE \E r \in Requests, a \in Agents : TriageNew(r, a)
  BY <1>2, StewardAdopts DEF Mapped, Steward!Next
<1>3. CASE \E r \in Requests, w \in Windows, m \in Modes : BeginTurn(w, r, m)
  BY <1>3, StewardAdoptsTurn DEF Mapped, Steward!Next
<1>4. CASE \E r \in Requests, w \in Windows \cup {NoWindow} : TriageDefer(r, w)
  BY <1>4, StewardDefers DEF Mapped, Steward!Next
<1>5. CASE \E r \in Requests, w \in Windows : Read(w, r)
  BY <1>5, StewardStutters DEF Read, Offered
<1>6. CASE \E r \in Requests, w \in Windows : Claiming(w, r)
  BY <1>6, StewardClaims
<1>7. CASE \E r \in Requests, w \in Windows : Working(w, r)
  BY <1>7, StewardWorks
<1>8. CASE \E r \in Requests : Returning(r)
  BY <1>8, StewardReturns
<1>9. CASE \E d, c \in Requests, w \in Windows : ReconcileDuplicate(w, d, c)
  BY <1>9, StewardMerges
<1>10. CASE Environment
  BY <1>10, StewardStutters DEF Environment, ExpireClaim, ReceiveOffer, LoseRuntime,
     RestoreRuntime, Offered
<1> QED
  BY <1>1, <1>2, <1>3, <1>4, <1>5, <1>6, <1>7, <1>8, <1>9, <1>10 DEF Next, NotReturning

\* Every behaviour of every instance of Requests is one that stewardship
\* allows: one answerable agent, one writer of that agent, and handovers that
\* go through an offer or a return.
THEOREM RequestsImplementsStewardship == Spec => ImplementsStewardship
<1>1. Init => Steward!Init
  BY InitStewards
<1>2. Inv /\ [Next]_vars => Mapped
  BY StewardSteps
<1> QED
  BY <1>1, <1>2, Invariance, PTL DEF Spec, ImplementsStewardship, Steward!Spec, Mapped
=============================================================================
