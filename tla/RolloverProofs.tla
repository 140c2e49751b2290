--------------------------- MODULE RolloverProofs ---------------------------
(***************************************************************************)
(* Proofs that one Shotcaller accepts work for a Squad through any number  *)
(* of rollovers, that Rollover implements Succession, that Champions and   *)
(* their reports go with the Squad and that it is handed over whole.       *)
(*                                                                         *)
(* All rest on what the intake rows remember: a successor's row is new    *)
(* when it is selected and is never new again, so no Shotcaller is selected*)
(* twice, and no predecessor is selected at all.  Requests, Champions and  *)
(* reports do not touch the Squad, its intake or the operations, so the    *)
(* proof of the invariant is about six actions.                            *)
(***************************************************************************)
EXTENDS RolloverProperties, TLAPS

handover == <<squad, intake, operation>>

Selected(o) == operation[o].state # "none"

Waiting(o) == operation[o].state \in {"prepared", "acknowledged"}

Switched(o) == operation[o].state \in Committed

\* A row of rollover_operations.
Row == [state : {"none", "prepared", "acknowledged", "switched", "completed", "aborted"},
        from : Line \cup {NoAgent}, to : Line \cup {NoAgent}, fence : Nat, expired : BOOLEAN]

SquadType ==
  /\ squad \in [owner : Line, fence : Nat]
  /\ intake \in [Line -> [state : {"none", "accepting", "draining", "closed"}, fence : Nat]]
  /\ operation \in [Operations -> Row]

\* What the intake row of a selected successor says.
Selection ==
  \A o \in Operations :
    /\ Selected(o) => operation[o].from \in Line /\ operation[o].to \in Line
                      /\ intake[operation[o].to].state # "none"
    /\ Waiting(o) => intake[operation[o].to].state = "draining"
    /\ operation[o].state = "aborted" => intake[operation[o].to].state = "closed"
    /\ Switched(o) => intake[operation[o].from].state \in {"draining", "closed"}

\* Nobody is selected twice, and no predecessor is a waiting successor.
Distinct ==
  \A o, q \in Operations :
    /\ o # q /\ Selected(o) /\ Selected(q) => operation[o].to # operation[q].to
    /\ Switched(o) /\ Waiting(q) => operation[o].from # operation[q].to

RInv == SquadType /\ OneAcceptor /\ Selection /\ Distinct

-----------------------------------------------------------------------------
(* The invariant.                                                          *)

LEMMA InitRInv == RolloverInit => RInv
<1> SUFFICES ASSUME RolloverInit PROVE RInv
  OBVIOUS
<1>1. squad = [owner |-> First, fence |-> 1] /\ First \in Line
  BY RolloverAssumption DEF RolloverInit
<1>2. SquadType
  BY <1>1 DEF RolloverInit, SquadType, Row, None
<1>3. OneAcceptor
  BY <1>1 DEF RolloverInit, OneAcceptor
<1>4. \A o \in Operations : operation[o].state = "none"
  BY DEF RolloverInit, None
<1> QED  BY <1>2, <1>3, <1>4 DEF RInv, Selection, Distinct, Selected, Waiting, Switched, Committed

LEMMA HandoverKept ==
  ASSUME RInv, UNCHANGED handover
  PROVE  RInv'
BY DEF RInv, handover, SquadType, OneAcceptor, Selection, Distinct, Selected, Waiting, Switched

\* A step that leaves every operation as far as it was, or acknowledges it.
LEMMA ProgressKeeps ==
  ASSUME RInv, SquadType',
         UNCHANGED <<squad, intake>>,
         \A q \in Operations :
           /\ operation'[q].to = operation[q].to
           /\ operation'[q].from = operation[q].from
           /\ \/ operation'[q].state = operation[q].state
              \/ operation[q].state = "prepared" /\ operation'[q].state = "acknowledged"
  PROVE  RInv'
<1>1. squad' = squad /\ intake' = intake
  OBVIOUS
<1>2. \A q \in Operations : /\ Selected(q)' <=> Selected(q)
                            /\ Waiting(q)' <=> Waiting(q)
                            /\ Switched(q)' <=> Switched(q)
                            /\ operation'[q].state = "aborted" <=> operation[q].state = "aborted"
  BY DEF Selected, Waiting, Switched, Committed
<1>3. Selection'
  BY <1>1, <1>2 DEF RInv, Selection
<1>4. Distinct'
  BY <1>1, <1>2 DEF RInv, Distinct
<1> QED  BY <1>1, <1>3, <1>4 DEF RInv, OneAcceptor

LEMMA AcknowledgeKeeps ==
  ASSUME RInv, NEW o \in Operations, Acknowledge(o)
  PROVE  RInv'
<1>1. /\ operation[o].state = "prepared"
      /\ squad' = squad /\ intake' = intake
      /\ operation' = [operation EXCEPT ![o].state = "acknowledged"]
  BY DEF Acknowledge, SetOperation, squadVars
<1>2. SquadType'
  BY <1>1 DEF RInv, SquadType, Row
<1> QED  BY <1>1, <1>2, ProgressKeeps DEF RInv, SquadType, Row

LEMMA ExpiryKeeps ==
  ASSUME RInv, NEW o \in Operations, Expire(o) \/ Refresh(o)
  PROVE  RInv'
<1>1. /\ squad' = squad /\ intake' = intake
      /\ \/ operation' = [operation EXCEPT ![o].expired = TRUE]
         \/ operation' = [operation EXCEPT ![o].expired = FALSE]
  BY DEF Expire, Refresh
<1>2. SquadType'
  <2>1. operation \in [Operations -> Row] /\ operation[o] \in Row
    BY DEF RInv, SquadType
  <2>2. /\ [operation[o] EXCEPT !.expired = TRUE] \in Row
        /\ [operation[o] EXCEPT !.expired = FALSE] \in Row
    BY <2>1, Zenon DEF Row
  <2>3. operation' \in [Operations -> Row]
    BY <1>1, <2>1, <2>2, Zenon
  <2> QED  BY <1>1, <2>3 DEF RInv, SquadType
<1> QED  BY <1>1, <1>2, ProgressKeeps DEF RInv, SquadType, Row

LEMMA PrepareKeeps ==
  ASSUME RInv, NEW o \in Operations, NEW s \in Line, Prepare(o, s)
  PROVE  RInv'
<1>1. /\ intake[s].state = "none" /\ s # squad.owner
      /\ operation[o].state = "none"
      /\ squad' = squad
      /\ operation' = [operation EXCEPT ![o] = [state |-> "prepared", from |-> squad.owner,
                                                to |-> s, fence |-> squad.fence, expired |-> FALSE]]
      /\ intake' = [intake EXCEPT ![s] = [state |-> "draining", fence |-> squad.fence]]
  BY DEF Prepare, Selectable, Handoff, Enlist
<1>2. SquadType'
  BY <1>1 DEF RInv, SquadType, Row
<1>3. OneAcceptor'
  BY <1>1 DEF RInv, SquadType, OneAcceptor
<1>4. \A q \in Operations : q # o => operation'[q] = operation[q]
  BY <1>1 DEF RInv, SquadType
<1>5. /\ operation'[o].state = "prepared" /\ operation'[o].to = s
      /\ operation'[o].from = squad.owner /\ squad.owner \in Line
  BY <1>1 DEF RInv, SquadType
<1>6. \A x \in Line : intake'[x] = IF x = s THEN [state |-> "draining", fence |-> squad.fence]
                                   ELSE intake[x]
  BY <1>1 DEF RInv, SquadType
<1>7. \A q \in Operations : /\ Selected(q) => operation[q].to # s
                            /\ Switched(q) => operation[q].from # s
  BY <1>1 DEF RInv, Selection, Selected, Switched, Committed
<1>8. Selection'
  <2> SUFFICES ASSUME NEW q \in Operations
               PROVE  /\ Selected(q)' => operation'[q].from \in Line /\ operation'[q].to \in Line
                                         /\ intake'[operation'[q].to].state # "none"
                      /\ Waiting(q)' => intake'[operation'[q].to].state = "draining"
                      /\ operation'[q].state = "aborted" => intake'[operation'[q].to].state = "closed"
                      /\ Switched(q)' => intake'[operation'[q].from].state \in {"draining", "closed"}
    BY DEF Selection
  <2>1. CASE q = o
    BY <2>1, <1>5, <1>6 DEF Selected, Waiting, Switched, Committed
  <2>2. CASE q # o
    BY <2>2, <1>4, <1>6, <1>7 DEF RInv, Selection, Selected, Waiting, Switched, Committed
  <2> QED  BY <2>1, <2>2
<1>9. Distinct'
  BY <1>1, <1>4, <1>5, <1>7 DEF RInv, Distinct, Selected, Waiting, Switched, Committed
<1> QED  BY <1>2, <1>3, <1>8, <1>9 DEF RInv

LEMMA CommitKeeps ==
  ASSUME RInv, NEW o \in Operations, Commit(o)
  PROVE  RInv'
<1> DEFINE p == operation[o].from
           s == operation[o].to
           fence == operation[o].fence + 1
<1>1. /\ operation[o].state = "acknowledged"
      /\ squad.owner = p
      /\ squad' = [owner |-> s, fence |-> fence]
      /\ operation' = [operation EXCEPT ![o].state = "switched"]
      /\ intake' = [intake EXCEPT ![p] = [state |-> "draining", fence |-> fence],
                                  ![s] = [state |-> "accepting", fence |-> fence]]
  BY DEF Commit, MayCommit, Unmoved, Switch, SetOperation
<1>2. /\ p \in Line /\ s \in Line /\ fence \in Nat
      /\ intake[s].state = "draining" /\ intake[p].state = "accepting" /\ p # s
  <2>1. p \in Line /\ s \in Line /\ intake[s].state = "draining"
    BY <1>1 DEF RInv, Selection, Selected, Waiting
  <2>2. intake[p].state = "accepting"
    BY DEF Commit, MayCommit
  <2>3. fence \in Nat
    BY DEF RInv, SquadType, Row
  <2>4. p # s
    BY <2>1, <2>2
  <2> QED  BY <2>1, <2>2, <2>3, <2>4
<1> HIDE DEF p, s, fence
<1>3. \A x \in Line : intake'[x] = IF x = s THEN [state |-> "accepting", fence |-> fence]
                                   ELSE IF x = p THEN [state |-> "draining", fence |-> fence]
                                   ELSE intake[x]
  BY <1>1, <1>2 DEF RInv, SquadType
<1>4. SquadType'
  BY <1>1, <1>2 DEF RInv, SquadType, Row
<1>5. \A x \in Line : x # p => intake[x].state # "accepting"
  BY <1>1 DEF RInv, OneAcceptor
<1>6. OneAcceptor'
  <2>1. squad'.owner = s /\ squad'.fence = fence
    BY <1>1
  <2> SUFFICES ASSUME NEW x \in Line
               PROVE  IF x = s THEN intake'[x] = [state |-> "accepting", fence |-> fence]
                      ELSE intake'[x].state # "accepting"
    BY <2>1 DEF OneAcceptor
  <2>2. CASE x = s
    BY <2>2, <1>3
  <2>3. CASE x = p
    BY <2>3, <1>2, <1>3
  <2>4. CASE x # s /\ x # p
    BY <2>4, <1>3, <1>5
  <2> QED  BY <2>2, <2>3, <2>4
<1>7. \A q \in Operations : q # o => operation'[q] = operation[q]
  BY <1>1 DEF RInv, SquadType
<1>8. operation'[o].state = "switched" /\ operation'[o].to = s /\ operation'[o].from = p
  BY <1>1 DEF RInv, SquadType, Row, p, s
<1>9. \A q \in Operations :
        /\ q # o /\ Selected(q) => operation[q].to # s
        /\ Waiting(q) => operation[q].to # p
        /\ operation[q].state = "aborted" => operation[q].to # p
        /\ Switched(q) => operation[q].from # p /\ operation[q].from # s
  <2>1. Waiting(o) /\ Selected(o) /\ operation[o].to = s
    BY <1>1 DEF Waiting, Selected, s
  <2> QED  BY <1>2, <2>1 DEF RInv, Selection, Distinct
<1>10. Selection'
  <2> SUFFICES ASSUME NEW q \in Operations
               PROVE  /\ Selected(q)' => operation'[q].from \in Line /\ operation'[q].to \in Line
                                         /\ intake'[operation'[q].to].state # "none"
                      /\ Waiting(q)' => intake'[operation'[q].to].state = "draining"
                      /\ operation'[q].state = "aborted" => intake'[operation'[q].to].state = "closed"
                      /\ Switched(q)' => intake'[operation'[q].from].state \in {"draining", "closed"}
    BY DEF Selection
  <2>1. CASE q = o
    BY <2>1, <1>2, <1>3, <1>8 DEF Selected, Waiting, Switched, Committed
  <2>2. CASE q # o
    <3>1. /\ Selected(q) => operation[q].from \in Line /\ operation[q].to \in Line
                            /\ intake[operation[q].to].state # "none"
          /\ Waiting(q) => intake[operation[q].to].state = "draining"
          /\ operation[q].state = "aborted" => intake[operation[q].to].state = "closed"
          /\ Switched(q) => intake[operation[q].from].state \in {"draining", "closed"}
      BY DEF RInv, Selection
    <3>2. operation'[q] = operation[q]
      BY <2>2, <1>7
    <3> QED  BY <2>2, <3>1, <3>2, <1>3, <1>9 DEF Selected, Waiting, Switched, Committed
  <2> QED  BY <2>1, <2>2
<1>11. Distinct'
  <2>1. operation[o].to = s /\ Selected(o) /\ Waiting(o)
    BY <1>1 DEF s, Selected, Waiting
  <2> QED  BY <2>1, <1>7, <1>8, <1>9 DEF RInv, Distinct, Selected, Waiting, Switched, Committed
<1> QED  BY <1>4, <1>6, <1>10, <1>11 DEF RInv

LEMMA AbortKeeps ==
  ASSUME RInv, NEW o \in Operations, Abort(o)
  PROVE  RInv'
<1> DEFINE s == operation[o].to
<1>1. /\ Waiting(o)
      /\ squad' = squad
      /\ operation' = [operation EXCEPT ![o].state = "aborted"]
      /\ intake' = [intake EXCEPT ![s].state = "closed"]
  BY DEF Abort, SetOperation, Waiting
<1>2. s \in Line /\ intake[s].state = "draining" /\ Selected(o)
  BY <1>1 DEF RInv, Selection, Selected, Waiting
<1> HIDE DEF s
<1>3. SquadType'
  BY <1>1, <1>2 DEF RInv, SquadType, Row
<1>4. \A x \in Line : /\ intake'[x].state = IF x = s THEN "closed" ELSE intake[x].state
                      /\ intake'[x].fence = intake[x].fence
  BY <1>1, <1>2 DEF RInv, SquadType
<1>5. OneAcceptor'
  BY <1>1, <1>2, <1>4 DEF RInv, OneAcceptor
<1>6. \A q \in Operations : q # o => operation'[q] = operation[q]
  BY <1>1 DEF RInv, SquadType
<1>7. operation'[o].state = "aborted" /\ operation'[o].to = s /\ operation'[o].from = operation[o].from
  BY <1>1 DEF RInv, SquadType, Row, s
<1>8. \A q \in Operations : q # o /\ Selected(q) => operation[q].to # s
  BY <1>2 DEF RInv, Distinct, s
<1>9. Selection'
  BY <1>2, <1>4, <1>6, <1>7, <1>8 DEF RInv, Selection, Selected, Waiting, Switched, Committed
<1>10. Distinct'
  BY <1>2, <1>6, <1>7, <1>8 DEF RInv, Distinct, Selected, Waiting, Switched, Committed
<1> QED  BY <1>3, <1>5, <1>9, <1>10 DEF RInv

LEMMA CompleteKeeps ==
  ASSUME RInv, NEW o \in Operations, CompleteDrain(o)
  PROVE  RInv'
<1> DEFINE p == operation[o].from
<1>1. /\ operation[o].state = "switched"
      /\ squad' = squad
      /\ operation' = [operation EXCEPT ![o].state = "completed"]
      /\ intake' = [intake EXCEPT ![p].state = IF @ = "draining" THEN "closed" ELSE @]
  BY DEF CompleteDrain, SetOperation
<1>2. p \in Line /\ intake[p].state \in {"draining", "closed"} /\ Switched(o) /\ Selected(o)
  BY <1>1 DEF RInv, Selection, Selected, Switched, Committed
<1> HIDE DEF p
<1>3. SquadType'
  BY <1>1, <1>2 DEF RInv, SquadType, Row
<1>4. \A x \in Line : /\ intake'[x].state = IF x = p THEN "closed" ELSE intake[x].state
                      /\ intake'[x].fence = intake[x].fence
  BY <1>1, <1>2 DEF RInv, SquadType
<1>5. OneAcceptor'
  BY <1>1, <1>2, <1>4 DEF RInv, OneAcceptor
<1>6. \A q \in Operations : q # o => operation'[q] = operation[q]
  BY <1>1 DEF RInv, SquadType
<1>7. /\ operation'[o].state = "completed" /\ operation'[o].to = operation[o].to
      /\ operation'[o].from = p /\ operation[o].from = p
  BY <1>1 DEF RInv, SquadType, Row, p
<1>8. \A q \in Operations : Waiting(q) => operation[q].to # p
  BY <1>2 DEF RInv, Distinct, p
<1>9. Selection'
  BY <1>2, <1>4, <1>6, <1>7, <1>8 DEF RInv, Selection, Selected, Waiting, Switched, Committed
<1>10. Distinct'
  BY <1>2, <1>6, <1>7, <1>8 DEF RInv, Distinct, Selected, Waiting, Switched, Committed
<1> QED  BY <1>3, <1>5, <1>9, <1>10 DEF RInv

-----------------------------------------------------------------------------
LEMMA RequestsKeep == RequestStep => UNCHANGED handover
BY DEF RequestStep, CapturePrompt, TriagePrompt, DeliverOffer, Lapse, Offer, Return, TakeOffer,
   Work, Handle, Close, Reopen, squadVars, handover

LEMMA ChampionsKeep == ASSUME NEW c \in Champions PROVE ChampionStep(c) => UNCHANGED handover
BY DEF ChampionStep, Report, DispatchReport, ReportReceived, ReportFailed, Rebind, Settle, Retire,
   squadVars, handover

\* The commands of a rollover that only move what the Squad owns.
Moving(o) == ReconcileIntake(o) \/ \E c \in Champions : ReconcileDescendant(o, c)

LEMMA MovingKeeps == ASSUME NEW o \in Operations PROVE Moving(o) => UNCHANGED handover
BY DEF Moving, ReconcileIntake, ReconcileDescendant, MoveIntake, squadVars, handover

LEMMA ActivationKeeps == ASSUME NEW s \in Line PROVE ActivateCallsign(s) => UNCHANGED handover
BY DEF ActivateCallsign, handover

\* The steps by what they do to the handover.
LEMMA StepCases ==
  ASSUME [RolloverNext]_rolloverVars
  PROVE  \/ UNCHANGED handover
         \/ \E o \in Operations :
              \/ \E s \in Line : Prepare(o, s)
              \/ Acknowledge(o) \/ Commit(o) \/ Abort(o) \/ CompleteDrain(o)
              \/ Expire(o) \/ Refresh(o)
<1>1. CASE UNCHANGED rolloverVars
  BY <1>1 DEF rolloverVars, squadVars, handover
<1>2. CASE RequestStep
  BY <1>2, RequestsKeep
<1>3. CASE \E c \in Champions : ChampionStep(c)
  BY <1>3, ChampionsKeep
<1>4. CASE RolloverStep
  <2>1. CASE \E s \in Line : ActivateCallsign(s)
    BY <2>1, ActivationKeeps
  <2>2. CASE \E o \in Operations : Moving(o)
    BY <2>2, MovingKeeps
  <2> QED  BY <1>4, <2>1, <2>2 DEF RolloverStep, Moving
<1> QED  BY <1>1, <1>2, <1>3, <1>4 DEF RolloverNext

LEMMA StepKeeps == RInv /\ [RolloverNext]_rolloverVars => RInv'
BY StepCases, HandoverKept, PrepareKeeps, AcknowledgeKeeps, CommitKeeps, AbortKeeps,
   CompleteKeeps, ExpiryKeeps

LEMMA RInvariance == RolloverSpec => []RInv
BY InitRInv, StepKeeps, PTL DEF RolloverSpec

\* Whatever rollovers of a Squad are prepared, aborted, committed and drained,
\* and however they overlap: its owner accepts work, at the fence of its
\* ownership, and nobody else does.
THEOREM OneShotcallerAccepts == RolloverSpec => []OneAcceptor
<1>1. RInv => OneAcceptor
  BY DEF RInv
<1> QED  BY <1>1, RInvariance, PTL

-----------------------------------------------------------------------------
(* The refinement.  The abstract variables as functions of the operations, *)
(* so that what is said of them holds before and after a step.             *)

Agreeing(op, o, s) == op[o].state = "acknowledged" /\ op[o].to = s

TermIn(op, s) ==
  IF \E o \in Operations : Agreeing(op, o, s)
  THEN op[CHOOSE o \in Operations : Agreeing(op, o, s)].fence
  ELSE 0

Left(op, o, s) ==
  \/ op[o].state \in Committed /\ op[o].from = s
  \/ op[o].state = "aborted" /\ op[o].to = s

LEMMA TermOfNobody ==
  ASSUME NEW op, NEW s, \A o \in Operations : ~Agreeing(op, o, s)
  PROVE  TermIn(op, s) = 0
BY DEF TermIn

LEMMA TermOfOne ==
  ASSUME NEW op, NEW s, NEW o \in Operations, Agreeing(op, o, s),
         \A q \in Operations : Agreeing(op, q, s) => q = o
  PROVE  TermIn(op, s) = op[o].fence
<1>1. (CHOOSE q \in Operations : Agreeing(op, q, s)) = o
  OBVIOUS
<1> QED  BY <1>1 DEF TermIn

LEMMA TermsAre ==
  /\ \A s : AgreedTerm(s) = TermIn(operation, s)
  /\ \A s : AgreedTerm(s)' = TermIn(operation', s)
BY DEF AgreedTerm, TermIn, Agreeing

LEMMA GoneAre ==
  /\ \A s : s \in Departed <=> \E o \in Operations : Left(operation, o, s)
  /\ \A s : s \in Departed' <=> \E o \in Operations : Left(operation', o, s)
BY DEF Departed, Left

Mapped == [Succeeding!SuccessionNext]_(Succeeding!successionVars)

LEMMA InitSucceeds == RolloverInit => Succeeding!SuccessionInit
<1> SUFFICES ASSUME RolloverInit PROVE Succeeding!SuccessionInit
  OBVIOUS
<1>1. squad = [owner |-> First, fence |-> 1] /\ First \in Line
  BY RolloverAssumption DEF RolloverInit
<1>2. \A o \in Operations : operation[o].state = "none"
  BY DEF RolloverInit, None
<1>3. \A s \in Line : AgreedTerm(s) = 0
  BY <1>2 DEF AgreedTerm
<1>4. Departed = {}
  BY <1>2 DEF Departed, Committed
<1> QED  BY <1>1, <1>3, <1>4 DEF Succeeding!SuccessionInit

\* A step that changes no owner, no agreement and no departure.
LEMMA SuccessionStutters ==
  ASSUME squad' = squad,
         \A s \in Line : AgreedTerm(s)' = AgreedTerm(s),
         Departed' = Departed
  PROVE  Mapped
BY DEF Mapped, Succeeding!successionVars

LEMMA HandoverStutters ==
  ASSUME UNCHANGED handover
  PROVE  Mapped
BY SuccessionStutters DEF handover, AgreedTerm, Departed

\* Nobody agrees or leaves by an operation that keeps its state, or goes from
\* "none" to "prepared" or from "switched" to "completed".
LEMMA ProgressStutters ==
  ASSUME RInv, squad' = squad,
         \A q \in Operations :
           \/ /\ operation'[q].state = operation[q].state
              /\ operation'[q].from = operation[q].from
              /\ operation'[q].to = operation[q].to
              /\ operation'[q].fence = operation[q].fence
           \/ operation[q].state = "none" /\ operation'[q].state = "prepared"
           \/ /\ operation[q].state = "switched" /\ operation'[q].state = "completed"
              /\ operation'[q].from = operation[q].from
  PROVE  Mapped
<1>1. \A q \in Operations, s \in Line :
        /\ Left(operation', q, s) <=> Left(operation, q, s)
        /\ Agreeing(operation', q, s) <=> Agreeing(operation, q, s)
        /\ Agreeing(operation, q, s) => operation'[q].fence = operation[q].fence
  BY DEF Left, Agreeing, Committed
<1>2. \A q, x \in Operations, s \in Line :
        Agreeing(operation, q, s) /\ Agreeing(operation, x, s) => q = x
  BY DEF RInv, Distinct, Agreeing, Selected
<1>3. ASSUME NEW s \in Line PROVE TermIn(operation', s) = TermIn(operation, s)
  <2>1. CASE \A q \in Operations : ~Agreeing(operation, q, s)
    BY <2>1, <1>1, TermOfNobody
  <2>2. CASE \E q \in Operations : Agreeing(operation, q, s)
    <3>1. PICK q \in Operations : Agreeing(operation, q, s)
      BY <2>2
    <3>2. TermIn(operation, s) = operation[q].fence
      BY <3>1, <1>2, TermOfOne
    <3>3. TermIn(operation', s) = operation'[q].fence
      BY <3>1, <1>1, <1>2, TermOfOne
    <3> QED  BY <3>1, <3>2, <3>3, <1>1
  <2> QED  BY <2>1, <2>2
<1>4. Departed' = Departed
  <2>1. \A s : \A q \in Operations : Left(operation', q, s) <=> Left(operation, q, s)
    BY DEF Left, Committed
  <2> QED  BY <2>1, GoneAre
<1> QED  BY <1>3, <1>4, TermsAre, SuccessionStutters

LEMMA QuietStepsStutter ==
  ASSUME RInv, NEW o \in Operations,
         \/ \E s \in Line : Prepare(o, s)
         \/ CompleteDrain(o) \/ Expire(o) \/ Refresh(o)
  PROVE  Mapped
<1>1. CASE \E s \in Line : Prepare(o, s)
  BY <1>1, ProgressStutters DEF Prepare, Handoff, RInv, SquadType, Row
<1>2. CASE CompleteDrain(o)
  BY <1>2, ProgressStutters DEF CompleteDrain, SetOperation, RInv, SquadType, Row
<1>3. CASE Expire(o)
  BY <1>3, ProgressStutters DEF Expire, RInv, SquadType, Row
<1>4. CASE Refresh(o)
  BY <1>4, ProgressStutters DEF Refresh, RInv, SquadType, Row
<1> QED  BY <1>1, <1>2, <1>3, <1>4

\* A selected successor that waits has not left, and does not own the Squad.
LEMMA WaitingIsCandidate ==
  ASSUME RInv, NEW o \in Operations, Waiting(o)
  PROVE  /\ operation[o].to \in Line
         /\ operation[o].to \notin Departed \cup {squad.owner}
         /\ \A q \in Operations : Selected(q) /\ operation[q].to = operation[o].to => q = o
<1>1. /\ operation[o].to \in Line /\ intake[operation[o].to].state = "draining" /\ Selected(o)
  BY DEF RInv, Selection, Waiting, Selected
<1>2. operation[o].to # squad.owner
  BY <1>1 DEF RInv, OneAcceptor
<1>3. \A q \in Operations : Selected(q) /\ operation[q].to = operation[o].to => q = o
  BY <1>1 DEF RInv, Distinct
<1>4. \A q \in Operations : ~Left(operation, q, operation[o].to)
  BY <1>1, <1>3 DEF RInv, Distinct, Left, Switched, Selected, Waiting
<1> QED  BY <1>1, <1>2, <1>3, <1>4, GoneAre

\* What an operation that alone names successor s does to the terms.
LEMMA TermsMove ==
  ASSUME RInv, NEW o \in Operations, Waiting(o),
         \A q \in Operations : q # o => operation'[q] = operation[q],
         operation'[o].to = operation[o].to,
         operation'[o].fence = operation[o].fence
  PROVE  \A x \in Line : AgreedTerm(x)' =
           IF x # operation[o].to THEN AgreedTerm(x)
           ELSE IF operation'[o].state = "acknowledged" THEN operation[o].fence ELSE 0
<1> DEFINE s == operation[o].to
<1>1. \A q \in Operations : Selected(q) /\ operation[q].to = s => q = o
  BY WaitingIsCandidate
<1>2. \A q \in Operations, x \in Line :
        x # s => /\ Agreeing(operation', q, x) <=> Agreeing(operation, q, x)
                 /\ Agreeing(operation, q, x) => operation'[q].fence = operation[q].fence
  BY DEF Agreeing
<1>3. \A q, y \in Operations, x \in Line :
        Agreeing(operation, q, x) /\ Agreeing(operation, y, x) => q = y
  BY DEF RInv, Distinct, Agreeing, Selected
<1>4. \A q \in Operations : Agreeing(operation', q, s) => q = o
  BY <1>1 DEF Agreeing, Selected
<1> SUFFICES ASSUME NEW x \in Line
             PROVE  TermIn(operation', x) =
                      IF x # s THEN TermIn(operation, x)
                      ELSE IF operation'[o].state = "acknowledged" THEN operation[o].fence ELSE 0
  BY TermsAre
<1>5. CASE x # s /\ \A q \in Operations : ~Agreeing(operation, q, x)
  BY <1>5, <1>2, TermOfNobody
<1>6. CASE x # s /\ \E q \in Operations : Agreeing(operation, q, x)
  <2>1. PICK q \in Operations : Agreeing(operation, q, x)
    BY <1>6
  <2>2. TermIn(operation, x) = operation[q].fence
    BY <2>1, <1>3, TermOfOne
  <2>3. TermIn(operation', x) = operation'[q].fence
    BY <1>6, <2>1, <1>2, <1>3, TermOfOne
  <2> QED  BY <1>6, <2>1, <2>2, <2>3, <1>2
<1>7. CASE x = s /\ operation'[o].state = "acknowledged"
  <2>1. Agreeing(operation', o, s)
    BY <1>7 DEF Agreeing
  <2>2. TermIn(operation', s) = operation'[o].fence
    BY <2>1, <1>4, TermOfOne
  <2> QED  BY <1>7, <2>2
<1>8. CASE x = s /\ operation'[o].state # "acknowledged"
  <2>1. \A q \in Operations : ~Agreeing(operation', q, s)
    BY <1>8, <1>4 DEF Agreeing
  <2>2. TermIn(operation', s) = 0
    BY <2>1, TermOfNobody
  <2> QED  BY <1>8, <2>2
<1> QED  BY <1>5, <1>6, <1>7, <1>8

LEMMA AcknowledgeAgrees ==
  ASSUME RInv, NEW o \in Operations, Acknowledge(o)
  PROVE  Mapped
<1> DEFINE s == operation[o].to
<1>1. /\ operation[o].state = "prepared" /\ squad.fence = operation[o].fence
      /\ squad' = squad
      /\ operation' = [operation EXCEPT ![o].state = "acknowledged"]
  BY DEF Acknowledge, SetOperation, Unmoved
<1>2. Waiting(o)
  BY <1>1 DEF Waiting
<1>3. /\ \A q \in Operations : q # o => operation'[q] = operation[q]
      /\ operation'[o].state = "acknowledged" /\ operation'[o].to = s
      /\ operation'[o].fence = operation[o].fence
  BY <1>1 DEF RInv, SquadType, Row
<1>4. \A x \in Line : AgreedTerm(x)' = IF x # s THEN AgreedTerm(x) ELSE squad.fence
  BY <1>1, <1>2, <1>3, TermsMove
<1>5. Departed' = Departed
  <2>1. \A x : \A q \in Operations : Left(operation', q, x) <=> Left(operation, q, x)
    BY <1>1, <1>3 DEF Left, Committed
  <2> QED  BY <2>1, GoneAre
<1>6. s \in Line /\ s \notin Departed \cup {squad.owner}
  BY <1>2, WaitingIsCandidate
<1> HIDE DEF s
<1>7. Succeeding!Agree(s)
  BY <1>1, <1>4, <1>5, <1>6 DEF Succeeding!Agree
<1> QED  BY <1>6, <1>7 DEF Mapped, Succeeding!SuccessionNext

LEMMA AbortLeaves ==
  ASSUME RInv, NEW o \in Operations, Abort(o)
  PROVE  Mapped
<1> DEFINE s == operation[o].to
<1>1. /\ Waiting(o)
      /\ squad' = squad
      /\ operation' = [operation EXCEPT ![o].state = "aborted"]
  BY DEF Abort, SetOperation, Waiting
<1>2. /\ \A q \in Operations : q # o => operation'[q] = operation[q]
      /\ operation'[o].state = "aborted" /\ operation'[o].to = s
      /\ operation'[o].fence = operation[o].fence
  BY <1>1 DEF RInv, SquadType, Row
<1>3. \A x \in Line : AgreedTerm(x)' = IF x # s THEN AgreedTerm(x) ELSE 0
  BY <1>1, <1>2, TermsMove
<1>4. Departed' = Departed \cup {s}
  <2>1. \A x : ~Left(operation, o, x) /\ (Left(operation', o, x) <=> x = s)
    BY <1>1, <1>2 DEF Left, Waiting, Committed
  <2>2. \A x : \A q \in Operations : q # o => (Left(operation', q, x) <=> Left(operation, q, x))
    BY <1>2 DEF Left
  <2> HIDE DEF s
  <2>3. \A x : x \in Departed' <=> x \in Departed \/ x = s
    BY <2>1, <2>2, GoneAre
  <2> QED  BY <2>3
<1>5. s \in Line /\ s \notin Departed \cup {squad.owner}
  BY <1>1, WaitingIsCandidate
<1> HIDE DEF s
<1>6. Succeeding!Leave(s)
  BY <1>1, <1>3, <1>4, <1>5 DEF Succeeding!Leave
<1> QED  BY <1>5, <1>6 DEF Mapped, Succeeding!SuccessionNext

LEMMA CommitSucceeds ==
  ASSUME RInv, NEW o \in Operations, Commit(o)
  PROVE  Mapped
<1> DEFINE s == operation[o].to
<1>1. /\ operation[o].state = "acknowledged" /\ operation[o].from = squad.owner
      /\ squad.fence = operation[o].fence
      /\ squad' = [owner |-> s, fence |-> squad.fence + 1]
      /\ operation' = [operation EXCEPT ![o].state = "switched"]
  BY DEF Commit, MayCommit, Unmoved, Switch, SetOperation
<1>2. Waiting(o)
  BY <1>1 DEF Waiting
<1>3. /\ \A q \in Operations : q # o => operation'[q] = operation[q]
      /\ operation'[o].state = "switched" /\ operation'[o].to = s
      /\ operation'[o].from = squad.owner
      /\ operation'[o].fence = operation[o].fence
  BY <1>1 DEF RInv, SquadType, Row
<1>4. \A x \in Line : AgreedTerm(x)' = IF x # s THEN AgreedTerm(x) ELSE 0
  BY <1>2, <1>3, TermsMove
<1>5. s \in Line /\ s \notin Departed
  BY <1>2, WaitingIsCandidate
<1>6. AgreedTerm(s) = squad.fence
  <2>1. Agreeing(operation, o, s)
    BY <1>1 DEF Agreeing
  <2>2. \A q \in Operations : Agreeing(operation, q, s) => q = o
    BY <1>2, WaitingIsCandidate DEF Agreeing, Selected
  <2>3. TermIn(operation, s) = operation[o].fence
    BY <2>1, <2>2, TermOfOne
  <2> QED  BY <1>1, <2>3, TermsAre
<1>7. Departed' = Departed \cup {squad.owner}
  <2>1. \A x : ~Left(operation, o, x) /\ (Left(operation', o, x) <=> x = squad.owner)
    BY <1>1, <1>3 DEF Left, Committed
  <2>2. \A x : \A q \in Operations : q # o => (Left(operation', q, x) <=> Left(operation, q, x))
    BY <1>3 DEF Left
  <2>3. \A x : x \in Departed' <=> x \in Departed \/ x = squad.owner
    BY <2>1, <2>2, GoneAre
  <2> QED  BY <2>3
<1> HIDE DEF s
<1>8. Succeeding!Succeed(s)
  BY <1>1, <1>4, <1>5, <1>6, <1>7 DEF Succeeding!Succeed
<1> QED  BY <1>5, <1>8 DEF Mapped, Succeeding!SuccessionNext

LEMMA SuccessionSteps == RInv /\ [RolloverNext]_rolloverVars => Mapped
BY StepCases, HandoverStutters, QuietStepsStutter, AcknowledgeAgrees, AbortLeaves, CommitSucceeds

\* Every behaviour of every instance of Rollover is one that succession allows:
\* one owner, succeeded only by who agreed to follow it in this term, and
\* nobody twice.
THEOREM RolloverImplementsSuccession == RolloverSpec => ImplementsSuccession
<1>1. RolloverInit => Succeeding!SuccessionInit
  BY InitSucceeds
<1>2. RInv /\ [RolloverNext]_rolloverVars => Mapped
  BY SuccessionSteps
<1> QED
  BY <1>1, <1>2, RInvariance, PTL
     DEF RolloverSpec, ImplementsSuccession, Succeeding!SuccessionSpec, Mapped

-----------------------------------------------------------------------------
(* What the Squad has: the rows it shares with Requests stay in their      *)
(* domains, though the handoff gives requests away that are claimed.       *)

\* A claim is only taken on a request that exists.
Unclaimed == \A r \in Requests : state[r] = "absent" => claim[r] = NoWindow

WorkInv == TypeOK /\ Unclaimed

USE RequestsAssumption, RolloverAssumption DEF RequestsAssumption, RolloverAssumption

LEMMA TriageIsTyped ==
  ASSUME WorkInv, NEW r \in Requests,
         \/ \E a : TriageNew(r, a)
         \/ \E w \in Windows, m \in Modes : BeginTurn(w, r, m)
         \/ \E w \in Windows \cup {NoWindow} : TriageDefer(r, w)
  PROVE  WorkInv'
<1>1. CASE \E a : TriageNew(r, a)
  BY <1>1 DEF WorkInv, TypeOK, Unclaimed, TriageNew, SetState, States
<1>2. CASE \E w \in Windows, m \in Modes : BeginTurn(w, r, m)
  BY <1>2 DEF WorkInv, TypeOK, Unclaimed, BeginTurn, SetState, Lease, NewVersion, States
<1>3. CASE \E w \in Windows \cup {NoWindow} : TriageDefer(r, w)
  BY <1>3 DEF WorkInv, TypeOK, Unclaimed, TriageDefer, SetState, NewVersion, Exists, States
<1> QED  BY <1>1, <1>2, <1>3

LEMMA ClaimIsTyped ==
  ASSUME WorkInv, NEW r \in Requests, NEW w \in Windows,
         Read(w, r) \/ RenewClaim(w, r) \/ ClaimRequest(w, r) \/ AcceptRoute(w, r) \/ ReleaseClaim(w, r)
  PROVE  WorkInv'
<1> USE DEF WorkInv, TypeOK, Unclaimed
<1>1. CASE Read(w, r)
  BY <1>1 DEF Read
<1>2. CASE RenewClaim(w, r)
  BY <1>2 DEF RenewClaim, MayClaim, Exists, Lease
<1>3. CASE ClaimRequest(w, r)
  BY <1>3 DEF ClaimRequest, MayClaim, Exists, Lease
<1>4. CASE AcceptRoute(w, r)
  BY <1>4 DEF AcceptRoute, MayClaim, ClaimOwner, Exists, Lease, SetState, States
<1>5. CASE ReleaseClaim(w, r)
  BY <1>5 DEF ReleaseClaim, Release, Lease
<1> QED  BY <1>1, <1>2, <1>3, <1>4, <1>5

LEMMA CommandIsTyped ==
  ASSUME WorkInv, NEW r \in Requests, NEW w \in Windows,
         \/ \E m \in Modes : DispatchRequest(w, r, m)
         \/ \E a \in Intake : RouteRequest(w, r, a)
         \/ \E s \in Settable : SetRequestState(w, r, s)
         \/ \E e \in Evidence : RecordResult(w, r, e) \/ ReturnResult(w, r, e)
         \/ CancelRequest(w, r) \/ AnswerRequest(w, r)
  PROVE  WorkInv'
<1> USE DEF WorkInv, TypeOK, Unclaimed, Writes, WritesCurrent, SetState, NewVersion, States
<1>1. CASE \E m \in Modes : DispatchRequest(w, r, m)
  BY <1>1 DEF DispatchRequest, Classifiable
<1>2. CASE \E a \in Intake : RouteRequest(w, r, a)
  BY <1>2 DEF RouteRequest, Release, Lease
<1>3. CASE \E s \in Settable : SetRequestState(w, r, s)
  BY <1>3 DEF SetRequestState, Settable
<1>4. CASE \E e \in Evidence : RecordResult(w, r, e)
  BY <1>4 DEF RecordResult, Resolves
<1>5. CASE \E e \in Evidence : ReturnResult(w, r, e)
  BY <1>5 DEF ReturnResult, Resolves, Release, Lease
<1>6. CASE CancelRequest(w, r)
  BY <1>6 DEF CancelRequest, Release, Lease, SettleAttention
<1>7. CASE AnswerRequest(w, r)
  BY <1>7 DEF AnswerRequest, Release, Lease, SettleAttention
<1> QED  BY <1>1, <1>2, <1>3, <1>4, <1>5, <1>6, <1>7

LEMMA SurroundingsAreTyped ==
  ASSUME WorkInv,
         \/ \E r \in Requests : (\E a : ReceiveOffer(r, a)) \/ ExpireClaim(r)
         \/ \E w \in Windows : LoseRuntime(w) \/ RestoreRuntime(w)
  PROVE  WorkInv'
<1> USE DEF WorkInv, TypeOK, Unclaimed
<1>1. CASE \E r \in Requests : (\E a : ReceiveOffer(r, a)) \/ ExpireClaim(r)
  BY <1>1 DEF ReceiveOffer, ExpireClaim
<1>2. CASE \E w \in Windows : LoseRuntime(w) \/ RestoreRuntime(w)
  BY <1>2 DEF LoseRuntime, RestoreRuntime
<1> QED  BY <1>1, <1>2

\* Whatever a Shotcaller does to a request in a Squad.
LEMMA RequestsStayTyped == WorkInv /\ RequestStep => WorkInv'
<1> SUFFICES ASSUME WorkInv, RequestStep PROVE WorkInv'
  OBVIOUS
<1>1. CASE \E r \in Requests, a \in Agents : CapturePrompt(r, a)
  BY <1>1 DEF CapturePrompt, vars, WorkInv, TypeOK, Unclaimed
<1>2. CASE \E r \in Requests : TriagePrompt(r)
  BY <1>2, TriageIsTyped DEF TriagePrompt
<1>3. CASE \E r \in Requests : DeliverOffer(r) \/ Lapse(r)
  BY <1>3, SurroundingsAreTyped DEF DeliverOffer, Lapse
<1>4. CASE \E w \in Windows : Close(w) \/ Reopen(w)
  BY <1>4, SurroundingsAreTyped DEF Close, Reopen
<1>5. ASSUME NEW r \in Requests, NEW w \in Windows,
             \/ \E a \in Intake : Offer(w, r, a)
             \/ \E e \in Evidence : Return(w, r, e)
             \/ TakeOffer(w, r) \/ Work(w, r)
      PROVE  WorkInv'
  BY <1>5, CommandIsTyped, ClaimIsTyped DEF Offer, Return, TakeOffer, Work
<1>6. ASSUME NEW r \in Requests, NEW w \in Windows, Handle(w, r)
      PROVE  WorkInv'
  BY <1>6, ClaimIsTyped, TriageIsTyped DEF Handle
<1> QED  BY <1>1, <1>2, <1>3, <1>4, <1>5, <1>6 DEF RequestStep

\* The handoff gives requests and offers to a Shotcaller of the Squad.
LEMMA GivenAwayIsTyped ==
  ASSUME WorkInv, RInv, NEW o \in Operations, Commit(o) \/ ReconcileIntake(o)
  PROVE  WorkInv'
<1>1. operation[o].to \in Line
  BY DEF RInv, Selection, Selected, Commit, MayCommit, ReconcileIntake
<1>2. CASE Commit(o)
  BY <1>1, <1>2 DEF Commit, Redirect, WorkInv, TypeOK, Unclaimed, Unsettled, Exists
<1>3. CASE ReconcileIntake(o)
  BY <1>1, <1>3 DEF ReconcileIntake, MoveIntake, WorkInv, TypeOK, Unclaimed
<1> QED  BY <1>2, <1>3

\* The steps by what they do to the requests.
LEMMA WorkCases ==
  ASSUME [RolloverNext]_rolloverVars
  PROVE  \/ UNCHANGED vars
         \/ RequestStep
         \/ \E o \in Operations : Commit(o) \/ ReconcileIntake(o)
<1>1. CASE UNCHANGED rolloverVars
  BY <1>1 DEF rolloverVars
<1>2. CASE \E c \in Champions : ChampionStep(c)
  BY <1>2 DEF ChampionStep, Report, DispatchReport, ReportReceived, ReportFailed, Rebind,
     Settle, Retire
<1>3. CASE RolloverStep
  BY <1>3 DEF RolloverStep, Prepare, Acknowledge, Abort, Expire, CompleteDrain, Refresh,
     ReconcileDescendant, ActivateCallsign
<1> QED  BY <1>1, <1>2, <1>3 DEF RolloverNext

LEMMA WorkKeeps == WorkInv /\ RInv /\ [RolloverNext]_rolloverVars => WorkInv'
<1>1. UNCHANGED vars /\ WorkInv => WorkInv'
  BY DEF vars, WorkInv, TypeOK, Unclaimed
<1> QED  BY <1>1, WorkCases, RequestsStayTyped, GivenAwayIsTyped

-----------------------------------------------------------------------------
(* The Champions: who coordinates them and where their reports go.         *)

Reports == [state : {"none", "pending", "in_flight"}, to : Line \cup {NoAgent}]

ChampionsType ==
  /\ coordinator \in [Champions -> Line]
  /\ binding \in [Champions -> 0..MaxBinding]
  /\ task \in [Champions -> {"active", "settled", "retired"}]
  /\ report \in [Champions -> Reports]
  /\ \A c \in Champions : report[c].state = "none" <=> report[c].to = NoAgent

\* An undelivered row about a Champion is for whoever coordinates it.
ReportsFollow == \A c \in Champions : report[c].state # "none" => report[c].to = coordinator[c]

ChampionsInv == ChampionsType /\ ReportsFollow

\* The steps by what they do to the Champions.
LEMMA ChampionCases ==
  ASSUME [RolloverNext]_rolloverVars
  PROVE  \/ UNCHANGED championVars
         \/ \E c \in Champions : ChampionStep(c)
         \/ \E o \in Operations, c \in Champions : ReconcileDescendant(o, c)
<1>1. CASE UNCHANGED rolloverVars
  BY <1>1 DEF rolloverVars
<1>2. CASE RequestStep
  BY <1>2 DEF RequestStep, CapturePrompt, TriagePrompt, DeliverOffer, Lapse, Offer, Return,
     TakeOffer, Work, Handle, Close, Reopen
<1>3. CASE RolloverStep
  BY <1>3 DEF RolloverStep, Prepare, Acknowledge, Commit, Abort, Expire, ReconcileIntake,
     CompleteDrain, Refresh, ActivateCallsign
<1> QED  BY <1>1, <1>2, <1>3 DEF RolloverNext

LEMMA InitChampions == RolloverInit => ChampionsInv
BY DEF RolloverInit, ChampionsInv, ChampionsType, ReportsFollow, NoReport, Reports

LEMMA ChampionStepKeeps ==
  ASSUME ChampionsInv, NEW c \in Champions, ChampionStep(c)
  PROVE  ChampionsInv'
<1> USE DEF ChampionsInv, ChampionsType, ReportsFollow
<1>1. CASE Report(c)
  BY <1>1 DEF Report, Reports
<1>2. CASE DispatchReport(c) \/ ReportFailed(c)
  BY <1>2 DEF DispatchReport, ReportFailed, Reports
<1>3. CASE ReportReceived(c)
  BY <1>3 DEF ReportReceived, NoReport, Reports
<1>4. CASE Rebind(c)
  BY <1>4 DEF Rebind
<1>5. CASE Settle(c) \/ Retire(c)
  BY <1>5 DEF Settle, Retire
<1> QED  BY <1>1, <1>2, <1>3, <1>4, <1>5 DEF ChampionStep

\* What a reconciliation does: the Champion and its row go to the owner.
LEMMA ReconciliationIs ==
  ASSUME RInv, ChampionsInv, NEW o \in Operations, NEW c \in Champions, ReconcileDescendant(o, c)
  PROVE  /\ squad.owner \in Line
         /\ coordinator' = [coordinator EXCEPT ![c] = squad.owner]
         /\ report' = [report EXCEPT ![c].to = IF report[c].to = coordinator[c] THEN squad.owner ELSE @]
         /\ UNCHANGED <<binding, task>>
BY DEF ReconcileDescendant, MayReconcile, Landed, Hand, Retarget, RInv, SquadType

LEMMA ReconcileDescendantKeeps ==
  ASSUME RInv, ChampionsInv, NEW o \in Operations, NEW c \in Champions, ReconcileDescendant(o, c)
  PROVE  ChampionsInv'
<1> DEFINE s == squad.owner
           row == [report[c] EXCEPT !.to = IF report[c].to = coordinator[c] THEN s ELSE @]
<1>1. /\ s \in Line
      /\ coordinator' = [coordinator EXCEPT ![c] = s]
      /\ report' = [report EXCEPT ![c] = row]
      /\ UNCHANGED <<binding, task>>
  BY ReconciliationIs
<1>2. /\ report[c] \in Reports /\ coordinator[c] \in Line
      /\ report[c].state = "none" <=> report[c].to = NoAgent
      /\ report[c].state # "none" => report[c].to = coordinator[c]
  BY DEF ChampionsInv, ChampionsType, ReportsFollow
<1>3. /\ row \in Reports /\ row.state = report[c].state
      /\ row.to = IF row.state = "none" THEN NoAgent ELSE s
  BY <1>1, <1>2 DEF Reports
<1> HIDE DEF row, s
<1> QED  BY <1>1, <1>2, <1>3 DEF ChampionsInv, ChampionsType, ReportsFollow

LEMMA ChampionsKeepTheirs == ChampionsInv /\ RInv /\ [RolloverNext]_rolloverVars => ChampionsInv'
<1>1. UNCHANGED championVars /\ ChampionsInv => ChampionsInv'
  BY DEF championVars, ChampionsInv, ChampionsType, ReportsFollow
<1> QED  BY <1>1, ChampionCases, ChampionStepKeeps, ReconcileDescendantKeeps

LEMMA ChampionsInvariance == RolloverSpec => []ChampionsInv
BY InitChampions, ChampionsKeepTheirs, RInvariance, PTL DEF RolloverSpec

\* A Champion is moved only to who owns the Squad when it is moved: the
\* transaction of reconcile_rollover_descendant reads the owner again.
THEOREM ChampionsFollowTheOwner == RolloverSpec => CoordinatorsFollow
<1> DEFINE Body == \A c \in Champions : coordinator'[c] # coordinator[c] => coordinator'[c] = squad.owner
<1>1. ChampionsInv /\ RInv /\ [RolloverNext]_rolloverVars => [Body]_rolloverVars
  <2> SUFFICES ASSUME ChampionsInv, RInv, [RolloverNext]_rolloverVars PROVE Body
    OBVIOUS
  <2>1. CASE UNCHANGED championVars
    BY <2>1 DEF championVars
  <2>2. CASE \E c \in Champions : ChampionStep(c)
    BY <2>2 DEF ChampionStep, Report, DispatchReport, ReportReceived, ReportFailed, Rebind,
       Settle, Retire
  <2>3. ASSUME NEW o \in Operations, NEW c \in Champions, ReconcileDescendant(o, c) PROVE Body
    BY <2>3, ReconciliationIs DEF ChampionsInv, ChampionsType
  <2> QED  BY <2>1, <2>2, <2>3, ChampionCases
<1> QED  BY <1>1, ChampionsInvariance, RInvariance, PTL DEF RolloverSpec, CoordinatorsFollow

-----------------------------------------------------------------------------
(* The rest of the rows.                                                   *)

SnapshotsType ==
  /\ DOMAIN frozen = Operations
  /\ \A o \in Operations :
       frozen[o] \in [DOMAIN frozen[o] -> Bindings] /\ DOMAIN frozen[o] \subseteq Champions

CallsignsType == callsign \in [Line -> {"reserved", "active", "released"}]

PapersType ==
  /\ prompt \in [Requests -> Agents \cup {NoAgent}]
  /\ inSquad \subseteq Requests
  /\ addressee \in [Requests -> Agents \cup {NoAgent}]
  /\ keeper \in [Requests -> Agents \cup {NoAgent}]

BooksInv == WorkInv /\ ChampionsInv /\ SnapshotsType /\ CallsignsType /\ PapersType

LEMMA BooksAreTyped == RInv /\ BooksInv => RolloverTypeOK
BY DEF RInv, SquadType, Row, BooksInv, WorkInv, ChampionsInv, ChampionsType, Reports,
   SnapshotsType, CallsignsType, PapersType, RolloverTypeOK

LEMMA InitBooks == RolloverInit => BooksInv
<1> SUFFICES ASSUME RolloverInit PROVE BooksInv
  OBVIOUS
<1>1. WorkInv
  BY DEF RolloverInit, Init, WorkInv, TypeOK, Unclaimed, States
<1>2. SnapshotsType
  BY DEF RolloverInit, SnapshotsType
<1>3. CallsignsType /\ PapersType
  BY DEF RolloverInit, CallsignsType, PapersType
<1> QED  BY <1>1, <1>2, <1>3, InitChampions DEF BooksInv

\* A snapshot is of the rows as they are.
LEMMA SnapshotsKeep ==
  ASSUME ChampionsInv, SnapshotsType, [RolloverNext]_rolloverVars
  PROVE  SnapshotsType'
<1>1. CASE UNCHANGED frozen
  BY <1>1 DEF SnapshotsType
<1>2. ASSUME NEW o \in Operations, Freeze(o) PROVE SnapshotsType'
  <2>1. Rows \in [DOMAIN Rows -> Bindings] /\ DOMAIN Rows \subseteq Champions
    BY DEF Rows, Bindings, ChampionsInv, ChampionsType
  <2>2. \A q \in Operations : frozen'[q] = IF q = o THEN Rows ELSE frozen[q]
    BY <1>2 DEF Freeze, SnapshotsType
  <2>3. DOMAIN frozen' = Operations
    BY <1>2 DEF Freeze, SnapshotsType
  <2> QED  BY <2>1, <2>2, <2>3 DEF SnapshotsType
<1>3. UNCHANGED frozen \/ \E o \in Operations : Freeze(o)
  <2>1. CASE UNCHANGED rolloverVars
    BY <2>1 DEF rolloverVars, squadVars
  <2>2. CASE RequestStep
    BY <2>2 DEF RequestStep, CapturePrompt, TriagePrompt, DeliverOffer, Lapse, Offer, Return,
       TakeOffer, Work, Handle, Close, Reopen, squadVars
  <2>3. CASE \E c \in Champions : ChampionStep(c)
    BY <2>3 DEF ChampionStep, Report, DispatchReport, ReportReceived, ReportFailed, Rebind,
       Settle, Retire, squadVars
  <2>4. CASE RolloverStep
    BY <2>4 DEF RolloverStep, Prepare, Acknowledge, Commit, Abort, Expire, ReconcileIntake,
       CompleteDrain, Refresh, ActivateCallsign, ReconcileDescendant, squadVars
  <2> QED  BY <2>1, <2>2, <2>3, <2>4 DEF RolloverNext
<1> QED  BY <1>1, <1>2, <1>3

\* The rows of callsigns by what a step does: nothing leaves "released".
LEMMA CallsignCases ==
  ASSUME CallsignsType, [RolloverNext]_rolloverVars
  PROVE  /\ CallsignsType'
         /\ \A s \in Line : callsign[s] = "released" => callsign'[s] = "released"
<1>1. CASE UNCHANGED callsign
  BY <1>1 DEF CallsignsType
<1>2. ASSUME NEW s, ReleaseCallsign(s)
      PROVE  /\ CallsignsType'
             /\ \A x \in Line : callsign[x] = "released" => callsign'[x] = "released"
  BY <1>2 DEF ReleaseCallsign, CallsignsType
<1>3. CASE \E s \in Line : ActivateCallsign(s)
  BY <1>3 DEF ActivateCallsign, CallsignsType
<1>4. \/ UNCHANGED callsign \/ \E s \in Line : ActivateCallsign(s)
      \/ \E s : ReleaseCallsign(s)
  <2>1. CASE UNCHANGED rolloverVars
    BY <2>1 DEF rolloverVars, squadVars
  <2>2. CASE RequestStep
    BY <2>2 DEF RequestStep, CapturePrompt, TriagePrompt, DeliverOffer, Lapse, Offer, Return,
       TakeOffer, Work, Handle, Close, Reopen, squadVars
  <2>3. CASE \E c \in Champions : ChampionStep(c)
    BY <2>3 DEF ChampionStep, Report, DispatchReport, ReportReceived, ReportFailed, Rebind,
       Settle, Retire, squadVars
  <2>4. CASE RolloverStep
    BY <2>4 DEF RolloverStep, Prepare, Acknowledge, Commit, Abort, Expire, ReconcileIntake,
       CompleteDrain, Refresh, ReconcileDescendant, squadVars
  <2> QED  BY <2>1, <2>2, <2>3, <2>4 DEF RolloverNext
<1> QED  BY <1>1, <1>2, <1>3, <1>4

\* The steps by what they do to prompts, addressees and obligations.
LEMMA PaperCases ==
  ASSUME [RolloverNext]_rolloverVars
  PROVE  \/ UNCHANGED requestVars
         \/ RequestStep
         \/ \E o \in Operations : ReconcileIntake(o)
<1>1. CASE UNCHANGED rolloverVars
  BY <1>1 DEF rolloverVars
<1>2. CASE \E c \in Champions : ChampionStep(c)
  BY <1>2 DEF ChampionStep, Report, DispatchReport, ReportReceived, ReportFailed, Rebind,
     Settle, Retire
<1>3. CASE RolloverStep
  BY <1>3 DEF RolloverStep, Prepare, Acknowledge, Commit, Abort, Expire, CompleteDrain,
     Refresh, ReconcileDescendant, ActivateCallsign
<1> QED  BY <1>1, <1>2, <1>3 DEF RolloverNext

LEMMA PapersKeep ==
  ASSUME RInv, WorkInv, PapersType, [RolloverNext]_rolloverVars
  PROVE  PapersType'
<1> USE DEF PapersType
<1>1. CASE UNCHANGED requestVars
  BY <1>1 DEF requestVars
<1>2. CASE \E o \in Operations : ReconcileIntake(o)
  BY <1>2 DEF ReconcileIntake, MoveIntake, RInv, Selection, Selected
<1>3. CASE RequestStep
  <2>1. CASE \E r \in Requests, a \in Agents : CapturePrompt(r, a)
    BY <2>1 DEF CapturePrompt
  <2>2. CASE \E r \in Requests : TriagePrompt(r)
    BY <2>2 DEF TriagePrompt
  <2>3. CASE \/ \E r \in Requests : DeliverOffer(r) \/ Lapse(r)
             \/ \E w \in Windows : Close(w) \/ Reopen(w)
             \/ \E r \in Requests, w \in Windows : Handle(w, r)
    BY <2>3 DEF DeliverOffer, Lapse, Close, Reopen, Handle, requestVars
  <2>4. CASE \E r \in Requests, w \in Windows, a \in Intake : Offer(w, r, a)
    BY <2>4 DEF Offer
  <2>5. CASE \E r \in Requests, w \in Windows, e \in Evidence : Return(w, r, e)
    BY <2>5 DEF Return, WorkInv, TypeOK
  <2>6. CASE \E r \in Requests, w \in Windows : TakeOffer(w, r)
    BY <2>6 DEF TakeOffer
  <2>7. CASE \E r \in Requests, w \in Windows : Work(w, r)
    BY <2>7 DEF Work
  <2> QED  BY <1>3, <2>1, <2>2, <2>3, <2>4, <2>5, <2>6, <2>7 DEF RequestStep
<1> QED  BY <1>1, <1>2, <1>3, PaperCases

LEMMA BooksKeep == BooksInv /\ RInv /\ [RolloverNext]_rolloverVars => BooksInv'
BY WorkKeeps, ChampionsKeepTheirs, SnapshotsKeep, CallsignCases, PapersKeep DEF BooksInv

LEMMA BooksInvariance == RolloverSpec => []BooksInv
BY InitBooks, BooksKeep, RInvariance, PTL DEF RolloverSpec

\* No report is delivered to a Shotcaller the Champion was taken from: its rows
\* go with it, in the transaction that moves it.
THEOREM ReportsReachTheCoordinator == RolloverSpec => []ReportReachesCoordinator
<1>1. RInv /\ BooksInv => ReportReachesCoordinator
  BY BooksAreTyped DEF BooksInv, ChampionsInv, ReportsFollow, ReportReachesCoordinator
<1> QED  BY <1>1, RInvariance, BooksInvariance, PTL

-----------------------------------------------------------------------------
(* A Squad is handed over whole.  Whatever is addressed to somebody by a   *)
(* step is addressed to somebody in service, and who completed its drain   *)
(* is retired: nothing registers a runtime for it again.                   *)

\* A Shotcaller that has nothing, gets nothing and is retired.
Quiet(q) ==
  /\ intake[q].state = "closed" /\ ~InService(q) /\ callsign[q] = "released"
  /\ \A r \in Requests : prompt[r] # q /\ (state[r] = "routed" => pending[r] # q)

\* The drained predecessors are retired.
DrainedIsRetired == \A o \in Operations : operation[o].state = "completed" => Quiet(operation[o].from)

HandInv == RInv /\ BooksInv /\ OfferIsOwners /\ DrainedIsRetired

\* An offer is as it was, or it was made or moved to a Shotcaller in service.
LEMMA RequestsOffer ==
  ASSUME WorkInv, RequestStep, NEW x \in Requests, state'[x] = "routed"
  PROVE  \/ state[x] = "routed" /\ pending'[x] = pending[x]
         \/ Accepts(pending'[x])
<1> USE DEF WorkInv, TypeOK, SetState
<1>1. CASE \E r \in Requests : \/ \E a \in Agents : CapturePrompt(r, a)
                               \/ DeliverOffer(r) \/ Lapse(r)
  BY <1>1 DEF CapturePrompt, vars, DeliverOffer, Lapse, ReceiveOffer, ExpireClaim
<1>2. CASE \E r \in Requests : TriagePrompt(r)
  BY <1>2 DEF TriagePrompt, TriageNew, BeginTurn
<1>3. CASE \E w \in Windows : Close(w) \/ Reopen(w)
  BY <1>3 DEF Close, Reopen, LoseRuntime, RestoreRuntime
<1>4. ASSUME NEW r \in Requests, NEW w \in Windows, NEW a \in Intake, Offer(w, r, a)
      PROVE  \/ state[x] = "routed" /\ pending'[x] = pending[x]
             \/ Accepts(pending'[x])
  BY <1>4 DEF Offer, RouteRequest
<1>5. CASE \E r \in Requests, w \in Windows, e \in Evidence : Return(w, r, e)
  BY <1>5 DEF Return, ReturnResult
<1>6. CASE \E r \in Requests, w \in Windows : TakeOffer(w, r)
  BY <1>6 DEF TakeOffer, AcceptRoute
<1>7. CASE \E r \in Requests, w \in Windows : Work(w, r)
  BY <1>7 DEF Work, DispatchRequest, SetRequestState, Settable, RecordResult, CancelRequest,
     AnswerRequest
<1>8. CASE \E r \in Requests, w \in Windows : Handle(w, r)
  BY <1>8 DEF Handle, Read, RenewClaim, ClaimRequest, ReleaseClaim, TriageDefer
<1> QED  BY <1>1, <1>2, <1>3, <1>4, <1>5, <1>6, <1>7, <1>8 DEF RequestStep

LEMMA RequestsCapture ==
  ASSUME PapersType, RequestStep, NEW x \in Requests
  PROVE  prompt'[x] = prompt[x] \/ prompt'[x] = NoAgent \/ InService(prompt'[x])
<1>1. CASE \E r \in Requests, a \in Agents : CapturePrompt(r, a)
  BY <1>1 DEF CapturePrompt, Accepts, PapersType
<1>2. CASE \E r \in Requests : TriagePrompt(r)
  BY <1>2 DEF TriagePrompt, PapersType
<1>3. CASE UNCHANGED prompt
  BY <1>3
<1> QED  BY <1>1, <1>2, <1>3 DEF RequestStep, DeliverOffer, Lapse, Offer, Return, TakeOffer, Work,
            Handle, Close, Reopen, requestVars

\* A predecessor of a committed rollover does not own the Squad.
LEMMA PredecessorIsNotOwner ==
  ASSUME RInv, NEW o \in Operations, Switched(o)
  PROVE  operation[o].from \in Line /\ operation[o].from # squad.owner
<1>1. operation[o].from \in Line /\ intake[operation[o].from].state \in {"draining", "closed"}
  BY DEF RInv, Selection, Selected, Switched, Committed
<1> QED  BY <1>1 DEF RInv, OneAcceptor

\* A handoff addresses nothing but to its successor, which is in service.
LEMMA HandoffsAddress ==
  ASSUME HandInv, NEW o \in Operations, Commit(o) \/ ReconcileIntake(o), NEW x \in Requests
  PROVE  /\ prompt'[x] = prompt[x] \/ InService(prompt'[x])
         /\ state'[x] = state[x]
         /\ state[x] = "routed" =>
              \/ pending'[x] = pending[x] /\ (squad' = squad \/ pending[x] \notin Line)
              \/ InService(pending'[x]) /\ pending'[x] = squad'.owner
<1>1. CASE Commit(o)
  <2>1. /\ squad'.owner = operation[o].to /\ InService(operation[o].to)
        /\ UNCHANGED <<state, prompt>>
    BY <1>1 DEF Commit, MayCommit, Switch, requestVars
  <2>2. state[x] = "routed" => pending'[x] = IF pending[x] \in Line THEN operation[o].to ELSE pending[x]
    BY <1>1 DEF Commit, Redirect, OfferedToSquad
  <2> QED  BY <2>1, <2>2
<1>2. CASE ReconcileIntake(o)
  <2> DEFINE p == operation[o].from
             s == operation[o].to
  <2>1. /\ squad' = squad /\ state' = state /\ InService(s)
        /\ prompt'[x] = IF prompt[x] = p THEN s ELSE prompt[x]
        /\ pending[x] # p => pending'[x] = pending[x]
    BY <1>2 DEF ReconcileIntake, MoveIntake, squadVars
  <2>2. p \in Line /\ p # squad.owner
    BY <1>2, PredecessorIsNotOwner DEF ReconcileIntake, Switched, Committed, HandInv
  <2>3. state[x] = "routed" => pending[x] # p
    BY <2>2 DEF HandInv, OfferIsOwners
  <2> QED  BY <2>1, <2>3
<1> QED  BY <1>1, <1>2

\* Every step, seen from one request: what it is given to.
LEMMA StepsAddress ==
  ASSUME HandInv, [RolloverNext]_rolloverVars, NEW x \in Requests
  PROVE  /\ prompt'[x] = prompt[x] \/ prompt'[x] = NoAgent \/ InService(prompt'[x])
         /\ state'[x] = "routed" =>
              \/ /\ state[x] = "routed" /\ pending'[x] = pending[x]
                 /\ squad' = squad \/ pending[x] \notin Line
              \/ InService(pending'[x]) /\ (pending'[x] \in Line => pending'[x] = squad'.owner)
<1>1. CASE UNCHANGED <<state, pending, prompt, squad>>
  BY <1>1
<1>2. CASE RequestStep
  <2>1. squad' = squad
    BY <1>2, RequestsKeep DEF handover
  <2>2. state'[x] = "routed" => (state[x] = "routed" /\ pending'[x] = pending[x]) \/ Accepts(pending'[x])
    BY <1>2, RequestsOffer DEF HandInv, BooksInv
  <2>3. prompt'[x] = prompt[x] \/ prompt'[x] = NoAgent \/ InService(prompt'[x])
    BY <1>2, RequestsCapture DEF HandInv, BooksInv
  <2> QED  BY <2>1, <2>2, <2>3 DEF Accepts
<1>3. CASE \E o \in Operations : Commit(o) \/ ReconcileIntake(o)
  BY <1>3, HandoffsAddress
<1>4. \/ UNCHANGED <<state, pending, prompt, squad>>
      \/ RequestStep
      \/ \E o \in Operations : Commit(o) \/ ReconcileIntake(o)
  <2>1. CASE UNCHANGED rolloverVars
    BY <2>1 DEF rolloverVars, vars, squadVars, requestVars
  <2>2. CASE \E c \in Champions : ChampionStep(c)
    BY <2>2 DEF ChampionStep, Report, DispatchReport, ReportReceived, ReportFailed, Rebind,
       Settle, Retire, vars, squadVars, requestVars
  <2>3. CASE RolloverStep
    BY <2>3 DEF RolloverStep, Prepare, Acknowledge, Abort, Expire, CompleteDrain, Refresh,
       ReconcileDescendant, ActivateCallsign, vars, squadVars, requestVars
  <2> QED  BY <2>1, <2>2, <2>3 DEF RolloverNext
<1> QED  BY <1>1, <1>2, <1>3, <1>4

LEMMA OffersStayWithTheOwner == HandInv /\ [RolloverNext]_rolloverVars => OfferIsOwners'
BY StepsAddress DEF HandInv, OfferIsOwners

-----------------------------------------------------------------------------
\* A closed intake row stays closed.
LEMMA ClosedStaysClosed ==
  ASSUME RInv, [RolloverNext]_rolloverVars, NEW q \in Line, intake[q].state = "closed"
  PROVE  intake'[q].state = "closed"
<1>1. CASE UNCHANGED intake
  BY <1>1
<1>2. ASSUME NEW o \in Operations, NEW s \in Line, Prepare(o, s) PROVE intake'[q].state = "closed"
  BY <1>2 DEF Prepare, Selectable, Enlist, RInv, SquadType
<1>3. ASSUME NEW o \in Operations, Commit(o) PROVE intake'[q].state = "closed"
  <2>1. q # operation[o].from /\ q # operation[o].to
    BY <1>3 DEF Commit, MayCommit
  <2> QED  BY <1>3, <2>1 DEF Commit, Switch, RInv, SquadType
<1>4. ASSUME NEW o \in Operations, Abort(o) \/ CompleteDrain(o) PROVE intake'[q].state = "closed"
  <2>1. ASSUME NEW a, NEW t, t.state = "closed" \/ a # q, intake' = [intake EXCEPT ![a] = t]
        PROVE  intake'[q].state = "closed"
    BY <2>1 DEF RInv, SquadType
  <2>2. CASE Abort(o)
    BY <2>2 DEF Abort, RInv, SquadType
  <2>3. CASE CompleteDrain(o)
    BY <2>3 DEF CompleteDrain, RInv, SquadType
  <2> QED  BY <1>4, <2>2, <2>3
<1> QED  BY <1>1, <1>2, <1>3, <1>4, StepCases DEF handover, Acknowledge, Expire, Refresh

\* Who is retired gets no runtime.
LEMMA RetiredStaysOut ==
  ASSUME [RolloverNext]_rolloverVars, NEW q \in Line, callsign[q] = "released", ~InService(q)
  PROVE  ~InService(q)'
<1>1. CASE live' \subseteq live
  BY <1>1 DEF InService
<1>2. ASSUME NEW w \in Windows, Reopen(w) PROVE ~InService(q)'
  BY <1>2 DEF Reopen, RestoreRuntime, InService
<1>3. live' \subseteq live \/ \E w \in Windows : Reopen(w)
  <2>1. CASE UNCHANGED rolloverVars
    BY <2>1 DEF rolloverVars, vars
  <2>2. CASE RequestStep
    <3>1. CASE \E w \in Windows : Close(w) \/ Reopen(w)
      BY <3>1 DEF Close, LoseRuntime
    <3>2. CASE \E r \in Requests : \/ \E a \in Agents : CapturePrompt(r, a)
                                   \/ TriagePrompt(r) \/ DeliverOffer(r) \/ Lapse(r)
      BY <3>2 DEF CapturePrompt, TriagePrompt, DeliverOffer, Lapse, TriageNew, BeginTurn,
         ReceiveOffer, ExpireClaim, vars
    <3>3. CASE \E r \in Requests, w \in Windows :
                 \/ \E a \in Intake : Offer(w, r, a)
                 \/ \E e \in Evidence : Return(w, r, e)
                 \/ TakeOffer(w, r) \/ Work(w, r) \/ Handle(w, r)
      BY <3>3 DEF Offer, Return, TakeOffer, Work, Handle, RouteRequest, ReturnResult, AcceptRoute,
         DispatchRequest, SetRequestState, RecordResult, CancelRequest, AnswerRequest, Read,
         RenewClaim, ClaimRequest, ReleaseClaim, TriageDefer
    <3> QED  BY <2>2, <3>1, <3>2, <3>3 DEF RequestStep
  <2>3. CASE \E c \in Champions : ChampionStep(c)
    BY <2>3 DEF ChampionStep, Report, DispatchReport, ReportReceived, ReportFailed, Rebind,
       Settle, Retire, vars
  <2>4. CASE RolloverStep
    BY <2>4 DEF RolloverStep, Prepare, Acknowledge, Commit, Abort, Expire, CompleteDrain,
       ReconcileIntake, Refresh, ReconcileDescendant, ActivateCallsign, vars
  <2> QED  BY <2>1, <2>2, <2>3, <2>4 DEF RolloverNext
<1> QED  BY <1>1, <1>2, <1>3

LEMMA QuietStaysQuiet ==
  ASSUME HandInv, [RolloverNext]_rolloverVars, NEW q \in Line, Quiet(q)
  PROVE  Quiet(q)'
<1>1. intake'[q].state = "closed" /\ callsign'[q] = "released"
  BY ClosedStaysClosed, CallsignCases DEF Quiet, HandInv, BooksInv
<1>2. ~InService(q) /\ ~InService(q)'
  BY RetiredStaysOut DEF Quiet
<1>3. ASSUME NEW r \in Requests
      PROVE  prompt'[r] # q /\ (state'[r] = "routed" => pending'[r] # q)
  BY <1>2, StepsAddress DEF Quiet
<1> QED  BY <1>1, <1>2, <1>3 DEF Quiet

\* A drain is completed only when nothing is left with the predecessor.
LEMMA CompletionIsQuiet ==
  ASSUME HandInv, NEW o \in Operations, CompleteDrain(o)
  PROVE  Quiet(operation[o].from)'
<1> DEFINE p == operation[o].from
<1>1. p \in Line /\ p # squad.owner
  BY PredecessorIsNotOwner DEF CompleteDrain, Switched, Committed, HandInv
<1>2. intake[p].state \in {"draining", "closed"}
  BY DEF CompleteDrain, HandInv, RInv, Selection, Switched, Committed
<1>3. operation'[o].from = p
  BY DEF CompleteDrain, SetOperation, HandInv, RInv, SquadType, Row
<1>4. intake'[p].state = "closed"
  BY <1>1, <1>2 DEF CompleteDrain, HandInv, RInv, SquadType
<1>5. ~InService(p) /\ callsign'[p] = "released" /\ live' = live
  BY <1>1 DEF CompleteDrain, ReleaseCallsign, vars, HandInv, BooksInv, CallsignsType
<1>6. \A r \in Requests : prompt'[r] # p
  BY DEF CompleteDrain, Drained, Owes, OwnedPrompts, requestVars
<1>7. \A r \in Requests : state'[r] = "routed" => pending'[r] # p
  BY <1>1 DEF CompleteDrain, vars, HandInv, OfferIsOwners
<1> HIDE DEF p
<1> QED  BY <1>3, <1>4, <1>5, <1>6, <1>7 DEF Quiet, InService

LEMMA DrainedStaysRetired ==
  ASSUME HandInv, [RolloverNext]_rolloverVars
  PROVE  DrainedIsRetired'
<1> SUFFICES ASSUME NEW o \in Operations, operation'[o].state = "completed"
             PROVE  Quiet(operation[o].from)'
  BY DEF DrainedIsRetired
<1>1. CASE CompleteDrain(o)
  BY <1>1, CompletionIsQuiet
<1>2. CASE operation[o].state = "completed" /\ operation'[o].from = operation[o].from
  <2>1. operation[o].from \in Line
    BY <1>2 DEF HandInv, RInv, Selection, Selected
  <2>2. \A q \in Line : Quiet(q) => Quiet(q)'
    BY QuietStaysQuiet
  <2>3. Quiet(operation[o].from)
    BY <1>2 DEF HandInv, DrainedIsRetired
  <2> QED  BY <1>2, <2>1, <2>2, <2>3 DEF Quiet, InService
<1>3. CompleteDrain(o) \/ (operation[o].state = "completed" /\ operation'[o].from = operation[o].from)
  <2>1. operation \in [Operations -> Row]
    BY DEF HandInv, RInv, SquadType
  <2>2. CASE UNCHANGED operation
    BY <2>2
  <2>3. ASSUME NEW q \in Operations,
               \/ \E s \in Line : Prepare(q, s)
               \/ Acknowledge(q) \/ Commit(q) \/ Abort(q) \/ CompleteDrain(q)
               \/ Expire(q) \/ Refresh(q)
        PROVE  CompleteDrain(o) \/ (operation[o].state = "completed" /\ operation'[o].from = operation[o].from)
    <3>1. CASE q # o
      BY <2>1, <2>3, <3>1 DEF Prepare, Acknowledge, Commit, Abort, CompleteDrain, Expire, Refresh,
         SetOperation
    <3>2. CASE q = o
      BY <2>1, <2>3, <3>2 DEF Prepare, Acknowledge, Commit, Abort, Expire, Refresh,
         SetOperation, Handoff, Row
    <3> QED  BY <3>1, <3>2
  <2> QED  BY <2>2, <2>3, StepCases DEF handover
<1> QED  BY <1>1, <1>2, <1>3

LEMMA InitHand == RolloverInit => OfferIsOwners /\ DrainedIsRetired
BY DEF RolloverInit, Init, None, OfferIsOwners, DrainedIsRetired

LEMMA HandKeeps == HandInv /\ [RolloverNext]_rolloverVars => HandInv'
BY StepKeeps, BooksKeep, OffersStayWithTheOwner, DrainedStaysRetired DEF HandInv

LEMMA HandInvariance == RolloverSpec => []HandInv
BY InitRInv, InitBooks, InitHand, HandKeeps, PTL DEF RolloverSpec, HandInv

\* A Squad is handed over whole: whatever arrives while it is, no offer stays
\* with a Shotcaller that gave it up, and who completed the drain has no prompt,
\* no offer, no intake and no runtime, then and ever after.
THEOREM SquadsAreHandedOverWhole == RolloverSpec => []HandedOverWhole
<1>1. HandInv => HandedOverWhole
  BY DEF HandInv, DrainedIsRetired, Quiet, HandedOverWhole, DrainedIsQuiet
<1> QED  BY <1>1, HandInvariance, PTL
=============================================================================
