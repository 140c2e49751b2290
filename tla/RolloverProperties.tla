------------------------- MODULE RolloverProperties -------------------------
(***************************************************************************)
(* What Rollover is checked against.                                       *)
(***************************************************************************)
EXTENDS Rollover

\* One Shotcaller accepts work for the Squad, its owner, at the fence of the
\* ownership, through any number of prepared, aborted and overlapping
\* rollovers: what was acknowledged for an earlier owner never takes effect.
OneAcceptor ==
  \A s \in Line : IF s = squad.owner THEN intake[s] = [state |-> "accepting", fence |-> squad.fence]
                 ELSE intake[s].state # "accepting"

\* A Champion is moved only to who owns the Squad at that moment, never to an
\* owner that a later rollover has already replaced.
CoordinatorsFollow ==
  [][\A c \in Champions : coordinator'[c] # coordinator[c] => coordinator'[c] = squad.owner]_rolloverVars

\* An undelivered row about a Champion is for whoever coordinates it now: no
\* report is delivered to a Shotcaller the Champion was taken from.
ReportReachesCoordinator ==
  /\ RolloverTypeOK
  /\ \A c \in Champions : report[c].state # "none" => report[c].to = coordinator[c]

\* An offer to the Squad waits for who owns it now, whenever it was made: no
\* commit leaves one with a Shotcaller that has given the Squad up.
OfferIsOwners ==
  \A r \in Requests : state[r] = "routed" /\ pending[r] \in Line => pending[r] = squad.owner

\* A predecessor whose drain is complete has no prompt nobody triaged, is
\* offered nothing, accepts nothing and has no runtime, now and later.
DrainedIsQuiet ==
  \A o \in Operations : operation[o].state = "completed" =>
    LET q == operation[o].from IN
    /\ intake[q].state = "closed" /\ ~InService(q)
    /\ \A r \in Requests : prompt[r] # q /\ (state[r] = "routed" => pending[r] # q)

\* A Squad is handed over whole: neither an offer to it nor anything its
\* drained predecessor still had stays behind.
HandedOverWhole == OfferIsOwners /\ DrainedIsQuiet

-----------------------------------------------------------------------------
(* Rollover implements succession.                                         *)

\* The term of an acknowledgement that may still take effect.
AgreedTerm(s) ==
  IF \E o \in Operations : operation[o].state = "acknowledged" /\ operation[o].to = s
  THEN operation[CHOOSE o \in Operations :
                   operation[o].state = "acknowledged" /\ operation[o].to = s].fence
  ELSE 0

Departed ==
  {operation[o].from : o \in {x \in Operations : operation[x].state \in Committed}} \cup
  {operation[o].to : o \in {x \in Operations : operation[x].state = "aborted"}}

Succeeding == INSTANCE Succession WITH
  Candidates <- Line,
  incumbent <- squad.owner,
  term <- squad.fence,
  agreed <- [s \in Line |-> AgreedTerm(s)],
  gone <- Departed

\* Every behaviour of Rollover is one that succession allows.
ImplementsSuccession == Succeeding!SuccessionSpec

-----------------------------------------------------------------------------
(* Liveness.                                                               *)

\* A predecessor that nothing is left with is closed.
CloseDrained(w) ==
  /\ \E o \in Operations : operation[o].state = "switched" /\ operation[o].from = AgentOf[w]
  /\ Drained(AgentOf[w])
  /\ Close(w)

\* The drain's commands are retried while they are refused, the outbox delivers
\* the rows whose recipients are in service (Delivery!EveryRowSettles), and a
\* predecessor's runtime is closed once nothing is left with it.
Draining ==
  /\ SF_rolloverVars(\E o \in Operations : ReconcileIntake(o))
  /\ SF_rolloverVars(\E o \in Operations : CompleteDrain(o))
  /\ \A r \in Requests : SF_rolloverVars(DeliverOffer(r))
  /\ \A w \in Flaky : WF_rolloverVars(CloseDrained(w))

DrainingSpec == RolloverSpec /\ Draining

\* The Squad has been handed on before this drain was complete.
Overtaken(o) == operation[o].state = "switched" /\ ~Landed(o)

\* A row is still addressed to the predecessor, and nobody is there to receive it.
ClosedEarly(o) ==
  /\ ~InService(operation[o].from)
  /\ \E r \in Requests : offer[r] = "sent" /\ addressee[r] = operation[o].from

\* A switched rollover is drained, whatever the predecessor's requests, prompts,
\* returns and offers do meanwhile (reconcile_rollover_intake,
\* complete_rollover_drain): for ever it stays open only if a later rollover
\* overtook it, or the predecessor was closed with a row on its way to it.
DrainCompletes ==
  \A o \in Operations :
    operation[o].state = "switched" ~>
      (operation[o].state = "completed" \/ Overtaken(o) \/ []ClosedEarly(o))

\* What docs/HANDOFF_CALLSIGNS.md:99-101 says: a crash after the switch rolls
\* forward through idempotent drain, and the predecessor retires.
EverySwitchDrains ==
  \A o \in Operations : operation[o].state = "switched" ~> operation[o].state = "completed"
=============================================================================
