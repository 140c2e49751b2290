-------------------------------- MODULE Goals --------------------------------
(***************************************************************************)
(* Autonomous delivery of one goal: the Summoner grants authority in       *)
(* immutable revisions, the granted Shotcaller uses it action by action    *)
(* and settles every use, a failure opens a repair obligation, and a       *)
(* protected command runs between the use and the settlement of its gate   *)
(* (sqlite_mode_ops.py, protected_gate.py).                                *)
(*                                                                         *)
(* Every command but a settlement carries the version of the goal its      *)
(* author read and is refused when the goal has moved on, so a command     *)
(* that takes effect has read the current rows: no version is kept here.   *)
(* A settlement carries the version its use was given, which never         *)
(* changes: it is applied to whatever the goal has become.                 *)
(***************************************************************************)
EXTENDS Integers, FiniteSets

CONSTANTS
  Uses,          \* the action uses a caller may ask for, each with its idempotency key
  KindOf,        \* the action kind of each use
  UsageOf,       \* the attempts each use says it takes (usage.attempts)
  Gated,         \* the uses that are made by a protected command
  Runners,       \* processes that run protected commands
  MaxRevision,   \* bound: revisions of the grant
  Allowed,       \* Allowed[v]: the uses inside the scope and boundary of revision v
  MaxBusy,       \* MaxBusy[v]: max_concurrency of revision v
  MaxAttempts,   \* MaxAttempts[v]: max_attempts of revision v
  MaxRepairs,    \* MaxRepairs[v]: max_repair_attempts of revision v
  NoUse          \* a runner that runs nothing

Revisions == 1..MaxRevision

ActionKinds == {"land", "release", "deploy", "verify", "repair", "cleanup",
                "issue_reopen", "live_reconcile"}

ASSUME GoalConstants ==
  /\ KindOf \in [Uses -> ActionKinds]
  /\ UsageOf \in [Uses -> Nat \ {0}]
  /\ Gated \subseteq Uses
  /\ MaxRevision \in Nat \ {0}
  /\ MaxBusy \in [Revisions -> Nat \ {0}]
  /\ MaxAttempts \in [Revisions -> Nat \ {0}]
  /\ MaxRepairs \in [Revisions -> Nat \ {0}]
  /\ \A v \in Revisions : Allowed[v] \subseteq Uses
  /\ NoUse \notin Uses

VARIABLES
  goal,       \* delivery_goals.state, "none" before the first grant
  grant,      \* the active revision and its standing
  granted,    \* the granted Shotcaller is live
  use,        \* autonomous_action_uses.state and the revision it was made under
  busy,       \* delivery_goals.in_progress_actions
  spent,      \* delivery_goals.attempts_used
  repair,     \* autonomous_repair_obligations, by the use that failed
  gate,       \* protected_gate_uses and their settlements
  runner,     \* ProtectedGateExecutor.execute of each process
  performed   \* uses whose protected operation has run to its end

goalVars == <<goal, grant, granted, use, busy, spent, repair, gate, runner, performed>>

-----------------------------------------------------------------------------
(* The kinds of action and the states of a goal.                           *)

GoalStates == {"awaiting_authority", "implementing", "ready_to_land", "landing",
               "deploying", "verifying", "delivered", "repair_pending",
               "cleanup_pending", "cleaned"}

\* Kinds that leave the goal where it is: the teardown of one goal aside, the
\* protected commands are of these.
Sideways == {"issue_reopen", "live_reconcile"}

AllowedFrom(k) ==
  CASE k = "land"           -> {"ready_to_land"}
    [] k = "release"        -> {"ready_to_land", "landing"}
    [] k = "deploy"         -> {"landing", "deploying"}
    [] k = "verify"         -> {"landing", "deploying", "verifying"}
    [] k = "repair"         -> {"repair_pending"}
    [] k = "cleanup"        -> {"delivered", "cleanup_pending"}
    [] k = "issue_reopen"   -> GoalStates \ {"cleaned"}
    [] k = "live_reconcile" -> GoalStates \ {"awaiting_authority", "repair_pending", "cleaned"}

\* The state a use puts the goal in while it runs.
WhileUsed(k) ==
  CASE k \in {"land", "release"} -> "landing"
    [] k = "deploy"              -> "deploying"
    [] k = "verify"              -> "verifying"
    [] k = "repair"              -> "repair_pending"
    [] k = "cleanup"             -> "cleanup_pending"
    [] k \in Sideways            -> goal

\* The state a successful settlement puts it in.
AfterSuccess(k) ==
  CASE k \in {"land", "release"} -> "landing"
    [] k = "deploy"              -> "deploying"
    [] k = "verify"              -> "delivered"
    [] k = "repair"              -> "verifying"
    [] k = "cleanup"             -> "cleaned"
    [] k \in Sideways            -> goal

Transitions == {<<"awaiting_authority", "implementing">>, <<"implementing", "ready_to_land">>,
                <<"landing", "deploying">>, <<"landing", "verifying">>,
                <<"deploying", "verifying">>, <<"delivered", "cleanup_pending">>}

-----------------------------------------------------------------------------
(* Authority.                                                              *)

GoalInit ==
  /\ goal = "none"
  /\ grant = [revision |-> 0, standing |-> "none"]
  /\ granted = FALSE
  /\ use = [a \in Uses |-> [state |-> "none", revision |-> 0]]
  /\ busy = 0
  /\ spent = 0
  /\ repair = [a \in Uses |-> [state |-> "none", tries |-> 0, limit |-> 0]]
  /\ gate = [a \in Uses |-> "none"]
  /\ runner = [p \in Runners |-> [at |-> "idle", action |-> NoUse, outcome |-> "none"]]
  /\ performed = {}

Active == grant.standing = "active"

\* authorize_mode: the next revision, for a live Shotcaller; a grant that has
\* not started leaves a new goal waiting for it.
Authorize(standing) ==
  /\ grant.revision < MaxRevision
  /\ standing \in {"not_started", "active"}
  /\ grant' = [revision |-> grant.revision + 1, standing |-> standing]
  /\ granted' = TRUE
  /\ goal' = IF goal \in {"none", "awaiting_authority"}
             THEN IF standing = "active" THEN "implementing" ELSE "awaiting_authority"
             ELSE goal
  /\ UNCHANGED <<use, busy, spent, repair, gate, runner, performed>>

\* revoke_mode_grant: by the Summoner that issued it, for the active revision.
Revoke ==
  /\ grant.standing \in {"not_started", "active", "expired"}
  /\ grant' = [grant EXCEPT !.standing = "revoked"]
  /\ UNCHANGED <<goal, granted, use, busy, spent, repair, gate, runner, performed>>

\* _grant_status reads the clock: a grant starts and expires by itself.
ClockPasses ==
  /\ \/ grant.standing = "not_started" /\ grant' = [grant EXCEPT !.standing = "active"]
     \/ Active /\ grant' = [grant EXCEPT !.standing = "expired"]
  /\ UNCHANGED <<goal, granted, use, busy, spent, repair, gate, runner, performed>>

\* The granted Shotcaller may be retired at any time.
RetireGranted ==
  /\ granted
  /\ granted' = FALSE
  /\ UNCHANGED <<goal, grant, use, busy, spent, repair, gate, runner, performed>>

\* transition_mode_goal: never around an unsettled use.
TransitionGoal(s) ==
  /\ <<goal, s>> \in Transitions
  /\ Active
  /\ \A a \in Uses : use[a].state # "in_progress"
  /\ goal' = s
  /\ UNCHANGED <<grant, granted, use, busy, spent, repair, gate, runner, performed>>

-----------------------------------------------------------------------------
(* Use and settlement.                                                     *)

Unresolved == {a \in Uses : repair[a].state \in {"pending", "in_progress", "blocked"}}

InProgressRepairs == {a \in Uses : repair[a].state = "in_progress"}

\* _latest_repair over the pending and blocked: at most one is unresolved.
Repairable == {a \in Uses : repair[a].state = "pending" /\ repair[a].tries < repair[a].limit}

\* _assert_action_scope: the target, the risks and the resources of the action
\* lie within the active revision.
InScope(a) == a \in Allowed[grant.revision]

\* _assert_limits, against the totals of the goal.
WithinLimits(a) ==
  /\ spent + UsageOf[a] <= MaxAttempts[grant.revision]
  /\ busy < MaxBusy[grant.revision]

\* What use_mode_action asks for before it spends the authority.
MayUse(a) ==
  /\ use[a].state = "none"
  /\ Active
  /\ granted
  /\ goal \in AllowedFrom(KindOf[a])
  /\ InScope(a)
  /\ WithinLimits(a)
  /\ KindOf[a] = "repair" => Repairable # {}

\* What it writes.
Spend(a) ==
  /\ goal' = WhileUsed(KindOf[a])
  /\ busy' = busy + 1
  /\ spent' = spent + UsageOf[a]
  /\ use' = [use EXCEPT ![a] = [state |-> "in_progress", revision |-> grant.revision]]
  /\ repair' = IF KindOf[a] = "repair"
               THEN LET f == CHOOSE b \in Repairable : TRUE
                    IN [repair EXCEPT ![f].state = "in_progress", ![f].tries = @ + 1]
               ELSE repair

\* A use by the mode command; an existing use is only read back.
UseAction(a) ==
  /\ a \notin Gated
  /\ MayUse(a)
  /\ Spend(a)
  /\ UNCHANGED <<grant, granted, gate, runner, performed>>

\* Mutant of MaySettle: a failure is recorded beside an unresolved one.
MaySettleBesideFailure(a, outcome) ==
  /\ use[a].state = "in_progress"
  /\ KindOf[a] = "repair" => InProgressRepairs # {}

\* A failure is recorded only while no other failure is unresolved; a repair
\* needs its obligation.
MaySettle(a, outcome) ==
  /\ use[a].state = "in_progress"
  /\ IF KindOf[a] = "repair" THEN InProgressRepairs # {}
     ELSE outcome = "failed" => Unresolved = {}

\* The obligations after a settlement: a failed use opens its own, a failed
\* repair goes back for another try while tries remain.
RepairAfter(a, outcome) ==
  IF KindOf[a] = "repair"
  THEN LET f == CHOOSE b \in InProgressRepairs : TRUE
       IN [repair EXCEPT ![f].state =
             IF outcome = "succeeded" THEN "completed"
             ELSE IF repair[f].tries >= repair[f].limit THEN "blocked" ELSE "pending"]
  ELSE IF outcome = "succeeded" THEN repair
  ELSE [repair EXCEPT ![a] = [state |-> "pending", tries |-> 0,
                              limit |-> MaxRepairs[use[a].revision]]]

\* settle_mode_action writes the outcome over the current goal, whatever other
\* uses have made of it since.
SettleUse(a, outcome) ==
  /\ use' = [use EXCEPT ![a].state = outcome]
  /\ repair' = RepairAfter(a, outcome)
  /\ goal' = IF outcome = "failed" THEN "repair_pending" ELSE AfterSuccess(KindOf[a])
  /\ busy' = busy - 1
  /\ UNCHANGED spent

\* league mode settle, which takes a use of any kind, a protected one too.
SettleEffect(a, outcome) ==
  /\ MaySettle(a, outcome)
  /\ SettleUse(a, outcome)
  /\ UNCHANGED <<grant, granted, gate, runner, performed>>

-----------------------------------------------------------------------------
(* Protected commands.                                                     *)

Running(p, at, a, outcome) == runner' = [runner EXCEPT ![p] = [at |-> at, action |-> a, outcome |-> outcome]]

\* begin_protected_gate uses the action and binds the gate in one transaction.
\* A retry of an unsettled gate, by this process or by another, goes on to the
\* operation again; one whose gate is settled is answered from the record.
BeginGate(p, a) ==
  /\ a \in Gated
  /\ runner[p].at = "idle"
  /\ \/ /\ gate[a] = "none"
        /\ MayUse(a)
        /\ Spend(a)
        /\ gate' = [gate EXCEPT ![a] = "begun"]
     \/ /\ gate[a] = "begun"
        /\ UNCHANGED <<goal, busy, spent, use, repair, gate>>
  /\ Running(p, "operate", a, "none")
  /\ UNCHANGED <<grant, granted, performed>>

\* The operation of the command, which may be repeated after a crash; it may
\* fail before or after its effect.
Operate(p, outcome, effect) ==
  /\ runner[p].at = "operate"
  /\ outcome \in {"succeeded", "failed"}
  /\ outcome = "succeeded" => effect
  /\ performed' = IF effect THEN performed \cup {runner[p].action} ELSE performed
  /\ Running(p, "settle", runner[p].action, outcome)
  /\ UNCHANGED <<goal, grant, granted, use, busy, spent, repair, gate>>

\* Mutant of SettleGate: the gate is settled although its use could not be.
SettleGateAlone(p) ==
  LET a == runner[p].action
      outcome == runner[p].outcome
  IN /\ runner[p].at = "settle"
     /\ gate' = [gate EXCEPT ![a] = outcome]
     /\ IF MaySettle(a, outcome) THEN SettleUse(a, outcome)
        ELSE UNCHANGED <<goal, use, busy, spent, repair>>
     /\ Running(p, "idle", NoUse, "none")
     /\ UNCHANGED <<grant, granted, performed>>

\* settle_protected_gate settles the use and the gate in one transaction. A
\* use already settled with the same result still gets its gate settled; it is
\* refused, and the command reports it, when the use was settled otherwise or
\* a failure may not be recorded.
SettleGate(p) ==
  LET a == runner[p].action
      outcome == runner[p].outcome
      unchanged == UNCHANGED <<goal, use, busy, spent, repair>>
  IN /\ runner[p].at = "settle"
     /\ \/ /\ MaySettle(a, outcome)
           /\ SettleUse(a, outcome)
           /\ gate' = [gate EXCEPT ![a] = outcome]
        \/ /\ use[a].state = outcome
           /\ gate' = [gate EXCEPT ![a] = outcome]
           /\ unchanged
        \/ /\ ~MaySettle(a, outcome)
           /\ UNCHANGED gate
           /\ unchanged
     /\ Running(p, "idle", NoUse, "none")
     /\ UNCHANGED <<grant, granted, performed>>

\* A process may die at any point of the command.
CrashRunner(p) ==
  /\ runner[p].at # "idle"
  /\ Running(p, "idle", NoUse, "none")
  /\ UNCHANGED <<goal, grant, granted, use, busy, spent, repair, gate, performed>>

GoalNext ==
  \/ \E s \in {"not_started", "active"} : Authorize(s)
  \/ Revoke
  \/ ClockPasses
  \/ RetireGranted
  \/ \E s \in GoalStates : TransitionGoal(s)
  \/ \E a \in Uses : UseAction(a)
  \/ \E a \in Uses, outcome \in {"succeeded", "failed"} : SettleEffect(a, outcome)
  \/ \E p \in Runners, a \in Uses : BeginGate(p, a)
  \/ \E p \in Runners, outcome \in {"succeeded", "failed"}, effect \in BOOLEAN : Operate(p, outcome, effect)
  \/ \E p \in Runners : SettleGate(p) \/ CrashRunner(p)

GoalSpec == GoalInit /\ [][GoalNext]_goalVars

-----------------------------------------------------------------------------
(* Properties.                                                             *)

GoalTypeOK ==
  /\ goal \in GoalStates \cup {"none"}
  /\ grant \in [revision : 0..MaxRevision,
                standing : {"none", "not_started", "active", "expired", "revoked"}]
  /\ granted \in BOOLEAN
  /\ use \in [Uses -> [state : {"none", "in_progress", "succeeded", "failed"}, revision : 0..MaxRevision]]
  /\ busy \in Nat /\ spent \in Nat
  /\ repair \in [Uses -> [state : {"none", "pending", "in_progress", "blocked", "completed"},
                          tries : Nat, limit : Nat]]
  /\ gate \in [Uses -> {"none", "begun", "succeeded", "failed"}]
  /\ runner \in [Runners -> [at : {"idle", "operate", "settle"}, action : Uses \cup {NoUse},
                             outcome : {"none", "succeeded", "failed"}]]
  /\ performed \subseteq Uses

UsesIn(states) == {a \in Uses : use[a].state \in states}
RepairUses(states) == {a \in UsesIn(states) : KindOf[a] = "repair"}

\* The attempts of a set of uses, one by one.
AttemptsOf(S) == UNION {{a} \X (1..UsageOf[a]) : a \in S}

\* The per-goal counters "make limit checks constant-size" (docs/design/
\* scoped-autonomous-delivery.md): they never drift from the uses they count,
\* however uses, settlements, retries and new revisions interleave.
CountersAgree ==
  /\ busy = Cardinality(UsesIn({"in_progress"}))
  /\ spent = Cardinality(AttemptsOf(UsesIn({"in_progress", "succeeded", "failed"})))

\* Every failure has one obligation of its own and at most one is unresolved;
\* a repair in progress has exactly one use that can settle it; and no
\* obligation is tried more often than the grant of its failure allows.
RepairsAgree ==
  /\ \A a \in Uses : repair[a].state # "none" <=> use[a].state = "failed" /\ KindOf[a] # "repair"
  /\ Cardinality(Unresolved) <= 1
  /\ Cardinality(RepairUses({"in_progress"})) = Cardinality(InProgressRepairs)
  /\ \A a \in Uses : repair[a].tries <= repair[a].limit

GoalBooksAgree == GoalTypeOK /\ CountersAgree /\ RepairsAgree

\* "A protected effect begins only after one exact grant use is durably bound
\* to its command" (docs/design/scoped-autonomous-delivery.md): nothing is
\* performed without its gate, a gate is settled as its use is, and only when
\* the operation really ran is it settled as a success, over crashes, retries
\* by several processes and settlements by hand.
ProtectedEffectIsBound ==
  \A a \in Uses :
    /\ a \in performed => gate[a] # "none"
    /\ gate[a] # "none" => use[a].state # "none"
    /\ gate[a] \in {"succeeded", "failed"} => use[a].state = gate[a]
    /\ gate[a] = "succeeded" => a \in performed

\* "A failure cannot become delivery success: it moves the goal to
\* repair_pending" (docs/design/scoped-autonomous-delivery.md).
FailureIsNotDelivery ==
  goal \in {"delivered", "cleanup_pending", "cleaned"} => Unresolved = {}
=============================================================================
