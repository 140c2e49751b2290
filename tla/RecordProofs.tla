---------------------------- MODULE RecordProofs ----------------------------
(***************************************************************************)
(* Proofs about the three components that the records run checks together: *)
(* autonomous goals, the selection of a repository issue, and the creation *)
(* of Shotcallers in place.                                                *)
(***************************************************************************)
EXTENDS Goals, Bootstrap, Selection, FiniteSetTheorems, TLAPS

-----------------------------------------------------------------------------
(* Goals.  The books of an autonomous goal agree and a protected effect is *)
(* bound to its gate, for every set of uses, however uses, settlements,    *)
(* revisions, retries and crashes interleave.                              *)
(*                                                                         *)
(* Two writes move the books: the spending of a use and its settlement.    *)
(* One obligation at most is unresolved, so the repair a use chooses is    *)
(* the one its settlement finds, and a repair in progress has one use.     *)

Outcomes == {"succeeded", "failed"}

Made == {"in_progress", "succeeded", "failed"}

\* The revision of a use is one that was granted.
RevisionsFit ==
  /\ grant.standing # "none" => grant.revision \in Revisions
  /\ \A a \in Uses : use[a].state # "none" => use[a].revision \in Revisions

Counted ==
  IsFiniteSet(UsesIn(Made)) /\ IsFiniteSet(AttemptsOf(UsesIn(Made))) /\ CountersAgree

\* Of the obligations one at most is unresolved, and of the uses that repair one
\* at most is in progress: exactly while its obligation is.
Mending ==
  /\ \A a \in Uses : repair[a].state # "none" <=> use[a].state = "failed" /\ KindOf[a] # "repair"
  /\ \A a, b \in Unresolved : a = b
  /\ \A a, b \in RepairUses({"in_progress"}) : a = b
  /\ RepairUses({"in_progress"}) # {} <=> InProgressRepairs # {}
  /\ \A a \in Uses : repair[a].tries <= repair[a].limit

\* A process works on a gate that was begun, and settles as a success only what
\* it performed.
RunnersBound ==
  \A p \in Runners :
    /\ runner[p].at # "idle" => runner[p].action \in Uses /\ gate[runner[p].action] # "none"
    /\ runner[p].at = "settle" => runner[p].outcome \in Outcomes
    /\ runner[p].at = "settle" /\ runner[p].outcome = "succeeded" => runner[p].action \in performed

GInv ==
  /\ GoalTypeOK /\ RevisionsFit
  /\ Counted /\ Mending
  /\ RunnersBound /\ ProtectedEffectIsBound

-----------------------------------------------------------------------------
(* What a step does to the books.                                          *)

LEMMA BooksFrame ==
  ASSUME GoalTypeOK, RunnersBound, [GoalNext]_goalVars
  PROVE  \/ \E a \in Uses : MayUse(a) /\ Spend(a)
         \/ \E a \in Uses, outcome \in Outcomes : MaySettle(a, outcome) /\ SettleUse(a, outcome)
         \/ UNCHANGED <<use, busy, spent, repair>>
<1>1. ASSUME NEW a \in Uses, UseAction(a)
      PROVE  MayUse(a) /\ Spend(a)
  BY <1>1 DEF UseAction
<1>2. ASSUME NEW a \in Uses, NEW outcome \in Outcomes, SettleEffect(a, outcome)
      PROVE  MaySettle(a, outcome) /\ SettleUse(a, outcome)
  BY <1>2 DEF SettleEffect
<1>3. ASSUME NEW p \in Runners, NEW a \in Uses, BeginGate(p, a)
      PROVE  (MayUse(a) /\ Spend(a)) \/ UNCHANGED <<use, busy, spent, repair>>
  BY <1>3 DEF BeginGate
<1>4. ASSUME NEW p \in Runners, SettleGate(p)
      PROVE  \/ /\ runner[p].action \in Uses /\ runner[p].outcome \in Outcomes
                /\ MaySettle(runner[p].action, runner[p].outcome)
                /\ SettleUse(runner[p].action, runner[p].outcome)
             \/ UNCHANGED <<use, busy, spent, repair>>
  BY <1>4 DEF SettleGate, RunnersBound
<1> QED
  BY <1>1, <1>2, <1>3, <1>4
     DEF GoalNext, goalVars, Outcomes, Authorize, Revoke, ClockPasses, RetireGranted,
         TransitionGoal, Operate, CrashRunner

\* Who moves the gates, the processes and the uses.
LEMMA CommandFrame ==
  ASSUME [GoalNext]_goalVars
  PROVE  \/ \E p \in Runners, a \in Uses : BeginGate(p, a)
         \/ \E p \in Runners, outcome \in Outcomes, effect \in BOOLEAN : Operate(p, outcome, effect)
         \/ \E p \in Runners : SettleGate(p)
         \/ \E p \in Runners : CrashRunner(p)
         \/ \E a \in Uses : UseAction(a) \/ \E outcome \in Outcomes : SettleEffect(a, outcome)
         \/ UNCHANGED <<use, gate, runner, performed>>
BY DEF GoalNext, goalVars, Outcomes, Authorize, Revoke, ClockPasses, RetireGranted, TransitionGoal

-----------------------------------------------------------------------------
(* Types.                                                                  *)

States == {"none"} \cup Made

UseRows == [state : States, revision : 0..MaxRevision]

RepairRows == [state : {"none", "pending", "in_progress", "blocked", "completed"},
               tries : Nat, limit : Nat]

LEMMA KindsAreKnown ==
  ASSUME NEW a \in Uses
  PROVE  /\ goal \in GoalStates \cup {"none"} => WhileUsed(KindOf[a]) \in GoalStates \cup {"none"}
         /\ goal \in GoalStates \cup {"none"} => AfterSuccess(KindOf[a]) \in GoalStates \cup {"none"}
<1>1. KindOf[a] \in ActionKinds
  BY GoalConstants
<1> QED  BY <1>1 DEF ActionKinds, Sideways, WhileUsed, AfterSuccess, GoalStates

\* The obligation a repair takes up, and the one it settles.
LEMMA ChosenRepairs ==
  /\ Repairable # {} => (CHOOSE b \in Repairable : TRUE) \in Repairable
  /\ InProgressRepairs # {} => (CHOOSE b \in InProgressRepairs : TRUE) \in InProgressRepairs
OBVIOUS

LEMMA SpendKeepsTypes ==
  ASSUME GoalTypeOK, RevisionsFit, Counted, NEW a \in Uses, MayUse(a), Spend(a)
  PROVE  /\ goal' \in GoalStates \cup {"none"}
         /\ use' \in [Uses -> UseRows] /\ repair' \in [Uses -> RepairRows]
         /\ busy' \in Nat /\ spent' \in Nat
         /\ \A b \in Uses : use'[b].state # "none" => use'[b].revision \in Revisions
<1>1. /\ use \in [Uses -> UseRows] /\ repair \in [Uses -> RepairRows] /\ busy \in Nat /\ spent \in Nat
      /\ grant.revision \in 0..MaxRevision
  BY DEF GoalTypeOK, UseRows, RepairRows, States, Made
<1>2. grant.revision \in Revisions
  BY DEF MayUse, Active, RevisionsFit
<1>3. goal' \in GoalStates \cup {"none"}
  BY KindsAreKnown DEF Spend, GoalTypeOK
<1>4. use' = [use EXCEPT ![a] = [state |-> "in_progress", revision |-> grant.revision]]
  BY DEF Spend
<1>5. use' \in [Uses -> UseRows]
  BY <1>1, <1>4 DEF UseRows, States, Made
<1>6. \A b \in Uses : use'[b].state # "none" => use'[b].revision \in Revisions
  BY <1>1, <1>2, <1>4 DEF RevisionsFit
<1>7. repair' \in [Uses -> RepairRows]
  <2>1. CASE KindOf[a] = "repair"
    <3> DEFINE f == CHOOSE b \in Repairable : TRUE
    <3>1. f \in Uses
      BY <2>1, ChosenRepairs DEF MayUse, Repairable
    <3>2. repair' = [repair EXCEPT ![f].state = "in_progress", ![f].tries = @ + 1]
      BY <2>1 DEF Spend
    <3> HIDE DEF f
    <3> QED  BY <1>1, <3>1, <3>2 DEF RepairRows
  <2>2. CASE KindOf[a] # "repair"
    BY <1>1, <2>2 DEF Spend
  <2> QED  BY <2>1, <2>2
<1>8. UsageOf[a] \in Nat
  BY GoalConstants
<1> QED  BY <1>1, <1>3, <1>5, <1>6, <1>7, <1>8 DEF Spend

LEMMA SettleKeepsTypes ==
  ASSUME GoalTypeOK, RevisionsFit, Counted, NEW a \in Uses, NEW outcome \in Outcomes,
         MaySettle(a, outcome), SettleUse(a, outcome)
  PROVE  /\ goal' \in GoalStates \cup {"none"}
         /\ use' \in [Uses -> UseRows] /\ repair' \in [Uses -> RepairRows]
         /\ busy' \in Int /\ spent' \in Nat
         /\ \A b \in Uses : use'[b].state # "none" => use'[b].revision \in Revisions
<1>1. /\ use \in [Uses -> UseRows] /\ repair \in [Uses -> RepairRows] /\ busy \in Nat /\ spent \in Nat
  BY DEF GoalTypeOK, UseRows, RepairRows, States, Made
<1>2. goal' \in GoalStates \cup {"none"}
  BY KindsAreKnown DEF SettleUse, GoalTypeOK, GoalStates
<1>3. use[a].state = "in_progress" /\ use' = [use EXCEPT ![a].state = outcome]
  BY DEF SettleUse, MaySettle
<1>4. use' \in [Uses -> UseRows]
  BY <1>1, <1>3 DEF UseRows, States, Made, Outcomes
<1>5. \A b \in Uses : use'[b].state # "none" => use'[b].revision \in Revisions
  BY <1>1, <1>3 DEF RevisionsFit, UseRows
<1>6. repair' \in [Uses -> RepairRows]
  <2>1. CASE KindOf[a] = "repair"
    <3> DEFINE f == CHOOSE b \in InProgressRepairs : TRUE
    <3>1. f \in Uses
      BY <2>1, ChosenRepairs DEF MaySettle, InProgressRepairs
    <3>2. \E s \in {"completed", "blocked", "pending"} : repair' = [repair EXCEPT ![f].state = s]
      BY <2>1 DEF SettleUse, RepairAfter
    <3> HIDE DEF f
    <3> QED  BY <1>1, <3>1, <3>2 DEF RepairRows
  <2>2. CASE KindOf[a] # "repair" /\ outcome # "succeeded"
    <3>1. MaxRepairs[use[a].revision] \in Nat
      BY <1>3, GoalConstants DEF RevisionsFit
    <3>2. repair' = [repair EXCEPT ![a] = [state |-> "pending", tries |-> 0,
                                          limit |-> MaxRepairs[use[a].revision]]]
      BY <2>2 DEF SettleUse, RepairAfter
    <3> QED  BY <1>1, <3>1, <3>2 DEF RepairRows
  <2>3. CASE KindOf[a] # "repair" /\ outcome = "succeeded"
    BY <1>1, <2>3 DEF SettleUse, RepairAfter
  <2> QED  BY <2>1, <2>2, <2>3
<1> QED  BY <1>1, <1>2, <1>4, <1>5, <1>6 DEF SettleUse

-----------------------------------------------------------------------------
(* The counters.                                                           *)

LEMMA UsesAreTyped ==
  ASSUME GoalTypeOK
  PROVE  use \in [Uses -> UseRows] /\ repair \in [Uses -> RepairRows]
BY DEF GoalTypeOK, UseRows, RepairRows, States, Made

\* The attempts of one more use come on top of those of the others.
LEMMA AttemptsAdd ==
  ASSUME NEW S \in SUBSET Uses, IsFiniteSet(AttemptsOf(S)), NEW a \in Uses \ S
  PROVE  /\ IsFiniteSet(AttemptsOf(S \cup {a}))
         /\ Cardinality(AttemptsOf(S \cup {a})) = Cardinality(AttemptsOf(S)) + UsageOf[a]
<1> DEFINE before == AttemptsOf(S)
           only == {a}
           tries == 1..UsageOf[a]
           own == only \X tries
<1>1. UsageOf[a] \in Nat /\ UsageOf[a] >= 1
  BY GoalConstants
<1>2. IsFiniteSet(own) /\ Cardinality(own) = UsageOf[a]
  <2>1. IsFiniteSet(tries) /\ Cardinality(tries) = UsageOf[a]
    BY <1>1, FS_Interval
  <2>2. IsFiniteSet(only) /\ Cardinality(only) = 1
    BY FS_Singleton
  <2> HIDE DEF only, tries
  <2>3. IsFiniteSet(own) /\ Cardinality(own) = 1 * UsageOf[a]
    BY <2>1, <2>2, FS_Product
  <2> QED  BY <1>1, <2>3
<1>3. AttemptsOf(S \cup {a}) = before \cup own
  BY DEF AttemptsOf
<1>4. before \cap own = {}
  BY DEF AttemptsOf
<1> HIDE DEF before, own
<1>5. Cardinality(before) \in Nat
  BY FS_CardinalityType DEF before
<1>6. Cardinality(before \cap own) = 0
  BY <1>4, FS_EmptySet
<1>7. IsFiniteSet(before)
  BY DEF before
<1>8. /\ IsFiniteSet(before \cup own)
      /\ Cardinality(before \cup own) = Cardinality(before) + Cardinality(own) - Cardinality(before \cap own)
  BY <1>2, <1>7, FS_Union
<1>9. Cardinality(before \cup own) = Cardinality(before) + UsageOf[a]
  BY <1>1, <1>2, <1>5, <1>6, <1>8
<1> QED  BY <1>3, <1>8, <1>9 DEF before

LEMMA SpendKeepsCount ==
  ASSUME GoalTypeOK, Counted, NEW a \in Uses, MayUse(a), Spend(a)
  PROVE  Counted'
<1> DEFINE running == UsesIn({"in_progress"})
           made == UsesIn(Made)
<1>1. use' = [use EXCEPT ![a] = [state |-> "in_progress", revision |-> grant.revision]]
  BY DEF Spend
<1>2. use[a].state = "none" /\ a \notin made /\ a \notin running
  BY DEF MayUse, UsesIn, Made
<1>3. running' = running \cup {a} /\ made' = made \cup {a}
  BY <1>1, UsesAreTyped DEF UsesIn, Made
<1>4. running \subseteq made
  BY DEF UsesIn, Made
<1>5. IsFiniteSet(made) /\ IsFiniteSet(running) /\ IsFiniteSet(AttemptsOf(made))
  BY <1>4, FS_Subset DEF Counted
<1>6. made \in SUBSET Uses
  BY DEF UsesIn
<1>7. busy = Cardinality(running) /\ spent = Cardinality(AttemptsOf(made))
  BY DEF Counted, CountersAgree, Made
<1> HIDE DEF running, made
<1>8. IsFiniteSet(made') /\ Cardinality(running') = Cardinality(running) + 1
  BY <1>2, <1>3, <1>5, FS_AddElement
<1>9. /\ IsFiniteSet(AttemptsOf(made'))
      /\ Cardinality(AttemptsOf(made')) = Cardinality(AttemptsOf(made)) + UsageOf[a]
  BY <1>2, <1>3, <1>5, <1>6, AttemptsAdd
<1>10. busy' = busy + 1 /\ spent' = spent + UsageOf[a]
  BY DEF Spend
<1>11. busy' = Cardinality(running') /\ spent' = Cardinality(AttemptsOf(made'))
  BY <1>7, <1>8, <1>9, <1>10
<1>12. AttemptsOf(made)' = AttemptsOf(made')
  BY DEF AttemptsOf
<1> QED  BY <1>8, <1>9, <1>11, <1>12 DEF Counted, CountersAgree, running, made, Made

LEMMA SettleKeepsCount ==
  ASSUME GoalTypeOK, Counted, NEW a \in Uses, NEW outcome \in Outcomes,
         MaySettle(a, outcome), SettleUse(a, outcome)
  PROVE  Counted' /\ busy' \in Nat
<1> DEFINE running == UsesIn({"in_progress"})
           made == UsesIn(Made)
<1>1. use[a].state = "in_progress" /\ use' = [use EXCEPT ![a].state = outcome]
  BY DEF MaySettle, SettleUse
<1>2. a \in running
  BY <1>1 DEF UsesIn
<1>3. running' = running \ {a} /\ made' = made
  BY <1>1, UsesAreTyped DEF UsesIn, Made, UseRows, Outcomes
<1>4. running \subseteq made
  BY DEF UsesIn, Made
<1>5. IsFiniteSet(made) /\ IsFiniteSet(running) /\ IsFiniteSet(AttemptsOf(made))
  BY <1>4, FS_Subset DEF Counted
<1>10. busy = Cardinality(running) /\ spent = Cardinality(AttemptsOf(made))
  BY DEF Counted, CountersAgree, Made
<1> HIDE DEF running, made
<1>6. IsFiniteSet(running') /\ Cardinality(running') = Cardinality(running) - 1
  BY <1>2, <1>3, <1>5, FS_RemoveElement
<1>7. Cardinality(running') \in Nat
  BY <1>6, FS_CardinalityType
<1>8. AttemptsOf(made)' = AttemptsOf(made) /\ IsFiniteSet(made') /\ IsFiniteSet(AttemptsOf(made)')
  BY <1>3, <1>5 DEF AttemptsOf
<1>9. busy' = busy - 1 /\ spent' = spent
  BY DEF SettleUse
<1>11. busy' = Cardinality(running') /\ spent' = Cardinality(AttemptsOf(made)')
  BY <1>6, <1>8, <1>9, <1>10
<1> QED  BY <1>7, <1>8, <1>11 DEF Counted, CountersAgree, running, made, Made

-----------------------------------------------------------------------------
(* The repair obligations.                                                 *)

LEMMA RepairableIsOpen ==
  /\ Repairable \subseteq Unresolved /\ InProgressRepairs \subseteq Unresolved
  /\ Repairable \cap InProgressRepairs = {}
BY DEF Repairable, InProgressRepairs, Unresolved

\* A repair is taken up only when none is in progress: it would be a second
\* unresolved obligation.
LEMMA SpendKeepsMending ==
  ASSUME GoalTypeOK, Mending, NEW a \in Uses, MayUse(a), Spend(a)
  PROVE  Mending'
<1> USE UsesAreTyped DEF UseRows, RepairRows
<1>1. use[a].state = "none" /\ use' = [use EXCEPT ![a] = [state |-> "in_progress", revision |-> grant.revision]]
  BY DEF MayUse, Spend
<1>2. CASE KindOf[a] # "repair"
  <2>1. repair' = repair
    BY <1>2 DEF Spend
  <2>2. RepairUses({"in_progress"})' = RepairUses({"in_progress"})
    BY <1>1, <1>2 DEF RepairUses, UsesIn
  <2>3. Unresolved' = Unresolved /\ InProgressRepairs' = InProgressRepairs
    BY <2>1 DEF Unresolved, InProgressRepairs
  <2>4. \A b \in Uses : repair'[b].state # "none" <=> use'[b].state = "failed" /\ KindOf[b] # "repair"
    BY <1>1, <2>1 DEF Mending
  <2> QED  BY <2>1, <2>2, <2>3, <2>4 DEF Mending
<1>3. CASE KindOf[a] = "repair"
  <2> DEFINE f == CHOOSE b \in Repairable : TRUE
  <2>1. f \in Repairable
    BY <1>3, ChosenRepairs DEF MayUse
  <2>2. repair' = [repair EXCEPT ![f].state = "in_progress", ![f].tries = @ + 1]
    BY <1>3 DEF Spend
  <2> HIDE DEF f
  <2>3. f \in Uses /\ repair[f].state = "pending" /\ repair[f].tries < repair[f].limit
    BY <2>1 DEF Repairable
  <2>4. InProgressRepairs = {} /\ RepairUses({"in_progress"}) = {}
    BY <2>1, RepairableIsOpen DEF Mending
  <2>5. RepairUses({"in_progress"})' = {a}
    BY <1>1, <1>3, <2>4 DEF RepairUses, UsesIn
  <2>6. InProgressRepairs' = {f} /\ Unresolved' = Unresolved
    BY <2>2, <2>3, <2>4 DEF InProgressRepairs, Unresolved
  <2>7. \A b \in Uses : repair'[b].state # "none" <=> repair[b].state # "none"
    BY <2>2, <2>3
  <2>8. \A b \in Uses : repair'[b].state # "none" <=> use'[b].state = "failed" /\ KindOf[b] # "repair"
    BY <1>1, <1>3, <2>7 DEF Mending
  <2>9. \A b \in Uses : repair'[b].tries <= repair'[b].limit
    BY <2>2, <2>3 DEF Mending
  <2> QED  BY <2>5, <2>6, <2>8, <2>9 DEF Mending
<1> QED  BY <1>2, <1>3

LEMMA SettleKeepsMending ==
  ASSUME GoalTypeOK, RevisionsFit, Mending, NEW a \in Uses, NEW outcome \in Outcomes,
         MaySettle(a, outcome), SettleUse(a, outcome)
  PROVE  Mending'
<1> USE UsesAreTyped DEF UseRows, RepairRows
<1>1. use[a].state = "in_progress" /\ use' = [use EXCEPT ![a].state = outcome]
  BY DEF MaySettle, SettleUse
<1>2. CASE KindOf[a] = "repair"
  <2> DEFINE f == CHOOSE b \in InProgressRepairs : TRUE
  <2>1. f \in InProgressRepairs
    BY <1>2, ChosenRepairs DEF MaySettle
  <2>2. PICK s \in {"completed", "blocked", "pending"} : repair' = [repair EXCEPT ![f].state = s]
    BY <1>2 DEF SettleUse, RepairAfter
  <2> HIDE DEF f
  <2>3. f \in Uses /\ repair[f].state = "in_progress"
    BY <2>1 DEF InProgressRepairs
  <2>4. InProgressRepairs = {f} /\ RepairUses({"in_progress"}) = {a}
    BY <1>1, <1>2, <2>1, RepairableIsOpen DEF Mending, RepairUses, UsesIn
  <2>5. RepairUses({"in_progress"})' = {}
    BY <1>1, <2>4 DEF RepairUses, UsesIn, Outcomes
  <2>6. InProgressRepairs' = {} /\ Unresolved' \subseteq Unresolved
    BY <2>2, <2>3, <2>4 DEF InProgressRepairs, Unresolved
  <2>7. \A b \in Uses : repair'[b].state # "none" <=> repair[b].state # "none"
    BY <2>2, <2>3
  <2>8. \A b \in Uses : repair'[b].state # "none" <=> use'[b].state = "failed" /\ KindOf[b] # "repair"
    BY <1>1, <1>2, <2>7 DEF Mending
  <2>9. \A b \in Uses : repair'[b].tries <= repair'[b].limit
    BY <2>2, <2>3 DEF Mending
  <2> QED  BY <2>5, <2>6, <2>8, <2>9 DEF Mending
<1>3. CASE KindOf[a] # "repair" /\ outcome = "failed"
  <2>1. Unresolved = {}
    BY <1>3 DEF MaySettle
  <2> DEFINE limit == MaxRepairs[use[a].revision]
  <2>2. limit \in Nat
    BY <1>1, GoalConstants DEF RevisionsFit
  <2>3. repair' = [repair EXCEPT ![a] = [state |-> "pending", tries |-> 0, limit |-> limit]]
    BY <1>3 DEF SettleUse, RepairAfter
  <2> HIDE DEF limit
  <2>4. InProgressRepairs = {} /\ RepairUses({"in_progress"}) = {}
    BY <2>1, RepairableIsOpen DEF Mending
  <2>5. InProgressRepairs' = {} /\ Unresolved' = {a}
    BY <2>1, <2>3, <2>4 DEF InProgressRepairs, Unresolved
  <2>6. RepairUses({"in_progress"})' = {}
    BY <1>1, <1>3, <2>4 DEF RepairUses, UsesIn
  <2>7. \A b \in Uses : repair'[b].state # "none" <=> use'[b].state = "failed" /\ KindOf[b] # "repair"
    BY <1>1, <1>3, <2>3 DEF Mending
  <2>8. \A b \in Uses : repair'[b].tries <= repair'[b].limit
    BY <2>2, <2>3 DEF Mending
  <2> QED  BY <2>5, <2>6, <2>7, <2>8 DEF Mending
<1>4. CASE KindOf[a] # "repair" /\ outcome = "succeeded"
  <2>1. repair' = repair
    BY <1>4 DEF SettleUse, RepairAfter
  <2>2. RepairUses({"in_progress"})' = RepairUses({"in_progress"})
    BY <1>1, <1>4 DEF RepairUses, UsesIn
  <2>3. Unresolved' = Unresolved /\ InProgressRepairs' = InProgressRepairs
    BY <2>1 DEF Unresolved, InProgressRepairs
  <2>4. \A b \in Uses : repair'[b].state # "none" <=> use'[b].state = "failed" /\ KindOf[b] # "repair"
    BY <1>1, <1>4, <2>1 DEF Mending
  <2> QED  BY <2>1, <2>2, <2>3, <2>4 DEF Mending
<1> QED  BY <1>2, <1>3, <1>4 DEF Outcomes

-----------------------------------------------------------------------------
(* The step on the books.                                                  *)

LEMMA NextKeepsBooks ==
  ASSUME GoalTypeOK, RevisionsFit, Counted, Mending, RunnersBound, [GoalNext]_goalVars
  PROVE  /\ Counted' /\ Mending'
         /\ use' \in [Uses -> UseRows] /\ repair' \in [Uses -> RepairRows]
         /\ busy' \in Nat /\ spent' \in Nat
         /\ \A b \in Uses : use'[b].state # "none" => use'[b].revision \in Revisions
<1>1. ASSUME NEW a \in Uses, MayUse(a), Spend(a)
      PROVE  /\ Counted' /\ Mending'
             /\ use' \in [Uses -> UseRows] /\ repair' \in [Uses -> RepairRows]
             /\ busy' \in Nat /\ spent' \in Nat
             /\ \A b \in Uses : use'[b].state # "none" => use'[b].revision \in Revisions
  BY <1>1, SpendKeepsTypes, SpendKeepsCount, SpendKeepsMending
<1>2. ASSUME NEW a \in Uses, NEW outcome \in Outcomes, MaySettle(a, outcome), SettleUse(a, outcome)
      PROVE  /\ Counted' /\ Mending'
             /\ use' \in [Uses -> UseRows] /\ repair' \in [Uses -> RepairRows]
             /\ busy' \in Nat /\ spent' \in Nat
             /\ \A b \in Uses : use'[b].state # "none" => use'[b].revision \in Revisions
  BY <1>2, SettleKeepsTypes, SettleKeepsCount, SettleKeepsMending
<1>3. CASE UNCHANGED <<use, busy, spent, repair>>
  <2>1. Counted'
    BY <1>3 DEF Counted, CountersAgree, UsesIn, AttemptsOf
  <2>2. Mending'
    BY <1>3 DEF Mending, Unresolved, InProgressRepairs, RepairUses, UsesIn
  <2> QED  BY <1>3, <2>1, <2>2, UsesAreTyped DEF GoalTypeOK, RevisionsFit
<1> QED  BY <1>1, <1>2, <1>3, BooksFrame

\* The rest of the types.
LEMMA NextKeepsTypes ==
  ASSUME GoalTypeOK, RevisionsFit, Counted, Mending, RunnersBound, [GoalNext]_goalVars
  PROVE  GoalTypeOK' /\ RevisionsFit'
<1> DEFINE Runs == [at : {"idle", "operate", "settle"}, action : Uses \cup {NoUse},
                    outcome : {"none", "succeeded", "failed"}]
<1>1. goal' \in GoalStates \cup {"none"}
  <2>1. ASSUME NEW a \in Uses, MayUse(a), Spend(a)  PROVE goal' \in GoalStates \cup {"none"}
    BY <2>1, SpendKeepsTypes
  <2>2. ASSUME NEW a \in Uses, NEW outcome \in Outcomes, MaySettle(a, outcome), SettleUse(a, outcome)
        PROVE  goal' \in GoalStates \cup {"none"}
    BY <2>2, SettleKeepsTypes
  <2>3. ASSUME NEW s \in {"not_started", "active"}, Authorize(s)
        PROVE  goal' \in GoalStates \cup {"none"}
    BY <2>3 DEF Authorize, GoalTypeOK, GoalStates
  <2>4. ASSUME NEW s \in GoalStates, TransitionGoal(s)
        PROVE  goal' \in GoalStates \cup {"none"}
    BY <2>4 DEF TransitionGoal
  <2>5. ASSUME NEW p \in Runners, SettleGate(p)
        PROVE  goal' \in GoalStates \cup {"none"}
    <3>1. runner[p].action \in Uses /\ runner[p].outcome \in Outcomes
      BY <2>5 DEF SettleGate, RunnersBound
    <3> QED  BY <2>2, <2>5, <3>1 DEF SettleGate, GoalTypeOK
  <2>6. ASSUME NEW p \in Runners, NEW a \in Uses, BeginGate(p, a)
        PROVE  goal' \in GoalStates \cup {"none"}
    BY <2>1, <2>6 DEF BeginGate, GoalTypeOK
  <2>7. ASSUME NEW a \in Uses, UseAction(a)
        PROVE  goal' \in GoalStates \cup {"none"}
    BY <2>1, <2>7 DEF UseAction
  <2>8. ASSUME NEW a \in Uses, NEW outcome \in Outcomes, SettleEffect(a, outcome)
        PROVE  goal' \in GoalStates \cup {"none"}
    BY <2>2, <2>8 DEF SettleEffect
  <2>9. CASE UNCHANGED goal
    BY <2>9 DEF GoalTypeOK
  <2> QED
    BY <2>3, <2>4, <2>5, <2>6, <2>7, <2>8, <2>9
       DEF GoalNext, goalVars, Outcomes, Revoke, ClockPasses, RetireGranted, Operate, CrashRunner
<1>2. /\ grant' \in [revision : 0..MaxRevision,
                     standing : {"none", "not_started", "active", "expired", "revoked"}]
      /\ granted' \in BOOLEAN
      /\ grant'.standing # "none" => grant'.revision \in Revisions
  <2> USE GoalConstants DEF GoalTypeOK, RevisionsFit, Revisions
  <2>1. ASSUME NEW s \in {"not_started", "active"}, Authorize(s)
        PROVE  /\ grant'.revision \in Revisions /\ granted' = TRUE
               /\ grant' \in [revision : 0..MaxRevision,
                             standing : {"none", "not_started", "active", "expired", "revoked"}]
    BY <2>1 DEF Authorize
  <2>2. CASE Revoke \/ ClockPasses \/ RetireGranted
    BY <2>2 DEF Revoke, ClockPasses, RetireGranted, Active
  <2>3. CASE UNCHANGED <<grant, granted>>
    BY <2>3
  <2> QED
    BY <2>1, <2>2, <2>3
       DEF GoalNext, goalVars, UseAction, SettleEffect, BeginGate, TransitionGoal, Operate, SettleGate, CrashRunner
<1>3. gate' \in [Uses -> {"none", "begun", "succeeded", "failed"}]
  <2> USE DEF GoalTypeOK
  <2>1. ASSUME NEW p \in Runners, NEW a \in Uses, BeginGate(p, a)
        PROVE  gate' \in [Uses -> {"none", "begun", "succeeded", "failed"}]
    BY <2>1 DEF BeginGate
  <2>2. ASSUME NEW p \in Runners, SettleGate(p)
        PROVE  gate' \in [Uses -> {"none", "begun", "succeeded", "failed"}]
    BY <2>2 DEF SettleGate, RunnersBound, Outcomes
  <2> QED
    BY <2>1, <2>2
       DEF GoalNext, goalVars, Authorize, Revoke, ClockPasses, RetireGranted, TransitionGoal,
           UseAction, SettleEffect, Operate, CrashRunner
<1>4. runner' \in [Runners -> Runs] /\ performed' \subseteq Uses
  <2> USE DEF GoalTypeOK
  <2>1. ASSUME NEW p \in Runners, NEW a \in Uses, BeginGate(p, a)
        PROVE  runner' \in [Runners -> Runs] /\ performed' \subseteq Uses
    BY <2>1 DEF BeginGate, Running
  <2>2. ASSUME NEW p \in Runners, NEW outcome \in Outcomes, NEW effect \in BOOLEAN, Operate(p, outcome, effect)
        PROVE  runner' \in [Runners -> Runs] /\ performed' \subseteq Uses
    BY <2>2 DEF Operate, Running, RunnersBound, Outcomes
  <2>3. ASSUME NEW p \in Runners, SettleGate(p) \/ CrashRunner(p)
        PROVE  runner' \in [Runners -> Runs] /\ performed' \subseteq Uses
    <3>1. Running(p, "idle", NoUse, "none") /\ performed' = performed
      BY <2>3 DEF SettleGate, CrashRunner
    <3> QED  BY <3>1 DEF Running
  <2>4. ASSUME NEW a \in Uses, UseAction(a) \/ \E outcome \in Outcomes : SettleEffect(a, outcome)
        PROVE  UNCHANGED <<runner, performed>>
    BY <2>4 DEF UseAction, SettleEffect
  <2> QED  BY <2>1, <2>2, <2>3, <2>4, CommandFrame
<1> QED
  BY <1>1, <1>2, <1>3, <1>4, NextKeepsBooks DEF GoalTypeOK, RevisionsFit, UseRows, RepairRows, States, Made

-----------------------------------------------------------------------------
(* The gates.                                                              *)

\* The gates and the uses they bind, in a step that settles neither.
LEMMA UnboundIsKept ==
  ASSUME GoalTypeOK, RunnersBound, ProtectedEffectIsBound,
         UNCHANGED <<gate, runner, performed>>,
         \A a \in Uses : use'[a].state = use[a].state \/ gate[a] = "none"
                           \/ (use[a].state \in {"none", "in_progress"} /\ use'[a].state # "none")
  PROVE  RunnersBound' /\ ProtectedEffectIsBound'
BY DEF RunnersBound, ProtectedEffectIsBound

LEMMA UseKeepsBound ==
  ASSUME GoalTypeOK, RunnersBound, ProtectedEffectIsBound, NEW a \in Uses,
         (UseAction(a) \/ \E outcome \in Outcomes : SettleEffect(a, outcome))
  PROVE  RunnersBound' /\ ProtectedEffectIsBound'
<1>1. UNCHANGED <<gate, runner, performed>>
  BY DEF UseAction, SettleEffect
<1>2. CASE UseAction(a)
  <2>1. use' = [use EXCEPT ![a] = [state |-> "in_progress", revision |-> grant.revision]]
        /\ use[a].state = "none"
    BY <1>2 DEF UseAction, MayUse, Spend
  <2> QED  BY <1>1, <2>1, UnboundIsKept, UsesAreTyped
<1>3. ASSUME NEW outcome \in Outcomes, SettleEffect(a, outcome)
      PROVE  RunnersBound' /\ ProtectedEffectIsBound'
  <2>1. use' = [use EXCEPT ![a].state = outcome] /\ use[a].state = "in_progress"
    BY <1>3 DEF SettleEffect, MaySettle, SettleUse
  <2> QED  BY <1>1, <2>1, UnboundIsKept, UsesAreTyped DEF Outcomes, UseRows
<1> QED  BY <1>2, <1>3

LEMMA BeginKeepsBound ==
  ASSUME GoalTypeOK, RunnersBound, ProtectedEffectIsBound,
         NEW p \in Runners, NEW a \in Uses, BeginGate(p, a)
  PROVE  RunnersBound' /\ ProtectedEffectIsBound'
<1> USE DEF GoalTypeOK
<1>1. performed' = performed /\ runner' = [runner EXCEPT ![p] = [at |-> "operate", action |-> a, outcome |-> "none"]]
  BY DEF BeginGate, Running
<1>2. \/ /\ use[a].state = "none" /\ gate[a] = "none"
         /\ gate' = [gate EXCEPT ![a] = "begun"]
         /\ use' = [use EXCEPT ![a] = [state |-> "in_progress", revision |-> grant.revision]]
      \/ gate[a] = "begun" /\ UNCHANGED <<gate, use>>
  BY DEF BeginGate, MayUse, Spend
<1>3. gate'[a] = "begun" /\ \A b \in Uses : b # a => gate'[b] = gate[b] /\ use'[b] = use[b]
  BY <1>2
<1>4. use'[a].state # "none"
  BY <1>2 DEF ProtectedEffectIsBound
<1>5. RunnersBound'
  BY <1>1, <1>3 DEF RunnersBound
<1>6. ProtectedEffectIsBound'
  BY <1>1, <1>3, <1>4 DEF ProtectedEffectIsBound
<1> QED  BY <1>5, <1>6

LEMMA SettleKeepsBound ==
  ASSUME GoalTypeOK, RunnersBound, ProtectedEffectIsBound, NEW p \in Runners, SettleGate(p)
  PROVE  RunnersBound' /\ ProtectedEffectIsBound'
<1> USE DEF GoalTypeOK
<1> DEFINE a == runner[p].action
           outcome == runner[p].outcome
<1>1. /\ a \in Uses /\ outcome \in Outcomes /\ gate[a] # "none"
      /\ outcome = "succeeded" => a \in performed
  BY DEF SettleGate, RunnersBound
<1>2. performed' = performed /\ runner' = [runner EXCEPT ![p] = [at |-> "idle", action |-> NoUse, outcome |-> "none"]]
  BY DEF SettleGate, Running
<1>3. \/ gate' = [gate EXCEPT ![a] = outcome] /\ use' = [use EXCEPT ![a].state = outcome]
      \/ gate' = [gate EXCEPT ![a] = outcome] /\ use' = use /\ use[a].state = outcome
      \/ UNCHANGED <<gate, use>>
  BY DEF SettleGate, SettleUse
<1> HIDE DEF a, outcome
<1>4. RunnersBound'
  BY <1>1, <1>2, <1>3 DEF RunnersBound, Outcomes
<1>5. \A b \in Uses : b # a => gate'[b] = gate[b] /\ use'[b] = use[b]
  BY <1>3
<1>6. (gate'[a] = outcome /\ use'[a].state = outcome) \/ (gate'[a] = gate[a] /\ use'[a] = use[a])
  BY <1>1, <1>3
<1>7. ProtectedEffectIsBound'
  BY <1>1, <1>2, <1>5, <1>6 DEF ProtectedEffectIsBound, Outcomes
<1> QED  BY <1>4, <1>7

LEMMA NextKeepsBound ==
  ASSUME GoalTypeOK, RunnersBound, ProtectedEffectIsBound, [GoalNext]_goalVars
  PROVE  RunnersBound' /\ ProtectedEffectIsBound'
<1> USE DEF GoalTypeOK
<1>1. ASSUME NEW p \in Runners, NEW outcome \in Outcomes, NEW effect \in BOOLEAN, Operate(p, outcome, effect)
      PROVE  RunnersBound' /\ ProtectedEffectIsBound'
  <2>1. /\ gate' = gate /\ use' = use /\ performed \subseteq performed'
        /\ performed' \subseteq performed \cup {runner[p].action}
        /\ outcome = "succeeded" => runner[p].action \in performed'
        /\ runner' = [runner EXCEPT ![p] = [at |-> "settle", action |-> runner[p].action, outcome |-> outcome]]
    BY <1>1 DEF Operate, Running
  <2>2. runner[p].action \in Uses /\ gate[runner[p].action] # "none"
    BY <1>1 DEF Operate, RunnersBound
  <2>3. RunnersBound'
    BY <2>1, <2>2 DEF RunnersBound
  <2>4. ProtectedEffectIsBound'
    BY <2>1, <2>2 DEF ProtectedEffectIsBound
  <2> QED  BY <2>3, <2>4
<1>2. ASSUME NEW p \in Runners, CrashRunner(p)
      PROVE  RunnersBound' /\ ProtectedEffectIsBound'
  <2>1. runner' = [runner EXCEPT ![p] = [at |-> "idle", action |-> NoUse, outcome |-> "none"]]
        /\ UNCHANGED <<gate, use, performed>>
    BY <1>2 DEF CrashRunner, Running
  <2> QED  BY <2>1 DEF RunnersBound, ProtectedEffectIsBound
<1>3. CASE UNCHANGED <<use, gate, runner, performed>>
  BY <1>3 DEF RunnersBound, ProtectedEffectIsBound
<1> QED
  BY <1>1, <1>2, <1>3, UseKeepsBound, BeginKeepsBound, SettleKeepsBound, CommandFrame

-----------------------------------------------------------------------------
(* The theorems.                                                           *)

LEMMA InitGInv == GoalInit => GInv
<1> SUFFICES ASSUME GoalInit PROVE GInv
  OBVIOUS
<1>1. GoalTypeOK
  <2>1. 0 \in 0..MaxRevision
    BY GoalConstants
  <2>2. /\ use \in [Uses -> [state : {"none", "in_progress", "succeeded", "failed"}, revision : 0..MaxRevision]]
        /\ gate \in [Uses -> {"none", "begun", "succeeded", "failed"}]
    BY <2>1 DEF GoalInit
  <2>3. repair \in [Uses -> [state : {"none", "pending", "in_progress", "blocked", "completed"},
                            tries : Nat, limit : Nat]]
    BY DEF GoalInit
  <2>4. runner \in [Runners -> [at : {"idle", "operate", "settle"}, action : Uses \cup {NoUse},
                               outcome : {"none", "succeeded", "failed"}]]
    BY DEF GoalInit
  <2> QED  BY <2>1, <2>2, <2>3, <2>4 DEF GoalInit, GoalTypeOK
<1>2. RevisionsFit /\ RunnersBound /\ ProtectedEffectIsBound
  BY DEF GoalInit, RevisionsFit, RunnersBound, ProtectedEffectIsBound
<1>3. UsesIn(Made) = {} /\ UsesIn({"in_progress"}) = {}
  BY DEF GoalInit, UsesIn, Made
<1>4. Counted
  <2>1. AttemptsOf({}) = {}
    BY DEF AttemptsOf
  <2> QED  BY <1>3, <2>1, FS_EmptySet DEF GoalInit, Counted, CountersAgree, Made
<1>5. Unresolved = {} /\ InProgressRepairs = {} /\ RepairUses({"in_progress"}) = {}
  BY <1>3 DEF GoalInit, Unresolved, InProgressRepairs, RepairUses
<1>6. Mending
  BY <1>5 DEF GoalInit, Mending
<1> QED  BY <1>1, <1>2, <1>4, <1>6 DEF GInv

LEMMA GoalInvariant == GoalSpec => []GInv
<1>1. GInv /\ [GoalNext]_goalVars => GInv'
  BY NextKeepsBooks, NextKeepsTypes, NextKeepsBound DEF GInv
<1> QED  BY InitGInv, <1>1, PTL DEF GoalSpec

\* A set without two different members has at most one.
LEMMA AtMostOne ==
  ASSUME NEW S, \A a, b \in S : a = b
  PROVE  /\ Cardinality(S) <= 1 /\ Cardinality(S) \in Nat
         /\ S # {} => Cardinality(S) = 1
         /\ S = {} => Cardinality(S) = 0
<1>1. CASE S = {}
  BY <1>1, FS_EmptySet
<1>2. CASE S # {}
  <2>1. PICK x : x \in S
    BY <1>2
  <2>2. S = {x}
    BY <2>1
  <2>3. Cardinality(S) = 1
    BY <2>2, FS_Singleton
  <2> QED  BY <1>2, <2>3
<1> QED  BY <1>1, <1>2

\* The counters of a goal are those of its uses, every failure has one obligation,
\* one obligation at most is unresolved and a repair in progress has one use, for
\* any set of uses, limits and revisions (use_mode_action, settle_mode_action).
THEOREM GoalBooksAlwaysAgree == GoalSpec => []GoalBooksAgree
<1>1. GInv => GoalBooksAgree
  <2> SUFFICES ASSUME GInv PROVE GoalBooksAgree
    OBVIOUS
  <2>1. Cardinality(Unresolved) <= 1
    BY AtMostOne DEF GInv, Mending
  <2>2. Cardinality(RepairUses({"in_progress"})) = Cardinality(InProgressRepairs)
    <3>1. \A a, b \in InProgressRepairs : a = b
      BY RepairableIsOpen DEF GInv, Mending
    <3>2. \A a, b \in RepairUses({"in_progress"}) : a = b
      BY DEF GInv, Mending
    <3>3. RepairUses({"in_progress"}) # {} <=> InProgressRepairs # {}
      BY DEF GInv, Mending
    <3>4. CASE InProgressRepairs = {}
      BY <3>3, <3>4
    <3>5. CASE InProgressRepairs # {}
      <4>1. Cardinality(InProgressRepairs) = 1
        BY <3>1, <3>5, AtMostOne
      <4>2. Cardinality(RepairUses({"in_progress"})) = 1
        BY <3>2, <3>3, <3>5, AtMostOne
      <4> QED  BY <4>1, <4>2
    <3> QED  BY <3>4, <3>5
  <2>3. RepairsAgree
    BY <2>1, <2>2 DEF GInv, Mending, RepairsAgree
  <2> QED  BY <2>3 DEF GInv, Counted, GoalBooksAgree
<1> QED  BY GoalInvariant, <1>1, PTL

\* Nothing is performed without its gate, a gate is settled as its use is, and as
\* a success only when its operation ran, for any number of processes that crash,
\* repeat and settle by hand (begin_protected_gate, settle_protected_gate).
THEOREM ProtectedEffectsAreBound == GoalSpec => []ProtectedEffectIsBound
<1>1. GInv => ProtectedEffectIsBound
  BY DEF GInv
<1> QED  BY GoalInvariant, <1>1, PTL

-----------------------------------------------------------------------------
(* Selection.  A receipt is written with the version of the lease it was   *)
(* selected under, and every lease has a version of its own; an execution  *)
(* keeps its task, so the maker of an issue names the task it was made for.*)
(* Until a lease ends over somebody, whoever is under way holds it: nobody *)
(* else searches or posts, so a finished search has seen every container.  *)

Sayings == {"exact", "incomplete", "other"}

Decisions == {"reuse_open", "reopen_closed", "create_distinct"}

Issues == [open : BOOLEAN, says : Sayings, by : Maker]

Leases == [state : {"none", "available", "selecting", "completed"}, owner : Maker,
           task : Tasks \cup {NoTask}, version : Nat, lapsed : BOOLEAN]

Receipts == [issue : Nat, version : Nat, reopen : Reopens \cup {NoReopen},
             decision : Decisions \cup {"none"}]

Executions == [step : {"idle", "searching", "posting", "chosen", "releasing", "over"},
             task : Tasks \cup {NoTask}, by : Coordinators \cup {NoTask},
             reopen : Reopens \cup {NoReopen}, version : Nat, next : Nat,
             found : SUBSET [issue : Nat, open : BOOLEAN], issue : Nat,
             decision : Decisions \cup {"none"}]

\* The types, without the bounds of GitHub's numbers.
Shapes ==
  /\ issues \in Seq(Issues)
  /\ edits \in 0..MaxEdits
  /\ post \in [Searches -> {"none", "sent", "landed", "lost"}]
  /\ selecting \in Leases
  /\ receipt \in [Tasks -> Receipts]
  /\ reopened \in [Reopens -> Nat]
  /\ retired \subseteq Coordinators
  /\ attempt \in [Searches -> Executions]
  /\ verified \subseteq Tasks
  /\ bound \in [Tasks -> Nat]
  /\ overtaken \in BOOLEAN

\* What one execution holds: its task once it has begun, no POST before it
\* posts, matches it has looked at, an issue on GitHub and why it was chosen.
AttemptFits(a) ==
  LET w == attempt[a] IN
  /\ w.step # "idle" => w.task \in Tasks
  /\ w.step \in {"idle", "searching"} => post[a] = "none"
  /\ w.step = "chosen" => post[a] # "sent"
  /\ w.version <= selecting.version
  /\ w.step = "searching" =>
       /\ w.next \in 1..(Len(issues) + 1)
       /\ \A f \in w.found : f.issue \in 1..(w.next - 1)
  /\ w.step = "chosen" =>
       /\ w.issue \in DOMAIN issues
       /\ w.decision # "none"
       /\ w.decision = "create_distinct" => issues[w.issue].by = a

\* The issues of a POST: one, once it has landed.
PostsFit ==
  /\ \A i \in DOMAIN issues : issues[i].by \in Searches => post[issues[i].by] = "landed"
  /\ \A i, j \in DOMAIN issues : issues[i].by \in Searches /\ issues[i].by = issues[j].by => i = j

ReceiptFits(t) ==
  LET r == receipt[t] IN
  Selected(t) =>
    /\ r.issue \in DOMAIN issues
    /\ r.version < selecting.version
    /\ r.decision = "reopen_closed" => r.reopen \in Reopens /\ reopened[r.reopen] = r.issue
    /\ r.decision = "create_distinct" =>
         /\ issues[r.issue].by \in Searches
         /\ attempt[issues[r.issue].by].step # "idle"
         /\ attempt[issues[r.issue].by].task = t

LeaseFits ==
  /\ selecting.state = "selecting" <=> selecting.owner # NoAttempt
  /\ selecting.state = "completed" =>
       \E t \in Tasks : Selected(t) /\ receipt[t].version = selecting.version - 1

ReceiptsDiffer ==
  \A t, u \in Tasks : t # u /\ Selected(t) /\ Selected(u) =>
    /\ receipt[t].version # receipt[u].version
    /\ receipt[t].reopen = receipt[u].reopen => receipt[t].reopen = NoReopen

BindingsFit ==
  /\ \A t \in verified : Selected(t)
  /\ \A t \in Tasks : bound[t] # 0 => Selected(t) /\ bound[t] = receipt[t].issue
  /\ \A d \in Reopens : reopened[d] # 0 => reopened[d] \in DOMAIN issues

\* Until a lease has ended over somebody, whoever is under way, or has a POST
\* under way, holds it.
Alone(a) ==
  UnderWay(a) \/ post[a] = "sent" =>
    selecting.state = "selecting" /\ selecting.owner = a /\ ~selecting.lapsed

\* The search has every container it went past, a POST is sent when there is
\* none, and there is one at most.
Contained ==
  ~overtaken =>
    /\ \A a \in Searches : Alone(a)
    /\ \A a \in Searches : attempt[a].step = "searching" =>
         \A i \in Containers : i < attempt[a].next => \E f \in attempt[a].found : f.issue = i
    /\ \A a \in Searches : attempt[a].step = "posting" /\ post[a] = "none" => Containers = {}
    /\ \A a \in Searches : post[a] = "sent" => attempt[a].step # "releasing" /\ Containers = {}
    /\ \A i, j \in Containers : i = j

XInv ==
  /\ Shapes
  /\ \A a \in Searches : AttemptFits(a)
  /\ PostsFit
  /\ \A t \in Tasks : ReceiptFits(t)
  /\ LeaseFits /\ ReceiptsDiffer /\ BindingsFit /\ Contained
-----------------------------------------------------------------------------
(* The first state.                                                        *)

LEMMA UnstartedIs == Unstarted \in Executions
BY DEF Unstarted, Executions

LEMMA XInvInit == SelectionInit => XInv
<1> SUFFICES ASSUME SelectionInit PROVE XInv
  OBVIOUS
<1> USE DEF SelectionInit
<1>0. issues = <<>> /\ DOMAIN issues = {} /\ Len(issues) = 0
  OBVIOUS
<1>1. Shapes
  <2>1. selecting \in Leases
    BY DEF Leases, NoLease, Maker
  <2>2. receipt \in [Tasks -> Receipts]
    BY DEF Receipts, NoReceipt
  <2>3. attempt \in [Searches -> Executions]
    BY UnstartedIs
  <2>4. issues \in Seq(Issues)
    OBVIOUS
  <2>5. edits \in 0..MaxEdits
    BY SelectionAssumption
  <2> QED BY <2>1, <2>2, <2>3, <2>4, <2>5 DEF Shapes
<1>2. \A a \in Searches : AttemptFits(a)
  BY DEF AttemptFits, Unstarted, NoLease
<1>3. PostsFit
  BY <1>0 DEF PostsFit
<1>4. \A t \in Tasks : ReceiptFits(t)
  BY DEF ReceiptFits, Selected
<1>5. LeaseFits
  BY DEF LeaseFits, NoLease
<1>6. ReceiptsDiffer
  BY DEF ReceiptsDiffer, Selected
<1>7. BindingsFit
  BY DEF BindingsFit
<1>8. Contained
  BY <1>0 DEF Contained, Alone, UnderWay, Unstarted, Containers
<1> QED BY <1>1, <1>2, <1>3, <1>4, <1>5, <1>6, <1>7, <1>8 DEF XInv

-----------------------------------------------------------------------------
(* An execution moves on by itself: nothing else changes.                  *)

Frame == <<github, post, store, verified>>

LEMMA AttemptMoves ==
  ASSUME XInv, NEW a \in Searches, NEW w \in Executions,
         attempt[a].step # "idle", attempt' = [attempt EXCEPT ![a] = w],
         UNCHANGED Frame, overtaken' \in BOOLEAN, overtaken => overtaken',
         w.task = attempt[a].task, w.step # "idle", UnderWay(a),
         AttemptFits(a)',
         w.step = "searching" => attempt[a].step = "searching",
         ~overtaken' /\ w.step = "searching" =>
           \A i \in Containers : i < w.next => \E f \in w.found : f.issue = i,
         ~overtaken' /\ w.step = "posting" /\ post[a] = "none" => Containers = {},
         ~overtaken' /\ w.step = "releasing" => post[a] # "sent"
  PROVE  XInv'
<1> USE DEF Frame, github, store
<1>0. /\ attempt \in [Searches -> Executions] /\ attempt'[a] = w
      /\ \A b \in Searches : b # a => attempt'[b] = attempt[b]
      /\ \A b \in Searches : attempt'[b].step # "idle" => attempt[b].step # "idle"
      /\ \A b \in Searches : attempt[b].step # "idle" => attempt'[b].step # "idle"
      /\ \A b \in Searches : attempt'[b].task = attempt[b].task
  BY DEF XInv, Shapes
<1>1. Shapes'
  BY <1>0 DEF XInv, Shapes
<1>2. \A b \in Searches : AttemptFits(b)'
  <2>1. ASSUME NEW b \in Searches, b # a PROVE AttemptFits(b)'
    BY <1>0, <2>1 DEF XInv, AttemptFits
  <2> QED BY <2>1
<1>3. PostsFit'
  BY DEF XInv, PostsFit
<1>4. \A t \in Tasks : ReceiptFits(t)'
  BY <1>0 DEF XInv, ReceiptFits, Selected
<1>5. LeaseFits'
  BY DEF XInv, LeaseFits, Selected
<1>6. ReceiptsDiffer'
  BY DEF XInv, ReceiptsDiffer, Selected
<1>7. BindingsFit'
  BY DEF XInv, BindingsFit, Selected
<1>8. Contained'
  <2> SUFFICES ASSUME ~overtaken' PROVE Contained'
    BY DEF Contained
  <2>0. Containers' = Containers
    BY DEF Containers
  <2>1. Contained /\ ~overtaken
    BY DEF XInv, Shapes
  <2>2. ASSUME NEW b \in Searches PROVE Alone(b)'
    <3>1. UnderWay(b)' => UnderWay(b)
      BY <1>0 DEF UnderWay
    <3> QED BY <2>1, <3>1 DEF Contained, Alone
  <2>3. ASSUME NEW b \in Searches, attempt'[b].step = "searching"
        PROVE  \A i \in Containers : i < attempt'[b].next => \E f \in attempt'[b].found : f.issue = i
    BY <1>0, <2>1, <2>3 DEF Contained
  <2>4. ASSUME NEW b \in Searches, post[b] = "sent"
        PROVE  attempt'[b].step # "releasing" /\ Containers = {}
    BY <1>0, <2>1, <2>4 DEF Contained
  <2>5. ASSUME NEW b \in Searches, attempt'[b].step = "posting", post[b] = "none"
        PROVE  Containers = {}
    BY <1>0, <2>1, <2>5 DEF Contained
  <2> QED BY <2>0, <2>1, <2>2, <2>3, <2>4, <2>5 DEF Contained
<1> QED BY <1>1, <1>2, <1>3, <1>4, <1>5, <1>6, <1>7, <1>8 DEF XInv

LEMMA Leaves ==
  ASSUME XInv, NEW a \in Searches, UnderWay(a), NEW w \in Executions,
         w.step \in {"over", "releasing"}, w.task = attempt[a].task, w.version <= selecting.version,
         attempt' = [attempt EXCEPT ![a] = w],
         UNCHANGED Frame, overtaken' \in BOOLEAN, overtaken => overtaken',
         w.step = "releasing" /\ ~overtaken' => post[a] # "sent"
  PROVE  XInv'
<1>1. /\ attempt[a].step # "idle" /\ attempt[a].task \in Tasks
      /\ attempt'[a] = w /\ selecting' = selecting
  BY DEF UnderWay, XInv, Shapes, AttemptFits, Frame, store
<1>2. AttemptFits(a)'
  BY <1>1 DEF AttemptFits
<1> QED
  BY <1>1, <1>2, AttemptMoves

LEMMA SelectingKnown ==
  ASSUME XInv
  PROVE  /\ selecting.version \in Nat /\ overtaken \in BOOLEAN
         /\ \A a \in Searches : /\ attempt[a].task \in Tasks \cup {NoTask}
                                /\ attempt[a].version \in Nat
                                /\ attempt[a].version <= selecting.version
BY DEF XInv, Shapes, Leases, Executions, AttemptFits

LEMMA OverKeeps ==
  ASSUME XInv, NEW a \in Searches, UnderWay(a), Over(a), UNCHANGED <<Frame, overtaken>>
  PROVE  XInv'
<1> DEFINE w == [Unstarted EXCEPT !.step = "over", !.task = attempt[a].task]
<1>1. /\ w \in Executions /\ w.step = "over"
      /\ w.task = attempt[a].task /\ w.version = 0
  BY SelectingKnown, UnstartedIs DEF Executions, Unstarted
<1>2. attempt' = [attempt EXCEPT ![a] = w]
  BY DEF Over
<1>4. w.version <= selecting.version
  <2>1. selecting.version \in Nat
    BY SelectingKnown
  <2>2. 0 <= selecting.version
    BY <2>1
  <2> QED BY <1>1, <2>2
<1>3. UNCHANGED Frame /\ overtaken' \in BOOLEAN /\ (overtaken => overtaken')
  BY SelectingKnown
<1> HIDE DEF w
<1> QED BY <1>1, <1>2, <1>3, <1>4, Leaves, SelectingKnown

LEMMA AbandonKeeps ==
  ASSUME XInv, NEW a \in Searches, UnderWay(a), Abandon(a), UNCHANGED Frame,
         overtaken' \in BOOLEAN, overtaken => overtaken', ~overtaken' => post[a] # "sent"
  PROVE  XInv'
<1> DEFINE w == [Unstarted EXCEPT !.step = "releasing", !.task = attempt[a].task,
                                  !.version = attempt[a].version]
<1>1. /\ w \in Executions /\ w.step = "releasing" /\ w.task = attempt[a].task
      /\ w.version = attempt[a].version
  BY SelectingKnown, UnstartedIs DEF Executions, Unstarted
<1>2. attempt' = [attempt EXCEPT ![a] = w]
  BY DEF Abandon
<1> HIDE DEF w
<1> QED BY <1>1, <1>2, Leaves, SelectingKnown

LEMMA LookKeeps ==
  ASSUME XInv, NEW a \in Searches, Look(a)
  PROVE  XInv'
<1> DEFINE i == attempt[a].next
           g == IF Match(i) THEN attempt[a].found \cup {[issue |-> i, open |-> issues[i].open]}
                ELSE attempt[a].found
           w == [attempt[a] EXCEPT !.next = i + 1, !.found = g]
<1>0. UnderWay(a) /\ attempt[a].step = "searching" /\ UNCHANGED Frame /\ overtaken' = overtaken
      /\ post[a] = "none" /\ overtaken \in BOOLEAN
  BY DEF Look, UnderWay, Frame, store, github, XInv, Shapes, AttemptFits
<1>1. CASE issues[i].says = "incomplete"
  BY <1>0, <1>1, AbandonKeeps DEF Look
<1>2. CASE issues[i].says # "incomplete"
  <2>1. /\ attempt[a] \in Executions /\ i \in 1..Len(issues) /\ issues \in Seq(Issues)
        /\ AttemptFits(a) /\ attempt \in [Searches -> Executions]
    BY <1>0 DEF XInv, Shapes, Look, AttemptFits
  <2>2. /\ i \in Nat /\ issues[i] \in Issues /\ i + 1 \in Nat /\ i + 1 \in 1..(Len(issues) + 1)
        /\ i + 1 - 1 = i /\ i \in DOMAIN issues
    BY <2>1
  <2>3. attempt' = [attempt EXCEPT ![a] = w]
    BY <1>2, <2>1 DEF Look
  <2>8. g \in SUBSET [issue : Nat, open : BOOLEAN] /\ attempt[a].found \subseteq g
    BY <2>1, <2>2 DEF Executions, Issues
  <2>9. Match(i) => \E f \in g : f.issue = i
    <3>1. Match(i) => [issue |-> i, open |-> issues[i].open] \in g
      OBVIOUS
    <3> QED BY <3>1
  <2>5. \A f \in g : f.issue \in 1..i
    BY <1>0, <2>1, <2>2 DEF AttemptFits
  <2> HIDE DEF g
  <2>4. /\ w \in Executions /\ w.step = "searching" /\ w.task = attempt[a].task /\ w.found = g
        /\ w.next = i + 1 /\ w.version = attempt[a].version
    BY <1>0, <2>1, <2>2, <2>8 DEF Executions
  <2>6. ASSUME ~overtaken, NEW j \in Containers, j < i + 1
        PROVE  \E f \in g : f.issue = j
    <3>1. CASE j < i
      <4>1. \E f \in attempt[a].found : f.issue = j
        BY <1>0, <2>6, <3>1 DEF XInv, Contained
      <4> QED BY <2>8, <4>1
    <3>2. CASE j = i
      BY <2>9, <3>2 DEF Containers, Match
    <3>3. j \in DOMAIN issues
      BY <2>6 DEF Containers
    <3>4. j < i \/ j = i
      BY <2>1, <2>2, <2>6, <3>3
    <3> QED BY <3>1, <3>2, <3>4
  <2> HIDE DEF w
  <2>7. AttemptFits(a)'
    <3>1. attempt'[a] = w /\ post' = post /\ issues' = issues /\ selecting' = selecting
      BY <2>1, <2>3, <1>0 DEF Frame, store, github
    <3> QED BY <1>0, <2>1, <2>2, <2>4, <2>5, <3>1 DEF AttemptFits
  <2> QED BY <1>0, <2>3, <2>4, <2>6, <2>7, AttemptMoves
<1> QED BY <1>1, <1>2

LEMMA ChooseMatchKeeps ==
  ASSUME XInv, NEW a \in Searches, ChooseMatch(a)
  PROVE  XInv'
<1>0. UnderWay(a) /\ attempt[a].step = "searching" /\ UNCHANGED Frame /\ overtaken' = overtaken
      /\ post[a] = "none" /\ overtaken \in BOOLEAN
  BY DEF ChooseMatch, Searched, UnderWay, Frame, store, github, XInv, Shapes, AttemptFits
<1>1. CASE Abandon(a)
  BY <1>0, <1>1, AbandonKeeps
<1>2. ASSUME NEW i \in OpenFound(a),
             attempt' = [attempt EXCEPT
               ![a].step = "chosen", ![a].next = 1, ![a].found = {}, ![a].issue = i,
               ![a].decision = IF attempt[a].reopen = NoReopen THEN "reuse_open" ELSE "reopen_closed"]
      PROVE  XInv'
  <2> DEFINE d == IF attempt[a].reopen = NoReopen THEN "reuse_open" ELSE "reopen_closed"
             w == [attempt[a] EXCEPT !.step = "chosen", !.next = 1, !.found = {}, !.issue = i,
                                     !.decision = d]
  <2>1. /\ attempt[a] \in Executions /\ issues \in Seq(Issues)
        /\ AttemptFits(a) /\ attempt \in [Searches -> Executions]
    BY <1>0 DEF XInv, Shapes
  <2>2. i \in Nat /\ i \in DOMAIN issues
    <3>1. PICK f \in attempt[a].found : i = f.issue
      BY DEF OpenFound
    <3>2. i \in 1..(attempt[a].next - 1) /\ attempt[a].next \in 1..(Len(issues) + 1)
      BY <1>0, <2>1, <3>1 DEF AttemptFits
    <3> QED BY <2>1, <3>2
  <2>3. attempt' = [attempt EXCEPT ![a] = w]
    BY <1>2, <2>1
  <2>4. d \in Decisions /\ d # "create_distinct" /\ d # "none"
    BY DEF Decisions
  <2> HIDE DEF d
  <2>5. /\ w \in Executions /\ w.step = "chosen" /\ w.task = attempt[a].task /\ w.issue = i
        /\ w.decision = d /\ w.version = attempt[a].version
    BY <2>1, <2>2, <2>4 DEF Executions
  <2> HIDE DEF w
  <2>6. AttemptFits(a)'
    <3>1. attempt'[a] = w /\ post' = post /\ issues' = issues /\ selecting' = selecting
      BY <2>1, <2>3, <1>0 DEF Frame, store, github
    <3> QED BY <1>0, <2>1, <2>2, <2>4, <2>5, <3>1 DEF AttemptFits
  <2> QED BY <1>0, <2>3, <2>5, <2>6, AttemptMoves
<1> QED BY <1>1, <1>2 DEF ChooseMatch

LEMMA FindNoMatchKeeps ==
  ASSUME XInv, NEW a \in Searches, FindNoMatch(a)
  PROVE  XInv'
<1> DEFINE w == [attempt[a] EXCEPT !.step = "posting", !.next = 1, !.reopen = NoReopen]
<1>0. UnderWay(a) /\ attempt[a].step = "searching" /\ UNCHANGED Frame /\ overtaken' = overtaken
      /\ overtaken \in BOOLEAN
  BY DEF FindNoMatch, Searched, UnderWay, Frame, store, github, XInv, Shapes
<1>1. /\ attempt[a] \in Executions /\ issues \in Seq(Issues)
      /\ AttemptFits(a) /\ attempt \in [Searches -> Executions]
  BY <1>0 DEF XInv, Shapes
<1>2. attempt' = [attempt EXCEPT ![a] = w]
  BY <1>1 DEF FindNoMatch
<1>3. /\ w \in Executions /\ w.step = "posting" /\ w.task = attempt[a].task
      /\ w.version = attempt[a].version
  BY <1>1 DEF Executions
<1> HIDE DEF w
<1>4. AttemptFits(a)'
  <2>1. attempt'[a] = w /\ post' = post /\ issues' = issues /\ selecting' = selecting
    BY <1>0, <1>1, <1>2 DEF Frame, store, github
  <2> QED BY <1>0, <1>1, <1>3, <2>1 DEF AttemptFits
<1>5. ~overtaken => Containers = {}
  <2>1. attempt[a].found = {} /\ attempt[a].next > Len(issues) /\ attempt[a].next \in Nat
    BY <1>1 DEF FindNoMatch, Searched, Executions
  <2>2. \A i \in Containers : i < attempt[a].next
    BY <1>1, <2>1 DEF Containers
  <2> QED BY <1>0, <2>1, <2>2 DEF XInv, Contained
<1> QED BY <1>0, <1>2, <1>3, <1>4, <1>5, AttemptMoves

LEMMA CreateAnsweredKeeps ==
  ASSUME XInv, NEW a \in Searches, CreateAnswered(a)
  PROVE  XInv'
<1>0. UnderWay(a) /\ attempt[a].step = "posting" /\ UNCHANGED Frame /\ overtaken' = overtaken
      /\ post[a] = "landed" /\ overtaken \in BOOLEAN
  BY DEF CreateAnswered, UnderWay, Frame, store, github, XInv, Shapes, AttemptFits
<1>1. PICK i \in DOMAIN issues :
        /\ issues[i].by = a
        /\ attempt' = [attempt EXCEPT
             ![a].step = "chosen", ![a].decision = "create_distinct", ![a].issue = i]
  BY DEF CreateAnswered
<1> DEFINE w == [attempt[a] EXCEPT !.step = "chosen", !.decision = "create_distinct", !.issue = i]
<1>2. /\ attempt[a] \in Executions /\ issues \in Seq(Issues) /\ i \in Nat
      /\ AttemptFits(a) /\ attempt \in [Searches -> Executions]
  BY <1>0, <1>1 DEF XInv, Shapes
<1>3. attempt' = [attempt EXCEPT ![a] = w]
  BY <1>1, <1>2
<1>4. /\ w \in Executions /\ w.step = "chosen" /\ w.task = attempt[a].task /\ w.issue = i
      /\ w.decision = "create_distinct" /\ w.version = attempt[a].version
  BY <1>2 DEF Executions, Decisions
<1> HIDE DEF w
<1>5. AttemptFits(a)'
  <2>1. attempt'[a] = w /\ post' = post /\ issues' = issues /\ selecting' = selecting
    BY <1>0, <1>2, <1>3 DEF Frame, store, github
  <2> QED BY <1>0, <1>1, <1>2, <1>4, <2>1 DEF AttemptFits
<1> QED BY <1>0, <1>3, <1>4, <1>5, AttemptMoves

-----------------------------------------------------------------------------
(* The steps that change more than one execution.                          *)

LEMMA CreateIssueKeeps ==
  ASSUME XInv, NEW a \in Searches, CreateIssue(a)
  PROVE  XInv'
<1>0. /\ AttemptFits(a) /\ attempt[a].step = "posting" /\ UnderWay(a)
      /\ post[a] = "none" /\ post' = [post EXCEPT ![a] = "sent"]
      /\ post \in [Searches -> {"none", "sent", "landed", "lost"}]
      /\ UNCHANGED <<issues, edits, selecting, receipt, reopened, retired, bound, attempt, verified,
                     overtaken>>
  BY DEF XInv, Shapes, CreateIssue, UnderWay, github, store
<1>2. post'[a] = "sent" /\ \A b \in Searches : b # a => post'[b] = post[b]
  BY <1>0
<1>3. Shapes'
  BY <1>0 DEF XInv, Shapes
<1>4. \A b \in Searches : AttemptFits(b)'
  BY <1>0, <1>2 DEF XInv, AttemptFits
<1>5. PostsFit'
  <2>1. \A i \in DOMAIN issues : issues[i].by # a
    BY <1>0 DEF XInv, PostsFit
  <2> QED BY <1>0, <1>2, <2>1 DEF XInv, PostsFit
<1>6. \A t \in Tasks : ReceiptFits(t)'
  BY <1>0 DEF XInv, ReceiptFits, Selected
<1>7. LeaseFits' /\ ReceiptsDiffer' /\ BindingsFit'
  BY <1>0 DEF XInv, LeaseFits, ReceiptsDiffer, BindingsFit, Selected
<1>8. Contained'
  <2> SUFFICES ASSUME ~overtaken PROVE Contained'
    BY <1>0 DEF Contained
  <2>1. Contained /\ Containers' = Containers
    BY <1>0 DEF XInv, Containers
  <2>2. Containers = {}
    BY <1>0, <2>1 DEF Contained
  <2>3. ASSUME NEW b \in Searches PROVE Alone(b)'
    <3>1. UnderWay(b)' \/ post'[b] = "sent" => UnderWay(b) \/ post[b] = "sent"
      BY <1>0, <1>2 DEF UnderWay
    <3> QED BY <1>0, <2>1, <3>1 DEF Contained, Alone
  <2>4. ASSUME NEW b \in Searches, post'[b] = "sent"
        PROVE  attempt'[b].step # "releasing"
    BY <1>0, <1>2, <2>1, <2>4 DEF Contained
  <2> QED BY <1>0, <2>1, <2>2, <2>3, <2>4 DEF Contained
<1> QED BY <1>3, <1>4, <1>5, <1>6, <1>7, <1>8 DEF XInv

LEMMA BeginKeeps ==
  ASSUME XInv, NEW a \in Searches, NEW t \in Tasks, NEW c \in Coordinators,
         NEW d \in Reopens \cup {NoReopen}, BeginIssueSelection(a, t, c, d)
  PROVE  XInv'
<1> DEFINE v == selecting.version + 1
           w == [Unstarted EXCEPT !.step = "searching", !.task = t, !.by = c, !.reopen = d,
                                  !.version = v]
           l == [state |-> "selecting", owner |-> a, task |-> t, version |-> v, lapsed |-> FALSE]
<1>0. /\ attempt[a].step = "idle" /\ Free /\ issues \in Seq(Issues) /\ AttemptFits(a)
      /\ attempt \in [Searches -> Executions] /\ selecting \in Leases
      /\ attempt' = [attempt EXCEPT ![a] = w] /\ selecting' = l
      /\ UNCHANGED <<issues, edits, post, receipt, reopened, retired, bound, verified, overtaken>>
  BY DEF XInv, Shapes, BeginIssueSelection, github, store
<1>v. v \in Nat /\ selecting.version \in Nat /\ selecting.version < v
  BY <1>0 DEF Leases
<1>l. /\ l \in Leases /\ l.state = "selecting" /\ l.owner = a /\ l.version = v /\ l.lapsed = FALSE
  BY <1>v DEF Leases, Maker
<1>1. w \in Executions /\ w.step = "searching" /\ w.task = t /\ w.version = v /\ w.next = 1 /\ w.found = {}
  BY <1>v DEF Executions, Unstarted
<1> HIDE DEF w, l, v
<1>2. /\ attempt'[a] = w /\ post[a] = "none"
      /\ \A b \in Searches : b # a => attempt'[b] = attempt[b]
      /\ \A b \in Searches : attempt[b].step # "idle" => attempt'[b].step # "idle" /\ b # a
  BY <1>0, <1>1 DEF AttemptFits
<1>3. Shapes'
  BY <1>0, <1>1, <1>l DEF XInv, Shapes
<1>4. \A b \in Searches : AttemptFits(b)'
  <2>1. AttemptFits(a)'
    BY <1>0, <1>1, <1>2, <1>l, <1>v DEF AttemptFits
  <2>2. ASSUME NEW b \in Searches, b # a PROVE AttemptFits(b)'
    <3>1. attempt[b].version \in Nat /\ attempt[b].version <= selecting.version
      BY SelectingKnown
    <3>2. attempt'[b].version <= selecting'.version
      BY <1>0, <1>2, <1>l, <1>v, <2>2, <3>1
    <3> QED BY <1>0, <1>2, <2>2, <3>2 DEF XInv, AttemptFits
  <2> QED BY <2>1, <2>2
<1>5. PostsFit'
  BY <1>0 DEF XInv, PostsFit
<1>6. \A u \in Tasks : ReceiptFits(u)'
  <2> SUFFICES ASSUME NEW u \in Tasks, Selected(u) PROVE ReceiptFits(u)'
    BY <1>0 DEF ReceiptFits, Selected
  <2>1. ReceiptFits(u) /\ receipt[u].version \in Nat
    BY DEF XInv, Shapes, Receipts
  <2>2. receipt[u].version < selecting'.version
    BY <1>0, <1>v, <1>l, <2>1 DEF ReceiptFits
  <2> QED BY <1>0, <1>2, <2>1, <2>2 DEF ReceiptFits, Selected
<1>7. ReceiptsDiffer' /\ BindingsFit'
  BY <1>0 DEF XInv, ReceiptsDiffer, BindingsFit, Selected
<1>9. LeaseFits'
  BY <1>0, <1>l, SelectionAssumption DEF LeaseFits
<1>8. Contained'
  <2> SUFFICES ASSUME ~overtaken PROVE Contained'
    BY <1>0 DEF Contained
  <2>1. Contained /\ Containers' = Containers
    BY <1>0 DEF XInv, Containers
  <2>2. ASSUME NEW b \in Searches PROVE ~UnderWay(b) /\ post[b] # "sent"
    BY <1>0, <2>1 DEF Contained, Alone, Free
  <2>3. ASSUME NEW b \in Searches PROVE Alone(b)'
    BY <1>0, <1>2, <1>l, <2>2 DEF Alone, UnderWay
  <2>4. ASSUME NEW b \in Searches, attempt'[b].step = "searching"
        PROVE  \A i \in Containers : i < attempt'[b].next => \E f \in attempt'[b].found : f.issue = i
    <3>1. b = a
      BY <1>2, <2>2, <2>4 DEF UnderWay
    <3>2. \A i \in Containers : i \in Nat /\ i >= 1
      BY <1>0 DEF Containers
    <3> QED BY <1>1, <1>2, <3>1, <3>2
  <2>5. ASSUME NEW b \in Searches PROVE attempt'[b].step # "posting"
    BY <1>1, <1>2, <2>2 DEF UnderWay
  <2> QED BY <1>0, <2>1, <2>2, <2>3, <2>4, <2>5 DEF Contained
<1> QED BY <1>3, <1>4, <1>5, <1>6, <1>7, <1>8, <1>9 DEF XInv

LEMMA ReleaseKeeps ==
  ASSUME XInv, NEW a \in Searches, ReleaseIssueSelection(a)
  PROVE  XInv'
<1> DEFINE v == selecting.version + 1
           w == [Unstarted EXCEPT !.step = "over", !.task = attempt[a].task]
           l == [selecting EXCEPT !.state = "available", !.owner = NoAttempt,
                                  !.version = v, !.lapsed = FALSE]
<1>0. /\ attempt[a].step = "releasing" /\ UnderWay(a) /\ issues \in Seq(Issues) /\ AttemptFits(a)
      /\ attempt \in [Searches -> Executions] /\ attempt[a] \in Executions /\ selecting \in Leases
      /\ attempt' = [attempt EXCEPT ![a] = w]
      /\ UNCHANGED <<issues, edits, post, receipt, reopened, retired, bound, verified, overtaken>>
  BY DEF XInv, Shapes, ReleaseIssueSelection, github, Over, UnderWay
<1>1. CASE ~Fenced(a)
  <2>1. UNCHANGED <<Frame, overtaken>> /\ Over(a)
    BY <1>1 DEF ReleaseIssueSelection, Frame, store, github
  <2> QED BY <1>0, <2>1, OverKeeps
<1>2. CASE Fenced(a)
  <2>1. /\ selecting' = l /\ selecting.version \in Nat /\ selecting.state = "selecting" /\ selecting.owner = a
    BY <1>0, <1>2 DEF ReleaseIssueSelection, Fenced, Leases
  <2>n. v \in Nat /\ v = selecting.version + 1 /\ v - 1 = selecting.version
    BY <2>1
  <2> HIDE DEF v
  <2>l. /\ l \in Leases /\ l.state = "available" /\ l.owner = NoAttempt
        /\ l.version = v
    BY <1>0, <2>n DEF Leases, Maker
  <2>w. w \in Executions /\ w.step = "over" /\ w.task = attempt[a].task /\ w.version = 0
    BY <1>0, UnstartedIs DEF Executions, Unstarted
  <2> HIDE DEF w, l
  <2>2. /\ attempt'[a] = w
        /\ \A b \in Searches : b # a => attempt'[b] = attempt[b]
        /\ \A b \in Searches : attempt'[b].task = attempt[b].task
        /\ \A b \in Searches : attempt[b].step # "idle" => attempt'[b].step # "idle"
    BY <1>0, <2>w
  <2>v. /\ selecting'.version \in Nat /\ selecting.version < selecting'.version
    BY <2>1, <2>l, <2>n
  <2>3. Shapes'
    BY <1>0, <2>1, <2>w, <2>l DEF XInv, Shapes
  <2>4. \A b \in Searches : AttemptFits(b)'
    <3>1. AttemptFits(a)'
      BY <1>0, <2>2, <2>w, <2>v DEF AttemptFits
    <3>2. ASSUME NEW b \in Searches, b # a PROVE AttemptFits(b)'
      <4>1. attempt[b].version \in Nat /\ attempt[b].version <= selecting.version /\ selecting.version \in Nat
        BY SelectingKnown
      <4>2. attempt'[b].version <= selecting'.version
        BY <2>2, <2>v, <3>2, <4>1
      <4> QED BY <1>0, <2>2, <3>2, <4>2 DEF XInv, AttemptFits
    <3> QED BY <3>1, <3>2
  <2>5. PostsFit'
    BY <1>0 DEF XInv, PostsFit
  <2>6. \A u \in Tasks : ReceiptFits(u)'
    <3> SUFFICES ASSUME NEW u \in Tasks, Selected(u) PROVE ReceiptFits(u)'
      BY <1>0 DEF ReceiptFits, Selected
    <3>1. ReceiptFits(u) /\ receipt[u].version \in Nat
      BY DEF XInv, Shapes, Receipts
    <3>2. receipt[u].version < selecting'.version
      BY <2>1, <2>v, <3>1 DEF ReceiptFits
    <3> QED BY <1>0, <2>2, <3>1, <3>2 DEF ReceiptFits, Selected
  <2>7. ReceiptsDiffer' /\ BindingsFit' /\ LeaseFits'
    BY <1>0, <2>1, <2>l DEF XInv, ReceiptsDiffer, BindingsFit, LeaseFits, Selected
  <2>8. Contained'
    <3> SUFFICES ASSUME ~overtaken PROVE Contained'
      BY <1>0 DEF Contained
    <3>1. Contained /\ Containers' = Containers
      BY <1>0 DEF XInv, Containers
    <3>2. ASSUME NEW b \in Searches, UnderWay(b) \/ post[b] = "sent" PROVE b = a /\ post[a] # "sent"
      BY <1>0, <2>1, <3>1, <3>2 DEF Contained, Alone
    <3>3. ASSUME NEW b \in Searches PROVE ~UnderWay(b)' /\ post'[b] # "sent"
      BY <1>0, <2>2, <2>w, <3>2 DEF UnderWay
    <3>4. ASSUME NEW b \in Searches
          PROVE  attempt'[b].step \notin {"searching", "posting"} /\ Alone(b)'
      BY <3>3 DEF UnderWay, Alone
    <3> QED BY <3>1, <3>3, <3>4 DEF Contained
  <2> QED BY <2>3, <2>4, <2>5, <2>6, <2>7, <2>8 DEF XInv
<1> QED BY <1>1, <1>2

LEMMA CompleteKeeps ==
  ASSUME XInv, NEW a \in Searches, CompleteIssueSelection(a)
  PROVE  XInv'
<1>k. attempt[a].task \in Tasks
  BY DEF XInv, AttemptFits, CompleteIssueSelection
<1> PICK k \in Tasks : k = attempt[a].task
  BY <1>k
<1> DEFINE v == selecting.version + 1
           w == [Unstarted EXCEPT !.step = "over", !.task = k]
           l == [selecting EXCEPT !.state = "completed", !.owner = NoAttempt,
                                  !.version = v, !.lapsed = FALSE]
           r == [issue |-> attempt[a].issue, decision |-> attempt[a].decision,
                 version |-> attempt[a].version, reopen |-> attempt[a].reopen]
<1>0. /\ attempt[a].step = "chosen" /\ UnderWay(a) /\ issues \in Seq(Issues) /\ AttemptFits(a)
      /\ attempt \in [Searches -> Executions] /\ attempt[a] \in Executions /\ selecting \in Leases
      /\ receipt \in [Tasks -> Receipts] /\ k \in Tasks /\ post[a] # "sent" /\ overtaken \in BOOLEAN
      /\ UNCHANGED <<issues, edits, post, reopened, retired, bound, verified, overtaken>>
  BY DEF XInv, Shapes, CompleteIssueSelection, github, UnderWay, AttemptFits
<1>1. CASE ~MayComplete(a)
  <2>1. UNCHANGED Frame /\ Abandon(a) /\ overtaken' = overtaken
    BY <1>1 DEF CompleteIssueSelection, Frame, store, github
  <2> QED BY <1>0, <2>1, AbandonKeeps
<1>2. CASE MayComplete(a)
  <2>1. /\ selecting' = l /\ receipt' = [receipt EXCEPT ![k] = r] /\ attempt' = [attempt EXCEPT ![a] = w]
        /\ selecting.version \in Nat /\ selecting.state = "selecting" /\ selecting.owner = a
        /\ attempt[a].version = selecting.version /\ receipt[k] = NoReceipt
    BY <1>0, <1>2 DEF CompleteIssueSelection, MayComplete, HoldsLease, Fenced, Leases, Over
  <2>n. v \in Nat /\ v = selecting.version + 1 /\ v - 1 = selecting.version
    BY <2>1
  <2> HIDE DEF v
  <2>l. /\ l \in Leases /\ l.state = "completed" /\ l.owner = NoAttempt
        /\ l.version = v
    BY <1>0, <2>n DEF Leases, Maker
  <2>w. w \in Executions /\ w.step = "over" /\ w.task = k /\ w.version = 0
    BY <1>0, UnstartedIs DEF Executions, Unstarted
  <2>r. /\ r \in Receipts /\ r.issue = attempt[a].issue /\ r.decision = attempt[a].decision
        /\ r.version = selecting.version /\ r.reopen = attempt[a].reopen /\ r # NoReceipt
    BY <1>0, <2>1 DEF Receipts, Executions, AttemptFits, NoReceipt
  <2> HIDE DEF w, l, r
  <2>2. /\ attempt'[a] = w /\ receipt'[k] = r
        /\ \A b \in Searches : b # a => attempt'[b] = attempt[b]
        /\ \A b \in Searches : attempt'[b].task = attempt[b].task
        /\ \A b \in Searches : attempt[b].step # "idle" => attempt'[b].step # "idle"
        /\ \A u \in Tasks : u # k => receipt'[u] = receipt[u]
        /\ \A u \in Tasks : Selected(u)' <=> Selected(u) \/ u = k
        /\ ~Selected(k)
    BY <1>0, <2>1, <2>w, <2>r DEF Selected
  <2>v. /\ selecting'.version \in Nat /\ selecting.version < selecting'.version
        /\ selecting'.version - 1 = selecting.version
    BY <2>1, <2>l, <2>n
  <2>3. Shapes'
    BY <1>0, <2>1, <2>w, <2>l, <2>r DEF XInv, Shapes
  <2>4. \A b \in Searches : AttemptFits(b)'
    <3>1. AttemptFits(a)'
      BY <1>0, <2>2, <2>w, <2>v DEF AttemptFits
    <3>2. ASSUME NEW b \in Searches, b # a PROVE AttemptFits(b)'
      <4>1. attempt[b].version \in Nat /\ attempt[b].version <= selecting.version /\ selecting.version \in Nat
        BY SelectingKnown
      <4>2. attempt'[b].version <= selecting'.version
        BY <2>2, <2>v, <3>2, <4>1
      <4> QED BY <1>0, <2>2, <3>2, <4>2 DEF XInv, AttemptFits
    <3> QED BY <3>1, <3>2
  <2>5. PostsFit'
    BY <1>0 DEF XInv, PostsFit
  <2>6. \A u \in Tasks : ReceiptFits(u)'
    <3>1. ASSUME NEW u \in Tasks, Selected(u), u # k PROVE ReceiptFits(u)'
      <4>1. ReceiptFits(u) /\ receipt[u].version \in Nat
        BY DEF XInv, Shapes, Receipts
      <4>2. receipt[u].version < selecting'.version
        BY <2>1, <2>v, <3>1, <4>1 DEF ReceiptFits
      <4> QED BY <1>0, <2>2, <3>1, <4>1, <4>2 DEF ReceiptFits, Selected
    <3>2. ReceiptFits(k)'
      <4>1. r.issue \in DOMAIN issues /\ r.version < selecting'.version
        BY <1>0, <2>r, <2>v DEF AttemptFits
      <4>2. r.decision = "reopen_closed" => r.reopen \in Reopens /\ reopened[r.reopen] = r.issue
        BY <1>0, <1>2, <2>r DEF MayComplete, Authorizes, Receipts
      <4>3. r.decision = "create_distinct" => issues[r.issue].by = a
        BY <1>0, <2>r DEF AttemptFits
      <4> QED BY <1>0, <2>2, <4>1, <4>2, <4>3 DEF ReceiptFits
    <3> QED BY <2>2, <3>1, <3>2 DEF ReceiptFits
  <2>7. ReceiptsDiffer'
    <3>1. ASSUME NEW u \in Tasks, Selected(u), u # k
          PROVE  /\ receipt[u].version # r.version
                 /\ receipt[u].reopen = r.reopen => r.reopen = NoReopen
      <4>1. ReceiptFits(u) /\ receipt[u].version \in Nat
        BY DEF XInv, Shapes, Receipts
      <4>2. receipt[u].version < r.version
        BY <2>r, <3>1, <4>1 DEF ReceiptFits
      <4>3. receipt[u].reopen = attempt[a].reopen => attempt[a].reopen = NoReopen
        BY <1>2, <3>1 DEF MayComplete, Unused
      <4> QED BY <2>1, <2>r, <4>1, <4>2, <4>3
    <3> QED BY <2>2, <3>1 DEF XInv, ReceiptsDiffer
  <2>8. BindingsFit'
    BY <1>0, <2>2 DEF XInv, BindingsFit, Shapes
  <2>9. LeaseFits'
    BY <1>0, <2>1, <2>2, <2>l, <2>r, <2>v DEF LeaseFits
  <2>10. Contained'
    <3> SUFFICES ASSUME ~overtaken PROVE Contained'
      BY <1>0 DEF Contained
    <3>1. Contained /\ Containers' = Containers
      BY <1>0 DEF XInv, Containers
    <3>2. ASSUME NEW b \in Searches, UnderWay(b) \/ post[b] = "sent" PROVE b = a /\ post[a] # "sent"
      BY <1>0, <2>1, <3>1, <3>2 DEF Contained, Alone
    <3>3. ASSUME NEW b \in Searches PROVE ~UnderWay(b)' /\ post'[b] # "sent"
      BY <1>0, <2>2, <2>w, <3>2 DEF UnderWay
    <3>4. ASSUME NEW b \in Searches
          PROVE  attempt'[b].step \notin {"searching", "posting"} /\ Alone(b)'
      BY <3>3 DEF UnderWay, Alone
    <3> QED BY <3>1, <3>3, <3>4 DEF Contained
  <2> QED BY <2>3, <2>4, <2>5, <2>6, <2>7, <2>8, <2>9, <2>10 DEF XInv
<1> QED BY <1>1, <1>2

LEMMA LapseKeeps ==
  ASSUME XInv, LeaseLapses
  PROVE  XInv'
<1> DEFINE l == [selecting EXCEPT !.lapsed = TRUE]
<1>0. /\ selecting.state = "selecting" /\ selecting \in Leases /\ selecting' = l
      /\ selecting.owner \in Searches /\ overtaken \in BOOLEAN
      /\ overtaken' = (overtaken \/ UnderWay(selecting.owner) \/ post[selecting.owner] = "sent")
      /\ UNCHANGED <<issues, edits, post, receipt, reopened, retired, bound, verified, attempt>>
  BY DEF XInv, Shapes, LeaseFits, Leases, Maker, LeaseLapses, github
<1>1. /\ l \in Leases /\ l.state = selecting.state /\ l.owner = selecting.owner
      /\ l.version = selecting.version
  BY <1>0 DEF Leases
<1> HIDE DEF l
<1>2. Shapes'
  BY <1>0, <1>1 DEF XInv, Shapes
<1>3. \A b \in Searches : AttemptFits(b)'
  BY <1>0, <1>1 DEF XInv, AttemptFits
<1>4. PostsFit' /\ ReceiptsDiffer' /\ BindingsFit' /\ LeaseFits'
  BY <1>0, <1>1 DEF XInv, PostsFit, ReceiptsDiffer, BindingsFit, LeaseFits, Selected
<1>5. \A u \in Tasks : ReceiptFits(u)'
  BY <1>0, <1>1 DEF XInv, ReceiptFits, Selected
<1>6. Contained'
  <2> SUFFICES ASSUME ~overtaken' PROVE Contained'
    BY DEF Contained
  <2>1. Contained /\ Containers' = Containers /\ ~overtaken
        /\ ~UnderWay(selecting.owner) /\ post[selecting.owner] # "sent"
    BY <1>0 DEF XInv, Containers
  <2>2. ASSUME NEW b \in Searches PROVE ~UnderWay(b)' /\ post'[b] # "sent"
    BY <1>0, <2>1 DEF UnderWay, Contained, Alone
  <2>3. ASSUME NEW b \in Searches
        PROVE  attempt'[b].step \notin {"searching", "posting"} /\ Alone(b)'
    BY <2>2 DEF UnderWay, Alone
  <2> QED BY <2>1, <2>2, <2>3 DEF Contained
<1> QED BY <1>2, <1>3, <1>4, <1>5, <1>6 DEF XInv

\* What moves on in the tables of the other commands.
LEMMA TablesKeep ==
  ASSUME XInv,
         \/ \E t \in Tasks : Verify(t) \/ InsertIssueBinding(t)
         \/ \E d \in Reopens, i \in DOMAIN issues : SettleReopen(d, i)
         \/ \E c \in Coordinators : RetireCoordinator(c)
  PROVE  XInv'
<1>0. /\ UNCHANGED <<issues, edits, post, selecting, receipt, attempt, overtaken>>
      /\ issues \in Seq(Issues) /\ receipt \in [Tasks -> Receipts]
  BY DEF XInv, Shapes, Verify, InsertIssueBinding, SettleReopen, RetireCoordinator, github, store
<1>1. /\ retired' \subseteq Coordinators /\ verified' \subseteq Tasks
      /\ bound' \in [Tasks -> Nat] /\ reopened' \in [Reopens -> Nat]
  <2>1. \A t \in Tasks : receipt[t].issue \in Nat
    BY <1>0 DEF Receipts
  <2>2. DOMAIN issues \subseteq Nat
    BY <1>0
  <2> QED
    BY <2>1, <2>2 DEF XInv, Shapes, Verify, InsertIssueBinding, SettleReopen, RetireCoordinator, github, store
<1>2. Shapes'
  BY <1>0, <1>1 DEF XInv, Shapes
<1>3. \A b \in Searches : AttemptFits(b)'
  BY <1>0 DEF XInv, AttemptFits
<1>4. PostsFit' /\ ReceiptsDiffer' /\ LeaseFits' /\ Contained'
  BY <1>0 DEF XInv, PostsFit, ReceiptsDiffer, LeaseFits, Selected, Contained, Containers, Alone, UnderWay
<1>5. \A d \in Reopens : reopened[d] # 0 => reopened'[d] = reopened[d]
  BY DEF XInv, Shapes, Verify, InsertIssueBinding, SettleReopen, RetireCoordinator, store
<1>6. \A u \in Tasks : ReceiptFits(u)'
  <2>1. ASSUME NEW u \in Tasks, Selected(u), receipt[u].decision = "reopen_closed"
        PROVE  reopened'[receipt[u].reopen] = receipt[u].issue
    BY <1>0, <1>5, <2>1 DEF XInv, ReceiptFits
  <2> QED BY <1>0, <2>1 DEF XInv, ReceiptFits, Selected
<1>7. BindingsFit'
  <2>1. ASSUME NEW d \in Reopens, reopened'[d] # 0 PROVE reopened'[d] \in DOMAIN issues
    BY <2>1 DEF XInv, Shapes, BindingsFit, Verify, InsertIssueBinding, SettleReopen, RetireCoordinator, store
  <2>2. ASSUME NEW t \in verified' PROVE Selected(t)
    BY <2>2 DEF XInv, BindingsFit, Verify, InsertIssueBinding, SettleReopen, RetireCoordinator, store, Selected
  <2>3. ASSUME NEW t \in Tasks, bound'[t] # 0 PROVE Selected(t) /\ bound'[t] = receipt[t].issue
    BY <2>3 DEF XInv, Shapes, BindingsFit, Verify, InsertIssueBinding, SettleReopen, RetireCoordinator, store
  <2> QED BY <1>0, <2>1, <2>2, <2>3 DEF BindingsFit, Selected
<1> QED BY <1>2, <1>3, <1>4, <1>6, <1>7 DEF XInv

\* GitHub moves on: an issue keeps who made it, and none gets the text.
LEMMA GitHubMoves ==
  ASSUME XInv, issues' \in Seq(Issues), edits' \in 0..MaxEdits,
         Len(issues) <= Len(issues'),
         \A i \in DOMAIN issues : issues'[i].by = issues[i].by,
         \A i \in DOMAIN issues : issues'[i].says = "exact" => issues[i].says = "exact",
         \A i \in DOMAIN issues' \ DOMAIN issues : issues'[i].by = NoAttempt,
         UNCHANGED <<post, store, attempt, verified, overtaken>>
  PROVE  XInv'
<1>0. /\ issues \in Seq(Issues) /\ DOMAIN issues = 1..Len(issues) /\ DOMAIN issues' = 1..Len(issues')
      /\ Len(issues) \in Nat /\ Len(issues') \in Nat
  BY DEF XInv, Shapes
<1>1. DOMAIN issues \subseteq DOMAIN issues'
  BY <1>0
<1>2. Shapes'
  BY DEF XInv, Shapes, store
<1>3. \A b \in Searches : AttemptFits(b)'
  <2> SUFFICES ASSUME NEW b \in Searches PROVE AttemptFits(b)'
    OBVIOUS
  <2>1. attempt[b].next \in 1..(Len(issues) + 1) => attempt[b].next \in 1..(Len(issues') + 1)
    BY <1>0
  <2> QED BY <1>1, <2>1 DEF XInv, AttemptFits, store
<1>4. PostsFit'
  BY <1>1, SelectionAssumption DEF XInv, PostsFit
<1>5. ReceiptsDiffer' /\ LeaseFits'
  BY DEF XInv, ReceiptsDiffer, LeaseFits, Selected, store
<1>6. BindingsFit'
  BY <1>1 DEF XInv, BindingsFit, Selected, store
<1>7. \A u \in Tasks : ReceiptFits(u)'
  BY <1>1 DEF XInv, ReceiptFits, Selected, store
<1>8. Containers' \subseteq Containers
  BY SelectionAssumption DEF Containers
<1>9. Contained'
  <2> SUFFICES ASSUME ~overtaken PROVE Contained'
    BY DEF Contained
  <2>1. Contained /\ UNCHANGED <<post, attempt, selecting>>
    BY DEF XInv, store
  <2>2. \A b \in Searches : Alone(b)'
    BY <2>1 DEF Contained, Alone, UnderWay
  <2> QED BY <1>8, <2>1, <2>2 DEF Contained
<1> QED BY <1>2, <1>3, <1>4, <1>5, <1>6, <1>7, <1>9 DEF XInv

LEMMA PeopleKeep ==
  ASSUME XInv, People
  PROVE  XInv'
<1>0. /\ issues \in Seq(Issues) /\ DOMAIN issues = 1..Len(issues) /\ Len(issues) \in Nat
      /\ UNCHANGED <<post, store, attempt, verified, overtaken>>
  BY DEF XInv, Shapes, People
<1>1. edits' \in 0..MaxEdits
  BY SelectionAssumption DEF XInv, Shapes, People
<1>2. ASSUME NEW says \in {"exact", "incomplete"},
             issues' = Append(issues, [open |-> TRUE, says |-> says, by |-> NoAttempt])
      PROVE  XInv'
  <2> DEFINE x == [open |-> TRUE, says |-> says, by |-> NoAttempt]
  <2>1. x \in Issues /\ x.by = NoAttempt
    BY DEF Issues, Sayings, Maker
  <2> HIDE DEF x
  <2>2. /\ issues' = Append(issues, x) /\ issues' \in Seq(Issues) /\ Len(issues') = Len(issues) + 1
        /\ \A i \in 1..Len(issues) : issues'[i] = issues[i]
        /\ issues'[Len(issues) + 1] = x /\ DOMAIN issues' = 1..(Len(issues) + 1)
    BY <1>0, <1>2, <2>1 DEF x
  <2>3. \A i \in DOMAIN issues' \ DOMAIN issues : issues'[i].by = NoAttempt
    BY <1>0, <2>1, <2>2
  <2> QED BY <1>0, <1>1, <2>2, <2>3, GitHubMoves
<1>3. ASSUME NEW i \in DOMAIN issues, issues' = [issues EXCEPT ![i].open = ~@]
      PROVE  XInv'
  <2>0. issues[i] \in Issues
    BY <1>0
  <2> DEFINE x == [issues[i] EXCEPT !.open = ~issues[i].open]
  <2>1. x \in Issues /\ x.by = issues[i].by /\ x.says = issues[i].says
    BY <2>0 DEF Issues
  <2>2. issues' = [issues EXCEPT ![i] = x]
    BY <1>0, <1>3
  <2> HIDE DEF x
  <2>3. /\ issues' \in Seq(Issues) /\ Len(issues') = Len(issues) /\ DOMAIN issues' = DOMAIN issues
        /\ \A j \in DOMAIN issues : issues'[j] = IF j = i THEN x ELSE issues[j]
    BY <1>0, <2>1, <2>2
  <2> QED BY <1>0, <1>1, <2>1, <2>3, GitHubMoves
<1>4. ASSUME NEW i \in DOMAIN issues, issues' = [issues EXCEPT ![i].says = "other"]
      PROVE  XInv'
  <2>0. issues[i] \in Issues
    BY <1>0
  <2> DEFINE x == [issues[i] EXCEPT !.says = "other"]
  <2>1. x \in Issues /\ x.by = issues[i].by /\ x.says = "other"
    BY <2>0 DEF Issues, Sayings
  <2>2. issues' = [issues EXCEPT ![i] = x]
    BY <1>0, <1>4
  <2> HIDE DEF x
  <2>3. /\ issues' \in Seq(Issues) /\ Len(issues') = Len(issues) /\ DOMAIN issues' = DOMAIN issues
        /\ \A j \in DOMAIN issues : issues'[j] = IF j = i THEN x ELSE issues[j]
    BY <1>0, <2>1, <2>2
  <2> QED BY <1>0, <1>1, <2>1, <2>3, GitHubMoves
<1> QED BY <1>2, <1>3, <1>4 DEF People

LEMMA PostLandsKeeps ==
  ASSUME XInv, NEW a \in Searches, PostLands(a)
  PROVE  XInv'
<1> DEFINE x == [open |-> TRUE, says |-> "exact", by |-> a]
           n == Len(issues) + 1
<1>0. /\ issues \in Seq(Issues) /\ Len(issues) \in Nat /\ DOMAIN issues = 1..Len(issues)
      /\ post \in [Searches -> {"none", "sent", "landed", "lost"}] /\ post[a] = "sent"
      /\ post' = [post EXCEPT ![a] = "landed"] /\ issues' = Append(issues, x)
      /\ UNCHANGED <<edits, selecting, receipt, reopened, retired, bound, attempt, verified, overtaken>>
  BY DEF XInv, Shapes, PostLands, store
<1>1. x \in Issues /\ x.by = a
  BY DEF Issues, Sayings, Maker
<1> HIDE DEF x
<1>2. /\ issues' \in Seq(Issues) /\ DOMAIN issues' = 1..n /\ issues'[n] = x /\ Len(issues') = n
      /\ \A i \in DOMAIN issues : issues'[i] = issues[i]
      /\ \A i \in DOMAIN issues' : i \in DOMAIN issues \/ i = n
      /\ DOMAIN issues \subseteq DOMAIN issues' /\ n \notin DOMAIN issues
      /\ n \in Nat /\ \A m \in 1..n : m \in 1..(n + 1)
  BY <1>0, <1>1
<1> HIDE DEF n
<1>3. post'[a] = "landed" /\ \A b \in Searches : b # a => post'[b] = post[b]
  BY <1>0
<1>4. Shapes'
  BY <1>0, <1>2 DEF XInv, Shapes
<1>5. \A b \in Searches : AttemptFits(b)'
  <2> SUFFICES ASSUME NEW b \in Searches PROVE AttemptFits(b)'
    OBVIOUS
  <2>1. AttemptFits(b)
    BY DEF XInv
  <2>2. attempt[b].next \in 1..(Len(issues) + 1) => attempt[b].next \in 1..(Len(issues') + 1)
    BY <1>0, <1>2 DEF n
  <2>3. attempt[b].step \in {"idle", "searching", "chosen"} => b # a
    BY <1>0, <2>1 DEF AttemptFits
  <2> QED BY <1>0, <1>2, <1>3, <2>1, <2>2, <2>3 DEF AttemptFits
<1>6. PostsFit'
  <2>1. \A i \in DOMAIN issues : issues[i].by # a
    BY <1>0 DEF XInv, PostsFit
  <2> QED BY <1>1, <1>2, <1>3, <2>1 DEF XInv, PostsFit
<1>7. ReceiptsDiffer' /\ LeaseFits' /\ BindingsFit'
  BY <1>0, <1>2 DEF XInv, ReceiptsDiffer, LeaseFits, BindingsFit, Selected
<1>8. \A u \in Tasks : ReceiptFits(u)'
  BY <1>0, <1>2 DEF XInv, ReceiptFits, Selected
<1>9. Contained'
  <2> SUFFICES ASSUME ~overtaken PROVE Contained'
    BY <1>0 DEF Contained
  <2>1. Contained /\ Containers = {} /\ Alone(a)
    BY <1>0 DEF XInv, Contained
  <2>2. Containers' \subseteq {n}
    BY <1>2, <2>1 DEF Containers
  <2>3. ASSUME NEW b \in Searches PROVE Alone(b)' /\ attempt[b].step # "searching"
    <3>1. UnderWay(b)' \/ post'[b] = "sent" => UnderWay(b) \/ post[b] = "sent"
      BY <1>0, <1>3 DEF UnderWay
    <3>2. Alone(b)
      BY <2>1 DEF Contained
    <3>3. UnderWay(b) => b = a
      BY <1>0, <2>1, <3>2 DEF Alone
    <3>4. attempt[a].step # "searching"
      BY <1>0 DEF XInv, AttemptFits
    <3> QED BY <1>0, <3>1, <3>2, <3>3, <3>4 DEF Alone, UnderWay
  <2>4. ASSUME NEW b \in Searches PROVE post'[b] # "sent"
    BY <1>0, <1>3, <2>1 DEF Contained, Alone
  <2>5. ASSUME NEW b \in Searches PROVE attempt[b].step = "posting" => post'[b] # "none"
    BY <1>0, <1>3, <2>1 DEF Contained, Alone, UnderWay
  <2> QED BY <1>0, <2>2, <2>3, <2>4, <2>5 DEF Contained
<1> QED BY <1>4, <1>5, <1>6, <1>7, <1>8, <1>9 DEF XInv

LEMMA PostIsLostKeeps ==
  ASSUME XInv, NEW a \in Searches, PostIsLost(a)
  PROVE  XInv'
<1>0. /\ post \in [Searches -> {"none", "sent", "landed", "lost"}] /\ post[a] = "sent"
      /\ post' = [post EXCEPT ![a] = "lost"] /\ post'[a] = "lost"
      /\ \A b \in Searches : b # a => post'[b] = post[b]
      /\ UNCHANGED <<issues, edits, selecting, receipt, reopened, retired, bound, attempt, verified, overtaken>>
  BY DEF XInv, Shapes, PostIsLost, store, github
<1>1. Shapes'
  BY <1>0 DEF XInv, Shapes
<1>2. \A b \in Searches : AttemptFits(b)'
  BY <1>0 DEF XInv, AttemptFits
<1>3. PostsFit'
  BY <1>0 DEF XInv, PostsFit
<1>4. ReceiptsDiffer' /\ LeaseFits' /\ BindingsFit'
  BY <1>0 DEF XInv, ReceiptsDiffer, LeaseFits, BindingsFit, Selected
<1>5. \A u \in Tasks : ReceiptFits(u)'
  BY <1>0 DEF XInv, ReceiptFits, Selected
<1>6. Contained'
  BY <1>0 DEF XInv, Contained, Containers, Alone, UnderWay
<1> QED BY <1>1, <1>2, <1>3, <1>4, <1>5, <1>6 DEF XInv

LEMMA XInvNext ==
  ASSUME XInv, [SelectionNext]_selectionVars
  PROVE  XInv'
<1>0. overtaken \in BOOLEAN
  BY DEF XInv, Shapes
<1>1. ASSUME NEW a \in Searches, SearchFails(a) PROVE XInv'
  <2>1. /\ UnderWay(a) /\ Abandon(a) /\ UNCHANGED Frame /\ overtaken' = overtaken /\ post[a] # "sent"
    BY <1>1 DEF SearchFails, UnderWay, Frame, github, store, XInv, AttemptFits
  <2> QED BY <1>0, <2>1, AbandonKeeps
<1>2. ASSUME NEW a \in Searches, CreateFails(a) PROVE XInv'
  <2>1. /\ UnderWay(a) /\ Abandon(a) /\ UNCHANGED Frame /\ overtaken' = (overtaken \/ post[a] = "sent")
    BY <1>2 DEF CreateFails, UnderWay, Frame, github, store
  <2> QED BY <1>0, <2>1, AbandonKeeps
<1>3. ASSUME NEW a \in Searches, CommandDies(a) PROVE XInv'
  <2>1. /\ UnderWay(a) /\ Over(a) /\ UNCHANGED <<Frame, overtaken>>
    BY <1>3 DEF CommandDies, Frame, github, store
  <2> QED BY <2>1, OverKeeps
<1>4. CASE UNCHANGED selectionVars
  <2>1. UNCHANGED <<issues, edits, post, selecting, receipt, reopened, retired, attempt, verified, bound, overtaken>>
    BY <1>4 DEF selectionVars
  <2>2. Shapes' /\ PostsFit' /\ BindingsFit'
    BY <2>1 DEF XInv, Shapes, PostsFit, BindingsFit, Selected
  <2>3. \A b \in Searches : AttemptFits(b)'
    BY <2>1 DEF XInv, AttemptFits
  <2>4. ReceiptsDiffer' /\ LeaseFits'
    BY <2>1 DEF XInv, ReceiptsDiffer, LeaseFits, Selected
  <2>5. \A u \in Tasks : ReceiptFits(u)'
    BY <2>1 DEF XInv, ReceiptFits, Selected
  <2>6. Contained'
    BY <2>1 DEF XInv, Contained, Containers, Alone, UnderWay
  <2> QED BY <2>2, <2>3, <2>4, <2>5, <2>6 DEF XInv
<1>5. ASSUME NEW a \in Searches,
             \/ Look(a) \/ ChooseMatch(a) \/ FindNoMatch(a) \/ CreateIssue(a) \/ CreateAnswered(a)
             \/ CompleteIssueSelection(a) \/ ReleaseIssueSelection(a)
             \/ PostLands(a) \/ PostIsLost(a)
      PROVE  XInv'
  BY <1>5, LookKeeps, ChooseMatchKeeps, FindNoMatchKeeps, CreateIssueKeeps, CreateAnsweredKeeps,
     CompleteKeeps, ReleaseKeeps, PostLandsKeeps, PostIsLostKeeps
<1>6. ASSUME NEW a \in Searches, NEW t \in Tasks, NEW c \in Coordinators,
             NEW d \in Reopens \cup {NoReopen}, BeginIssueSelection(a, t, c, d)
      PROVE  XInv'
  BY <1>6, BeginKeeps
<1> QED BY <1>1, <1>2, <1>3, <1>4, <1>5, <1>6, TablesKeep, LapseKeeps, PeopleKeep DEF SelectionNext

-----------------------------------------------------------------------------
(* The theorems.                                                           *)

LEMMA XInvAlways == SelectionSpec => []XInv
<1>1. XInv /\ [SelectionNext]_selectionVars => XInv'
  BY XInvNext
<1> QED BY XInvInit, <1>1, PTL DEF SelectionSpec

\* The receipts of a scope are consistent with its lease, GitHub and the
\* actions, whatever overtakes whom (sqlite_issue_ops.py, issue_first.py).
THEOREM SelectionsAlwaysAgree == SelectionSpec => []SelectionsAgree
<1>1. ASSUME XInv PROVE SelectionsAgree
  <2>1. SelectionType
    <3>1. /\ DOMAIN issues = 1..Len(issues) /\ Len(issues) \in Nat
      BY <1>1 DEF XInv, Shapes
    <3>2. receipt \in [Tasks -> [issue : Numbers, version : Nat, reopen : Reopens \cup {NoReopen},
                         decision : {"none", "reuse_open", "reopen_closed", "create_distinct"}]]
      <4>1. ASSUME NEW t \in Tasks
            PROVE  receipt[t] \in [issue : Numbers, version : Nat, reopen : Reopens \cup {NoReopen},
                         decision : {"none", "reuse_open", "reopen_closed", "create_distinct"}]
        <5>1. receipt[t].issue \in Numbers
          BY <1>1, <3>1 DEF XInv, ReceiptFits, Selected, NoReceipt, Numbers
        <5> QED BY <1>1, <5>1 DEF XInv, Shapes, Receipts, Decisions
      <4> QED BY <1>1, <4>1 DEF XInv, Shapes
    <3>3. reopened \in [Reopens -> Numbers]
      BY <1>1, <3>1 DEF XInv, Shapes, BindingsFit, Numbers
    <3>4. bound \in [Tasks -> Numbers]
      BY <1>1, <3>1 DEF XInv, Shapes, BindingsFit, ReceiptFits, Numbers
    <3>5. \A a \in Searches :
            attempt[a].step \in {"idle", "searching", "posting", "chosen", "releasing", "over"}
      BY <1>1 DEF XInv, Shapes, Executions
    <3> QED BY <1>1, <3>2, <3>3, <3>4, <3>5 DEF XInv, Shapes, Issues, Leases, Sayings, SelectionType
  <2>2. \A t \in Tasks : Selected(t) =>
          /\ receipt[t].version < selecting.version
          /\ receipt[t].decision = "reopen_closed" => reopened[receipt[t].reopen] = receipt[t].issue
          /\ receipt[t].decision = "create_distinct" =>
               /\ issues[receipt[t].issue].by \in Searches
               /\ attempt[issues[receipt[t].issue].by].task = t
    BY <1>1 DEF XInv, ReceiptFits
  <2> QED BY <1>1, <2>1, <2>2 DEF XInv, LeaseFits, ReceiptsDiffer, BindingsFit, SelectionsAgree
<1> QED BY <1>1, XInvAlways, PTL

\* A scope gets one issue, however many attempts look for it, die or are
\* answered late, until a lease has ended over somebody (issue_first.py).
THEOREM OneContainerAlways == SelectionSpec => []OneContainer
<1>1. ASSUME XInv PROVE OneContainer
  <2> SUFFICES ASSUME ~overtaken PROVE Cardinality(Containers) <= 1
    BY DEF OneContainer
  <2>1. \A i, j \in Containers : i = j
    BY <1>1 DEF XInv, Contained
  <2>2. CASE Containers = {}
    BY <2>2, FS_EmptySet
  <2>3. CASE Containers # {}
    <3>1. PICK i \in Containers : TRUE
      BY <2>3
    <3>2. Containers = {i}
      BY <2>1, <3>1
    <3>3. Cardinality({i}) = 1
      BY FS_Singleton
    <3> QED BY <3>2, <3>3
  <2> QED BY <2>2, <2>3
<1> QED BY <1>1, XInvAlways, PTL

-----------------------------------------------------------------------------
(* Bootstrap.  Every step moves one agent on.  The baseline is durable     *)
(* before the first effect, so it names what the pane came with; the title *)
(* and the tokens of League come and go together; and an invocation that   *)
(* has not published has not touched the pane.                             *)

Routes == Callsigns \cup {NoRoute}

Seats == [state : {"none", "reserved", "active", "rolled_back"}, callsign : Routes]

Bases == [schema : {"none", "v1", "v2", "v3"}, route : Routes]

Selves == [version : Nat, retired : BOOLEAN, base : Bases, attempt : BOOLEAN, bound : BOOLEAN]

Panes == [route : Routes, shown : {"own", "league", "other", "refreshed"}, owner : {0} \cup Attempts,
          role : BOOLEAN, exact : BOOLEAN]

Later == {"base", "attempt", "check", "rename", "title", "stable", "record",
          "unroute", "untitle", "untoken", "rollback"}

Calls == [at : Later \cup {"idle", "reserve", "refresh"}, n : {0} \cup Attempts, seen : Routes, base : Bases,
          published : BOOLEAN, source : BOOLEAN, resumeRoute : BOOLEAN, resumeTitle : BOOLEAN]

Kept ==
  /\ seat \in [Shotcallers -> [Attempts -> Seats]]
  /\ self \in [Shotcallers -> Selves]
  /\ pane \in [Shotcallers -> Panes]
  /\ call \in [Shotcallers -> Calls]
  /\ given \in [Shotcallers -> Routes]

\* League's title and tokens come and go together, but for the role.
Marked(p) == (p.owner # 0 => p.role) /\ (p.shown = "league" => p.owner # 0)

\* A baseline is taken before the first effect, so it names what was given.
Based(p, u, k, g) ==
  /\ u.base.route \in {NoRoute, g} /\ k.base.route \in {NoRoute, g}
  /\ u.base.schema = "none" => u.base = NoBase /\ k.base = NoBase /\ p.route \in {NoRoute, g}
  /\ u.base.schema = "none" /\ k.at \in {"reserve", "base"} => k.seen \in {NoRoute, g}
  /\ u.base.schema = "none" => k.at \in {"idle", "refresh", "reserve", "base", "unroute", "rollback"}

\* What an invocation may count on.  Until it publishes, a pane it saw without a
\* route has none and shows nothing of League's; once it rolls back, neither.
Placed(p, k, g) ==
  /\ k.at # "idle" => k.n \in Attempts
  /\ k.at = "reserve" => p.route \in {k.seen, NoRoute} /\ (k.seen = NoRoute => p.owner = 0)
  /\ k.at \in {"base", "attempt", "check"} /\ ~k.published => p.route = NoRoute /\ p.owner = 0
  /\ k.at \in {"title", "stable", "record"} => k.published
  /\ k.at = "rollback" => p.route \in {NoRoute, g} /\ p.shown # "league" /\ p.owner # k.n

\* As long as no rolled-back assignment is taken up again, the alias of the pane
\* is held, and an invocation that goes on has its reservation.
Held(p, s, k, g) ==
  /\ p.route \notin {NoRoute, g} =>
       \E n \in Attempts : s[n].callsign = p.route /\ s[n].state \in {"reserved", "active"}
  /\ k.at = "reserve" => s[k.n].state \in {"none", "reserved"}
  /\ k.at \in Later => s[k.n].state = "reserved"

Fit(a) ==
  /\ Marked(pane[a])
  /\ Based(pane[a], self[a], call[a], given[a])
  /\ Placed(pane[a], call[a], given[a])
  /\ a \notin reused => Held(pane[a], seat[a], call[a], given[a])

HeldOnce ==
  \A a, b \in Shotcallers, n, m \in Attempts :
    (/\ seat[a][n].state \in {"reserved", "active"}
     /\ seat[b][m].state \in {"reserved", "active"}
     /\ seat[a][n].callsign = seat[b][m].callsign) => a = b /\ n = m

BInv == Kept /\ HeldOnce /\ \A a \in Shotcallers : Fit(a)
-----------------------------------------------------------------------------
(* An invocation moves its own agent on.                                   *)

LEMMA Here ==
  ASSUME BInv, NEW a \in Shotcallers
  PROVE  /\ pane[a] \in Panes /\ self[a] \in Selves /\ call[a] \in Calls
         /\ seat[a] \in [Attempts -> Seats] /\ given[a] \in Routes
         /\ call[a].n \in {0} \cup Attempts /\ self[a].version \in Nat
         /\ Marked(pane[a]) /\ Based(pane[a], self[a], call[a], given[a])
         /\ Placed(pane[a], call[a], given[a])
         /\ a \notin reused => Held(pane[a], seat[a], call[a], given[a])
         /\ Kept
BY DEF BInv, Kept, Fit, Calls, Selves

LEMMA Moves ==
  ASSUME BInv, NEW a \in Shotcallers, reused \subseteq reused', given' = given,
         NEW p \in Panes, NEW u \in Selves, NEW k \in Calls, NEW s \in [Attempts -> Seats],
         pane' = [pane EXCEPT ![a] = p], self' = [self EXCEPT ![a] = u],
         call' = [call EXCEPT ![a] = k], seat' = [seat EXCEPT ![a] = s],
         HeldOnce',
         Marked(p), Based(p, u, k, given[a]), Placed(p, k, given[a]),
         a \notin reused' => Held(p, s, k, given[a])
  PROVE  BInv'
<1>1. Kept'
  BY DEF BInv, Kept
<1>2. ASSUME NEW b \in Shotcallers PROVE Fit(b)'
  <2>1. CASE b = a
    <3>1. pane'[a] = p /\ self'[a] = u /\ call'[a] = k /\ seat'[a] = s /\ given'[a] = given[a]
      BY DEF BInv, Kept
    <3> QED BY <2>1, <3>1 DEF Fit
  <2>2. CASE b # a
    <3>1. pane'[b] = pane[b] /\ self'[b] = self[b] /\ call'[b] = call[b] /\ seat'[b] = seat[b]
      BY <2>2 DEF BInv, Kept
    <3> QED BY <3>1 DEF BInv, Fit
  <2> QED BY <2>1, <2>2
<1> QED BY <1>1, <1>2 DEF BInv

\* What is left as it is.
LEMMA Same ==
  ASSUME BInv, NEW a \in Shotcallers
  PROVE  /\ pane = [pane EXCEPT ![a] = pane[a]] /\ self = [self EXCEPT ![a] = self[a]]
         /\ call = [call EXCEPT ![a] = call[a]] /\ seat = [seat EXCEPT ![a] = seat[a]]
BY DEF BInv, Kept

LEMMA HeldStays ==
  ASSUME BInv, UNCHANGED seat
  PROVE  HeldOnce'
BY DEF BInv, HeldOnce

\* The pane and the invocation move.
LEMMA Shows ==
  ASSUME BInv, NEW a \in Shotcallers, reused \subseteq reused', NEW p \in Panes, NEW k \in Calls,
         UNCHANGED <<given, seat, self>>,
         pane' = [pane EXCEPT ![a] = p], call' = [call EXCEPT ![a] = k],
         Marked(p), Based(p, self[a], k, given[a]), Placed(p, k, given[a]),
         a \notin reused' => Held(p, seat[a], k, given[a])
  PROVE  BInv'
BY Moves, Same, HeldStays, Here

\* The invocation ends.
LEMMA IdleFits ==
  ASSUME BInv, NEW a \in Shotcallers
  PROVE  /\ Idle \in Calls
         /\ Based(pane[a], self[a], Idle, given[a]) /\ Placed(pane[a], Idle, given[a])
         /\ a \notin reused => Held(pane[a], seat[a], Idle, given[a])
BY Here DEF Idle, NoBase, Calls, Bases, Routes, Later, Based, Placed, Held

LEMMA GiveUpKeeps ==
  ASSUME BInv, NEW a \in Shotcallers, reused \subseteq reused', call' = [call EXCEPT ![a] = Idle],
         UNCHANGED <<given, seat, self, pane>>
  PROVE  BInv'
BY Shows, Same, IdleFits, Here

LEMMA BInvInit == BootstrapInit => BInv
<1> SUFFICES ASSUME BootstrapInit PROVE BInv
  OBVIOUS
<1> USE DEF BootstrapInit
<1>0. Order[1] \in Callsigns
  BY BootstrapConstants
<1>1. NoBase \in Bases /\ NoBase.route = NoRoute /\ NoBase.schema = "none" /\ Idle \in Calls
      /\ Idle.at = "idle" /\ Idle.base = NoBase
  BY DEF NoBase, Bases, Routes, Idle, Calls, Later
<1>2. given \in [Shotcallers -> Routes]
  BY <1>0 DEF Routes
<1>3. Kept
  <2>1. ASSUME NEW a \in Shotcallers, NEW n \in Attempts PROVE FirstSeat(a, n) \in Seats
    BY <1>0 DEF FirstSeat, Seats, Routes
  <2>2. seat \in [Shotcallers -> [Attempts -> Seats]]
    BY <2>1
  <2>3. self \in [Shotcallers -> Selves]
    BY <1>1 DEF Selves
  <2>4. pane \in [Shotcallers -> Panes]
    <3>1. ASSUME NEW a \in Shotcallers
          PROVE  [route |-> given[a], shown |-> "own", owner |-> 0, role |-> FALSE, exact |-> TRUE] \in Panes
      <4>1. given[a] \in Routes
        BY <1>2
      <4> QED BY <4>1 DEF Panes
    <3> QED BY <3>1
  <2> QED BY <1>1, <1>2, <2>2, <2>3, <2>4 DEF Kept
<1>4. HeldOnce
  BY DEF HeldOnce, FirstSeat, Attempts
<1>5. ASSUME NEW a \in Shotcallers PROVE Fit(a)
  BY <1>1, <1>2 DEF Fit, Marked, Based, Placed, Held, Later
<1> QED BY <1>3, <1>4, <1>5 DEF BInv

-----------------------------------------------------------------------------
(* Effects on the pane.                                                    *)

LEMMA DisturbKeeps ==
  ASSUME BInv, NEW a \in Shotcallers, reused \subseteq reused', Disturb(a)
  PROVE  BInv'
<1>0. UNCHANGED <<given, seat, self, call>> /\ call' = [call EXCEPT ![a] = call[a]]
  BY Same DEF Disturb
<1>1. PICK p : /\ pane' = [pane EXCEPT ![a] = p]
               /\ \/ p = [pane[a] EXCEPT !.shown = "other"]
                  \/ p = [pane[a] EXCEPT !.shown = "other", !.owner = 0, !.role = FALSE]
                  \/ pane[a].owner # 0 /\ p = [pane[a] EXCEPT !.shown = "refreshed"]
                  \/ p = [pane[a] EXCEPT !.shown = "own"]
                  \/ p = [pane[a] EXCEPT !.route = NoRoute]
                  \/ p = [pane[a] EXCEPT !.exact = ~pane[a].exact]
                  \/ p = pane[a]
  BY DEF Disturb, Change
<1>2. /\ p \in Panes
      /\ p.shown = "league" => pane[a].shown = "league" /\ p.owner = pane[a].owner
      /\ p.owner \in {0, pane[a].owner} /\ (p.owner # 0 => p.role = pane[a].role)
      /\ p.route \in {NoRoute, pane[a].route}
  <2>0. pane[a] \in Panes /\ 0 \in {0} \cup Attempts /\ NoRoute \in Routes /\ (~pane[a].exact) \in BOOLEAN
    BY Here DEF Routes
  <2>1. CASE p = [pane[a] EXCEPT !.shown = "other"]
    BY <2>0, <2>1 DEF Panes
  <2>2. CASE p = [pane[a] EXCEPT !.shown = "other", !.owner = 0, !.role = FALSE]
    BY <2>0, <2>2 DEF Panes
  <2>3. CASE p = [pane[a] EXCEPT !.shown = "refreshed"]
    BY <2>0, <2>3 DEF Panes
  <2>4. CASE p = [pane[a] EXCEPT !.shown = "own"]
    BY <2>0, <2>4 DEF Panes
  <2>5. CASE p = [pane[a] EXCEPT !.route = NoRoute]
    BY <2>0, <2>5 DEF Panes
  <2>6. CASE p = [pane[a] EXCEPT !.exact = ~pane[a].exact]
    BY <2>0, <2>6 DEF Panes
  <2>7. CASE p = pane[a]
    BY <2>0, <2>7 DEF Panes
  <2> QED BY <1>1, <2>1, <2>2, <2>3, <2>4, <2>5, <2>6, <2>7
<1>3. Marked(p)
  BY <1>2, Here DEF Marked
<1>4. Based(p, self[a], call[a], given[a])
  BY <1>2, Here DEF Based
<1>5. Placed(p, call[a], given[a])
  BY <1>2, Here DEF Placed, Attempts, Calls
<1>6. a \notin reused' => Held(p, seat[a], call[a], given[a])
  BY <1>2, Here DEF Held
<1> QED BY <1>0, <1>1, <1>2, <1>3, <1>4, <1>5, <1>6, Shows, Here

\* The callsign of the invocation's reservation.
LEMMA CallsignHere ==
  ASSUME BInv, NEW a \in Shotcallers, call[a].at # "idle"
  PROVE  call[a].n \in Attempts /\ Callsign(a) = seat[a][call[a].n].callsign /\ Callsign(a) \in Routes
BY Here DEF Placed, Callsign, Seats

LEMMA RefreshKeeps ==
  ASSUME BInv, NEW a \in Shotcallers, reused \subseteq reused', RefreshRoute(a)
  PROVE  BInv'
<1>0. UNCHANGED <<given, seat, self>> /\ call' = [call EXCEPT ![a] = Idle]
  BY DEF RefreshRoute
<1>1. CASE UNCHANGED pane
  BY <1>0, <1>1, GiveUpKeeps
<1>2. CASE ~UNCHANGED pane
  <2> DEFINE p == [pane[a] EXCEPT !.shown = "league"]
  <2>1. pane' = [pane EXCEPT ![a] = p] /\ pane[a].owner = call[a].n /\ pane[a].role /\ call[a].at # "idle"
    BY <1>2 DEF RefreshRoute, Change
  <2>2. p \in Panes /\ p.route = pane[a].route /\ p.owner = pane[a].owner /\ p.role
    BY <2>1, Here DEF Panes
  <2> HIDE DEF p
  <2>3. p.owner # 0
    BY <2>1, <2>2, CallsignHere DEF Attempts
  <2>4. Marked(p) /\ Based(p, self[a], Idle, given[a]) /\ Placed(p, Idle, given[a])
    BY <2>2, <2>3, IdleFits, Here DEF Marked, Based, Placed, Idle
  <2>5. a \notin reused' => Held(p, seat[a], Idle, given[a])
    BY <2>2, IdleFits DEF Held
  <2> QED BY <1>0, <2>1, <2>2, <2>4, <2>5, IdleFits, Shows
<1> QED BY <1>1, <1>2

LEMMA RenameKeeps ==
  ASSUME BInv, NEW a \in Shotcallers, reused \subseteq reused', Rename(a)
  PROVE  BInv'
<1>0. UNCHANGED <<given, seat, self>> /\ call[a].at = "rename"
  BY DEF Rename
<1>1. PICK x \in {"title", "unroute"} : call' = [call EXCEPT ![a] = [call[a] EXCEPT !.at = x, !.published = TRUE]]
  BY Here DEF Rename, Kept
<1>2. PICK p : /\ pane' = [pane EXCEPT ![a] = p]
               /\ p = pane[a] \/ p = [pane[a] EXCEPT !.route = Callsign(a)]
  BY Same DEF Rename, Change
<1> DEFINE k == [call[a] EXCEPT !.at = x, !.published = TRUE]
<1>3. /\ k \in Calls /\ k.at = x /\ k.n = call[a].n /\ k.seen = call[a].seen /\ k.base = call[a].base
      /\ k.published = TRUE
  BY Here DEF Calls, Later
<1>4. /\ p \in Panes /\ p.shown = pane[a].shown /\ p.owner = pane[a].owner /\ p.role = pane[a].role
      /\ p.route = pane[a].route \/ p.route = seat[a][call[a].n].callsign
  BY <1>0, <1>2, Here, CallsignHere DEF Panes
<1>5. call' = [call EXCEPT ![a] = k]
  BY <1>1
<1> HIDE DEF k
<1>6. Marked(p) /\ Based(p, self[a], k, given[a]) /\ Placed(p, k, given[a])
  BY <1>0, <1>3, <1>4, Here DEF Marked, Based, Placed
<1>7. a \notin reused' => Held(p, seat[a], k, given[a])
  <2>1. call[a].n \in Attempts
    BY <1>0, CallsignHere
  <2> QED BY <1>0, <1>3, <1>4, <2>1, Here DEF Held, Later
<1> QED BY <1>0, <1>2, <1>3, <1>4, <1>5, <1>6, <1>7, Shows

\* The invocation goes on, or fails, without an effect.
LEMMA Steps ==
  ASSUME BInv, NEW a \in Shotcallers, reused \subseteq reused', NEW k \in Calls, NEW u \in Selves,
         UNCHANGED <<given, seat, pane>>,
         self' = [self EXCEPT ![a] = u], call' = [call EXCEPT ![a] = k],
         k.n = call[a].n, k.published = call[a].published, k.base.route \in {NoRoute, given[a]},
         k.at \in Later, call[a].at \in Later,
         u.base.route \in {NoRoute, given[a]},
         u.base.schema = "none" => /\ u.base = NoBase /\ k.base = NoBase
                                   /\ pane[a].route \in {NoRoute, given[a]} /\ k.at \in {"unroute", "rollback"},
         k.at \in {"attempt", "check"} => call[a].at \in {"base", "attempt", "check"},
         k.at \in {"title", "stable", "record"} => k.published,
         k.at # "base",
         k.at = "rollback" => /\ pane[a].route \in {NoRoute, given[a]}
                              /\ pane[a].shown # "league" /\ pane[a].owner # call[a].n
  PROVE  BInv'
<1>1. call[a].n \in Attempts
  BY Here DEF Placed, Later
<1>2. Marked(pane[a]) /\ Based(pane[a], u, k, given[a])
  BY Here DEF Based
<1>3. Placed(pane[a], k, given[a])
  BY <1>1, Here DEF Placed, Later
<1>4. a \notin reused' => Held(pane[a], seat[a], k, given[a])
  BY Here DEF Held, Later
<1> QED BY <1>2, <1>3, <1>4, Moves, Same, HeldStays, Here

\* A pane that was not published shows nothing of League's.
LEMMA Untouched ==
  ASSUME BInv, NEW a \in Shotcallers, call[a].at \in {"base", "attempt", "check"}, ~call[a].published
  PROVE  pane[a].route \in {NoRoute, given[a]} /\ pane[a].shown # "league" /\ pane[a].owner # call[a].n
BY Here DEF Placed, Marked, Attempts

LEMMA StableKeeps ==
  ASSUME BInv, NEW a \in Shotcallers, reused \subseteq reused', Stable(a)
  PROVE  BInv'
<1> DEFINE x == IF PublishedBy(pane[a], call[a].n, Callsign(a)) THEN "record" ELSE "unroute"
           k == [call[a] EXCEPT !.at = x]
<1>0. /\ UNCHANGED <<given, seat, self, pane>> /\ call[a].at = "stable" /\ call[a].published
      /\ self' = [self EXCEPT ![a] = self[a]]
  BY Here, Same DEF Stable, Placed
<1>1. call' = [call EXCEPT ![a] = k]
  BY <1>0, Here DEF Stable, Fail, Goto, Kept
<1>2. /\ k \in Calls /\ k.at = x /\ x \in {"record", "unroute"} /\ k.n = call[a].n /\ k.base = call[a].base
      /\ k.published = call[a].published
  BY Here DEF Calls, Later
<1> HIDE DEF k, x
<1>3. /\ self[a].base.schema # "none" /\ self[a].base.route \in {NoRoute, given[a]}
      /\ k.base.route \in {NoRoute, given[a]}
  BY <1>0, <1>2, Here DEF Based
<1> QED BY <1>0, <1>1, <1>2, <1>3, Here, Steps DEF Later

LEMMA TitleKeeps ==
  ASSUME BInv, NEW a \in Shotcallers, reused \subseteq reused', Title(a)
  PROVE  BInv'
<1>0. /\ UNCHANGED <<given, seat, self>> /\ call[a].at = "title" /\ call[a].published
      /\ self' = [self EXCEPT ![a] = self[a]]
      /\ call[a].n \in Attempts
  BY Here, Same DEF Title, Placed
<1>1. PICK x \in {"stable", "unroute"}, y \in BOOLEAN :
        call' = [call EXCEPT ![a] = [call[a] EXCEPT !.at = x, !.source = y]]
  <2>1. CASE Fail(a)
    <3>1. call' = [call EXCEPT ![a] = [call[a] EXCEPT !.at = "unroute", !.source = call[a].source]]
      BY <1>0, <2>1, Here DEF Fail, Kept, Calls
    <3>2. call[a].source \in BOOLEAN
      BY Here DEF Calls
    <3> QED BY <3>1, <3>2
  <2>2. CASE call' = [call EXCEPT ![a].at = "stable", ![a].source = TRUE]
    <3>1. call' = [call EXCEPT ![a] = [call[a] EXCEPT !.at = "stable", !.source = TRUE]]
      BY <2>2, Here DEF Kept
    <3> QED BY <3>1
  <2> QED BY <2>1, <2>2 DEF Title
<1>2. PICK p : /\ pane' = [pane EXCEPT ![a] = p]
               /\ p = pane[a] \/ p = [pane[a] EXCEPT !.shown = "league", !.owner = call[a].n, !.role = TRUE]
  BY Same DEF Title, Change
<1> DEFINE k == [call[a] EXCEPT !.at = x, !.source = y]
<1>3. /\ k \in Calls /\ k.at = x /\ k.n = call[a].n /\ k.base = call[a].base
      /\ k.published = call[a].published
  BY Here DEF Calls, Later
<1>4. /\ p \in Panes /\ p.route = pane[a].route
      /\ p = pane[a] \/ (p.owner = call[a].n /\ p.role)
  BY <1>0, <1>2, Here DEF Panes, Attempts
<1>5. call' = [call EXCEPT ![a] = k]
  BY <1>1
<1> HIDE DEF k
<1>6. Marked(p) /\ Based(p, self[a], k, given[a]) /\ Placed(p, k, given[a])
  BY <1>0, <1>3, <1>4, Here DEF Marked, Based, Placed, Attempts
<1>7. a \notin reused' => Held(p, seat[a], k, given[a])
  BY <1>0, <1>3, <1>4, Here DEF Held, Later
<1> QED BY <1>0, <1>2, <1>3, <1>4, <1>5, <1>6, <1>7, Shows

-----------------------------------------------------------------------------
(* Restoration.                                                            *)

\* A restoration goes on to the rollback, or gives up.
LEMMA Restores ==
  ASSUME BInv, NEW a \in Shotcallers, reused \subseteq reused', NEW p \in Panes,
         NEW x \in {"rollback", "untitle", "untoken"},
         UNCHANGED <<given, seat, self>>, call[a].at \in {"unroute", "untitle", "untoken"},
         pane' = [pane EXCEPT ![a] = p], call' = [call EXCEPT ![a].at = x],
         self[a].base.schema # "none", p.route \in {NoRoute, given[a]}, Marked(p),
         x = "rollback" => p.shown # "league" /\ p.owner = 0
  PROVE  BInv'
<1> DEFINE k == [call[a] EXCEPT !.at = x]
<1>0. call' = [call EXCEPT ![a] = k] /\ call[a].n \in Attempts
  BY Here DEF Kept, Placed
<1>1. /\ k \in Calls /\ k.at = x /\ k.n = call[a].n /\ k.base = call[a].base
      /\ k.published = call[a].published
  BY Here DEF Calls, Later
<1> HIDE DEF k
<1>2. Based(p, self[a], k, given[a]) /\ Placed(p, k, given[a])
  BY <1>0, <1>1, Here DEF Based, Placed, Attempts
<1>3. a \notin reused' => Held(p, seat[a], k, given[a])
  BY <1>1, Here DEF Held, Later
<1> QED BY <1>0, <1>1, <1>2, <1>3, Shows

LEMMA RestoreAdoptedKeeps ==
  ASSUME BInv, NEW a \in Shotcallers, reused \subseteq reused', RestoreAdopted(a)
  PROVE  BInv'
<1>0. UNCHANGED <<given, seat, self>> /\ call[a].at = "unroute" /\ pane[a] \in Panes /\ Marked(pane[a])
  BY Here DEF RestoreAdopted
<1>1. CASE GiveUp(a) /\ UNCHANGED pane
  BY <1>0, <1>1, GiveUpKeeps DEF GiveUp
<1>2. CASE ~(GiveUp(a) /\ UNCHANGED pane)
  <2>0. self[a].base.schema # "none"
    BY Here DEF RestoreAdopted, Based, NoBase
  <2>1. /\ call' = [call EXCEPT ![a].at = "rollback"]
        /\ pane[a].route \in {NoRoute, given[a]}
        /\ \/ pane' = pane /\ pane[a].shown = "own" /\ pane[a].owner = 0
           \/ pane' = [pane EXCEPT ![a] = [pane[a] EXCEPT !.shown = "own", !.owner = 0]]
    BY <1>2, Here DEF RestoreAdopted, Goto, Change, Based
  <2>2. CASE pane' = pane /\ pane[a].shown = "own" /\ pane[a].owner = 0
    BY <1>0, <2>0, <2>1, <2>2, Restores, Same
  <2>3. CASE pane' = [pane EXCEPT ![a] = [pane[a] EXCEPT !.shown = "own", !.owner = 0]]
    <3> DEFINE p == [pane[a] EXCEPT !.shown = "own", !.owner = 0]
    <3>1. p \in Panes /\ p.shown = "own" /\ p.owner = 0 /\ p.route = pane[a].route
      BY <1>0 DEF Panes
    <3>2. pane' = [pane EXCEPT ![a] = p]
      BY <2>3
    <3> HIDE DEF p
    <3> QED BY <1>0, <2>0, <2>1, <3>1, <3>2, Restores DEF Marked
  <2> QED BY <2>1, <2>2, <2>3
<1> QED BY <1>1, <1>2

LEMMA UnrouteKeeps ==
  ASSUME BInv, NEW a \in Shotcallers, reused \subseteq reused', Unroute(a)
  PROVE  BInv'
<1>0. UNCHANGED <<given, seat, self>> /\ call[a].at = "unroute" /\ pane[a] \in Panes /\ Marked(pane[a])
  BY Here DEF Unroute
<1>1. CASE GiveUp(a) /\ UNCHANGED pane
  BY <1>0, <1>1, GiveUpKeeps DEF GiveUp
<1>2. CASE ~(GiveUp(a) /\ UNCHANGED pane)
  <2> DEFINE p == [pane[a] EXCEPT !.route = NoRoute]
             x == IF pane[a].shown = "own" /\ pane[a].owner = 0 THEN "rollback"
                  ELSE IF pane[a].shown = "own" \/ OwnDisplay(a) THEN "untitle" ELSE "untoken"
  <2>0. self[a].base.schema # "none"
    BY <1>2, Here DEF Unroute, Based
  <2>1. call' = [call EXCEPT ![a].at = x] /\ pane' = [pane EXCEPT ![a] = p]
    BY <1>2 DEF Unroute, Goto, Change
  <2>2. /\ p \in Panes /\ p.route = NoRoute /\ p.shown = pane[a].shown /\ p.owner = pane[a].owner
        /\ p.role = pane[a].role
    BY <1>0 DEF Panes, Routes
  <2>3. /\ x \in {"rollback", "untitle", "untoken"}
        /\ x = "rollback" => pane[a].shown = "own" /\ pane[a].owner = 0
    OBVIOUS
  <2> HIDE DEF p, x
  <2>4. Marked(p)
    BY <1>0, <2>2 DEF Marked
  <2> QED BY <1>0, <2>0, <2>1, <2>2, <2>3, <2>4, Restores
<1> QED BY <1>1, <1>2

LEMMA UntitleKeeps ==
  ASSUME BInv, NEW a \in Shotcallers, reused \subseteq reused', Untitle(a)
  PROVE  BInv'
<1>0. UNCHANGED <<given, seat, self>> /\ call[a].at = "untitle" /\ pane[a] \in Panes
      /\ self[a].base.schema # "none"
  BY Here DEF Untitle, Based
<1>1. CASE GiveUp(a) /\ UNCHANGED pane
  BY <1>0, <1>1, GiveUpKeeps DEF GiveUp
<1>2. CASE ~(GiveUp(a) /\ UNCHANGED pane)
  <2> DEFINE p == [pane[a] EXCEPT !.shown = "own", !.owner = 0, !.role = FALSE]
  <2>1. /\ call' = [call EXCEPT ![a].at = "rollback"] /\ pane' = [pane EXCEPT ![a] = p]
        /\ pane[a].route = NoRoute
    BY <1>2 DEF Untitle, Goto, Change
  <2>2. p \in Panes /\ p.route = pane[a].route /\ p.shown = "own" /\ p.owner = 0
    BY <1>0 DEF Panes
  <2> HIDE DEF p
  <2> QED BY <1>0, <2>1, <2>2, Restores DEF Marked
<1> QED BY <1>1, <1>2

LEMMA UntokenKeeps ==
  ASSUME BInv, NEW a \in Shotcallers, reused \subseteq reused', Untoken(a)
  PROVE  BInv'
<1>0. UNCHANGED <<given, seat, self>> /\ call[a].at = "untoken" /\ pane[a] \in Panes /\ Marked(pane[a])
      /\ self[a].base.schema # "none"
  BY Here DEF Untoken, Based
<1>1. CASE GiveUp(a) /\ UNCHANGED pane
  BY <1>0, <1>1, GiveUpKeeps DEF GiveUp
<1>2. CASE ~(GiveUp(a) /\ UNCHANGED pane)
  <2> DEFINE p == [pane[a] EXCEPT !.owner = 0, !.role = FALSE]
  <2>1. /\ call' = [call EXCEPT ![a].at = "rollback"] /\ pane' = [pane EXCEPT ![a] = p]
        /\ pane[a].route = NoRoute /\ pane[a].shown # "league"
    BY <1>0, <1>2 DEF Untoken, Goto, Change, Sourced, Marked
  <2>2. p \in Panes /\ p.route = pane[a].route /\ p.shown = pane[a].shown /\ p.owner = 0
    BY <1>0 DEF Panes
  <2> HIDE DEF p
  <2> QED BY <1>0, <2>1, <2>2, Restores DEF Marked
<1> QED BY <1>1, <1>2

LEMMA DieKeeps ==
  ASSUME BInv, NEW a \in Shotcallers, reused \subseteq reused', Die(a)
  PROVE  BInv'
BY GiveUpKeeps DEF Die, GiveUp

-----------------------------------------------------------------------------
(* The transactions.                                                       *)

LEMMA InspectKeeps ==
  ASSUME BInv, NEW a \in Shotcallers, reused \subseteq reused', NEW n \in Attempts, Inspect(a, n),
         Reuses(a) => a \in reused'
  PROVE  BInv'
<1> DEFINE s == seat[a][n]
           at == IF s.state = "active" THEN "refresh" ELSE "reserve"
           base == IF s.state = "none" THEN NoBase ELSE self[a].base
           k == [Idle EXCEPT !.at = at, !.n = n, !.seen = pane[a].route, !.base = base]
           u == [self[a] EXCEPT !.bound = TRUE]
<1>0. /\ UNCHANGED <<given, seat, pane>> /\ call' = [call EXCEPT ![a] = k]
      /\ pane[a].role => pane[a].route # NoRoute
      /\ pane[a] \in Panes /\ self[a] \in Selves
  BY Here DEF Inspect, Admits
<1>1. PICK v \in Selves : /\ self' = [self EXCEPT ![a] = v]
                          /\ v.base = self[a].base
  <2>1. CASE self' = self
    BY <1>0, <2>1, Same
  <2>2. CASE self' = [self EXCEPT ![a] = u]
    <3>1. u \in Selves /\ u.base = self[a].base
      BY <1>0 DEF Selves
    <3> QED BY <2>2, <3>1
  <2>3. self' = self \/ self' = [self EXCEPT ![a] = u]
    BY Here DEF Inspect, Bound, Kept
  <2> QED BY <2>1, <2>2, <2>3
<1>2. /\ base \in {NoBase, self[a].base} /\ base \in Bases /\ at \in {"refresh", "reserve"}
      /\ at = "reserve" <=> s.state # "active"
  BY <1>0 DEF Selves, NoBase, Bases, Routes
<1> HIDE DEF at, base
<1>3. k \in Calls /\ k.at = at /\ k.n = n /\ k.seen = pane[a].route /\ k.base = base
  BY <1>0, <1>2, IdleFits DEF Calls, Panes, Idle, Later
<1> HIDE DEF k
<1>4. Marked(pane[a]) /\ Based(pane[a], v, k, given[a])
  BY <1>1, <1>2, <1>3, Here DEF Based, NoBase
<1>5. Placed(pane[a], k, given[a])
  BY <1>0, <1>2, <1>3, Here DEF Placed, Marked
<1>6. a \notin reused' => Held(pane[a], seat[a], k, given[a])
  <2>1. s.state \in {"none", "reserved", "active", "rolled_back"}
    BY Here DEF Seats
  <2>2. call[a].at = "idle" /\ call'[a].at # "idle" /\ call'[a].n = n
    BY <1>0, <1>2, <1>3, Here DEF Inspect, Kept
  <2>3. s.state = "rolled_back" => a \in reused'
    BY <2>2 DEF Reuses
  <2> QED BY <1>0, <1>2, <1>3, <2>1, <2>3, Here DEF Held, Later
<1> QED BY <1>0, <1>1, <1>3, <1>4, <1>5, <1>6, Moves, Same, HeldStays, Here

LEMMA BaselineIs ==
  ASSUME BInv, NEW a \in Shotcallers, NEW schema \in {"v1", "v2"}
  PROVE  /\ Baseline(a, schema) \in Bases /\ Baseline(a, schema).schema # "none"
         /\ Baseline(a, schema).route = call[a].seen
BY Here DEF Baseline, Bases, Calls

LEMMA TakeBaselineKeeps ==
  ASSUME BInv, NEW a \in Shotcallers, reused \subseteq reused', TakeBaseline(a)
  PROVE  BInv'
<1>0. /\ UNCHANGED <<given, seat, pane>> /\ call[a].at = "base" /\ self[a] \in Selves
      /\ call[a] \in Calls /\ call[a].n \in Attempts
  BY Here DEF TakeBaseline, Placed
<1> DEFINE missing == call[a].base = NoBase /\ self[a].base = NoBase
           refused == missing /\ ~Exactly(a, call[a].n)
<1>1. PICK v \in Selves : /\ self' = [self EXCEPT ![a] = v] /\ v.base.route \in {NoRoute, given[a]}
                          /\ v.base.schema = "none" => refused /\ v = self[a]
  <2>1. CASE missing /\ ~refused
    <3> DEFINE b == Baseline(a, "v1")
               v == [self[a] EXCEPT !.base = b]
    <3>1. b \in Bases /\ b.schema # "none" /\ b.route = call[a].seen
      BY BaselineIs
    <3>2. call[a].seen \in {NoRoute, given[a]}
      BY <1>0, <2>1, Here DEF Based, NoBase
    <3> HIDE DEF b
    <3>3. v \in Selves /\ v.base = b
      BY <1>0, <3>1 DEF Selves
    <3>4. self' = [self EXCEPT ![a] = v]
      BY <2>1, Here DEF TakeBaseline, b, Kept
    <3> QED BY <3>1, <3>2, <3>3, <3>4
  <2>2. CASE ~(missing /\ ~refused)
    <3>1. self[a].base.route \in {NoRoute, given[a]} /\ (self[a].base.schema = "none" => refused)
      BY <2>2, Here DEF Based
    <3>2. self' = self
      BY <2>2 DEF TakeBaseline
    <3> QED BY <1>0, <3>1, <3>2, Same
  <2> QED BY <2>1, <2>2
<1>2. self'[a] = v
  BY <1>1, Here DEF Kept
<1>3. PICK x, b : /\ call' = [call EXCEPT ![a].at = x, ![a].base = b]
                  /\ b \in {v.base, call[a].base}
                  /\ \/ x \in {"rename", "check", "attempt"} /\ ~refused
                     \/ x = "unroute" /\ b = call[a].base
                     \/ x = "rollback" /\ b = call[a].base /\ ~call[a].published
  <2>1. CASE Fail(a)
    <3>1. call' = [call EXCEPT ![a].at = IF call[a].published THEN "unroute" ELSE "rollback",
                               ![a].base = call[a].base]
      BY <1>0, <2>1, Here DEF Fail, Kept, Calls
    <3> QED BY <3>1
  <2>2. CASE ~Fail(a)
    BY <1>2, <2>2 DEF TakeBaseline
  <2> QED BY <2>1, <2>2
<1> DEFINE k == [call[a] EXCEPT !.at = x, !.base = b]
<1>4. b \in Bases /\ b.route \in {NoRoute, given[a]} /\ x \in Later \ {"base", "title", "stable", "record"}
  BY <1>0, <1>1, <1>3, Here DEF Calls, Selves, Later, Based
<1>5. call' = [call EXCEPT ![a] = k]
  BY <1>3, Here DEF Kept
<1>6. k \in Calls /\ k.at = x /\ k.base = b /\ k.n = call[a].n /\ k.published = call[a].published
  BY <1>0, <1>4 DEF Calls
<1> HIDE DEF k
<1>7. x = "rollback" => pane[a].route \in {NoRoute, given[a]}
                        /\ pane[a].shown # "league" /\ pane[a].owner # call[a].n
  BY <1>0, <1>3, Untouched
<1>8. v.base.schema = "none" => /\ v.base = NoBase /\ k.base = NoBase
                                /\ pane[a].route \in {NoRoute, given[a]} /\ k.at \in {"unroute", "rollback"}
  BY <1>1, <1>3, <1>6, Here DEF Based
<1> QED BY <1>0, <1>1, <1>4, <1>5, <1>6, <1>7, <1>8, Steps DEF Later

LEMMA TakeAttemptKeeps ==
  ASSUME BInv, NEW a \in Shotcallers, reused \subseteq reused', TakeAttempt(a)
  PROVE  BInv'
<1>0. /\ UNCHANGED <<given, seat, pane>> /\ call[a].at = "attempt" /\ self[a] \in Selves
      /\ call[a] \in Calls /\ call[a].n \in Attempts
  BY Here DEF TakeAttempt, Placed
<1>1. PICK v \in Selves : self' = [self EXCEPT ![a] = v] /\ v.base = self[a].base
  <2>1. CASE self' = self
    BY <1>0, <2>1, Same
  <2>2. CASE self' = [self EXCEPT ![a].attempt = TRUE]
    <3> DEFINE v == [self[a] EXCEPT !.attempt = TRUE]
    <3>1. v \in Selves /\ v.base = self[a].base /\ self' = [self EXCEPT ![a] = v]
      BY <1>0, <2>2, Here DEF Selves, Kept
    <3> QED BY <3>1
  <2> QED BY <2>1, <2>2 DEF TakeAttempt
<1>2. PICK x \in {"check", "unroute", "rollback"} :
        /\ call' = [call EXCEPT ![a] = [call[a] EXCEPT !.at = x]]
        /\ x = "rollback" => ~call[a].published
  BY Here DEF TakeAttempt, Goto, Fail, Kept
<1> DEFINE k == [call[a] EXCEPT !.at = x]
<1>3. /\ k \in Calls /\ k.at = x /\ k.base = call[a].base /\ k.n = call[a].n
      /\ k.published = call[a].published /\ call' = [call EXCEPT ![a] = k]
  BY <1>0, <1>2 DEF Calls, Later
<1> HIDE DEF k
<1>4. /\ v.base.schema # "none" /\ v.base.route \in {NoRoute, given[a]}
      /\ k.base.route \in {NoRoute, given[a]}
  BY <1>0, <1>1, <1>3, Here DEF Based
<1>7. x = "rollback" => pane[a].route \in {NoRoute, given[a]}
                        /\ pane[a].shown # "league" /\ pane[a].owner # call[a].n
  BY <1>0, <1>2, Untouched
<1> QED BY <1>0, <1>1, <1>3, <1>4, <1>7, Steps DEF Later

LEMMA CheckKeeps ==
  ASSUME BInv, NEW a \in Shotcallers, reused \subseteq reused', Check(a)
  PROVE  BInv'
<1>0. /\ UNCHANGED <<given, seat, pane>> /\ call[a].at = "check" /\ self[a] \in Selves
      /\ call[a] \in Calls /\ call[a].n \in Attempts
  BY Here DEF Check, Placed
<1>1. PICK v \in Selves : self' = [self EXCEPT ![a] = v] /\ v.base = self[a].base
  <2>1. CASE self' = self
    BY <1>0, <2>1, Same
  <2>2. CASE self' = [self EXCEPT ![a].bound = TRUE]
    <3> DEFINE v == [self[a] EXCEPT !.bound = TRUE]
    <3>1. v \in Selves /\ v.base = self[a].base /\ self' = [self EXCEPT ![a] = v]
      BY <1>0, <2>2, Here DEF Selves, Kept
    <3> QED BY <3>1
  <2> QED BY <2>1, <2>2 DEF Check, Bound
<1>2. PICK x \in {"rename", "unroute", "rollback"}, y \in BOOLEAN, r \in BOOLEAN, t \in BOOLEAN :
        /\ call' = [call EXCEPT ![a] = [call[a] EXCEPT !.at = x, !.source = y, !.resumeRoute = r,
                                                       !.resumeTitle = t]]
        /\ x = "rollback" => ~call[a].published
  <2> DEFINE published == PublishedBy(pane[a], call[a].n, Callsign(a))
             at == IF call[a].published THEN "unroute" ELSE "rollback"
             same == pane[a].route = Callsign(a)
  <2>0. published \in BOOLEAN /\ Exactly(a, call[a].n) \in BOOLEAN /\ same \in BOOLEAN
        /\ call[a].resumeRoute \in BOOLEAN /\ call[a].resumeTitle \in BOOLEAN
        /\ at \in {"unroute", "rollback"} /\ (at = "rollback" => ~call[a].published)
    BY <1>0 DEF Exactly, PublishedBy, Calls
  <2>1. CASE call' = [call EXCEPT ![a].at = "rename", ![a].source = TRUE,
                        ![a].resumeRoute = same, ![a].resumeTitle = published]
    <3> HIDE DEF published, same
    <3>1. call' = [call EXCEPT ![a] = [call[a] EXCEPT !.at = "rename", !.source = TRUE,
                      !.resumeRoute = same, !.resumeTitle = published]]
      BY <2>1, Here DEF Kept
    <3> QED BY <2>0, <3>1
  <2>2. CASE call' = [call EXCEPT ![a].at = at, ![a].source = Exactly(a, call[a].n)]
    <3> HIDE DEF at
    <3>1. call' = [call EXCEPT ![a] = [call[a] EXCEPT !.at = at, !.source = Exactly(a, call[a].n),
                      !.resumeRoute = call[a].resumeRoute, !.resumeTitle = call[a].resumeTitle]]
      BY <1>0, <2>2, Here DEF Kept, Calls
    <3> QED BY <2>0, <3>1
  <2> QED BY <2>1, <2>2 DEF Check
<1> DEFINE k == [call[a] EXCEPT !.at = x, !.source = y, !.resumeRoute = r, !.resumeTitle = t]
<1>3. /\ k \in Calls /\ k.at = x /\ k.base = call[a].base /\ k.n = call[a].n
      /\ k.published = call[a].published /\ call' = [call EXCEPT ![a] = k]
  BY <1>0, <1>2 DEF Calls, Later
<1> HIDE DEF k
<1>4. /\ v.base.schema # "none" /\ v.base.route \in {NoRoute, given[a]}
      /\ k.base.route \in {NoRoute, given[a]}
  BY <1>0, <1>1, <1>3, Here DEF Based
<1>7. x = "rollback" => pane[a].route \in {NoRoute, given[a]}
                        /\ pane[a].shown # "league" /\ pane[a].owner # call[a].n
  BY <1>0, <1>2, Untouched
<1> QED BY <1>0, <1>1, <1>3, <1>4, <1>7, Steps DEF Later

\* The seat of the invocation changes its state.
LEMMA SeatMoves ==
  ASSUME BInv, NEW a \in Shotcallers, NEW n \in Attempts, NEW z \in {"active", "rolled_back"},
         seat[a][n].state = "reserved", seat' = [seat EXCEPT ![a][n].state = z]
  PROVE  /\ HeldOnce'
         /\ seat' = [seat EXCEPT ![a] = seat'[a]] /\ seat'[a] \in [Attempts -> Seats]
         /\ seat'[a][n].state = z
         /\ \A m \in Attempts : seat'[a][m].callsign = seat[a][m].callsign
         /\ \A m \in Attempts : m # n => seat'[a][m] = seat[a][m]
<1> DEFINE w == [seat[a][n] EXCEPT !.state = z]
           s == [seat[a] EXCEPT ![n] = w]
<1>0. seat[a] \in [Attempts -> Seats] /\ seat[a][n] \in Seats /\ Kept
  BY Here
<1>1. w \in Seats /\ w.state = z /\ w.callsign = seat[a][n].callsign
  BY <1>0 DEF Seats
<1>2. seat' = [seat EXCEPT ![a] = s]
  BY <1>0 DEF Kept
<1> HIDE DEF w
<1>3. /\ s \in [Attempts -> Seats] /\ s[n] = w
      /\ \A m \in Attempts : m # n => s[m] = seat[a][m]
  BY <1>0, <1>1
<1> HIDE DEF s
<1>4. seat'[a] = s /\ \A b \in Shotcallers : b # a => seat'[b] = seat[b]
  BY <1>0, <1>2 DEF Kept
<1>5. \A b \in Shotcallers, m \in Attempts :
        /\ seat'[b][m].callsign = seat[b][m].callsign
        /\ seat'[b][m].state \in {"reserved", "active"} => seat[b][m].state \in {"reserved", "active"}
  BY <1>1, <1>3, <1>4
<1>6. HeldOnce'
  BY <1>5 DEF BInv, HeldOnce
<1> QED BY <1>1, <1>2, <1>3, <1>4, <1>5, <1>6

LEMMA ActivateKeeps ==
  ASSUME BInv, NEW a \in Shotcallers, reused \subseteq reused', Activate(a)
  PROVE  BInv'
<1>0. /\ UNCHANGED <<given, pane>> /\ call[a].at = "record" /\ self[a] \in Selves
      /\ call[a] \in Calls /\ call[a].n \in Attempts /\ call[a].published
  BY Here DEF Activate, Placed
<1>1. CASE Fail(a) /\ UNCHANGED <<line, seat, self>>
  <2> DEFINE k == [call[a] EXCEPT !.at = "unroute"]
  <2>1. /\ k \in Calls /\ k.at = "unroute" /\ k.base = call[a].base /\ k.n = call[a].n
        /\ k.published = call[a].published /\ call' = [call EXCEPT ![a] = k]
    BY <1>0, <1>1, Here DEF Calls, Later, Fail, Kept
  <2> HIDE DEF k
  <2>2. /\ self[a].base.schema # "none" /\ self[a].base.route \in {NoRoute, given[a]}
        /\ k.base.route \in {NoRoute, given[a]} /\ self' = [self EXCEPT ![a] = self[a]]
    BY <1>0, <1>1, <2>1, Here, Same DEF Based
  <2> QED BY <1>0, <1>1, <2>1, <2>2, Steps DEF Later
<1>2. CASE ~(Fail(a) /\ UNCHANGED <<line, seat, self>>)
  <2> DEFINE v == [self[a] EXCEPT !.version = self[a].version + 1]
  <2>1. /\ seat[a][call[a].n].state = "reserved" /\ call' = [call EXCEPT ![a] = Idle]
        /\ seat' = [seat EXCEPT ![a][call[a].n].state = "active"]
        /\ self' = [self EXCEPT ![a] = v]
    BY <1>2, Here DEF Activate, Kept
  <2>2. v \in Selves /\ v.base = self[a].base
    <3>1. self[a].version + 1 \in Nat
      BY Here
    <3> QED BY <1>0, <3>1 DEF Selves
  <2> HIDE DEF v
  <2>3. PICK n \in Attempts : n = call[a].n
    BY <1>0
  <2>4. /\ HeldOnce' /\ seat' = [seat EXCEPT ![a] = seat'[a]] /\ seat'[a] \in [Attempts -> Seats]
        /\ seat'[a][n].state = "active"
        /\ \A m \in Attempts : seat'[a][m].callsign = seat[a][m].callsign
        /\ \A m \in Attempts : m # n => seat'[a][m] = seat[a][m]
    BY <2>1, <2>3, SeatMoves
  <2>5. Marked(pane[a]) /\ Based(pane[a], v, Idle, given[a]) /\ Placed(pane[a], Idle, given[a]) /\ Idle \in Calls
    BY <1>0, <2>2, IdleFits, Here DEF Based, Idle
  <2>6. a \notin reused' => Held(pane[a], seat'[a], Idle, given[a])
    BY <2>3, <2>4, IdleFits, Here DEF Held, Idle, Later
  <2>7. pane' = [pane EXCEPT ![a] = pane[a]]
    BY <1>0, Same
  <2> QED BY <1>0, <2>1, <2>2, <2>4, <2>5, <2>6, <2>7, Moves, Here
<1> QED BY <1>1, <1>2

LEMMA RollbackKeeps ==
  ASSUME BInv, NEW a \in Shotcallers, reused \subseteq reused', Rollback(a)
  PROVE  BInv'
<1>0. /\ UNCHANGED <<given, pane>> /\ call[a].at = "rollback" /\ self[a] \in Selves
      /\ call[a].n \in Attempts /\ call' = [call EXCEPT ![a] = Idle]
      /\ pane[a].route \in {NoRoute, given[a]}
  BY Here DEF Rollback, Placed, GiveUp
<1>1. CASE seat[a][call[a].n].state # "reserved"
  BY <1>0, <1>1, GiveUpKeeps DEF Rollback
<1>2. CASE seat[a][call[a].n].state = "reserved"
  <2> DEFINE v == [self[a] EXCEPT !.version = self[a].version + 1, !.retired = TRUE]
  <2>1. /\ seat' = [seat EXCEPT ![a][call[a].n].state = "rolled_back"]
        /\ self' = [self EXCEPT ![a] = v]
    BY <1>2, Here DEF Rollback, Kept
  <2>2. v \in Selves /\ v.base = self[a].base
    <3>1. self[a].version + 1 \in Nat
      BY Here
    <3> QED BY <1>0, <3>1 DEF Selves
  <2> HIDE DEF v
  <2>3. PICK n \in Attempts : n = call[a].n
    BY <1>0
  <2>4. /\ HeldOnce' /\ seat' = [seat EXCEPT ![a] = seat'[a]] /\ seat'[a] \in [Attempts -> Seats]
    BY <1>2, <2>1, <2>3, SeatMoves
  <2>5. Marked(pane[a]) /\ Based(pane[a], v, Idle, given[a]) /\ Placed(pane[a], Idle, given[a]) /\ Idle \in Calls
    BY <1>0, <2>2, IdleFits, Here DEF Based, Idle
  <2>6. Held(pane[a], seat'[a], Idle, given[a])
    BY <1>0 DEF Held, Idle, Later
  <2>7. pane' = [pane EXCEPT ![a] = pane[a]]
    BY <1>0, Same
  <2> QED BY <1>0, <2>1, <2>2, <2>4, <2>5, <2>6, <2>7, Moves, Here
<1> QED BY <1>1, <1>2

LEMMA NamesFree ==
  ASSUME BInv, NEW a \in Shotcallers, NEW n \in Attempts, NEW c,
         Names(a, n, c), seat[a][n].state = "none"
  PROVE  ~Taken(c)
BY DEF Names, FirstAvailable, Recoverable, Available

LEMMA RecoveredIs ==
  ASSUME BInv, NEW a \in Shotcallers, call[a].at = "reserve"
  PROVE  /\ Recovered(a) \in Selves
         /\ Recovered(a).base.route \in {NoRoute, given[a]} /\ Recovered(a).base.schema # "none"
<1> DEFINE base == IF self[a].base.schema # "none" THEN self[a].base ELSE Baseline(a, "v2")
<1>1. base \in Bases /\ base.schema # "none" /\ base.route \in {NoRoute, given[a]}
  <2>1. CASE self[a].base.schema # "none"
    BY <2>1, Here DEF Based, Selves
  <2>2. CASE self[a].base.schema = "none"
    BY <2>2, Here, BaselineIs DEF Based
  <2> QED BY <2>1, <2>2
<1> HIDE DEF base
<1>2. self[a] \in Selves /\ self[a].version + 1 \in Nat
  BY Here
<1>3. Recovered(a) = [self[a] EXCEPT !.version = self[a].version + 1, !.retired = FALSE, !.base = base]
  BY <1>2 DEF Recovered, base, Selves
<1>4. Recovered(a) \in Selves /\ Recovered(a).base = base
  BY <1>1, <1>2, <1>3 DEF Selves
<1> QED BY <1>1, <1>4

LEMMA ReserveKeeps ==
  ASSUME BInv, NEW a \in Shotcallers, reused \subseteq reused', Reserve(a)
  PROVE  BInv'
<1>0. /\ UNCHANGED <<given, pane>> /\ call[a].at = "reserve" /\ self[a] \in Selves
      /\ call[a] \in Calls /\ call[a].n \in Attempts
  BY Here DEF Reserve, Placed
<1>1. CASE call' = [call EXCEPT ![a] = Idle] /\ UNCHANGED <<seat, self>>
  BY <1>0, <1>1, GiveUpKeeps
<1>2. CASE ~(call' = [call EXCEPT ![a] = Idle] /\ UNCHANGED <<seat, self>>)
  <2>n. PICK n \in Attempts : n = call[a].n
    BY <1>0
  <2>1. PICK c \in Callsigns :
          /\ Names(a, n, c) /\ call[a].seen \in {NoRoute, c}
          /\ call' = [call EXCEPT ![a].at = "base", ![a].published = call[a].seen = c]
          /\ IF seat[a][n].state = "none"
             THEN /\ seat' = [seat EXCEPT ![a][n] = [state |-> "reserved", callsign |-> c]]
                  /\ self' = [self EXCEPT ![a] = IF self[a].version = 0 THEN [@ EXCEPT !.version = 1] ELSE Recovered(a)]
             ELSE UNCHANGED <<seat, self>>
    BY <1>2, <2>n DEF Reserve
  <2> DEFINE b == call[a].seen = c
             k == [call[a] EXCEPT !.at = "base", !.published = b]
  <2>2. b \in BOOLEAN
    OBVIOUS
  <2>3. ~b => call[a].seen = NoRoute
    BY <2>1
  <2>4. call' = [call EXCEPT ![a] = k]
    BY <2>1, Here DEF Kept
  <2> HIDE DEF b
  <2>5. /\ k \in Calls /\ k.at = "base" /\ k.n = n /\ k.base = call[a].base /\ k.published = b
        /\ k.seen = call[a].seen
    BY <1>0, <2>n, <2>2 DEF Calls, Later
  <2> HIDE DEF k
  <2>6. Placed(pane[a], k, given[a])
    BY <1>0, <2>3, <2>5, Here DEF Placed
  <2>7. CASE seat[a][n].state # "none"
    <3>1. UNCHANGED <<seat, self>>
      BY <2>1, <2>7
    <3>2. Based(pane[a], self[a], k, given[a])
      BY <1>0, <2>5, Here DEF Based
    <3>3. a \notin reused' => Held(pane[a], seat[a], k, given[a])
      BY <1>0, <2>n, <2>5, <2>7, Here DEF Held, Later
    <3> QED BY <1>0, <2>4, <2>5, <2>6, <3>1, <3>2, <3>3, Shows, Same, Here
  <2>8. CASE seat[a][n].state = "none"
    <3>1. PICK v \in Selves :
            /\ self' = [self EXCEPT ![a] = v] /\ v.base.route \in {NoRoute, given[a]}
            /\ v.base = self[a].base \/ v.base.schema # "none"
      <4>1. CASE self[a].version = 0
        <5> DEFINE v == [self[a] EXCEPT !.version = 1]
        <5>1. v \in Selves /\ v.base = self[a].base /\ self' = [self EXCEPT ![a] = v]
          BY <1>0, <2>1, <2>8, <4>1, Here DEF Selves, Kept
        <5> QED BY <5>1, Here DEF Based
      <4>2. CASE self[a].version # 0
        <5>1. self' = [self EXCEPT ![a] = Recovered(a)]
          BY <2>1, <2>8, <4>2
        <5> QED BY <1>0, <5>1, RecoveredIs
      <4> QED BY <4>1, <4>2
    <3> DEFINE w == [state |-> "reserved", callsign |-> c]
               s == [seat[a] EXCEPT ![n] = w]
    <3>2. w \in Seats /\ w.state = "reserved" /\ w.callsign = c
      BY DEF Seats, Routes
    <3>3. seat' = [seat EXCEPT ![a] = s]
      BY <2>1, <2>8, Here DEF Kept
    <3> HIDE DEF w
    <3>4. /\ s \in [Attempts -> Seats] /\ s[n] = w
          /\ \A m \in Attempts : m # n => s[m] = seat[a][m]
      BY <3>2, Here
    <3> HIDE DEF s
    <3>5. seat'[a] = s /\ \A d \in Shotcallers : d # a => seat'[d] = seat[d]
      BY <3>3, Here DEF Kept
    <3>6. HeldOnce'
      <4>1. \A d \in Shotcallers, m \in Attempts :
              seat[d][m].state \in {"reserved", "active"} => seat[d][m].callsign # c
        BY <2>1, <2>8, NamesFree DEF Taken
      <4>2. \A d \in Shotcallers, m \in Attempts :
              \/ d = a /\ m = n /\ seat'[d][m] = w
              \/ seat'[d][m] = seat[d][m] /\ ~(d = a /\ m = n)
        BY <3>4, <3>5
      <4> QED BY <3>2, <4>1, <4>2 DEF BInv, HeldOnce
    <3>7. Based(pane[a], v, k, given[a])
      BY <1>0, <2>5, <3>1, Here DEF Based
    <3>8. a \notin reused' => Held(pane[a], s, k, given[a])
      <4>1. \A m \in Attempts : seat[a][m].state \in {"reserved", "active"} => s[m] = seat[a][m]
        BY <2>8, <3>4
      <4> QED BY <2>5, <3>2, <3>4, <4>1, Here DEF Held
    <3>9. pane' = [pane EXCEPT ![a] = pane[a]]
      BY <1>0, Same
    <3> QED BY <1>0, <2>4, <2>5, <2>6, <3>1, <3>3, <3>4, <3>6, <3>7, <3>8, <3>9, Moves, Here
  <2> QED BY <2>7, <2>8
<1> QED BY <1>1, <1>2

-----------------------------------------------------------------------------
(* The theorems.                                                           *)

LEMMA BInvNext ==
  ASSUME BInv, [BootstrapNext]_bootstrapVars
  PROVE  BInv'
<1>1. CASE UNCHANGED bootstrapVars
  <2>1. UNCHANGED <<seat, self, pane, given, call, reused>>
    BY <1>1 DEF bootstrapVars
  <2> QED BY <2>1 DEF BInv, Kept, HeldOnce, Fit
<1>2. ASSUME NEW a \in Shotcallers, Step(a) \/ Die(a) \/ Disturb(a),
             reused' = IF Reuses(a) THEN reused \cup {a} ELSE reused
      PROVE  BInv'
  <2>1. reused \subseteq reused' /\ (Reuses(a) => a \in reused')
    BY <1>2
  <2> QED BY <1>2, <2>1, InspectKeeps, RefreshKeeps, ReserveKeeps, TakeBaselineKeeps, TakeAttemptKeeps, CheckKeeps,
     RenameKeeps, TitleKeeps, StableKeeps, ActivateKeeps, RestoreAdoptedKeeps, UnrouteKeeps,
     UntitleKeeps, UntokenKeeps, RollbackKeeps, DieKeeps, DisturbKeeps DEF Step
<1> QED BY <1>1, <1>2 DEF BootstrapNext

LEMMA BInvAlways == BootstrapSpec => []BInv
<1>1. BInv /\ [BootstrapNext]_bootstrapVars => BInv'
  BY BInvNext
<1> QED BY BInvInit, <1>1, PTL DEF BootstrapSpec

\* A pane carries an alias of League's only with the assignment that holds it,
\* wherever an invocation dies or is disturbed, for every agent none of whose
\* rolled-back assignments was taken up again; and no two assignments hold one
\* callsign (shotcaller_bootstrap.py, allocate_callsign).
THEOREM AliasesArePaired == BootstrapSpec => []AliasIsPairedUnlessReused
<1>1. BInv => AliasIsPairedUnlessReused
  BY DEF BInv, Fit, Held, HeldOnce, AliasIsPairedUnlessReused, Paired
<1> QED BY <1>1, BInvAlways, PTL

\* A reservation is rolled back only over a pane that shows neither a route of
\* League's nor its title, even when assignments are reused (restore,
\* rollback_callsign).
THEOREM RollbacksAreProved == BootstrapSpec => RollbackIsProved
<1> DEFINE Body == \A a \in Shotcallers, n \in Attempts :
       seat[a][n].state = "reserved" /\ seat'[a][n].state = "rolled_back" =>
         /\ pane[a].route \in {NoRoute, given[a]}
         /\ pane[a].shown # "league"
         /\ pane[a].owner # n
<1>1. BInv /\ [BootstrapNext]_bootstrapVars => [Body]_bootstrapVars
  <2> SUFFICES ASSUME BInv, BootstrapNext, NEW a \in Shotcallers, NEW n \in Attempts,
                      seat[a][n].state = "reserved", seat'[a][n].state = "rolled_back"
               PROVE  /\ pane[a].route \in {NoRoute, given[a]}
                      /\ pane[a].shown # "league"
                      /\ pane[a].owner # n
    OBVIOUS
  <2>1. PICK b \in Shotcallers : Step(b) \/ Die(b) \/ Disturb(b)
    BY DEF BootstrapNext
  <2>2. seat' # seat
    OBVIOUS
  <2>3. Reserve(b) \/ Activate(b) \/ Rollback(b)
    BY <2>1, <2>2 DEF Step, Inspect, RefreshRoute, TakeBaseline, TakeAttempt, Check, Rename, Title, Stable,
       RestoreAdopted, Unroute, Untitle, Untoken, Die, Disturb
  <2>4. ASSUME NEW m \in Attempts, NEW w, seat' = [seat EXCEPT ![b][m] = w], w.state # "rolled_back"
        PROVE  FALSE
    BY <2>4 DEF BInv, Kept
  <2>5. ~Reserve(b)
    <3>1. ASSUME Reserve(b) PROVE FALSE
      <4>1. PICK c \in Callsigns : seat' = [seat EXCEPT ![b][call[b].n] = [state |-> "reserved", callsign |-> c]]
        BY <2>2, <3>1 DEF Reserve
      <4>2. call[b].n \in Attempts
        BY <3>1, Here DEF Reserve, Placed
      <4> QED BY <2>4, <4>1, <4>2
    <3> QED BY <3>1
  <2>6. ~Activate(b)
    <3>1. ASSUME Activate(b) PROVE FALSE
      <4>1. seat' = [seat EXCEPT ![b][call[b].n] = [seat[b][call[b].n] EXCEPT !.state = "active"]]
        BY <2>2, <3>1, Here DEF Activate, Kept
      <4>2. call[b].n \in Attempts /\ seat[b][call[b].n] \in Seats
        BY <3>1, Here DEF Activate, Placed
      <4>3. [seat[b][call[b].n] EXCEPT !.state = "active"].state = "active"
        BY <4>2 DEF Seats
      <4> QED BY <2>4, <4>1, <4>2, <4>3
    <3> QED BY <3>1
  <2>7. Rollback(b)
    BY <2>3, <2>5, <2>6
  <2>8. /\ call[b].n \in Attempts /\ pane[b].route \in {NoRoute, given[b]}
        /\ pane[b].shown # "league" /\ pane[b].owner # call[b].n
    BY <2>7, Here DEF Rollback, Placed
  <2>9. seat' = [seat EXCEPT ![b][call[b].n].state = "rolled_back"]
    BY <2>2, <2>7 DEF Rollback
  <2>10. a = b /\ n = call[b].n
    BY <2>8, <2>9 DEF BInv, Kept
  <2> QED BY <2>8, <2>10
<1> QED BY <1>1, BInvAlways, PTL DEF BootstrapSpec, RollbackIsProved
=============================================================================
