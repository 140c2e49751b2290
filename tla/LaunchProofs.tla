---------------------------- MODULE LaunchProofs ----------------------------
(***************************************************************************)
(* What is proved of Launch for any number of assignments, callsigns and   *)
(* launchers: the rows of an assignment agree, an acceptance is final, and *)
(* the callsign queue implements the pool.                                 *)
(***************************************************************************)
EXTENDS LaunchProperties, FiniteSetTheorems, SequenceTheorems, TLAPS

-----------------------------------------------------------------------------
(* The order of the callsign queue.                                        *)

\* An entry that leaves the order leaves the others where they were.
LEMMA RemovalKeepsOrder ==
  ASSUME NEW S, NEW s \in Seq(S), IsInjective(s), NEW i \in DOMAIN s
  PROVE  /\ RemoveAt(s, i) \in Seq(S)
         /\ IsInjective(RemoveAt(s, i))
         /\ ToSet(RemoveAt(s, i)) = ToSet(s) \ {s[i]}
<1> DEFINE n == Len(s)
           u == SubSeq(s, 1, i - 1)
           w == SubSeq(s, i + 1, n)
           r == u \o w
<1>1. n \in Nat /\ DOMAIN s = 1..n /\ i \in 1..n /\ \A k \in 1..n : s[k] \in S
  BY LenProperties, ElementOfSeq
<1>2. /\ u \in Seq(S) /\ Len(u) = i - 1
      /\ \A k \in 1..(i - 1) : u[k] = s[k]
  <2>1. \A k \in 1..(i - 1) : s[k] \in S
    BY <1>1
  <2>2. 1 \in Int /\ i - 1 \in Int
    BY <1>1
  <2> HIDE DEF n
  <2>3. /\ u \in Seq(S) /\ Len(u) = IF 1 <= i - 1 THEN (i - 1) - 1 + 1 ELSE 0
        /\ \A k \in 1..((i - 1) - 1 + 1) : u[k] = s[1 + k - 1]
    BY <2>1, <2>2, SubSeqProperties
  <2> QED BY <2>3, <1>1
<1>3. /\ w \in Seq(S) /\ Len(w) = n - i
      /\ \A k \in 1..(n - i) : w[k] = s[i + k]
  <2>1. \A k \in (i + 1)..n : s[k] \in S
    BY <1>1
  <2>2. i + 1 \in Int /\ n \in Int
    BY <1>1
  <2> HIDE DEF n
  <2>3. /\ w \in Seq(S) /\ Len(w) = IF i + 1 <= n THEN n - (i + 1) + 1 ELSE 0
        /\ \A k \in 1..(n - (i + 1) + 1) : w[k] = s[(i + 1) + k - 1]
    BY <2>1, <2>2, SubSeqProperties
  <2> QED BY <2>3, <1>1
<1> HIDE DEF n, u, w
<1>4. /\ r \in Seq(S) /\ Len(r) = n - 1
      /\ \A k \in 1..(n - 1) : r[k] = IF k <= i - 1 THEN s[k] ELSE s[k + 1]
  <2>1. /\ r \in Seq(S) /\ Len(r) = Len(u) + Len(w)
        /\ \A k \in 1..(Len(u) + Len(w)) : r[k] = IF k <= Len(u) THEN u[k] ELSE w[k - Len(u)]
    BY <1>2, <1>3, ConcatProperties
  <2>2. Len(r) = n - 1
    BY <2>1, <1>1, <1>2, <1>3
  <2>3. ASSUME NEW k \in 1..(n - 1)
        PROVE  r[k] = IF k <= i - 1 THEN s[k] ELSE s[k + 1]
    <3>1. r[k] = IF k <= i - 1 THEN u[k] ELSE w[k - (i - 1)]
      BY <2>1, <1>1, <1>2, <1>3
    <3>2. CASE k <= i - 1
      BY <3>1, <3>2, <1>1, <1>2
    <3>3. CASE ~(k <= i - 1)
      <4>1. k - (i - 1) \in 1..(n - i) /\ i + (k - (i - 1)) = k + 1
        BY <3>3, <1>1
      <4> QED BY <3>1, <3>3, <4>1, <1>3
    <3> QED BY <3>2, <3>3
  <2> QED BY <2>1, <2>2, <2>3
<1>5. RemoveAt(s, i) = r
  BY DEF RemoveAt, u, w, n
<1>6. DOMAIN r = 1..(n - 1)
  BY <1>4, LenProperties
<1>7. \A k \in 1..(n - 1) : k \in 1..n /\ k + 1 \in 1..n
  BY <1>1
<1> DEFINE old(k) == IF k <= i - 1 THEN k ELSE k + 1
<1>8. \A k \in 1..(n - 1) : r[k] = s[old(k)] /\ old(k) \in 1..n /\ old(k) # i
  BY <1>4, <1>7, <1>1
<1>9. \A k, l \in 1..(n - 1) : old(k) = old(l) => k = l
  BY <1>1
<1>10. \A k \in 1..n : k # i => \E l \in 1..(n - 1) : old(l) = k
  <2> SUFFICES ASSUME NEW k \in 1..n, k # i PROVE \E l \in 1..(n - 1) : old(l) = k
    OBVIOUS
  <2>1. CASE k <= i - 1
    <3>1. k \in 1..(n - 1) /\ old(k) = k
      BY <2>1, <1>1
    <3> QED BY <3>1
  <2>2. CASE ~(k <= i - 1)
    <3>1. k - 1 \in 1..(n - 1) /\ old(k - 1) = k
      BY <2>2, <1>1
    <3> QED BY <3>1
  <2> QED BY <2>1, <2>2
<1> HIDE DEF old, r
<1>11. IsInjective(r)
  <2>1. \A k, l \in 1..n : s[k] = s[l] => k = l
    BY <1>1 DEF IsInjective
  <2> QED BY <2>1, <1>6, <1>8, <1>9 DEF IsInjective
<1>12. ToSet(r) = ToSet(s) \ {s[i]}
  <2>1. \A k, l \in 1..n : s[k] = s[l] => k = l
    BY <1>1 DEF IsInjective
  <2>2. ToSet(r) = {r[k] : k \in 1..(n - 1)}
    BY <1>6 DEF ToSet
  <2>3. ToSet(s) = {s[k] : k \in 1..n}
    BY <1>1 DEF ToSet
  <2>4. ASSUME NEW x \in ToSet(r) PROVE x \in ToSet(s) \ {s[i]}
    <3>1. PICK k \in 1..(n - 1) : x = r[k]
      BY <2>2
    <3> QED BY <3>1, <1>8, <1>1, <2>1, <2>3
  <2>5. ASSUME NEW x \in ToSet(s), x # s[i] PROVE x \in ToSet(r)
    <3>1. PICK k \in 1..n : x = s[k]
      BY <2>3
    <3>2. PICK l \in 1..(n - 1) : old(l) = k
      BY <3>1, <2>5, <1>10
    <3> QED BY <3>1, <3>2, <1>8, <2>2
  <2> QED BY <2>4, <2>5
<1> QED BY <1>4, <1>5, <1>11, <1>12

\* An entry that is not in the order may take its tail.
LEMMA AppendKeepsOrder ==
  ASSUME NEW S, NEW s \in Seq(S), IsInjective(s), NEW e \in S, e \notin ToSet(s)
  PROVE  /\ Append(s, e) \in Seq(S)
         /\ IsInjective(Append(s, e))
         /\ ToSet(Append(s, e)) = ToSet(s) \cup {e}
<1> DEFINE n == Len(s)
           r == Append(s, e)
<1>1. /\ n \in Nat /\ DOMAIN s = 1..n
      /\ r \in Seq(S) /\ DOMAIN r = 1..(n + 1)
      /\ \A k \in 1..n : r[k] = s[k]
      /\ r[n + 1] = e
  BY LenProperties, AppendProperties
<1>2. \A k \in 1..(n + 1) : k \in 1..n \/ k = n + 1
  BY <1>1
<1>3. \A k \in 1..n : s[k] # e /\ k \in 1..(n + 1) /\ k # n + 1
  BY <1>1 DEF ToSet
<1>4. \A k, l \in 1..n : s[k] = s[l] => k = l
  BY <1>1 DEF IsInjective
<1>5. n + 1 \in 1..(n + 1)
  BY <1>1
<1> HIDE DEF n, r
<1>6. IsInjective(r)
  BY <1>1, <1>2, <1>3, <1>4 DEF IsInjective
<1>7. ToSet(r) = ToSet(s) \cup {e}
  <2>1. \A x \in ToSet(r) : x \in ToSet(s) \/ x = e
    BY <1>1, <1>2 DEF ToSet
  <2>2. \A x \in ToSet(s) : x \in ToSet(r)
    BY <1>1, <1>3 DEF ToSet
  <2>3. e \in ToSet(r)
    BY <1>1, <1>5 DEF ToSet
  <2> QED BY <2>1, <2>2, <2>3
<1> QED BY <1>1, <1>6, <1>7 DEF r
-----------------------------------------------------------------------------
(* The inductive invariant.                                                *)

Lent(a, c) == reservation[a].callsign = c /\ reservation[a].state \in {"reserved", "active"}

\* How far the rows of an assignment are says how far the others are.
RowsFollow ==
  \A a \in Assignments :
    /\ reservation[a].state = "none" <=> assignment[a].state = "none"
    /\ reservation[a].state # "none" => reservation[a].callsign \in Callsigns
    /\ reservation[a].state \in {"active", "released"} <=> accepted[a] # NoLauncher
    /\ accepted[a] = NoLauncher => runtime[a] = "none" /\ assignment[a].state # "active"
    /\ accepted[a] # NoLauncher => assignment[a].state \in {"active", "cleanup_pending", "blocked"}
    /\ runtime[a] = "active" => reservation[a].state = "active"

\* The queue and the reservations agree on what is lent.
SlotsFollow ==
  /\ \A a \in Assignments : reservation[a].state \in {"reserved", "active"} =>
       slot[reservation[a].callsign].state = reservation[a].state
  /\ \A c \in Callsigns : slot[c].state # "available" => \E a \in Assignments : Lent(a, c)

LentOnce ==
  \A c \in Callsigns : \A a, b \in Assignments : Lent(a, c) /\ Lent(b, c) => a = b

\* A failure is named when the assignment fails, and not before.
FailuresNamed ==
  \A a \in Assignments :
    /\ assignment[a].state \in {"cleanup_pending", "blocked"} => assignment[a].failure # "none"
    /\ assignment[a].state \in {"none", "pending", "launching"} =>
         /\ assignment[a].failure = "none"
         /\ cleanup[a] = [state |-> "none", policy |-> "none"]

TablesInv ==
  /\ TablesType /\ RowsFollow /\ SlotsFollow /\ LentOnce
  /\ FailuresNamed /\ ActiveIsWhole /\ CleanupIsAccounted

\* What a launcher relies on between its transactions.
JobFollows(p) ==
  LET a == job[p].a IN
  /\ job[p].pc # "idle" => a \in Assignments
  /\ job[p].pc \notin {"idle", "prepare", "done", "dead"} => reservation[a].state # "none"
  /\ endpoint[p] # "none" => job[p].pc # "idle" /\ reservation[a].state # "none"
  /\ job[p].pc \in {"clean", "cleanup", "close", "release", "settle"} =>
       assignment[a].state \in {"cleanup_pending", "blocked"}
  /\ job[p].pc \in {"refuse", "block"} => job[p].class # "none"

JobsFollow == \A p \in Launchers : JobFollows(p)

\* The accepted endpoint is one that a launcher of the assignment opened.
AcceptedFollow ==
  \A a \in Assignments : accepted[a] # NoLauncher =>
    job[accepted[a]].pc # "idle" /\ job[accepted[a]].a = a

LInv == TablesInv /\ TypeOK /\ JobsFollow /\ AcceptedFollow

-----------------------------------------------------------------------------
(* What a step of Launch writes in the tables.                             *)

Prepares(a) ==
  /\ assignment[a].state = "none"
  /\ \E names \in SUBSET Callsigns : PrepareNew(a, names)

Marks(a) == assignment[a].state = "pending" /\ MarkedLaunching(a)

Activates(a) == \E p \in Launchers, v \in Nat : MayActivate(a, v) /\ Activated(a, p)

Blocks(a) ==
  \E v \in Nat, class \in Failures, required \in BOOLEAN, proven \in BOOLEAN :
    MayBlock(a, v, class, required, proven) /\ Blocked(a, class, required, proven)

Records(a) == assignment[a].state = "active" /\ ContextRecorded(a)

Fails(a) ==
  /\ assignment[a].state = "active"
  /\ \/ FailedAfterActivation(a, "context", "failed_launch_context")
     \/ FailedAfterActivation(a, "title", "failed_launch_title_validation")

Closes(a) ==
  /\ assignment[a].state \in {"cleanup_pending", "blocked"}
  /\ MayCloseRuntime(a) /\ ClosedRuntime(a)

Releases(a) ==
  /\ assignment[a].state \in {"cleanup_pending", "blocked"}
  /\ MayRelease(a, LaunchCleanup) /\ Released(a, LaunchCleanup)

Settles(a) ==
  \E v \in Nat : MaySettleLaunch(a, v, LaunchCleanup) /\ LaunchSettled(a, LaunchCleanup)

Reports(a) ==
  \E s \in {"in_progress", "completed", "blocked"} : MayTransition(a, s) /\ Transitioned(a, s)

Observes(a) ==
  /\ assignment[a].state = "active" /\ reservation[a].state = "active"
  /\ runtime' \in {[runtime EXCEPT ![a] = "active"], [runtime EXCEPT ![a] = "failed"]}
  /\ UNCHANGED <<assignment, accepted, context, task, cleanup, order, slot, reservation>>

Reconciles(a) == assignment[a].state = "active" /\ runtime[a] # "active" /\ Reconciled(a)

RollsBack(a) ==
  /\ assignment[a].state = "cleanup_pending"
  /\ reservation[a].state = "reserved"
  /\ RolledBack(a, FailureDigest(assignment[a].failure, TRUE))
  /\ UNCHANGED <<assignment, accepted, context, task, cleanup, runtime>>

Writes(a) ==
  \/ Prepares(a) \/ Marks(a) \/ Activates(a) \/ Blocks(a) \/ Records(a) \/ Fails(a)
  \/ Closes(a) \/ Releases(a) \/ Settles(a) \/ Reports(a) \/ Observes(a)
  \/ Reconciles(a) \/ RollsBack(a)

\* Every step is one of these transactions or leaves the tables alone.
LEMMA StepWrites ==
  ASSUME LInv, [Next]_vars
  PROVE  UNCHANGED tables \/ \E a \in Assignments : Writes(a)
<1> DEFINE Goal == UNCHANGED tables \/ \E a \in Assignments : Writes(a)
<1> SUFFICES Goal
  OBVIOUS
<1>1. /\ TablesType /\ job \in [Launchers -> Jobs]
      /\ \A p \in Launchers : JobFollows(p)
  BY DEF LInv, TypeOK, TablesInv, JobsFollow
<1>2. ASSUME NEW p \in Launchers, job[p].pc # "idle"
      PROVE  /\ job[p].a \in Assignments /\ job[p].version \in Nat
             /\ job[p].names \in SUBSET Callsigns
             /\ job[p].class \in Failures \cup {"none"}
             /\ job[p].required \in BOOLEAN /\ job[p].proven \in BOOLEAN
  BY <1>1, <1>2 DEF JobFollows, Jobs
<1>3. \A a \in Assignments : assignment[a].version \in Nat
  BY <1>1 DEF TablesType, AssignmentRows
<1>4. ASSUME NEW p \in Launchers, Prepare(p) PROVE Goal
  <2>1. job[p].pc # "idle"
    BY <1>4 DEF Prepare, At
  <2>2. CASE Selectable(job[p].names) # {}
    <3>1. Prepares(job[p].a)
      BY <1>2, <1>4, <2>1, <2>2 DEF Prepare, Prepares
    <3> QED BY <1>2, <2>1, <3>1 DEF Writes
  <2>3. CASE Selectable(job[p].names) = {}
    BY <1>4, <2>3 DEF Prepare
  <2> QED BY <2>2, <2>3
<1>5. ASSUME NEW p \in Launchers, MarkLaunching(p) PROVE Goal
  <2>1. job[p].pc # "idle"
    BY <1>5 DEF MarkLaunching, At
  <2>2. UNCHANGED tables \/ Marks(job[p].a)
    BY <1>5 DEF MarkLaunching, Marks
  <2> QED BY <1>2, <2>1, <2>2 DEF Writes
<1>6. ASSUME NEW p \in Launchers, RefuseLaunch(p) PROVE Goal
  <2>1. job[p].pc = "refuse"
    BY <1>6 DEF RefuseLaunch, At
  <2>2. job[p].class \in Failures
    BY <1>1, <1>2, <2>1 DEF JobFollows
  <2>3. UNCHANGED tables \/ Blocks(job[p].a)
    BY <1>2, <1>6, <2>1, <2>2 DEF RefuseLaunch, Blocks
  <2> QED BY <1>2, <2>1, <2>3 DEF Writes
<1>7. ASSUME NEW p \in Launchers, BlockLaunch(p) PROVE Goal
  <2>1. job[p].pc = "block"
    BY <1>7 DEF BlockLaunch, At
  <2>2. job[p].class \in Failures
    BY <1>1, <1>2, <2>1 DEF JobFollows
  <2>3. UNCHANGED tables \/ Blocks(job[p].a)
    BY <1>2, <1>7, <2>1, <2>2 DEF BlockLaunch, Blocks
  <2> QED BY <1>2, <2>1, <2>3 DEF Writes
<1>8. ASSUME NEW p \in Launchers, Activate(p) PROVE Goal
  <2>1. job[p].pc # "idle"
    BY <1>8 DEF Activate, At
  <2>2. UNCHANGED tables \/ Activates(job[p].a)
    BY <1>2, <1>8, <2>1 DEF Activate, Activates
  <2> QED BY <1>2, <2>1, <2>2 DEF Writes
<1>9. ASSUME NEW p \in Launchers, RecordContext(p) PROVE Goal
  <2>1. job[p].pc # "idle"
    BY <1>9 DEF RecordContext, At
  <2>2. UNCHANGED tables \/ Records(job[p].a)
    BY <1>9 DEF RecordContext, MayRecordContext, Records
  <2> QED BY <1>2, <2>1, <2>2 DEF Writes
<1>10. ASSUME NEW p \in Launchers, FailContext(p) \/ FailTitle(p) PROVE Goal
  <2>1. job[p].pc # "idle"
    BY <1>10 DEF FailContext, FailTitle, At
  <2>2. UNCHANGED tables \/ Fails(job[p].a)
    BY <1>10 DEF FailContext, FailTitle, MayFailContext, Fails
  <2> QED BY <1>2, <2>1, <2>2 DEF Writes
<1>11. ASSUME NEW p \in Launchers, CloseRuntime(p) \/ ReleaseCallsign(p) \/ SettleLaunch(p) PROVE Goal
  <2>1. job[p].pc \in {"close", "release", "settle"}
    BY <1>11 DEF CloseRuntime, ReleaseCallsign, SettleLaunch, At
  <2>2. assignment[job[p].a].state \in {"cleanup_pending", "blocked"}
    BY <1>1, <2>1 DEF JobFollows
  <2>3. UNCHANGED tables \/ Closes(job[p].a) \/ Releases(job[p].a) \/ Settles(job[p].a)
    BY <1>2, <1>11, <2>1, <2>2
       DEF CloseRuntime, ReleaseCallsign, SettleLaunch, Closes, Releases, Settles
  <2> QED BY <1>2, <2>1, <2>3 DEF Writes
<1>12. ASSUME NEW p \in Launchers, LauncherStep(p) \/ KillLauncher(p) \/ EndpointExits(p) PROVE Goal
  BY <1>4, <1>5, <1>6, <1>7, <1>8, <1>9, <1>10, <1>11, <1>12
     DEF LauncherStep, PrepareAgain, PlaceEndpoint, StartAgent, UndoLaunch, CleanLaunch,
         DeliverContext, CleanContext, VerifyTitle, KillLauncher, EndpointExits
<1>13. ASSUME NEW a \in Assignments, NEW s \in {"in_progress", "completed", "blocked"}, ReportTask(a, s)
       PROVE  Goal
  BY <1>13 DEF ReportTask, Reports, Writes
<1>14. ASSUME NEW a \in Assignments,
              ObserveRuntime(a) \/ ReconcileRuntime(a) \/ OperatorRollback(a) \/ OperatorSettles(a)
       PROVE  Goal
  <2>1. CASE ObserveRuntime(a)
    <3>1. Observes(a)
      BY <2>1 DEF ObserveRuntime, Observes
    <3> QED BY <3>1 DEF Writes
  <2>2. CASE ReconcileRuntime(a)
    BY <2>2 DEF ReconcileRuntime, Reconciles, Writes
  <2>3. CASE OperatorRollback(a)
    BY <2>3 DEF OperatorRollback, RollsBack, Writes
  <2>4. CASE OperatorSettles(a)
    BY <2>4, <1>3 DEF OperatorSettles, Closes, Releases, Settles, Writes
  <2> QED BY <1>14, <2>1, <2>2, <2>3, <2>4
<1>15. ASSUME NEW a \in Assignments, OperatorBlock(a) PROVE Goal
  <2>1. assignment[a].failure \in Failures
    BY <1>15 DEF LInv, TablesInv, TablesType, AssignmentRows, FailuresNamed, OperatorBlock
  <2>2. Blocks(a)
    BY <1>3, <1>15, <2>1 DEF OperatorBlock, Blocks
  <2> QED BY <2>2 DEF Writes
<1>16. ASSUME NEW p \in Launchers, NEW a \in Assignments, Start(p, a) PROVE Goal
  BY <1>16 DEF Start
<1>17. CASE UNCHANGED vars
  BY <1>17 DEF vars
<1> QED BY <1>12, <1>13, <1>14, <1>15, <1>16, <1>17 DEF Next

-----------------------------------------------------------------------------
(* The tables keep their types.                                            *)

\* Which transactions write which tables.
LEMMA WriteFrame ==
  ASSUME NEW a \in Assignments, Writes(a)
  PROVE  /\ Activates(a) \/ UNCHANGED accepted
         /\ Records(a) \/ UNCHANGED context
         /\ Activates(a) \/ Closes(a) \/ Observes(a) \/ UNCHANGED runtime
         /\ \/ Prepares(a) \/ Marks(a) \/ Activates(a) \/ Blocks(a) \/ Fails(a) \/ Reports(a)
            \/ Reconciles(a) \/ UNCHANGED task
         /\ \/ Prepares(a) \/ Activates(a) \/ Blocks(a) \/ Releases(a) \/ RollsBack(a)
            \/ UNCHANGED <<order, slot, reservation>>
<1>1. CASE Prepares(a)
  BY <1>1 DEF Prepares, PrepareNew
<1>2. CASE Marks(a)
  BY <1>2 DEF Marks, MarkedLaunching
<1>3. CASE Activates(a)
  BY <1>3 DEF Activates, Activated
<1>4. CASE Blocks(a)
  BY <1>4 DEF Blocks, Blocked
<1>5. CASE Records(a)
  BY <1>5 DEF Records, ContextRecorded
<1>6. CASE Fails(a)
  BY <1>6 DEF Fails, FailedAfterActivation
<1>7. CASE Closes(a)
  BY <1>7 DEF Closes, ClosedRuntime
<1>8. CASE Releases(a)
  BY <1>8 DEF Releases, Released
<1>9. CASE Settles(a)
  BY <1>9 DEF Settles, LaunchSettled
<1>10. CASE Reports(a)
  BY <1>10 DEF Reports, Transitioned
<1>11. CASE Observes(a)
  BY <1>11 DEF Observes
<1>12. CASE Reconciles(a)
  BY <1>12 DEF Reconciles, Reconciled
<1>13. CASE RollsBack(a)
  BY <1>13 DEF RollsBack
<1> QED BY <1>1, <1>2, <1>3, <1>4, <1>5, <1>6, <1>7, <1>8, <1>9, <1>10, <1>11, <1>12, <1>13 DEF Writes

LEMMA Literals ==
  /\ NoDigest \in Digests /\ LaunchCleanup \in Digests
  /\ \A class \in Failures, proven \in BOOLEAN : FailureDigest(class, proven) \in Digests
  /\ \A required, proven \in BOOLEAN : Target(required, proven) \in {"cleanup_pending", "blocked"}
<1>1. NoDigest \in Digests
  BY DEF NoDigest, Digests
<1>2. LaunchCleanup \in Digests
  BY DEF LaunchCleanup, Digests
<1>3. \A class \in Failures, proven \in BOOLEAN : FailureDigest(class, proven) \in Digests
  BY DEF FailureDigest, Digests
<1>4. \A required, proven \in BOOLEAN : Target(required, proven) \in {"cleanup_pending", "blocked"}
  BY DEF Target
<1> QED BY <1>1, <1>2, <1>3, <1>4

\* Any of the changes a transaction makes to a row gives a row.
LEMMA AssignmentRowsClosed ==
  ASSUME NEW r \in AssignmentRows
  PROVE  /\ r.version \in Nat /\ r.receipt \in Digests /\ r.failure \in Failures \cup {"none"}
         /\ \A s \in {"pending", "launching", "active", "cleanup_pending", "blocked"}, n \in Nat :
              /\ [r EXCEPT !.state = s, !.version = n] \in AssignmentRows
              /\ \A f \in Failures :
                   [r EXCEPT !.state = s, !.version = n, !.failure = f] \in AssignmentRows
              /\ \A d \in Digests :
                   [r EXCEPT !.state = s, !.version = n, !.receipt = d] \in AssignmentRows
              /\ \A f \in Failures, d \in Digests :
                   [state |-> s, version |-> n, failure |-> f, receipt |-> d] \in AssignmentRows
         /\ \A n \in Nat : [r EXCEPT !.version = n] \in AssignmentRows
BY DEF AssignmentRows

LEMMA AssignmentTypeStep ==
  ASSUME TablesType, NEW a \in Assignments, Writes(a)
  PROVE  assignment' \in [Assignments -> AssignmentRows]
<1> DEFINE r == assignment[a]
<1>1. assignment \in [Assignments -> AssignmentRows] /\ r \in AssignmentRows
  BY DEF TablesType
<1>2. r.version + 1 \in Nat
  BY <1>1 DEF AssignmentRows
<1>3. ASSUME NEW x \in AssignmentRows, assignment' = [assignment EXCEPT ![a] = x]
      PROVE  assignment' \in [Assignments -> AssignmentRows]
  BY <1>1, <1>3
<1>4. CASE Prepares(a)
  <2>1. assignment' = [assignment EXCEPT ![a] = [r EXCEPT !.state = "pending", !.version = 1]]
    BY <1>1, <1>4 DEF Prepares, PrepareNew
  <2> HIDE DEF r
  <2>2. [r EXCEPT !.state = "pending", !.version = 1] \in AssignmentRows
    BY <1>1, AssignmentRowsClosed
  <2> QED BY <1>3, <2>1, <2>2
<1>5. CASE Marks(a) \/ Activates(a)
  <2>1. \E s \in {"launching", "active"} :
          assignment' = [assignment EXCEPT ![a] = [r EXCEPT !.state = s, !.version = r.version + 1]]
    BY <1>1, <1>5 DEF Marks, MarkedLaunching, Activates, Activated
  <2> HIDE DEF r
  <2>2. \A s \in {"launching", "active"} :
          [r EXCEPT !.state = s, !.version = r.version + 1] \in AssignmentRows
    BY <1>1, <1>2, AssignmentRowsClosed
  <2> QED BY <1>3, <2>1, <2>2
<1>6. CASE Blocks(a)
  <2>1. PICK v \in Nat, class \in Failures, required \in BOOLEAN, proven \in BOOLEAN :
          Blocked(a, class, required, proven)
    BY <1>6 DEF Blocks
  <2> DEFINE d == IF Target(required, proven) = "blocked" /\ proven /\ cleanup[a].state # "none"
                    THEN FailureDigest(class, proven) ELSE r.receipt
             x == [state |-> Target(required, proven), version |-> r.version + 1,
                   failure |-> class, receipt |-> d]
  <2>2. assignment' = [assignment EXCEPT ![a] = x]
    BY <1>1, <2>1 DEF Blocked
  <2>3. d \in Digests
    BY <1>1, Literals, AssignmentRowsClosed
  <2>4. Target(required, proven) \in {"cleanup_pending", "blocked"}
    BY Literals
  <2> HIDE DEF d, r
  <2>5. x \in AssignmentRows
    BY <1>1, <1>2, <2>3, <2>4, AssignmentRowsClosed
  <2> QED BY <1>3, <2>2, <2>5
<1>7. CASE Records(a)
  <2>1. assignment' = [assignment EXCEPT ![a] = [r EXCEPT !.version = r.version + 1]]
    BY <1>1, <1>7 DEF Records, ContextRecorded
  <2> HIDE DEF r
  <2> QED BY <1>1, <1>2, <1>3, <2>1, AssignmentRowsClosed
<1>8. CASE Fails(a) \/ Reconciles(a)
  <2>1. \E f \in {"context", "title", "stale_runtime"} :
          assignment' = [assignment EXCEPT ![a] =
            [r EXCEPT !.state = "cleanup_pending", !.version = r.version + 1, !.failure = f]]
    BY <1>1, <1>8 DEF Fails, FailedAfterActivation, Reconciles, Reconciled
  <2> HIDE DEF r
  <2>2. \A f \in {"context", "title", "stale_runtime"} : f \in Failures
    BY DEF Failures
  <2>3. \A f \in {"context", "title", "stale_runtime"} :
          [r EXCEPT !.state = "cleanup_pending", !.version = r.version + 1, !.failure = f]
            \in AssignmentRows
    BY <1>1, <1>2, <2>2, AssignmentRowsClosed
  <2> QED BY <1>3, <2>1, <2>3
<1>9. CASE Settles(a)
  <2>1. assignment' = [assignment EXCEPT ![a] =
          [r EXCEPT !.state = "blocked", !.version = r.version + 1, !.receipt = LaunchCleanup]]
    BY <1>1, <1>9 DEF Settles, LaunchSettled
  <2> HIDE DEF r
  <2>2. [r EXCEPT !.state = "blocked", !.version = r.version + 1, !.receipt = LaunchCleanup]
          \in AssignmentRows
    BY <1>1, <1>2, Literals, AssignmentRowsClosed
  <2> QED BY <1>3, <2>1, <2>2
<1>10. CASE Closes(a) \/ Releases(a) \/ Reports(a) \/ Observes(a) \/ RollsBack(a)
  BY <1>1, <1>10 DEF Closes, ClosedRuntime, Releases, Released, Reports, Transitioned, Observes, RollsBack
<1> QED BY <1>4, <1>5, <1>6, <1>7, <1>8, <1>9, <1>10 DEF Writes

\* What is written to the other rows of an assignment.
LEMMA CleanupTypeStep ==
  ASSUME TablesType, NEW a \in Assignments, Writes(a)
  PROVE  /\ cleanup' \in [Assignments -> CleanupRows]
         /\ accepted' \in [Assignments -> Launchers \cup {NoLauncher}]
         /\ context' \subseteq Assignments
         /\ task' \in [Assignments -> {"none", "pending", "accepted", "in_progress", "completed", "blocked"}]
         /\ runtime' \in [Assignments -> {"none", "active", "failed", "closed"}]
<1>1. /\ cleanup \in [Assignments -> CleanupRows]
      /\ accepted \in [Assignments -> Launchers \cup {NoLauncher}]
      /\ context \subseteq Assignments
      /\ task \in [Assignments -> {"none", "pending", "accepted", "in_progress", "completed", "blocked"}]
      /\ runtime \in [Assignments -> {"none", "active", "failed", "closed"}]
  BY DEF TablesType
<1>2. accepted' \in [Assignments -> Launchers \cup {NoLauncher}]
  <2>1. CASE Activates(a)
    BY <1>1, <2>1 DEF Activates, Activated
  <2> QED BY <1>1, <2>1, WriteFrame
<1>3. context' \subseteq Assignments
  <2>1. CASE Records(a)
    BY <1>1, <2>1 DEF Records, ContextRecorded
  <2> QED BY <1>1, <2>1, WriteFrame
<1>4. runtime' \in [Assignments -> {"none", "active", "failed", "closed"}]
  <2>1. CASE Activates(a)
    BY <1>1, <2>1 DEF Activates, Activated
  <2>2. CASE Closes(a)
    BY <1>1, <2>2 DEF Closes, ClosedRuntime
  <2>3. CASE Observes(a)
    BY <1>1, <2>3 DEF Observes
  <2> QED BY <1>1, <2>1, <2>2, <2>3, WriteFrame
<1>5. task' \in [Assignments -> {"none", "pending", "accepted", "in_progress", "completed", "blocked"}]
  <2>1. CASE Prepares(a)
    BY <1>1, <2>1 DEF Prepares, PrepareNew
  <2>2. CASE Marks(a)
    BY <1>1, <2>2 DEF Marks, MarkedLaunching
  <2>3. CASE Activates(a)
    BY <1>1, <2>3 DEF Activates, Activated
  <2>4. CASE Blocks(a)
    BY <1>1, <2>4 DEF Blocks, Blocked
  <2>5. CASE Fails(a)
    BY <1>1, <2>5 DEF Fails, FailedAfterActivation
  <2>6. CASE Reports(a)
    BY <1>1, <2>6 DEF Reports, Transitioned
  <2>7. CASE Reconciles(a)
    BY <1>1, <2>7 DEF Reconciles, Reconciled, TaskAfterLoss
  <2> QED BY <1>1, <2>1, <2>2, <2>3, <2>4, <2>5, <2>6, <2>7, WriteFrame
<1>6. \A r \in CleanupRows :
        /\ [r EXCEPT !.state = "cleanup_completed"] \in CleanupRows
        /\ [state |-> "pending", policy |-> r.policy] \in CleanupRows
        /\ \A p \in Policies : [state |-> "pending", policy |-> p] \in CleanupRows
  BY DEF CleanupRows
<1>7. {"failed_launch", "failed_launch_context", "failed_launch_title_validation",
       "stale_assignment_runtime", "terminal_task"} \subseteq Policies
  BY DEF Policies
<1>8. cleanup[a] \in CleanupRows
  BY <1>1
<1>9. OwedCleanup(a) \in CleanupRows /\ SettledObligation(a) \in CleanupRows
  BY <1>6, <1>7, <1>8 DEF OwedCleanup, SettledObligation
<1>10. ASSUME NEW r \in CleanupRows, cleanup' = [cleanup EXCEPT ![a] = r]
       PROVE  cleanup' \in [Assignments -> CleanupRows]
  BY <1>1, <1>10
<1>11. cleanup' \in [Assignments -> CleanupRows]
  <2>1. CASE Blocks(a)
    <3>1. \/ cleanup' = [cleanup EXCEPT ![a] = OwedCleanup(a)]
          \/ cleanup' = [cleanup EXCEPT ![a] = SettledObligation(a)]
          \/ cleanup' = [cleanup EXCEPT ![a] = cleanup[a]]
      BY <1>1, <2>1 DEF Blocks, Blocked
    <3> QED BY <3>1, <1>8, <1>9, <1>10
  <2>2. CASE Fails(a) \/ Reconciles(a)
    <3>1. \E p \in {"failed_launch_context", "failed_launch_title_validation", "stale_assignment_runtime"} :
            cleanup' = [cleanup EXCEPT ![a] = [state |-> "pending", policy |-> p]]
      BY <2>2 DEF Fails, FailedAfterActivation, Reconciles, Reconciled
    <3> QED BY <3>1, <1>6, <1>7, <1>8, <1>10
  <2>3. CASE Settles(a)
    <3>1. cleanup' = [cleanup EXCEPT ![a] = [cleanup[a] EXCEPT !.state = "cleanup_completed"]]
      BY <1>1, <2>3 DEF Settles, LaunchSettled
    <3> QED BY <3>1, <1>6, <1>8, <1>10
  <2>4. CASE Reports(a)
    <3>1. \/ cleanup' = [cleanup EXCEPT ![a] = [state |-> "pending", policy |-> "terminal_task"]]
          \/ cleanup' = [cleanup EXCEPT ![a] = cleanup[a]]
      BY <1>1, <2>4 DEF Reports, Transitioned
    <3> QED BY <3>1, <1>6, <1>7, <1>8, <1>10
  <2>5. CASE Prepares(a) \/ Marks(a) \/ Activates(a) \/ Records(a) \/ Closes(a) \/ Releases(a)
                \/ Observes(a) \/ RollsBack(a)
    BY <1>1, <2>5 DEF Prepares, PrepareNew, Marks, MarkedLaunching, Activates, Activated,
       Records, ContextRecorded, Closes, ClosedRuntime, Releases, Released, Observes, RollsBack
  <2> QED BY <2>1, <2>2, <2>3, <2>4, <2>5 DEF Writes
<1> QED BY <1>2, <1>3, <1>4, <1>5, <1>11

-----------------------------------------------------------------------------
(* What a transaction does to the callsign queue.                          *)

queue == <<order, slot, reservation>>

Lends(a, c) == slot[c].state = "available" /\ reservation[a].state = "none" /\ Reserve(a, c)

Serves(a) == reservation[a].state = "reserved" /\ Confirm(a)

Frees(a, d) ==
  /\ reservation[a].state = "reserved"
  /\ slot' = [slot EXCEPT ![reservation[a].callsign] = [state |-> "available", holder |-> NoAssignment]]
  /\ reservation' = [reservation EXCEPT ![a].state = "rolled_back", ![a].digest = d]
  /\ UNCHANGED order

Returns(a, d) ==
  /\ reservation[a].state = "active" /\ runtime[a] # "active"
  /\ slot' = [slot EXCEPT ![reservation[a].callsign] = [state |-> "available", holder |-> NoAssignment]]
  /\ reservation' = [reservation EXCEPT ![a].state = "released", ![a].digest = d]
  /\ order' = Append(order, reservation[a].callsign)

\* The queue is written in four ways.
LEMMA QueueMoves ==
  ASSUME TablesInv, NEW a \in Assignments, Writes(a)
  PROVE  \/ UNCHANGED queue
         \/ Prepares(a) /\ \E c \in Callsigns : Lends(a, c)
         \/ Activates(a) /\ Serves(a)
         \/ (Blocks(a) \/ RollsBack(a)) /\ \E d \in Digests : Frees(a, d)
         \/ Releases(a) /\ Returns(a, LaunchCleanup)
<1>1. CASE Prepares(a)
  <2>1. PICK c \in Callsigns, names \in SUBSET Callsigns : IsFront(c, names) /\ Reserve(a, c)
    BY <1>1 DEF Prepares, PrepareNew
  <2>2. slot[c].state = "available"
    BY <2>1 DEF IsFront, Selectable
  <2>3. reservation[a].state = "none"
    BY <1>1 DEF Prepares, TablesInv, RowsFollow
  <2> QED BY <1>1, <2>1, <2>2, <2>3 DEF Lends
<1>2. CASE Activates(a)
  BY <1>2 DEF Activates, Activated, MayActivate, Serves
<1>3. CASE Blocks(a)
  <2>1. PICK v \in Nat, class \in Failures, required \in BOOLEAN, proven \in BOOLEAN :
          MayBlock(a, v, class, required, proven) /\ Blocked(a, class, required, proven)
    BY <1>3 DEF Blocks
  <2> DEFINE d == FailureDigest(class, proven)
  <2>2. d \in Digests
    BY Literals
  <2>3. CASE Target(required, proven) = "blocked" /\ reservation[a].state # "rolled_back"
    <3>1. reservation[a].state = "reserved"
      BY <2>1, <2>3 DEF MayBlock
    <3>2. RolledBack(a, d)
      BY <2>1, <2>3 DEF Blocked
    <3> HIDE DEF d
    <3>3. Frees(a, d)
      BY <3>1, <3>2 DEF RolledBack, Frees
    <3> QED BY <1>3, <2>2, <3>3
  <2>4. CASE ~(Target(required, proven) = "blocked" /\ reservation[a].state # "rolled_back")
    <3>1. UNCHANGED <<order, slot, reservation>>
      BY <2>1, <2>4 DEF Blocked, RolledBack
    <3> QED BY <3>1 DEF queue
  <2> QED BY <2>3, <2>4
<1>4. CASE RollsBack(a)
  <2> DEFINE d == FailureDigest(assignment[a].failure, TRUE)
  <2>1. assignment[a].failure \in Failures
    BY <1>4 DEF RollsBack, TablesInv, TablesType, AssignmentRows, FailuresNamed
  <2>2. d \in Digests
    BY <2>1, Literals
  <2>3. Frees(a, d)
    BY <1>4 DEF RollsBack, RolledBack, Frees
  <2> QED BY <1>4, <2>2, <2>3
<1>5. CASE Releases(a)
  BY <1>5 DEF Releases, MayRelease, Released, Returns
<1> QED BY <1>1, <1>2, <1>3, <1>4, <1>5, WriteFrame DEF queue

LEMMA QueueTypeStep ==
  ASSUME TablesInv, NEW a \in Assignments, Writes(a)
  PROVE  /\ order' \in Seq(Callsigns) /\ IsInjective(order')
         /\ \A c \in Callsigns : slot'[c].state = "active" <=> c \notin ToSet(order')
         /\ slot' \in [Callsigns -> QueueRows]
         /\ reservation' \in [Assignments -> ReservationRows]
<1> DEFINE k == reservation[a].callsign
           free == [state |-> "available", holder |-> NoAssignment]
<1>1. /\ order \in Seq(Callsigns) /\ IsInjective(order)
      /\ \A c \in Callsigns : slot[c].state = "active" <=> c \notin ToSet(order)
      /\ slot \in [Callsigns -> QueueRows]
      /\ reservation \in [Assignments -> ReservationRows]
  BY DEF TablesInv, TablesType
<1>2. reservation[a].state # "none" => k \in Callsigns
  BY DEF TablesInv, RowsFollow
<1>3. reservation[a].state \in {"reserved", "active"} => slot[k].state = reservation[a].state
  BY DEF TablesInv, SlotsFollow
<1>4. /\ free \in QueueRows /\ free.state = "available"
      /\ [state |-> "active", holder |-> NoAssignment] \in QueueRows
      /\ [state |-> "reserved", holder |-> a] \in QueueRows
  BY DEF QueueRows
<1>5. ASSUME NEW r \in ReservationRows
      PROVE  /\ [r EXCEPT !.state = "active"] \in ReservationRows
             /\ \A d \in Digests :
                  /\ [r EXCEPT !.state = "rolled_back", !.digest = d] \in ReservationRows
                  /\ [r EXCEPT !.state = "released", !.digest = d] \in ReservationRows
                  /\ \A c \in Callsigns :
                       [state |-> "reserved", callsign |-> c, digest |-> d] \in ReservationRows
  BY DEF ReservationRows
<1>6. reservation[a] \in ReservationRows
  BY <1>1
<1>7. CASE UNCHANGED queue
  BY <1>1, <1>7 DEF queue
<1>8. CASE \E c \in Callsigns : Lends(a, c)
  <2>1. PICK c \in Callsigns : Lends(a, c)
    BY <1>8
  <2>2. /\ slot' = [slot EXCEPT ![c] = [state |-> "reserved", holder |-> a]]
        /\ reservation' = [reservation EXCEPT ![a] =
             [state |-> "reserved", callsign |-> c, digest |-> NoDigest]]
        /\ order' = order /\ slot[c].state = "available"
    BY <2>1 DEF Lends, Reserve
  <2>3. [state |-> "reserved", callsign |-> c, digest |-> NoDigest] \in ReservationRows
    BY <1>5, <1>6, Literals
  <2> QED BY <1>1, <1>4, <2>2, <2>3
<1>9. CASE Serves(a)
  <2>1. /\ reservation[a].state = "reserved"
        /\ slot' = [slot EXCEPT ![k] = [state |-> "active", holder |-> NoAssignment]]
        /\ reservation' = [reservation EXCEPT ![a] = [reservation[a] EXCEPT !.state = "active"]]
        /\ \E i \in DOMAIN order : order[i] = k /\ order' = RemoveAt(order, i)
    BY <1>1, <1>9 DEF Serves, Confirm
  <2>2. PICK i \in DOMAIN order : order[i] = k /\ order' = RemoveAt(order, i)
    BY <2>1
  <2>3. order' \in Seq(Callsigns) /\ IsInjective(order') /\ ToSet(order') = ToSet(order) \ {k}
    BY <1>1, <2>2, RemovalKeepsOrder
  <2>4. reservation' \in [Assignments -> ReservationRows]
    BY <1>1, <1>5, <1>6, <2>1
  <2>5. slot' \in [Callsigns -> QueueRows]
    BY <1>1, <1>2, <1>4, <2>1
  <2>6. \A c \in Callsigns : slot'[c].state = "active" <=> c \notin ToSet(order')
    BY <1>1, <1>2, <2>1, <2>3
  <2> QED BY <2>3, <2>4, <2>5, <2>6
<1>10. CASE \E d \in Digests : Frees(a, d)
  <2>1. PICK d \in Digests : Frees(a, d)
    BY <1>10
  <2>2. /\ reservation[a].state = "reserved"
        /\ slot' = [slot EXCEPT ![k] = free]
        /\ reservation' = [reservation EXCEPT ![a] =
             [reservation[a] EXCEPT !.state = "rolled_back", !.digest = d]]
        /\ order' = order
    BY <1>1, <2>1 DEF Frees
  <2>3. reservation' \in [Assignments -> ReservationRows]
    BY <1>1, <1>5, <1>6, <2>2
  <2> QED BY <1>1, <1>2, <1>3, <1>4, <2>2, <2>3
<1>11. CASE Returns(a, LaunchCleanup)
  <2>1. /\ reservation[a].state = "active"
        /\ slot' = [slot EXCEPT ![k] = free]
        /\ reservation' = [reservation EXCEPT ![a] =
             [reservation[a] EXCEPT !.state = "released", !.digest = LaunchCleanup]]
        /\ order' = Append(order, k)
    BY <1>1, <1>11 DEF Returns
  <2>2. reservation' \in [Assignments -> ReservationRows]
    BY <1>1, <1>5, <1>6, <2>1, Literals
  <2>3. k \in Callsigns /\ k \notin ToSet(order)
    BY <1>1, <1>2, <1>3, <2>1
  <2>4. order' \in Seq(Callsigns) /\ IsInjective(order') /\ ToSet(order') = ToSet(order) \cup {k}
    BY <1>1, <2>1, <2>3, AppendKeepsOrder
  <2>5. slot' \in [Callsigns -> QueueRows]
    BY <1>1, <1>4, <2>1, <2>3
  <2>6. \A c \in Callsigns : slot'[c].state = "active" <=> c \notin ToSet(order')
    BY <1>1, <1>4, <2>1, <2>3, <2>4
  <2> QED BY <2>2, <2>4, <2>5, <2>6
<1> QED BY <1>7, <1>8, <1>9, <1>10, <1>11, QueueMoves

\* The queue and the reservations keep agreeing, and no callsign is lent twice.
LEMMA LentStep ==
  ASSUME TablesInv, NEW a \in Assignments, Writes(a)
  PROVE  SlotsFollow' /\ LentOnce'
<1> DEFINE k == reservation[a].callsign
<1>1. /\ slot \in [Callsigns -> QueueRows]
      /\ reservation \in [Assignments -> ReservationRows]
  BY DEF TablesInv, TablesType
<1>2. reservation[a].state # "none" => k \in Callsigns
  BY DEF TablesInv, RowsFollow
<1>3. SlotsFollow /\ LentOnce
  BY DEF TablesInv
<1>4. \A b \in Assignments, c \in Callsigns : Lent(b, c) => slot[c].state = reservation[b].state
  BY <1>3 DEF SlotsFollow, Lent
<1>5. \A b \in Assignments : reservation[b].state \in {"reserved", "active"} =>
        reservation[b].callsign \in Callsigns
  BY DEF TablesInv, RowsFollow
<1>6. CASE UNCHANGED queue
  BY <1>3, <1>6 DEF queue, SlotsFollow, LentOnce, Lent
<1>7. CASE \E c \in Callsigns : Lends(a, c)
  <2>1. PICK c \in Callsigns : Lends(a, c)
    BY <1>7
  <2>2. /\ slot[c].state = "available" /\ reservation[a].state = "none"
        /\ \A e \in Callsigns : slot'[e] = IF e = c THEN [state |-> "reserved", holder |-> a] ELSE slot[e]
        /\ \A b \in Assignments : reservation'[b] =
             IF b = a THEN [state |-> "reserved", callsign |-> c, digest |-> NoDigest] ELSE reservation[b]
    BY <1>1, <2>1 DEF Lends, Reserve
  <2>3. \A b \in Assignments : ~Lent(b, c)
    BY <1>4, <2>2 DEF Lent
  <2>4. \A b \in Assignments, e \in Callsigns :
          Lent(b, e)' <=> IF b = a THEN e = c ELSE Lent(b, e)
    BY <2>2 DEF Lent
  <2>5. LentOnce'
    BY <1>3, <2>3, <2>4 DEF LentOnce
  <2>6. SlotsFollow'
    <3>1. ASSUME NEW b \in Assignments, reservation'[b].state \in {"reserved", "active"}
          PROVE  slot'[reservation'[b].callsign].state = reservation'[b].state
      <4>1. CASE b = a
        BY <2>2, <4>1
      <4>2. CASE b # a
        <5>1. reservation'[b] = reservation[b] /\ reservation[b].callsign \in Callsigns
          BY <1>5, <2>2, <3>1, <4>2
        <5>2. Lent(b, reservation[b].callsign)
          BY <3>1, <5>1 DEF Lent
        <5>3. reservation[b].callsign # c
          BY <2>3, <5>2
        <5> QED BY <1>4, <2>2, <5>1, <5>2, <5>3
      <4> QED BY <4>1, <4>2
    <3>2. ASSUME NEW e \in Callsigns, slot'[e].state # "available"
          PROVE  \E b \in Assignments : Lent(b, e)'
      <4>1. CASE e = c
        BY <2>4, <4>1
      <4>2. CASE e # c
        <5>1. PICK b \in Assignments : Lent(b, e)
          BY <1>3, <2>2, <3>2, <4>2 DEF SlotsFollow
        <5>2. b # a
          BY <2>2, <5>1 DEF Lent
        <5> QED BY <2>4, <5>1, <5>2
      <4> QED BY <4>1, <4>2
    <3> QED BY <3>1, <3>2 DEF SlotsFollow
  <2> QED BY <2>5, <2>6
<1>8. CASE Serves(a)
  <2>1. /\ reservation[a].state = "reserved" /\ k \in Callsigns
        /\ \A e \in Callsigns : slot'[e] = IF e = k THEN [state |-> "active", holder |-> NoAssignment] ELSE slot[e]
        /\ \A b \in Assignments : b # a => reservation'[b] = reservation[b]
        /\ reservation'[a].state = "active" /\ reservation'[a].callsign = k
    BY <1>1, <1>2, <1>8 DEF Serves, Confirm, ReservationRows
  <2>2. \A b \in Assignments, e \in Callsigns : Lent(b, e)' <=> Lent(b, e)
    BY <2>1 DEF Lent
  <2>3. LentOnce'
    BY <1>3, <2>2 DEF LentOnce
  <2>4. Lent(a, k)
    BY <2>1 DEF Lent
  <2>5. ASSUME NEW b \in Assignments, reservation'[b].state \in {"reserved", "active"}
        PROVE  slot'[reservation'[b].callsign].state = reservation'[b].state
    <3>1. CASE b = a
      BY <2>1, <3>1
    <3>2. CASE b # a
      <4>1. reservation'[b] = reservation[b] /\ reservation[b].callsign \in Callsigns
        BY <1>5, <2>1, <2>5, <3>2
      <4>2. Lent(b, reservation[b].callsign)
        BY <2>5, <4>1 DEF Lent
      <4>3. reservation[b].callsign # k
        BY <1>3, <2>1, <2>4, <3>2, <4>1, <4>2 DEF LentOnce
      <4> QED BY <1>4, <2>1, <4>1, <4>2, <4>3
    <3> QED BY <3>1, <3>2
  <2>6. ASSUME NEW e \in Callsigns, slot'[e].state # "available"
        PROVE  \E b \in Assignments : Lent(b, e)'
    <3>1. CASE e = k
      BY <2>2, <2>4, <3>1
    <3>2. CASE e # k
      BY <1>3, <2>1, <2>2, <2>6, <3>2 DEF SlotsFollow
    <3> QED BY <3>1, <3>2
  <2>7. SlotsFollow'
    BY <2>5, <2>6 DEF SlotsFollow
  <2> QED BY <2>3, <2>7
<1>9. CASE \E d \in Digests : Frees(a, d) \/ Returns(a, d)
  <2>1. /\ reservation[a].state \in {"reserved", "active"} /\ k \in Callsigns
        /\ \A e \in Callsigns : slot'[e] = IF e = k THEN [state |-> "available", holder |-> NoAssignment] ELSE slot[e]
        /\ \A b \in Assignments : b # a => reservation'[b] = reservation[b]
        /\ reservation'[a].state \in {"rolled_back", "released"}
    BY <1>1, <1>2, <1>9 DEF Frees, Returns, ReservationRows
  <2>2. \A b \in Assignments, e \in Callsigns : Lent(b, e)' <=> b # a /\ Lent(b, e)
    BY <2>1 DEF Lent
  <2>3. LentOnce'
    BY <1>3, <2>2 DEF LentOnce
  <2>4. Lent(a, k)
    BY <2>1 DEF Lent
  <2>5. ASSUME NEW b \in Assignments, reservation'[b].state \in {"reserved", "active"}
        PROVE  slot'[reservation'[b].callsign].state = reservation'[b].state
    <3>1. b # a /\ reservation'[b] = reservation[b] /\ reservation[b].callsign \in Callsigns
      BY <1>5, <2>1, <2>5
    <3>2. Lent(b, reservation[b].callsign)
      BY <2>5, <3>1 DEF Lent
    <3>3. reservation[b].callsign # k
      BY <1>3, <2>1, <2>4, <3>1, <3>2 DEF LentOnce
    <3> QED BY <1>4, <2>1, <3>1, <3>2, <3>3
  <2>6. ASSUME NEW e \in Callsigns, slot'[e].state # "available"
        PROVE  \E b \in Assignments : Lent(b, e)'
    <3>1. e # k /\ slot'[e] = slot[e]
      BY <2>1, <2>6
    <3>2. PICK b \in Assignments : Lent(b, e)
      BY <1>3, <2>6, <3>1 DEF SlotsFollow
    <3>3. b # a
      BY <3>1, <3>2 DEF Lent
    <3> QED BY <2>2, <3>2, <3>3
  <2>7. SlotsFollow'
    BY <2>5, <2>6 DEF SlotsFollow
  <2> QED BY <2>3, <2>7
<1> QED BY <1>6, <1>7, <1>8, <1>9, QueueMoves, Literals

-----------------------------------------------------------------------------
(* The rows of an assignment.                                              *)

\* What the invariant says of the rows of one assignment.
RowsFit(a) ==
  /\ reservation[a].state = "none" <=> assignment[a].state = "none"
  /\ reservation[a].state # "none" => reservation[a].callsign \in Callsigns
  /\ reservation[a].state \in {"active", "released"} <=> accepted[a] # NoLauncher
  /\ accepted[a] = NoLauncher => runtime[a] = "none" /\ assignment[a].state # "active"
  /\ accepted[a] # NoLauncher => assignment[a].state \in {"active", "cleanup_pending", "blocked"}
  /\ runtime[a] = "active" => reservation[a].state = "active"
  /\ assignment[a].state \in {"cleanup_pending", "blocked"} => assignment[a].failure # "none"
  /\ assignment[a].state \in {"none", "pending", "launching"} =>
       /\ assignment[a].failure = "none"
       /\ cleanup[a] = [state |-> "none", policy |-> "none"]
  /\ assignment[a].state = "active" =>
       /\ accepted[a] # NoLauncher
       /\ reservation[a].state = "active"
       /\ assignment[a].failure = "none"
       /\ cleanup[a].policy \in {"none", "terminal_task"}
  /\ assignment[a].state = "cleanup_pending" => cleanup[a].state = "pending"
  /\ assignment[a].state = "blocked" =>
       /\ reservation[a].state \in {"rolled_back", "released"}
       /\ runtime[a] # "active"
       /\ cleanup[a].state # "pending"

LEMMA RowsOfInvariant ==
  (RowsFollow /\ FailuresNamed /\ ActiveIsWhole /\ CleanupIsAccounted)
    <=> \A a \in Assignments : RowsFit(a)
BY DEF RowsFollow, FailuresNamed, ActiveIsWhole, CleanupIsAccounted, RowsFit

\* A transaction on one assignment leaves the rows of the others alone.
LEMMA OthersStay ==
  ASSUME TablesInv, NEW a \in Assignments, Writes(a), NEW b \in Assignments, b # a
  PROVE  /\ assignment'[b] = assignment[b] /\ accepted'[b] = accepted[b]
         /\ cleanup'[b] = cleanup[b] /\ reservation'[b] = reservation[b]
         /\ runtime'[b] = runtime[b]
<1>1. TablesType
  BY DEF TablesInv
<1>2. reservation'[b] = reservation[b]
  <2>1. reservation \in [Assignments -> ReservationRows]
    BY <1>1 DEF TablesType
  <2>2. CASE UNCHANGED queue
    BY <2>2 DEF queue
  <2>3. CASE \E c \in Callsigns : Lends(a, c)
    BY <2>1, <2>3 DEF Lends, Reserve
  <2>4. CASE Serves(a)
    BY <2>1, <2>4 DEF Serves, Confirm
  <2>5. CASE \E d \in Digests : Frees(a, d)
    BY <2>1, <2>5 DEF Frees
  <2>6. CASE Returns(a, LaunchCleanup)
    BY <2>1, <2>6 DEF Returns
  <2> QED BY <2>2, <2>3, <2>4, <2>5, <2>6, QueueMoves
<1>3. accepted'[b] = accepted[b]
  <2>1. CASE Activates(a)
    BY <1>1, <2>1 DEF TablesType, Activates, Activated
  <2> QED BY <2>1, WriteFrame
<1>4. runtime'[b] = runtime[b]
  <2>1. CASE Activates(a)
    BY <1>1, <2>1 DEF TablesType, Activates, Activated
  <2>2. CASE Closes(a)
    BY <1>1, <2>2 DEF TablesType, Closes, ClosedRuntime
  <2>3. CASE Observes(a)
    BY <1>1, <2>3 DEF TablesType, Observes
  <2> QED BY <2>1, <2>2, <2>3, WriteFrame
<1>5. assignment'[b] = assignment[b] /\ cleanup'[b] = cleanup[b]
  <2>1. CASE Prepares(a)
    BY <1>1, <2>1 DEF TablesType, Prepares, PrepareNew
  <2>2. CASE Marks(a)
    BY <1>1, <2>2 DEF TablesType, Marks, MarkedLaunching
  <2>3. CASE Activates(a)
    BY <1>1, <2>3 DEF TablesType, Activates, Activated
  <2>4. CASE Blocks(a)
    BY <1>1, <2>4 DEF TablesType, Blocks, Blocked
  <2>5. CASE Records(a)
    BY <1>1, <2>5 DEF TablesType, Records, ContextRecorded
  <2>6. CASE Fails(a)
    BY <1>1, <2>6 DEF TablesType, Fails, FailedAfterActivation
  <2>7. CASE Closes(a) \/ Releases(a) \/ Observes(a) \/ RollsBack(a)
    BY <1>1, <2>7 DEF Closes, ClosedRuntime, Releases, Released, Observes, RollsBack
  <2>8. CASE Settles(a)
    BY <1>1, <2>8 DEF TablesType, Settles, LaunchSettled
  <2>9. CASE Reports(a)
    BY <1>1, <2>9 DEF TablesType, Reports, Transitioned
  <2>10. CASE Reconciles(a)
    BY <1>1, <2>10 DEF TablesType, Reconciles, Reconciled
  <2> QED BY <2>1, <2>2, <2>3, <2>4, <2>5, <2>6, <2>7, <2>8, <2>9, <2>10 DEF Writes
<1> QED BY <1>2, <1>3, <1>4, <1>5

\* block_assignment leaves the rows of a failed launch in agreement.
LEMMA BlocksFit ==
  ASSUME TablesInv, NEW a \in Assignments, Blocks(a)
  PROVE  RowsFit(a)'
<1>1. /\ assignment \in [Assignments -> AssignmentRows]
      /\ cleanup \in [Assignments -> CleanupRows]
      /\ reservation \in [Assignments -> ReservationRows]
  BY DEF TablesInv, TablesType
<1>2. RowsFit(a)
  BY RowsOfInvariant DEF TablesInv
<1>3. PICK v \in Nat, class \in Failures, required \in BOOLEAN, proven \in BOOLEAN :
        MayBlock(a, v, class, required, proven) /\ Blocked(a, class, required, proven)
  BY DEF Blocks
<1>4. class # "none"
  BY DEF Failures
<1>5. /\ assignment'[a].state = Target(required, proven) /\ assignment'[a].failure = class
      /\ accepted' = accepted /\ runtime' = runtime
  BY <1>1, <1>3 DEF Blocked
<1>6. assignment[a].state \in {"pending", "launching", "cleanup_pending"}
  BY <1>3 DEF MayBlock
<1>7. CASE Target(required, proven) = "cleanup_pending"
  <2>1. UNCHANGED reservation
    BY <1>3, <1>7 DEF Blocked
  <2>2. cleanup'[a].state = "pending"
    BY <1>1, <1>3, <1>7 DEF Blocked, OwedCleanup
  <2> QED BY <1>2, <1>4, <1>5, <1>6, <1>7, <2>1, <2>2 DEF RowsFit
<1>8. CASE Target(required, proven) = "blocked"
  <2>1. reservation[a].state \in {"reserved", "rolled_back"}
    BY <1>3, <1>8 DEF MayBlock
  <2>2. reservation'[a].state = "rolled_back" /\ reservation'[a].callsign = reservation[a].callsign
    BY <1>1, <1>3, <1>8, <2>1 DEF Blocked, RolledBack, ReservationRows
  <2>3. cleanup'[a] = IF proven THEN SettledObligation(a) ELSE cleanup[a]
    BY <1>1, <1>3, <1>8 DEF Blocked
  <2>4. cleanup[a].state # "none" => proven
    BY <1>3, <1>8 DEF MayBlock, MaySettleBlocked
  <2>5. cleanup'[a].state # "pending"
    BY <1>1, <2>3, <2>4 DEF SettledObligation, CleanupRows
  <2> QED BY <1>2, <1>4, <1>5, <1>6, <1>8, <2>1, <2>2, <2>5 DEF RowsFit
<1> QED BY <1>7, <1>8, Literals

LEMMA RowsStep ==
  ASSUME TablesInv, NEW a \in Assignments, Writes(a)
  PROVE  RowsFollow' /\ FailuresNamed' /\ ActiveIsWhole' /\ CleanupIsAccounted'
<1>1. /\ assignment \in [Assignments -> AssignmentRows]
      /\ accepted \in [Assignments -> Launchers \cup {NoLauncher}]
      /\ cleanup \in [Assignments -> CleanupRows]
      /\ reservation \in [Assignments -> ReservationRows]
      /\ runtime \in [Assignments -> {"none", "active", "failed", "closed"}]
  BY DEF TablesInv, TablesType
<1>2. \A b \in Assignments : RowsFit(b)
  BY RowsOfInvariant DEF TablesInv
<1>3. ASSUME NEW b \in Assignments, b # a PROVE RowsFit(b)'
  BY <1>2, <1>3, OthersStay DEF RowsFit
<1>4. RowsFit(a)
  BY <1>2
<1>5. RowsFit(a)'
  <2>1. CASE Prepares(a)
    <3>1. PICK c \in Callsigns : Reserve(a, c)
      BY <2>1 DEF Prepares, PrepareNew
    <3>2. reservation'[a].state = "reserved" /\ reservation'[a].callsign = c
      BY <1>1, <3>1 DEF Reserve
    <3>3. /\ assignment[a].state = "none" /\ assignment'[a].state = "pending"
          /\ assignment'[a].failure = assignment[a].failure
          /\ UNCHANGED <<accepted, cleanup, runtime>>
      BY <1>1, <2>1 DEF Prepares, PrepareNew, AssignmentRows
    <3> QED BY <1>4, <3>2, <3>3 DEF RowsFit
  <2>2. CASE Marks(a)
    <3>1. /\ assignment[a].state = "pending" /\ assignment'[a].state = "launching"
          /\ assignment'[a].failure = assignment[a].failure
          /\ UNCHANGED <<accepted, cleanup, reservation, runtime>>
      BY <1>1, <2>2 DEF Marks, MarkedLaunching, AssignmentRows
    <3> QED BY <1>4, <3>1 DEF RowsFit
  <2>3. CASE Activates(a)
    <3>1. PICK p \in Launchers, v \in Nat : MayActivate(a, v) /\ Activated(a, p)
      BY <2>3 DEF Activates
    <3>2. /\ assignment[a].state = "launching" /\ assignment'[a].state = "active"
          /\ assignment'[a].failure = assignment[a].failure
          /\ accepted'[a] = p /\ p # NoLauncher
          /\ runtime'[a] = "active" /\ UNCHANGED cleanup
      BY <1>1, <3>1, AssignmentsAssumption DEF MayActivate, Activated, AssignmentRows
    <3>3. reservation'[a].state = "active" /\ reservation'[a].callsign = reservation[a].callsign
      BY <1>1, <3>1 DEF Activated, Confirm, ReservationRows
    <3> QED BY <1>4, <3>2, <3>3 DEF RowsFit
  <2>4. CASE Blocks(a)
    BY <2>4, BlocksFit
  <2>5. CASE Records(a)
    <3>1. /\ assignment'[a].state = assignment[a].state
          /\ assignment'[a].failure = assignment[a].failure
          /\ UNCHANGED <<accepted, cleanup, reservation, runtime>>
      BY <1>1, <2>5 DEF Records, ContextRecorded, AssignmentRows
    <3> QED BY <1>4, <3>1 DEF RowsFit
  <2>6. CASE Fails(a) \/ Reconciles(a)
    <3>1. /\ assignment[a].state = "active" /\ assignment'[a].state = "cleanup_pending"
          /\ assignment'[a].failure # "none" /\ cleanup'[a].state = "pending"
          /\ UNCHANGED <<accepted, reservation, runtime>>
      BY <1>1, <2>6 DEF Fails, FailedAfterActivation, Reconciles, Reconciled, AssignmentRows
    <3> QED BY <1>4, <3>1 DEF RowsFit
  <2>7. CASE Closes(a)
    <3>1. /\ assignment[a].state \in {"cleanup_pending", "blocked"}
          /\ runtime[a] \in {"active", "closed"} /\ runtime'[a] = "closed"
          /\ UNCHANGED <<assignment, accepted, cleanup, reservation>>
      BY <1>1, <2>7 DEF Closes, MayCloseRuntime, ClosedRuntime
    <3> QED BY <1>4, <3>1 DEF RowsFit
  <2>8. CASE Releases(a)
    <3>1. /\ assignment[a].state \in {"cleanup_pending", "blocked"}
          /\ reservation[a].state = "active" /\ runtime[a] # "active"
          /\ reservation'[a].state = "released"
          /\ reservation'[a].callsign = reservation[a].callsign
          /\ UNCHANGED <<assignment, accepted, cleanup, runtime>>
      BY <1>1, <2>8 DEF Releases, MayRelease, Released, ReservationRows
    <3> QED BY <1>4, <3>1 DEF RowsFit
  <2>9. CASE Settles(a)
    <3>1. /\ assignment[a].state = "cleanup_pending" /\ assignment'[a].state = "blocked"
          /\ assignment'[a].failure = assignment[a].failure
          /\ runtime[a] = "closed" /\ reservation[a].state = "released"
          /\ cleanup'[a].state = "cleanup_completed"
          /\ UNCHANGED <<accepted, reservation, runtime>>
      BY <1>1, <2>9
         DEF Settles, MaySettleLaunch, ReleasedAlready, LaunchSettled, AssignmentRows, CleanupRows
    <3> QED BY <1>4, <3>1 DEF RowsFit
  <2>10. CASE Reports(a)
    <3>1. PICK s \in {"in_progress", "completed", "blocked"} : MayTransition(a, s) /\ Transitioned(a, s)
      BY <2>10 DEF Reports
    <3>2. assignment[a].state \in {"active", "cleanup_pending"}
      BY <3>1 DEF MayTransition
    <3>3. UNCHANGED <<assignment, accepted, reservation, runtime>>
      BY <3>1 DEF Transitioned
    <3>4. \/ cleanup'[a] = cleanup[a]
          \/ cleanup'[a] = [state |-> "pending", policy |-> "terminal_task"]
      BY <1>1, <3>1 DEF Transitioned
    <3> QED BY <1>4, <3>2, <3>3, <3>4 DEF RowsFit
  <2>11. CASE Observes(a)
    <3>1. /\ assignment[a].state = "active" /\ reservation[a].state = "active"
          /\ UNCHANGED <<assignment, accepted, cleanup, reservation>>
      BY <2>11 DEF Observes
    <3> QED BY <1>4, <3>1 DEF RowsFit
  <2>12. CASE RollsBack(a)
    <3>1. /\ assignment[a].state = "cleanup_pending" /\ reservation[a].state = "reserved"
          /\ reservation'[a].state = "rolled_back"
          /\ reservation'[a].callsign = reservation[a].callsign
          /\ UNCHANGED <<assignment, accepted, cleanup, runtime>>
      BY <1>1, <2>12 DEF RollsBack, RolledBack, ReservationRows
    <3> QED BY <1>4, <3>1 DEF RowsFit
  <2> QED BY <2>1, <2>2, <2>3, <2>4, <2>5, <2>6, <2>7, <2>8, <2>9, <2>10, <2>11, <2>12 DEF Writes
<1>6. \A b \in Assignments : RowsFit(b)'
  BY <1>3, <1>5
<1> QED
  <2>1. (RowsFollow /\ FailuresNamed /\ ActiveIsWhole /\ CleanupIsAccounted)'
          <=> \A b \in Assignments : RowsFit(b)'
    BY DEF RowsFollow, FailuresNamed, ActiveIsWhole, CleanupIsAccounted, RowsFit
  <2> QED BY <1>6, <2>1

\* The tables keep their invariant in every transaction.
LEMMA TablesStep ==
  ASSUME LInv, [Next]_vars
  PROVE  TablesInv'
<1>1. TablesInv
  BY DEF LInv
<1>2. CASE UNCHANGED tables
  BY <1>1, <1>2
     DEF tables, TablesInv, TablesType, RowsFollow, SlotsFollow, LentOnce, Lent, FailuresNamed,
         ActiveIsWhole, CleanupIsAccounted
<1>3. ASSUME NEW a \in Assignments, Writes(a) PROVE TablesInv'
  <2>1. TablesType'
    BY <1>1, <1>3, AssignmentTypeStep, CleanupTypeStep, QueueTypeStep DEF TablesInv, TablesType
  <2> QED BY <1>1, <1>3, <2>1, LentStep, RowsStep DEF TablesInv
<1> QED BY <1>2, <1>3, StepWrites

-----------------------------------------------------------------------------
(* What no step takes back.                                                *)

\* A reservation is made once, a failed assignment never runs again, and the
\* endpoint that was accepted is accepted for ever.
LEMMA NothingIsTakenBack ==
  ASSUME LInv, [Next]_vars, NEW b \in Assignments
  PROVE  /\ reservation[b].state # "none" => reservation'[b].state # "none"
         /\ assignment[b].state \in {"cleanup_pending", "blocked"} =>
              assignment'[b].state \in {"cleanup_pending", "blocked"}
         /\ accepted[b] # NoLauncher => accepted'[b] = accepted[b]
<1>1. TablesInv /\ TablesType /\ TablesInv'
  BY TablesStep DEF LInv, TablesInv
<1>2. /\ assignment \in [Assignments -> AssignmentRows]
      /\ reservation \in [Assignments -> ReservationRows]
      /\ accepted \in [Assignments -> Launchers \cup {NoLauncher}]
  BY <1>1 DEF TablesType
<1>3. RowsFit(b)
  BY <1>1, RowsOfInvariant DEF TablesInv
<1>4. CASE UNCHANGED tables
  BY <1>4 DEF tables
<1>5. ASSUME NEW a \in Assignments, Writes(a), a # b
      PROVE  reservation'[b] = reservation[b] /\ assignment'[b] = assignment[b] /\ accepted'[b] = accepted[b]
  BY <1>1, <1>5, OthersStay
<1>6. ASSUME Writes(b), accepted[b] # NoLauncher PROVE accepted'[b] = accepted[b]
  <2>1. CASE Activates(b)
    BY <1>3, <1>6, <2>1 DEF Activates, MayActivate, RowsFit
  <2> QED BY <1>6, <2>1, WriteFrame
<1>7. ASSUME Writes(b), assignment[b].state \in {"cleanup_pending", "blocked"}
      PROVE  assignment'[b].state \in {"cleanup_pending", "blocked"}
  <2>1. CASE Prepares(b) \/ Marks(b) \/ Activates(b) \/ Records(b) \/ Fails(b) \/ Observes(b) \/ Reconciles(b)
    BY <1>7, <2>1
       DEF Prepares, Marks, Activates, MayActivate, Records, Fails, Observes, Reconciles
  <2>2. CASE Blocks(b)
    <3>1. PICK v \in Nat, class \in Failures, required \in BOOLEAN, proven \in BOOLEAN :
            Blocked(b, class, required, proven)
      BY <2>2 DEF Blocks
    <3>2. assignment'[b].state = Target(required, proven)
      BY <1>2, <3>1 DEF Blocked
    <3> QED BY <3>2, Literals
  <2>3. CASE Settles(b)
    BY <1>2, <2>3 DEF Settles, LaunchSettled, AssignmentRows
  <2>4. CASE Closes(b) \/ Releases(b) \/ RollsBack(b)
    BY <1>7, <2>4 DEF Closes, ClosedRuntime, Releases, Released, RollsBack
  <2>5. CASE Reports(b)
    BY <1>7, <2>5 DEF Reports, Transitioned
  <2> QED BY <1>7, <2>1, <2>2, <2>3, <2>4, <2>5 DEF Writes
<1>8. ASSUME Writes(b), reservation[b].state # "none" PROVE reservation'[b].state # "none"
  <2>1. CASE UNCHANGED queue
    BY <1>8, <2>1 DEF queue
  <2>2. CASE \E c \in Callsigns : Lends(b, c)
    BY <1>8, <2>2 DEF Lends
  <2>3. CASE Serves(b)
    BY <1>2, <2>3 DEF Serves, Confirm, ReservationRows
  <2>4. CASE \E d \in Digests : Frees(b, d)
    BY <1>2, <2>4 DEF Frees, ReservationRows
  <2>5. CASE Returns(b, LaunchCleanup)
    BY <1>2, <2>5 DEF Returns, ReservationRows
  <2> QED BY <1>1, <1>8, <2>1, <2>2, <2>3, <2>4, <2>5, QueueMoves
<1> QED BY <1>4, <1>5, <1>6, <1>7, <1>8, StepWrites

-----------------------------------------------------------------------------
(* The launchers.                                                          *)

Moved(p, s) ==
  /\ job' \in [Launchers -> Jobs]
  /\ \A q \in Launchers : q # p => job'[q] = job[q]
  /\ job'[p].a = job[p].a
  /\ job'[p].pc = s

LEMMA MovedBy ==
  ASSUME job \in [Launchers -> Jobs], NEW p \in Launchers
  PROVE  \A x \in Jobs : x.a = job[p].a /\ job' = [job EXCEPT ![p] = x] =>
           Moved(p, x.pc) /\ job'[p].class = x.class
BY DEF Moved

\* The forms in which a step of a launcher writes its job.
LEMMA MovesTo ==
  ASSUME job \in [Launchers -> Jobs], NEW p \in Launchers, NEW s \in Steps,
         job' = [job EXCEPT ![p].pc = s]
  PROVE  Moved(p, s) /\ job'[p].class = job[p].class
<1> DEFINE x == [job[p] EXCEPT !.pc = s]
<1>1. job[p] \in Jobs
  OBVIOUS
<1>2. x \in Jobs /\ x.pc = s /\ x.a = job[p].a /\ x.class = job[p].class
  BY <1>1 DEF Jobs
<1>3. job' = [job EXCEPT ![p] = x]
  OBVIOUS
<1> HIDE DEF x
<1> QED BY <1>2, <1>3, MovedBy

LEMMA MovesWithVersion ==
  ASSUME job \in [Launchers -> Jobs], NEW p \in Launchers, NEW s \in Steps, NEW v \in Nat,
         \/ job' = [job EXCEPT ![p].pc = s, ![p].version = v]
         \/ job' = [job EXCEPT ![p].version = v, ![p].pc = s]
  PROVE  Moved(p, s)
<1> DEFINE x == [job[p] EXCEPT !.pc = s, !.version = v]
<1>1. job[p] \in Jobs
  OBVIOUS
<1>2. x \in Jobs /\ x.pc = s /\ x.a = job[p].a
  BY <1>1 DEF Jobs
<1>3. job' = [job EXCEPT ![p] = x]
  BY <1>1 DEF Jobs
<1> HIDE DEF x
<1> QED BY <1>2, <1>3, MovedBy

LEMMA MovesWithFailure ==
  ASSUME job \in [Launchers -> Jobs], NEW p \in Launchers, NEW s \in Steps,
         NEW class \in Failures \cup {"none"}, NEW required \in BOOLEAN, NEW proven \in BOOLEAN,
         job' = [job EXCEPT ![p].pc = s, ![p].class = class, ![p].required = required,
                            ![p].proven = proven]
  PROVE  Moved(p, s) /\ job'[p].class = class
<1> DEFINE x == [job[p] EXCEPT !.pc = s, !.class = class, !.required = required, !.proven = proven]
<1>1. job[p] \in Jobs
  OBVIOUS
<1>2. x \in Jobs /\ x.pc = s /\ x.a = job[p].a /\ x.class = class
  BY <1>1 DEF Jobs
<1>3. job' = [job EXCEPT ![p] = x]
  BY <1>1 DEF Jobs
<1> HIDE DEF x
<1> QED BY <1>2, <1>3, MovedBy

LEMMA MovesWithBoth ==
  ASSUME job \in [Launchers -> Jobs], NEW p \in Launchers, NEW s \in Steps, NEW v \in Nat,
         NEW class \in Failures \cup {"none"}, NEW required \in BOOLEAN, NEW proven \in BOOLEAN,
         job' = [job EXCEPT ![p].pc = s, ![p].version = v, ![p].class = class,
                            ![p].required = required, ![p].proven = proven]
  PROVE  Moved(p, s) /\ job'[p].class = class
<1> DEFINE x == [job[p] EXCEPT !.pc = s, !.version = v, !.class = class, !.required = required,
                               !.proven = proven]
<1>1. job[p] \in Jobs
  OBVIOUS
<1>2. x \in Jobs /\ x.pc = s /\ x.a = job[p].a /\ x.class = class
  BY <1>1 DEF Jobs
<1>3. job' = [job EXCEPT ![p] = x]
  BY <1>1 DEF Jobs
<1> HIDE DEF x
<1> QED BY <1>2, <1>3, MovedBy

Cleaning == {"clean", "cleanup", "close", "release", "settle"}

\* Where a step of launcher p may take it.
Advances(p) ==
  \E s \in Steps :
    /\ Moved(p, s)
    /\ job[p].pc # "idle" /\ s \notin {"idle", "prepare"}
    /\ s \in Cleaning => assignment'[job[p].a].state \in {"cleanup_pending", "blocked"}
    /\ s \in {"refuse", "block"} => job'[p].class # "none"
    /\ s \notin {"done", "dead"} => reservation'[job[p].a].state # "none"

LEMMA LauncherAdvances ==
  ASSUME LInv, [Next]_vars, NEW p \in Launchers, LauncherStep(p) \/ KillLauncher(p)
  PROVE  Advances(p)
<1> DEFINE a == job[p].a
<1>1. /\ job \in [Launchers -> Jobs] /\ JobFollows(p)
      /\ TablesType /\ TablesInv
  BY DEF LInv, TypeOK, JobsFollow, TablesInv
<1>2. job[p].pc # "idle"
  BY DEF LauncherStep, KillLauncher, At, Prepare, PrepareAgain, MarkLaunching, PlaceEndpoint, StartAgent,
     RefuseLaunch, Activate, UndoLaunch, CleanLaunch, BlockLaunch, DeliverContext, RecordContext,
     FailContext, CleanContext, CloseRuntime, ReleaseCallsign, SettleLaunch, VerifyTitle, FailTitle
<1>3. a \in Assignments /\ job[p].version \in Nat /\ job[p].version + 1 \in Nat /\ 1 \in Nat
  BY <1>1, <1>2 DEF JobFollows, Jobs
<1>4. /\ assignment \in [Assignments -> AssignmentRows]
      /\ assignment[a].version \in Nat /\ assignment[a].failure \in Failures \cup {"none"}
  BY <1>1, <1>3 DEF TablesType, AssignmentRows
<1>5. /\ RowsFit(a)
      /\ reservation'[a].state = "none" <=> assignment'[a].state = "none"
  <2>1. TablesInv'
    BY TablesStep
  <2>2. \A b \in Assignments : reservation'[b].state = "none" <=> assignment'[b].state = "none"
    BY <2>1 DEF TablesInv, RowsFollow
  <2>3. \A b \in Assignments : RowsFit(b)
    BY <1>1, RowsOfInvariant DEF TablesInv
  <2> QED BY <1>3, <2>2, <2>3
<1>6. /\ reservation[a].state # "none" => reservation'[a].state # "none"
      /\ assignment[a].state \in {"cleanup_pending", "blocked"} =>
           assignment'[a].state \in {"cleanup_pending", "blocked"}
  BY <1>3, NothingIsTakenBack
<1>7. job[p].pc \notin {"prepare", "done", "dead"} => reservation'[a].state # "none"
  BY <1>1, <1>2, <1>6 DEF JobFollows
<1>8. job[p].pc \in Cleaning => assignment'[a].state \in {"cleanup_pending", "blocked"}
  BY <1>1, <1>6 DEF JobFollows, Cleaning
<1>9. {"route", "adapter", "receipt", "conflict"} \subseteq Failures /\ "none" \notin Failures
  BY DEF Failures
<1>10. ASSUME NEW s \in Steps, Moved(p, s), s \notin {"idle", "prepare"},
              s \in Cleaning => assignment'[a].state \in {"cleanup_pending", "blocked"},
              s \in {"refuse", "block"} => job'[p].class # "none",
              s \notin {"done", "dead"} => reservation'[a].state # "none"
       PROVE  Advances(p)
  BY <1>2, <1>10 DEF Advances
<1>11. ASSUME NEW s \in Steps, Goto(p, s), s \notin {"idle", "prepare", "refuse", "block"} \cup Cleaning,
              s \notin {"done", "dead"} => reservation'[a].state # "none"
       PROVE  Advances(p)
  <2>1. Moved(p, s)
    BY <1>1, <1>11, MovesTo DEF Goto
  <2> QED BY <1>10, <1>11, <2>1
<1>12. ASSUME NEW s \in Steps, NEW v \in Nat,
              \/ job' = [job EXCEPT ![p].pc = s, ![p].version = v]
              \/ job' = [job EXCEPT ![p].version = v, ![p].pc = s],
              s \notin {"idle", "prepare", "refuse", "block"},
              s \in Cleaning => assignment'[a].state \in {"cleanup_pending", "blocked"},
              s \notin {"done", "dead"} => reservation'[a].state # "none"
       PROVE  Advances(p)
  <2>1. Moved(p, s)
    BY <1>1, <1>12, MovesWithVersion
  <2> QED BY <1>10, <1>12, <2>1
<1>13. ASSUME NEW class \in {"route", "adapter", "receipt"}, NEW required \in BOOLEAN,
              NEW proven \in BOOLEAN, Refuse(p, class, required, proven), reservation'[a].state # "none"
       PROVE  Advances(p)
  <2>1. Moved(p, "refuse") /\ job'[p].class = class
    <3>1. "refuse" \in Steps /\ class \in Failures \cup {"none"}
      BY <1>9 DEF Steps
    <3>2. job' = [job EXCEPT ![p].pc = "refuse", ![p].class = class, ![p].required = required,
                            ![p].proven = proven]
      BY <1>13 DEF Refuse
    <3> HIDE DEF a
    <3> QED BY <1>1, <3>1, <3>2, MovesWithFailure
  <2> QED BY <1>9, <1>10, <1>13, <2>1 DEF Cleaning, Steps
<1>14. {"mark", "launch", "placed", "refuse", "activate", "undo", "clean", "block", "deliver", "record",
        "failcontext", "cleanup", "close", "release", "settle", "title", "failtitle", "done", "dead"}
         \subseteq Steps
  BY DEF Steps
<1>15. CASE Prepare(p)
  <2>1. CASE Selectable(job[p].names) # {}
    <3>1. PrepareNew(a, job[p].names) /\ job' = [job EXCEPT ![p].pc = "mark", ![p].version = 1]
      BY <1>15, <2>1 DEF Prepare
    <3>2. assignment'[a].state = "pending"
      BY <1>3, <1>4, <3>1 DEF PrepareNew, AssignmentRows
    <3>3. reservation'[a].state # "none"
      BY <1>5, <3>2
    <3> HIDE DEF a
    <3> QED BY <1>3, <1>12, <1>14, <3>1, <3>3 DEF Cleaning
  <2>2. CASE Selectable(job[p].names) = {}
    BY <1>11, <1>14, <1>15, <2>2 DEF Prepare, Cleaning
  <2> QED BY <2>1, <2>2
<1>16. CASE PrepareAgain(p)
  <2> DEFINE t == assignment[a].state
             s == CASE t = "pending" -> "mark"
                    [] t = "launching" -> "launch"
                    [] t = "active" -> IF job[p].told THEN "title" ELSE "deliver"
                    [] OTHER -> "done"
             v == IF t = "active" THEN job[p].version ELSE assignment[a].version
  <2>1. job' = [job EXCEPT ![p].pc = s, ![p].version = v]
    BY <1>1, <1>16 DEF PrepareAgain
  <2>2. v \in Nat /\ s \in {"mark", "launch", "title", "deliver", "done"}
    BY <1>3, <1>4
  <2>3. reservation'[a].state # "none"
    BY <1>5, <1>6, <1>16 DEF PrepareAgain, RowsFit
  <2> HIDE DEF s, v
  <2> QED BY <1>12, <1>14, <2>1, <2>2, <2>3 DEF Cleaning
<1>17. CASE MarkLaunching(p)
  <2>1. job[p].pc = "mark"
    BY <1>17 DEF MarkLaunching, At
  <2>2. Goto(p, "done") \/ job' = [job EXCEPT ![p].pc = "launch", ![p].version = job[p].version + 1]
    BY <1>17 DEF MarkLaunching
  <2>3. CASE Goto(p, "done")
    BY <1>11, <1>14, <2>3 DEF Cleaning
  <2>4. CASE job' = [job EXCEPT ![p].pc = "launch", ![p].version = job[p].version + 1]
    <3>1. "launch" \notin Cleaning /\ "launch" \in Steps
      BY <1>14 DEF Cleaning
    <3> HIDE DEF a
    <3> QED BY <1>3, <1>7, <1>12, <2>1, <2>4, <3>1
  <2> QED BY <2>2, <2>3, <2>4
<1>18. CASE PlaceEndpoint(p)
  <2>1. job[p].pc = "launch"
    BY <1>18 DEF PlaceEndpoint, At
  <2>2. \/ Goto(p, "placed") \/ Refuse(p, "route", FALSE, FALSE)
        \/ Refuse(p, "adapter", TRUE, FALSE) \/ Refuse(p, "adapter", FALSE, TRUE)
    BY <1>18 DEF PlaceEndpoint
  <2> QED BY <1>7, <1>11, <1>13, <1>14, <2>1, <2>2 DEF Cleaning
<1>19. CASE StartAgent(p)
  <2>1. job[p].pc = "placed"
    BY <1>19 DEF StartAgent, At
  <2>2. Goto(p, "activate") \/ \E ok \in BOOLEAN : Refuse(p, "adapter", TRUE, ok)
    BY <1>19 DEF StartAgent
  <2> QED BY <1>7, <1>11, <1>13, <1>14, <2>1, <2>2 DEF Cleaning
<1>20. CASE RefuseLaunch(p)
  <2>1. job[p].pc = "refuse"
    BY <1>20 DEF RefuseLaunch, At
  <2>2. CASE Goto(p, "done") \/ Goto(p, "undo")
    BY <1>7, <1>11, <1>14, <2>1, <2>2 DEF Cleaning
  <2>3. CASE ~(Goto(p, "done") \/ Goto(p, "undo"))
    <3> DEFINE s == IF Target(job[p].required, job[p].proven) = "cleanup_pending" /\ Created(p)
                      THEN "clean" ELSE "done"
    <3>1. /\ Blocked(a, job[p].class, job[p].required, job[p].proven)
          /\ job' = [job EXCEPT ![p].version = job[p].version + 1, ![p].pc = s]
      BY <1>20, <2>3 DEF RefuseLaunch
    <3>2. assignment'[a].state = Target(job[p].required, job[p].proven)
      BY <1>3, <1>4, <3>1 DEF Blocked
    <3>3. s = "clean" => assignment'[a].state = "cleanup_pending"
      BY <3>2
    <3>4. s \in {"clean", "done"}
      OBVIOUS
    <3>5. reservation'[a].state # "none" /\ s \in Steps
      BY <1>7, <1>14, <2>1, <3>4
    <3>6. s \notin {"idle", "prepare", "refuse", "block"}
      BY <3>4
    <3>7. s \in Cleaning => assignment'[a].state \in {"cleanup_pending", "blocked"}
      BY <3>3, <3>4 DEF Cleaning
    <3> HIDE DEF s, a
    <3> QED BY <1>3, <1>12, <3>1, <3>5, <3>6, <3>7
  <2> QED BY <2>2, <2>3
<1>21. CASE Activate(p)
  <2>1. job[p].pc = "activate"
    BY <1>21 DEF Activate, At
  <2>2. Goto(p, "deliver") \/ Goto(p, "undo") \/ Refuse(p, "receipt", TRUE, FALSE)
    BY <1>21 DEF Activate
  <2> QED BY <1>7, <1>11, <1>13, <1>14, <2>1, <2>2 DEF Cleaning
<1>22. CASE UndoLaunch(p)
  <2>1. job[p].pc = "undo"
    BY <1>22 DEF UndoLaunch, At
  <2>2. PICK ok \in BOOLEAN :
          job' = [job EXCEPT ![p].pc = "block", ![p].version = assignment[a].version,
                             ![p].class = "conflict", ![p].required = TRUE, ![p].proven = ok]
    BY <1>22 DEF UndoLaunch
  <2>3. Moved(p, "block") /\ job'[p].class = "conflict"
    <3>1. "block" \in Steps /\ "conflict" \in Failures \cup {"none"} /\ TRUE \in BOOLEAN
      BY <1>9, <1>14
    <3> HIDE DEF a
    <3> QED BY <1>1, <1>4, <2>2, <3>1, MovesWithBoth
  <2> QED BY <1>7, <1>10, <1>14, <2>1, <2>3 DEF Cleaning
<1>23. CASE CleanLaunch(p)
  <2>1. job[p].pc = "clean"
    BY <1>23 DEF CleanLaunch, At
  <2>2. CASE Goto(p, "done")
    BY <1>11, <1>14, <2>2 DEF Cleaning
  <2>3. CASE ~Goto(p, "done")
    <3>1. job' = [job EXCEPT ![p].pc = "block", ![p].class = assignment[a].failure,
                             ![p].required = TRUE, ![p].proven = TRUE]
      BY <1>23, <2>3 DEF CleanLaunch
    <3>2. assignment[a].failure # "none"
      BY <1>1, <1>5, <2>1 DEF JobFollows, RowsFit
    <3>3. Moved(p, "block") /\ job'[p].class = assignment[a].failure
      <4>1. "block" \in Steps /\ TRUE \in BOOLEAN
        BY <1>14
      <4> HIDE DEF a
      <4> QED BY <1>1, <1>4, <3>1, <4>1, MovesWithFailure
    <3> QED BY <1>7, <1>10, <1>14, <2>1, <3>2, <3>3 DEF Cleaning
  <2> QED BY <2>2, <2>3
<1>24. CASE BlockLaunch(p) \/ RecordContext(p) \/ SettleLaunch(p) \/ FailTitle(p)
  <2>1. Goto(p, "done")
    BY <1>24 DEF BlockLaunch, RecordContext, SettleLaunch, FailTitle
  <2> QED BY <1>11, <1>14, <2>1 DEF Cleaning
<1>25. CASE DeliverContext(p)
  <2>1. job[p].pc = "deliver"
    BY <1>25 DEF DeliverContext, At
  <2>2. \E s \in {"record", "failcontext"} :
          job' = [job EXCEPT ![p].pc = s, ![p].version = assignment[a].version]
    BY <1>25 DEF DeliverContext
  <2> QED BY <1>4, <1>7, <1>12, <1>14, <2>1, <2>2 DEF Cleaning
<1>26. CASE FailContext(p)
  <2>1. job[p].pc = "failcontext"
    BY <1>26 DEF FailContext, At
  <2>2. CASE MayFailContext(a, job[p].version) /\ FailedAfterActivation(a, "context", "failed_launch_context")
    <3>1. assignment'[a].state = "cleanup_pending"
      BY <1>3, <1>4, <2>2 DEF FailedAfterActivation, AssignmentRows
    <3>2. Goto(p, "done") \/ \E v \in {job[p].version + 1, assignment[a].version} :
            job' = [job EXCEPT ![p].pc = "cleanup", ![p].version = v]
      BY <1>1, <1>26 DEF FailContext
    <3> QED BY <1>3, <1>4, <1>7, <1>11, <1>12, <1>14, <2>1, <3>1, <3>2 DEF Cleaning
  <2>3. CASE FailedWith(a, "context")
          /\ job' = [job EXCEPT ![p].pc = "cleanup", ![p].version = assignment[a].version]
    <3>1. assignment'[a].state \in {"cleanup_pending", "blocked"}
      BY <1>6, <2>3 DEF FailedWith
    <3> QED BY <1>4, <1>7, <1>12, <1>14, <2>1, <2>3, <3>1
  <2>4. CASE Goto(p, "done")
    BY <1>11, <1>14, <2>4 DEF Cleaning
  <2> QED BY <1>26, <2>2, <2>3, <2>4 DEF FailContext
<1>27. CASE CleanContext(p) \/ CloseRuntime(p) \/ ReleaseCallsign(p)
  <2>1. job[p].pc \in Cleaning
    BY <1>27 DEF CleanContext, CloseRuntime, ReleaseCallsign, At, Cleaning
  <2>2. \E s \in {"close", "release", "settle", "done"} : Goto(p, s)
    BY <1>27 DEF CleanContext, CloseRuntime, ReleaseCallsign
  <2>3. PICK s \in {"close", "release", "settle", "done"} : Goto(p, s)
    BY <2>2
  <2>4. Moved(p, s)
    BY <1>1, <1>14, <2>3, MovesTo DEF Goto
  <2>5. job[p].pc \notin {"prepare", "done", "dead"}
    BY <2>1 DEF Cleaning
  <2> QED BY <1>7, <1>8, <1>10, <1>14, <2>1, <2>4, <2>5
<1>28. CASE VerifyTitle(p)
  <2>1. job[p].pc = "title" /\ (Goto(p, "done") \/ Goto(p, "failtitle"))
    BY <1>28 DEF VerifyTitle, At
  <2> QED BY <1>7, <1>11, <1>14, <2>1 DEF Cleaning
<1>29. CASE KillLauncher(p)
  <2>1. Goto(p, "dead")
    BY <1>29 DEF KillLauncher
  <2> QED BY <1>11, <1>14, <2>1 DEF Cleaning
<1> QED
  BY <1>15, <1>16, <1>17, <1>18, <1>19, <1>20, <1>21, <1>22, <1>23, <1>24, <1>25, <1>26, <1>27, <1>28, <1>29
     DEF LauncherStep

\* A launcher that starts finds the names in use among the callsigns.
LEMMA Starts ==
  ASSUME LInv, NEW p \in Launchers, NEW a \in Assignments, Start(p, a)
  PROVE  /\ job' \in [Launchers -> Jobs]
         /\ \A q \in Launchers : q # p => job'[q] = job[q]
         /\ job[p].pc = "idle" /\ job'[p].a = a /\ job'[p].pc = "prepare"
         /\ UNCHANGED <<tables, endpoint, sent>>
<1>1. job \in [Launchers -> Jobs] /\ job[p] \in Jobs
  BY DEF LInv, TypeOK
<1>2. OccupiedNames \in SUBSET Callsigns
  <2>1. ASSUME NEW q \in Launchers, endpoint[q] = "running" PROVE RouteName(q) \in Callsigns
    <3>1. job[q].a \in Assignments /\ reservation[job[q].a].state # "none"
      BY <2>1 DEF LInv, JobsFollow, JobFollows
    <3> QED BY <3>1 DEF LInv, TablesInv, RowsFollow, RouteName
  <2> QED BY <2>1 DEF OccupiedNames
<1>3. (a \in context) \in BOOLEAN /\ assignment[a].version \in Nat /\ "prepare" \in Steps
  BY DEF LInv, TypeOK, TablesType, AssignmentRows, Steps
<1> DEFINE told == a \in context
           x == [job[p] EXCEPT !.pc = "prepare", !.a = a, !.names = OccupiedNames,
                               !.told = told, !.version = assignment[a].version]
<1>4. job' = [job EXCEPT ![p] = x]
  BY DEF Start
<1>5. x.a = a /\ x.pc = "prepare"
  BY <1>1 DEF Jobs
<1> HIDE DEF told
<1>6. x \in Jobs
  BY <1>1, <1>2, <1>3 DEF Jobs, told
<1> HIDE DEF x
<1>7. job'[p] = x /\ job' \in [Launchers -> Jobs] /\ \A q \in Launchers : q # p => job'[q] = job[q]
  BY <1>1, <1>4, <1>6
<1> QED BY <1>5, <1>7 DEF Start, At

\* How the steps of the others leave the launchers.
LEMMA JobStep ==
  ASSUME LInv, [Next]_vars
  PROVE  /\ job' \in [Launchers -> Jobs]
         /\ \A q \in Launchers :
              \/ job'[q] = job[q]
              \/ Advances(q)
              \/ \E a \in Assignments : Start(q, a)
<1>1. job \in [Launchers -> Jobs]
  BY DEF LInv, TypeOK
<1>2. ASSUME NEW p \in Launchers, NEW a \in Assignments, Start(p, a)
      PROVE  /\ job' \in [Launchers -> Jobs]
             /\ \A q \in Launchers : job'[q] = job[q] \/ Start(q, a)
  BY <1>2, Starts
<1>3. ASSUME NEW p \in Launchers, LauncherStep(p) \/ KillLauncher(p)
      PROVE  /\ job' \in [Launchers -> Jobs]
             /\ \A q \in Launchers : job'[q] = job[q] \/ Advances(q)
  <2>1. Advances(p)
    BY <1>3, LauncherAdvances
  <2>2. PICK s \in Steps : Moved(p, s)
    BY <2>1 DEF Advances
  <2> QED BY <2>1, <2>2 DEF Moved
<1>4. CASE UNCHANGED job
  BY <1>1, <1>4
<1>5. \/ \E p \in Launchers, a \in Assignments : Start(p, a)
      \/ \E p \in Launchers : LauncherStep(p) \/ KillLauncher(p)
      \/ UNCHANGED job
  BY DEF Next, vars, EndpointExits, ReportTask, ObserveRuntime, ReconcileRuntime, OperatorBlock,
     OperatorRollback, OperatorSettles
<1> QED BY <1>2, <1>3, <1>4, <1>5

\* An endpoint is opened by its launcher, after the reservation; the cleanup of
\* the accepted one closes what exists.
LEMMA EndpointStep ==
  ASSUME LInv, [Next]_vars
  PROVE  /\ endpoint' \in [Launchers -> {"none", "placed", "running", "closed"}]
         /\ sent' \in [Assignments -> Nat]
         /\ \A q \in Launchers :
              endpoint'[q] # "none" => job[q].pc # "idle" /\ reservation[job[q].a].state # "none"
<1> DEFINE Goal ==
      /\ endpoint' \in [Launchers -> {"none", "placed", "running", "closed"}]
      /\ sent' \in [Assignments -> Nat]
      /\ \A q \in Launchers :
           endpoint'[q] # "none" => job[q].pc # "idle" /\ reservation[job[q].a].state # "none"
<1> SUFFICES Goal
  OBVIOUS
<1>1. /\ endpoint \in [Launchers -> {"none", "placed", "running", "closed"}]
      /\ sent \in [Assignments -> Nat]
      /\ accepted \in [Assignments -> Launchers \cup {NoLauncher}]
      /\ \A q \in Launchers :
           endpoint[q] # "none" => job[q].pc # "idle" /\ reservation[job[q].a].state # "none"
  BY DEF LInv, TypeOK, TablesType, JobsFollow, JobFollows
<1>2. ASSUME NEW p \in Launchers, NEW e \in {"none", "placed", "running", "closed"},
             endpoint' = [endpoint EXCEPT ![p] = e], sent' = sent,
             job[p].pc # "idle", reservation[job[p].a].state # "none"
      PROVE  Goal
  BY <1>1, <1>2
<1>3. CASE UNCHANGED <<endpoint, sent>>
  BY <1>1, <1>3
<1>4. ASSUME NEW p \in Launchers, PlaceEndpoint(p) \/ StartAgent(p) \/ UndoLaunch(p) \/ CleanLaunch(p)
      PROVE  Goal
  <2>1. job[p].pc \in {"launch", "placed", "undo", "clean"}
    BY <1>4 DEF PlaceEndpoint, StartAgent, UndoLaunch, CleanLaunch, At
  <2>2. job[p].pc # "idle" /\ reservation[job[p].a].state # "none"
    BY <2>1 DEF LInv, JobsFollow, JobFollows
  <2>3. sent' = sent /\ \/ endpoint' = endpoint
                        \/ \E e \in {"placed", "running", "closed"} : endpoint' = [endpoint EXCEPT ![p] = e]
    BY <1>4 DEF PlaceEndpoint, StartAgent, UndoLaunch, CleanLaunch, CleansOwn
  <2> QED BY <1>2, <1>3, <2>2, <2>3
<1>5. ASSUME NEW p \in Launchers, CleanContext(p) PROVE Goal
  <2> DEFINE a == job[p].a
             q == accepted[a]
  <2>1. job[p].pc = "cleanup" /\ a \in Assignments
    BY <1>5 DEF CleanContext, At, LInv, JobsFollow, JobFollows
  <2>2. sent' = sent /\ (endpoint' = endpoint \/ endpoint' = [endpoint EXCEPT ![q] = "closed"])
    BY <1>5 DEF CleanContext
  <2>3. CASE q = NoLauncher
    <3>1. endpoint' = endpoint
      BY <1>1, <2>2, <2>3, AssignmentsAssumption
    <3> QED BY <1>3, <2>2, <3>1
  <2>4. CASE q # NoLauncher
    <3>1. q \in Launchers
      BY <1>1, <2>1, <2>4
    <3>2. job[q].pc # "idle" /\ job[q].a = a
      BY <2>1, <2>4 DEF LInv, AcceptedFollow
    <3>3. reservation[a].state \in {"active", "released"}
      BY <2>1, <2>4 DEF LInv, TablesInv, RowsFollow
    <3>4. reservation[job[q].a].state # "none"
      BY <3>2, <3>3
    <3> HIDE DEF q
    <3> QED BY <1>2, <1>3, <2>2, <3>1, <3>2, <3>4
  <2> QED BY <2>3, <2>4
<1>6. ASSUME NEW p \in Launchers, EndpointExits(p) PROVE Goal
  BY <1>1, <1>2, <1>6 DEF EndpointExits
<1>7. ASSUME NEW p \in Launchers, DeliverContext(p) PROVE Goal
  <2>1. endpoint' = endpoint /\ (sent' = sent \/ sent' = [sent EXCEPT ![job[p].a] = @ + 1])
    BY <1>7 DEF DeliverContext
  <2>2. sent' \in [Assignments -> Nat]
    BY <1>1, <2>1
  <2> QED BY <1>1, <2>1, <2>2
<1>8. \/ \E p \in Launchers : PlaceEndpoint(p) \/ StartAgent(p) \/ UndoLaunch(p) \/ CleanLaunch(p)
      \/ \E p \in Launchers : CleanContext(p) \/ EndpointExits(p) \/ DeliverContext(p)
      \/ UNCHANGED <<endpoint, sent>>
  <2>1. ASSUME NEW p \in Launchers, LauncherStep(p) \/ KillLauncher(p)
        PROVE  \/ PlaceEndpoint(p) \/ StartAgent(p) \/ UndoLaunch(p) \/ CleanLaunch(p)
               \/ CleanContext(p) \/ DeliverContext(p)
               \/ UNCHANGED <<endpoint, sent>>
    BY <2>1 DEF LauncherStep, KillLauncher, Prepare, PrepareAgain, MarkLaunching, RefuseLaunch, Activate,
       BlockLaunch, RecordContext, FailContext, CloseRuntime, ReleaseCallsign, SettleLaunch, VerifyTitle,
       FailTitle
  <2> QED BY <2>1 DEF Next, vars, Start, ReportTask, ObserveRuntime, ReconcileRuntime,
       OperatorBlock, OperatorRollback, OperatorSettles
<1> QED BY <1>3, <1>4, <1>5, <1>6, <1>7, <1>8

\* Each launcher may go on relying on the tables.
LEMMA JobsFollowStep ==
  ASSUME LInv, [Next]_vars
  PROVE  JobsFollow'
<1> SUFFICES ASSUME NEW q \in Launchers PROVE JobFollows(q)'
  BY DEF JobsFollow
<1>1. JobFollows(q)
  BY DEF LInv, JobsFollow
<1>2. endpoint'[q] # "none" => job[q].pc # "idle" /\ reservation[job[q].a].state # "none"
  BY EndpointStep
<1>3. \A b \in Assignments :
        /\ reservation[b].state # "none" => reservation'[b].state # "none"
        /\ assignment[b].state \in {"cleanup_pending", "blocked"} =>
             assignment'[b].state \in {"cleanup_pending", "blocked"}
  BY NothingIsTakenBack
<1>4. CASE job'[q] = job[q]
  BY <1>1, <1>2, <1>3, <1>4 DEF JobFollows
<1>5. CASE Advances(q)
  <2>1. PICK s \in Steps :
          /\ Moved(q, s)
          /\ job[q].pc # "idle" /\ s \notin {"idle", "prepare"}
          /\ s \in Cleaning => assignment'[job[q].a].state \in {"cleanup_pending", "blocked"}
          /\ s \in {"refuse", "block"} => job'[q].class # "none"
          /\ s \notin {"done", "dead"} => reservation'[job[q].a].state # "none"
    BY <1>5 DEF Advances
  <2>2. job'[q].a = job[q].a /\ job'[q].pc = s
    BY <2>1 DEF Moved
  <2> QED BY <1>1, <1>2, <1>3, <2>1, <2>2 DEF JobFollows, Cleaning
<1>6. ASSUME NEW a \in Assignments, Start(q, a) PROVE JobFollows(q)'
  <2>1. /\ job[q].pc = "idle" /\ job'[q].a = a /\ job'[q].pc = "prepare"
        /\ UNCHANGED endpoint
    BY <1>6, Starts
  <2>2. endpoint[q] = "none"
    BY <1>1, <2>1 DEF JobFollows
  <2>3. endpoint'[q] = "none"
    BY <2>1, <2>2
  <2> QED BY <2>1, <2>3 DEF JobFollows
<1> QED BY <1>4, <1>5, <1>6, JobStep

\* Only an activation accepts an endpoint: that of its launcher.
LEMMA AcceptedBy ==
  ASSUME [Next]_vars
  PROVE  \/ UNCHANGED accepted
         \/ \E p \in Launchers : Activate(p) /\ Activated(job[p].a, p)
<1> DEFINE Goal ==
      \/ UNCHANGED accepted
      \/ \E p \in Launchers : Activate(p) /\ Activated(job[p].a, p)
<1> SUFFICES Goal
  OBVIOUS
<1>1. ASSUME NEW p \in Launchers, LauncherStep(p) PROVE Goal
  <2>1. CASE Prepare(p) \/ PrepareAgain(p) \/ MarkLaunching(p) \/ PlaceEndpoint(p) \/ StartAgent(p)
    BY <2>1 DEF Prepare, PrepareNew, PrepareAgain, MarkLaunching, MarkedLaunching, PlaceEndpoint,
       StartAgent, tables
  <2>2. CASE RefuseLaunch(p) \/ BlockLaunch(p)
    BY <2>2 DEF RefuseLaunch, BlockLaunch, Blocked, tables
  <2>3. CASE Activate(p)
    BY <2>3 DEF Activate, tables
  <2>4. CASE UndoLaunch(p) \/ CleanLaunch(p) \/ DeliverContext(p) \/ CleanContext(p) \/ VerifyTitle(p)
    BY <2>4 DEF UndoLaunch, CleanLaunch, DeliverContext, CleanContext, VerifyTitle, tables
  <2>5. CASE RecordContext(p) \/ FailContext(p) \/ FailTitle(p)
    BY <2>5 DEF RecordContext, ContextRecorded, FailContext, FailTitle, FailedAfterActivation, tables
  <2>6. CASE CloseRuntime(p) \/ ReleaseCallsign(p) \/ SettleLaunch(p)
    BY <2>6 DEF CloseRuntime, ClosedRuntime, ReleaseCallsign, Released, SettleLaunch, LaunchSettled, tables
  <2> QED BY <1>1, <2>1, <2>2, <2>3, <2>4, <2>5, <2>6 DEF LauncherStep
<1>2. ASSUME NEW a \in Assignments,
             \/ ObserveRuntime(a) \/ ReconcileRuntime(a) \/ OperatorBlock(a) \/ OperatorRollback(a)
             \/ OperatorSettles(a) \/ \E s \in {"in_progress", "completed", "blocked"} : ReportTask(a, s)
      PROVE  Goal
  BY <1>2 DEF ObserveRuntime, ReconcileRuntime, Reconciled, OperatorBlock, Blocked, OperatorRollback,
     OperatorSettles, ClosedRuntime, Released, LaunchSettled, ReportTask, Transitioned
<1>3. ASSUME NEW p \in Launchers,
             KillLauncher(p) \/ EndpointExits(p) \/ \E a \in Assignments : Start(p, a)
      PROVE  Goal
  BY <1>3 DEF KillLauncher, EndpointExits, Start, tables
<1> QED BY <1>1, <1>2, <1>3 DEF Next, vars, tables

LEMMA AcceptedStep ==
  ASSUME LInv, [Next]_vars
  PROVE  AcceptedFollow'
<1>1. ASSUME NEW a \in Assignments, NEW q \in Launchers, job[q].pc # "idle", job[q].a = a
      PROVE  job'[q].pc # "idle" /\ job'[q].a = a
  <2>1. CASE Advances(q)
    BY <1>1, <2>1 DEF Advances, Moved
  <2>2. ASSUME NEW b \in Assignments, Start(q, b) PROVE FALSE
    BY <1>1, <2>2 DEF Start, At
  <2> QED BY <1>1, <2>1, <2>2, JobStep
<1>2. accepted \in [Assignments -> Launchers \cup {NoLauncher}] /\ AcceptedFollow
  BY DEF LInv, TypeOK, TablesType
<1>3. CASE UNCHANGED accepted
  BY <1>1, <1>2, <1>3 DEF AcceptedFollow
<1>4. ASSUME NEW p \in Launchers, Activate(p), Activated(job[p].a, p)
      PROVE  AcceptedFollow'
  <2>1. job[p].pc # "idle" /\ job[p].a \in Assignments
    BY <1>4 DEF Activate, At, LInv, JobsFollow, JobFollows
  <2>2. accepted' = [accepted EXCEPT ![job[p].a] = p]
    BY <1>4 DEF Activated
  <2> QED BY <1>1, <1>2, <2>1, <2>2 DEF AcceptedFollow
<1> QED BY <1>3, <1>4, AcceptedBy

-----------------------------------------------------------------------------
(* The invariant.                                                          *)

LEMMA LInvInit ==
  ASSUME Init
  PROVE  LInv
<1>1. Cardinality(Callsigns) \in Nat
  BY AssignmentsAssumption, FS_CardinalityType
<1>2. order \in Seq(Callsigns) /\ IsInjective(order) /\ \A c \in Callsigns : c \in ToSet(order)
  <2>1. /\ order \in [1..Cardinality(Callsigns) -> Callsigns] /\ IsInjective(order)
        /\ \A c \in Callsigns : \E i \in 1..Cardinality(Callsigns) : order[i] = c
    BY DEF Init, TablesInit, Bijection, Injection, Surjection
  <2>2. order \in Seq(Callsigns)
    BY <1>1, <2>1
  <2> QED BY <2>1, <2>2 DEF ToSet
<1>3. NoDigest \in Digests
  BY Literals
<1>4. assignment \in [Assignments -> AssignmentRows]
  BY <1>3 DEF Init, TablesInit, AssignmentRows
<1>5. cleanup \in [Assignments -> CleanupRows]
  BY DEF Init, TablesInit, CleanupRows, Policies
<1>6. slot \in [Callsigns -> QueueRows]
  BY DEF Init, TablesInit, QueueRows
<1>7. reservation \in [Assignments -> ReservationRows]
  BY <1>3 DEF Init, TablesInit, ReservationRows
<1>8. TablesType
  BY <1>2, <1>4, <1>5, <1>6, <1>7 DEF Init, TablesInit, TablesType
<1>9. RowsFollow /\ SlotsFollow /\ LentOnce /\ FailuresNamed /\ ActiveIsWhole /\ CleanupIsAccounted
  BY DEF Init, TablesInit, RowsFollow, SlotsFollow, LentOnce, Lent, FailuresNamed, ActiveIsWhole,
     CleanupIsAccounted
<1>10. job \in [Launchers -> Jobs]
  <2>1. NoJob \in Jobs
    BY DEF NoJob, Jobs, Steps
  <2> QED BY <2>1 DEF Init
<1>11. JobsFollow /\ AcceptedFollow
  BY DEF Init, TablesInit, JobsFollow, JobFollows, AcceptedFollow, NoJob
<1> QED BY <1>8, <1>9, <1>10, <1>11 DEF LInv, TablesInv, TypeOK, Init

LEMMA LInvNext == LInv /\ [Next]_vars => LInv'
<1> SUFFICES ASSUME LInv, [Next]_vars PROVE LInv'
  OBVIOUS
<1>1. TablesInv'
  BY TablesStep
<1>2. TypeOK'
  BY <1>1, JobStep, EndpointStep DEF TypeOK, TablesInv
<1> QED BY <1>1, <1>2, JobsFollowStep, AcceptedStep DEF LInv

\* The inductive invariant of the launches holds throughout.
THEOREM LInvAlways == Spec => []LInv
<1>1. Init => LInv
  BY LInvInit
<1> QED BY <1>1, LInvNext, PTL DEF Spec

\* However many launchers work on an assignment, are killed and are followed
\* by an operator, its rows agree: an active one is whole, and a failed one is
\* accounted for until it holds nothing (activate_assignment, block_assignment,
\* settle_assignment_launch_cleanup).
THEOREM AssignmentsAlwaysAgree == Spec => []AssignmentsAgree
<1>1. LInv => AssignmentsAgree
  BY DEF LInv, TablesInv, AssignmentsAgree
<1> QED BY <1>1, LInvAlways, PTL

\* An accepted endpoint is accepted for ever (activate_assignment).
THEOREM AcceptancesAreFinal == Spec => AcceptanceIsFinal
<1> DEFINE Body == \A a \in Assignments : accepted[a] # NoLauncher => accepted'[a] = accepted[a]
<1>1. LInv /\ [Next]_vars => [Body]_vars
  BY NothingIsTakenBack
<1> QED BY <1>1, LInvAlways, PTL DEF Spec, AcceptanceIsFinal

-----------------------------------------------------------------------------
(* The callsign queue implements the pool.                                 *)

serving == {c \in Callsigns : slot[c].state = "active"}
served == {a \in Assignments : reservation[a].state # "none"}
live == {a \in Assignments : runtime[a] = "active"}

\* The holder of a callsign is the assignment it is lent to, if there is one.
HoldersAreLent ==
  \A c \in Callsigns :
    /\ \A a \in Assignments : Lent(a, c) => Holder(c) = a
    /\ (\A a \in Assignments : ~Lent(a, c)) => Holder(c) = NoAssignment

LEMMA HolderIsLent == LentOnce => HoldersAreLent
<1> SUFFICES ASSUME LentOnce, NEW c \in Callsigns
    PROVE  /\ \A a \in Assignments : Lent(a, c) => Holder(c) = a
           /\ (\A a \in Assignments : ~Lent(a, c)) => Holder(c) = NoAssignment
  BY DEF HoldersAreLent
<1>1. Holder(c) = IF \E a \in Assignments : Lent(a, c)
                    THEN CHOOSE a \in Assignments : Lent(a, c) ELSE NoAssignment
  BY DEF Holder, Lent
<1>2. ASSUME NEW a \in Assignments, Lent(a, c) PROVE Holder(c) = a
  <2>1. \A b \in Assignments : Lent(b, c) => b = a
    BY <1>2 DEF LentOnce
  <2>2. Holder(c) \in Assignments /\ Lent(Holder(c), c)
    BY <1>1, <1>2
  <2> QED BY <2>1, <2>2
<1> QED BY <1>1, <1>2

LEMMA PoolInit ==
  ASSUME Init
  PROVE  Pool!Init
<1>1. \A c \in Callsigns : Holder(c) = NoAssignment
  BY DEF Init, TablesInit, Holder
<1>2. serving = {} /\ served = {} /\ live = {}
  BY DEF Init, TablesInit, serving, served, live
<1> QED BY <1>1, <1>2 DEF Pool!Init, serving, served, live

\* The four moves of the pool, of the tables.
Lend(a, c) ==
  /\ Holder(c) = NoAssignment /\ a \notin served
  /\ \A e \in Callsigns : Holder(e)' = IF e = c THEN a ELSE Holder(e)
  /\ served' = served \cup {a} /\ serving' = serving /\ live' = live

Serve(c) ==
  /\ Holder(c) # NoAssignment /\ c \notin serving
  /\ \A e \in Callsigns : Holder(e)' = Holder(e)
  /\ serving' = serving \cup {c} /\ live' = live \cup {Holder(c)} /\ served' = served

Observe(c) ==
  /\ c \in serving
  /\ \A e \in Callsigns : Holder(e)' = Holder(e)
  /\ live' \in {live \cup {Holder(c)}, live \ {Holder(c)}}
  /\ serving' = serving /\ served' = served

GiveBack(c) ==
  /\ Holder(c) # NoAssignment /\ Holder(c) \notin live
  /\ \A e \in Callsigns : Holder(e)' = IF e = c THEN NoAssignment ELSE Holder(e)
  /\ serving' = serving \ {c} /\ served' = served /\ live' = live

PoolStays ==
  /\ \A e \in Callsigns : Holder(e)' = Holder(e)
  /\ serving' = serving /\ served' = served /\ live' = live

LEMMA MovesOfPool ==
  ASSUME \/ PoolStays
         \/ \E c \in Callsigns : Serve(c) \/ Observe(c) \/ GiveBack(c)
         \/ \E c \in Callsigns, a \in Assignments : Lend(a, c)
  PROVE  [Pool!Next]_(Pool!vars)
<1>1. CASE PoolStays
  BY <1>1 DEF PoolStays, Pool!vars, serving, served, live
<1>2. ASSUME NEW c \in Callsigns, NEW a \in Assignments, Lend(a, c) PROVE Pool!Lend(c, a)
  BY <1>2 DEF Lend, Pool!Lend, serving, served, live
<1>3. ASSUME NEW c \in Callsigns, Serve(c) PROVE Pool!Serve(c)
  BY <1>3 DEF Serve, Pool!Serve, serving, served, live
<1>4. ASSUME NEW c \in Callsigns, Observe(c) PROVE Pool!Observe(c)
  BY <1>4 DEF Observe, Pool!Observe, serving, served, live
<1>5. ASSUME NEW c \in Callsigns, GiveBack(c) PROVE Pool!GiveBack(c)
  BY <1>5 DEF GiveBack, Pool!GiveBack, serving, served, live
<1> QED BY <1>1, <1>2, <1>3, <1>4, <1>5 DEF Pool!Next

LEMMA HolderIsLentNext == LentOnce' => HoldersAreLent'
BY HolderIsLent, PTL

\* Each transaction moves the pool or leaves it as it is.
LEMMA PoolWrites ==
  ASSUME TablesInv, TablesInv', NEW a \in Assignments, Writes(a)
  PROVE  \/ PoolStays
         \/ \E c \in Callsigns : Serve(c) \/ Observe(c) \/ GiveBack(c) \/ Lend(a, c)
<1> DEFINE k == reservation[a].callsign
<1>1. /\ slot \in [Callsigns -> QueueRows]
      /\ reservation \in [Assignments -> ReservationRows]
      /\ runtime \in [Assignments -> {"none", "active", "failed", "closed"}]
  BY DEF TablesInv, TablesType
<1>2. HoldersAreLent /\ HoldersAreLent' /\ LentOnce
  BY HolderIsLent, HolderIsLentNext DEF TablesInv
<1>3. reservation[a].state # "none" => k \in Callsigns
  BY DEF TablesInv, RowsFollow
<1>4. RowsFit(a)
  BY RowsOfInvariant DEF TablesInv
<1>5. \A c \in Callsigns : \A b \in Assignments : Lent(b, c) => slot[c].state = reservation[b].state
  BY DEF TablesInv, SlotsFollow, Lent
<1>6. reservation[a].state \in {"reserved", "active"} =>
        Lent(a, k) /\ Holder(k) = a /\ Holder(k) # NoAssignment
  BY <1>2, <1>3, AssignmentsAssumption DEF HoldersAreLent, Lent
<1>7. CASE UNCHANGED queue
  <2>1. /\ \A e \in Callsigns : Holder(e)' = Holder(e)
        /\ serving' = serving /\ served' = served
    BY <1>7 DEF queue, Holder, serving, served
  <2>2. CASE UNCHANGED runtime
    BY <2>1, <2>2 DEF PoolStays, live
  <2>3. CASE Activates(a)
    <3>1. reservation[a].state = "reserved" /\ reservation'[a].state = "active"
      BY <1>1, <2>3 DEF Activates, MayActivate, Activated, Confirm, ReservationRows
    <3> QED BY <1>7, <3>1 DEF queue
  <2>4. CASE Observes(a)
    <3>1. reservation[a].state = "active" /\ slot[k].state = "active"
      BY <1>3, <1>5, <1>6, <2>4 DEF Observes
    <3>2. live' \in {live \cup {a}, live \ {a}}
      <4>1. CASE runtime' = [runtime EXCEPT ![a] = "active"]
        <5>1. live' = live \cup {a}
          BY <1>1, <4>1 DEF live
        <5> QED BY <5>1
      <4>2. CASE runtime' = [runtime EXCEPT ![a] = "failed"]
        <5>1. live' = live \ {a}
          BY <1>1, <4>2 DEF live
        <5> QED BY <5>1
      <4> QED BY <2>4, <4>1, <4>2 DEF Observes
    <3>3. Observe(k)
      BY <1>3, <1>6, <2>1, <3>1, <3>2 DEF Observe, serving
    <3> QED BY <1>3, <3>1, <3>3
  <2>5. CASE Closes(a)
    <3>1. runtime' = [runtime EXCEPT ![a] = "closed"] /\ runtime[a] \in {"active", "closed"}
      BY <2>5 DEF Closes, ClosedRuntime, MayCloseRuntime
    <3>2. CASE runtime[a] = "closed"
      <4>1. live' = live
        BY <1>1, <3>1, <3>2 DEF live
      <4> QED BY <2>1, <4>1 DEF PoolStays
    <3>3. CASE runtime[a] = "active"
      <4>1. reservation[a].state = "active"
        BY <1>4, <3>3 DEF RowsFit
      <4>2. slot[k].state = "active"
        BY <1>3, <1>5, <1>6, <4>1
      <4>3. live' = live \ {a}
        BY <1>1, <3>1 DEF live
      <4>4. Observe(k)
        BY <1>3, <1>6, <2>1, <4>1, <4>2, <4>3 DEF Observe, serving
      <4> QED BY <1>3, <4>1, <4>4
    <3> QED BY <3>1, <3>2, <3>3
  <2> QED BY <2>2, <2>3, <2>4, <2>5, WriteFrame
<1>8. ASSUME NEW c \in Callsigns, Prepares(a), Lends(a, c) PROVE Lend(a, c)
  <2>1. /\ slot[c].state = "available" /\ reservation[a].state = "none"
        /\ slot' = [slot EXCEPT ![c] = [state |-> "reserved", holder |-> a]]
        /\ reservation' = [reservation EXCEPT ![a] =
             [state |-> "reserved", callsign |-> c, digest |-> NoDigest]]
        /\ UNCHANGED runtime
    BY <1>8 DEF Lends, Reserve, Prepares, PrepareNew
  <2>2. \A b \in Assignments : ~Lent(b, c)
    BY <1>5, <2>1 DEF Lent
  <2>3. \A b \in Assignments, e \in Callsigns :
          Lent(b, e)' <=> IF b = a THEN e = c ELSE Lent(b, e)
    BY <1>1, <2>1 DEF Lent
  <2>4. Holder(c) = NoAssignment
    BY <1>2, <2>2 DEF HoldersAreLent
  <2>5. ASSUME NEW e \in Callsigns PROVE Holder(e)' = IF e = c THEN a ELSE Holder(e)
    <3>1. CASE e = c
      BY <1>2, <2>3, <3>1 DEF HoldersAreLent
    <3>2. CASE e # c
      <4>1. ~Lent(a, e)
        BY <2>1 DEF Lent
      <4>2. \A b \in Assignments : Lent(b, e)' <=> Lent(b, e)
        BY <2>3, <3>2, <4>1
      <4>3. ASSUME NEW b \in Assignments, Lent(b, e) PROVE Holder(e)' = Holder(e)
        BY <1>2, <4>2, <4>3 DEF HoldersAreLent
      <4>4. CASE \A b \in Assignments : ~Lent(b, e)
        BY <1>2, <3>2, <4>2, <4>4 DEF HoldersAreLent
      <4> QED BY <3>2, <4>3, <4>4
    <3> QED BY <3>1, <3>2
  <2>6. served' = served \cup {a} /\ a \notin served
    BY <1>1, <2>1 DEF served
  <2>7. serving' = serving /\ live' = live
    BY <1>1, <2>1 DEF serving, live
  <2> QED BY <2>4, <2>5, <2>6, <2>7 DEF Lend
<1>9. ASSUME Activates(a), Serves(a) PROVE k \in Callsigns /\ Serve(k)
  <2>1. /\ reservation[a].state = "reserved" /\ k \in Callsigns
        /\ slot' = [slot EXCEPT ![k] = [state |-> "active", holder |-> NoAssignment]]
        /\ reservation' = [reservation EXCEPT ![a].state = "active"]
        /\ runtime' = [runtime EXCEPT ![a] = "active"]
    BY <1>3, <1>9 DEF Serves, Confirm, Activates, Activated
  <2>2. slot[k].state = "reserved"
    BY <1>5, <1>6, <2>1
  <2>3. \A b \in Assignments, e \in Callsigns : Lent(b, e)' <=> Lent(b, e)
    BY <1>1, <2>1 DEF Lent, ReservationRows
  <2>4. ASSUME NEW e \in Callsigns PROVE Holder(e)' = Holder(e)
    <3>1. ASSUME NEW b \in Assignments, Lent(b, e) PROVE Holder(e)' = Holder(e)
      BY <1>2, <2>3, <3>1 DEF HoldersAreLent
    <3>2. CASE \A b \in Assignments : ~Lent(b, e)
      BY <1>2, <2>3, <3>2 DEF HoldersAreLent
    <3> QED BY <3>1, <3>2
  <2>5. serving' = serving \cup {k} /\ k \notin serving
    BY <1>1, <2>1, <2>2 DEF serving
  <2>6. live' = live \cup {a}
    BY <1>1, <2>1 DEF live
  <2>7. served' = served
    BY <1>1, <2>1 DEF served, ReservationRows
  <2> QED BY <1>6, <2>1, <2>4, <2>5, <2>6, <2>7 DEF Serve
<1>10. ASSUME NEW d \in Digests, Frees(a, d) \/ Returns(a, d), UNCHANGED runtime
       PROVE  k \in Callsigns /\ GiveBack(k)
  <2>1. /\ reservation[a].state \in {"reserved", "active"} /\ k \in Callsigns
        /\ slot' = [slot EXCEPT ![k] = [state |-> "available", holder |-> NoAssignment]]
        /\ \A b \in Assignments : b # a => reservation'[b] = reservation[b]
        /\ reservation'[a].state \in {"rolled_back", "released"}
    BY <1>1, <1>3, <1>10 DEF Frees, Returns, ReservationRows
  <2>2. \A b \in Assignments, e \in Callsigns : Lent(b, e)' <=> b # a /\ Lent(b, e)
    BY <2>1 DEF Lent
  <2>3. \A b \in Assignments : Lent(b, k) => b = a
    BY <1>2, <1>6, <2>1 DEF LentOnce
  <2>4. ASSUME NEW e \in Callsigns PROVE Holder(e)' = IF e = k THEN NoAssignment ELSE Holder(e)
    <3>1. CASE e = k
      BY <1>2, <2>2, <2>3, <3>1 DEF HoldersAreLent
    <3>2. CASE e # k
      <4>1. ~Lent(a, e)
        BY <3>2 DEF Lent
      <4>2. \A b \in Assignments : Lent(b, e)' <=> Lent(b, e)
        BY <2>2, <4>1
      <4>3. ASSUME NEW b \in Assignments, Lent(b, e) PROVE Holder(e)' = Holder(e)
        BY <1>2, <4>2, <4>3 DEF HoldersAreLent
      <4>4. CASE \A b \in Assignments : ~Lent(b, e)
        BY <1>2, <3>2, <4>2, <4>4 DEF HoldersAreLent
      <4> QED BY <3>2, <4>3, <4>4
    <3> QED BY <3>1, <3>2
  <2>5. serving' = serving \ {k}
    BY <1>1, <2>1 DEF serving
  <2>6. served' = served
    BY <2>1 DEF served
  <2>7. a \notin live /\ live' = live
    BY <1>4, <1>10 DEF live, RowsFit, Frees, Returns
  <2> QED BY <1>6, <2>1, <2>4, <2>5, <2>6, <2>7 DEF GiveBack
<1>11. ASSUME NEW d \in Digests, Frees(a, d), Blocks(a) \/ RollsBack(a) PROVE k \in Callsigns /\ GiveBack(k)
  <2>1. UNCHANGED runtime
    BY <1>11 DEF Blocks, Blocked, RollsBack
  <2> QED BY <1>10, <1>11, <2>1
<1>12. ASSUME Releases(a), Returns(a, LaunchCleanup) PROVE k \in Callsigns /\ GiveBack(k)
  <2>1. UNCHANGED runtime
    BY <1>12 DEF Releases, Released
  <2> QED BY <1>10, <1>12, <2>1, Literals
<1> QED BY <1>7, <1>8, <1>9, <1>11, <1>12, QueueMoves

\* For any set of callsigns and of launches, the queue lends a callsign to one
\* task at a time and takes none back that a live Champion answers to.
THEOREM LaunchesImplementPool == Spec => ImplementsPool
<1>1. Init => Pool!Init
  BY PoolInit
<1>2. LInv /\ LInv' /\ [Next]_vars => [Pool!Next]_(Pool!vars)
  <2> SUFFICES ASSUME LInv, LInv', [Next]_vars PROVE [Pool!Next]_(Pool!vars)
    OBVIOUS
  <2>1. CASE UNCHANGED tables
    <3>1. PoolStays
      BY <2>1 DEF tables, PoolStays, Holder, serving, served, live
    <3> QED BY <3>1, MovesOfPool
  <2>2. ASSUME NEW a \in Assignments, Writes(a) PROVE [Pool!Next]_(Pool!vars)
    <3>1. TablesInv /\ TablesInv'
      BY DEF LInv
    <3>2. PoolStays \/ \E c \in Callsigns : Serve(c) \/ Observe(c) \/ GiveBack(c) \/ Lend(a, c)
      BY <2>2, <3>1, PoolWrites
    <3> QED BY <3>2, MovesOfPool
  <2> QED BY <2>1, <2>2, StepWrites
<1> QED BY <1>1, <1>2, LInvAlways, PTL DEF Spec, ImplementsPool, Pool!Spec
=============================================================================
