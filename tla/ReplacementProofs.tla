------------------------- MODULE ReplacementProofs -------------------------
(***************************************************************************)
(* Proofs that the tables agree through any number of replacements, however*)
(* many operators work on them, that Replacement implements Handover, and  *)
(* that one agent works on the task.                                       *)
(*                                                                         *)
(* The database moves in four ways only: an operation is prepared, goes on *)
(* within its phase (or waits for a person and comes back to it), switches *)
(* the owner, or is settled.  The argument is about these four, with what a*)
(* new operation must not have met: its successor neither owns nor ever    *)
(* gave the seat.  What an operator holds matters in one place, that it    *)
(* announces an effect only from a state that has one.                     *)
(***************************************************************************)
EXTENDS ReplacementProperties, TLAPS

-----------------------------------------------------------------------------
(* What an operator holds.                                                 *)

JobOK(j) ==
  /\ j \in Jobs
  /\ j.pc # "rest" => j.o \in Operations
  /\ j.pc = "begin" => j.state \in {"prepared", "successor_verified", "activated"}

JobsOK == job \in [Operators -> Jobs] /\ \A p \in Operators : JobOK(job[p])

LEMMA RestIsOK == JobOK(Rest)
BY DEF JobOK, Jobs, Rest, Places, Receipts

LEMMA FollowingFits ==
  ASSUME NEW s \in Open \cup Settled \cup {"none"}
  PROVE  /\ Following(s) \in Places
         /\ Following(s) = "begin" => s \in {"prepared", "successor_verified", "activated"}
BY DEF Following, Places, Open, Settled, Before, Switched

LEMMA PutKeeps ==
  ASSUME JobsOK, NEW p \in Operators, NEW j, JobOK(j), Put(p, j)
  PROVE  JobsOK'
BY RestIsOK DEF JobsOK, Put, JobOK

LEMMA GotoKeeps ==
  ASSUME JobsOK, NEW p \in Operators, NEW pc \in Places \ {"begin"},
         job[p].pc # "rest", Goto(p, pc)
  PROVE  JobsOK'
<1>1. JobOK([job[p] EXCEPT !.pc = pc])
  BY DEF JobsOK, JobOK, Jobs
<1> QED  BY <1>1, PutKeeps DEF Goto

LEMMA RaiseKeeps ==
  ASSUME JobsOK, NEW p \in Operators, job[p].pc # "rest", Raise(p)
  PROVE  JobsOK'
BY GotoKeeps DEF Raise, Places

LEMMA UndoKeeps ==
  ASSUME JobsOK, NEW p \in Operators, NEW j \in Jobs, j.o \in Operations, Undo(p, j)
  PROVE  JobsOK'
<1>1. Undoing(j) \in {"owe", "unswap", "unlaunch"}
  BY DEF Undoing
<1>2. JobOK([j EXCEPT !.pc = Undoing(j), !.todo = {}])
  BY <1>1 DEF JobOK, Jobs, Places
<1> QED  BY <1>2, PutKeeps DEF Undo

LEMMA AdoptKeeps ==
  ASSUME JobsOK, operation \in [Operations -> Rows], NEW p \in Operators,
         NEW j \in Jobs, j.o \in Operations, Adopt(p, j)
  PROVE  JobsOK'
<1> DEFINE s == operation[j.o].state
<1>1. s \in Open \cup Settled \cup {"none"}
  BY DEF Rows
<1>2. JobOK([j EXCEPT !.state = s, !.fresh = TRUE, !.pc = Following(s)])
  <2> HIDE DEF s
  <2> QED  BY <1>1, FollowingFits DEF JobOK, Jobs
<1> QED  BY <1>2, PutKeeps DEF Adopt

LEMMA WriteKeeps ==
  ASSUME JobsOK, operation \in [Operations -> Rows], NEW p \in Operators,
         NEW j \in Jobs, j.o \in Operations, NEW row \in Rows, Write(p, j, row),
         j.pc = "begin" => row.state \in {"prepared", "successor_verified", "activated"}
  PROVE  /\ JobsOK'
         /\ operation' = [operation EXCEPT ![j.o] = row]
         /\ operation' \in [Operations -> Rows]
<1>1. operation' = [operation EXCEPT ![j.o] = row]
  BY DEF Write
<1>2. JobOK([j EXCEPT !.fresh = TRUE, !.state = row.state])
  BY DEF JobOK, Jobs, Rows
<1>3. ASSUME NEW q \in Operators
      PROVE  JobOK([job[q] EXCEPT !.fresh = @ /\ job[q].o # j.o])
  BY DEF JobsOK, JobOK, Jobs
<1>4. job' \in [Operators -> Jobs] /\ \A q \in Operators : JobOK(job'[q])
  BY <1>2, <1>3, RestIsOK DEF Write, JobOK
<1> QED  BY <1>1, <1>4 DEF JobsOK

-----------------------------------------------------------------------------
(* The invariant.                                                          *)

NativeOK ==
  /\ proc \in [Agents -> {"none", "running", "leaving", "left", "gone"}]
  /\ name \in [Agents -> {"none", "canonical", "staging", "aside"}]
  /\ adrift \subseteq Agents /\ unrecorded \subseteq Agents
  /\ launches \in [Operations -> Nat]
  /\ troubles \in 0..MaxTroubles

WorldOK == NativeOK /\ crowded \in BOOLEAN

DatabaseOK ==
  /\ owner \in Agents
  /\ roster \in [Agents -> {"absent", "live", "retired"}]
  /\ operation \in [Operations -> Rows]
  /\ exact \subseteq Operations /\ owed \subseteq Operations /\ handed \subseteq Operations

\* An operation waits exactly when it knows where to go back to.
BackFits ==
  \A o \in Operations : operation[o].state = "recovery_required" <=> operation[o].back # "none"

\* A successor that was not brought yet neither owns nor gave the seat, and
\* nobody takes over from itself.
Unmet ==
  \A o, q \in Operations :
    /\ operation[q].state = "none" => owner # q /\ From(o) # q
    /\ From(o) # o

DbInv ==
  /\ DatabaseOK /\ BackFits /\ Unmet
  /\ OneIsOpen /\ OwnerIsSwitched /\ OwedIsOpen
  /\ \A a \in Agents : roster[a] = "live" <=> a = owner

PInv == DbInv /\ JobsOK /\ WorldOK

LEMMA PInvRowsAgree == PInv => RowsAgree
<1> SUFFICES ASSUME PInv PROVE RowsAgree
  OBVIOUS
<1>1. TypeOK
  BY DEF PInv, DbInv, DatabaseOK, JobsOK, WorldOK, NativeOK, TypeOK
<1> QED  BY <1>1 DEF PInv, DbInv, RowsAgree

LEMMA InitPInv == Init => PInv
<1> SUFFICES ASSUME Init PROVE PInv
  OBVIOUS
<1> USE ReplacementAssumption
<1>1. \A o \in Operations : operation[o] = NoRow
  BY DEF Init
<1>2. NoRow \in Rows
  BY DEF NoRow, Rows, Agents, Receipts
<1>3. NoRow.state = "none" /\ NoRow.back = "none" /\ NoRow.from = First
  BY DEF NoRow
<1>4. DatabaseOK
  BY <1>2 DEF Init, DatabaseOK, Agents
<1>5. BackFits /\ Unmet /\ OneIsOpen /\ OwnerIsSwitched /\ OwedIsOpen
  BY <1>1, <1>3 DEF Init, BackFits, Unmet, OneIsOpen, OwnerIsSwitched, OwedIsOpen, From, Reached,
     Open, Before, Switched
<1>6. \A a \in Agents : roster[a] = "live" <=> a = owner
  <2>1. roster = [a \in Agents |-> IF a = First THEN "live" ELSE "absent"] /\ owner = First
    BY DEF Init
  <2> QED  BY <2>1
<1>7. DbInv
  BY <1>4, <1>5, <1>6 DEF DbInv
<1>8. JobsOK
  BY RestIsOK DEF Init, JobsOK, JobOK
<1>9. WorldOK
  <2>1. proc = [a \in Agents |-> IF a = First THEN "running" ELSE "none"]
        /\ name = [a \in Agents |-> IF a = First THEN "canonical" ELSE "none"]
    BY DEF Init
  <2>2. proc \in [Agents -> {"none", "running", "leaving", "left", "gone"}]
        /\ name \in [Agents -> {"none", "canonical", "staging", "aside"}]
    BY <2>1
  <2>3. troubles \in 0..MaxTroubles /\ launches \in [Operations -> Nat]
    BY DEF Init
  <2> QED  BY <2>2, <2>3 DEF Init, WorldOK, NativeOK
<1> QED  BY <1>7, <1>8, <1>9 DEF PInv

\* Nothing of the database but the frozen versions changes.
LEMMA DatabaseKept ==
  ASSUME DbInv, UNCHANGED <<owner, roster, operation, owed, handed>>, exact' \subseteq Operations
  PROVE  DbInv'
BY DEF DbInv, DatabaseOK, BackFits, Unmet, OneIsOpen, OwnerIsSwitched, OwedIsOpen, From, Reached

\* How far the operation of a row is, also while it waits for a person.
Point(row) == IF row.state = "recovery_required" THEN row.back ELSE row.state

\* An open operation goes on within its phase.
LEMMA PhaseKept ==
  ASSUME DbInv, NEW o \in Operations, NEW row \in Rows,
         operation' = [operation EXCEPT ![o] = row],
         operation[o].state \in Open, row.state \in Open,
         row.from = From(o),
         Point(row) \in Before <=> Reached(o) \in Before,
         Point(row) \in Switched <=> Reached(o) \in Switched,
         row.state = "recovery_required" <=> row.back # "none",
         UNCHANGED <<owner, roster, exact, handed>>,
         owed' = IF row.state = "recovery_required" THEN owed \cup {o} ELSE owed
  PROVE  DbInv'
<1>1. operation' \in [Operations -> Rows] /\ operation'[o] = row
      /\ \A q \in Operations \ {o} : operation'[q] = operation[q]
  BY DEF DbInv, DatabaseOK
<1>2. DatabaseOK'
  BY <1>1 DEF DbInv, DatabaseOK
<1>3. BackFits'
  BY <1>1 DEF DbInv, BackFits
<1>4. \A q \in Operations : /\ operation'[q].from = operation[q].from
                            /\ operation'[q].state \in Open <=> operation[q].state \in Open
                            /\ operation'[q].state = "none" <=> operation[q].state = "none"
                            /\ operation'[q].state = "completed" <=> operation[q].state = "completed"
  BY <1>1 DEF From, Open, Before, Switched
<1>5. Unmet'
  BY <1>4 DEF DbInv, Unmet, From
<1>6. OneIsOpen'
  BY <1>4 DEF DbInv, OneIsOpen
<1>7. Reached(o)' \in Before => Reached(o) \in Before
  BY <1>1 DEF Reached, Point
<1>8. Reached(o)' \in Switched => Reached(o) \in Switched
  BY <1>1 DEF Reached, Point
<1>9. OwnerIsSwitched'
  BY <1>1, <1>4, <1>7, <1>8 DEF DbInv, OwnerIsSwitched, From, Reached
<1>10. OwedIsOpen'
  BY <1>1, <1>4 DEF DbInv, OwedIsOpen
<1> QED  BY <1>2, <1>3, <1>5, <1>6, <1>9, <1>10 DEF DbInv

-----------------------------------------------------------------------------
(* The steps of the handover.                                              *)

HStep == [H!HandoverNext]_(H!handoverVars)

Stages == [o \in Operations |-> StageOf(o)]

Givers == [o \in Operations |-> From(o)]

\* The coordinator sees nothing of a step within a stage.
LEMMA StageKept ==
  ASSUME UNCHANGED owner,
         \A o \in Operations : StageOf(o)' = StageOf(o) /\ From(o)' = From(o)
  PROVE  HStep
<1>1. Stages' = Stages /\ Givers' = Givers
  BY DEF Stages, Givers
<1> QED  BY <1>1 DEF HStep, H!handoverVars, Stages, Givers

LEMMA RowsKept ==
  ASSUME UNCHANGED <<owner, operation>>
  PROVE  HStep
<1>1. \A o \in Operations : StageOf(o)' = StageOf(o) /\ From(o)' = From(o)
  BY DEF StageOf, From, Reached
<1> QED  BY <1>1, StageKept

\* The row of one operation changes.
LEMMA RowChanges ==
  ASSUME DbInv, NEW o \in Operations, NEW row \in Rows,
         operation' = [operation EXCEPT ![o] = row], row.from = From(o)
  PROVE  /\ Stages' = [Stages EXCEPT ![o] = StageOf(o)']
         /\ Reached(o)' = Point(row)
         /\ Givers' = Givers
<1>1. operation'[o] = row /\ \A q \in Operations \ {o} : operation'[q] = operation[q]
  BY DEF DbInv, DatabaseOK
<1>2. \A q \in Operations \ {o} : StageOf(q)' = StageOf(q)
  BY <1>1 DEF StageOf, Reached
<1>3. \A q \in Operations : From(q)' = From(q)
  BY <1>1 DEF From
<1>4. Stages' = [Stages EXCEPT ![o] = StageOf(o)']
  <2>1. Stages' = [q \in Operations |-> StageOf(q)']
    BY DEF Stages
  <2> QED  BY <1>2, <2>1 DEF Stages
<1>5. Givers' = Givers
  BY <1>3 DEF Givers
<1> QED  BY <1>1, <1>4, <1>5 DEF Reached, Point

\* Where an operation that goes on is seen.
LEMMA OpenStages ==
  ASSUME DbInv, NEW o \in Operations
  PROVE  /\ StageOf(o) = "offered" <=> Reached(o) \in Before
         /\ StageOf(o) = "taken" <=> Reached(o) \in {"activated", "retiring"}
         /\ StageOf(o) = "alone" <=> Reached(o) = "predecessor_retired"
         /\ StageOf(o) \in H!UnderWay <=> operation[o].state \in Open
         /\ StageOf(o) = "new" <=> operation[o].state = "none"
<1>1. operation[o] \in Rows /\ (operation[o].state = "recovery_required" <=> operation[o].back # "none")
  BY DEF DbInv, DatabaseOK, BackFits
<1>2. Reached(o) \in Before \cup Switched \cup Settled \cup {"none"}
      /\ (Reached(o) = "none" <=> operation[o].state = "none")
      /\ (Reached(o) \in Before \cup Switched <=> operation[o].state \in Open)
  BY <1>1 DEF Rows, Reached, Open, Before, Switched, Settled
<1> QED  BY <1>2 DEF StageOf, Before, Switched, Settled, H!UnderWay

\* A step within the phase is seen, if at all, as the end of the predecessor.
LEMMA GoesOn ==
  ASSUME DbInv, NEW o \in Operations, NEW row \in Rows,
         operation' = [operation EXCEPT ![o] = row],
         operation[o].state \in Open, row.state \in Open,
         row.from = From(o),
         Point(row) \in Before <=> Reached(o) \in Before,
         Point(row) \in Switched <=> Reached(o) \in Switched,
         Point(row) = "predecessor_retired" \/ Reached(o) # "predecessor_retired",
         row.state = "recovery_required" <=> row.back # "none",
         UNCHANGED <<owner, roster, exact, handed>>,
         owed' = IF row.state = "recovery_required" THEN owed \cup {o} ELSE owed
  PROVE  DbInv' /\ HStep
<1>1. DbInv'
  BY PhaseKept
<1>2. /\ Stages' = [Stages EXCEPT ![o] = StageOf(o)']
      /\ Reached(o)' = Point(row) /\ Givers' = Givers
  BY RowChanges
<1>3. operation[o] \in Rows
  BY DEF DbInv, DatabaseOK
<1>4. Point(row) \in Before \cup Switched /\ Reached(o) \in Before \cup Switched
  BY <1>3 DEF DbInv, BackFits, Point, Reached, Open, Rows
<1>5. CASE StageOf(o)' = StageOf(o)
  BY <1>1, <1>2, <1>5 DEF HStep, H!handoverVars, Stages, Givers
<1>6. CASE StageOf(o)' # StageOf(o)
  <2>1. StageOf(o) = "taken" /\ StageOf(o)' = "alone"
    BY <1>2, <1>4, <1>6 DEF StageOf, Before, Switched
  <2>2. H!Outlast(o)
    BY <1>2, <2>1 DEF H!Outlast, Stages, Givers
  <2> QED  BY <1>1, <2>2 DEF HStep, H!HandoverNext
<1> QED  BY <1>5, <1>6

-----------------------------------------------------------------------------
(* What the steps of an operator do to what it and the multiplexer hold.   *)

Held0(p) == job[p] \in Jobs /\ job[p].o \in Operations /\ From(job[p].o) \in Agents

LEMMA AtWork ==
  ASSUME PInv, NEW p \in Operators, job[p].pc # "rest"
  PROVE  Held0(p) /\ operation[job[p].o] \in Rows
BY DEF PInv, DbInv, DatabaseOK, JobsOK, JobOK, Held0, From, Rows

LEMMA LaunchStep ==
  ASSUME PInv, NEW p \in Operators, Launch(p) \/ LaunchFails(p)
  PROVE  JobsOK' /\ NativeOK'
<1> DEFINE o == job[p].o
<1>1. Held0(p) /\ o \in Agents /\ JobsOK /\ NativeOK
  BY AtWork DEF Launch, LaunchFails, Held0, Agents, PInv, WorldOK
<1>2. CASE Launch(p)
  <2>1. JobOK([job[p] EXCEPT !.pc = "verify", !.receipt = "launched", !.driver = "made"])
    BY <1>1 DEF Held0, JobOK, Jobs, Places, Receipts
  <2>2. JobsOK'
    BY <1>1, <1>2, <2>1, PutKeeps DEF Launch
  <2>3. NativeOK'
    BY <1>1, <1>2 DEF Launch, NativeOK, Held0
  <2> QED  BY <2>2, <2>3
<1>3. CASE LaunchFails(p)
  <2>1. PICK driver \in {"none", "clean", "made"}, n \in {"none", "staging"} :
          /\ \/ proc' = [proc EXCEPT ![o] = "running"] /\ name' = [name EXCEPT ![o] = n]
                /\ launches' = [launches EXCEPT ![o] = @ + 1]
             \/ UNCHANGED <<proc, name, launches>>
          /\ Undo(p, [job[p] EXCEPT !.driver = driver])
    BY <1>3 DEF LaunchFails
  <2>2. [job[p] EXCEPT !.driver = driver] \in Jobs
        /\ [job[p] EXCEPT !.driver = driver].o \in Operations
    BY <1>1 DEF Held0, Jobs
  <2>3. JobsOK'
    BY <1>1, <2>1, <2>2, UndoKeeps
  <2>4. NativeOK'
    BY <1>1, <1>3, <2>1, ReplacementAssumption DEF LaunchFails, Trouble, NativeOK, Held0
  <2> QED  BY <2>3, <2>4
<1> QED  BY <1>2, <1>3

LEMMA RecoverStep ==
  ASSUME PInv, NEW p \in Operators, Recover(p) \/ Verify(p)
  PROVE  JobsOK' /\ NativeOK'
<1> DEFINE o == job[p].o
<1>1. Held0(p) /\ o \in Agents /\ JobsOK /\ NativeOK /\ job[p].pc # "rest"
  BY AtWork DEF Recover, Verify, Held0, Agents, PInv, WorldOK
<1>2. NativeOK'
  BY <1>1, ReplacementAssumption DEF Recover, Verify, Trouble, NativeOK, world
<1>3. JobOK([job[p] EXCEPT !.pc = "verify", !.receipt = "recovered"])
  BY <1>1 DEF Held0, JobOK, Jobs, Places, Receipts
<1>4. JobsOK'
  <2>1. CASE Undo(p, job[p])
    BY <1>1, <2>1, UndoKeeps DEF Held0
  <2>2. CASE Goto(p, "record")
    BY <1>1, <2>2, GotoKeeps DEF Places
  <2>3. CASE Put(p, [job[p] EXCEPT !.pc = "verify", !.receipt = "recovered"])
    BY <1>1, <1>3, <2>3, PutKeeps
  <2> QED  BY <2>1, <2>2, <2>3 DEF Recover, Verify
<1> QED  BY <1>2, <1>4

LEMMA RenameStep ==
  ASSUME PInv, NEW p \in Operators, NEW pc \in Places, NEW a \in Agents,
         NEW n \in {"canonical", "staging", "aside"},
         NEW done \in Places \ {"begin"}, NEW failed \in Places \ {"begin"},
         pc # "rest", Rename(p, pc, a, n, done, failed)
  PROVE  JobsOK' /\ NativeOK'
<1>1. JobsOK /\ NativeOK /\ job[p].pc # "rest"
  BY DEF Rename, PInv, WorldOK
<1>2. Goto(p, done) \/ Goto(p, failed)
  BY DEF Rename
<1>3. JobsOK'
  BY <1>1, <1>2, GotoKeeps
<1>4. name' \in [Agents -> {"none", "canonical", "staging", "aside"}]
  BY <1>1 DEF Rename, NativeOK
<1>5. troubles' \in 0..MaxTroubles
  BY <1>1, ReplacementAssumption DEF Rename, Trouble, NativeOK
<1> QED  BY <1>1, <1>3, <1>4, <1>5 DEF Rename, NativeOK

LEMMA NamesStep ==
  ASSUME PInv, NEW p \in Operators,
         SetAside(p) \/ Promote(p) \/ Demote(p) \/ Restore(p)
  PROVE  JobsOK' /\ NativeOK'
<1>1. job[p].pc # "rest"
  BY DEF SetAside, Promote, Demote, Restore, Rename
<1>2. From(job[p].o) \in Agents /\ job[p].o \in Agents
  BY <1>1, AtWork DEF Held0, Agents
<1>3. Unnamed(p) \in {"owe", "unlaunch"}
  BY DEF Unnamed
<1>4. CASE SetAside(p)
  BY <1>2, <1>4, RenameStep DEF SetAside, Places
<1>5. CASE Promote(p)
  BY <1>2, <1>5, RenameStep DEF Promote, Places
<1>6. CASE Demote(p)
  BY <1>2, <1>3, <1>6, RenameStep DEF Demote, Places
<1>7. CASE Restore(p)
  BY <1>2, <1>3, <1>7, RenameStep DEF Restore, Places
<1> QED  BY <1>4, <1>5, <1>6, <1>7

LEMMA ReadStep ==
  ASSUME PInv, NEW p \in Operators,
         SwapRead(p) \/ ReadBack(p) \/ UnswapRead(p) \/ Restored(p) \/ Assure(p) \/ Die(p)
  PROVE  JobsOK' /\ NativeOK'
<1> DEFINE o == job[p].o
           a == From(o)
<1>1. Held0(p) /\ JobsOK /\ NativeOK /\ job[p].pc # "rest"
  BY AtWork DEF SwapRead, ReadBack, UnswapRead, Restored, Assure, Die, PInv, WorldOK
<1>2. NativeOK'
  BY <1>1, ReplacementAssumption DEF SwapRead, ReadBack, UnswapRead, Restored, Assure, Die, Trouble,
     NativeOK, world
<1> SUFFICES JobsOK'
  BY <1>2
<1>3. a \in Agents /\ o \in Agents
  BY <1>1 DEF Held0, Agents
<1>4. Unnamed(p) \in {"owe", "unlaunch"}
  BY DEF Unnamed
<1>5. ASSUME NEW pc \in Places \ {"begin"}, NEW todo \in SUBSET Agents
      PROVE  /\ JobOK([job[p] EXCEPT !.pc = pc, !.todo = todo])
             /\ JobOK([job[p] EXCEPT !.pc = pc, !.routed = TRUE, !.todo = todo])
  BY <1>1 DEF Held0, JobOK, Jobs
<1>6. CASE SwapRead(p)
  <2>1. CASE Undo(p, job[p])
    BY <1>1, <2>1, UndoKeeps DEF Held0
  <2>2. CASE ~Undo(p, job[p])
    <3> DEFINE todo == {c \in {a, o} : name[c] = IF c = a THEN "canonical" ELSE "staging"}
    <3>1. Put(p, [job[p] EXCEPT !.pc = "aside", !.todo = todo])
      BY <1>6, <2>2 DEF SwapRead
    <3>2. todo \in SUBSET Agents /\ "aside" \in Places \ {"begin"}
      BY <1>3 DEF Places
    <3> QED  BY <1>1, <1>5, <3>1, <3>2, PutKeeps
  <2> QED  BY <2>1, <2>2
<1>7. CASE ReadBack(p)
  <2>1. CASE Goto(p, "unswap")
    BY <1>1, <2>1, GotoKeeps DEF Places
  <2>2. CASE Put(p, [job[p] EXCEPT !.pc = "activate", !.routed = TRUE, !.todo = {}])
    BY <1>1, <1>5, <2>2, PutKeeps DEF Places
  <2> QED  BY <1>7, <2>1, <2>2 DEF ReadBack
<1>8. CASE UnswapRead(p)
  <2>1. CASE Goto(p, Unnamed(p))
    BY <1>1, <1>4, <2>1, GotoKeeps DEF Places
  <2>2. CASE ~Goto(p, Unnamed(p))
    <3> DEFINE todo == {c \in {a, o} : At(c) /\ name[c] = IF c = a THEN "aside" ELSE "canonical"}
    <3>1. Put(p, [job[p] EXCEPT !.pc = "demote", !.todo = todo])
      BY <1>8, <2>2 DEF UnswapRead
    <3>2. todo \in SUBSET Agents /\ "demote" \in Places \ {"begin"}
      BY <1>3 DEF Places
    <3> QED  BY <1>1, <1>5, <3>1, <3>2, PutKeeps
  <2> QED  BY <2>1, <2>2
<1>9. CASE Restored(p)
  <2>1. \E pc \in {"unlaunch", "owe"} : Put(p, [job[p] EXCEPT !.pc = pc, !.todo = {}])
    BY <1>4, <1>9 DEF Restored
  <2> QED  BY <1>1, <1>5, <2>1, PutKeeps DEF Places
<1>10. CASE Assure(p) \/ Die(p)
  BY <1>1, <1>10, GotoKeeps DEF Assure, Die, Raise, Places
<1> QED  BY <1>6, <1>7, <1>8, <1>9, <1>10

LEMMA RetireStep ==
  ASSUME PInv, NEW p \in Operators, Retire(p) \/ Unlaunch(p)
  PROVE  JobsOK' /\ NativeOK'
<1> DEFINE o == job[p].o
<1>1. Held0(p) /\ o \in Agents /\ JobsOK /\ NativeOK /\ job[p].pc # "rest"
  BY AtWork DEF Retire, Unlaunch, Held0, Agents, PInv, WorldOK
<1>2. troubles' \in 0..MaxTroubles
  BY <1>1, ReplacementAssumption DEF Retire, Unlaunch, Quit, Trouble, NativeOK
<1>3. proc' \in [Agents -> {"none", "running", "leaving", "left", "gone"}]
      /\ name' \in [Agents -> {"none", "canonical", "staging", "aside"}]
  BY <1>1 DEF Retire, Unlaunch, Quit, NativeOK, Held0
<1>4. NativeOK'
  BY <1>1, <1>2, <1>3 DEF Retire, Unlaunch, NativeOK
<1>5. JobOK([job[p] EXCEPT !.pc = "retired", !.retired = TRUE])
  BY <1>1 DEF Held0, JobOK, Jobs, Places
<1>6. CASE Retire(p)
  <2>1. \/ Put(p, [job[p] EXCEPT !.pc = "retired", !.retired = TRUE])
        \/ Undo(p, job[p]) \/ Raise(p)
    BY <1>6 DEF Retire, Quit
  <2> QED  BY <1>1, <1>4, <1>5, <2>1, PutKeeps, UndoKeeps, RaiseKeeps DEF Held0
<1>7. CASE Unlaunch(p)
  <2>1. Goto(p, "assure") \/ Goto(p, "owe")
    BY <1>7 DEF Unlaunch, Quit
  <2> QED  BY <1>1, <1>4, <2>1, GotoKeeps DEF Places
<1> QED  BY <1>6, <1>7

LEMMA EnvironmentStep ==
  ASSUME PInv, NEW a \in Agents, Environment(a)
  PROVE  DbInv' /\ HStep /\ JobsOK' /\ NativeOK'
<1>1. UNCHANGED <<owner, roster, operation, owed, handed, job>>
  BY DEF Environment, Leave, Move, Reconcile, database
<1>2. exact' \subseteq Operations
  BY DEF Environment, Leave, Move, Reconcile, database, PInv, DbInv, DatabaseOK
<1>3. DbInv' /\ HStep
  BY <1>1, <1>2, DatabaseKept, RowsKept DEF PInv
<1>4. JobsOK'
  BY <1>1 DEF PInv, JobsOK
<1>5. NativeOK
  BY DEF PInv, WorldOK
<1>6. troubles' \in 0..MaxTroubles
  BY <1>5, ReplacementAssumption DEF Environment, Leave, Move, Reconcile, Trouble, NativeOK
<1>7. NativeOK'
  BY <1>5, <1>6 DEF Environment, Leave, Move, Reconcile, NativeOK
<1> QED  BY <1>3, <1>4, <1>7

LEMMA RetryStep ==
  ASSUME PInv, NEW p \in Operators, NEW o \in Operations, Retry(p, o)
  PROVE  DbInv' /\ HStep /\ JobsOK' /\ NativeOK'
<1> DEFINE j == [Rest EXCEPT !.o = o, !.receipt = operation[o].receipt,
                             !.routed = operation[o].routed, !.retired = operation[o].retired]
<1>1. operation \in [Operations -> Rows] /\ JobsOK /\ NativeOK
  BY DEF PInv, DbInv, DatabaseOK, WorldOK
<1>2. j \in Jobs /\ j.o \in Operations
  BY <1>1 DEF Rest, Jobs, Rows, Places
<1>3. Adopt(p, j)
  BY DEF Retry
<1>4. JobsOK'
  <2> HIDE DEF j
  <2> QED  BY <1>1, <1>2, <1>3, AdoptKeeps
<1>5. DbInv' /\ HStep
  BY DatabaseKept, RowsKept DEF Retry, database, PInv, DbInv, DatabaseOK
<1>6. NativeOK'
  BY <1>1 DEF Retry, world, NativeOK
<1> QED  BY <1>4, <1>5, <1>6

-----------------------------------------------------------------------------
(* The steps on the database.                                              *)

LEMMA ResumeStep ==
  ASSUME PInv, NEW p \in Operators, Resume(p)
  PROVE  DbInv' /\ HStep /\ JobsOK' /\ NativeOK'
<1> DEFINE o == job[p].o
           row == [operation[o] EXCEPT !.state = operation[o].back, !.back = "none"]
           j == [job[p] EXCEPT !.pc = Following(operation[o].back)]
<1>1. Held0(p) /\ JobsOK /\ NativeOK /\ DbInv /\ job[p].pc # "rest" /\ operation[o] \in Rows
      /\ operation \in [Operations -> Rows]
  BY AtWork DEF Resume, PInv, WorldOK, DbInv, DatabaseOK
<1>2. NativeOK'
  BY <1>1 DEF Resume, world, NativeOK
<1>3. CASE operation[o].state = "recovery_required" /\ job[p].fresh
  <2>1. operation[o].back \in Before \cup Switched
    BY <1>1, <1>3 DEF DbInv, BackFits, Held0, Rows
  <2>2. row \in Rows /\ row.state = operation[o].back /\ row.back = "none" /\ row.from = From(o)
    BY <1>1, <2>1 DEF Rows, From, Open
  <2>3. Following(operation[o].back) \in Places
        /\ (Following(operation[o].back) = "begin" =>
              operation[o].back \in {"prepared", "successor_verified", "activated"})
    BY <2>1, FollowingFits DEF Open
  <2>4. j \in Jobs /\ j.o = o /\ j.pc = Following(operation[o].back)
    BY <1>1, <2>3 DEF Held0, Jobs
  <2>5. Write(p, j, row)
    BY <1>3 DEF Resume
  <2>6. JobsOK' /\ operation' = [operation EXCEPT ![o] = row]
    <3> HIDE DEF j, row
    <3> QED  BY <1>1, <2>2, <2>3, <2>4, <2>5, WriteKeeps DEF Held0
  <2>7. Point(row) = Reached(o) /\ row.state \in Open /\ operation[o].state \in Open
        /\ ~(row.state = "recovery_required")
    BY <1>3, <2>1, <2>2 DEF Point, Reached, Open, Before, Switched
  <2>8. UNCHANGED <<owner, roster, exact, handed, owed>>
    BY DEF Resume
  <2>9. DbInv' /\ HStep
    <3> HIDE DEF row
    <3> QED  BY <1>1, <2>2, <2>6, <2>7, <2>8, GoesOn DEF Held0
  <2> QED  BY <1>2, <2>6, <2>9
<1>4. CASE ~(operation[o].state = "recovery_required" /\ job[p].fresh)
  <2>1. Raise(p) /\ UNCHANGED <<owner, roster, operation, exact, owed, handed>>
    BY <1>4 DEF Resume
  <2>2. DbInv' /\ HStep
    BY <1>1, <2>1, DatabaseKept, RowsKept DEF DbInv, DatabaseOK
  <2> QED  BY <1>1, <1>2, <2>1, <2>2, RaiseKeeps
<1> QED  BY <1>3, <1>4

\* The call refuses, or finds that another operator was there before.
LEMMA NothingWritten ==
  ASSUME PInv, NEW p \in Operators, job[p].pc # "rest",
         UNCHANGED <<owner, roster, operation, exact, owed, handed>>,
         Raise(p) \/ Undo(p, job[p]) \/ Adopt(p, job[p])
  PROVE  DbInv' /\ HStep /\ JobsOK'
<1>1. Held0(p) /\ JobsOK /\ DbInv /\ operation \in [Operations -> Rows] /\ exact \subseteq Operations
  BY AtWork DEF PInv, DbInv, DatabaseOK
<1>2. DbInv' /\ HStep
  BY <1>1, DatabaseKept, RowsKept
<1> QED  BY <1>1, <1>2, RaiseKeeps, UndoKeeps, AdoptKeeps DEF Held0

\* The operation goes on, and its operator with it.
LEMMA Advance ==
  ASSUME PInv, NEW p \in Operators, job[p].pc # "rest", NEW pc \in Places, NEW row \in Rows,
         Write(p, [job[p] EXCEPT !.pc = pc], row),
         pc = "begin" => row.state \in {"prepared", "successor_verified", "activated"},
         operation[job[p].o].state \in Open, row.state \in Open,
         row.from = From(job[p].o),
         Point(row) \in Before <=> Reached(job[p].o) \in Before,
         Point(row) \in Switched <=> Reached(job[p].o) \in Switched,
         Point(row) = "predecessor_retired" \/ Reached(job[p].o) # "predecessor_retired",
         row.state = "recovery_required" <=> row.back # "none",
         UNCHANGED <<owner, roster, exact, handed>>,
         owed' = IF row.state = "recovery_required" THEN owed \cup {job[p].o} ELSE owed
  PROVE  DbInv' /\ HStep /\ JobsOK'
<1> DEFINE o == job[p].o
           j == [job[p] EXCEPT !.pc = pc]
<1>1. Held0(p) /\ JobsOK /\ DbInv /\ operation \in [Operations -> Rows]
  BY AtWork DEF PInv, DbInv, DatabaseOK
<1>2. j \in Jobs /\ j.o = o /\ j.pc = pc /\ Write(p, j, row)
  BY <1>1 DEF Held0, Jobs
<1>3. JobsOK' /\ operation' = [operation EXCEPT ![o] = row]
  <2> HIDE DEF j
  <2> QED  BY <1>1, <1>2, WriteKeeps DEF Held0
<1>4. DbInv' /\ HStep
  BY <1>1, <1>3, GoesOn DEF Held0
<1> QED  BY <1>3, <1>4

LEMMA IntendedIs ==
  ASSUME NEW s \in {"prepared", "successor_verified", "activated"}
  PROVE  /\ s = "prepared" => Intended[s] = "launching"
         /\ s = "successor_verified" => Intended[s] = "route_swapping"
         /\ s = "activated" => Intended[s] = "retiring"
BY DEF Intended

LEMMA BeginStep ==
  ASSUME PInv, NEW p \in Operators, BeginEffect(p)
  PROVE  DbInv' /\ HStep /\ JobsOK' /\ NativeOK'
<1> DEFINE o == job[p].o
           s == job[p].state
           to == Intended[s]
           row == [operation[o] EXCEPT !.state = to]
           pc == IF to = "launching" THEN "launch" ELSE Following(to)
<1>1. Held0(p) /\ NativeOK /\ DbInv /\ job[p].pc # "rest" /\ operation[o] \in Rows
      /\ s \in {"prepared", "successor_verified", "activated"}
  BY AtWork DEF BeginEffect, PInv, WorldOK, JobsOK, JobOK
<1>2. NativeOK' /\ UNCHANGED <<owner, roster, exact, handed, owed>>
  BY <1>1 DEF BeginEffect, world, NativeOK
<1>3. \/ UNCHANGED operation /\ (Raise(p) \/ Adopt(p, job[p]))
      \/ operation[o].state = s /\ Write(p, [job[p] EXCEPT !.pc = pc], row)
  BY DEF BeginEffect
<1>4. CASE UNCHANGED operation /\ (Raise(p) \/ Adopt(p, job[p]))
  BY <1>1, <1>2, <1>4, NothingWritten
<1>5. CASE operation[o].state = s /\ Write(p, [job[p] EXCEPT !.pc = pc], row)
  <2>1. /\ s = "prepared" => to = "launching"
        /\ s = "successor_verified" => to = "route_swapping"
        /\ s = "activated" => to = "retiring"
    BY <1>1, IntendedIs
  <2> HIDE DEF to
  <2>2. to \in {"launching", "route_swapping", "retiring"}
    BY <1>1, <2>1
  <2>3. pc \in {"launch", "swap", "retire"}
    BY <2>2 DEF Following
  <2>4. row \in Rows /\ row.state = to /\ row.from = From(o) /\ row.back = operation[o].back
    BY <1>1, <2>2 DEF Rows, From, Open, Before, Switched
  <2>5. row.back = "none" /\ row.state # "recovery_required" /\ operation[o].state # "recovery_required"
    BY <1>1, <1>5, <2>2, <2>4 DEF DbInv, BackFits, Held0
  <2>6. Point(row) = to /\ Reached(o) = s
    BY <1>5, <2>4, <2>5 DEF Point, Reached
  <2>7. operation[o].state \in Open /\ row.state \in Open
        /\ (to \in Before <=> s \in Before) /\ (to \in Switched <=> s \in Switched)
    BY <1>1, <1>5, <2>1, <2>4 DEF Open, Before, Switched
  <2>8. pc \in Places \ {"begin"}
    BY <2>3 DEF Places
  <2> HIDE DEF row, pc
  <2> QED  BY <1>1, <1>2, <1>5, <2>4, <2>5, <2>6, <2>7, <2>8, Advance
<1> QED  BY <1>3, <1>4, <1>5

LEMMA VerifiedStep ==
  ASSUME PInv, NEW p \in Operators, RecordVerified(p)
  PROVE  DbInv' /\ HStep /\ JobsOK' /\ NativeOK'
<1> DEFINE o == job[p].o
           row == [operation[o] EXCEPT !.state = "successor_verified", !.receipt = job[p].receipt]
<1>1. Held0(p) /\ NativeOK /\ DbInv /\ job[p].pc # "rest" /\ operation[o] \in Rows
  BY AtWork DEF RecordVerified, PInv, WorldOK
<1>2. NativeOK' /\ UNCHANGED <<owner, roster, exact, handed, owed>>
  BY <1>1 DEF RecordVerified, world, NativeOK
<1>3. \/ UNCHANGED operation /\ (Undo(p, job[p]) \/ Adopt(p, job[p]))
      \/ operation[o].state = "launching" /\ Write(p, [job[p] EXCEPT !.pc = "begin"], row)
  BY DEF RecordVerified
<1>4. CASE UNCHANGED operation /\ (Undo(p, job[p]) \/ Adopt(p, job[p]))
  BY <1>1, <1>2, <1>4, NothingWritten
<1>5. CASE operation[o].state = "launching" /\ Write(p, [job[p] EXCEPT !.pc = "begin"], row)
  <2>1. /\ row \in Rows /\ row.state = "successor_verified" /\ row.from = From(o)
        /\ row.back = "none"
    BY <1>1, <1>5 DEF Rows, From, Open, Before, DbInv, BackFits, Held0, Jobs
  <2>2. Point(row) = "successor_verified" /\ Reached(o) = "launching"
    BY <1>5, <2>1 DEF Point, Reached
  <2>3. operation[o].state \in Open /\ row.state \in Open /\ "begin" \in Places
    BY <1>5, <2>1 DEF Open, Before, Places
  <2> HIDE DEF row
  <2>4. Point(row) \in Before /\ Reached(o) \in Before
        /\ Point(row) \notin Switched /\ Reached(o) \notin Switched
    BY <2>2 DEF Before, Switched
  <2> QED  BY <1>1, <1>2, <1>5, <2>1, <2>2, <2>3, <2>4, Advance
<1> QED  BY <1>3, <1>4, <1>5

LEMMA RetiredStep ==
  ASSUME PInv, NEW p \in Operators, RecordRetired(p)
  PROVE  DbInv' /\ HStep /\ JobsOK' /\ NativeOK'
<1> DEFINE o == job[p].o
           row == [operation[o] EXCEPT !.state = "predecessor_retired", !.retired = TRUE]
<1>1. Held0(p) /\ NativeOK /\ DbInv /\ job[p].pc # "rest" /\ operation[o] \in Rows
  BY AtWork DEF RecordRetired, PInv, WorldOK
<1>2. NativeOK' /\ UNCHANGED <<owner, roster, exact, handed, owed>>
  BY <1>1 DEF RecordRetired, world, NativeOK
<1>3. \/ UNCHANGED operation /\ (Undo(p, job[p]) \/ Adopt(p, job[p]))
      \/ operation[o].state = "retiring" /\ Write(p, [job[p] EXCEPT !.pc = "complete"], row)
  BY DEF RecordRetired
<1>4. CASE UNCHANGED operation /\ (Undo(p, job[p]) \/ Adopt(p, job[p]))
  BY <1>1, <1>2, <1>4, NothingWritten
<1>5. CASE operation[o].state = "retiring" /\ Write(p, [job[p] EXCEPT !.pc = "complete"], row)
  <2>1. /\ row \in Rows /\ row.state = "predecessor_retired" /\ row.from = From(o)
        /\ row.back = "none"
    BY <1>1, <1>5 DEF Rows, From, Open, Switched, DbInv, BackFits, Held0
  <2>2. Point(row) = "predecessor_retired" /\ Reached(o) = "retiring"
    BY <1>5, <2>1 DEF Point, Reached
  <2>3. operation[o].state \in Open /\ row.state \in Open /\ "complete" \in Places
    BY <1>5, <2>1 DEF Open, Switched, Places
  <2> HIDE DEF row
  <2>4. Point(row) \in Switched /\ Reached(o) \in Switched
        /\ Point(row) \notin Before /\ Reached(o) \notin Before
    BY <2>2 DEF Before, Switched
  <2> QED  BY <1>1, <1>2, <1>5, <2>1, <2>2, <2>3, <2>4, Advance
<1> QED  BY <1>3, <1>4, <1>5

LEMMA OweStep ==
  ASSUME PInv, NEW p \in Operators, Owe(p)
  PROVE  DbInv' /\ HStep /\ JobsOK' /\ NativeOK'
<1> DEFINE o == job[p].o
           row == [operation[o] EXCEPT !.back = operation[o].state, !.state = "recovery_required"]
<1>1. Held0(p) /\ NativeOK /\ DbInv /\ job[p].pc # "rest" /\ operation[o] \in Rows
  BY AtWork DEF Owe, PInv, WorldOK
<1>2. NativeOK' /\ UNCHANGED <<owner, roster, exact, handed>>
  BY <1>1 DEF Owe, world, NativeOK
<1>3. \/ Raise(p) /\ UNCHANGED <<operation, owed>>
      \/ /\ operation[o].state \in Open \ {"recovery_required"}
         /\ Write(p, [job[p] EXCEPT !.pc = "rest"], row) /\ owed' = owed \cup {o}
  BY DEF Owe
<1>4. CASE Raise(p) /\ UNCHANGED <<operation, owed>>
  BY <1>1, <1>2, <1>4, NothingWritten
<1>5. CASE /\ operation[o].state \in Open \ {"recovery_required"}
           /\ Write(p, [job[p] EXCEPT !.pc = "rest"], row) /\ owed' = owed \cup {o}
  <2>1. /\ row \in Rows /\ row.state = "recovery_required" /\ row.from = From(o)
        /\ row.back = operation[o].state /\ row.back # "none"
    BY <1>1, <1>5 DEF Rows, From, Open, Before, Switched
  <2>2. Point(row) = Reached(o) /\ "rest" \in Places /\ "rest" # "begin" /\ row.state \in Open
    BY <1>5, <2>1 DEF Point, Reached, Places, Open
  <2> HIDE DEF row
  <2> QED  BY <1>1, <1>2, <1>5, <2>1, <2>2, Advance
<1> QED  BY <1>3, <1>4, <1>5

LEMMA PrepareStep ==
  ASSUME PInv, NEW p \in Operators, NEW o \in Operations, Prepare(p, o)
  PROVE  DbInv' /\ HStep /\ JobsOK' /\ NativeOK'
<1> DEFINE j == [Rest EXCEPT !.o = o, !.pc = "begin"]
           row == [NoRow EXCEPT !.state = "prepared", !.from = owner]
<1>1. NativeOK /\ DbInv /\ JobsOK /\ operation \in [Operations -> Rows] /\ owner \in Agents
      /\ operation[o].state = "none" /\ o \in Agents
  BY DEF Prepare, Unused, PInv, WorldOK, DbInv, DatabaseOK, Agents
<1>2. row \in Rows /\ row.state = "prepared" /\ row.back = "none" /\ row.from = owner
  BY <1>1 DEF NoRow, Rows, Open, Before, Receipts
<1>3. j \in Jobs /\ j.o = o /\ j.pc = "begin" /\ Write(p, j, row)
  BY <1>1 DEF Prepare, Rest, Jobs, Places, Receipts
<1>4. JobsOK' /\ operation' = [operation EXCEPT ![o] = row] /\ operation' \in [Operations -> Rows]
  <2> HIDE DEF j, row
  <2> QED  BY <1>1, <1>2, <1>3, WriteKeeps
<1>5. UNCHANGED <<owner, roster, owed, handed>> /\ exact' = exact \cup {o}
  BY DEF Prepare
<1>6. NativeOK'
  BY <1>1 DEF Prepare, NativeOK
<1>7. operation'[o] = row /\ \A q \in Operations \ {o} : operation'[q] = operation[q]
  BY <1>1, <1>4
<1> HIDE DEF row, j
<1>8. \A q \in Operations : operation[q].state \notin Open
  BY DEF Prepare, Held
<1>9. DatabaseOK' /\ \A a \in Agents : roster'[a] = "live" <=> a = owner'
  BY <1>1, <1>4, <1>5 DEF DbInv, DatabaseOK
<1>10. BackFits'
  BY <1>1, <1>2, <1>7 DEF DbInv, BackFits
<1>11. OneIsOpen'
  BY <1>7, <1>8 DEF OneIsOpen
<1>12. Unmet'
  <2>1. owner # o
    BY <1>1 DEF DbInv, Unmet
  <2> QED  BY <1>1, <1>2, <1>5, <1>7, <2>1 DEF DbInv, Unmet, From
<1>13. OwnerIsSwitched'
  <2>1. \A q \in Operations \ {o} : From(q)' = From(q) /\ Reached(q)' = Reached(q)
    BY <1>7 DEF From, Reached
  <2>2. From(o)' = owner /\ Reached(o)' = "prepared" /\ "prepared" \notin Switched
    BY <1>2, <1>7 DEF From, Reached, Switched
  <2> QED  BY <1>1, <1>5, <2>1, <2>2 DEF DbInv, OwnerIsSwitched
<1>14. OwedIsOpen'
  <2>1. o \notin owed /\ o \notin handed
    BY <1>1 DEF DbInv, OwedIsOpen, Open, Before, Switched
  <2> QED  BY <1>1, <1>2, <1>5, <1>7, <2>1 DEF DbInv, OwedIsOpen
<1>15. DbInv'
  BY <1>9, <1>10, <1>11, <1>12, <1>13, <1>14 DEF DbInv
<1>16. HStep
  <2>1. \A q \in Operations : StageOf(q) \notin H!UnderWay
    BY <1>1, <1>8, OpenStages
  <2>2. StageOf(o) = "new"
    BY <1>1, OpenStages
  <2>3. StageOf(o)' = "offered"
    BY <1>2, <1>7 DEF StageOf, Reached, Before
  <2>4. \A q \in Operations \ {o} : StageOf(q)' = StageOf(q) /\ From(q)' = From(q)
    BY <1>7 DEF StageOf, Reached, From
  <2>5. From(o)' = owner
    BY <1>2, <1>7 DEF From
  <2>6. Stages' = [q \in Operations |-> StageOf(q)'] /\ Givers' = [q \in Operations |-> From(q)']
    BY DEF Stages, Givers
  <2>7. Stages' = [Stages EXCEPT ![o] = "offered"] /\ Givers' = [Givers EXCEPT ![o] = owner]
    BY <2>3, <2>4, <2>5, <2>6 DEF Stages, Givers
  <2>8. H!Offer(o)
    BY <1>5, <2>1, <2>2, <2>7 DEF H!Offer, Stages, Givers
  <2> QED  BY <2>8 DEF HStep, H!HandoverNext
<1> QED  BY <1>4, <1>6, <1>15, <1>16

LEMMA CompleteStep ==
  ASSUME PInv, NEW p \in Operators, NEW o \in Operations, o = job[p].o, Complete(p)
  PROVE  DbInv' /\ HStep /\ JobsOK' /\ NativeOK'
<1> DEFINE row == [operation[o] EXCEPT !.state = "completed"]
           j == [job[p] EXCEPT !.pc = "rest"]
<1>1. Held0(p) /\ JobsOK /\ NativeOK /\ DbInv /\ job[p].pc # "rest" /\ operation[o] \in Rows
      /\ operation \in [Operations -> Rows]
  BY AtWork DEF Complete, PInv, WorldOK, DbInv, DatabaseOK
<1>2. NativeOK' /\ UNCHANGED <<owner, roster, exact>>
  BY <1>1 DEF Complete, world, NativeOK
<1>3. \/ Raise(p) /\ UNCHANGED <<operation, handed, owed>>
      \/ /\ operation[o].state = "predecessor_retired" /\ owner = o
         /\ Write(p, j, row)
         /\ handed' = handed \cup {o} /\ owed' = owed \ {o}
  BY DEF Complete, Discharged
<1>4. CASE Raise(p) /\ UNCHANGED <<operation, handed, owed>>
  BY <1>1, <1>2, <1>4, NothingWritten
<1>5. CASE /\ operation[o].state = "predecessor_retired" /\ owner = o
           /\ Write(p, j, row)
           /\ handed' = handed \cup {o} /\ owed' = owed \ {o}
  <2>1. row \in Rows /\ row.state = "completed" /\ row.from = From(o) /\ row.back = "none"
    BY <1>1, <1>5 DEF Rows, From, Settled, DbInv, BackFits, Held0
  <2>2. j \in Jobs /\ j.o = o /\ j.pc = "rest"
    BY <1>1 DEF Held0, Jobs, Places
  <2>3. JobsOK' /\ operation' = [operation EXCEPT ![o] = row] /\ operation' \in [Operations -> Rows]
    <3> HIDE DEF j, row
    <3> QED  BY <1>1, <1>5, <2>1, <2>2, WriteKeeps DEF Held0
  <2>4. operation'[o] = row /\ \A q \in Operations \ {o} : operation'[q] = operation[q]
    BY <1>1, <2>3
  <2> HIDE DEF row, j
  <2>5. DatabaseOK' /\ \A a \in Agents : roster'[a] = "live" <=> a = owner'
    BY <1>1, <1>2, <1>5, <2>3 DEF DbInv, DatabaseOK, Held0
  <2>6. BackFits'
    BY <1>1, <2>1, <2>4 DEF DbInv, BackFits
  <2>7. Unmet' /\ OneIsOpen'
    BY <1>1, <1>2, <2>1, <2>4 DEF DbInv, Unmet, OneIsOpen, From, Open, Before, Switched
  <2>8. OwnerIsSwitched'
    <3>1. \A q \in Operations \ {o} : From(q)' = From(q) /\ Reached(q)' = Reached(q)
      BY <2>4 DEF From, Reached
    <3>2. Reached(o)' = "completed" /\ "completed" \notin Before \cup Switched
      BY <2>1, <2>4 DEF Reached, Before, Switched
    <3> QED  BY <1>1, <1>2, <3>1, <3>2 DEF DbInv, OwnerIsSwitched
  <2>9. OwedIsOpen'
    BY <1>1, <1>5, <2>1, <2>4 DEF DbInv, OwedIsOpen
  <2>10. H!Finish(o)
    <3>1. Stages' = [Stages EXCEPT ![o] = StageOf(o)'] /\ Givers' = Givers /\ Reached(o)' = Point(row)
      BY <1>1, <2>1, <2>3, RowChanges DEF Held0
    <3>2. Reached(o)' = "completed" /\ Reached(o) = "predecessor_retired"
      BY <1>5, <2>1, <3>1 DEF Point, Reached
    <3>3. StageOf(o)' = "finished" /\ StageOf(o) = "alone"
      BY <3>2 DEF StageOf, Before, Switched
    <3> QED  BY <1>1, <1>2, <1>5, <3>1, <3>3 DEF H!Finish, Stages, Givers, Held0
  <2> QED  BY <1>1, <1>2, <2>3, <2>5, <2>6, <2>7, <2>8, <2>9, <2>10
         DEF DbInv, HStep, H!HandoverNext, Held0
<1> QED  BY <1>3, <1>4, <1>5

LEMMA ActivateStep ==
  ASSUME PInv, NEW p \in Operators, NEW o \in Operations, o = job[p].o, Activate(p)
  PROVE  DbInv' /\ HStep /\ JobsOK' /\ NativeOK'
<1> DEFINE row == [operation[o] EXCEPT !.state = "activated", !.routed = TRUE]
           j == [job[p] EXCEPT !.pc = "begin"]
<1>1. Held0(p) /\ JobsOK /\ NativeOK /\ DbInv /\ job[p].pc # "rest" /\ operation[o] \in Rows
      /\ operation \in [Operations -> Rows]
  BY AtWork DEF Activate, PInv, WorldOK, DbInv, DatabaseOK
<1>2. NativeOK' /\ UNCHANGED <<exact, owed, handed>>
  BY <1>1 DEF Activate, world, NativeOK
<1>3. \/ (Undo(p, job[p]) \/ Adopt(p, job[p])) /\ UNCHANGED <<operation, owner, roster>>
      \/ /\ operation[o].state = "route_swapping" /\ owner = From(o)
         /\ Write(p, j, row) /\ owner' = o
         /\ roster' = [roster EXCEPT ![From(o)] = "retired", ![o] = "live"]
  BY DEF Activate, Switchable
<1>4. CASE (Undo(p, job[p]) \/ Adopt(p, job[p])) /\ UNCHANGED <<operation, owner, roster>>
  BY <1>1, <1>2, <1>4, NothingWritten
<1>5. CASE /\ operation[o].state = "route_swapping" /\ owner = From(o)
           /\ Write(p, j, row) /\ owner' = o
           /\ roster' = [roster EXCEPT ![From(o)] = "retired", ![o] = "live"]
  <2>1. row \in Rows /\ row.state = "activated" /\ row.from = From(o) /\ row.back = "none"
    BY <1>1, <1>5 DEF Rows, From, Open, Switched, DbInv, BackFits
  <2>2. j \in Jobs /\ j.o = o /\ j.pc = "begin"
    BY <1>1 DEF Held0, Jobs, Places
  <2>3. JobsOK' /\ operation' = [operation EXCEPT ![o] = row] /\ operation' \in [Operations -> Rows]
    <3> HIDE DEF j, row
    <3> QED  BY <1>1, <1>5, <2>1, <2>2, WriteKeeps
  <2>4. operation'[o] = row /\ \A q \in Operations \ {o} : operation'[q] = operation[q]
    BY <1>1, <2>3
  <2> HIDE DEF row, j
  <2>5. o \in Agents /\ From(o) \in Agents /\ From(o) # o /\ operation[o].state \in Open
    BY <1>1, <1>5 DEF Agents, From, Rows, DbInv, Unmet, Open, Before
  <2>6. DatabaseOK' /\ \A a \in Agents : roster'[a] = "live" <=> a = owner'
    BY <1>1, <1>2, <1>5, <2>3, <2>5 DEF DbInv, DatabaseOK
  <2>7. BackFits'
    BY <1>1, <2>1, <2>4 DEF DbInv, BackFits
  <2>8. OneIsOpen'
    BY <1>1, <2>1, <2>4, <2>5 DEF DbInv, OneIsOpen
  <2>9. Unmet'
    BY <1>1, <1>5, <2>1, <2>4 DEF DbInv, Unmet, From, Open, Switched
  <2>10. OwnerIsSwitched'
    <3>1. \A q \in Operations \ {o} : operation[q].state \notin Open
      BY <1>1, <2>5 DEF DbInv, OneIsOpen
    <3>2. \A q \in Operations \ {o} : Reached(q)' \notin Before \cup Switched
      BY <2>4, <3>1 DEF Reached, Open
    <3>3. Reached(o)' = "activated" /\ "activated" \notin Before
      BY <2>1, <2>4 DEF Reached, Before
    <3> QED  BY <1>5, <3>2, <3>3 DEF OwnerIsSwitched
  <2>11. OwedIsOpen'
    BY <1>1, <1>2, <1>5, <2>1, <2>4 DEF DbInv, OwedIsOpen, Open, Switched
  <2>12. H!Take(o)
    <3>1. Stages' = [Stages EXCEPT ![o] = StageOf(o)'] /\ Givers' = Givers /\ Reached(o)' = Point(row)
      BY <1>1, <2>1, <2>3, RowChanges
    <3>2. Reached(o)' = "activated" /\ Reached(o) = "route_swapping"
      BY <1>5, <2>1, <3>1 DEF Point, Reached
    <3>3. StageOf(o)' = "taken" /\ StageOf(o) = "offered"
      BY <3>2 DEF StageOf, Before
    <3> QED  BY <1>5, <3>1, <3>3 DEF H!Take, Stages, Givers
  <2> QED  BY <1>2, <2>3, <2>6, <2>7, <2>8, <2>9, <2>10, <2>11, <2>12
         DEF DbInv, HStep, H!HandoverNext
<1> QED  BY <1>3, <1>4, <1>5

LEMMA CommitStep ==
  ASSUME PInv, NEW p \in Operators, NEW o \in Operations, o = job[p].o, Commit(p)
  PROVE  DbInv' /\ HStep /\ JobsOK' /\ NativeOK'
<1> DEFINE row == [operation[o] EXCEPT !.state = "rolled_back"]
           j == [job[p] EXCEPT !.pc = "rest"]
           a == From(o)
           kept == operation[o].state \in Before /\ owner = a
           back == operation[o].state \in {"activated", "retiring"} /\ owner = o
           move == /\ kept \/ back
                   /\ Write(p, j, row) /\ owner' = a /\ owed' = owed \ {o}
                   /\ roster' = [roster EXCEPT ![a] = "live", ![o] = "absent"]
<1>1. Held0(p) /\ JobsOK /\ NativeOK /\ DbInv /\ job[p].pc # "rest" /\ operation[o] \in Rows
      /\ operation \in [Operations -> Rows]
  BY AtWork DEF Commit, PInv, WorldOK, DbInv, DatabaseOK
<1>2. NativeOK' /\ UNCHANGED <<exact, handed>>
  BY <1>1 DEF Commit, world, NativeOK
<1>3. (Raise(p) /\ UNCHANGED <<operation, owed, owner, roster>>) \/ move
  BY DEF Commit, Switchable, Discharged, Restorable
<1>4. CASE Raise(p) /\ UNCHANGED <<operation, owed, owner, roster>>
  BY <1>1, <1>2, <1>4, NothingWritten
<1>5. CASE move
  <2>1. operation[o].state \in Open /\ operation[o].state # "recovery_required"
    BY <1>5 DEF Open, Before, Switched
  <2>2. row \in Rows /\ row.state = "rolled_back" /\ row.from = a /\ row.back = "none"
    BY <1>1, <2>1 DEF Rows, From, Settled, DbInv, BackFits
  <2>3. j \in Jobs /\ j.o = o /\ j.pc = "rest"
    BY <1>1 DEF Held0, Jobs, Places
  <2>4. Write(p, j, row) /\ owner' = a /\ owed' = owed \ {o}
        /\ roster' = [roster EXCEPT ![a] = "live", ![o] = "absent"] /\ (owner = a \/ owner = o)
    BY <1>5
  <2>5. JobsOK' /\ operation' = [operation EXCEPT ![o] = row] /\ operation' \in [Operations -> Rows]
    <3> HIDE DEF j, row, a
    <3> QED  BY <1>1, <2>2, <2>3, <2>4, WriteKeeps
  <2>6. operation'[o] = row /\ \A q \in Operations \ {o} : operation'[q] = operation[q]
    BY <1>1, <2>5
  <2> HIDE DEF row, j
  <2>7. o \in Agents /\ a \in Agents /\ a # o
    BY <1>1 DEF Agents, From, Rows, DbInv, Unmet
  <2>8. DatabaseOK' /\ \A b \in Agents : roster'[b] = "live" <=> b = owner'
    BY <1>1, <1>2, <2>4, <2>5, <2>7 DEF DbInv, DatabaseOK
  <2>9. BackFits'
    BY <1>1, <2>2, <2>6 DEF DbInv, BackFits
  <2>10. OneIsOpen'
    BY <1>1, <2>1, <2>2, <2>6 DEF DbInv, OneIsOpen, Open, Before, Switched
  <2>11. Unmet'
    <3>1. \A q \in Operations : operation'[q].state = "none" => operation[q].state = "none"
      BY <2>2, <2>6
    <3>2. \A q \in Operations : operation'[q].from = operation[q].from
      BY <2>2, <2>6 DEF From
    <3> QED  BY <1>1, <2>4, <3>1, <3>2 DEF DbInv, Unmet, From
  <2>12. OwnerIsSwitched'
    <3>1. \A q \in Operations \ {o} : operation[q].state \notin Open
      BY <1>1, <2>1 DEF DbInv, OneIsOpen
    <3>2. \A q \in Operations : Reached(q)' \notin Before \cup Switched
      <4>1. Reached(o)' = "rolled_back"
        BY <2>2, <2>6 DEF Reached
      <4> QED  BY <2>6, <3>1, <4>1 DEF Reached, Open, Before, Switched
    <3> QED  BY <3>2 DEF OwnerIsSwitched
  <2>13. OwedIsOpen'
    <3>1. o \notin handed
      BY <1>1, <2>1 DEF DbInv, OwedIsOpen, Open, Before, Switched
    <3> QED  BY <1>1, <1>2, <2>2, <2>4, <2>6, <3>1 DEF DbInv, OwedIsOpen
  <2>14. H!GiveBack(o)
    <3>1. Stages' = [Stages EXCEPT ![o] = StageOf(o)'] /\ Givers' = Givers /\ Reached(o)' = Point(row)
      BY <1>1, <2>2, <2>5, RowChanges
    <3>2. Reached(o)' = "rolled_back" /\ Reached(o) = operation[o].state
      BY <2>1, <2>2, <3>1 DEF Point, Reached
    <3>3. StageOf(o)' = "refused"
      BY <3>2 DEF StageOf, Before, Switched
    <3>4. \/ StageOf(o) = "offered" /\ owner = a
          \/ StageOf(o) = "taken" /\ owner = o
      BY <1>5, <3>2 DEF StageOf, Before
    <3> QED  BY <2>4, <3>1, <3>3, <3>4 DEF H!GiveBack, Stages, Givers
  <2> QED  BY <1>2, <2>5, <2>8, <2>9, <2>10, <2>11, <2>12, <2>13, <2>14
         DEF DbInv, HStep, H!HandoverNext
<1> QED  BY <1>3, <1>4, <1>5

-----------------------------------------------------------------------------
(* Every step.                                                             *)

LEMMA NextStep ==
  ASSUME PInv, Next
  PROVE  PInv' /\ HStep
<1>1. ASSUME NEW p \in Operators, NEW o \in Operations, Prepare(p, o) \/ Retry(p, o)
      PROVE  PInv' /\ HStep
  <2>1. Join(p)
    BY <1>1 DEF Prepare, Retry
  <2>2. crowded' \in BOOLEAN
    BY <2>1 DEF Join, PInv, WorldOK
  <2> QED  BY <1>1, <2>2, PrepareStep, RetryStep DEF PInv, WorldOK
<1>2. ASSUME NEW p \in Operators, Step(p) \/ Die(p), UNCHANGED crowded
      PROVE  PInv' /\ HStep
  <2>1. crowded' \in BOOLEAN
    BY <1>2 DEF PInv, WorldOK
  <2>2. CASE \/ Launch(p) \/ LaunchFails(p) \/ Recover(p) \/ Verify(p)
             \/ SetAside(p) \/ Promote(p) \/ Demote(p) \/ Restore(p)
             \/ SwapRead(p) \/ ReadBack(p) \/ UnswapRead(p) \/ Restored(p) \/ Assure(p) \/ Die(p)
             \/ Retire(p) \/ Unlaunch(p)
    <3>1. UNCHANGED <<owner, roster, operation, exact, owed, handed>>
      BY <2>2 DEF Launch, LaunchFails, Recover, Verify, SetAside, Promote, Demote, Restore, Rename,
         SwapRead, ReadBack, UnswapRead, Restored, Assure, Die, Retire, Unlaunch, database
    <3>2. DbInv' /\ HStep
      BY <3>1, DatabaseKept, RowsKept DEF PInv, DbInv, DatabaseOK
    <3>3. JobsOK' /\ NativeOK'
      BY <2>2, LaunchStep, RecoverStep, NamesStep, ReadStep, RetireStep
    <3> QED  BY <2>1, <3>2, <3>3 DEF PInv, WorldOK
  <2>3. CASE \/ Resume(p) \/ BeginEffect(p) \/ RecordVerified(p) \/ RecordRetired(p) \/ Owe(p)
    BY <2>1, <2>3, ResumeStep, BeginStep, VerifiedStep, RetiredStep, OweStep DEF PInv, WorldOK
  <2>4. CASE \/ Activate(p) \/ Complete(p) \/ Commit(p)
    <3>1. job[p].o \in Operations
      BY <2>4, AtWork DEF Activate, Complete, Commit, Held0
    <3> QED  BY <2>1, <2>4, <3>1, ActivateStep, CompleteStep, CommitStep DEF PInv, WorldOK
  <2> QED  BY <1>2, <2>2, <2>3, <2>4 DEF Step
<1>3. ASSUME NEW a \in Agents, Environment(a), UNCHANGED crowded
      PROVE  PInv' /\ HStep
  BY <1>3, EnvironmentStep DEF PInv, WorldOK
<1> QED  BY <1>1, <1>2, <1>3 DEF Next

LEMMA StutterStep ==
  ASSUME PInv, UNCHANGED vars
  PROVE  PInv' /\ HStep
<1>1. UNCHANGED <<owner, roster, operation, exact, owed, handed, job, proc, name, adrift,
                  unrecorded, launches, crowded, troubles>>
  BY DEF vars, database, world
<1>2. DbInv' /\ HStep
  BY <1>1, DatabaseKept, RowsKept DEF PInv, DbInv, DatabaseOK
<1> QED  BY <1>1, <1>2 DEF PInv, JobsOK, WorldOK, NativeOK

THEOREM PInvHolds == Spec => []PInv
<1>1. PInv /\ [Next]_vars => PInv'
  BY NextStep, StutterStep
<1> QED  BY <1>1, InitPInv, PTL DEF Spec

\* Whatever any number of operators do at once, crash and repeat, and for any
\* number of replacements, the tables agree on who owns the task.
THEOREM ReplacementRowsAgree == Spec => []RowsAgree
BY PInvHolds, PInvRowsAgree, PTL

LEMMA InitHandover == Init => H!HandoverInit
<1> SUFFICES ASSUME Init PROVE H!HandoverInit
  OBVIOUS
<1>1. \A o \in Operations : StageOf(o) = "new" /\ From(o) = First
  BY DEF Init, NoRow, StageOf, From, Reached, Before
<1> QED  BY <1>1 DEF Init, H!HandoverInit

\* The replacement protocol refines the handover: one at a time, taken in one
\* step, given back only before the predecessor is proved gone, begun once.
THEOREM ReplacementImplementsHandover == Spec => ImplementsHandover
<1>1. PInv /\ [Next]_vars => [H!HandoverNext]_(H!handoverVars)
  BY NextStep, StutterStep DEF HStep
<1> QED  BY <1>1, PInvHolds, InitHandover, PTL DEF Spec, ImplementsHandover, H!HandoverSpec

-----------------------------------------------------------------------------
(* One agent works on the task.                                            *)
(*                                                                         *)
(* A launch needs a place that one write gives to one operator, and the    *)
(* write leaves the states it can be given from.  The rest holds while     *)
(* operators do not meet: then the row is as its operator knows it, and    *)
(* each place of the program knows who is alive.                           *)

LeftIn(pr) == \E x \in Agents : pr[x] = "left"
AliveIn(pr, x) == pr[x] \in {"running", "leaving"}
OutIn(pr, x) == pr[x] \in {"none", "gone", "left"}
EndedIn(pr, x) == pr[x] \in {"gone", "left"}

\* A successor is launched from one place, which is given once.
LaunchesFollow ==
  /\ \A o \in Operations : launches[o] <= 1 /\ (launches[o] = 0 => proc[o] = "none")
  /\ \A o \in Operations : Reached(o) \in {"none", "prepared"} =>
       launches[o] = 0 /\ \A p \in Operators : ~(job[p].pc = "launch" /\ job[p].o = o)
  /\ \A p \in Operators : job[p].pc = "launch" => launches[job[p].o] = 0
  /\ \A p, q \in Operators :
       job[p].pc = "launch" /\ job[q].pc = "launch" /\ job[p].o = job[q].o => p = q

\* Who holds or held the seat was brought, and an open operation brings somebody
\* who gave it to nobody.
BroughtOnce ==
  /\ proc[owner] # "none"
  /\ \A o \in Operations : operation[o].state # "none" => proc[From(o)] # "none"
  /\ \A p \in Operators : job[p].pc = "activate" => proc[job[p].o] # "none"
  /\ \A o, q \in Operations : operation[o].state \in Open => From(q) # o

-----------------------------------------------------------------------------
(* What a step leaves an operator with.                                    *)

\* p holds j, the others are where they were.
After(p, j) ==
  /\ job'[p] = j
  /\ \A q \in Operators \ {p} : job'[q].pc = job[q].pc /\ job'[q].o = job[q].o

LEMMA PutLeaves ==
  ASSUME JobsOK, NEW p \in Operators, NEW j, Put(p, j)
  PROVE  After(p, IF j.pc = "rest" THEN Rest ELSE j)
BY DEF JobsOK, Put, After

LEMMA GotoLeaves ==
  ASSUME JobsOK, NEW p \in Operators, NEW pc, pc # "rest", Goto(p, pc)
  PROVE  After(p, [job[p] EXCEPT !.pc = pc])
<1>1. [job[p] EXCEPT !.pc = pc].pc = pc
  BY DEF JobsOK, Jobs
<1> QED  BY <1>1, PutLeaves DEF Goto

LEMMA RaiseLeaves ==
  ASSUME JobsOK, NEW p \in Operators, Raise(p)
  PROVE  After(p, Rest)
<1>1. [job[p] EXCEPT !.pc = "rest"].pc = "rest"
  BY DEF JobsOK, Jobs
<1> QED  BY <1>1, PutLeaves DEF Raise, Goto

LEMMA UndoLeaves ==
  ASSUME JobsOK, NEW p \in Operators, NEW j \in Jobs, Undo(p, j)
  PROVE  /\ After(p, [j EXCEPT !.pc = Undoing(j), !.todo = {}])
         /\ Undoing(j) \in {"owe", "unswap", "unlaunch"}
<1>1. Undoing(j) \in {"owe", "unswap", "unlaunch"}
  BY DEF Undoing
<1>2. [j EXCEPT !.pc = Undoing(j), !.todo = {}].pc = Undoing(j)
  BY DEF Jobs
<1> QED  BY <1>1, <1>2, PutLeaves DEF Undo

LEMMA WriteLeaves ==
  ASSUME JobsOK, NEW p \in Operators, NEW j, NEW row, Write(p, j, row)
  PROVE  After(p, IF j.pc = "rest" THEN Rest ELSE [j EXCEPT !.fresh = TRUE, !.state = row.state])
<1>1. \A q \in Operators \ {p} : job'[q] = [job[q] EXCEPT !.fresh = @ /\ job[q].o # j.o]
  BY DEF Write
<1>2. \A q \in Operators \ {p} : job'[q].pc = job[q].pc /\ job'[q].o = job[q].o
  BY <1>1 DEF JobsOK, Jobs
<1>3. job'[p] = IF j.pc = "rest" THEN Rest ELSE [j EXCEPT !.fresh = TRUE, !.state = row.state]
  BY DEF Write
<1> QED  BY <1>2, <1>3 DEF After

LEMMA AdoptLeaves ==
  ASSUME JobsOK, operation \in [Operations -> Rows], NEW p \in Operators,
         NEW j \in Jobs, j.o \in Operations, Adopt(p, j)
  PROVE  LET s == operation[j.o].state
             k == [j EXCEPT !.state = s, !.fresh = TRUE, !.pc = Following(s)]
         IN After(p, IF Following(s) = "rest" THEN Rest ELSE k)
<1> DEFINE s == operation[j.o].state
           k == [j EXCEPT !.state = s, !.fresh = TRUE, !.pc = Following(s)]
<1>1. k.pc = Following(s)
  BY DEF Jobs
<1>2. Put(p, k)
  BY DEF Adopt
<1> HIDE DEF k, s
<1>3. After(p, IF k.pc = "rest" THEN Rest ELSE k)
  BY <1>2, PutLeaves
<1> QED  BY <1>1, <1>3 DEF k, s

\* Nobody comes to where a successor is launched or takes over.
Reserved == {"launch", "activate"}

NoNew ==
  \A q \in Operators : job'[q].pc \in Reserved => job'[q].pc = job[q].pc /\ job'[q].o = job[q].o

LEMMA AfterNoNew ==
  ASSUME NEW p \in Operators, NEW j, After(p, j), j.pc \notin Reserved
  PROVE  NoNew
BY DEF After, NoNew

LEMMA PutNoNew ==
  ASSUME JobsOK, NEW p \in Operators, NEW j, Put(p, j), j.pc \notin Reserved
  PROVE  NoNew
<1>1. Rest.pc \notin Reserved
  BY DEF Rest, Reserved
<1> QED  BY <1>1, PutLeaves, AfterNoNew

LEMMA GotoNoNew ==
  ASSUME JobsOK, NEW p \in Operators, NEW pc, pc \notin Reserved, Goto(p, pc)
  PROVE  NoNew
<1>1. [job[p] EXCEPT !.pc = pc].pc \notin Reserved
  BY DEF JobsOK, Jobs
<1> QED  BY <1>1, PutNoNew DEF Goto

LEMMA WriteNoNew ==
  ASSUME JobsOK, NEW p \in Operators, NEW j \in Jobs, NEW row, Write(p, j, row), j.pc \notin Reserved
  PROVE  NoNew
<1> DEFINE k == IF j.pc = "rest" THEN Rest ELSE [j EXCEPT !.fresh = TRUE, !.state = row.state]
<1>1. k.pc \notin Reserved
  BY DEF Rest, Reserved, Jobs
<1>2. After(p, k)
  BY WriteLeaves
<1> HIDE DEF k
<1> QED  BY <1>1, <1>2, AfterNoNew

\* The call refuses, adopts the row or undoes.
LEMMA TurnNoNew ==
  ASSUME PInv, NEW p \in Operators, NEW j \in Jobs, j.o \in Operations,
         Raise(p) \/ Undo(p, j) \/ Adopt(p, j)
  PROVE  NoNew
<1>1. JobsOK /\ operation \in [Operations -> Rows]
  BY DEF PInv, DbInv, DatabaseOK
<1>2. CASE Raise(p)
  BY <1>1, <1>2, GotoNoNew DEF Raise, Reserved
<1>3. CASE Undo(p, j)
  <2> DEFINE k == [j EXCEPT !.pc = Undoing(j), !.todo = {}]
  <2>1. k.pc = Undoing(j) /\ Undoing(j) \notin Reserved
    BY DEF Undoing, Reserved, Jobs
  <2>2. Put(p, k)
    BY <1>3 DEF Undo
  <2> HIDE DEF k
  <2> QED  BY <1>1, <2>1, <2>2, PutNoNew
<1>4. CASE Adopt(p, j)
  <2> DEFINE s == operation[j.o].state
             k == [j EXCEPT !.state = s, !.fresh = TRUE, !.pc = Following(s)]
  <2>1. Following(s) \notin Reserved
    BY DEF Following, Reserved
  <2>2. k.pc = Following(s)
    BY DEF Jobs
  <2>3. Put(p, k)
    BY <1>4 DEF Adopt
  <2> HIDE DEF k, s
  <2> QED  BY <1>1, <2>1, <2>2, <2>3, PutNoNew
<1> QED  BY <1>2, <1>3, <1>4

\* Nobody is brought, and nobody is as if it never was.
NoneBrought ==
  /\ launches' = launches
  /\ \A x \in Agents : proc'[x] = "none" <=> proc[x] = "none"

LEMMA QuitBringsNone ==
  ASSUME PInv, NEW p \in Operators, NEW a \in Agents, NEW n, NEW done, NEW failed,
         Quit(p, a, n, done, failed)
  PROVE  \A x \in Agents : proc'[x] = "none" <=> proc[x] = "none"
BY DEF Quit, At, PInv, WorldOK, NativeOK

\* The steps that only read, rename or retire.
LEMMA NativeBringsNone ==
  ASSUME PInv, NEW p \in Operators,
         \/ Recover(p) \/ Verify(p) \/ SwapRead(p) \/ SetAside(p) \/ Promote(p)
         \/ UnswapRead(p) \/ Demote(p) \/ Restore(p) \/ Restored(p) \/ Assure(p)
         \/ Retire(p) \/ Unlaunch(p) \/ Die(p)
  PROVE  NoNew /\ NoneBrought /\ UNCHANGED <<owner, operation>>
<1>1. job[p].pc # "rest"
  BY DEF Recover, Verify, SwapRead, SetAside, Promote, Rename, UnswapRead, Demote, Restore, Restored,
     Assure, Retire, Unlaunch, Die
<1>2. Held0(p) /\ JobsOK
  BY <1>1, AtWork DEF PInv
<1>3. job[p] \in Jobs /\ job[p].o \in Operations /\ job[p].o \in Agents /\ From(job[p].o) \in Agents
  BY <1>2 DEF Held0, Agents
<1>4. UNCHANGED <<owner, operation>>
  BY DEF Recover, Verify, SwapRead, SetAside, Promote, Rename, UnswapRead, Demote, Restore, Restored,
     Assure, Retire, Unlaunch, Die, database
<1>5. CASE Retire(p) \/ Unlaunch(p)
  <2>1. launches' = launches
    BY <1>5 DEF Retire, Unlaunch
  <2>2. \A x \in Agents : proc'[x] = "none" <=> proc[x] = "none"
    BY <1>3, <1>5, QuitBringsNone DEF Retire, Unlaunch, At, PInv, WorldOK, NativeOK
  <2>3. CASE Put(p, [job[p] EXCEPT !.pc = "retired", !.retired = TRUE])
    <3>1. [job[p] EXCEPT !.pc = "retired", !.retired = TRUE].pc \notin Reserved
      BY <1>3 DEF Jobs, Reserved
    <3> QED  BY <1>2, <1>4, <2>1, <2>2, <2>3, <3>1, PutNoNew DEF NoneBrought
  <2>4. CASE Raise(p) \/ Undo(p, job[p])
    BY <1>3, <1>4, <2>1, <2>2, <2>4, TurnNoNew DEF NoneBrought
  <2>5. CASE Goto(p, "assure") \/ Goto(p, "owe")
    BY <1>2, <1>4, <2>1, <2>2, <2>5, GotoNoNew DEF NoneBrought, Reserved
  <2> QED  BY <1>5, <2>3, <2>4, <2>5 DEF Retire, Unlaunch, Quit
<1>6. CASE ~(Retire(p) \/ Unlaunch(p))
  <2>1. NoneBrought
    BY <1>6 DEF Recover, Verify, SwapRead, SetAside, Promote, Rename, UnswapRead, Demote, Restore,
       Restored, Assure, Die, world, NoneBrought
  <2>2. \/ Raise(p) \/ Undo(p, job[p])
        \/ \E pc \in Places \ Reserved : Goto(p, pc)
        \/ \E pc \in Places \ Reserved : \E todo : Put(p, [job[p] EXCEPT !.pc = pc, !.todo = todo])
        \/ Put(p, [job[p] EXCEPT !.pc = "verify", !.receipt = "recovered"])
    <3>1. {"verify", "record", "promote", "readback", "unswap", "unlaunch", "owe", "restore", "restored",
           "commit", "aside", "demote"} \subseteq Places \ Reserved
      BY DEF Places, Reserved
    <3>2. Unnamed(p) \in {"owe", "unlaunch"}
      BY DEF Unnamed
    <3>3. CASE Recover(p) \/ Verify(p)
      BY <3>1, <3>3 DEF Recover, Verify
    <3>4. CASE SetAside(p) \/ Promote(p) \/ Demote(p) \/ Restore(p)
      BY <3>1, <3>2, <3>4 DEF SetAside, Promote, Demote, Restore, Rename
    <3>5. CASE SwapRead(p)
      BY <3>1, <3>5, Zenon DEF SwapRead
    <3>6. CASE UnswapRead(p)
      BY <3>1, <3>2, <3>6, Zenon DEF UnswapRead
    <3>7. CASE Restored(p)
      BY <3>1, <3>2, <3>7, Zenon DEF Restored
    <3>8. CASE Assure(p) \/ Die(p)
      BY <3>1, <3>8 DEF Assure, Die
    <3> QED  BY <1>6, <3>3, <3>4, <3>5, <3>6, <3>7, <3>8
  <2>3. ASSUME NEW pc \in Places \ Reserved, NEW todo,
               \/ Put(p, [job[p] EXCEPT !.pc = pc, !.todo = todo])
               \/ Put(p, [job[p] EXCEPT !.pc = "verify", !.receipt = "recovered"])
        PROVE  NoNew
    <3>1. /\ [job[p] EXCEPT !.pc = pc, !.todo = todo].pc = pc
          /\ [job[p] EXCEPT !.pc = "verify", !.receipt = "recovered"].pc = "verify"
      BY <1>3 DEF Jobs
    <3> QED  BY <1>2, <2>3, <3>1, PutNoNew DEF Reserved
  <2>4. "verify" \in Places \ Reserved
    BY DEF Places, Reserved
  <2> QED  BY <1>2, <1>3, <1>4, <2>1, <2>2, <2>3, <2>4, TurnNoNew, GotoNoNew
<1> QED  BY <1>5, <1>6

-----------------------------------------------------------------------------
(* A successor is launched once, and brought before it takes over.         *)

RowsMove ==
  \A x \in Operations :
    /\ operation'[x].from = operation[x].from
    /\ operation[x].state = "none" => operation'[x].state = "none"
    /\ operation'[x].state \in Open => operation[x].state \in Open
    /\ Reached(x)' \in {"none", "prepared"} => Reached(x) \in {"none", "prepared"}

LEMMA RowsStay ==
  ASSUME UNCHANGED operation
  PROVE  RowsMove
BY DEF RowsMove, Reached

LEMMA RowMoves ==
  ASSUME PInv, NEW o \in Operations, NEW row,
         operation' = [operation EXCEPT ![o] = row],
         operation[o].state \in Open, row.from = From(o), row.state # "none", Point(row) # "none",
         Point(row) = "prepared" => Reached(o) = "prepared"
  PROVE  RowsMove
<1>1. operation'[o] = row /\ \A x \in Operations \ {o} : operation'[x] = operation[x]
  BY DEF PInv, DbInv, DatabaseOK
<1>2. operation[o].state # "none"
  BY DEF Open, Before, Switched
<1> QED  BY <1>1, <1>2 DEF RowsMove, Reached, Point, From

LEMMA LaunchesKept ==
  ASSUME PInv, LaunchesFollow, NoneBrought, RowsMove,
         \A q \in Operators : job'[q].pc = "launch" => job'[q].pc = job[q].pc /\ job'[q].o = job[q].o
  PROVE  LaunchesFollow'
BY DEF LaunchesFollow, NoneBrought, RowsMove, Agents

LEMMA BroughtKept ==
  ASSUME PInv, BroughtOnce, RowsMove, PInv',
         \A x \in Agents : proc'[x] = "none" => proc[x] = "none",
         proc[owner'] # "none",
         \A q \in Operators : job'[q].pc = "activate" => proc'[job'[q].o] # "none"
  PROVE  BroughtOnce'
<1>1. owner' \in Agents /\ \A x \in Operations : From(x) \in Agents /\ From(x)' = From(x)
  BY DEF PInv, DbInv, DatabaseOK, Rows, From, RowsMove
<1>2. proc'[owner'] # "none"
  BY <1>1
<1>3. \A x \in Operations : operation'[x].state # "none" => proc'[From(x)'] # "none"
  BY <1>1 DEF BroughtOnce, RowsMove
<1>4. \A x, y \in Operations : operation'[x].state \in Open => From(y)' # x
  BY <1>1 DEF BroughtOnce, RowsMove
<1> QED  BY <1>2, <1>3, <1>4 DEF BroughtOnce

\* Nobody is brought, nobody comes to a reserved place, and the seat stays or
\* goes to somebody who was brought.
LEMMA FollowKept ==
  ASSUME PInv, LaunchesFollow, BroughtOnce, NoNew, NoneBrought, RowsMove, PInv',
         proc[owner'] # "none"
  PROVE  LaunchesFollow' /\ BroughtOnce'
<1>1. LaunchesFollow'
  BY LaunchesKept DEF NoNew, Reserved
<1>2. \A q \in Operators : job'[q].pc = "activate" => proc'[job'[q].o] # "none"
  <2> SUFFICES ASSUME NEW q \in Operators, job'[q].pc = "activate"
               PROVE  proc'[job'[q].o] # "none"
    OBVIOUS
  <2>1. job[q].pc = "activate" /\ job'[q].o = job[q].o
    BY DEF NoNew, Reserved
  <2>2. job[q].o \in Agents /\ proc[job[q].o] # "none"
    BY <2>1 DEF PInv, JobsOK, JobOK, Agents, BroughtOnce
  <2> QED  BY <2>1, <2>2 DEF NoneBrought
<1> QED  BY <1>1, <1>2, BroughtKept DEF NoneBrought

LEMMA LaunchFollows ==
  ASSUME PInv, LaunchesFollow, BroughtOnce, PInv', NEW p \in Operators, Launch(p) \/ LaunchFails(p)
  PROVE  LaunchesFollow' /\ BroughtOnce'
<1> DEFINE o == job[p].o
<1>1. job[p].pc = "launch" /\ UNCHANGED <<owner, operation>>
  BY DEF Launch, LaunchFails, database
<1>2. Held0(p) /\ JobsOK /\ NativeOK /\ o \in Operations /\ o \in Agents /\ job[p] \in Jobs
  BY <1>1, AtWork DEF PInv, WorldOK, Held0, Agents
<1>3. \/ /\ proc' = [proc EXCEPT ![o] = "running"]
         /\ launches' = [launches EXCEPT ![o] = @ + 1]
      \/ UNCHANGED <<proc, launches>>
  BY DEF Launch, LaunchFails
<1>4. NoNew /\ job'[p].pc # "launch"
  <2>1. CASE Launch(p)
    <3>1. [job[p] EXCEPT !.pc = "verify", !.receipt = "launched", !.driver = "made"].pc = "verify"
      BY <1>2 DEF Jobs
    <3>2. Put(p, [job[p] EXCEPT !.pc = "verify", !.receipt = "launched", !.driver = "made"])
      BY <2>1 DEF Launch
    <3>3. NoNew
      BY <1>2, <3>1, <3>2, PutNoNew DEF Reserved
    <3>4. job'[p].pc = "verify"
      BY <1>2, <3>1, <3>2, PutLeaves DEF After
    <3> QED  BY <3>3, <3>4
  <2>2. CASE LaunchFails(p)
    <3>1. PICK driver \in {"none", "clean", "made"} : Undo(p, [job[p] EXCEPT !.driver = driver])
      BY <2>2 DEF LaunchFails
    <3> DEFINE j == [job[p] EXCEPT !.driver = driver]
               k == [j EXCEPT !.pc = Undoing(j), !.todo = {}]
    <3>2. j \in Jobs /\ j.o \in Operations
      BY <1>2 DEF Jobs
    <3>3. k.pc = Undoing(j)
      BY <3>2 DEF Jobs
    <3> HIDE DEF j
    <3>4. NoNew
      BY <3>1, <3>2, TurnNoNew DEF j
    <3>5. job'[p] = k /\ Undoing(j) # "launch"
      BY <1>2, <3>1, <3>2, UndoLeaves DEF After, j
    <3> QED  BY <3>3, <3>4, <3>5
  <2> QED  BY <2>1, <2>2
<1>5. launches[o] = 0 /\ proc[o] = "none" /\ Reached(o) \notin {"none", "prepared"}
  BY <1>1, <1>2 DEF LaunchesFollow
<1>6. \A q \in Operators \ {p} : job[q].pc = "launch" => job[q].o # o
  BY <1>1 DEF LaunchesFollow
<1>7. \A q \in Operators : job'[q].pc = "launch" =>
        job[q].pc = "launch" /\ job'[q].o = job[q].o /\ job[q].o # o /\ job[q].o \in Operations
  BY <1>2, <1>4, <1>6 DEF NoNew, Reserved, JobsOK, JobOK
<1>8. \A x \in Operations : /\ x # o => launches'[x] = launches[x] /\ proc'[x] = proc[x]
                            /\ launches'[x] <= 1 /\ (launches'[x] = 0 => proc'[x] = "none")
                            /\ Reached(x)' = Reached(x)
  <2>1. \A x \in Operations : launches[x] <= 1 /\ (launches[x] = 0 => proc[x] = "none")
    BY DEF LaunchesFollow
  <2>2. \A x \in Operations : x \in Agents /\ Reached(x)' = Reached(x)
    BY <1>1 DEF Reached, Agents
  <2>3. launches \in [Operations -> Nat] /\ proc \in [Agents -> {"none", "running", "leaving", "left", "gone"}]
    BY <1>2 DEF NativeOK
  <2>4. CASE UNCHANGED <<proc, launches>>
    BY <2>1, <2>2, <2>4
  <2>5. CASE /\ proc' = [proc EXCEPT ![o] = "running"]
             /\ launches' = [launches EXCEPT ![o] = @ + 1]
    <3>1. launches'[o] = 1
      BY <1>2, <1>5, <2>3, <2>5
    <3>2. \A x \in Operations : x # o => launches'[x] = launches[x] /\ proc'[x] = proc[x]
      BY <2>2, <2>3, <2>5
    <3> QED  BY <2>1, <2>2, <3>1, <3>2
  <2> QED  BY <1>3, <2>4, <2>5
<1>9. LaunchesFollow'
  <2>1. \A x \in Operations : Reached(x)' \in {"none", "prepared"} =>
          launches'[x] = 0 /\ \A q \in Operators : ~(job'[q].pc = "launch" /\ job'[q].o = x)
    BY <1>5, <1>7, <1>8 DEF LaunchesFollow
  <2>2. \A q \in Operators : job'[q].pc = "launch" => launches'[job'[q].o] = 0
    BY <1>7, <1>8 DEF LaunchesFollow
  <2>3. \A q, r \in Operators :
          job'[q].pc = "launch" /\ job'[r].pc = "launch" /\ job'[q].o = job'[r].o => q = r
    BY <1>7 DEF LaunchesFollow
  <2> QED  BY <1>8, <2>1, <2>2, <2>3 DEF LaunchesFollow
<1>10. \A x \in Agents : proc'[x] = "none" => proc[x] = "none"
  BY <1>2, <1>3 DEF NativeOK
<1>11. \A q \in Operators : job'[q].pc = "activate" => proc'[job'[q].o] # "none"
  BY <1>2, <1>4, <1>10 DEF NoNew, Reserved, BroughtOnce, JobsOK, JobOK, Agents
<1>12. BroughtOnce'
  BY <1>1, <1>10, <1>11, RowsStay, BroughtKept DEF BroughtOnce
<1> QED  BY <1>9, <1>12

\* The steps that write the row of an operation, the announcement of a launch
\* excepted.
LEMMA WritesFollow ==
  ASSUME PInv, LaunchesFollow, BroughtOnce, PInv', NEW p \in Operators,
         \/ Resume(p) \/ RecordVerified(p) \/ Activate(p) \/ RecordRetired(p)
         \/ Complete(p) \/ Commit(p) \/ Owe(p)
         \/ BeginEffect(p) /\ job[p].state # "prepared"
  PROVE  LaunchesFollow' /\ BroughtOnce'
<1> DEFINE o == job[p].o
<1>1. job[p].pc # "rest"
  BY DEF Resume, RecordVerified, Activate, RecordRetired, Complete, Commit, Owe, BeginEffect
<1>2. Held0(p) /\ job[p] \in Jobs /\ o \in Operations /\ operation[o] \in Rows /\ JobsOK /\ DbInv
  BY <1>1, AtWork DEF Held0, PInv
<1>3. NoneBrought
  BY DEF Resume, RecordVerified, Activate, RecordRetired, Complete, Commit, Owe, BeginEffect, world,
     NoneBrought
<1>4. proc[owner'] # "none"
  <2>1. CASE owner' = owner
    BY <2>1 DEF BroughtOnce
  <2>2. CASE owner' # owner
    <3>1. CASE Activate(p)
      BY <2>2, <3>1 DEF Activate, BroughtOnce
    <3>2. CASE Commit(p)
      <4>1. owner' = From(o) /\ (operation[o].state \in Before \/ Restorable(o))
        BY <2>2, <3>2 DEF Commit
      <4>2. operation[o].state # "none"
        BY <4>1 DEF Before, Restorable
      <4> QED  BY <1>2, <4>1, <4>2 DEF BroughtOnce
    <3> QED  BY <2>2, <3>1, <3>2 DEF Resume, RecordVerified, RecordRetired, Complete, Owe, BeginEffect
  <2> QED  BY <2>1, <2>2
<1>5. \/ UNCHANGED operation /\ (Raise(p) \/ Undo(p, job[p]) \/ Adopt(p, job[p]))
      \/ \E pc \in Places \ Reserved : \E row :
           /\ Write(p, [job[p] EXCEPT !.pc = pc], row)
           /\ operation[o].state \in Open /\ row.from = From(o) /\ row.state # "none"
           /\ Point(row) # "none"
           /\ Point(row) = "prepared" => Reached(o) = "prepared"
  <2>1. CASE Resume(p)
    <3> DEFINE row == [operation[o] EXCEPT !.state = operation[o].back, !.back = "none"]
               pc == Following(operation[o].back)
    <3>1. CASE operation[o].state = "recovery_required"
      <4>1. operation[o].back \in Before \cup Switched
        BY <1>2, <3>1 DEF DbInv, BackFits, Rows
      <4>2. row.from = From(o) /\ row.state = operation[o].back /\ row.back = "none"
        BY <1>2 DEF Rows, From
      <4>3. pc \in Places \ Reserved
        BY <4>1, FollowingFits DEF Following, Reserved, Open
      <4>4. operation[o].state \in Open /\ row.state \notin {"none", "recovery_required"}
            /\ Reached(o) = row.state /\ Point(row) = row.state
        BY <3>1, <4>1, <4>2 DEF Open, Before, Switched, Reached, Point
      <4>5. Write(p, [job[p] EXCEPT !.pc = pc], row) \/ (Raise(p) /\ UNCHANGED operation)
        BY <2>1 DEF Resume
      <4> HIDE DEF row, pc
      <4> QED  BY <4>2, <4>3, <4>4, <4>5
    <3> QED  BY <2>1, <3>1 DEF Resume
  <2>2. CASE RecordVerified(p)
    <3> DEFINE row == [operation[o] EXCEPT !.state = "successor_verified", !.receipt = job[p].receipt]
    <3>1. row.from = From(o) /\ row.state = "successor_verified" /\ "begin" \in Places \ Reserved
      BY <1>2 DEF Rows, From, Places, Reserved
    <3>2. Point(row) = "successor_verified"
      BY <3>1 DEF Point
    <3>3. \/ UNCHANGED operation /\ (Undo(p, job[p]) \/ Adopt(p, job[p]))
          \/ operation[o].state = "launching" /\ Write(p, [job[p] EXCEPT !.pc = "begin"], row)
      BY <2>2 DEF RecordVerified
    <3> HIDE DEF row
    <3> QED  BY <3>1, <3>2, <3>3 DEF Open, Before
  <2>3. CASE Activate(p)
    <3> DEFINE row == [operation[o] EXCEPT !.state = "activated", !.routed = TRUE]
    <3>1. row.from = From(o) /\ row.state = "activated" /\ "begin" \in Places \ Reserved
      BY <1>2 DEF Rows, From, Places, Reserved
    <3>2. Point(row) = "activated"
      BY <3>1 DEF Point
    <3>3. \/ UNCHANGED operation /\ (Undo(p, job[p]) \/ Adopt(p, job[p]))
          \/ operation[o].state = "route_swapping" /\ Write(p, [job[p] EXCEPT !.pc = "begin"], row)
      BY <2>3 DEF Activate
    <3> HIDE DEF row
    <3> QED  BY <3>1, <3>2, <3>3 DEF Open, Before
  <2>4. CASE RecordRetired(p)
    <3> DEFINE row == [operation[o] EXCEPT !.state = "predecessor_retired", !.retired = TRUE]
    <3>1. row.from = From(o) /\ row.state = "predecessor_retired" /\ "complete" \in Places \ Reserved
      BY <1>2 DEF Rows, From, Places, Reserved
    <3>2. Point(row) = "predecessor_retired"
      BY <3>1 DEF Point
    <3>3. \/ UNCHANGED operation /\ (Undo(p, job[p]) \/ Adopt(p, job[p]))
          \/ operation[o].state = "retiring" /\ Write(p, [job[p] EXCEPT !.pc = "complete"], row)
      BY <2>4 DEF RecordRetired
    <3> HIDE DEF row
    <3> QED  BY <3>1, <3>2, <3>3 DEF Open, Switched
  <2>5. CASE Complete(p)
    <3> DEFINE row == [operation[o] EXCEPT !.state = "completed"]
    <3>1. row.from = From(o) /\ row.state = "completed" /\ "rest" \in Places \ Reserved
      BY <1>2 DEF Rows, From, Places, Reserved
    <3>2. Point(row) = "completed"
      BY <3>1 DEF Point
    <3>3. \/ UNCHANGED operation /\ Raise(p)
          \/ operation[o].state = "predecessor_retired" /\ Write(p, [job[p] EXCEPT !.pc = "rest"], row)
      BY <2>5 DEF Complete
    <3> HIDE DEF row
    <3> QED  BY <3>1, <3>2, <3>3 DEF Open, Switched
  <2>6. CASE Commit(p)
    <3> DEFINE row == [operation[o] EXCEPT !.state = "rolled_back"]
    <3>1. row.from = From(o) /\ row.state = "rolled_back" /\ "rest" \in Places \ Reserved
      BY <1>2 DEF Rows, From, Places, Reserved
    <3>2. Point(row) = "rolled_back"
      BY <3>1 DEF Point
    <3>3. \/ UNCHANGED operation /\ Raise(p)
          \/ /\ operation[o].state \in Before \/ Restorable(o)
             /\ Write(p, [job[p] EXCEPT !.pc = "rest"], row)
      BY <2>6 DEF Commit
    <3> HIDE DEF row
    <3> QED  BY <3>1, <3>2, <3>3 DEF Open, Before, Switched, Restorable
  <2>7. CASE Owe(p)
    <3> DEFINE row == [operation[o] EXCEPT !.back = operation[o].state, !.state = "recovery_required"]
    <3>1. row.from = From(o) /\ row.state = "recovery_required" /\ row.back = operation[o].state
          /\ "rest" \in Places \ Reserved
      BY <1>2 DEF Rows, From, Places, Reserved
    <3>2. Point(row) = operation[o].state
      BY <3>1 DEF Point
    <3>3. \/ UNCHANGED operation /\ Raise(p)
          \/ /\ operation[o].state \in Open \ {"recovery_required"}
             /\ Write(p, [job[p] EXCEPT !.pc = "rest"], row)
      BY <2>7 DEF Owe
    <3> HIDE DEF row
    <3> QED  BY <3>1, <3>2, <3>3 DEF Open, Before, Switched, Reached
  <2>8. CASE BeginEffect(p) /\ job[p].state # "prepared"
    <3> DEFINE to == Intended[job[p].state]
               row == [operation[o] EXCEPT !.state = to]
               pc == IF to = "launching" THEN "launch" ELSE Following(to)
    <3>1. job[p].state \in {"successor_verified", "activated"}
      BY <1>2, <2>8 DEF BeginEffect, JobsOK, JobOK
    <3>2. to \in {"route_swapping", "retiring"}
      BY <3>1, IntendedIs
    <3> HIDE DEF to
    <3>3. pc \in Places \ Reserved
      BY <3>2 DEF Following, Places, Reserved
    <3>4. row.from = From(o) /\ row.state = to /\ Point(row) = to
      BY <1>2, <3>2 DEF Rows, From, Point
    <3>5. \/ UNCHANGED operation /\ (Raise(p) \/ Adopt(p, job[p]))
          \/ operation[o].state = job[p].state /\ Write(p, [job[p] EXCEPT !.pc = pc], row)
      BY <2>8 DEF BeginEffect, to
    <3> HIDE DEF row, pc
    <3> QED  BY <3>1, <3>2, <3>3, <3>4, <3>5 DEF Open, Before, Switched
  <2> QED  BY <2>1, <2>2, <2>3, <2>4, <2>5, <2>6, <2>7, <2>8
<1>6. CASE UNCHANGED operation /\ (Raise(p) \/ Undo(p, job[p]) \/ Adopt(p, job[p]))
  BY <1>2, <1>3, <1>4, <1>6, TurnNoNew, RowsStay, FollowKept
<1>7. ASSUME NEW pc \in Places \ Reserved, NEW row,
             Write(p, [job[p] EXCEPT !.pc = pc], row),
             operation[o].state \in Open, row.from = From(o), row.state # "none",
             Point(row) # "none", Point(row) = "prepared" => Reached(o) = "prepared"
      PROVE  LaunchesFollow' /\ BroughtOnce'
  <2> DEFINE j == [job[p] EXCEPT !.pc = pc]
  <2>1. j \in Jobs /\ j.pc = pc /\ j.o = o
    BY <1>2, <1>7 DEF Jobs
  <2> HIDE DEF j
  <2>2. NoNew
    BY <1>2, <1>7, <2>1, WriteNoNew DEF j
  <2>3. operation' = [operation EXCEPT ![o] = row]
    BY <1>7, <2>1 DEF Write, j
  <2>4. RowsMove
    BY <1>2, <1>7, <2>3, RowMoves
  <2> QED  BY <1>3, <1>4, <2>2, <2>4, FollowKept
<1> QED  BY <1>5, <1>6, <1>7

\* One write announces the launch, and gives its place to the one that wrote.
LEMMA AnnouncedFollows ==
  ASSUME PInv, LaunchesFollow, BroughtOnce, PInv', NEW p \in Operators,
         BeginEffect(p), job[p].state = "prepared"
  PROVE  LaunchesFollow' /\ BroughtOnce'
<1> DEFINE o == job[p].o
           row == [operation[o] EXCEPT !.state = "launching"]
           j == [job[p] EXCEPT !.pc = "launch"]
<1>1. Held0(p) /\ job[p] \in Jobs /\ o \in Operations /\ operation[o] \in Rows /\ JobsOK /\ DbInv
  BY AtWork DEF Held0, PInv, BeginEffect
<1>2. NoneBrought /\ UNCHANGED <<owner, proc, launches>>
  BY DEF BeginEffect, world, NoneBrought
<1>3. Intended[job[p].state] = "launching"
  BY IntendedIs
<1>4. \/ UNCHANGED operation /\ (Raise(p) \/ Adopt(p, job[p]))
      \/ operation[o].state = "prepared" /\ Write(p, j, row)
  BY <1>3 DEF BeginEffect
<1>5. CASE UNCHANGED operation /\ (Raise(p) \/ Adopt(p, job[p]))
  BY <1>1, <1>2, <1>5, TurnNoNew, RowsStay, FollowKept DEF BroughtOnce
<1>6. CASE operation[o].state = "prepared" /\ Write(p, j, row)
  <2>1. j \in Jobs /\ j.pc = "launch" /\ j.o = o
    BY <1>1 DEF Jobs, Places
  <2>2. row.from = From(o) /\ row.state = "launching" /\ Point(row) = "launching"
    BY <1>1 DEF Rows, From, Point
  <2>3. [j EXCEPT !.fresh = TRUE, !.state = row.state].pc = "launch"
        /\ [j EXCEPT !.fresh = TRUE, !.state = row.state].o = o
    BY <2>1 DEF Jobs
  <2> HIDE DEF j, row
  <2>4. operation' = [operation EXCEPT ![o] = row]
    BY <1>6, <2>1 DEF Write
  <2>5. job'[p].pc = "launch" /\ job'[p].o = o
        /\ \A q \in Operators \ {p} : job'[q].pc = job[q].pc /\ job'[q].o = job[q].o
    BY <1>1, <1>6, <2>1, <2>3, WriteLeaves DEF After
  <2>6. RowsMove
    BY <1>1, <1>6, <2>2, <2>4, RowMoves DEF Open, Before
  <2>7. \A x \in Operations : x = o => Reached(x) = "prepared" /\ Reached(x)' = "launching"
    BY <1>1, <1>6, <2>2, <2>4 DEF Reached, DbInv, DatabaseOK
  <2>8. launches[o] = 0 /\ \A q \in Operators : ~(job[q].pc = "launch" /\ job[q].o = o)
    BY <1>1, <2>7 DEF LaunchesFollow
  <2>9. LaunchesFollow'
    <3>1. \A x \in Operations : launches'[x] <= 1 /\ (launches'[x] = 0 => proc'[x] = "none")
      BY <1>2 DEF LaunchesFollow
    <3>2. \A x \in Operations : Reached(x)' \in {"none", "prepared"} =>
            launches'[x] = 0 /\ \A q \in Operators : ~(job'[q].pc = "launch" /\ job'[q].o = x)
      BY <1>2, <2>5, <2>6, <2>7 DEF LaunchesFollow, RowsMove
    <3>3. \A q \in Operators : job'[q].pc = "launch" => launches'[job'[q].o] = 0
      BY <1>2, <2>5, <2>8 DEF LaunchesFollow
    <3>4. \A q, r \in Operators :
            job'[q].pc = "launch" /\ job'[r].pc = "launch" /\ job'[q].o = job'[r].o => q = r
      BY <2>5, <2>8 DEF LaunchesFollow
    <3> QED  BY <3>1, <3>2, <3>3, <3>4 DEF LaunchesFollow
  <2>10. \A q \in Operators : job'[q].pc = "activate" => proc'[job'[q].o] # "none"
    BY <1>2, <2>5 DEF BroughtOnce
  <2> QED  BY <1>2, <2>6, <2>9, <2>10, BroughtKept DEF BroughtOnce
<1> QED  BY <1>4, <1>5, <1>6

\* A new operation brings somebody nobody met.
LEMMA PrepareFollows ==
  ASSUME PInv, LaunchesFollow, BroughtOnce, PInv', NEW p \in Operators, NEW o \in Operations,
         Prepare(p, o)
  PROVE  LaunchesFollow' /\ BroughtOnce'
<1> DEFINE row == [NoRow EXCEPT !.state = "prepared", !.from = owner]
           j == [Rest EXCEPT !.o = o, !.pc = "begin"]
<1>1. JobsOK /\ DbInv /\ operation[o].state = "none" /\ ~Held /\ owner \in Agents
      /\ UNCHANGED <<owner, proc, launches>> /\ operation \in [Operations -> Rows]
  BY DEF Prepare, Unused, PInv, DbInv, DatabaseOK
<1>2. j \in Jobs /\ j.pc = "begin" /\ j.o = o
  BY DEF Rest, Jobs, Places, Receipts
<1>3. row.from = owner /\ row.state = "prepared"
  BY DEF NoRow
<1>4. Write(p, j, row)
  BY DEF Prepare
<1> HIDE DEF j, row
<1>5. operation'[o] = row /\ \A x \in Operations \ {o} : operation'[x] = operation[x]
  BY <1>1, <1>2, <1>4 DEF Write
<1>6. NoNew
  BY <1>1, <1>2, <1>4, WriteNoNew DEF Reserved
<1>7. Reached(o) = "none" /\ \A x \in Operations \ {o} : Reached(x)' = Reached(x)
  BY <1>1, <1>5 DEF Reached
<1>8. LaunchesFollow'
  <2>1. \A q \in Operators : job'[q].pc = "launch" => job[q].pc = "launch" /\ job'[q].o = job[q].o
    BY <1>6 DEF NoNew, Reserved
  <2>2. \A x \in Operations : Reached(x)' \in {"none", "prepared"} => Reached(x) \in {"none", "prepared"}
    BY <1>7
  <2> QED  BY <1>1, <2>1, <2>2 DEF LaunchesFollow
<1>9. BroughtOnce'
  <2>1. proc'[owner'] # "none"
    BY <1>1 DEF BroughtOnce
  <2>2. \A x \in Operations : operation'[x].state # "none" => proc'[operation'[x].from] # "none"
    BY <1>1, <1>3, <1>5, <2>1 DEF BroughtOnce, From
  <2>3. \A q \in Operators : job'[q].pc = "activate" => proc'[job'[q].o] # "none"
    BY <1>1, <1>6 DEF NoNew, Reserved, BroughtOnce
  <2>4. \A x, y \in Operations : operation'[x].state \in Open => operation'[y].from # x
    <3>1. \A y \in Operations : operation[y].from # o /\ owner # o
      BY <1>1 DEF DbInv, Unmet, From
    <3>2. \A x \in Operations \ {o} : operation[x].state \notin Open
      BY <1>1 DEF Held
    <3> QED  BY <1>3, <1>5, <3>1, <3>2
  <2> QED  BY <2>1, <2>2, <2>3, <2>4 DEF BroughtOnce, From
<1> QED  BY <1>8, <1>9

LEMMA RetryFollows ==
  ASSUME PInv, LaunchesFollow, BroughtOnce, PInv', NEW p \in Operators, NEW o \in Operations,
         Retry(p, o)
  PROVE  LaunchesFollow' /\ BroughtOnce'
<1> DEFINE j == [Rest EXCEPT !.o = o, !.receipt = operation[o].receipt,
                             !.routed = operation[o].routed, !.retired = operation[o].retired]
<1>1. operation \in [Operations -> Rows]
  BY DEF PInv, DbInv, DatabaseOK
<1>2. j \in Jobs /\ j.o \in Operations
  BY <1>1 DEF Rest, Jobs, Rows, Places
<1>3. Adopt(p, j) /\ NoneBrought /\ UNCHANGED <<owner, operation>>
  BY DEF Retry, database, world, NoneBrought
<1> HIDE DEF j
<1>4. NoNew
  BY <1>2, <1>3, TurnNoNew
<1> QED  BY <1>3, <1>4, RowsStay, FollowKept DEF BroughtOnce

\* The route is proved before the switch, and with it the successor.
LEMMA ReadBackFollows ==
  ASSUME PInv, LaunchesFollow, BroughtOnce, PInv', NEW p \in Operators, ReadBack(p)
  PROVE  LaunchesFollow' /\ BroughtOnce'
<1> DEFINE o == job[p].o
           j == [job[p] EXCEPT !.pc = "activate", !.routed = TRUE, !.todo = {}]
<1>1. Held0(p) /\ job[p] \in Jobs /\ o \in Operations /\ JobsOK
  BY AtWork DEF Held0, PInv, ReadBack
<1>2. UNCHANGED <<owner, operation, proc, launches>> /\ NoneBrought
  BY DEF ReadBack, database, world, NoneBrought
<1>3. \/ proc[o] # "none" /\ Put(p, j)
      \/ Goto(p, "unswap")
  BY DEF ReadBack, Verified, At
<1>4. CASE Goto(p, "unswap")
  <2>1. NoNew
    BY <1>1, <1>4, GotoNoNew DEF Reserved
  <2> QED  BY <1>2, <2>1, RowsStay, FollowKept DEF BroughtOnce
<1>5. CASE proc[o] # "none" /\ Put(p, j)
  <2>1. j.pc = "activate" /\ j.o = o
    BY <1>1 DEF Jobs
  <2> HIDE DEF j
  <2>2. job'[p] = j /\ \A q \in Operators \ {p} : job'[q].pc = job[q].pc /\ job'[q].o = job[q].o
    BY <1>1, <1>5, <2>1, PutLeaves DEF After
  <2>3. LaunchesFollow'
    BY <1>2, <2>1, <2>2, RowsStay, LaunchesKept
  <2>4. \A q \in Operators : job'[q].pc = "activate" => proc'[job'[q].o] # "none"
    BY <1>2, <1>5, <2>1, <2>2 DEF BroughtOnce
  <2> QED  BY <1>2, <2>3, <2>4, RowsStay, BroughtKept DEF BroughtOnce
<1> QED  BY <1>3, <1>4, <1>5

LEMMA StillFollows ==
  ASSUME PInv, LaunchesFollow, BroughtOnce, PInv',
         UNCHANGED vars \/ \E a \in Agents : Environment(a)
  PROVE  LaunchesFollow' /\ BroughtOnce'
<1>1. UNCHANGED <<owner, operation, job, launches>>
  BY DEF vars, database, world, Environment, Leave, Move, Reconcile
<1>2. \A x \in Agents : proc'[x] = "none" <=> proc[x] = "none"
  BY DEF vars, world, Environment, Leave, Move, Reconcile, PInv, WorldOK, NativeOK
<1>3. NoNew /\ NoneBrought
  BY <1>1, <1>2 DEF NoNew, NoneBrought
<1> QED  BY <1>1, <1>3, RowsStay, FollowKept DEF BroughtOnce

LEMMA StepFollows ==
  ASSUME PInv, LaunchesFollow, BroughtOnce, [Next]_vars, PInv'
  PROVE  LaunchesFollow' /\ BroughtOnce'
<1>1. ASSUME NEW p \in Operators, Step(p) \/ Die(p)
      PROVE  LaunchesFollow' /\ BroughtOnce'
  <2>1. CASE \/ Recover(p) \/ Verify(p) \/ SwapRead(p) \/ SetAside(p) \/ Promote(p)
             \/ UnswapRead(p) \/ Demote(p) \/ Restore(p) \/ Restored(p) \/ Assure(p)
             \/ Retire(p) \/ Unlaunch(p) \/ Die(p)
    BY <2>1, NativeBringsNone, RowsStay, FollowKept DEF BroughtOnce
  <2>2. CASE Launch(p) \/ LaunchFails(p)
    BY <2>2, LaunchFollows
  <2>3. CASE ReadBack(p)
    BY <2>3, ReadBackFollows
  <2>4. CASE \/ Resume(p) \/ RecordVerified(p) \/ Activate(p) \/ RecordRetired(p)
             \/ Complete(p) \/ Commit(p) \/ Owe(p) \/ BeginEffect(p)
    BY <2>4, WritesFollow, AnnouncedFollows
  <2> QED  BY <1>1, <2>1, <2>2, <2>3, <2>4 DEF Step
<1>2. ASSUME NEW p \in Operators, NEW o \in Operations, Prepare(p, o) \/ Retry(p, o)
      PROVE  LaunchesFollow' /\ BroughtOnce'
  BY <1>2, PrepareFollows, RetryFollows
<1> QED  BY <1>1, <1>2, StillFollows DEF Next

LEMMA InitFollows == Init => LaunchesFollow /\ BroughtOnce
<1> SUFFICES ASSUME Init PROVE LaunchesFollow /\ BroughtOnce
  OBVIOUS
<1> USE ReplacementAssumption
<1>1. /\ \A o \in Operations : operation[o] = NoRow /\ launches[o] = 0 /\ proc[o] = "none" /\ o # First
      /\ \A p \in Operators : job[p] = Rest
      /\ owner = First /\ proc[First] = "running"
  BY DEF Init, Agents
<1>2. Rest.pc = "rest" /\ NoRow.state = "none" /\ NoRow.from = First
  BY DEF Rest, NoRow
<1>3. LaunchesFollow
  BY <1>1, <1>2 DEF LaunchesFollow
<1>4. BroughtOnce
  BY <1>1, <1>2 DEF BroughtOnce, From, Open, Before, Switched
<1> QED  BY <1>3, <1>4

FollowInv == PInv /\ LaunchesFollow /\ BroughtOnce

-----------------------------------------------------------------------------
(* While operators do not meet.                                            *)

Undoings == {"unswap", "demote", "restore", "restored", "unlaunch", "assure", "commit", "owe"}

\* The phases in which a failure is undone.
Undone == {"launching", "route_swapping", "retiring"}

\* The state of the row at each place of its only operator.
StatesAt == [pc \in Places |->
  CASE pc = "begin" -> {"prepared", "successor_verified", "activated"}
    [] pc \in {"launch", "recover", "verify", "record"} -> {"launching"}
    [] pc \in {"swap", "aside", "promote", "readback", "activate"} -> {"route_swapping"}
    [] pc \in {"retire", "retired"} -> {"retiring"}
    [] pc = "complete" -> {"predecessor_retired"}
    [] pc = "resume" -> {"recovery_required"}
    [] pc \in Undoings -> Undone
    [] OTHER -> {}]

\* What the operator at work knows: the row, and who is alive.
JobFits(j, row, pr, nm) ==
  LET o == j.o
      a == row.from IN
  j.pc # "rest" =>
    /\ j.fresh /\ j.state = row.state /\ row.state \in StatesAt[j.pc]
    /\ Point(row) \in Switched => j.routed
    /\ j.pc = "activate" => j.routed /\ (LeftIn(pr) \/ AliveIn(pr, o))
    /\ j.pc \in {"unlaunch", "assure", "commit"} /\ row.state = "retiring" =>
         LeftIn(pr) \/ (AliveIn(pr, a) /\ nm[a] # "aside")
    /\ j.pc = "retired" => EndedIn(pr, a) /\ (LeftIn(pr) \/ AliveIn(pr, o))
    /\ j.pc \in {"assure", "commit"} => OutIn(pr, o)
    /\ j.pc = "commit" => pr[a] = "left" \/ (AliveIn(pr, a) /\ nm[a] = "canonical")
    /\ j.driver = "clean" => pr[o] = "none" /\ j.pc \in Undoings

\* Who is alive at each point of an operation, whether it goes on or waits.
RowFits(o, row, pr, nm) ==
  LET a == row.from IN
  /\ Point(row) \in Before => LeftIn(pr) \/ AliveIn(pr, a)
  /\ Point(row) \in {"activated", "retiring"} =>
       LeftIn(pr) \/ AliveIn(pr, o) \/ (AliveIn(pr, a) /\ nm[a] # "aside")
  /\ Point(row) = "predecessor_retired" => EndedIn(pr, a) /\ (LeftIn(pr) \/ AliveIn(pr, o))
  /\ Point(row) \in Switched => row.routed
  /\ row.state = "recovery_required" => row.back \in Undone
  /\ row.state = "completed" => EndedIn(pr, a)
  /\ row.state = "rolled_back" => OutIn(pr, o)

\* Between two replacements the owner works; after a rollback under its own name.
SeatFits ==
  ~Held =>
    /\ LeftIn(proc) \/ AliveIn(proc, owner)
    /\ (\E o \in Operations : operation[o].state = "rolled_back" /\ From(o) = owner)
         /\ proc[owner] = "running" => name[owner] = "canonical"

OneAtWork == \A p, q \in Operators : job[p].pc # "rest" /\ job[q].pc # "rest" => p = q

SoleInv ==
  ~crowded =>
    /\ OneAtWork
    /\ \A p \in Operators : JobFits(job[p], operation[job[p].o], proc, name)
    /\ \A o \in Operations : RowFits(o, operation[o], proc, name)
    /\ SeatFits

\* p is the only one at work, on operation o.
Lone(p, o) ==
  /\ job[p].pc # "rest" /\ job[p].o = o
  /\ \A q \in Operators \ {p} : job[q].pc = "rest"
  /\ job[p] \in Jobs /\ o \in Agents /\ operation[o] \in Rows /\ operation[o].state \in Open
  /\ operation[o].from \in Agents \ {o} /\ proc[operation[o].from] # "none"
  /\ \A x \in Operations \ {o} : operation[x].state \notin Open
  /\ JobFits(job[p], operation[o], proc, name)

LEMMA StatesAtIs ==
  /\ StatesAt["begin"] = {"prepared", "successor_verified", "activated"}
  /\ \A pc \in {"launch", "recover", "verify", "record"} : StatesAt[pc] = {"launching"}
  /\ \A pc \in {"swap", "aside", "promote", "readback", "activate"} : StatesAt[pc] = {"route_swapping"}
  /\ \A pc \in {"retire", "retired"} : StatesAt[pc] = {"retiring"}
  /\ StatesAt["complete"] = {"predecessor_retired"}
  /\ StatesAt["resume"] = {"recovery_required"}
  /\ \A pc \in Undoings : StatesAt[pc] = Undone
  /\ \A pc \in Places : StatesAt[pc] \subseteq Open
<1>1. StatesAt["begin"] = {"prepared", "successor_verified", "activated"}
  BY DEF StatesAt, Places, Undoings
<1>2. \A pc \in {"launch", "recover", "verify", "record"} : StatesAt[pc] = {"launching"}
  BY DEF StatesAt, Places, Undoings
<1>3. \A pc \in {"swap", "aside", "promote", "readback", "activate"} : StatesAt[pc] = {"route_swapping"}
  BY DEF StatesAt, Places, Undoings
<1>4. \A pc \in {"retire", "retired"} : StatesAt[pc] = {"retiring"}
  BY DEF StatesAt, Places, Undoings
<1>5. StatesAt["complete"] = {"predecessor_retired"} /\ StatesAt["resume"] = {"recovery_required"}
  BY DEF StatesAt, Places, Undoings
<1>6. \A pc \in Undoings : StatesAt[pc] = Undone
  BY DEF StatesAt, Places, Undoings
<1>7. StatesAt["rest"] = {}
  BY DEF StatesAt, Places, Undoings
<1>8. \A pc \in Places : StatesAt[pc] \subseteq Open
  BY <1>1, <1>2, <1>3, <1>4, <1>5, <1>6, <1>7 DEF Places, Undoings, Undone, Open, Before, Switched
<1> QED  BY <1>1, <1>2, <1>3, <1>4, <1>5, <1>6, <1>8

LEMMA Alone ==
  ASSUME FollowInv, SoleInv, ~crowded, NEW p \in Operators, job[p].pc # "rest"
  PROVE  \E o \in Operations : Lone(p, o)
<1>1. job[p] \in Jobs /\ job[p].o \in Operations /\ job[p].pc \in Places
  BY DEF FollowInv, PInv, JobsOK, JobOK, Jobs
<1>2. PICK o \in Operations : o = job[p].o
  BY <1>1
<1>3. operation[o] \in Rows /\ o \in Agents /\ operation[o].from \in Agents
      /\ operation[o].from # o
  BY DEF FollowInv, PInv, DbInv, DatabaseOK, Rows, Unmet, From, Agents
<1>4. JobFits(job[p], operation[o], proc, name)
  BY <1>2 DEF SoleInv
<1>5. operation[o].state \in Open
  BY <1>1, <1>4, StatesAtIs DEF JobFits
<1>6. proc[operation[o].from] # "none"
  BY <1>5 DEF FollowInv, BroughtOnce, From, Open, Before, Switched
<1>7. \A x \in Operations \ {o} : operation[x].state \notin Open
  BY <1>5 DEF FollowInv, PInv, DbInv, OneIsOpen
<1>8. \A q \in Operators \ {p} : job[q].pc = "rest"
  BY DEF SoleInv, OneAtWork
<1> QED  BY <1>1, <1>2, <1>3, <1>4, <1>5, <1>6, <1>7, <1>8 DEF Lone

\* Nobody that ended is back, but for the successor of the operation itself.
NoRevival(o) ==
  \A x \in Agents \ {o} :
    /\ EndedIn(proc, x) => EndedIn(proc', x)
    /\ OutIn(proc, x) => OutIn(proc', x)

\* What the only operator has to answer for.
LEMMA SoleKept ==
  ASSUME FollowInv, SoleInv, ~crowded, NEW p \in Operators, NEW o \in Operations, Lone(p, o),
         NEW k, After(p, k), k.pc # "rest" => k.o = o,
         \A x \in Operations \ {o} : operation'[x] = operation[x],
         operation'[o].state \in Open, NoRevival(o),
         JobFits(k, operation'[o], proc', name'),
         RowFits(o, operation'[o], proc', name')
  PROVE  SoleInv'
<1>1. job'[p] = k /\ \A q \in Operators \ {p} : job'[q].pc = "rest"
  BY DEF Lone, After
<1>2. OneAtWork'
  BY <1>1 DEF OneAtWork
<1>3. \A q \in Operators : JobFits(job'[q], operation'[job'[q].o], proc', name')
  <2> SUFFICES ASSUME NEW q \in Operators
               PROVE  JobFits(job'[q], operation'[job'[q].o], proc', name')
    OBVIOUS
  <2>1. CASE job'[q].pc = "rest"
    BY <2>1 DEF JobFits
  <2>2. CASE job'[q].pc # "rest"
    <3>1. q = p /\ job'[q] = k /\ k.o = o
      BY <1>1, <2>2
    <3> QED  BY <3>1
  <2> QED  BY <2>1, <2>2
<1>4. \A x \in Operations : RowFits(x, operation'[x], proc', name')
  <2> SUFFICES ASSUME NEW x \in Operations, x # o
               PROVE  RowFits(x, operation[x], proc', name')
    OBVIOUS
  <2>1. operation[x].state \notin Open /\ RowFits(x, operation[x], proc, name)
    BY DEF Lone, SoleInv
  <2>2. operation[x].from \in Agents /\ x \in Agents /\ operation[x].from # o
    BY DEF FollowInv, PInv, DbInv, DatabaseOK, Rows, Agents, BroughtOnce, From, Lone
  <2>3. Point(operation[x]) \notin Before \cup Switched /\ operation[x].state # "recovery_required"
    BY <2>1 DEF Point, Open
  <2> QED  BY <2>1, <2>2, <2>3 DEF RowFits, NoRevival, Switched
<1>5. SeatFits'
  BY DEF SeatFits, Held
<1> QED  BY <1>2, <1>3, <1>4, <1>5 DEF SoleInv

LEMMA LoneRowFits ==
  ASSUME SoleInv, ~crowded, NEW o \in Operations
  PROVE  RowFits(o, operation[o], proc, name)
BY DEF SoleInv

\* A step that only its operator notices.
LEMMA QuietKept ==
  ASSUME FollowInv, SoleInv, ~crowded, NEW p \in Operators, NEW o \in Operations, Lone(p, o),
         UNCHANGED <<operation, proc, name>>,
         NEW k, After(p, k), k.pc # "rest" => k.o = o,
         JobFits(k, operation[o], proc, name)
  PROVE  SoleInv'
<1>1. NoRevival(o)
  BY DEF NoRevival
<1>2. operation[o].state \in Open /\ RowFits(o, operation[o], proc, name)
  BY LoneRowFits DEF Lone
<1> QED  BY <1>1, <1>2, SoleKept

LEMMA RestFits ==
  ASSUME NEW row, NEW pr, NEW nm
  PROVE  JobFits(Rest, row, pr, nm) /\ Rest.pc = "rest"
BY DEF JobFits, Rest

LEMMA RaiseKept ==
  ASSUME FollowInv, SoleInv, ~crowded, NEW p \in Operators, NEW o \in Operations, Lone(p, o),
         UNCHANGED <<operation, proc, name>>, Raise(p)
  PROVE  SoleInv'
<1>1. After(p, Rest)
  BY RaiseLeaves DEF FollowInv, PInv
<1> QED  BY <1>1, RestFits, QuietKept

\* Where a failure is undone from.
LEMMA UndoFits ==
  ASSUME NEW j \in Jobs, j.pc # "rest", NEW row, NEW pr, NEW nm,
         j.fresh, j.state = row.state, row.state \in Undone,
         Point(row) \in Switched => j.routed, j.driver = "clean" => pr[j.o] = "none"
  PROVE  JobFits([j EXCEPT !.pc = Undoing(j), !.todo = {}], row, pr, nm)
<1> DEFINE k == [j EXCEPT !.pc = Undoing(j), !.todo = {}]
<1>1. k.pc = Undoing(j) /\ k.o = j.o /\ k.fresh /\ k.state = row.state /\ k.routed = j.routed
      /\ k.driver = j.driver
  BY DEF Jobs
<1>2. Undoing(j) \in {"owe", "unswap", "unlaunch"} /\ (Undoing(j) = "unlaunch" => ~j.routed)
  BY DEF Undoing
<1>3. Undoing(j) \in Undoings /\ StatesAt[Undoing(j)] = Undone
  BY <1>2, StatesAtIs DEF Undoings
<1>4. row.state = "retiring" => Point(row) \in Switched
  BY DEF Point, Switched
<1> HIDE DEF k
<1>5. JobFits(k, row, pr, nm)
  BY <1>1, <1>2, <1>3, <1>4 DEF JobFits
<1> QED  BY <1>5 DEF k

LEMMA UndoKept ==
  ASSUME FollowInv, SoleInv, ~crowded, NEW p \in Operators, NEW o \in Operations, Lone(p, o),
         UNCHANGED <<operation, proc, name>>, operation[o].state \in Undone, Undo(p, job[p])
  PROVE  SoleInv'
<1> DEFINE k == [job[p] EXCEPT !.pc = Undoing(job[p]), !.todo = {}]
<1>1. After(p, k)
  BY UndoLeaves DEF FollowInv, PInv, Lone
<1>2. JobFits(k, operation[o], proc, name)
  BY UndoFits DEF Lone, JobFits
<1>3. k.o = o
  BY DEF Lone, Jobs
<1> HIDE DEF k
<1> QED  BY <1>1, <1>2, <1>3, QuietKept

\* Whether the operator at work may come to the place of k.
Reaches(j, k, row, pr, nm) ==
  LET o == j.o
      a == row.from IN
  /\ k.pc # "rest" /\ k.o = o /\ k.state = j.state /\ k.fresh = j.fresh /\ k.driver = j.driver
  /\ j.routed => k.routed
  /\ row.state \in StatesAt[k.pc]
  /\ j.driver = "clean" => k.pc \in Undoings
  /\ k.pc \notin {"retired"}
  /\ k.pc = "activate" => k.routed /\ AliveIn(pr, o)
  /\ k.pc \in {"unlaunch", "assure", "commit"} =>
       ~j.routed \/ LeftIn(pr) \/ (AliveIn(pr, a) /\ nm[a] # "aside")
  /\ k.pc \in {"assure", "commit"} => OutIn(pr, o)
  /\ k.pc = "commit" => AliveIn(pr, a) /\ nm[a] = "canonical"

LEMMA ReachesFits ==
  ASSUME NEW j, NEW k, NEW row, NEW pr, NEW nm, j.pc # "rest",
         JobFits(j, row, pr, nm), Reaches(j, k, row, pr, nm)
  PROVE  JobFits(k, row, pr, nm)
<1>1. row.state = "retiring" => Point(row) \in Switched
  BY DEF Point, Switched
<1> QED  BY <1>1 DEF JobFits, Reaches

LEMMA PutKept ==
  ASSUME FollowInv, SoleInv, ~crowded, NEW p \in Operators, NEW o \in Operations, Lone(p, o),
         UNCHANGED <<operation, proc, name>>,
         NEW k, Put(p, k), Reaches(job[p], k, operation[o], proc, name)
  PROVE  SoleInv'
<1>1. k.pc # "rest" /\ k.o = o
  BY DEF Reaches, Lone
<1>2. After(p, k)
  BY <1>1, PutLeaves DEF FollowInv, PInv
<1>3. JobFits(k, operation[o], proc, name)
  BY ReachesFits DEF Lone
<1> QED  BY <1>1, <1>2, <1>3, QuietKept

LEMMA GotoKept ==
  ASSUME FollowInv, SoleInv, ~crowded, NEW p \in Operators, NEW o \in Operations, Lone(p, o),
         UNCHANGED <<operation, proc, name>>,
         NEW pc, Goto(p, pc), pc # "rest", pc \notin {"retired", "activate"},
         operation[o].state \in StatesAt[pc], job[p].driver = "clean" => pc \in Undoings,
         pc \in {"unlaunch", "assure", "commit"} =>
           \/ ~job[p].routed \/ LeftIn(proc)
           \/ AliveIn(proc, operation[o].from) /\ name[operation[o].from] # "aside",
         pc \in {"assure", "commit"} => OutIn(proc, o),
         pc = "commit" => AliveIn(proc, operation[o].from) /\ name[operation[o].from] = "canonical"
  PROVE  SoleInv'
<1> DEFINE k == [job[p] EXCEPT !.pc = pc]
<1>1. k.pc = pc /\ k.o = o /\ job[p].o = o /\ k.state = job[p].state /\ k.fresh = job[p].fresh
      /\ k.driver = job[p].driver /\ k.routed = job[p].routed
  BY DEF Lone, Jobs
<1>2. Put(p, k)
  BY DEF Goto
<1> HIDE DEF k
<1>3. Reaches(job[p], k, operation[o], proc, name)
  BY <1>1 DEF Reaches
<1> QED  BY <1>2, <1>3, PutKept

LEMMA ProbeKept ==
  ASSUME FollowInv, SoleInv, ~crowded, NEW p \in Operators,
         Recover(p) \/ Verify(p) \/ SwapRead(p) \/ Die(p)
  PROVE  SoleInv'
<1>1. job[p].pc # "rest" /\ UNCHANGED <<operation, proc, name>>
  BY DEF Recover, Verify, SwapRead, Die, database, world
<1>2. PICK o \in Operations : Lone(p, o)
  BY <1>1, Alone
<1>3. job[p].o = o /\ job[p] \in Jobs /\ JobFits(job[p], operation[o], proc, name)
  BY <1>2 DEF Lone
<1>4. CASE Die(p)
  BY <1>1, <1>2, <1>4, RaiseKept DEF Die
<1>5. CASE Recover(p) \/ Verify(p) \/ SwapRead(p)
  <2>1. operation[o].state \in Undone /\ job[p].driver # "clean"
    BY <1>3, <1>5, StatesAtIs DEF Recover, Verify, SwapRead, JobFits, Undone, Undoings
  <2>2. CASE Undo(p, job[p])
    BY <1>1, <1>2, <2>1, <2>2, UndoKept
  <2>3. CASE Recover(p) /\ ~Undo(p, job[p])
    <3> DEFINE k == [job[p] EXCEPT !.pc = "verify", !.receipt = "recovered"]
    <3>1. k.pc = "verify" /\ k.o = o /\ k.state = job[p].state /\ k.fresh = job[p].fresh
          /\ k.driver = job[p].driver /\ k.routed = job[p].routed
      BY <1>3 DEF Jobs
    <3>2. Put(p, k)
      BY <2>3 DEF Recover
    <3>3. operation[o].state \in StatesAt["verify"]
      BY <1>3, <2>3, StatesAtIs DEF Recover, JobFits
    <3> HIDE DEF k
    <3>4. Reaches(job[p], k, operation[o], proc, name)
      BY <1>3, <2>1, <3>1, <3>3 DEF Reaches
    <3> QED  BY <1>1, <1>2, <3>2, <3>4, PutKept
  <2>4. CASE Verify(p) /\ ~Undo(p, job[p])
    <3>1. Goto(p, "record") /\ operation[o].state \in StatesAt["record"]
      BY <1>3, <2>4, StatesAtIs DEF Verify, JobFits
    <3> QED  BY <1>1, <1>2, <2>1, <3>1, GotoKept
  <2>5. CASE SwapRead(p) /\ ~Undo(p, job[p])
    <3>1. PICK todo : Put(p, [job[p] EXCEPT !.pc = "aside", !.todo = todo])
      BY <2>5, Zenon DEF SwapRead
    <3> DEFINE k == [job[p] EXCEPT !.pc = "aside", !.todo = todo]
    <3>2. k.pc = "aside" /\ k.o = o /\ k.state = job[p].state /\ k.fresh = job[p].fresh
          /\ k.driver = job[p].driver /\ k.routed = job[p].routed
      BY <1>3 DEF Jobs
    <3>3. operation[o].state \in StatesAt["aside"]
      BY <1>3, <2>5, StatesAtIs DEF SwapRead, JobFits
    <3> HIDE DEF k
    <3>4. Reaches(job[p], k, operation[o], proc, name)
      BY <1>3, <2>1, <3>2, <3>3 DEF Reaches
    <3> QED  BY <1>1, <1>2, <3>1, <3>4, PutKept DEF k
  <2> QED  BY <1>5, <2>2, <2>3, <2>4, <2>5
<1> QED  BY <1>4, <1>5

\* The names as they are read back, before and after a swap is undone.
LEMMA NamesReadKept ==
  ASSUME FollowInv, SoleInv, ~crowded, NEW p \in Operators,
         ReadBack(p) \/ UnswapRead(p) \/ Restored(p) \/ Assure(p)
  PROVE  SoleInv'
<1>1. job[p].pc # "rest" /\ UNCHANGED <<operation, proc, name>>
  BY DEF ReadBack, UnswapRead, Restored, Assure, database, world
<1>2. PICK o \in Operations : Lone(p, o)
  BY <1>1, Alone
<1> DEFINE a == operation[o].from
<1>3. job[p].o = o /\ job[p] \in Jobs /\ JobFits(job[p], operation[o], proc, name) /\ From(job[p].o) = a
  BY <1>2 DEF Lone, From
<1>4. operation[o].state \in Undone /\ \A pc \in Undoings : StatesAt[pc] = Undone
  BY <1>3, StatesAtIs DEF ReadBack, UnswapRead, Restored, Assure, JobFits, Undone, Undoings
<1>5. \A x \in Agents, n \in {"canonical", "staging", "aside"} :
        Verified(x, n) => AliveIn(proc, x) /\ name[x] = n
  BY DEF Verified, At, AliveIn
<1>6. o \in Agents /\ a \in Agents
  BY <1>2 DEF Lone
<1>7. CASE ReadBack(p)
  <2>1. CASE Goto(p, "unswap")
    BY <1>1, <1>2, <1>4, <2>1, GotoKept DEF Undoings
  <2>2. CASE ~Goto(p, "unswap")
    <3> DEFINE k == [job[p] EXCEPT !.pc = "activate", !.routed = TRUE, !.todo = {}]
    <3>1. k.pc = "activate" /\ k.o = o /\ k.state = job[p].state /\ k.fresh = job[p].fresh
          /\ k.driver = job[p].driver /\ k.routed
      BY <1>3 DEF Jobs
    <3>2. Put(p, k) /\ AliveIn(proc, o)
      BY <1>3, <1>5, <1>6, <1>7, <2>2 DEF ReadBack
    <3>3. operation[o].state \in StatesAt["activate"] /\ job[p].driver # "clean"
      BY <1>3, <1>7, StatesAtIs DEF ReadBack, JobFits, Undoings
    <3> HIDE DEF k
    <3>4. Reaches(job[p], k, operation[o], proc, name)
      BY <1>3, <3>1, <3>2, <3>3 DEF Reaches
    <3> QED  BY <1>1, <1>2, <3>2, <3>4, PutKept
  <2> QED  BY <2>1, <2>2
<1>8. ASSUME NEW pc \in {"demote", "unlaunch", "owe"}, NEW todo,
             Put(p, [job[p] EXCEPT !.pc = pc, !.todo = todo]),
             pc = "unlaunch" =>
               ~job[p].routed \/ LeftIn(proc) \/ (AliveIn(proc, a) /\ name[a] # "aside")
      PROVE  SoleInv'
  <2> DEFINE k == [job[p] EXCEPT !.pc = pc, !.todo = todo]
  <2>1. k.pc = pc /\ k.o = o /\ k.state = job[p].state /\ k.fresh = job[p].fresh
        /\ k.driver = job[p].driver /\ k.routed = job[p].routed
    BY <1>3 DEF Jobs
  <2>2. pc \in Undoings /\ operation[o].state \in StatesAt[pc]
    BY <1>4 DEF Undoings
  <2> HIDE DEF k
  <2>3. Reaches(job[p], k, operation[o], proc, name)
    BY <1>3, <1>8, <2>1, <2>2 DEF Reaches
  <2> QED  BY <1>1, <1>2, <1>8, <2>3, PutKept DEF k
<1>9. Unnamed(p) \in {"owe", "unlaunch"} /\ (Unnamed(p) = "unlaunch" => ~job[p].routed)
  BY DEF Unnamed
<1>10. CASE UnswapRead(p)
  <2>1. CASE Goto(p, Unnamed(p))
    BY <1>1, <1>2, <1>4, <1>9, <2>1, GotoKept DEF Undoings
  <2>2. CASE \E todo : Put(p, [job[p] EXCEPT !.pc = "demote", !.todo = todo])
    <3>1. PICK todo : Put(p, [job[p] EXCEPT !.pc = "demote", !.todo = todo])
      BY <2>2
    <3> QED  BY <1>8, <3>1
  <2> QED  BY <1>10, <2>1, <2>2, Zenon DEF UnswapRead
<1>11. CASE Restored(p)
  <2>1. CASE Put(p, [job[p] EXCEPT !.pc = Unnamed(p), !.todo = {}])
    <3>1. PICK pc \in {"owe", "unlaunch"} : pc = Unnamed(p)
      BY <1>9
    <3> QED  BY <1>8, <1>9, <2>1, <3>1
  <2>2. CASE /\ Put(p, [job[p] EXCEPT !.pc = "unlaunch", !.todo = {}])
             /\ Verified(From(job[p].o), "canonical")
    <3>1. AliveIn(proc, a) /\ name[a] # "aside"
      BY <1>3, <1>5, <1>6, <2>2
    <3> QED  BY <1>8, <2>2, <3>1
  <2> QED  BY <1>11, <2>1, <2>2 DEF Restored
<1>12. CASE Assure(p)
  <2>1. CASE Goto(p, "owe")
    BY <1>1, <1>2, <1>4, <2>1, GotoKept DEF Undoings
  <2>2. CASE Goto(p, "commit") /\ Verified(From(job[p].o), "canonical")
    <3>1. AliveIn(proc, a) /\ name[a] = "canonical"
      BY <1>3, <1>5, <1>6, <2>2
    <3>2. OutIn(proc, o)
      BY <1>3, <1>12 DEF Assure, JobFits
    <3> QED  BY <1>1, <1>2, <1>4, <2>2, <3>1, <3>2, GotoKept DEF Undoings
  <2> QED  BY <1>12, <2>1, <2>2 DEF Assure
<1> QED  BY <1>7, <1>10, <1>11, <1>12

\* A name is changed, and its operator goes on.
LEMMA NamedKept ==
  ASSUME FollowInv, SoleInv, ~crowded, NEW p \in Operators, NEW o \in Operations, Lone(p, o),
         UNCHANGED <<operation, proc>>,
         job[p].pc \in {"aside", "promote", "demote", "restore"},
         NEW pc \in {"promote", "readback", "unswap", "restore", "restored", "owe", "unlaunch"},
         Goto(p, pc), pc = "unlaunch" => ~job[p].routed,
         operation[o].state \in StatesAt[pc], job[p].driver = "clean" => pc \in Undoings,
         \/ operation[o].state # "retiring"
         \/ name'[operation[o].from] \in {name[operation[o].from], "canonical"}
  PROVE  SoleInv'
<1> DEFINE k == [job[p] EXCEPT !.pc = pc]
<1>1. k.pc = pc /\ k.o = o /\ job[p].o = o /\ k.state = job[p].state /\ k.fresh = job[p].fresh
      /\ k.driver = job[p].driver /\ k.routed = job[p].routed /\ pc # "rest"
  BY DEF Lone, Jobs
<1>2. After(p, k)
  BY GotoLeaves DEF FollowInv, PInv
<1> HIDE DEF k
<1>3. Reaches(job[p], k, operation[o], proc', name')
  BY <1>1 DEF Reaches
<1>4. JobFits(job[p], operation[o], proc', name')
  BY DEF Lone, JobFits
<1>5. JobFits(k, operation[o], proc', name')
  BY <1>3, <1>4, ReachesFits DEF Lone
<1>6. operation[o].state \in Undone
  BY StatesAtIs DEF Undone, Undoings
<1>7. Point(operation[o]) = operation[o].state /\ operation[o].state # "activated"
  BY <1>6 DEF Point, Undone
<1>8. RowFits(o, operation[o], proc, name)
  BY LoneRowFits
<1>9. RowFits(o, operation[o], proc', name')
  BY <1>7, <1>8 DEF RowFits
<1>10. NoRevival(o) /\ operation[o].state \in Open
  BY DEF NoRevival, Lone
<1> QED  BY <1>1, <1>2, <1>5, <1>9, <1>10, SoleKept

LEMMA RenameKept ==
  ASSUME FollowInv, SoleInv, ~crowded, NEW p \in Operators,
         SetAside(p) \/ Promote(p) \/ Demote(p) \/ Restore(p)
  PROVE  SoleInv'
<1>1. job[p].pc \in {"aside", "promote", "demote", "restore"} /\ UNCHANGED <<operation, proc>>
  BY DEF SetAside, Promote, Demote, Restore, Rename, database
<1>2. PICK o \in Operations : Lone(p, o)
  BY <1>1, Alone
<1> DEFINE a == operation[o].from
<1>3. /\ job[p].o = o /\ job[p] \in Jobs /\ JobFits(job[p], operation[o], proc, name)
      /\ From(job[p].o) = a /\ a \in Agents /\ o \in Agents /\ a # o
      /\ name \in [Agents -> {"none", "canonical", "staging", "aside"}]
  BY <1>2 DEF Lone, From, FollowInv, PInv, WorldOK, NativeOK
<1>4. Unnamed(p) \in {"owe", "unlaunch"} /\ (Unnamed(p) = "unlaunch" => ~job[p].routed)
  BY DEF Unnamed
<1>5. operation[o].state \in StatesAt[job[p].pc] /\ (job[p].driver = "clean" => job[p].pc \in Undoings)
  BY <1>1, <1>3 DEF JobFits
<1>6. CASE SetAside(p) \/ Promote(p)
  <2>1. operation[o].state = "route_swapping" /\ job[p].driver # "clean"
    BY <1>5, <1>6, StatesAtIs DEF SetAside, Promote, Rename, Undoings
  <2>2. Goto(p, "promote") \/ Goto(p, "readback") \/ Goto(p, "unswap")
    BY <1>6 DEF SetAside, Promote, Rename
  <2>3. \A pc \in {"promote", "readback", "unswap"} : operation[o].state \in StatesAt[pc]
    BY <2>1, StatesAtIs DEF Undoings, Undone
  <2> QED  BY <1>1, <1>2, <2>1, <2>2, <2>3, NamedKept
<1>7. CASE Demote(p) \/ Restore(p)
  <2>1. operation[o].state \in Undone /\ \A pc \in Undoings : StatesAt[pc] = Undone
    BY <1>5, <1>7, StatesAtIs DEF Demote, Restore, Rename, Undoings
  <2>2. PICK pc \in {"restore", "restored", "owe", "unlaunch"} :
          Goto(p, pc) /\ (pc = "unlaunch" => ~job[p].routed)
    BY <1>4, <1>7 DEF Demote, Restore, Rename
  <2>3. name'[a] \in {name[a], "canonical"}
    BY <1>3, <1>7 DEF Demote, Restore, Rename
  <2>4. pc \in Undoings
    BY DEF Undoings
  <2> QED  BY <1>1, <1>2, <2>1, <2>2, <2>3, <2>4, NamedKept
<1> QED  BY <1>6, <1>7 DEF SetAside, Promote, Demote, Restore, Rename

\* The successor is launched, or the launch fails with or without it.
LEMMA LaunchKept ==
  ASSUME FollowInv, SoleInv, ~crowded, NEW p \in Operators, Launch(p) \/ LaunchFails(p)
  PROVE  SoleInv'
<1>1. job[p].pc = "launch" /\ UNCHANGED operation
  BY DEF Launch, LaunchFails, database
<1>2. PICK o \in Operations : Lone(p, o)
  BY <1>1, Alone
<1> DEFINE a == operation[o].from
<1>3. /\ job[p].o = o /\ job[p] \in Jobs /\ JobFits(job[p], operation[o], proc, name)
      /\ a \in Agents /\ o \in Agents /\ a # o
      /\ proc \in [Agents -> {"none", "running", "leaving", "left", "gone"}]
      /\ RowFits(o, operation[o], proc, name) /\ operation[o].state \in Open
  BY <1>2, LoneRowFits DEF Lone, FollowInv, PInv, WorldOK, NativeOK
<1>4. operation[o].state = "launching" /\ job[p].driver # "clean"
  BY <1>1, <1>3, StatesAtIs DEF JobFits, Undoings
<1>5. proc[o] = "none"
  BY <1>1, <1>3 DEF FollowInv, LaunchesFollow
<1>6. proc' = [proc EXCEPT ![o] = "running"] \/ proc' = proc
  BY <1>3 DEF Launch, LaunchFails
<1>7. /\ \A x \in Agents \ {o} : proc'[x] = proc[x]
      /\ LeftIn(proc) => LeftIn(proc')
  BY <1>3, <1>5, <1>6 DEF LeftIn
<1>8. NoRevival(o)
  BY <1>7 DEF NoRevival, EndedIn, OutIn
<1>9. Point(operation[o]) = "launching"
  BY <1>4 DEF Point
<1>10. RowFits(o, operation[o], proc', name')
  BY <1>3, <1>4, <1>7, <1>9 DEF RowFits, AliveIn, Before, Switched
<1>11. ASSUME NEW k, After(p, k), k.o = o, JobFits(k, operation[o], proc', name')
       PROVE  SoleInv'
  BY <1>1, <1>2, <1>3, <1>8, <1>10, <1>11, SoleKept
<1>12. CASE Launch(p)
  <2> DEFINE k == [job[p] EXCEPT !.pc = "verify", !.receipt = "launched", !.driver = "made"]
  <2>1. k.pc = "verify" /\ k.o = o /\ k.state = job[p].state /\ k.fresh = job[p].fresh
        /\ k.driver = "made"
    BY <1>3 DEF Jobs
  <2>2. Put(p, k)
    BY <1>12 DEF Launch
  <2>3. "launching" \in StatesAt["verify"]
    BY StatesAtIs
  <2> HIDE DEF k
  <2>4. JobFits(k, operation[o], proc', name')
    BY <1>1, <1>3, <1>4, <1>9, <2>1, <2>3 DEF JobFits, Switched
  <2>5. After(p, k)
    BY <2>1, <2>2, PutLeaves DEF FollowInv, PInv
  <2> QED  BY <1>11, <2>1, <2>4, <2>5
<1>13. CASE LaunchFails(p)
  <2>1. PICK driver \in {"none", "clean", "made"} :
          Undo(p, [job[p] EXCEPT !.driver = driver]) /\ (driver # "made" => proc' = proc)
    BY <1>13 DEF LaunchFails
  <2> DEFINE j == [job[p] EXCEPT !.driver = driver]
             k == [j EXCEPT !.pc = Undoing(j), !.todo = {}]
  <2>2. j \in Jobs /\ j.o = o /\ j.pc = job[p].pc /\ j.state = job[p].state
        /\ j.fresh = job[p].fresh /\ j.driver = driver
    BY <1>3 DEF Jobs
  <2> HIDE DEF j
  <2>3. After(p, k)
    BY <2>1, <2>2, UndoLeaves DEF FollowInv, PInv, j
  <2>4. JobFits(k, operation[o], proc', name')
    <3>1. j.fresh /\ j.state = operation[o].state /\ operation[o].state \in Undone /\ j.pc # "rest"
      BY <1>1, <1>3, <1>4, <2>2 DEF JobFits, Undone
    <3>2. Point(operation[o]) \notin Switched
      BY <1>9 DEF Switched
    <3>3. j.driver = "clean" => proc'[j.o] = "none"
      BY <1>5, <2>1, <2>2
    <3> QED  BY <2>2, <3>1, <3>2, <3>3, UndoFits
  <2>5. k.o = o
    BY <2>2 DEF Jobs
  <2> HIDE DEF k
  <2> QED  BY <1>11, <2>3, <2>4, <2>5
<1> QED  BY <1>12, <1>13

\* An agent is told to leave: nobody else is touched, who was out stays out, and
\* who left has left.
Dismissed(x) ==
  /\ \A y \in Agents \ {x} : proc'[y] = proc[y] /\ name'[y] = name[y]
  /\ EndedIn(proc, x) => EndedIn(proc', x)
  /\ OutIn(proc, x) => OutIn(proc', x)
  /\ LeftIn(proc) => LeftIn(proc')
  /\ proc[x] = "none" => proc'[x] = "none"

LEMMA DismissedIs ==
  ASSUME PInv, NEW x \in Agents,
         \/ UNCHANGED <<proc, name>>
         \/ /\ At(x)
            /\ \/ proc' = [proc EXCEPT ![x] = "gone"] /\ name' = [name EXCEPT ![x] = "none"]
               \/ proc' = [proc EXCEPT ![x] = "leaving"] /\ UNCHANGED name
  PROVE  Dismissed(x)
<1>1. proc \in [Agents -> {"none", "running", "leaving", "left", "gone"}]
      /\ name \in [Agents -> {"none", "canonical", "staging", "aside"}]
  BY DEF PInv, WorldOK, NativeOK
<1>2. CASE UNCHANGED <<proc, name>>
  BY <1>2 DEF Dismissed
<1>3. CASE ~UNCHANGED <<proc, name>>
  <2>1. proc[x] \in {"running", "leaving"}
    BY <1>3 DEF At
  <2>2. \A y \in Agents \ {x} : proc'[y] = proc[y] /\ name'[y] = name[y]
    BY <1>1, <1>3
  <2>3. LeftIn(proc) => LeftIn(proc')
    BY <2>1, <2>2 DEF LeftIn
  <2> QED  BY <2>1, <2>2, <2>3 DEF Dismissed, EndedIn, OutIn
<1> QED  BY <1>2, <1>3

\* The predecessor is retired under the name that the swap gave it.
LEMMA RetireKept ==
  ASSUME FollowInv, SoleInv, ~crowded, NEW p \in Operators, Retire(p)
  PROVE  SoleInv'
<1>1. job[p].pc = "retire" /\ UNCHANGED operation
  BY DEF Retire, database
<1>2. PICK o \in Operations : Lone(p, o)
  BY <1>1, Alone
<1> DEFINE a == operation[o].from
<1>3. /\ job[p].o = o /\ job[p] \in Jobs /\ JobFits(job[p], operation[o], proc, name)
      /\ a \in Agents /\ o \in Agents /\ a # o /\ From(job[p].o) = a /\ proc[a] # "none"
      /\ proc \in [Agents -> {"none", "running", "leaving", "left", "gone"}]
      /\ RowFits(o, operation[o], proc, name) /\ operation[o].state \in Open
  BY <1>2, LoneRowFits DEF Lone, From, FollowInv, PInv, WorldOK, NativeOK
<1>4. operation[o].state = "retiring" /\ job[p].driver # "clean"
  BY <1>1, <1>3, StatesAtIs DEF JobFits, Undoings
<1>5. Point(operation[o]) = "retiring" /\ Point(operation[o]) \in Switched
  BY <1>4 DEF Point, Switched
<1>6. job[p].routed
  BY <1>1, <1>3, <1>5 DEF JobFits
<1> DEFINE done == Put(p, [job[p] EXCEPT !.pc = "retired", !.retired = TRUE])
           stays == UNCHANGED <<proc, name>>
           goes == proc' = [proc EXCEPT ![a] = "gone"] /\ name' = [name EXCEPT ![a] = "none"]
           waits == proc' = [proc EXCEPT ![a] = "leaving"] /\ UNCHANGED name
<1>7. \/ At(a) /\ name[a] = "aside" /\ goes /\ done
      \/ proc[a] \in {"none", "gone", "left"} /\ stays /\ done
      \/ ~(At(a) /\ name[a] = "aside") /\ stays /\ Undo(p, job[p])
      \/ At(a) /\ name[a] = "aside" /\ (goes \/ waits \/ stays) /\ Undo(p, job[p])
  BY <1>3, <1>6 DEF Retire, Quit
<1>8. Dismissed(a)
  BY <1>3, <1>7, DismissedIs DEF FollowInv
<1>9. NoRevival(o)
  BY <1>8 DEF Dismissed, NoRevival, EndedIn, OutIn
<1>10. LeftIn(proc) \/ AliveIn(proc, o) \/ (AliveIn(proc, a) /\ name[a] # "aside")
  BY <1>3, <1>5, <1>4 DEF RowFits, Point
<1>11. AliveIn(proc, o) => AliveIn(proc', o)
  BY <1>3, <1>8 DEF Dismissed, AliveIn
<1>12. CASE stays
  <2>1. CASE Undo(p, job[p])
    <3>1. operation[o].state \in Undone
      BY <1>4 DEF Undone
    <3> QED  BY <1>1, <1>2, <1>12, <2>1, <3>1, UndoKept
  <2>2. CASE done /\ proc[a] \in {"none", "gone", "left"}
    <3> DEFINE k == [job[p] EXCEPT !.pc = "retired", !.retired = TRUE]
    <3>1. k.pc = "retired" /\ k.o = o /\ k.state = job[p].state /\ k.fresh = job[p].fresh
          /\ k.driver = job[p].driver /\ k.routed = job[p].routed
      BY <1>3 DEF Jobs
    <3>2. Put(p, k)
      BY <2>2
    <3>3. "retiring" \in StatesAt["retired"]
      BY StatesAtIs
    <3> HIDE DEF k
    <3>4. EndedIn(proc, a) /\ (LeftIn(proc) \/ AliveIn(proc, o))
      BY <1>3, <1>10, <2>2 DEF EndedIn, AliveIn
    <3>5. JobFits(k, operation[o], proc, name)
      BY <1>1, <1>3, <1>4, <1>6, <3>1, <3>3, <3>4 DEF JobFits
    <3>6. After(p, k)
      BY <3>1, <3>2, PutLeaves DEF FollowInv, PInv
    <3> QED  BY <1>1, <1>2, <1>12, <3>1, <3>5, <3>6, QuietKept
  <2>3. CASE done /\ goes
    BY <1>7, <1>12, <2>1, <2>2, <2>3, <1>3 DEF At
  <2> QED  BY <1>7, <1>12, <2>1, <2>2, <2>3
<1>13. CASE ~stays
  <2>1. At(a) /\ name[a] = "aside" /\ ((goes /\ done) \/ ((goes \/ waits) /\ Undo(p, job[p])))
    BY <1>7, <1>13
  <2>2. LeftIn(proc') \/ AliveIn(proc', o)
    BY <1>8, <1>10, <1>11, <2>1 DEF Dismissed
  <2>3. RowFits(o, operation[o], proc', name')
    BY <1>3, <1>4, <1>5, <2>2 DEF RowFits, Before
  <2>4. ASSUME NEW k, After(p, k), k.o = o, JobFits(k, operation[o], proc', name')
        PROVE  SoleInv'
    BY <1>1, <1>2, <1>3, <1>9, <2>3, <2>4, SoleKept
  <2>5. CASE goes /\ done
    <3> DEFINE k == [job[p] EXCEPT !.pc = "retired", !.retired = TRUE]
    <3>1. k.pc = "retired" /\ k.o = o /\ k.state = job[p].state /\ k.fresh = job[p].fresh
          /\ k.driver = job[p].driver /\ k.routed = job[p].routed
      BY <1>3 DEF Jobs
    <3>2. Put(p, k)
      BY <2>5
    <3>3. "retiring" \in StatesAt["retired"]
      BY StatesAtIs
    <3> HIDE DEF k
    <3>4. EndedIn(proc', a)
      BY <1>3, <2>5 DEF EndedIn
    <3>5. JobFits(k, operation[o], proc', name')
      BY <1>1, <1>3, <1>4, <1>6, <2>2, <3>1, <3>3, <3>4 DEF JobFits
    <3>6. After(p, k)
      BY <3>1, <3>2, PutLeaves DEF FollowInv, PInv
    <3> QED  BY <2>4, <3>1, <3>5, <3>6
  <2>6. CASE Undo(p, job[p])
    <3> DEFINE k == [job[p] EXCEPT !.pc = Undoing(job[p]), !.todo = {}]
    <3>1. After(p, k)
      BY <1>3, <2>6, UndoLeaves DEF FollowInv, PInv
    <3>2. JobFits(k, operation[o], proc', name')
      <4>1. job[p].fresh /\ job[p].state = operation[o].state /\ operation[o].state \in Undone
        BY <1>1, <1>3, <1>4 DEF JobFits, Undone
      <4> QED  BY <1>1, <1>3, <1>4, <1>6, <4>1, UndoFits
    <3>3. k.o = o
      BY <1>3 DEF Jobs
    <3> HIDE DEF k
    <3> QED  BY <2>4, <3>1, <3>2, <3>3
  <2> QED  BY <2>1, <2>5, <2>6
<1> QED  BY <1>12, <1>13

\* The successor is retired when a launch or a swap is undone.
LEMMA UnlaunchKept ==
  ASSUME FollowInv, SoleInv, ~crowded, NEW p \in Operators, Unlaunch(p)
  PROVE  SoleInv'
<1>1. job[p].pc = "unlaunch" /\ UNCHANGED operation
  BY DEF Unlaunch, database
<1>2. PICK o \in Operations : Lone(p, o)
  BY <1>1, Alone
<1> DEFINE a == operation[o].from
<1>3. /\ job[p].o = o /\ job[p] \in Jobs /\ JobFits(job[p], operation[o], proc, name)
      /\ a \in Agents /\ o \in Agents /\ a # o
      /\ proc \in [Agents -> {"none", "running", "leaving", "left", "gone"}]
      /\ RowFits(o, operation[o], proc, name) /\ operation[o].state \in Open
  BY <1>2, LoneRowFits DEF Lone, FollowInv, PInv, WorldOK, NativeOK
<1>4. operation[o].state \in Undone /\ \A pc \in Undoings : StatesAt[pc] = Undone
  BY <1>1, <1>3, StatesAtIs DEF JobFits, Undoings
<1>5. Point(operation[o]) = operation[o].state /\ operation[o].state # "activated"
      /\ operation[o].state \notin {"predecessor_retired", "recovery_required", "completed", "rolled_back"}
  BY <1>4 DEF Point, Undone
<1> DEFINE stays == UNCHANGED <<proc, name>>
           goes == proc' = [proc EXCEPT ![o] = "gone"] /\ name' = [name EXCEPT ![o] = "none"]
           waits == proc' = [proc EXCEPT ![o] = "leaving"] /\ UNCHANGED name
<1>6. /\ stays \/ (At(o) /\ (goes \/ waits))
      /\ \/ Goto(p, "owe")
         \/ Goto(p, "assure") /\ (goes \/ (stays /\ proc[o] \in {"none", "gone", "left"}))
  <2>1. job[p].driver = "clean" => proc[o] = "none"
    BY <1>1, <1>3 DEF JobFits
  <2> QED  BY <1>3, <2>1 DEF Unlaunch, Quit
<1>7. Dismissed(o)
  BY <1>3, <1>6, DismissedIs DEF FollowInv
<1>8. NoRevival(o)
  BY <1>7 DEF Dismissed, NoRevival, EndedIn, OutIn
<1>9. /\ LeftIn(proc) => LeftIn(proc')
      /\ AliveIn(proc, a) => AliveIn(proc', a)
      /\ name'[a] = name[a]
  BY <1>3, <1>7 DEF Dismissed, AliveIn
<1>10. operation[o].state = "retiring" => LeftIn(proc') \/ (AliveIn(proc', a) /\ name'[a] # "aside")
  BY <1>1, <1>3, <1>9 DEF JobFits
<1>11. RowFits(o, operation[o], proc', name')
  BY <1>3, <1>5, <1>9, <1>10 DEF RowFits
<1>12. ASSUME NEW pc \in {"owe", "assure"}, Goto(p, pc),
              pc = "assure" => OutIn(proc', o)
       PROVE  SoleInv'
  <2> DEFINE k == [job[p] EXCEPT !.pc = pc]
  <2>1. k.pc = pc /\ k.o = o /\ k.state = job[p].state /\ k.fresh = job[p].fresh
        /\ k.driver = job[p].driver /\ k.routed = job[p].routed /\ pc \in Undoings
    BY <1>3 DEF Jobs, Undoings
  <2>2. After(p, k)
    BY <1>12, GotoLeaves DEF FollowInv, PInv
  <2>3. proc[o] = "none" => proc'[o] = "none"
    BY <1>7 DEF Dismissed
  <2> HIDE DEF k
  <2>4. JobFits(k, operation[o], proc', name')
    BY <1>1, <1>3, <1>4, <1>10, <1>12, <2>1, <2>3 DEF JobFits
  <2> QED  BY <1>1, <1>2, <1>3, <1>8, <1>11, <2>1, <2>2, <2>4, SoleKept
<1>13. Goto(p, "assure") /\ (goes \/ (stays /\ proc[o] \in {"none", "gone", "left"})) => OutIn(proc', o)
  BY <1>3 DEF OutIn
<1> QED  BY <1>6, <1>12, <1>13

\* The only operator at work writes its row, and the operation stays open.
LEMMA WriteKept ==
  ASSUME FollowInv, SoleInv, ~crowded, NEW p \in Operators, NEW o \in Operations, Lone(p, o),
         UNCHANGED <<proc, name>>,
         NEW pc \in {"begin", "launch", "recover", "swap", "retire", "complete", "rest"}, NEW row,
         Write(p, [job[p] EXCEPT !.pc = pc], row), row.state \in Open,
         pc # "rest" => row.state \in StatesAt[pc] /\ job[p].driver # "clean",
         Point(row) \in Switched => job[p].routed,
         RowFits(o, row, proc, name)
  PROVE  SoleInv'
<1> DEFINE j == [job[p] EXCEPT !.pc = pc]
           k == IF pc = "rest" THEN Rest ELSE [j EXCEPT !.fresh = TRUE, !.state = row.state]
<1>1. j.pc = pc /\ j.o = o /\ operation \in [Operations -> Rows]
  BY DEF Lone, Jobs, FollowInv, PInv, DbInv, DatabaseOK
<1>2. After(p, k)
  <2> HIDE DEF j
  <2>1. After(p, IF j.pc = "rest" THEN Rest ELSE [j EXCEPT !.fresh = TRUE, !.state = row.state])
    BY WriteLeaves DEF FollowInv, PInv, j
  <2> QED  BY <1>1, <2>1
<1>3. pc # "rest" => k.pc = pc /\ k.o = o /\ k.fresh /\ k.state = row.state
                     /\ k.routed = job[p].routed /\ k.driver = job[p].driver
  BY DEF Lone, Jobs
<1>4. operation' = [operation EXCEPT ![o] = row]
  <2> HIDE DEF j
  <2> QED  BY <1>1 DEF Write, j
<1>5. operation'[o] = row /\ \A x \in Operations \ {o} : operation'[x] = operation[x]
  BY <1>1, <1>4
<1>6. pc = "rest" => k = Rest
  OBVIOUS
<1> HIDE DEF k
<1>7. JobFits(k, row, proc, name)
  BY <1>3, <1>6, RestFits DEF JobFits
<1>8. NoRevival(o) /\ Rest.pc = "rest"
  BY RestFits DEF NoRevival
<1> QED  BY <1>2, <1>3, <1>5, <1>6, <1>7, <1>8, SoleKept

LEMMA RecordsKept ==
  ASSUME FollowInv, SoleInv, ~crowded, NEW p \in Operators,
         RecordVerified(p) \/ Activate(p) \/ RecordRetired(p)
  PROVE  SoleInv'
<1>1. job[p].pc \in {"record", "activate", "retired"} /\ UNCHANGED <<proc, name>>
  BY DEF RecordVerified, Activate, RecordRetired, world
<1>2. PICK o \in Operations : Lone(p, o)
  BY <1>1, Alone
<1> DEFINE a == operation[o].from
<1>3. /\ job[p].o = o /\ job[p] \in Jobs /\ JobFits(job[p], operation[o], proc, name)
      /\ operation[o] \in Rows /\ RowFits(o, operation[o], proc, name)
  BY <1>2, LoneRowFits DEF Lone
<1>4. operation[o].state \in StatesAt[job[p].pc] /\ job[p].driver # "clean"
  BY <1>1, <1>3 DEF JobFits, Undoings
<1>5. operation[o].state \in Undone
  BY <1>1, <1>4, StatesAtIs DEF Undone
<1>6. CASE Undo(p, job[p]) /\ UNCHANGED operation
  BY <1>1, <1>2, <1>5, <1>6, UndoKept
<1>7. CASE RecordVerified(p)
  <2> DEFINE row == [operation[o] EXCEPT !.state = "successor_verified", !.receipt = job[p].receipt]
  <2>1. operation[o].state = "launching"
    BY <1>4, <1>7, StatesAtIs DEF RecordVerified
  <2>2. (Undo(p, job[p]) /\ UNCHANGED operation) \/ Write(p, [job[p] EXCEPT !.pc = "begin"], row)
    BY <1>3, <1>7, <2>1 DEF RecordVerified, Switched
  <2>3. row.state = "successor_verified" /\ row.from = a
    BY <1>3 DEF Rows
  <2>4. Point(row) = "successor_verified" /\ row.state \in Open /\ "successor_verified" \in StatesAt["begin"]
        /\ Point(operation[o]) = "launching"
    BY <2>1, <2>3, StatesAtIs DEF Point, Open, Before
  <2> HIDE DEF row
  <2>5. RowFits(o, row, proc, name)
    BY <1>3, <2>3, <2>4 DEF RowFits, Before, Switched
  <2>6. Point(row) \notin Switched
    BY <2>4 DEF Switched
  <2> QED  BY <1>1, <1>2, <1>4, <1>6, <2>2, <2>3, <2>4, <2>5, <2>6, WriteKept
<1>8. CASE Activate(p)
  <2> DEFINE row == [operation[o] EXCEPT !.state = "activated", !.routed = TRUE]
  <2>1. operation[o].state = "route_swapping" /\ job[p].pc = "activate"
    BY <1>4, <1>8, StatesAtIs DEF Activate
  <2>2. (Undo(p, job[p]) /\ UNCHANGED operation) \/ Write(p, [job[p] EXCEPT !.pc = "begin"], row)
    BY <1>3, <1>8, <2>1 DEF Activate, Switched
  <2>3. row.state = "activated" /\ row.from = a /\ row.routed
    BY <1>3 DEF Rows
  <2>4. Point(row) = "activated" /\ row.state \in Open /\ "activated" \in StatesAt["begin"]
    BY <2>3, StatesAtIs DEF Point, Open, Switched
  <2>5. job[p].routed /\ (LeftIn(proc) \/ AliveIn(proc, o))
    BY <1>3, <2>1 DEF JobFits
  <2> HIDE DEF row
  <2>6. RowFits(o, row, proc, name)
    BY <2>3, <2>4, <2>5 DEF RowFits, Before
  <2> QED  BY <1>1, <1>2, <1>4, <1>6, <2>2, <2>3, <2>4, <2>5, <2>6, WriteKept
<1>9. CASE RecordRetired(p)
  <2> DEFINE row == [operation[o] EXCEPT !.state = "predecessor_retired", !.retired = TRUE]
  <2>1. operation[o].state = "retiring" /\ job[p].pc = "retired"
    BY <1>4, <1>9, StatesAtIs DEF RecordRetired
  <2>2. (Undo(p, job[p]) /\ UNCHANGED operation) \/ Write(p, [job[p] EXCEPT !.pc = "complete"], row)
    BY <1>3, <1>9, <2>1 DEF RecordRetired
  <2>3. row.state = "predecessor_retired" /\ row.from = a /\ row.routed = operation[o].routed
    BY <1>3 DEF Rows
  <2>4. Point(row) = "predecessor_retired" /\ row.state \in Open
        /\ "predecessor_retired" \in StatesAt["complete"]
        /\ Point(operation[o]) \in Switched
    BY <2>1, <2>3, StatesAtIs DEF Point, Open, Switched
  <2>5. EndedIn(proc, a) /\ (LeftIn(proc) \/ AliveIn(proc, o)) /\ job[p].routed
    BY <1>3, <2>1, <2>4 DEF JobFits
  <2> HIDE DEF row
  <2>6. RowFits(o, row, proc, name)
    BY <1>3, <2>3, <2>4, <2>5 DEF RowFits, Before
  <2> QED  BY <1>1, <1>2, <1>4, <1>6, <2>2, <2>3, <2>4, <2>5, <2>6, WriteKept
<1> QED  BY <1>7, <1>8, <1>9

LEMMA PhasesKept ==
  ASSUME FollowInv, SoleInv, ~crowded, NEW p \in Operators,
         Resume(p) \/ BeginEffect(p) \/ Owe(p)
  PROVE  SoleInv'
<1>1. job[p].pc \in {"resume", "begin", "owe"} /\ UNCHANGED <<proc, name>>
  BY DEF Resume, BeginEffect, Owe, world
<1>2. PICK o \in Operations : Lone(p, o)
  BY <1>1, Alone
<1> DEFINE a == operation[o].from
<1>3. /\ job[p].o = o /\ job[p] \in Jobs /\ JobFits(job[p], operation[o], proc, name)
      /\ operation[o] \in Rows /\ RowFits(o, operation[o], proc, name)
  BY <1>2, LoneRowFits DEF Lone
<1>4. /\ operation[o].state \in StatesAt[job[p].pc] /\ job[p].state = operation[o].state
      /\ job[p].driver = "clean" => job[p].pc \in Undoings
      /\ Point(operation[o]) \in Switched => job[p].routed
  BY <1>1, <1>3 DEF JobFits
<1>5. CASE Raise(p) /\ UNCHANGED operation
  BY <1>1, <1>2, <1>5, RaiseKept
<1>6. CASE Resume(p)
  <2> DEFINE row == [operation[o] EXCEPT !.state = operation[o].back, !.back = "none"]
             pc == Following(operation[o].back)
  <2>1. operation[o].state = "recovery_required" /\ operation[o].back \in Undone
        /\ job[p].driver # "clean"
    BY <1>3, <1>4, <1>6, StatesAtIs DEF Resume, RowFits, Undoings
  <2>2. (Raise(p) /\ UNCHANGED operation) \/ Write(p, [job[p] EXCEPT !.pc = pc], row)
    BY <1>3, <1>6 DEF Resume
  <2>3. row.state = operation[o].back /\ row.from = a /\ row.routed = operation[o].routed
    BY <1>3 DEF Rows
  <2>4. pc \in {"recover", "swap", "retire"} /\ row.state \in StatesAt[pc]
    <3>1. /\ Following("launching") = "recover"
          /\ Following("route_swapping") = "swap"
          /\ Following("retiring") = "retire"
      BY DEF Following
    <3> QED  BY <2>1, <2>3, <3>1, StatesAtIs DEF Undone
  <2>5. Point(row) = Point(operation[o]) /\ row.state \in Open
        /\ row.state \notin {"recovery_required", "completed", "rolled_back"}
    BY <2>1, <2>3 DEF Point, Open, Before, Switched, Undone
  <2> HIDE DEF row, pc
  <2>6. RowFits(o, row, proc, name)
    BY <1>3, <2>3, <2>5 DEF RowFits
  <2> QED  BY <1>1, <1>2, <1>4, <1>5, <2>1, <2>2, <2>4, <2>5, <2>6, WriteKept
<1>7. CASE BeginEffect(p)
  <2> DEFINE s == job[p].state
             to == Intended[s]
             row == [operation[o] EXCEPT !.state = to]
             pc == IF to = "launching" THEN "launch" ELSE Following(to)
  <2>1. s \in {"prepared", "successor_verified", "activated"} /\ job[p].driver # "clean"
        /\ operation[o].state = s
    BY <1>4, <1>7, StatesAtIs DEF BeginEffect, Undoings
  <2>2. /\ s = "prepared" => to = "launching"
        /\ s = "successor_verified" => to = "route_swapping"
        /\ s = "activated" => to = "retiring"
    BY <2>1, IntendedIs
  <2>3. (Raise(p) /\ UNCHANGED operation) \/ Write(p, [job[p] EXCEPT !.pc = pc], row)
    BY <1>3, <1>7, <2>1, <2>2 DEF BeginEffect
  <2>4. row.from = a /\ row.state = to /\ row.routed = operation[o].routed
    BY <1>3 DEF Rows
  <2>5. pc \in {"launch", "swap", "retire"} /\ to \in StatesAt[pc]
    <3>1. Following("route_swapping") = "swap" /\ Following("retiring") = "retire"
      BY DEF Following
    <3>2. "launching" \in StatesAt["launch"] /\ "route_swapping" \in StatesAt["swap"]
          /\ "retiring" \in StatesAt["retire"]
      BY StatesAtIs
    <3> HIDE DEF to
    <3> QED  BY <2>1, <2>2, <3>1, <3>2
  <2> HIDE DEF to
  <2>6. /\ Point(row) = to /\ Point(operation[o]) = s /\ row.state \in Open
        /\ (to \in Before <=> s \in Before) /\ (to \in Switched <=> s \in Switched)
        /\ to = "retiring" <=> s = "activated"
        /\ to \in {"launching", "route_swapping", "retiring"}
    BY <2>1, <2>2, <2>4 DEF Point, Open, Before, Switched
  <2> HIDE DEF row, pc
  <2>7. RowFits(o, row, proc, name)
    BY <1>3, <2>1, <2>4, <2>6 DEF RowFits
  <2>8. Point(row) \in Switched => job[p].routed
    BY <1>4, <2>6
  <2> QED  BY <1>1, <1>2, <1>5, <2>1, <2>3, <2>4, <2>5, <2>6, <2>7, <2>8, WriteKept
<1>8. CASE Owe(p)
  <2> DEFINE row == [operation[o] EXCEPT !.back = operation[o].state, !.state = "recovery_required"]
  <2>1. operation[o].state \in Undone
    BY <1>4, <1>8, StatesAtIs DEF Owe, Undoings
  <2>2. (Raise(p) /\ UNCHANGED operation) \/ Write(p, [job[p] EXCEPT !.pc = "rest"], row)
    BY <1>3, <1>8 DEF Owe
  <2>3. row.state = "recovery_required" /\ row.back = operation[o].state /\ row.from = a
        /\ row.routed = operation[o].routed
    BY <1>3 DEF Rows
  <2>4. Point(row) = Point(operation[o]) /\ row.state \in Open
    BY <2>1, <2>3 DEF Point, Open, Undone
  <2> HIDE DEF row
  <2>5. RowFits(o, row, proc, name)
    BY <1>3, <2>1, <2>3, <2>4 DEF RowFits
  <2> QED  BY <1>1, <1>2, <1>4, <1>5, <2>2, <2>4, <2>5, WriteKept
<1> QED  BY <1>6, <1>7, <1>8

\* The only operator settles its operation, and nobody is at work any more.
LEMMA SettleKept ==
  ASSUME FollowInv, SoleInv, ~crowded, NEW p \in Operators, NEW o \in Operations, Lone(p, o),
         UNCHANGED <<proc, name>>, NEW row \in Rows,
         Write(p, [job[p] EXCEPT !.pc = "rest"], row), row.state \in Settled,
         RowFits(o, row, proc, name),
         LeftIn(proc) \/ AliveIn(proc, owner'),
         (\E x \in Operations : operation'[x].state = "rolled_back" /\ operation'[x].from = owner')
           /\ proc[owner'] = "running" => name[owner'] = "canonical"
  PROVE  SoleInv'
<1> DEFINE j == [job[p] EXCEPT !.pc = "rest"]
<1>1. j.pc = "rest" /\ j.o = o /\ operation \in [Operations -> Rows]
  BY DEF Lone, Jobs, FollowInv, PInv, DbInv, DatabaseOK
<1> HIDE DEF j
<1>2. operation' = [operation EXCEPT ![o] = row]
  BY <1>1 DEF Write, j
<1>3. operation'[o] = row /\ \A x \in Operations \ {o} : operation'[x] = operation[x]
  BY <1>1, <1>2
<1>4. After(p, Rest)
  <2>1. After(p, IF j.pc = "rest" THEN Rest ELSE [j EXCEPT !.fresh = TRUE, !.state = row.state])
    BY WriteLeaves DEF FollowInv, PInv, j
  <2> QED  BY <1>1, <2>1
<1>5. \A q \in Operators : job'[q].pc = "rest"
  BY <1>4, RestFits DEF After, Lone
<1>6. OneAtWork'
  BY <1>5 DEF OneAtWork
<1>7. \A q \in Operators : JobFits(job'[q], operation'[job'[q].o], proc', name')
  BY <1>5 DEF JobFits
<1>8. \A x \in Operations : RowFits(x, operation'[x], proc', name')
  BY <1>3 DEF SoleInv
<1>9. SeatFits'
  BY DEF SeatFits, From
<1> QED  BY <1>6, <1>7, <1>8, <1>9 DEF SoleInv

LEMMA CompleteKept ==
  ASSUME FollowInv, SoleInv, ~crowded, NEW p \in Operators, Complete(p)
  PROVE  SoleInv'
<1>1. job[p].pc = "complete" /\ UNCHANGED <<proc, name>> /\ owner' = owner
  BY DEF Complete, world
<1>2. PICK o \in Operations : Lone(p, o)
  BY <1>1, Alone
<1> DEFINE a == operation[o].from
           row == [operation[o] EXCEPT !.state = "completed"]
<1>3. /\ job[p].o = o /\ job[p] \in Jobs /\ JobFits(job[p], operation[o], proc, name)
      /\ operation[o] \in Rows /\ RowFits(o, operation[o], proc, name) /\ operation[o].state \in Open
      /\ operation \in [Operations -> Rows]
  BY <1>2, LoneRowFits DEF Lone, FollowInv, PInv, DbInv, DatabaseOK
<1>4. operation[o].state = "predecessor_retired"
  BY <1>1, <1>3, StatesAtIs DEF JobFits
<1>5. CASE Raise(p) /\ UNCHANGED operation
  BY <1>1, <1>2, <1>5, RaiseKept
<1>6. CASE Write(p, [job[p] EXCEPT !.pc = "rest"], row) /\ owner = o
  <2>1. row \in Rows /\ row.state = "completed" /\ row.from = a /\ row.routed = operation[o].routed
        /\ row.state \in Settled
    BY <1>3 DEF Rows, Settled
  <2>2. EndedIn(proc, a) /\ (LeftIn(proc) \/ AliveIn(proc, o))
    BY <1>3, <1>4 DEF RowFits, Point
  <2>3. operation' = [operation EXCEPT ![o] = row]
    <3>1. [job[p] EXCEPT !.pc = "rest"].o = o
      BY <1>3 DEF Jobs
    <3> HIDE DEF row
    <3> QED  BY <1>6, <3>1 DEF Write
  <2>4. \A x \in Operations : ~(operation'[x].state = "rolled_back" /\ operation'[x].from = owner')
    <3>1. \A x \in Operations : operation[x].from # o
      BY <1>3 DEF FollowInv, BroughtOnce, From
    <3>2. \A x \in Operations : operation'[x].from = operation[x].from
      BY <1>3, <2>1, <2>3
    <3> QED  BY <1>1, <1>6, <3>1, <3>2
  <2> HIDE DEF row
  <2>5. RowFits(o, row, proc, name)
    BY <2>1, <2>2 DEF RowFits, Point, Before, Switched
  <2> QED  BY <1>1, <1>2, <1>6, <2>1, <2>2, <2>4, <2>5, SettleKept
<1> QED  BY <1>3, <1>5, <1>6 DEF Complete

LEMMA CommitKept ==
  ASSUME FollowInv, SoleInv, ~crowded, NEW p \in Operators, Commit(p)
  PROVE  SoleInv'
<1>1. job[p].pc = "commit" /\ UNCHANGED <<proc, name>>
  BY DEF Commit, world
<1>2. PICK o \in Operations : Lone(p, o)
  BY <1>1, Alone
<1> DEFINE a == operation[o].from
           row == [operation[o] EXCEPT !.state = "rolled_back"]
<1>3. /\ job[p].o = o /\ job[p] \in Jobs /\ JobFits(job[p], operation[o], proc, name)
      /\ operation[o] \in Rows /\ From(job[p].o) = a
  BY <1>2 DEF Lone, From
<1>4. OutIn(proc, o) /\ (proc[a] = "left" \/ (AliveIn(proc, a) /\ name[a] = "canonical"))
  BY <1>1, <1>3 DEF JobFits
<1>5. CASE Raise(p) /\ UNCHANGED operation
  BY <1>1, <1>2, <1>5, RaiseKept
<1>6. CASE Write(p, [job[p] EXCEPT !.pc = "rest"], row) /\ owner' = a
  <2>1. row \in Rows /\ row.state = "rolled_back" /\ row.state \in Settled
    BY <1>3 DEF Rows, Settled
  <2> HIDE DEF row
  <2>2. RowFits(o, row, proc, name)
    BY <1>4, <2>1 DEF RowFits, Point, Before, Switched
  <2>3. LeftIn(proc) \/ AliveIn(proc, owner')
    <3>1. a \in Agents
      BY <1>2 DEF Lone
    <3> QED  BY <1>4, <1>6, <3>1 DEF LeftIn
  <2>4. proc[owner'] = "running" => name[owner'] = "canonical"
    BY <1>4, <1>6
  <2> QED  BY <1>1, <1>2, <1>6, <2>1, <2>2, <2>3, <2>4, SettleKept
<1> QED  BY <1>3, <1>5, <1>6 DEF Commit

-----------------------------------------------------------------------------
(* Where somebody begins, and what the environment does.                   *)

\* Somebody begins or goes on while nobody is at work.
LEMMA EntryKept ==
  ASSUME FollowInv, SoleInv, ~crowded, NEW p \in Operators, NEW o \in Operations,
         \A q \in Operators : job[q].pc = "rest",
         NEW k, After(p, k), k.pc # "rest" => k.o = o,
         UNCHANGED <<proc, name>>, \A x \in Operations \ {o} : operation'[x] = operation[x],
         operation'[o].state \in Open,
         JobFits(k, operation'[o], proc, name), RowFits(o, operation'[o], proc, name)
  PROVE  SoleInv'
<1>1. job'[p] = k /\ \A q \in Operators \ {p} : job'[q].pc = "rest"
  BY DEF After
<1>2. OneAtWork'
  BY <1>1 DEF OneAtWork
<1>3. \A q \in Operators : JobFits(job'[q], operation'[job'[q].o], proc', name')
  <2> SUFFICES ASSUME NEW q \in Operators
               PROVE  JobFits(job'[q], operation'[job'[q].o], proc', name')
    OBVIOUS
  <2>1. CASE job'[q].pc = "rest"
    BY <2>1 DEF JobFits
  <2>2. CASE job'[q].pc # "rest"
    <3>1. q = p /\ job'[q] = k /\ k.o = o
      BY <1>1, <2>2
    <3> QED  BY <3>1
  <2> QED  BY <2>1, <2>2
<1>4. \A x \in Operations : RowFits(x, operation'[x], proc', name')
  BY DEF SoleInv
<1>5. SeatFits'
  BY DEF SeatFits, Held
<1> QED  BY <1>2, <1>3, <1>4, <1>5 DEF SoleInv

LEMMA Joined ==
  ASSUME NEW p \in Operators, Join(p), ~crowded', job[p].pc = "rest", PInv
  PROVE  ~crowded /\ \A q \in Operators : job[q].pc = "rest"
BY DEF Join, PInv, WorldOK

LEMMA RetryKept ==
  ASSUME FollowInv, SoleInv, NEW p \in Operators, NEW o \in Operations, Retry(p, o)
  PROVE  SoleInv'
<1> SUFFICES ASSUME ~crowded' PROVE SoleInv'
  BY DEF SoleInv
<1> DEFINE j == [Rest EXCEPT !.o = o, !.receipt = operation[o].receipt,
                             !.routed = operation[o].routed, !.retired = operation[o].retired]
           s == operation[o].state
           k == [j EXCEPT !.state = s, !.fresh = TRUE, !.pc = Following(s)]
<1>1. ~crowded /\ (\A q \in Operators : job[q].pc = "rest") /\ UNCHANGED <<operation, proc, name>>
      /\ operation[o] \in Rows /\ operation \in [Operations -> Rows] /\ s \in Open
      /\ Adopt(p, j) /\ JobsOK
  BY Joined DEF Retry, database, world, FollowInv, PInv, DbInv, DatabaseOK
<1>2. j \in Jobs /\ j.o = o /\ j.routed = operation[o].routed /\ j.driver = "none"
  BY <1>1 DEF Rest, Jobs, Rows, Places
<1> HIDE DEF j
<1>3. After(p, IF Following(s) = "rest" THEN Rest ELSE k)
  BY <1>1, <1>2, AdoptLeaves
<1>4. k.o = o /\ k.state = s /\ k.fresh /\ k.pc = Following(s) /\ k.routed = operation[o].routed
      /\ k.driver = "none"
  BY <1>2 DEF Jobs
<1> HIDE DEF k
<1>5. RowFits(o, operation[o], proc, name)
  BY <1>1, LoneRowFits
<1>6. /\ s \in {"prepared", "successor_verified", "activated"} => Following(s) = "begin"
      /\ s = "launching" => Following(s) = "recover"
      /\ s = "route_swapping" => Following(s) = "swap"
      /\ s = "retiring" => Following(s) = "retire"
      /\ s = "predecessor_retired" => Following(s) = "complete"
      /\ s = "recovery_required" => Following(s) = "resume"
  BY DEF Following
<1>7. Following(s) \in {"begin", "recover", "swap", "retire", "complete", "resume"} /\ s \in StatesAt[Following(s)]
  BY <1>1, <1>6, StatesAtIs DEF Open, Before, Switched
<1>8. JobFits(k, operation[o], proc, name)
  BY <1>4, <1>5, <1>7 DEF JobFits, RowFits
<1> QED  BY <1>1, <1>3, <1>4, <1>5, <1>7, <1>8, EntryKept

LEMMA PrepareKept ==
  ASSUME FollowInv, SoleInv, NEW p \in Operators, NEW o \in Operations, Prepare(p, o)
  PROVE  SoleInv'
<1> SUFFICES ASSUME ~crowded' PROVE SoleInv'
  BY DEF SoleInv
<1> DEFINE row == [NoRow EXCEPT !.state = "prepared", !.from = owner]
           j == [Rest EXCEPT !.o = o, !.pc = "begin"]
<1>1. ~crowded /\ (\A q \in Operators : job[q].pc = "rest") /\ UNCHANGED <<proc, name>>
      /\ ~Held /\ JobsOK /\ operation \in [Operations -> Rows]
  BY Joined DEF Prepare, FollowInv, PInv, DbInv, DatabaseOK
<1>2. j \in Jobs /\ j.pc = "begin" /\ j.o = o /\ j.driver = "none"
  BY DEF Rest, Jobs, Places, Receipts
<1>3. row.from = owner /\ row.state = "prepared"
  BY DEF NoRow
<1>4. Write(p, j, row)
  BY DEF Prepare
<1> HIDE DEF j, row
<1>5. operation'[o] = row /\ \A x \in Operations \ {o} : operation'[x] = operation[x]
  BY <1>1, <1>2, <1>4 DEF Write
<1> DEFINE k == [j EXCEPT !.fresh = TRUE, !.state = row.state]
<1>6. After(p, k)
  BY <1>1, <1>2, <1>4, WriteLeaves
<1>7. k.pc = "begin" /\ k.o = o /\ k.fresh /\ k.state = "prepared" /\ k.driver = "none"
  BY <1>2, <1>3 DEF Jobs
<1> HIDE DEF k
<1>8. Point(row) = "prepared" /\ row.state \in Open /\ "prepared" \in StatesAt["begin"]
  BY <1>3, StatesAtIs DEF Point, Open, Before
<1>9. JobFits(k, row, proc, name)
  BY <1>3, <1>7, <1>8 DEF JobFits, Switched
<1>10. RowFits(o, row, proc, name)
  BY <1>1, <1>3, <1>8 DEF SoleInv, SeatFits, RowFits, Before, Switched
<1> QED  BY <1>1, <1>5, <1>6, <1>7, <1>8, <1>9, <1>10, EntryKept

\* An agent that was told to leave leaves; it may also move and be found again.
LEMMA WorldKept ==
  ASSUME FollowInv, SoleInv, UNCHANGED <<owner, operation, job, crowded>>,
         \/ UNCHANGED <<proc, name>>
         \/ \E a \in Agents : Leave(a)
  PROVE  SoleInv'
<1> SUFFICES ASSUME ~crowded PROVE SoleInv'
  BY DEF SoleInv
<1>1. OneAtWork' /\ (Held <=> Held')
  BY DEF SoleInv, OneAtWork, Held
<1>2. CASE UNCHANGED <<proc, name>>
  <2>1. \A p \in Operators : JobFits(job'[p], operation'[job'[p].o], proc', name')
    BY <1>2 DEF SoleInv
  <2>2. \A o \in Operations : RowFits(o, operation'[o], proc', name')
    BY <1>2 DEF SoleInv
  <2>3. SeatFits'
    BY <1>2 DEF SoleInv, SeatFits, Held, From
  <2> QED  BY <1>1, <2>1, <2>2, <2>3 DEF SoleInv
<1>3. ASSUME NEW a \in Agents, Leave(a)
      PROVE  SoleInv'
  <2>1. /\ proc \in [Agents -> {"none", "running", "leaving", "left", "gone"}]
        /\ name \in [Agents -> {"none", "canonical", "staging", "aside"}]
    BY DEF FollowInv, PInv, WorldOK, NativeOK
  <2>2. proc' = [proc EXCEPT ![a] = "left"] /\ name' = [name EXCEPT ![a] = "none"] /\ proc[a] = "leaving"
    BY <1>3 DEF Leave
  <2>3. LeftIn(proc')
    BY <2>1, <2>2 DEF LeftIn
  <2>4. \A x \in Agents : /\ EndedIn(proc, x) => EndedIn(proc', x)
                          /\ OutIn(proc, x) => OutIn(proc', x)
                          /\ proc[x] = "none" => proc'[x] = "none"
                          /\ proc'[x] = "left" \/ (proc'[x] = proc[x] /\ name'[x] = name[x])
    BY <2>1, <2>2 DEF EndedIn, OutIn
  <2>5. \A p \in Operators : JobFits(job'[p], operation'[job'[p].o], proc', name')
    <3> SUFFICES ASSUME NEW p \in Operators, job[p].pc # "rest"
                 PROVE  JobFits(job[p], operation[job[p].o], proc', name')
      BY DEF JobFits
    <3>1. PICK o \in Operations : Lone(p, o)
      BY Alone
    <3>2. JobFits(job[p], operation[o], proc, name) /\ job[p].o = o /\ o \in Agents
          /\ operation[o].from \in Agents
      BY <3>1 DEF Lone
    <3>3. JobFits(job[p], operation[o], proc', name')
      BY <2>3, <2>4, <3>2 DEF JobFits, AliveIn
    <3> QED  BY <3>2, <3>3
  <2>6. \A o \in Operations : RowFits(o, operation'[o], proc', name')
    <3> SUFFICES ASSUME NEW o \in Operations
                 PROVE  RowFits(o, operation[o], proc', name')
      OBVIOUS
    <3>1. RowFits(o, operation[o], proc, name) /\ o \in Agents /\ operation[o].from \in Agents
      BY DEF SoleInv, FollowInv, PInv, DbInv, DatabaseOK, Rows, Agents
    <3> QED  BY <2>3, <2>4, <3>1 DEF RowFits
  <2>7. SeatFits'
    <3>1. owner \in Agents
      BY DEF FollowInv, PInv, DbInv, DatabaseOK
    <3>2. proc'[owner] = "running" => proc[owner] = "running" /\ name'[owner] = name[owner]
      BY <2>4, <3>1
    <3>3. \A x \in Operations : From(x)' = From(x)
      BY DEF From
    <3> QED  BY <1>1, <2>3, <3>2, <3>3 DEF SeatFits, SoleInv
  <2> QED  BY <1>1, <2>5, <2>6, <2>7 DEF SoleInv
<1> QED  BY <1>2, <1>3

LEMMA StepSole ==
  ASSUME FollowInv, SoleInv, [Next]_vars
  PROVE  SoleInv'
<1>1. ASSUME NEW p \in Operators, Step(p) \/ Die(p), UNCHANGED crowded
      PROVE  SoleInv'
  <2>1. CASE crowded
    BY <1>1, <2>1 DEF SoleInv
  <2>2. CASE ~crowded
    BY <1>1, <2>2, ProbeKept, NamesReadKept, RenameKept, LaunchKept, RetireKept, UnlaunchKept,
       RecordsKept, PhasesKept, CompleteKept, CommitKept DEF Step
  <2> QED  BY <2>1, <2>2
<1>2. ASSUME NEW p \in Operators, NEW o \in Operations, Prepare(p, o) \/ Retry(p, o)
      PROVE  SoleInv'
  BY <1>2, PrepareKept, RetryKept
<1>3. ASSUME NEW a \in Agents, Environment(a), UNCHANGED crowded
      PROVE  SoleInv'
  <2>1. UNCHANGED <<owner, operation, job>> /\ (UNCHANGED <<proc, name>> \/ Leave(a))
    BY <1>3 DEF Environment, Leave, Move, Reconcile, database
  <2> QED  BY <1>3, <2>1, WorldKept
<1>4. CASE UNCHANGED vars
  <2>1. UNCHANGED <<owner, operation, job, crowded, proc, name>>
    BY <1>4 DEF vars, database, world
  <2> QED  BY <2>1, WorldKept
<1> QED  BY <1>1, <1>2, <1>3, <1>4 DEF Next

LEMMA InitSole == Init => SoleInv
<1> SUFFICES ASSUME Init PROVE SoleInv
  OBVIOUS
<1>1. /\ \A o \in Operations : operation[o] = NoRow
      /\ \A p \in Operators : job[p] = Rest
      /\ owner = First /\ First \in Agents /\ proc[First] = "running" /\ name[First] = "canonical"
  BY DEF Init, Agents
<1>2. NoRow.state = "none" /\ Rest.pc = "rest"
  BY DEF NoRow, Rest
<1>3. \A o \in Operations : RowFits(o, operation[o], proc, name)
  BY <1>1, <1>2 DEF RowFits, Point, Before, Switched
<1>4. OneAtWork /\ \A p \in Operators : JobFits(job[p], operation[job[p].o], proc, name)
  BY <1>1, <1>2 DEF OneAtWork, JobFits
<1>5. SeatFits
  BY <1>1 DEF SeatFits, AliveIn
<1> QED  BY <1>3, <1>4, <1>5 DEF SoleInv

\* Who holds the seat or held it: the first agent, and the newcomer of a
\* replacement that was completed.
Passed(a) == a = First \/ (a \in Operations /\ Reached(a) = "completed")

\* A seat is given up only to the newcomer of a replacement that goes on or ended.
SeatPassed ==
  \A a \in Agents : Passed(a) =>
    a = owner \/ \E o \in Operations : From(o) = a /\ Reached(o) \in Switched \cup {"completed"}

\* The same as the coordinator sees it.
GivenOn(s, st, g) ==
  \A a \in Agents : a = First \/ (a \in Operations /\ st[a] = "finished") =>
    a = s \/ \E o \in Operations : g[o] = a /\ st[o] \in {"taken", "alone", "finished"}

LEMMA GivenOnIs == SeatPassed <=> GivenOn(owner, Stages, Givers)
<1>1. \A o \in Operations :
        /\ Stages[o] = "finished" <=> Reached(o) = "completed"
        /\ Stages[o] \in {"taken", "alone", "finished"} <=> Reached(o) \in Switched \cup {"completed"}
        /\ Givers[o] = From(o)
  BY DEF Stages, Givers, StageOf, Before, Switched
<1> QED  BY <1>1 DEF SeatPassed, Passed, GivenOn

LEMMA SeatIsPassedOn ==
  ASSUME SeatPassed, HStep
  PROVE  SeatPassed'
<1>0. GivenOn(owner, Stages, Givers) /\ First \notin Operations
  BY GivenOnIs, ReplacementAssumption
<1>1. Stages \in [Operations -> {StageOf(o) : o \in Operations}] /\ DOMAIN Stages = Operations /\ DOMAIN Givers = Operations
  BY DEF Stages, Givers
<1>2. GivenOn(owner', Stages', Givers')
  <2>1. CASE UNCHANGED H!handoverVars
    <3>1. owner' = owner /\ Stages' = Stages /\ Givers' = Givers
      BY <2>1 DEF H!handoverVars, Stages, Givers
    <3> QED  BY <1>0, <3>1
  <2>2. ASSUME NEW n \in Operations,
               H!Offer(n) \/ H!Take(n) \/ H!Outlast(n) \/ H!Finish(n) \/ H!GiveBack(n)
        PROVE  GivenOn(owner', Stages', Givers')
    <3>1. CASE H!Offer(n)
      <4>1. /\ Stages[n] = "new" /\ owner' = owner
            /\ Stages' = [Stages EXCEPT ![n] = "offered"] /\ Givers' = [Givers EXCEPT ![n] = owner]
        BY <3>1 DEF H!Offer, Stages, Givers
      <4> QED  BY <1>0, <1>1, <4>1 DEF GivenOn
    <3>2. CASE H!Take(n)
      <4>1. /\ Stages[n] = "offered" /\ owner = Givers[n] /\ owner' = n
            /\ Stages' = [Stages EXCEPT ![n] = "taken"] /\ Givers' = Givers
        BY <3>2 DEF H!Take, Stages, Givers
      <4> QED  BY <1>0, <1>1, <4>1 DEF GivenOn
    <3>3. CASE H!Outlast(n)
      <4>1. /\ Stages[n] = "taken" /\ owner' = owner
            /\ Stages' = [Stages EXCEPT ![n] = "alone"] /\ Givers' = Givers
        BY <3>3 DEF H!Outlast, Stages, Givers
      <4> QED  BY <1>0, <1>1, <4>1 DEF GivenOn
    <3>4. CASE H!Finish(n)
      <4>1. /\ Stages[n] = "alone" /\ owner = n /\ owner' = owner
            /\ Stages' = [Stages EXCEPT ![n] = "finished"] /\ Givers' = Givers
        BY <3>4 DEF H!Finish, Stages, Givers
      <4> QED  BY <1>0, <1>1, <4>1 DEF GivenOn
    <3>5. CASE H!GiveBack(n)
      <4>1. /\ Stages[n] \in {"offered", "taken"} /\ owner' = Givers[n]
            /\ owner = IF Stages[n] = "taken" THEN n ELSE Givers[n]
            /\ Stages' = [Stages EXCEPT ![n] = "refused"] /\ Givers' = Givers
        BY <3>5 DEF H!GiveBack, Stages, Givers
      <4> QED  BY <1>0, <1>1, <4>1 DEF GivenOn
    <3> QED  BY <2>2, <3>1, <3>2, <3>3, <3>4, <3>5
  <2> QED  BY <2>1, <2>2 DEF HStep, H!HandoverNext
<1>3. GivenOn(owner, Stages, Givers)' <=> GivenOn(owner', Stages', Givers')
  BY DEF GivenOn
<1>4. SeatPassed' <=> GivenOn(owner, Stages, Givers)'
  <2>1. \A o \in Operations :
          /\ Stages'[o] = "finished" <=> Reached(o)' = "completed"
          /\ Stages'[o] \in {"taken", "alone", "finished"} <=> Reached(o)' \in Switched \cup {"completed"}
          /\ Givers'[o] = From(o)'
    BY DEF Stages, Givers, StageOf, Before, Switched
  <2> QED  BY <2>1 DEF SeatPassed, Passed, GivenOn
<1> QED  BY <1>2, <1>3, <1>4

LEMMA SoleIsOne ==
  ASSUME FollowInv, SoleInv, SeatPassed
  PROVE  OneAgentWorks
<1>1. LaunchedOnce
  BY DEF FollowInv, LaunchesFollow, LaunchedOnce
<1>2. OwnerWorks
  <2> SUFFICES ASSUME ~crowded, ~LeftIn(proc)
               PROVE  /\ \E a \in Agents : proc[a] \in {"running", "leaving"}
                      /\ ~Held => proc[owner] \in {"running", "leaving"}
    BY DEF OwnerWorks, LeftIn
  <2>1. owner \in Agents /\ operation \in [Operations -> Rows]
    BY DEF FollowInv, PInv, DbInv, DatabaseOK
  <2>2. CASE ~Held
    BY <2>1, <2>2 DEF SoleInv, SeatFits, AliveIn
  <2>3. CASE Held
    <3>1. PICK o \in Operations : operation[o].state \in Open
      BY <2>3 DEF Held
    <3>2. RowFits(o, operation[o], proc, name) /\ o \in Agents /\ operation[o].from \in Agents
      BY <2>1, LoneRowFits DEF Rows, Agents
    <3>3. Point(operation[o]) \in Before \cup Switched
      BY <2>1, <3>1 DEF Point, Open, Rows, FollowInv, PInv, DbInv, BackFits
    <3>4. AliveIn(proc, o) \/ AliveIn(proc, operation[o].from)
      BY <3>2, <3>3 DEF RowFits, Switched
    <3> QED  BY <2>3, <3>2, <3>4 DEF AliveIn
  <2> QED  BY <2>2, <2>3
<1>3. SettledIsExact
  <2> SUFFICES ASSUME ~crowded, NEW o \in Operations
               PROVE  /\ operation[o].state = "completed" => proc[From(o)] \in {"gone", "left"}
                      /\ operation[o].state = "rolled_back" =>
                           /\ proc[o] \in {"none", "gone", "left"}
                           /\ ~Held /\ owner = From(o) /\ proc[owner] = "running" => name[owner] = "canonical"
    BY DEF SettledIsExact
  <2>1. RowFits(o, operation[o], proc, name) /\ SeatFits
    BY DEF SoleInv
  <2> QED  BY <2>1 DEF RowFits, SeatFits, EndedIn, OutIn, From
<1>4. NoneToSpare
  <2> SUFFICES ASSUME ~crowded, ~Held, NEW a \in Agents, a # owner
               PROVE  ~AliveIn(proc, a)
    BY DEF NoneToSpare, AliveIn
  <2>0. operation \in [Operations -> Rows] /\ DbInv /\ \A o \in Operations : RowFits(o, operation[o], proc, name)
    BY DEF SoleInv, FollowInv, PInv, DbInv, DatabaseOK
  <2>1. ASSUME NEW o \in Operations
        PROVE  /\ Reached(o) = operation[o].state
               /\ operation[o].state \in {"none", "completed", "rolled_back"}
    BY <2>0 DEF Held, Reached, Open, Settled, Rows
  <2>2. CASE Passed(a)
    <3>1. PICK o \in Operations : From(o) = a /\ operation[o].state = "completed"
      BY <2>1, <2>2 DEF SeatPassed, Switched
    <3> QED  BY <2>0, <3>1 DEF RowFits, EndedIn, AliveIn, From
  <2>3. CASE ~Passed(a)
    <3>1. a \in Operations /\ operation[a].state \in {"none", "rolled_back"}
      BY <2>1, <2>3 DEF Passed, Agents
    <3>2. CASE operation[a].state = "none"
      BY <2>1, <3>1, <3>2 DEF FollowInv, LaunchesFollow, AliveIn
    <3>3. CASE operation[a].state = "rolled_back"
      BY <2>0, <3>1, <3>3 DEF RowFits, OutIn, AliveIn
    <3> QED  BY <3>1, <3>2, <3>3
  <2> QED  BY <2>2, <2>3
<1> QED  BY <1>1, <1>2, <1>3, <1>4 DEF OneAgentWorks

\* However often and by however many operators replacements are requested and
\* repeated, each successor is launched at most once; and while operators do not
\* meet, somebody works on the task, unless an agent obeyed an exit prompt whose
\* call had failed, and between replacements nobody but the owner does.
THEOREM OneAgentAlwaysWorks == Spec => []OneAgentWorks
<1>1. Init => FollowInv /\ SoleInv /\ SeatPassed
  <2>1. Init => SeatPassed
    BY DEF Init, NoRow, SeatPassed, Passed, Reached
  <2> QED  BY <2>1, InitPInv, InitFollows, InitSole DEF FollowInv
<1>2. FollowInv /\ SoleInv /\ SeatPassed /\ [Next]_vars => FollowInv' /\ SoleInv' /\ SeatPassed'
  <2> SUFFICES ASSUME FollowInv, SoleInv, SeatPassed, [Next]_vars
               PROVE  FollowInv' /\ SoleInv' /\ SeatPassed'
    OBVIOUS
  <2>1. PInv' /\ HStep
    BY NextStep, StutterStep DEF FollowInv
  <2> QED  BY <2>1, StepFollows, StepSole, SeatIsPassedOn DEF FollowInv
<1>3. FollowInv /\ SoleInv /\ SeatPassed => OneAgentWorks
  BY SoleIsOne
<1> QED  BY <1>1, <1>2, <1>3, PTL DEF Spec
=============================================================================
