---------------------------- MODULE Replacement ----------------------------
(***************************************************************************)
(* The replacement of the Champion that works on one assignment.  An       *)
(* operator prepares an operation, launches the successor under a staging  *)
(* name, proves it, moves the predecessor's canonical name to it, switches *)
(* the ownership rows, retires the predecessor and releases the handoff.   *)
(* Every external effect lies between two transactions.  A failure is      *)
(* compensated, and what cannot be proved becomes a recovery obligation.   *)
(* An operator may die anywhere, and the same request be given again, also *)
(* by a second operator: nothing but the row's version stands between two. *)
(*                                                                         *)
(* An operation is named by the successor it brings: successor_agent_id is *)
(* unique among the operations.                                            *)
(***************************************************************************)
EXTENDS Naturals, FiniteSets

CONSTANTS
  First,         \* the Champion that holds the assignment
  Operations,    \* operations, and the successors they bring
  Operators,     \* processes of `league agent replace`
  NoOperation,
  MaxTroubles    \* bound on deaths, failures of an adapter and restarts

ASSUME ReplacementAssumption ==
  /\ First \notin Operations
  /\ NoOperation \notin Operations
  /\ MaxTroubles \in Nat

Agents == Operations \cup {First}

VARIABLES
  owner,         \* whom assignment, task, callsign, lease and Squad rows name
  roster,        \* per agent: its agent and runtime rows
  operation,     \* per operation: its runtime_replacements row
  exact,         \* operations whose frozen versions are those of the rows
  owed,          \* operations whose recovery obligation is open
  handed,        \* operations whose handoff event and outbox row exist
  proc,          \* per agent: its process
  name,          \* per agent: its routing name in the multiplexer
  adrift,        \* agents that left the endpoint their operation knows
  unrecorded,    \* agents at an endpoint their agent row does not name
  job,           \* per operator: where it is, and what it holds
  launches,      \* history: launches performed for the operation
  crowded,       \* history: two operators were at work at once
  troubles

database == <<owner, roster, operation, exact, owed, handed>>
world == <<proc, name, adrift, unrecorded, launches>>
vars == <<database, world, job, crowded, troubles>>

Before == {"prepared", "launching", "successor_verified", "route_swapping"}
Switched == {"activated", "retiring", "predecessor_retired"}
Settled == {"completed", "rolled_back"}
Open == Before \cup Switched \cup {"recovery_required"}

NoRow == [state |-> "none", back |-> "none", from |-> First, receipt |-> "none",
          routed |-> FALSE, retired |-> FALSE]

Rest == [pc |-> "rest", o |-> NoOperation, state |-> "none", receipt |-> "none",
         routed |-> FALSE, retired |-> FALSE, driver |-> "none", todo |-> {},
         fresh |-> FALSE]

Receipts == {"none", "launched", "recovered"}

Places == {"rest", "resume", "begin", "launch", "recover", "verify", "record", "swap",
           "aside", "promote", "readback", "activate", "retire", "retired", "complete",
           "unswap", "demote", "restore", "restored", "unlaunch", "assure", "commit", "owe"}

Rows == [state : Open \cup Settled \cup {"none"}, back : Before \cup Switched \cup {"none"},
         from : Agents, receipt : Receipts, routed : BOOLEAN, retired : BOOLEAN]

Jobs == [pc : Places, o : Operations \cup {NoOperation},
         state : Open \cup Settled \cup {"none"}, receipt : Receipts, routed : BOOLEAN,
         retired : BOOLEAN, driver : {"none", "clean", "made"}, todo : SUBSET Agents,
         fresh : BOOLEAN]

TypeOK ==
  /\ owner \in Agents
  /\ roster \in [Agents -> {"absent", "live", "retired"}]
  /\ operation \in [Operations -> Rows]
  /\ exact \subseteq Operations /\ owed \subseteq Operations /\ handed \subseteq Operations
  /\ proc \in [Agents -> {"none", "running", "leaving", "left", "gone"}]
  /\ name \in [Agents -> {"none", "canonical", "staging", "aside"}]
  /\ adrift \subseteq Agents /\ unrecorded \subseteq Agents
  /\ job \in [Operators -> Jobs]
  /\ launches \in [Operations -> Nat]
  /\ crowded \in BOOLEAN
  /\ troubles \in 0..MaxTroubles

Init ==
  /\ owner = First
  /\ roster = [a \in Agents |-> IF a = First THEN "live" ELSE "absent"]
  /\ operation = [o \in Operations |-> NoRow]
  /\ exact = {} /\ owed = {} /\ handed = {}
  /\ proc = [a \in Agents |-> IF a = First THEN "running" ELSE "none"]
  /\ name = [a \in Agents |-> IF a = First THEN "canonical" ELSE "none"]
  /\ adrift = {} /\ unrecorded = {}
  /\ job = [p \in Operators |-> Rest]
  /\ launches = [o \in Operations |-> 0]
  /\ crowded = FALSE
  /\ troubles = 0

-----------------------------------------------------------------------------
(* Operators of one step.                                                  *)

From(o) == operation[o].from

\* The partial unique index: a row that no state closes holds the assignment.
Held == \E o \in Operations : operation[o].state \in Open

\* Mutant of Unused: a replacement that was rolled back is prepared again.
UnusedOrRefused(o) == operation[o].state \in {"none", "rolled_back"}

\* successor_agent_id and operation_id are unique.
Unused(o) == operation[o].state = "none"

\* Mutant of Discharged: the obligation outlives its operation.
NotDischarged(o) == owed

\* Settling an operation satisfies the obligation of its recovery.
Discharged(o) == owed \ {o}

\* The native process is where the operation knows it.
At(a) == proc[a] \in {"running", "leaving"} /\ a \notin adrift

\* Mutant of Verified: the answer of the multiplexer is not looked at.
Unverified(a, n) == TRUE

\* verify_replacement: a runs where it is known, under the name n.
Verified(a, n) == At(a) /\ name[a] = n

Trouble == troubles < MaxTroubles /\ troubles' = troubles + 1

\* Mutants of Following: a retry launches again what may have been launched; it
\* does not know how to go on once the names may have moved.
FollowingLaunch(state) ==
  CASE state \in {"prepared", "successor_verified", "activated"} -> "begin"
    [] state = "launching" -> "launch"
    [] state = "route_swapping" -> "swap"
    [] state = "retiring" -> "retire"
    [] state = "predecessor_retired" -> "complete"
    [] state = "recovery_required" -> "resume"
    [] OTHER -> "rest"

FollowingUntilRouted(state) ==
  CASE state \in {"prepared", "successor_verified", "activated"} -> "begin"
    [] state = "launching" -> "recover"
    [] state = "retiring" -> "retire"
    [] state = "predecessor_retired" -> "complete"
    [] state = "recovery_required" -> "resume"
    [] OTHER -> "rest"

\* Where `replace` goes on from a state it has read or has just written.
Following(state) ==
  CASE state \in {"prepared", "successor_verified", "activated"} -> "begin"
    [] state = "launching" -> "recover"
    [] state = "route_swapping" -> "swap"
    [] state = "retiring" -> "retire"
    [] state = "predecessor_retired" -> "complete"
    [] state = "recovery_required" -> "resume"
    [] OTHER -> "rest"

Put(p, j) == job' = [job EXCEPT ![p] = IF j.pc = "rest" THEN Rest ELSE j]

Goto(p, pc) == Put(p, [job[p] EXCEPT !.pc = pc])

\* An exception leaves `replace`.
Raise(p) == Goto(p, "rest")

\* p goes on from the state of the row as it has just read it.
Adopt(p, j) ==
  Put(p, [j EXCEPT !.state = operation[j.o].state, !.fresh = TRUE,
                   !.pc = Following(operation[j.o].state)])

\* p writes the row of its operation at a version that is then only its own.
Write(p, j, row) ==
  /\ operation' = [operation EXCEPT ![j.o] = row]
  /\ job' = [q \in Operators |->
               IF q # p THEN [job[q] EXCEPT !.fresh = @ /\ job[q].o # j.o]
               ELSE IF j.pc = "rest" THEN Rest ELSE [j EXCEPT !.fresh = TRUE, !.state = row.state]]

\* Mutant of Undoing: a missing receipt is taken for a missing successor.
UndoingUnseen(j) == IF j.receipt = "none" /\ j.driver = "none" THEN "assure"
                    ELSE IF j.routed THEN "unswap" ELSE "unlaunch"

\* Where _rollback starts: with neither a receipt nor a driver nothing is known
\* of the successor.
Undoing(j) == IF j.receipt = "none" /\ j.driver = "none" THEN "owe"
              ELSE IF j.routed THEN "unswap" ELSE "unlaunch"

Undo(p, j) == Put(p, [j EXCEPT !.pc = Undoing(j), !.todo = {}])

-----------------------------------------------------------------------------
(* Preparing, resuming, and the intent before an effect.                   *)

Join(p) == crowded' = (crowded \/ \E q \in Operators \ {p} : job[q].pc # "rest")

\* prepare_runtime_replacement: the first call freezes the exact owner.
Prepare(p, o) ==
  /\ job[p].pc = "rest" /\ Unused(o) /\ ~Held
  /\ roster[owner] = "live"
  /\ Write(p, [Rest EXCEPT !.o = o, !.pc = "begin"],
           [NoRow EXCEPT !.state = "prepared", !.from = owner])
  /\ Join(p)
  /\ exact' = exact \cup {o}
  /\ adrift' = (adrift \ {owner}) \cup (unrecorded \cap {owner})
  /\ UNCHANGED <<owner, roster, owed, handed, proc, name, unrecorded, launches, troubles>>

\* The same request again: `replace` goes on from the stored row.
Retry(p, o) ==
  /\ job[p].pc = "rest" /\ operation[o].state \in Open
  /\ Adopt(p, [Rest EXCEPT !.o = o, !.receipt = operation[o].receipt,
                           !.routed = operation[o].routed, !.retired = operation[o].retired])
  /\ Join(p)
  /\ UNCHANGED <<database, world, troubles>>

\* resume_runtime_replacement_recovery.
Resume(p) ==
  LET o == job[p].o IN
  /\ job[p].pc = "resume"
  /\ IF operation[o].state = "recovery_required" /\ job[p].fresh
     THEN Write(p, [job[p] EXCEPT !.pc = Following(operation[o].back)],
                [operation[o] EXCEPT !.state = operation[o].back, !.back = "none"])
     ELSE Raise(p) /\ UNCHANGED operation
  /\ UNCHANGED <<owner, roster, exact, owed, handed, world, troubles>>

Intended == [prepared |-> "launching", successor_verified |-> "route_swapping",
             activated |-> "retiring"]

\* begin_runtime_replacement_effect: only the call that wrote `launching`
\* launches; the others look for what was launched.
BeginEffect(p) ==
  LET o == job[p].o
      to == Intended[job[p].state] IN
  /\ job[p].pc = "begin"
  /\ \/ operation[o].state = to /\ Adopt(p, job[p]) /\ UNCHANGED operation
     \/ /\ operation[o].state = job[p].state /\ job[p].fresh
        /\ Write(p, [job[p] EXCEPT !.pc = IF to = "launching" THEN "launch" ELSE Following(to)],
                 [operation[o] EXCEPT !.state = to])
     \/ /\ operation[o].state # to
        /\ operation[o].state # job[p].state \/ ~job[p].fresh
        /\ Raise(p) /\ UNCHANGED operation
  /\ UNCHANGED <<owner, roster, exact, owed, handed, world, troubles>>

-----------------------------------------------------------------------------
(* The successor.                                                          *)

\* The successor runs under its staging name, and its receipt is returned.
Launch(p) ==
  LET o == job[p].o IN
  /\ job[p].pc = "launch"
  /\ proc' = [proc EXCEPT ![o] = "running"] /\ name' = [name EXCEPT ![o] = "staging"]
  /\ launches' = [launches EXCEPT ![o] = @ + 1]
  /\ Put(p, [job[p] EXCEPT !.pc = "verify", !.receipt = "launched", !.driver = "made"])
  /\ UNCHANGED <<database, adrift, unrecorded, troubles>>

\* The launch fails before its driver exists, before the driver creates an
\* endpoint, or after it, named or not.
LaunchFails(p) ==
  LET o == job[p].o IN
  /\ job[p].pc = "launch" /\ Trouble
  /\ \E driver \in {"none", "clean", "made"}, n \in {"none", "staging"} :
       /\ IF driver = "made"
          THEN /\ proc' = [proc EXCEPT ![o] = "running"] /\ name' = [name EXCEPT ![o] = n]
               /\ launches' = [launches EXCEPT ![o] = @ + 1]
          ELSE UNCHANGED <<proc, name, launches>>
       /\ Undo(p, [job[p] EXCEPT !.driver = driver])
  /\ UNCHANGED <<database, adrift, unrecorded>>

\* replacement_recover: whatever answers to the staging name is the successor,
\* at the endpoint it has now; no answer proves nothing.
Recover(p) ==
  LET o == job[p].o IN
  /\ job[p].pc = "recover"
  /\ \/ /\ proc[o] \in {"running", "leaving"} /\ name[o] = "staging"
        /\ adrift' = adrift \ {o}
        /\ Put(p, [job[p] EXCEPT !.pc = "verify", !.receipt = "recovered"])
        /\ UNCHANGED troubles
     \/ name[o] # "staging" /\ Undo(p, job[p]) /\ UNCHANGED <<adrift, troubles>>
     \/ Trouble /\ Undo(p, job[p]) /\ UNCHANGED adrift
  /\ UNCHANGED <<database, proc, name, unrecorded, launches>>

\* verify_replacement of the successor.
Verify(p) ==
  LET o == job[p].o IN
  /\ job[p].pc = "verify"
  /\ \/ Verified(o, "staging") /\ Goto(p, "record") /\ UNCHANGED troubles
     \/ ~Verified(o, "staging") /\ Undo(p, job[p]) /\ UNCHANGED troubles
     \/ Trouble /\ Undo(p, job[p])
  /\ UNCHANGED <<database, world>>

\* record_successor_verified: another operator's equal receipt is accepted.
RecordVerified(p) ==
  LET o == job[p].o
      row == operation[o]
      stored == row.state \in {"successor_verified", "route_swapping"} \cup Switched \cup {"completed"}
      due == row.state = "launching" /\ job[p].fresh IN
  /\ job[p].pc = "record"
  /\ \/ stored /\ row.receipt = job[p].receipt /\ Adopt(p, job[p]) /\ UNCHANGED operation
     \/ /\ due
        /\ Write(p, [job[p] EXCEPT !.pc = "begin"],
                 [row EXCEPT !.state = "successor_verified", !.receipt = job[p].receipt])
     \/ /\ ~due /\ ~(stored /\ row.receipt = job[p].receipt)
        /\ Undo(p, job[p]) /\ UNCHANGED operation
  /\ UNCHANGED <<owner, roster, exact, owed, handed, world, troubles>>

-----------------------------------------------------------------------------
(* The names.  Each side reads the names once, and renames what it read.   *)

\* No third agent answers to the canonical name.
Unclaimed(o) == \A c \in Agents \ {o, From(o)} : name[c] # "canonical"

\* replacement_route_swap reads the names and verifies both participants.
SwapRead(p) ==
  LET o == job[p].o
      a == From(o)
      ok == /\ At(a) /\ name[a] \in {"canonical", "aside"}
            /\ At(o) /\ name[o] \in {"staging", "canonical"}
            /\ Unclaimed(o) IN
  /\ job[p].pc = "swap"
  /\ \/ /\ ok /\ UNCHANGED troubles
        /\ Put(p, [job[p] EXCEPT !.pc = "aside",
                     !.todo = {c \in {a, o} : name[c] = IF c = a THEN "canonical" ELSE "staging"}])
     \/ ~ok /\ Undo(p, job[p]) /\ UNCHANGED troubles
     \/ ok /\ Trouble /\ Undo(p, job[p])
  /\ UNCHANGED <<database, world>>

\* A rename by endpoint: it may be refused, and its answer may be lost.
Rename(p, pc, a, n, done, failed) ==
  LET named == [name EXCEPT ![a] = n]
      possible == At(a) /\ \A c \in Agents \ {a} : ~(n = "canonical" /\ name[c] = n) IN
  /\ job[p].pc = pc
  /\ \/ a \notin job[p].todo /\ Goto(p, done) /\ UNCHANGED <<name, troubles>>
     \/ a \in job[p].todo /\ possible /\ name' = named /\ Goto(p, done) /\ UNCHANGED troubles
     \/ a \in job[p].todo /\ ~possible /\ Goto(p, failed) /\ UNCHANGED <<name, troubles>>
     \/ a \in job[p].todo /\ possible /\ Trouble /\ name' \in {name, named} /\ Goto(p, failed)
  /\ UNCHANGED <<database, proc, adrift, unrecorded, launches>>

SetAside(p) == Rename(p, "aside", From(job[p].o), "aside", "promote", "unswap")

Promote(p) == Rename(p, "promote", job[p].o, "canonical", "readback", "unswap")

\* The names as the swap leaves them; only then is there a route receipt.
ReadBack(p) ==
  LET o == job[p].o
      ok == Verified(From(o), "aside") /\ Verified(o, "canonical") IN
  /\ job[p].pc = "readback"
  /\ \/ /\ ok /\ UNCHANGED troubles
        /\ Put(p, [job[p] EXCEPT !.pc = "activate", !.routed = TRUE, !.todo = {}])
     \/ ~ok /\ Goto(p, "unswap") /\ UNCHANGED troubles
     \/ ok /\ Trouble /\ Goto(p, "unswap")
  /\ UNCHANGED <<database, world>>

\* Where a failed compensation of the names leads: from within the swap to the
\* rollback, from the rollback to the recovery.
Unnamed(p) == IF job[p].routed THEN "owe" ELSE "unlaunch"

\* replacement_route_rollback, called by the swap and by the rollback.
UnswapRead(p) ==
  LET o == job[p].o
      a == From(o) IN
  /\ job[p].pc = "unswap"
  /\ \/ /\ Put(p, [job[p] EXCEPT !.pc = "demote",
                     !.todo = {c \in {a, o} : At(c) /\ name[c] = IF c = a THEN "aside" ELSE "canonical"}])
        /\ UNCHANGED troubles
     \/ Trouble /\ Goto(p, Unnamed(p))
  /\ UNCHANGED <<database, world>>

Demote(p) == Rename(p, "demote", job[p].o, "staging", "restore", Unnamed(p))

Restore(p) == Rename(p, "restore", From(job[p].o), "canonical", "restored", Unnamed(p))

Restored(p) ==
  LET o == job[p].o
      ok == Verified(From(o), "canonical") /\ Verified(o, "staging") IN
  /\ job[p].pc = "restored"
  /\ \/ ok /\ Put(p, [job[p] EXCEPT !.pc = "unlaunch", !.todo = {}]) /\ UNCHANGED troubles
     \/ ~ok /\ Put(p, [job[p] EXCEPT !.pc = Unnamed(p), !.todo = {}]) /\ UNCHANGED troubles
     \/ ok /\ Trouble /\ Put(p, [job[p] EXCEPT !.pc = Unnamed(p), !.todo = {}])
  /\ UNCHANGED <<database, world>>

-----------------------------------------------------------------------------
(* The switch and the retirement of the predecessor.                       *)

\* Ownership is as frozen, at the same versions.
Switchable(o) == owner = From(o) /\ roster[From(o)] = "live" /\ o \in exact

\* activate_runtime_replacement: all ownership rows move in one transaction.
Activate(p) ==
  LET o == job[p].o
      row == operation[o]
      stored == row.state \in Switched \cup {"completed"}
      due == row.state = "route_swapping" /\ job[p].fresh /\ Switchable(o) IN
  /\ job[p].pc = "activate"
  /\ \/ stored /\ Adopt(p, job[p]) /\ UNCHANGED <<operation, owner, roster>>
     \/ /\ due
        /\ Write(p, [job[p] EXCEPT !.pc = "begin"],
                 [row EXCEPT !.state = "activated", !.routed = TRUE])
        /\ owner' = o
        /\ roster' = [roster EXCEPT ![From(o)] = "retired", ![o] = "live"]
     \/ ~stored /\ ~due /\ Undo(p, job[p]) /\ UNCHANGED <<operation, owner, roster>>
  /\ UNCHANGED <<exact, owed, handed, world, troubles>>

\* replacement_retire: the exit prompt and the close.  An agent that is gone is
\* retired; one that lives elsewhere is not.  When the call fails, the prompt may
\* have reached the agent, which leaves at once or later.
Quit(p, a, n, done, failed) ==
  LET out == [proc EXCEPT ![a] = "gone"]
      gone == proc[a] \in {"none", "gone", "left"}
      ok == At(a) /\ name[a] = n IN
  \/ ok /\ proc' = out /\ name' = [name EXCEPT ![a] = "none"] /\ done /\ UNCHANGED troubles
  \/ gone /\ done /\ UNCHANGED <<proc, name, troubles>>
  \/ ~ok /\ ~gone /\ failed /\ UNCHANGED <<proc, name, troubles>>
  \/ /\ ok /\ Trouble /\ failed
     /\ \/ proc' = out /\ name' = [name EXCEPT ![a] = "none"]
        \/ proc' = [proc EXCEPT ![a] = "leaving"] /\ UNCHANGED name
        \/ UNCHANGED <<proc, name>>

\* The predecessor is addressed by the name the route receipt gave it.
Retire(p) ==
  /\ job[p].pc = "retire"
  /\ \/ /\ job[p].routed
        /\ Quit(p, From(job[p].o), "aside",
                Put(p, [job[p] EXCEPT !.pc = "retired", !.retired = TRUE]), Undo(p, job[p]))
     \/ ~job[p].routed /\ Raise(p) /\ UNCHANGED <<proc, name, troubles>>
  /\ UNCHANGED <<database, adrift, unrecorded, launches>>

\* record_predecessor_retired.
RecordRetired(p) ==
  LET o == job[p].o
      stored == operation[o].state \in {"predecessor_retired", "completed"}
      due == operation[o].state = "retiring" /\ job[p].fresh IN
  /\ job[p].pc = "retired"
  /\ \/ stored /\ Adopt(p, job[p]) /\ UNCHANGED operation
     \/ /\ due
        /\ Write(p, [job[p] EXCEPT !.pc = "complete"],
                 [operation[o] EXCEPT !.state = "predecessor_retired", !.retired = TRUE])
     \/ ~stored /\ ~due /\ Undo(p, job[p]) /\ UNCHANGED operation
  /\ UNCHANGED <<owner, roster, exact, owed, handed, world, troubles>>

\* complete_runtime_replacement: the handoff is released in the same transaction.
Complete(p) ==
  LET o == job[p].o
      due == operation[o].state = "predecessor_retired" /\ job[p].fresh /\ owner = o IN
  /\ job[p].pc = "complete"
  /\ \/ /\ due /\ job[p].retired
        /\ Write(p, [job[p] EXCEPT !.pc = "rest"], [operation[o] EXCEPT !.state = "completed"])
        /\ handed' = handed \cup {o} /\ owed' = Discharged(o)
     \/ ~(due /\ job[p].retired) /\ Raise(p) /\ UNCHANGED <<operation, handed, owed>>
  /\ UNCHANGED <<owner, roster, exact, world, troubles>>

-----------------------------------------------------------------------------
(* The rollback.                                                           *)

\* _compensate_activated_replacement: the rows are those of the switch.
Restorable(o) ==
  operation[o].state \in {"activated", "retiring"} /\ owner = o /\ roster[o] = "live"

\* The successor is retired by its receipt, or by the driver that made it.
Unlaunch(p) ==
  LET o == job[p].o IN
  /\ job[p].pc = "unlaunch"
  /\ \/ job[p].receipt # "none" /\ Quit(p, o, "staging", Goto(p, "assure"), Goto(p, "owe"))
     \/ /\ job[p].receipt = "none" /\ job[p].driver = "clean"
        /\ Goto(p, "assure") /\ UNCHANGED <<proc, name, troubles>>
     \/ /\ job[p].receipt = "none" /\ job[p].driver = "made"
        /\ \/ /\ At(o) /\ proc' = [proc EXCEPT ![o] = "gone"]
              /\ name' = [name EXCEPT ![o] = "none"] /\ Goto(p, "assure") /\ UNCHANGED troubles
           \/ ~At(o) /\ Goto(p, "owe") /\ UNCHANGED <<proc, name, troubles>>
           \/ At(o) /\ Trouble /\ Goto(p, "owe") /\ UNCHANGED <<proc, name>>
  /\ UNCHANGED <<database, adrift, unrecorded, launches>>

\* verify_replacement of the predecessor under its own name.
Assure(p) ==
  LET a == From(job[p].o)
      ok == Verified(a, "canonical") IN
  /\ job[p].pc = "assure"
  /\ \/ ok /\ Goto(p, "commit") /\ UNCHANGED troubles
     \/ ~ok /\ Goto(p, "owe") /\ UNCHANGED troubles
     \/ ok /\ Trouble /\ Goto(p, "owe")
  /\ UNCHANGED <<database, world>>

\* rollback_runtime_replacement: before the switch nothing moved, after it the
\* rows are given back.  A refusal here is raised, and leaves the operation open.
Commit(p) ==
  LET o == job[p].o
      a == From(o)
      kept == operation[o].state \in Before /\ Switchable(o)
      due == job[p].fresh /\ (kept \/ Restorable(o)) IN
  /\ job[p].pc = "commit"
  /\ \/ /\ due
        /\ Write(p, [job[p] EXCEPT !.pc = "rest"], [operation[o] EXCEPT !.state = "rolled_back"])
        /\ owed' = Discharged(o)
        /\ owner' = a
        /\ roster' = [roster EXCEPT ![a] = "live", ![o] = "absent"]
     \/ ~due /\ Raise(p) /\ UNCHANGED <<operation, owed, owner, roster>>
  /\ UNCHANGED <<exact, handed, world, troubles>>

\* record_runtime_replacement_recovery.
Owe(p) ==
  LET o == job[p].o
      due == operation[o].state \in Open \ {"recovery_required"} /\ job[p].fresh IN
  /\ job[p].pc = "owe"
  /\ \/ /\ due
        /\ Write(p, [job[p] EXCEPT !.pc = "rest"], [operation[o] EXCEPT !.back = operation[o].state, !.state = "recovery_required"])
        /\ owed' = owed \cup {o}
     \/ ~due /\ Raise(p) /\ UNCHANGED <<operation, owed>>
  /\ UNCHANGED <<owner, roster, exact, handed, world, troubles>>

-----------------------------------------------------------------------------
(* The environment.                                                        *)

\* The operator's process dies.
Die(p) ==
  /\ job[p].pc # "rest" /\ Trouble
  /\ Raise(p)
  /\ UNCHANGED <<database, world>>

\* An agent that was told to leave leaves.
Leave(a) ==
  /\ proc[a] = "leaving"
  /\ proc' = [proc EXCEPT ![a] = "left"] /\ name' = [name EXCEPT ![a] = "none"]
  /\ UNCHANGED <<database, adrift, unrecorded, launches, job, troubles>>

\* The multiplexer restarts: the agent's session continues at another endpoint.
Move(a) ==
  /\ proc[a] = "running" /\ Trouble
  /\ adrift' = adrift \cup {a} /\ unrecorded' = unrecorded \cup {a}
  /\ UNCHANGED <<database, proc, name, launches, job>>

\* reconcile_restored_runtime records the endpoint, at a new version of the agent.
Reconcile(a) ==
  /\ a \in unrecorded /\ roster[a] = "live" /\ proc[a] = "running"
  /\ unrecorded' = unrecorded \ {a}
  /\ exact' = {o \in exact : From(o) # a}
  /\ UNCHANGED <<owner, roster, operation, owed, handed, proc, name, adrift, launches, job,
                 troubles>>

-----------------------------------------------------------------------------
Step(p) ==
  \/ Resume(p) \/ BeginEffect(p)
  \/ Launch(p) \/ LaunchFails(p) \/ Recover(p) \/ Verify(p) \/ RecordVerified(p)
  \/ SwapRead(p) \/ SetAside(p) \/ Promote(p) \/ ReadBack(p)
  \/ UnswapRead(p) \/ Demote(p) \/ Restore(p) \/ Restored(p)
  \/ Activate(p) \/ Retire(p) \/ RecordRetired(p) \/ Complete(p)
  \/ Unlaunch(p) \/ Assure(p) \/ Commit(p) \/ Owe(p)

Environment(a) == Leave(a) \/ Move(a) \/ Reconcile(a)

Next ==
  \/ \E p \in Operators, o \in Operations : Prepare(p, o) \/ Retry(p, o)
  \/ /\ \/ \E p \in Operators : Step(p) \/ Die(p)
        \/ \E a \in Agents : Environment(a)
     /\ UNCHANGED crowded

Spec == Init /\ [][Next]_vars

\* Some operator that runs goes on, and an interrupted request is given again
\* until it waits for a person.
FairSpec ==
  /\ Spec
  /\ WF_vars(\E p \in Operators : Step(p) /\ UNCHANGED crowded)
  /\ WF_vars(\E p \in Operators, o \in Operations :
               operation[o].state # "recovery_required" /\ Retry(p, o))
=============================================================================
