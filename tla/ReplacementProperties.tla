----------------------- MODULE ReplacementProperties -----------------------
(***************************************************************************)
(* What Replacement is checked against.                                    *)
(***************************************************************************)
EXTENDS Replacement

\* How far operation o is, also while it waits for a person.
Reached(o) == IF operation[o].state = "recovery_required" THEN operation[o].back
              ELSE operation[o].state

\* Two operators of one assignment never have two handovers open.
OneIsOpen ==
  \A o, q \in Operations :
    operation[o].state \in Open /\ operation[q].state \in Open => o = q

\* The ownership rows name the successor exactly from the switch on.
OwnerIsSwitched ==
  \A o \in Operations :
    /\ Reached(o) \in Before => owner = From(o)
    /\ Reached(o) \in Switched => owner = o

\* A handoff was released for exactly the completed operations, and a recovery
\* obligation is open while its operation waits and never after it is settled.
OwedIsOpen ==
  \A o \in Operations :
    /\ o \in handed <=> operation[o].state = "completed"
    /\ operation[o].state = "recovery_required" => o \in owed
    /\ o \in owed => operation[o].state \in Open

\* The tables agree, whatever two operators, deaths and rollbacks did to the
\* rows in between; the owner is the only Champion with live rows.
RowsAgree ==
  /\ TypeOK
  /\ OneIsOpen /\ OwnerIsSwitched /\ OwedIsOpen
  /\ \A a \in Agents : roster[a] = "live" <=> a = owner

\* However often and by however many operators a request is repeated, after
\* whatever deaths and lost answers, its successor is launched at most once
\* (begin_runtime_replacement_effect).
LaunchedOnce == \A o \in Operations : launches[o] <= 1

\* With one operator at a time the task is never left without an agent, and
\* after a replacement its owner is the one that works.  The only way out is an
\* exit prompt whose call failed, and which the agent obeyed later.
OwnerWorks ==
  \/ crowded
  \/ \E a \in Agents : proc[a] = "left"
  \/ /\ \E a \in Agents : proc[a] \in {"running", "leaving"}
     /\ ~Held => proc[owner] \in {"running", "leaving"}

\* With one operator at a time a settled replacement leaves one agent: after
\* completion not the predecessor; after a rollback not the successor, and the
\* predecessor under its own name.
SettledIsExact ==
  ~crowded => \A o \in Operations :
    /\ operation[o].state = "completed" => proc[From(o)] \in {"gone", "left"}
    /\ operation[o].state = "rolled_back" =>
         /\ proc[o] \in {"none", "gone", "left"}
         /\ ~Held /\ owner = From(o) /\ proc[owner] = "running" => name[owner] = "canonical"

\* With one operator at a time, and no replacement open, no agent but the owner
\* is alive: neither a predecessor that was to be retired nor a successor that
\* was given up (replacement_retire before record_predecessor_retired and before
\* rollback_runtime_replacement).
NoneToSpare ==
  ~crowded /\ ~Held =>
    \A a \in Agents \ {owner} : proc[a] \notin {"running", "leaving"}

\* A task has its agent: a successor is launched at most once; with one operator
\* at a time somebody is always at work on it, while a replacement is open
\* perhaps both; and between replacements nobody but the owner.
OneAgentWorks == LaunchedOnce /\ OwnerWorks /\ SettledIsExact /\ NoneToSpare

\* A replacement that was opened is completed, rolled back or owed to a person,
\* unless the predecessor's row changed under it.
ReplacementSettles ==
  \A o \in Operations :
    operation[o].state \in Open
      ~> \/ operation[o].state \in Settled \cup {"recovery_required"}
         \/ o \notin exact

-----------------------------------------------------------------------------
(* Replacement implements Handover.                                        *)

StageOf(o) ==
  CASE Reached(o) \in Before -> "offered"
    [] Reached(o) \in {"activated", "retiring"} -> "taken"
    [] Reached(o) = "predecessor_retired" -> "alone"
    [] Reached(o) = "completed" -> "finished"
    [] Reached(o) = "rolled_back" -> "refused"
    [] OTHER -> "new"

H == INSTANCE Handover WITH
  Newcomers <- Operations,
  seat <- owner,
  stage <- [o \in Operations |-> StageOf(o)],
  giver <- [o \in Operations |-> From(o)]

\* Whatever the operators do, the coordinator sees one handover at a time, that
\* is taken in one step, given back only while the predecessor is not proved
\* retired, and never begun again.
ImplementsHandover == H!HandoverSpec
=============================================================================
