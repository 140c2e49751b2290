-------------------------- MODULE LaunchProperties --------------------------
(***************************************************************************)
(* What Launch is checked against.                                         *)
(***************************************************************************)
EXTENDS Launch

\* One endpoint is accepted for an assignment, and for ever: not a second
\* launcher of it, nor a launch that ends after it was blocked, replaces the
\* endpoint the context is sent to (activate_assignment).
AcceptanceIsFinal ==
  [][\A a \in Assignments : accepted[a] # NoLauncher => accepted'[a] = accepted[a]]_vars

\* An active assignment has its callsign in service, an accepted endpoint and
\* no trace of a failed launch, whatever another launcher of it did meanwhile.
ActiveIsWhole ==
  \A a \in Assignments : assignment[a].state = "active" =>
    /\ accepted[a] # NoLauncher
    /\ reservation[a].state = "active"
    /\ assignment[a].failure = "none"
    /\ cleanup[a].policy \in {"none", "terminal_task"}

\* Cleanup is accounted for: while an assignment is cleanup_pending an open
\* obligation says so, and once it is blocked it holds nothing, neither its
\* callsign nor a live runtime nor an obligation.
CleanupIsAccounted ==
  \A a \in Assignments :
    /\ assignment[a].state = "cleanup_pending" => cleanup[a].state = "pending"
    /\ assignment[a].state = "blocked" =>
         /\ reservation[a].state \in {"rolled_back", "released"}
         /\ runtime[a] # "active"
         /\ cleanup[a].state # "pending"

\* The rows of an assignment agree: each in its domain, an active one whole,
\* and a failed one accounted for until it holds nothing.
AssignmentsAgree == TypeOK /\ ActiveIsWhole /\ CleanupIsAccounted

\* "A bounded SQLite-only context is delivered once" (docs/incident-23-sqlite-
\* hot-path-journal-mode-contention.md, item 7).
ContextDeliveredOnce == \A a \in Assignments : sent[a] <= 1

-----------------------------------------------------------------------------
(* The callsign queue implements the pool.                                 *)

Holder(c) ==
  IF \E a \in Assignments :
       reservation[a].callsign = c /\ reservation[a].state \in {"reserved", "active"}
    THEN CHOOSE a \in Assignments :
           reservation[a].callsign = c /\ reservation[a].state \in {"reserved", "active"}
    ELSE NoAssignment

Pool == INSTANCE CallsignPool WITH
  Tasks <- Assignments,
  NoTask <- NoAssignment,
  holder <- [c \in Callsigns |-> Holder(c)],
  serving <- {c \in Callsigns : slot[c].state = "active"},
  served <- {a \in Assignments : reservation[a].state # "none"},
  live <- {a \in Assignments : runtime[a] = "active"}

\* Every behaviour of the launches is one the pool allows: the queue and the
\* reservations agree, no callsign is lent twice, and none that a live Champion
\* answers to comes back (callsign_queue, callsign_assignments).
ImplementsPool == Pool!Spec

-----------------------------------------------------------------------------
(* Liveness.                                                               *)

\* An assignment does not stay in launching when its launchers run to their
\* end, however they fail and whoever else launches it
\* (test_unwrapped_adapter_failure_cannot_strand_launching).
LaunchIsNotStranded ==
  \A a \in Assignments :
    assignment[a].state = "launching" ~>
      \/ assignment[a].state # "launching"
      \/ \E p \in Launchers : job[p].a = a /\ job[p].pc = "dead"
=============================================================================
