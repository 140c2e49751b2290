------------------------------ MODULE Cleanup ------------------------------
(***************************************************************************)
(* The cleanup of one terminal task: the plans made for its obligation,    *)
(* the executors that claim a plan under a fence and a lease, inspect and  *)
(* apply its actions in order and write a receipt after each, and the      *)
(* outside world that moves meanwhile.  A plan whose execution is refused  *)
(* is blocked, and the obligation can be planned again at its next         *)
(* version.  An executor may stop anywhere: a crash, or a refusal of an    *)
(* adapter that is raised as retryable and writes nothing.                 *)
(***************************************************************************)
EXTENDS Naturals, Sequences

CONSTANTS
  Operations,    \* cleanup operations, each at a revision of the obligation
  Retained,      \* those that retain the repository
  Executors,     \* processes of `league cleanup execute`
  NoOperation,
  Plan,          \* the kinds of the ordered actions; "resource": of a registered resource
  MaxFence,      \* bound on the claims of an operation
  MaxDrifts      \* bound on the changes of the outside world

ASSUME CleanupAssumption ==
  /\ Retained \subseteq Operations
  /\ NoOperation \notin Operations
  /\ Plan \in Seq({"archive", "resource", "session_exit", "endpoint_close", "worktree_remove",
                   "branch_delete", "callsign_release", "issue_close"})
  /\ Operations \cap {"first", "second", "gone"} = {}
  /\ Len(Plan) > 0 /\ Plan[1] = "archive"
  /\ \E i \in DOMAIN Plan : Plan[i] = "callsign_release"
  /\ \A i, j \in DOMAIN Plan : Plan[i] = Plan[j] /\ Plan[i] # "resource" => i = j
  /\ MaxFence \in Nat /\ MaxDrifts \in Nat

VARIABLES
  obligation,    \* the row of cleanup_obligations
  operation,     \* per operation: its row, and the refusal of its final receipt
  action,        \* per operation and position: state of the action; a completed
                 \* action has its receipt
  expected,      \* per operation and position: the expected_identity
  world,         \* per position: the identity that is there, or what took it away
  bound,         \* the assignment, runtime and callsign are as finalize_cleanup
                 \* requires them
  run,           \* per executor: where it is
  verified,      \* history, per operation: positions seen in their intended
                 \* state under the current fence
  drifts

vars == <<obligation, operation, action, expected, world, bound, run, verified, drifts>>

Positions == DOMAIN Plan

Identities == {"first", "second"}

Gone == {"gone"} \cup Operations

Fresh == [state |-> "none", revision |-> 0, fence |-> 0, leased |-> FALSE, refusal |-> "none"]

NoRun == [pc |-> "idle", o |-> NoOperation, fence |-> 0, at |-> 1, todo |-> {}, code |-> "none"]

Codes == {"none", "cleanup_identity_mismatch", "cleanup_completed_action_changed",
          "cleanup_fence_conflict", "cleanup_incomplete"}

Obligations ==
  [state : {"pending", "cleanup_pending", "blocked", "cleanup_completed"}, version : Nat,
   owned : BOOLEAN]

OperationRows ==
  [state : {"none", "planned", "executing", "blocked", "completed"}, revision : Nat,
   fence : 0..MaxFence, leased : BOOLEAN, refusal : Codes]

Runs ==
  [pc : {"idle", "claim", "read", "preflight", "inspect", "apply", "verify", "record",
         "finalize", "block"},
   o : Operations \cup {NoOperation}, fence : 0..MaxFence, at : 1..(Len(Plan) + 1),
   todo : SUBSET Positions, code : Codes]

\* The rows in their domains; an action is blocked in a blocked operation only.
TypeOK ==
  /\ obligation \in Obligations
  /\ operation \in [Operations -> OperationRows]
  /\ action \in [Operations -> [Positions -> {"planned", "completed", "blocked"}]]
  /\ \A o \in Operations, i \in Positions :
       action[o][i] = "blocked" => operation[o].state = "blocked"
  /\ expected \in [Operations -> [Positions -> Identities]]
  /\ world \in [Positions -> Identities \cup Gone]
  /\ bound \in BOOLEAN
  /\ run \in [Executors -> Runs]
  /\ verified \in [Operations -> SUBSET Positions]
  /\ drifts \in 0..MaxDrifts

Init ==
  /\ obligation = [state |-> "pending", version |-> 1, owned |-> FALSE]
  /\ operation = [o \in Operations |-> Fresh]
  /\ action = [o \in Operations |-> [i \in Positions |-> "planned"]]
  /\ expected = [o \in Operations |-> [i \in Positions |-> "first"]]
  /\ world = [i \in Positions |-> "first"]
  /\ bound \in BOOLEAN
  /\ run = [e \in Executors |-> NoRun]
  /\ verified = [o \in Operations |-> {}]
  /\ drifts = 0

-----------------------------------------------------------------------------
(* What an adapter sees.                                                   *)

\* A released callsign is the intended state of the action whose digest is on
\* the release, and of no other; the archive is the plan itself.
Intended(o, i) ==
  CASE Plan[i] = "archive" -> TRUE
    [] Plan[i] = "callsign_release" -> world[i] = o
    [] OTHER -> world[i] \in Gone

AsExpected(o, i) == ~Intended(o, i) /\ world[i] = expected[o][i]

Changed(o, i) == ~Intended(o, i) /\ world[i] # expected[o][i]

\* What the effect of the action leaves behind.
Effect(o, i) == IF Plan[i] = "callsign_release" THEN o ELSE "gone"

\* release_callsign retires the Champion.
Retired == \E i \in Positions : Plan[i] = "callsign_release" /\ world[i] \in Gone

AllReceipted(o) == \A i \in Positions : action[o][i] = "completed"

\* The callsign of a retained repository is released by this very operation.
ReleasedHere(o) == \A i \in Positions : Plan[i] = "callsign_release" => world[i] = o

\* Mutant of ContextValid: a retired owner is not refused.
ContextValidAnyway(o) == operation[o].state # "none"

\* cleanup_execution_context: the owner is not retired, unless every action has
\* its receipt, or a retained repository's own release retired it.
ContextValid(o) ==
  /\ operation[o].state # "none"
  /\ Retired => IF o \in Retained THEN ReleasedHere(o)
                ELSE AllReceipted(o) \/ operation[o].state = "completed"

-----------------------------------------------------------------------------
(* Planning.                                                               *)

\* plan_cleanup: a first plan adopts the obligation a task or launch left; a
\* later one needs a version no operation has.  Retention needs an owner in
\* service.
PlanCleanup(o) ==
  LET revision == IF obligation.owned THEN obligation.version ELSE obligation.version + 1 IN
  /\ operation[o].state = "none"
  /\ obligation.state # "cleanup_completed"
  /\ o \in Retained => ~Retired
  /\ \A q \in Operations : operation[q].revision # revision
  /\ obligation' = IF obligation.owned THEN obligation
                   ELSE [state |-> "cleanup_pending", version |-> revision, owned |-> TRUE]
  /\ operation' = [operation EXCEPT ![o] = [Fresh EXCEPT !.state = "planned", !.revision = revision]]
  /\ expected' = [expected EXCEPT ![o] =
                    [i \in Positions |-> IF world[i] \in Identities THEN world[i] ELSE "first"]]
  /\ UNCHANGED <<action, world, bound, run, verified, drifts>>

-----------------------------------------------------------------------------
(* An executor.                                                            *)

At(e, s) == run[e].pc = s

Goto(e, s) == run' = [run EXCEPT ![e].pc = s]

End(e) == run' = [run EXCEPT ![e] = NoRun]

\* A refusal that is not retryable is recorded by block_cleanup_operation.
Refuse(e, code) == run' = [run EXCEPT ![e].pc = "block", ![e].code = code]

\* ProductionCleanup.execute validates the context of an operation first.
Open(e, o) ==
  /\ At(e, "idle")
  /\ operation[o].state \in {"planned", "executing", "blocked"}
  /\ ContextValid(o)
  /\ run' = [run EXCEPT ![e] = [NoRun EXCEPT !.pc = "claim", !.o = o, !.fence = operation[o].fence]]
  /\ UNCHANGED <<obligation, operation, action, expected, world, bound, verified, drifts>>

\* Mutant of MayClaim: an operation that somebody executes is not resumed.
MayClaimNew(o) == operation[o].state = "planned"

\* claim_cleanup_operation: nobody's lease runs; a blocked operation only to
\* retry its final receipt.
MayClaim(o) ==
  \/ operation[o].state = "planned"
  \/ operation[o].state = "executing" /\ ~operation[o].leased
  \/ /\ operation[o].state = "blocked"
     /\ operation[o].refusal = "cleanup_identity_mismatch"
     /\ AllReceipted(o)

Claim(e) ==
  LET o == run[e].o IN
  /\ At(e, "claim")
  /\ IF operation[o].fence = run[e].fence /\ MayClaim(o) /\ run[e].fence < MaxFence
       THEN /\ operation' = [operation EXCEPT ![o].state = "executing", ![o].fence = @ + 1,
                                              ![o].leased = TRUE, ![o].refusal = "none"]
            /\ verified' = [verified EXCEPT ![o] = {}]
            /\ run' = [run EXCEPT ![e].pc = "read", ![e].fence = @ + 1]
       ELSE End(e) /\ UNCHANGED <<operation, verified>>
  /\ UNCHANGED <<obligation, action, expected, world, bound, drifts>>

\* cleanup_operation: the actions that have no receipt yet.
Read(e) ==
  /\ At(e, "read")
  /\ run' = [run EXCEPT ![e].pc = "preflight",
                        ![e].todo = {i \in Positions : action[run[e].o][i] # "completed"}]
  /\ UNCHANGED <<obligation, operation, action, expected, world, bound, verified, drifts>>

\* Position i was seen in its intended state by e.
Verified(e, i) ==
  verified' = IF operation[run[e].o].fence = run[e].fence
                THEN [verified EXCEPT ![run[e].o] = @ \cup {i}] ELSE verified

\* Mutant of First: the actions are taken from the end.
LastFirst(S) == CHOOSE i \in S : \A j \in S : i >= j

First(S) == CHOOSE i \in S : \A j \in S : i <= j

\* After the last position: the first action without receipt, or the end.
Begin(todo, r) ==
  IF todo = {} THEN [r EXCEPT !.pc = "finalize"] ELSE [r EXCEPT !.pc = "inspect", !.at = First(todo)]

NextPosition(e) ==
  run' = [run EXCEPT ![e] = IF run[e].at = Len(Plan) THEN Begin(run[e].todo, run[e])
                            ELSE [run[e] EXCEPT !.at = @ + 1]]

\* Mutant of Preflight: a completed action is not inspected again.
PreflightPending(e) ==
  LET o == run[e].o
      i == run[e].at
  IN
  /\ At(e, "preflight")
  /\ IF i \in run[e].todo /\ Changed(o, i)
       THEN Refuse(e, "cleanup_identity_mismatch") ELSE NextPosition(e)
  /\ UNCHANGED <<obligation, operation, action, expected, world, bound, verified, drifts>>

\* The preflight of execute, one action: a completed action must still be in
\* its intended state, another in that or as expected.
Preflight(e) ==
  LET o == run[e].o
      i == run[e].at
  IN
  /\ At(e, "preflight")
  /\ \/ Intended(o, i) /\ Verified(e, i) /\ NextPosition(e)
     \/ AsExpected(o, i) /\ i \in run[e].todo /\ NextPosition(e) /\ UNCHANGED verified
     \/ /\ AsExpected(o, i) /\ i \notin run[e].todo
        /\ Refuse(e, "cleanup_completed_action_changed")
        /\ UNCHANGED verified
     \/ Changed(o, i) /\ Refuse(e, "cleanup_identity_mismatch") /\ UNCHANGED verified
  /\ UNCHANGED <<obligation, operation, action, expected, world, bound, drifts>>

\* The second observation, before the effect.
Inspect(e) ==
  LET o == run[e].o
      i == run[e].at
  IN
  /\ At(e, "inspect")
  /\ \/ Intended(o, i) /\ Verified(e, i) /\ Goto(e, "record")
     \/ AsExpected(o, i) /\ Goto(e, "apply") /\ UNCHANGED verified
     \/ Changed(o, i) /\ Refuse(e, "cleanup_identity_mismatch") /\ UNCHANGED verified
  /\ UNCHANGED <<obligation, operation, action, expected, world, bound, drifts>>

\* adapter.apply.  Git and the store compare what they change with the plan; a
\* prompt or a close reaches whatever has the name or the pane by now.
Apply(e) ==
  LET o == run[e].o
      i == run[e].at
  IN
  /\ At(e, "apply")
  /\ \/ /\ \/ AsExpected(o, i)
           \/ Changed(o, i) /\ Plan[i] \in {"session_exit", "endpoint_close"}
        /\ world' = [world EXCEPT ![i] = Effect(o, i)]
        /\ Goto(e, "verify")
     \/ /\ Intended(o, i)
        /\ Goto(e, "verify")
        /\ UNCHANGED world
     \/ /\ Changed(o, i)
        /\ Refuse(e, "cleanup_identity_mismatch")
        /\ UNCHANGED world
  /\ UNCHANGED <<obligation, operation, action, expected, bound, verified, drifts>>

\* The observation after the effect; one that is not verified is retryable.
Verify(e) ==
  LET o == run[e].o
      i == run[e].at
  IN
  /\ At(e, "verify")
  /\ \/ Intended(o, i) /\ Verified(e, i) /\ Goto(e, "record")
     \/ AsExpected(o, i) /\ End(e) /\ UNCHANGED verified
     \/ Changed(o, i) /\ Refuse(e, "cleanup_identity_mismatch") /\ UNCHANGED verified
  /\ UNCHANGED <<obligation, operation, action, expected, world, bound, drifts>>

Fenced(e) == operation[run[e].o].state = "executing" /\ operation[run[e].o].fence = run[e].fence

\* record_cleanup_action_receipt
Record(e) ==
  LET o == run[e].o
      i == run[e].at
      rest == run[e].todo \ {i}
  IN
  /\ At(e, "record")
  /\ IF Fenced(e)
       THEN /\ action' = [action EXCEPT ![o][i] = "completed"]
            /\ run' = [run EXCEPT ![e] = Begin(rest, [run[e] EXCEPT !.todo = rest])]
       ELSE Refuse(e, "cleanup_fence_conflict") /\ UNCHANGED action
  /\ UNCHANGED <<obligation, operation, expected, world, bound, verified, drifts>>

\* What finalize_cleanup requires besides the receipts: the assignment can be
\* settled, and a retained repository's context is still valid.
Settleable(o) == bound /\ (o \in Retained => ContextValid(o))

\* finalize_cleanup compares the fence only, and settles the assignment.
Finalize(e) ==
  LET o == run[e].o IN
  /\ At(e, "finalize")
  /\ \/ /\ operation[o].fence = run[e].fence /\ AllReceipted(o) /\ Settleable(o)
        /\ operation' = [operation EXCEPT ![o].state = "completed"]
        /\ obligation' = [obligation EXCEPT !.state = "cleanup_completed", !.version = @ + 1]
        /\ End(e)
     \/ /\ operation[o].fence # run[e].fence
        /\ Refuse(e, "cleanup_fence_conflict")
        /\ UNCHANGED <<operation, obligation>>
     \/ /\ operation[o].fence = run[e].fence /\ ~AllReceipted(o)
        /\ Refuse(e, "cleanup_incomplete")
        /\ UNCHANGED <<operation, obligation>>
     \/ /\ operation[o].fence = run[e].fence /\ AllReceipted(o) /\ ~Settleable(o)
        /\ Refuse(e, "cleanup_identity_mismatch")
        /\ UNCHANGED <<operation, obligation>>
  /\ UNCHANGED <<action, expected, world, bound, verified, drifts>>

\* block_cleanup_operation; a stale executor's is refused too.
Block(e) ==
  LET o == run[e].o IN
  /\ At(e, "block")
  /\ IF Fenced(e)
       THEN /\ operation' = [operation EXCEPT ![o].state = "blocked", ![o].leased = FALSE,
                                              ![o].refusal = run[e].code]
            /\ action' = [action EXCEPT ![o] = [i \in Positions |->
                 IF i = run[e].at /\ @[i] = "planned" THEN "blocked" ELSE @[i]]]
            /\ obligation' = [obligation EXCEPT !.state = "blocked", !.version = @ + 1]
       ELSE UNCHANGED <<operation, action, obligation>>
  /\ End(e)
  /\ UNCHANGED <<expected, world, bound, verified, drifts>>

ExecutorStep(e) ==
  \/ Claim(e) \/ Read(e) \/ Preflight(e) \/ Inspect(e) \/ Apply(e) \/ Verify(e) \/ Record(e)
  \/ Finalize(e) \/ Block(e)

\* A crash, or a retryable refusal of an adapter, at any point; before its claim
\* an executor has done nothing that a stop could undo.
Stop(e) ==
  /\ ~At(e, "idle") /\ ~At(e, "claim")
  /\ End(e)
  /\ UNCHANGED <<obligation, operation, action, expected, world, bound, verified, drifts>>

LeaseExpires(o) ==
  /\ operation[o].state = "executing" /\ operation[o].leased
  /\ operation' = [operation EXCEPT ![o].leased = FALSE]
  /\ UNCHANGED <<obligation, action, expected, world, bound, run, verified, drifts>>

-----------------------------------------------------------------------------
(* The world outside.                                                      *)

\* What an action is about changes its identity, goes away, or comes back; a
\* callsign that is not released here is released with another receipt.
Drift(i) ==
  /\ drifts < MaxDrifts
  /\ Plan[i] # "archive"
  /\ IF Plan[i] = "callsign_release"
       THEN world[i] \in Identities /\ world' = [world EXCEPT ![i] = "gone"]
       ELSE \E w \in Identities \cup {"gone"} : world[i] # w /\ world' = [world EXCEPT ![i] = w]
  /\ drifts' = drifts + 1
  /\ UNCHANGED <<obligation, operation, action, expected, bound, run, verified>>

\* The assignment gets into, or out of, the state that finalization requires.
Rebind ==
  /\ drifts < MaxDrifts
  /\ bound' = ~bound
  /\ drifts' = drifts + 1
  /\ UNCHANGED <<obligation, operation, action, expected, world, run, verified>>

Next ==
  \/ \E o \in Operations : PlanCleanup(o) \/ LeaseExpires(o)
  \/ \E e \in Executors : ExecutorStep(e) \/ Stop(e) \/ \E o \in Operations : Open(e, o)
  \/ \E i \in Positions : Drift(i)
  \/ Rebind

Spec == Init /\ [][Next]_vars

\* Leases run out, a running executor goes on, and an operation that was left
\* executing is executed again.
Resumed ==
  /\ \A e \in Executors : WF_vars(ExecutorStep(e))
  /\ \A o \in Operations :
       WF_vars(LeaseExpires(o)) /\ SF_vars(~operation[o].leased /\ \E e \in Executors : Open(e, o))

FairSpec == Spec /\ Resumed

-----------------------------------------------------------------------------
(* Properties.                                                             *)

\* When an operation completes, every action was seen in its intended state by
\* the executor that completes it, under its own fence: receipts of an earlier
\* executor are never taken for the state of the world (CleanupExecutor,
\* finalize_cleanup).
CompletionIsVerified ==
  \A o \in Operations : operation[o].state = "completed" => verified[o] = Positions

\* League changes the world for an action only after every earlier action of
\* the same plan has its receipt: the callsign is never free before its
\* endpoint is closed, also when an executor lost its lease, stopped, or was
\* overtaken by another.
ReleaseInOrder ==
  [][\A e \in Executors :
       At(e, "apply") /\ run'[e].pc = "verify" /\ world' # world =>
         \A j \in 1..(run[e].at - 1) : action[run[e].o][j] = "completed"]_vars

\* The obligation is completed exactly when one of its operations is, and then
\* no other operation of it, planned while one was blocked, is being executed:
\* none can change the world or block the obligation again (plan_cleanup,
\* claim_cleanup_operation, finalize_cleanup).
CompletedOnce ==
  LET Completed == {o \in Operations : operation[o].state = "completed"} IN
  /\ obligation.state = "cleanup_completed" <=> Completed # {}
  /\ \A o \in Operations, q \in Completed : o = q \/ operation[o].state # "executing"

\* A completed obligation is completed truly: by one operation, each of whose
\* actions was found to hold.
CompletionIsTrue == TypeOK /\ CompletionIsVerified /\ CompletedOnce

\* "A crash resumes from the first unreceipted action" (docs/incident-23-
\* sqlite-hot-path-journal-mode-contention.md:345-346): an operation that nobody
\* executes any more, and about which nothing outside changed, can be claimed
\* again (cleanup_execution_context).
CrashResumes ==
  \A o \in Operations :
    /\ operation[o].state = "executing"
    /\ \A e \in Executors : run[e].o # o
    /\ \A i \in Positions : ~Changed(o, i)
    => ContextValid(o)

\* Nobody can go on with o: its callsign was released before every action of o
\* had its receipt, by somebody else or by an executor of o that stopped before
\* it recorded the release; CrashResumes says the latter never happens.
Stranded(o) == ~ContextValid(o) /\ \A e \in Executors : run[e].o # o

\* Nobody may claim o once more, by the bound, and whoever claimed it is gone.
ClaimedOut(o) ==
  operation[o].fence = MaxFence /\ \A e \in Executors : run[e].o = o => At(e, "claim")

\* o is executed, and somebody is at it or can claim it again.
Underway(o) == operation[o].state = "executing" /\ ~ClaimedOut(o) /\ ~Stranded(o)

\* No operation is under way for ever: it completes or is blocked, whatever
\* executors stop on the way, unless one of them leaves it stranded
\* (claim_cleanup_operation, CleanupExecutor).
OperationSettles == \A o \in Operations : []<>~Underway(o)
=============================================================================
