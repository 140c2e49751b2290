---------------------------- MODULE CleanupProofs ----------------------------
(***************************************************************************)
(* Proofs that a cleanup is completed truly and releases in order, for     *)
(* every set of operations and executors and every plan, wherever          *)
(* executors stop and whatever changes outside.                            *)
(*                                                                         *)
(* Three arguments meet.  A fence has one executor, so what it verified is *)
(* what its completion rests on.  An executor leaves a position out only   *)
(* when its receipt exists, and no receipt is undone.  And the callsign,   *)
(* once released, stays released: an operation planned while another one   *)
(* was blocked can then no longer be opened.                               *)
(***************************************************************************)
EXTENDS Cleanup, FiniteSetTheorems, TLAPS

-----------------------------------------------------------------------------
(* The invariant.                                                          *)

\* e has claimed its operation.
Claimed(e) == run[e].pc \notin {"idle", "claim"}

\* ... and nobody has claimed it since.
Current(e) == Claimed(e) /\ operation[run[e].o].fence = run[e].fence

\* A fence has one executor, and its operation is executing while it is there.
RunsFenced ==
  /\ \A e \in Executors : run[e].pc # "idle" =>
       /\ run[e].o \in Operations /\ operation[run[e].o].state # "none"
       /\ run[e].fence <= operation[run[e].o].fence
  /\ \A e \in Executors : Claimed(e) => run[e].fence > 0
  /\ \A e, d \in Executors :
       Claimed(e) /\ Claimed(d) /\ run[e].o = run[d].o /\ run[e].fence = run[d].fence => e = d
  /\ \A e \in Executors : Current(e) => operation[run[e].o].state = "executing"

AtAction == {"inspect", "apply", "verify", "record"}

\* What is not left to do has its receipt, and the first that is left is next.
RunsInOrder ==
  \A e \in Executors :
    /\ run[e].pc \in {"claim", "read"} => run[e].at = 1
    /\ run[e].pc = "preflight" => run[e].at \in Positions
    /\ run[e].pc \in AtAction =>
         run[e].at \in run[e].todo /\ \A j \in run[e].todo : run[e].at <= j
    /\ run[e].pc = "finalize" => run[e].todo = {}
    /\ run[e].pc \in AtAction \cup {"preflight", "finalize"} =>
         \A j \in Positions \ run[e].todo : action[run[e].o][j] = "completed"

\* What is not left to do was seen in its intended state under this fence.
RunsVerify ==
  \A e \in Executors : Current(e) =>
    /\ run[e].pc = "preflight" =>
         \A j \in Positions \ run[e].todo : j < run[e].at => j \in verified[run[e].o]
    /\ run[e].pc \in AtAction \cup {"finalize"} =>
         \A j \in Positions \ run[e].todo : j \in verified[run[e].o]
    /\ run[e].pc = "record" => run[e].at \in verified[run[e].o]

\* The receipt of a release means a released callsign, and its digest that the
\* operation was claimed.
CallsignsReleased ==
  /\ \A o \in Operations : operation[o].state \in {"none", "planned"} =>
       operation[o].fence = 0 /\ \A i \in Positions : action[o][i] = "planned"
  /\ \A i \in Positions : Plan[i] = "callsign_release" =>
       /\ \A o \in Operations : action[o][i] = "completed" => world[i] \in Gone
       /\ \A e \in Executors : run[e].pc = "record" /\ run[e].at = i => world[i] \in Gone
       /\ \A o \in Operations : world[i] = o => operation[o].fence > 0

\* An operation that is, or may again be, executed.
Live(o) ==
  \/ operation[o].state \in {"planned", "executing", "completed"}
  \/ operation[o].state = "blocked" /\ AllReceipted(o)

\* A planned operation that nobody can open any more.
Stuck(o) ==
  /\ operation[o].state = "planned" /\ Retired
  /\ \A e \in Executors : run[e].pc = "claim" => run[e].o # o

\* Of two live operations one is stuck.
OneLive ==
  /\ \A o \in Operations : operation[o].state # "none" => obligation.owned
  /\ \A o \in Operations : operation[o].state \in {"planned", "executing"} =>
       operation[o].revision = obligation.version \/ AllReceipted(o) \/ Stuck(o)
  /\ \A o, q \in Operations : o # q /\ Live(o) /\ Live(q) => Stuck(o) \/ Stuck(q)
  /\ obligation.state = "cleanup_completed" <=>
       \E o \in Operations : operation[o].state = "completed"

CInv ==
  /\ TypeOK
  /\ RunsFenced /\ RunsInOrder /\ RunsVerify
  /\ CallsignsReleased /\ OneLive /\ CompletionIsVerified

-----------------------------------------------------------------------------
(* Positions.                                                              *)

LEMMA PositionsAreNumbers ==
  Len(Plan) \in Nat \ {0} /\ Positions = 1..Len(Plan) /\ 1 \in Positions
BY CleanupAssumption DEF Positions

LEMMA MinimumExists ==
  ASSUME NEW S \in SUBSET Nat, IsFiniteSet(S), S # {}
  PROVE  \E i \in S : \A j \in S : i <= j
<1> DEFINE Below(i) == {j \in S : j < i}
           T == {Below(i) : i \in S}
           R == StrictSubsetOrdering(S)
           F == FiniteSubsetsOf(S)
<1>1. T # {} /\ T \subseteq F
  <2>1. \A i \in S : IsFiniteSet(Below(i)) /\ Below(i) \in SUBSET S
    BY FS_Subset
  <2> QED BY <2>1 DEF FiniteSubsetsOf
<1>2. IsWellFoundedOn(R, F)
  BY FS_StrictSubsetOrderingWellFounded
<1>3. PICK x \in T : \A y \in T : ~ (<<y, x>> \in R)
  <2> HIDE DEF R, F, T
  <2> QED BY <1>1, <1>2, WFMin
<1>4. PICK i \in S : x = Below(i)
  BY <1>3
<1>5. ASSUME NEW j \in S, j < i
      PROVE  FALSE
  <2>1. Below(j) \subseteq Below(i) /\ j \in Below(i) /\ j \notin Below(j)
    <3>1. i \in Nat /\ j \in Nat /\ j < i
      BY <1>5
    <3>2. ASSUME NEW k \in S, k < j
          PROVE  k < i
      <4>1. k \in Nat
        OBVIOUS
      <4> QED BY <3>1, <3>2, <4>1
    <3>3. ~(j < j)
      BY <3>1
    <3> QED BY <1>5, <3>2, <3>3
  <2>2. <<Below(j), Below(i)>> \in R
    BY <2>1 DEF StrictSubsetOrdering
  <2> QED BY <1>3, <1>4, <2>2
<1> QED BY <1>5

LEMMA FirstIsLeast ==
  ASSUME NEW S \in SUBSET Positions, S # {}
  PROVE  First(S) \in S /\ \A j \in S : First(S) <= j
<1>1. S \subseteq 1..Len(Plan) /\ IsFiniteSet(1..Len(Plan))
  BY PositionsAreNumbers, FS_Interval
<1>2. S \in SUBSET Nat /\ IsFiniteSet(S)
  <2>1. IsFiniteSet(S)
    BY <1>1, FS_Subset
  <2> QED BY <1>1, <2>1, PositionsAreNumbers
<1>3. \E i \in S : \A j \in S : i <= j
  BY <1>2, MinimumExists
<1> QED BY <1>3 DEF First

\* What Begin makes of a run with something or nothing left.
LEMMA BeginIs ==
  ASSUME NEW S \in SUBSET Positions, NEW r
  PROVE  \/ S = {} /\ Begin(S, r) = [r EXCEPT !.pc = "finalize"]
         \/ /\ S # {} /\ Begin(S, r) = [r EXCEPT !.pc = "inspect", !.at = First(S)]
            /\ First(S) \in S /\ First(S) \in Positions /\ \A j \in S : First(S) <= j
<1>1. CASE S = {}
  BY <1>1 DEF Begin
<1>2. CASE S # {}
  <2>1. First(S) \in S /\ \A j \in S : First(S) <= j
    BY <1>2, FirstIsLeast
  <2> QED BY <1>2, <2>1 DEF Begin
<1> QED BY <1>1, <1>2

-----------------------------------------------------------------------------
(* Types.                                                                  *)

\* Where a run can go.
LEMMA RunsClosed ==
  ASSUME NEW r \in Runs
  PROVE  /\ NoRun \in Runs
         /\ \A s \in {"claim", "read", "preflight", "inspect", "apply", "verify", "record",
                      "finalize", "block"} : [r EXCEPT !.pc = s] \in Runs
         /\ \A c \in Codes : [r EXCEPT !.pc = "block", !.code = c] \in Runs
         /\ \A S \in SUBSET Positions : [r EXCEPT !.todo = S] \in Runs
         /\ \A S \in SUBSET Positions : [r EXCEPT !.pc = "preflight", !.todo = S] \in Runs
         /\ r.at \in Positions => [r EXCEPT !.at = @ + 1] \in Runs
         /\ \A S \in SUBSET Positions : Begin(S, r) \in Runs
<1> USE PositionsAreNumbers
<1>1. NoRun \in Runs
  BY CleanupAssumption DEF Runs, NoRun, Codes
<1>2. ASSUME NEW S \in SUBSET Positions
      PROVE  Begin(S, r) \in Runs
  <2>1. CASE S = {} /\ Begin(S, r) = [r EXCEPT !.pc = "finalize"]
    BY <2>1 DEF Runs
  <2>2. CASE First(S) \in Positions /\ Begin(S, r) = [r EXCEPT !.pc = "inspect", !.at = First(S)]
    <3>1. First(S) \in 1..(Len(Plan) + 1)
      BY <2>2
    <3> QED BY <2>2, <3>1 DEF Runs
  <2> QED BY <2>1, <2>2, BeginIs
<1>3. ASSUME NEW s \in {"claim", "read", "preflight", "inspect", "apply", "verify", "record",
                        "finalize", "block"}
      PROVE  [r EXCEPT !.pc = s] \in Runs
  BY DEF Runs
<1>4. ASSUME NEW c \in Codes
      PROVE  [r EXCEPT !.pc = "block", !.code = c] \in Runs
  BY DEF Runs
<1>5. ASSUME NEW S \in SUBSET Positions
      PROVE  [r EXCEPT !.todo = S] \in Runs /\ [r EXCEPT !.pc = "preflight", !.todo = S] \in Runs
  BY DEF Runs
<1>6. ASSUME r.at \in Positions
      PROVE  [r EXCEPT !.at = @ + 1] \in Runs
  BY <1>6 DEF Runs
<1> QED BY <1>1, <1>2, <1>3, <1>4, <1>5, <1>6

LEMMA RunsTyped ==
  ASSUME TypeOK, RunsFenced, RunsInOrder, [Next]_vars
  PROVE  run' \in [Executors -> Runs]
<1> USE PositionsAreNumbers
<1>0. run \in [Executors -> Runs]
  BY DEF TypeOK
<1>1. ASSUME NEW e \in Executors, NEW r \in Runs, run' = [run EXCEPT ![e] = r]
      PROVE  run' \in [Executors -> Runs]
  BY <1>0, <1>1
<1>2. ASSUME NEW e \in Executors, ExecutorStep(e) \/ Stop(e) \/ \E o \in Operations : Open(e, o)
      PROVE  run' \in [Executors -> Runs]
  <2> DEFINE r == run[e]
  <2>0. r \in Runs
    BY <1>0
  <2>1. CASE Stop(e)
    BY <2>1, <2>0, <1>1, RunsClosed DEF Stop, End
  <2>2. ASSUME NEW o \in Operations, Open(e, o)
        PROVE  run' \in [Executors -> Runs]
    <3>1. operation[o].fence \in 0..MaxFence
      BY DEF TypeOK, OperationRows
    <3>2. NoRun \in Runs
      BY <2>0, RunsClosed
    <3>3. [NoRun EXCEPT !.pc = "claim", !.o = o, !.fence = operation[o].fence] \in Runs
      BY <3>1, <3>2 DEF Runs
    <3> QED BY <2>2, <3>3, <1>1 DEF Open
  <2>3. CASE Claim(e)
    <3>1. CASE run[e].fence < MaxFence /\ run' = [run EXCEPT ![e].pc = "read", ![e].fence = @ + 1]
      <4>1. r.fence + 1 \in 0..MaxFence
        BY <2>0, <3>1, CleanupAssumption DEF Runs
      <4>2. [r EXCEPT !.pc = "read", !.fence = @ + 1] \in Runs
        BY <2>0, <4>1 DEF Runs
      <4> QED BY <3>1, <4>2, <1>0
    <3>2. CASE End(e)
      BY <3>2, <2>0, <1>1, RunsClosed DEF End
    <3> QED BY <2>3, <3>1, <3>2 DEF Claim
  <2>4. CASE Read(e)
    <3> DEFINE S == {i \in Positions : action[run[e].o][i] # "completed"}
    <3>1. [r EXCEPT !.pc = "preflight", !.todo = S] \in Runs
      BY <2>0, RunsClosed
    <3>2. run' = [run EXCEPT ![e] = [r EXCEPT !.pc = "preflight", !.todo = S]]
      BY <2>4, <1>0 DEF Read
    <3> QED BY <3>1, <3>2, <1>0
  <2>5. ASSUME NEW s \in {"claim", "read", "preflight", "inspect", "apply", "verify", "record",
                          "finalize", "block"}, Goto(e, s)
        PROVE  run' \in [Executors -> Runs]
    BY <2>5, <2>0, <1>0, RunsClosed DEF Goto
  <2>6. ASSUME NEW c \in Codes, Refuse(e, c)
        PROVE  run' \in [Executors -> Runs]
    BY <2>6, <2>0, <1>0, RunsClosed DEF Refuse
  <2>7. CASE End(e)
    BY <2>7, <2>0, <1>1, RunsClosed DEF End
  <2>8. CASE Preflight(e)
    <3>1. CASE NextPosition(e)
      <4>0. r.todo \in SUBSET Positions
        BY <2>0 DEF Runs
      <4>1. Begin(r.todo, r) \in Runs
        BY <2>0, <4>0, RunsClosed
      <4>2. [r EXCEPT !.at = @ + 1] \in Runs
        <5>1. r.at \in Positions
          BY <2>8 DEF Preflight, At, RunsInOrder
        <5> QED BY <2>0, <5>1, RunsClosed
      <4> QED BY <3>1, <4>1, <4>2, <1>0 DEF NextPosition
    <3> QED BY <2>8, <3>1, <2>6 DEF Preflight, Codes
  <2>9. CASE Record(e)
    <3> DEFINE i == run[e].at
               rest == run[e].todo \ {i}
    <3>1. CASE run' = [run EXCEPT ![e] = Begin(rest, [run[e] EXCEPT !.todo = rest])]
      <4>1. rest \in SUBSET Positions
        BY <2>0 DEF Runs
      <4>2. [r EXCEPT !.todo = rest] \in Runs
        BY <4>1, <2>0, RunsClosed
      <4>3. Begin(rest, [r EXCEPT !.todo = rest]) \in Runs
        BY <4>1, <4>2, RunsClosed
      <4> QED BY <3>1, <4>3, <1>0
    <3> QED BY <2>9, <3>1, <2>6 DEF Record, Codes
  <2>10. CASE Inspect(e)
    BY <2>10, <2>5, <2>6 DEF Inspect, Codes
  <2>11. CASE Apply(e)
    BY <2>11, <2>5, <2>6 DEF Apply, Codes
  <2>12. CASE Verify(e)
    BY <2>12, <2>5, <2>6, <2>7 DEF Verify, Codes
  <2>13. CASE Finalize(e)
    BY <2>13, <2>6, <2>7 DEF Finalize, Codes
  <2>14. CASE Block(e)
    BY <2>14, <2>7 DEF Block
  <2> QED
    BY <1>2, <2>1, <2>2, <2>3, <2>4, <2>8, <2>9, <2>10, <2>11, <2>12, <2>13, <2>14 DEF ExecutorStep
<1>3. CASE UNCHANGED run
  BY <1>0, <1>3
<1> QED
  BY <1>2, <1>3 DEF Next, vars, PlanCleanup, LeaseExpires, Drift, Rebind

LEMMA RowsClosed ==
  ASSUME NEW r \in OperationRows
  PROVE  /\ [r EXCEPT !.leased = FALSE] \in OperationRows
         /\ [r EXCEPT !.state = "completed"] \in OperationRows
         /\ \A c \in Codes :
              [r EXCEPT !.state = "blocked", !.leased = FALSE, !.refusal = c] \in OperationRows
         /\ r.fence < MaxFence =>
              [r EXCEPT !.state = "executing", !.fence = @ + 1, !.leased = TRUE, !.refusal = "none"]
                \in OperationRows
         /\ \A n \in Nat : [Fresh EXCEPT !.state = "planned", !.revision = n] \in OperationRows
<1>1. ASSUME r.fence < MaxFence
      PROVE  [r EXCEPT !.state = "executing", !.fence = @ + 1, !.leased = TRUE, !.refusal = "none"]
               \in OperationRows
  <2>1. r.fence + 1 \in 0..MaxFence
    BY <1>1, CleanupAssumption DEF OperationRows
  <2> QED BY <2>1 DEF OperationRows, Codes
<1>2. ASSUME NEW n \in Nat
      PROVE  [Fresh EXCEPT !.state = "planned", !.revision = n] \in OperationRows
  <2>1. 0 \in 0..MaxFence
    BY CleanupAssumption
  <2> QED BY <2>1 DEF OperationRows, Fresh, Codes
<1>3. [r EXCEPT !.leased = FALSE] \in OperationRows
  BY DEF OperationRows
<1>4. [r EXCEPT !.state = "completed"] \in OperationRows
  BY DEF OperationRows
<1>5. ASSUME NEW c \in Codes
      PROVE  [r EXCEPT !.state = "blocked", !.leased = FALSE, !.refusal = c] \in OperationRows
  BY DEF OperationRows
<1> QED BY <1>1, <1>2, <1>3, <1>4, <1>5

LEMMA ObligationsClosed ==
  ASSUME NEW r \in Obligations
  PROVE  /\ r.version + 1 \in Nat
         /\ \A s \in {"blocked", "cleanup_completed"} :
              [r EXCEPT !.state = s, !.version = @ + 1] \in Obligations
         /\ \A n \in Nat :
              [state |-> "cleanup_pending", version |-> n, owned |-> TRUE] \in Obligations
<1>1. r.version + 1 \in Nat
  BY DEF Obligations
<1>2. ASSUME NEW s \in {"blocked", "cleanup_completed"}
      PROVE  [r EXCEPT !.state = s, !.version = @ + 1] \in Obligations
  BY <1>1 DEF Obligations
<1>3. ASSUME NEW n \in Nat
      PROVE  [state |-> "cleanup_pending", version |-> n, owned |-> TRUE] \in Obligations
  BY DEF Obligations
<1> QED BY <1>1, <1>2, <1>3

LEMMA TypeStep ==
  ASSUME TypeOK, RunsFenced, RunsInOrder, [Next]_vars
  PROVE  TypeOK'
<1> USE PositionsAreNumbers
<1>1. run' \in [Executors -> Runs]
  BY RunsTyped
<1>0. operation \in [Operations -> OperationRows] /\ obligation \in Obligations
  BY DEF TypeOK
<1>2. ASSUME NEW o \in Operations, PlanCleanup(o)
      PROVE  TypeOK'
  <2> DEFINE revision == IF obligation.owned THEN obligation.version ELSE obligation.version + 1
  <2>1. revision \in Nat
    BY <1>0 DEF Obligations
  <2>2. obligation' = obligation
        \/ obligation' = [state |-> "cleanup_pending", version |-> revision, owned |-> TRUE]
    BY <1>2 DEF PlanCleanup
  <2>3. /\ operation' =
             [operation EXCEPT ![o] = [Fresh EXCEPT !.state = "planned", !.revision = revision]]
        /\ operation[o].state = "none"
        /\ UNCHANGED <<action, world, bound, run, verified, drifts>>
    BY <1>2 DEF PlanCleanup
  <2> HIDE DEF revision
  <2>4. [Fresh EXCEPT !.state = "planned", !.revision = revision] \in OperationRows
    BY <1>0, <2>1, RowsClosed
  <2>5. operation' \in [Operations -> OperationRows]
    BY <1>0, <2>3, <2>4
  <2>6. obligation' \in Obligations
    BY <1>0, <2>1, <2>2, ObligationsClosed
  <2>7. expected' \in [Operations -> [Positions -> Identities]]
    BY <1>2 DEF PlanCleanup, TypeOK, Identities
  <2>8. \A q \in Operations, i \in Positions :
          action'[q][i] = "blocked" => operation'[q].state = "blocked"
    BY <2>3 DEF TypeOK
  <2> QED BY <1>1, <2>3, <2>5, <2>6, <2>7, <2>8 DEF TypeOK
<1>3. ASSUME NEW o \in Operations, LeaseExpires(o)
      PROVE  TypeOK'
  <2>1. operation' = [operation EXCEPT ![o] = [operation[o] EXCEPT !.leased = FALSE]]
    BY <1>3 DEF LeaseExpires
  <2>2. operation' \in [Operations -> OperationRows]
    BY <1>0, <2>1, RowsClosed
  <2>3. \A q \in Operations : operation'[q].state = operation[q].state
    BY <1>0, <2>1 DEF OperationRows
  <2> QED BY <1>1, <1>3, <2>2, <2>3 DEF LeaseExpires, TypeOK
<1>4. ASSUME NEW e \in Executors, Claim(e), ~UNCHANGED <<operation, verified>>
      PROVE  TypeOK'
  <2> DEFINE o == run[e].o
  <2>1. o \in Operations
    BY <1>4 DEF Claim, At, RunsFenced
  <2>2. /\ operation' = [operation EXCEPT ![o] = [operation[o] EXCEPT
             !.state = "executing", !.fence = @ + 1, !.leased = TRUE, !.refusal = "none"]]
        /\ verified' = [verified EXCEPT ![o] = {}] /\ MayClaim(o) /\ operation[o].fence < MaxFence
        /\ UNCHANGED <<obligation, action, expected, world, bound, drifts>>
    BY <1>4 DEF Claim
  <2> HIDE DEF o
  <2>3. operation' \in [Operations -> OperationRows]
    BY <1>0, <2>1, <2>2, RowsClosed
  <2>4. \A q \in Operations, i \in Positions :
          action'[q][i] = "blocked" => operation'[q].state = "blocked"
    BY <2>1, <2>2 DEF TypeOK, MayClaim, AllReceipted
  <2>5. verified' \in [Operations -> SUBSET Positions]
    BY <2>2 DEF TypeOK
  <2> QED BY <1>1, <2>2, <2>3, <2>4, <2>5 DEF TypeOK
<1>5. ASSUME NEW e \in Executors, Record(e), action' # action
      PROVE  TypeOK'
  <2> DEFINE o == run[e].o
             i == run[e].at
  <2>1. /\ action' = [action EXCEPT ![o][i] = "completed"]
        /\ UNCHANGED <<obligation, operation, expected, world, bound, verified, drifts>>
    BY <1>5 DEF Record
  <2> HIDE DEF o, i
  <2>2. /\ action' \in [Operations -> [Positions -> {"planned", "completed", "blocked"}]]
        /\ \A q \in Operations, j \in Positions :
             action'[q][j] = "blocked" => operation'[q].state = "blocked"
    BY <2>1 DEF TypeOK
  <2> QED BY <1>1, <2>1, <2>2 DEF TypeOK
<1>6. ASSUME NEW e \in Executors, Finalize(e), ~UNCHANGED <<operation, obligation>>
      PROVE  TypeOK'
  <2> DEFINE o == run[e].o
  <2>1. /\ operation' = [operation EXCEPT ![o].state = "completed"] /\ AllReceipted(o)
        /\ obligation' = [obligation EXCEPT !.state = "cleanup_completed", !.version = @ + 1]
        /\ UNCHANGED <<action, expected, world, bound, verified, drifts>>
    BY <1>6 DEF Finalize
  <2> HIDE DEF o
  <2>2. operation' \in [Operations -> OperationRows]
    BY <1>0, <2>1, RowsClosed
  <2>3. \A q \in Operations, i \in Positions :
          action'[q][i] = "blocked" => operation'[q].state = "blocked"
    BY <2>1 DEF TypeOK, OperationRows, AllReceipted
  <2>4. obligation' \in Obligations
    BY <1>0, <2>1, ObligationsClosed
  <2> QED BY <1>1, <2>1, <2>2, <2>3, <2>4 DEF TypeOK
<1>7. ASSUME NEW e \in Executors, Block(e), ~UNCHANGED <<operation, action, obligation>>
      PROVE  TypeOK'
  <2> DEFINE o == run[e].o
             i == run[e].at
             code == run[e].code
  <2>1. /\ operation' = [operation EXCEPT ![o].state = "blocked", ![o].leased = FALSE,
                                          ![o].refusal = code]
        /\ action' = [action EXCEPT ![o] = [j \in Positions |->
             IF j = i /\ @[j] = "planned" THEN "blocked" ELSE @[j]]]
        /\ obligation' = [obligation EXCEPT !.state = "blocked", !.version = @ + 1]
        /\ UNCHANGED <<expected, world, bound, verified, drifts>>
    BY <1>7 DEF Block
  <2>2. code \in Codes
    BY DEF TypeOK, Runs
  <2> HIDE DEF o, i, code
  <2>3. operation' \in [Operations -> OperationRows]
    BY <1>0, <2>1, <2>2, RowsClosed
  <2>4. action' \in [Operations -> [Positions -> {"planned", "completed", "blocked"}]]
    BY <2>1 DEF TypeOK
  <2>5. \A q \in Operations, j \in Positions :
          action'[q][j] = "blocked" => operation'[q].state = "blocked"
    BY <2>1 DEF TypeOK, OperationRows
  <2>6. obligation' \in Obligations
    BY <1>0, <2>1, ObligationsClosed
  <2> QED BY <1>1, <2>1, <2>3, <2>4, <2>5, <2>6 DEF TypeOK
<1>8. ASSUME NEW e \in Executors, Preflight(e) \/ Inspect(e) \/ Verify(e)
      PROVE  TypeOK'
  <2>1. run[e].at \in Positions
    BY <1>8 DEF Preflight, Inspect, Verify, At, RunsInOrder, AtAction, TypeOK, Runs
  <2>2. verified' \in [Operations -> SUBSET Positions]
    BY <1>8, <2>1 DEF Preflight, Inspect, Verify, Verified, TypeOK
  <2> QED BY <1>1, <1>8, <2>2 DEF Preflight, Inspect, Verify, TypeOK
<1>9. ASSUME NEW e \in Executors, Apply(e)
      PROVE  TypeOK'
  <2>1. run[e].o \in Operations
    BY <1>9 DEF Apply, At, RunsFenced
  <2>2. world' \in [Positions -> Identities \cup Gone]
    BY <1>9, <2>1 DEF Apply, Effect, Gone, TypeOK
  <2> QED BY <1>1, <1>9, <2>2 DEF Apply, TypeOK
<1>10. ASSUME NEW i \in Positions, Drift(i)
       PROVE  TypeOK'
  <2>1. world' \in [Positions -> Identities \cup Gone]
    BY <1>10 DEF Drift, TypeOK, Gone
  <2>2. drifts' \in 0..MaxDrifts
    BY <1>10, CleanupAssumption DEF Drift, TypeOK
  <2> QED BY <1>1, <1>10, <2>1, <2>2 DEF Drift, TypeOK
<1>11. CASE Rebind
  <2>1. bound' \in BOOLEAN /\ drifts' \in 0..MaxDrifts
    BY <1>11, CleanupAssumption DEF Rebind, TypeOK
  <2> QED BY <1>1, <1>11, <2>1 DEF Rebind, TypeOK
<1>12. CASE UNCHANGED <<obligation, operation, action, expected, world, bound, verified, drifts>>
  BY <1>1, <1>12 DEF TypeOK
<1> QED
  BY <1>2, <1>3, <1>4, <1>5, <1>6, <1>7, <1>8, <1>9, <1>10, <1>11, <1>12
     DEF Next, ExecutorStep, vars, Claim, Read, Record, Finalize, Block, Stop, Open

-----------------------------------------------------------------------------
(* Fences.                                                                 *)

\* e goes on with the same operation under the same fence.
GoesOn(e) ==
  /\ run'[e].o = run[e].o /\ run'[e].fence = run[e].fence
  /\ run'[e].pc = "idle" <=> run[e].pc = "idle"
  /\ run'[e].pc = "claim" <=> run[e].pc = "claim"

\* An executor that neither opens, claims nor ends goes on.
LEMMA RunFrame ==
  ASSUME TypeOK, NEW e \in Executors,
         Read(e) \/ Preflight(e) \/ Inspect(e) \/ Apply(e) \/ Verify(e) \/ Record(e) \/ Finalize(e)
  PROVE  End(e) \/ \A d \in Executors : GoesOn(d)
<1>1. run \in [Executors -> Runs]
  BY DEF TypeOK
<1>2. ASSUME NEW s \in AtAction, Goto(e, s), ~At(e, "idle"), ~At(e, "claim")
      PROVE  \A d \in Executors : GoesOn(d)
  BY <1>1, <1>2 DEF Goto, GoesOn, AtAction, Runs, At
<1>3. ASSUME NEW c \in Codes, Refuse(e, c), ~At(e, "idle"), ~At(e, "claim")
      PROVE  \A d \in Executors : GoesOn(d)
  BY <1>1, <1>3 DEF Refuse, GoesOn, Runs, At
<1>4. ASSUME NEW S \in SUBSET Positions, NEW r \in Runs, run' = [run EXCEPT ![e] = Begin(S, r)],
             r.o = run[e].o, r.fence = run[e].fence, ~At(e, "idle"), ~At(e, "claim")
      PROVE  \A d \in Executors : GoesOn(d)
  <2>1. CASE S = {}
    <3>1. Begin(S, r) = [r EXCEPT !.pc = "finalize"]
      BY <2>1, BeginIs
    <3> QED BY <1>1, <1>4, <3>1 DEF GoesOn, Runs, At
  <2>2. CASE S # {}
    <3>1. Begin(S, r) = [r EXCEPT !.pc = "inspect", !.at = First(S)]
      BY <2>2, BeginIs
    <3> QED BY <1>1, <1>4, <3>1 DEF GoesOn, Runs, At
  <2> QED BY <2>1, <2>2
<1>5. CASE Read(e)
  BY <1>1, <1>5 DEF Read, GoesOn, Runs, At
<1>6. CASE Preflight(e)
  <2>1. CASE NextPosition(e)
    <3>1. CASE run[e].at = Len(Plan)
      <4>1. run[e].todo \in SUBSET Positions /\ run[e] \in Runs
        BY <1>1 DEF Runs
      <4> QED BY <1>4, <1>6, <2>1, <3>1, <4>1 DEF NextPosition, Preflight, At
    <3>2. CASE run[e].at # Len(Plan)
      BY <1>1, <1>6, <2>1, <3>2 DEF NextPosition, Preflight, GoesOn, Runs, At
    <3> QED BY <3>1, <3>2
  <2> QED BY <1>3, <1>6, <2>1 DEF Preflight, Codes, At
<1>7. CASE Inspect(e)
  BY <1>2, <1>3, <1>7 DEF Inspect, Codes, At, AtAction
<1>8. CASE Apply(e)
  BY <1>2, <1>3, <1>8 DEF Apply, Codes, At, AtAction
<1>9. CASE Verify(e)
  BY <1>2, <1>3, <1>9 DEF Verify, Codes, At, AtAction
<1>10. CASE Record(e)
  <2> DEFINE rest == run[e].todo \ {run[e].at}
             r == [run[e] EXCEPT !.todo = rest]
  <2>1. CASE run' = [run EXCEPT ![e] = Begin(rest, r)]
    <3>1. rest \in SUBSET Positions
      BY <1>1 DEF Runs
    <3>2. r \in Runs
      BY <3>1, <1>1, RunsClosed
    <3>3. r.o = run[e].o /\ r.fence = run[e].fence
      BY <1>1 DEF Runs
    <3> HIDE DEF rest, r
    <3> QED BY <1>4, <1>10, <2>1, <3>1, <3>2, <3>3 DEF Record, At
  <2> QED BY <1>3, <1>10, <2>1 DEF Record, Codes, At
<1>11. CASE Finalize(e)
  BY <1>3, <1>11 DEF Finalize, Codes, At
<1> QED
  BY <1>5, <1>6, <1>7, <1>8, <1>9, <1>10, <1>11

\* What changes the operations, and with them who holds which fence.
LEMMA OperationFrame ==
  ASSUME TypeOK, [Next]_vars
  PROVE  \/ \E o \in Operations : PlanCleanup(o) \/ LeaseExpires(o)
         \/ \E e \in Executors, o \in Operations : Open(e, o)
         \/ \E e \in Executors : Claim(e) /\ ~End(e)
         \/ \E e \in Executors :
              Finalize(e) /\ End(e) /\ operation' = [operation EXCEPT ![run[e].o].state = "completed"]
         \/ \E e \in Executors : Block(e) /\ Fenced(e)
         \/ UNCHANGED <<operation, obligation>> /\ \E e \in Executors : End(e)
         \/ UNCHANGED <<operation, obligation>> /\ \A e \in Executors : GoesOn(e)
<1>1. ASSUME NEW e \in Executors, Claim(e), End(e)
      PROVE  UNCHANGED <<operation, obligation>>
  <2>1. run'[e] = NoRun
    BY <1>1 DEF End, TypeOK
  <2>2. run[e] \in Runs
    BY DEF TypeOK
  <2>3. [run EXCEPT ![e].pc = "read", ![e].fence = @ + 1][e].pc = "read"
    BY <2>2 DEF TypeOK, Runs
  <2>4. NoRun.pc # "read"
    BY DEF NoRun
  <2> QED BY <1>1, <2>1, <2>3, <2>4 DEF Claim
<1>2. ASSUME NEW e \in Executors, Finalize(e)
      PROVE  \/ End(e) /\ operation' = [operation EXCEPT ![run[e].o].state = "completed"]
             \/ UNCHANGED <<operation, obligation>>
  BY <1>2 DEF Finalize
<1>3. ASSUME NEW e \in Executors, Block(e)
      PROVE  Fenced(e) \/ (UNCHANGED <<operation, obligation>> /\ End(e))
  BY <1>3 DEF Block
<1>4. ASSUME NEW e \in Executors, Stop(e)
      PROVE  UNCHANGED <<operation, obligation>> /\ End(e)
  BY <1>4 DEF Stop
<1>5. ASSUME NEW e \in Executors,
             Read(e) \/ Preflight(e) \/ Inspect(e) \/ Apply(e) \/ Verify(e) \/ Record(e)
      PROVE  UNCHANGED <<operation, obligation>>
  BY <1>5 DEF Read, Preflight, Inspect, Apply, Verify, Record
<1>6. ASSUME UNCHANGED run
      PROVE  \A e \in Executors : GoesOn(e)
  BY <1>6 DEF GoesOn
<1>7. ASSUME NEW i \in Positions, Drift(i)
      PROVE  UNCHANGED <<operation, obligation, run>>
  BY <1>7 DEF Drift
<1>8. CASE Rebind \/ UNCHANGED vars
  BY <1>6, <1>8 DEF Rebind, vars
<1> QED
  BY <1>1, <1>2, <1>3, <1>4, <1>5, <1>6, <1>7, <1>8, RunFrame DEF Next, ExecutorStep

\* A fence never goes back.
LEMMA FencedStep ==
  ASSUME TypeOK, RunsFenced, CallsignsReleased, TypeOK', [Next]_vars
  PROVE  RunsFenced'
<1>0. /\ run \in [Executors -> Runs] /\ operation \in [Operations -> OperationRows]
      /\ run' \in [Executors -> Runs]
      /\ \A o \in Operations : operation[o].fence \in Nat /\ operation'[o].fence \in Nat
      /\ \A e \in Executors : run[e].fence \in Nat /\ run'[e].fence \in Nat
  BY CleanupAssumption DEF TypeOK, OperationRows, Runs
<1>1. ASSUME NEW o \in Operations, PlanCleanup(o)
      PROVE  RunsFenced'
  <2>1. /\ operation[o].state = "none"
        /\ operation'[o].state = "planned"
        /\ \A q \in Operations : q # o => operation'[q] = operation[q]
        /\ run' = run
    BY <1>0, <1>1 DEF PlanCleanup, Fresh
  <2>2. \A e \in Executors : run[e].pc # "idle" => run[e].o # o
    BY <2>1 DEF RunsFenced
  <2> QED BY <2>1, <2>2 DEF RunsFenced, Claimed, Current
<1>2. ASSUME NEW o \in Operations, LeaseExpires(o)
      PROVE  RunsFenced'
  <2>1. run' = run /\ \A q \in Operations :
          operation'[q].state = operation[q].state /\ operation'[q].fence = operation[q].fence
    BY <1>0, <1>2 DEF LeaseExpires, OperationRows
  <2> QED BY <2>1 DEF RunsFenced, Claimed, Current
<1>3. ASSUME NEW e \in Executors, NEW o \in Operations, Open(e, o)
      PROVE  RunsFenced'
  <2>1. /\ operation' = operation /\ operation[o].state # "none"
        /\ run'[e].pc = "claim" /\ run'[e].o = o /\ run'[e].fence = operation[o].fence
        /\ \A d \in Executors : d # e => run'[d] = run[d]
    BY <1>0, <1>3 DEF Open, NoRun
  <2> QED BY <1>0, <2>1 DEF RunsFenced, Claimed, Current
<1>4. ASSUME NEW e \in Executors, Claim(e), ~End(e)
      PROVE  RunsFenced'
  <2> DEFINE o == run[e].o
  <2>1. /\ o \in Operations /\ run'[e].pc = "read" /\ run'[e].o = o
        /\ run'[e].fence = run[e].fence + 1
        /\ \A d \in Executors : d # e => run'[d] = run[d]
    BY <1>0, <1>4 DEF Claim, At, RunsFenced, Runs
  <2>2. /\ operation'[o].state = "executing" /\ operation'[o].fence = operation[o].fence + 1
        /\ operation[o].fence = run[e].fence
        /\ \A q \in Operations : q # o => operation'[q] = operation[q]
    BY <1>0, <1>4, <2>1 DEF Claim, OperationRows
  <2> HIDE DEF o
  <2>3. \A d \in Executors : d # e /\ run[d].pc # "idle" /\ run[d].o = o =>
          run[d].fence < run'[e].fence
    BY <1>0, <2>1, <2>2 DEF RunsFenced
  <2> QED BY <1>0, <2>1, <2>2, <2>3 DEF RunsFenced, Claimed, Current
<1>5. ASSUME NEW e \in Executors, End(e),
             \A o \in Operations : operation'[o].fence = operation[o].fence,
             \A o \in Operations : o # run[e].o => operation'[o] = operation[o],
             Current(e) \/ operation' = operation,
             \A o \in Operations : operation[o].state # "none" => operation'[o].state # "none"
      PROVE  RunsFenced'
  <2>1. run'[e].pc = "idle" /\ \A d \in Executors : d # e => run'[d] = run[d]
    BY <1>0, <1>5 DEF End, NoRun
  <2> QED BY <1>0, <1>5, <2>1 DEF RunsFenced, Claimed, Current
<1>6. ASSUME NEW e \in Executors, Finalize(e), End(e),
             operation' = [operation EXCEPT ![run[e].o].state = "completed"]
      PROVE  RunsFenced'
  <2>1. run[e].o \in Operations /\ (Current(e) \/ operation' = operation)
    BY <1>6 DEF Finalize, At, RunsFenced, Current, Claimed
  <2>2. \A o \in Operations : /\ operation'[o].fence = operation[o].fence
                              /\ o # run[e].o => operation'[o] = operation[o]
                              /\ operation[o].state # "none" => operation'[o].state # "none"
    BY <1>0, <1>6, <2>1 DEF OperationRows
  <2> QED BY <1>5, <1>6, <2>1, <2>2
<1>7. ASSUME NEW e \in Executors, Block(e), Fenced(e)
      PROVE  RunsFenced'
  <2>1. run[e].o \in Operations /\ Current(e)
    BY <1>7 DEF Block, At, RunsFenced, Current, Claimed, Fenced
  <2>2. \A o \in Operations : /\ operation'[o].fence = operation[o].fence
                              /\ o # run[e].o => operation'[o] = operation[o]
                              /\ operation[o].state # "none" => operation'[o].state # "none"
    BY <1>0, <1>7, <2>1 DEF OperationRows, Block
  <2> QED BY <1>5, <1>7, <2>1, <2>2 DEF Block
<1>8. ASSUME NEW e \in Executors, operation' = operation, End(e)
      PROVE  RunsFenced'
  BY <1>5, <1>8
<1>9. ASSUME operation' = operation, \A e \in Executors : GoesOn(e)
      PROVE  RunsFenced'
  BY <1>9 DEF RunsFenced, GoesOn, Claimed, Current
<1> QED
  BY <1>1, <1>2, <1>3, <1>4, <1>6, <1>7, <1>8, <1>9, OperationFrame

-----------------------------------------------------------------------------
(* Receipts and what they rest on.                                         *)

\* No receipt is undone.
LEMMA ReceiptsKept ==
  ASSUME TypeOK, [Next]_vars, NEW o \in Operations, NEW j \in Positions,
         action[o][j] = "completed"
  PROVE  action'[o][j] = "completed"
<1>1. ASSUME NEW e \in Executors, Record(e)
      PROVE  action'[o][j] = "completed"
  BY <1>1 DEF Record, TypeOK
<1>2. ASSUME NEW e \in Executors, Block(e)
      PROVE  action'[o][j] = "completed"
  <2> DEFINE q == run[e].o
             i == run[e].at
  <2>1. action' = [action EXCEPT ![q] = [k \in Positions |->
            IF k = i /\ @[k] = "planned" THEN "blocked" ELSE @[k]]] \/ action' = action
    BY <1>2 DEF Block
  <2> HIDE DEF q, i
  <2> QED BY <2>1 DEF TypeOK
<1>3. CASE UNCHANGED action
  BY <1>3
<1> QED
  BY <1>1, <1>2, <1>3 DEF Next, ExecutorStep, vars, PlanCleanup, LeaseExpires, Claim, Read, Preflight,
     Inspect, Apply, Verify, Finalize, Stop, Open, Drift, Rebind

\* What e did not do, another executor did.
LEMMA OthersStay ==
  ASSUME TypeOK, NEW e \in Executors,
         ExecutorStep(e) \/ Stop(e) \/ \E o \in Operations : Open(e, o)
  PROVE  \A d \in Executors : d # e => run'[d] = run[d]
<1>1. run \in [Executors -> Runs]
  BY DEF TypeOK
<1> QED
  BY <1>1 DEF ExecutorStep, Claim, Read, Preflight, Inspect, Apply, Verify, Record, Finalize, Block,
     Stop, Open, End, Goto, Refuse, NextPosition

\* The step of e itself.
LEMMA InOrderStep ==
  ASSUME TypeOK, RunsFenced, RunsInOrder, TypeOK', [Next]_vars, NEW e \in Executors,
         ExecutorStep(e) \/ Stop(e) \/ \E o \in Operations : Open(e, o)
  PROVE  /\ run'[e].pc \in {"claim", "read"} => run'[e].at = 1
         /\ run'[e].pc = "preflight" => run'[e].at \in Positions
         /\ run'[e].pc \in AtAction =>
              run'[e].at \in run'[e].todo /\ \A j \in run'[e].todo : run'[e].at <= j
         /\ run'[e].pc = "finalize" => run'[e].todo = {}
         /\ run'[e].pc \in AtAction \cup {"preflight", "finalize"} =>
              \A j \in Positions \ run'[e].todo : action'[run'[e].o][j] = "completed"
<1> DEFINE Ordered ==
             /\ run'[e].pc \in {"claim", "read"} => run'[e].at = 1
             /\ run'[e].pc = "preflight" => run'[e].at \in Positions
             /\ run'[e].pc \in AtAction =>
                  run'[e].at \in run'[e].todo /\ \A j \in run'[e].todo : run'[e].at <= j
             /\ run'[e].pc = "finalize" => run'[e].todo = {}
             /\ run'[e].pc \in AtAction \cup {"preflight", "finalize"} =>
                  \A j \in Positions \ run'[e].todo : action'[run'[e].o][j] = "completed"
<1>0. run \in [Executors -> Runs] /\ run' \in [Executors -> Runs] /\ run[e] \in Runs
  BY DEF TypeOK
<1>1. CASE End(e) \/ \E c \in Codes : Refuse(e, c)
  <2>1. run'[e].pc = "idle" \/ run'[e].pc = "block"
    BY <1>0, <1>1 DEF End, Refuse, NoRun, Runs
  <2> QED BY <2>1 DEF AtAction
<1>2. ASSUME NEW s \in AtAction, Goto(e, s), run[e].pc \in AtAction
      PROVE  Ordered
  <2>1. /\ run'[e].pc = s /\ run'[e].at = run[e].at /\ run'[e].todo = run[e].todo
        /\ run'[e].o = run[e].o
    BY <1>0, <1>2 DEF Goto, Runs
  <2>2. run[e].o \in Operations
    BY <1>2 DEF RunsFenced, AtAction
  <2>3. \A j \in Positions \ run[e].todo : action[run[e].o][j] = "completed"
    BY <1>2 DEF RunsInOrder
  <2>4. \A j \in Positions \ run[e].todo : action'[run[e].o][j] = "completed"
    BY <2>2, <2>3, ReceiptsKept
  <2>5. run[e].at \in run[e].todo /\ \A j \in run[e].todo : run[e].at <= j
    BY <1>2 DEF RunsInOrder
  <2> QED BY <2>1, <2>4, <2>5 DEF AtAction
<1>3. ASSUME NEW S \in SUBSET Positions, NEW r \in Runs, run' = [run EXCEPT ![e] = Begin(S, r)],
             r.o = run[e].o, r.todo = S,
             \A j \in Positions \ S : action'[run[e].o][j] = "completed"
      PROVE  Ordered
  <2>1. CASE S = {}
    <3>1. Begin(S, r) = [r EXCEPT !.pc = "finalize"]
      BY <2>1, BeginIs
    <3>2. run'[e].pc = "finalize" /\ run'[e].todo = S /\ run'[e].o = run[e].o
      BY <1>0, <1>3, <3>1 DEF Runs
    <3> QED BY <1>3, <2>1, <3>2 DEF AtAction
  <2>2. CASE S # {}
    <3>1. /\ Begin(S, r) = [r EXCEPT !.pc = "inspect", !.at = First(S)]
          /\ First(S) \in S /\ \A j \in S : First(S) <= j
      BY <2>2, BeginIs
    <3>2. /\ run'[e].pc = "inspect" /\ run'[e].todo = S /\ run'[e].o = run[e].o
          /\ run'[e].at = First(S)
      BY <1>0, <1>3, <3>1 DEF Runs
    <3> QED BY <1>3, <3>1, <3>2 DEF AtAction
  <2> QED BY <2>1, <2>2
<1>4. ASSUME NEW o \in Operations, Open(e, o)
      PROVE  Ordered
  <2>1. run'[e].pc = "claim" /\ run'[e].at = 1
    BY <1>0, <1>4 DEF Open, NoRun
  <2> QED BY <2>1 DEF AtAction
<1>5. CASE Claim(e) /\ ~End(e)
  <2>1. run'[e].pc = "read" /\ run'[e].at = run[e].at /\ run[e].pc = "claim"
    BY <1>0, <1>5 DEF Claim, At, Runs
  <2> QED BY <2>1 DEF RunsInOrder, AtAction
<1>6. CASE Read(e)
  <2> DEFINE S == {i \in Positions : action[run[e].o][i] # "completed"}
  <2>1. /\ run'[e].pc = "preflight" /\ run'[e].at = run[e].at /\ run'[e].todo = S
        /\ run'[e].o = run[e].o /\ action' = action /\ run[e].pc = "read"
    BY <1>0, <1>6 DEF Read, At, Runs
  <2> QED BY <2>1, PositionsAreNumbers DEF RunsInOrder, AtAction
<1>7. CASE Preflight(e) /\ NextPosition(e)
  <2>1. /\ run[e].at \in Positions /\ action' = action /\ run[e].todo \in SUBSET Positions
        /\ \A j \in Positions \ run[e].todo : action[run[e].o][j] = "completed"
    BY <1>0, <1>7 DEF Preflight, At, RunsInOrder, AtAction, Runs
  <2>2. CASE run[e].at = Len(Plan)
    BY <1>0, <1>3, <1>7, <2>1, <2>2 DEF NextPosition
  <2>3. CASE run[e].at # Len(Plan)
    <3>1. /\ run'[e].pc = "preflight" /\ run'[e].at = run[e].at + 1
          /\ run'[e].todo = run[e].todo /\ run'[e].o = run[e].o
      BY <1>0, <1>7, <2>3 DEF NextPosition, Preflight, At, Runs
    <3>2. run[e].at + 1 \in Positions
      BY <2>1, <2>3, PositionsAreNumbers
    <3> QED BY <2>1, <3>1, <3>2 DEF AtAction
  <2> QED BY <2>2, <2>3
<1>8. CASE Record(e) /\ Fenced(e)
  <2> DEFINE rest == run[e].todo \ {run[e].at}
             r == [run[e] EXCEPT !.todo = rest]
  <2>1. /\ run' = [run EXCEPT ![e] = Begin(rest, r)] /\ run[e].pc = "record"
        /\ action' = [action EXCEPT ![run[e].o][run[e].at] = "completed"]
    BY <1>8 DEF Record, At
  <2>2. rest \in SUBSET Positions /\ run[e].todo \in SUBSET Positions
    BY <1>0 DEF Runs
  <2>3. r \in Runs
    BY <1>0, <2>2, RunsClosed
  <2>4. r.o = run[e].o /\ r.todo = rest
    BY <1>0 DEF Runs
  <2>5. run[e].o \in Operations /\ run[e].at \in run[e].todo
    BY <2>1 DEF RunsFenced, RunsInOrder, AtAction
  <2>6. \A j \in Positions \ run[e].todo : action'[run[e].o][j] = "completed"
    BY <2>1, <2>5, ReceiptsKept DEF RunsInOrder, AtAction
  <2>7. action'[run[e].o][run[e].at] = "completed"
    BY <2>1, <2>2, <2>5 DEF TypeOK
  <2>8. \A j \in Positions \ rest : action'[run[e].o][j] = "completed"
    BY <2>6, <2>7
  <2> HIDE DEF rest, r
  <2> QED BY <1>3, <2>1, <2>2, <2>3, <2>4, <2>8
<1>9. CASE Inspect(e) \/ Apply(e) \/ Verify(e)
  BY <1>1, <1>2, <1>9 DEF Inspect, Apply, Verify, At, AtAction, Codes
<1>10. CASE Finalize(e) \/ Block(e) \/ Stop(e)
  BY <1>1, <1>10 DEF Finalize, Block, Stop, Codes
<1>11. CASE Preflight(e) /\ ~NextPosition(e)
  BY <1>1, <1>11 DEF Preflight, Codes
<1>12. CASE Record(e) /\ ~Fenced(e)
  BY <1>1, <1>12 DEF Record, Codes
<1> QED
  BY <1>1, <1>4, <1>5, <1>6, <1>7, <1>8, <1>9, <1>10, <1>11, <1>12 DEF ExecutorStep

LEMMA OrderStep ==
  ASSUME TypeOK, RunsFenced, RunsInOrder, TypeOK', [Next]_vars
  PROVE  RunsInOrder'
<1>1. ASSUME NEW d \in Executors, run'[d] = run[d]
      PROVE  /\ run'[d].pc \in {"claim", "read"} => run'[d].at = 1
             /\ run'[d].pc = "preflight" => run'[d].at \in Positions
             /\ run'[d].pc \in AtAction =>
                  run'[d].at \in run'[d].todo /\ \A j \in run'[d].todo : run'[d].at <= j
             /\ run'[d].pc = "finalize" => run'[d].todo = {}
             /\ run'[d].pc \in AtAction \cup {"preflight", "finalize"} =>
                  \A j \in Positions \ run'[d].todo : action'[run'[d].o][j] = "completed"
  <2>1. ASSUME run[d].pc \in AtAction \cup {"preflight", "finalize"}, NEW j \in Positions \ run[d].todo
        PROVE  action'[run[d].o][j] = "completed"
    <3>1. run[d].o \in Operations /\ action[run[d].o][j] = "completed"
      BY <2>1 DEF RunsFenced, RunsInOrder, AtAction
    <3> QED BY <3>1, ReceiptsKept
  <2> QED BY <1>1, <2>1 DEF RunsInOrder
<1>2. CASE UNCHANGED run
  BY <1>1, <1>2 DEF RunsInOrder
<1>3. ASSUME NEW e \in Executors, ExecutorStep(e) \/ Stop(e) \/ \E o \in Operations : Open(e, o)
      PROVE  RunsInOrder'
  BY <1>1, <1>3, OthersStay, InOrderStep DEF RunsInOrder
<1> QED
  BY <1>2, <1>3 DEF Next, vars, PlanCleanup, LeaseExpires, Drift, Rebind

\* What was verified stays verified under its fence.
LEMMA VerifiedFrame ==
  ASSUME TypeOK, [Next]_vars, NEW o \in Operations
  PROVE  /\ operation[o].state # "none" => operation'[o].fence >= operation[o].fence
         /\ verified[o] \subseteq verified'[o] \/ operation'[o].fence > operation[o].fence
<1>0. /\ operation \in [Operations -> OperationRows] /\ verified \in [Operations -> SUBSET Positions]
      /\ operation[o].fence \in Nat
      /\ operation[o].fence >= operation[o].fence /\ operation[o].fence + 1 > operation[o].fence
      /\ operation[o].fence + 1 >= operation[o].fence
  BY CleanupAssumption DEF TypeOK, OperationRows
<1>1. ASSUME NEW e \in Executors, Claim(e)
      PROVE  \/ operation'[o] = operation[o] /\ verified'[o] = verified[o]
             \/ operation'[o].fence = operation[o].fence + 1
  <2> DEFINE q == run[e].o
  <2>1. \/ UNCHANGED <<operation, verified>>
        \/ /\ operation' = [operation EXCEPT ![q].state = "executing", ![q].fence = @ + 1,
                                             ![q].leased = TRUE, ![q].refusal = "none"]
           /\ verified' = [verified EXCEPT ![q] = {}]
    BY <1>1 DEF Claim
  <2> HIDE DEF q
  <2>2. CASE o = q
    BY <1>0, <2>1, <2>2 DEF OperationRows
  <2>3. CASE o # q
    BY <1>0, <2>1, <2>3
  <2> QED BY <2>2, <2>3
<1>2. ASSUME NEW e \in Executors, Preflight(e) \/ Inspect(e) \/ Verify(e)
      PROVE  operation'[o] = operation[o] /\ verified[o] \subseteq verified'[o]
  <2>1. operation' = operation /\ (verified' = verified \/ Verified(e, run[e].at))
    BY <1>2 DEF Preflight, Inspect, Verify
  <2> QED BY <1>0, <2>1 DEF Verified
<1>3. ASSUME NEW e \in Executors, Finalize(e) \/ Block(e)
      PROVE  operation'[o].fence = operation[o].fence /\ verified'[o] = verified[o]
  <2> DEFINE q == run[e].o
             code == run[e].code
  <2>1. /\ verified' = verified
        /\ \/ operation' = operation
           \/ operation' = [operation EXCEPT ![q].state = "completed"]
           \/ operation' = [operation EXCEPT ![q].state = "blocked", ![q].leased = FALSE,
                                             ![q].refusal = code]
    BY <1>3 DEF Finalize, Block
  <2> HIDE DEF q, code
  <2> QED BY <1>0, <2>1 DEF OperationRows
<1>4. ASSUME NEW q \in Operations, PlanCleanup(q)
      PROVE  /\ operation[o].state # "none" => operation'[o].fence = operation[o].fence
             /\ verified'[o] = verified[o]
  BY <1>0, <1>4 DEF PlanCleanup
<1>5. ASSUME NEW q \in Operations, LeaseExpires(q)
      PROVE  operation'[o].fence = operation[o].fence /\ verified'[o] = verified[o]
  BY <1>0, <1>5 DEF LeaseExpires, OperationRows
<1>6. CASE UNCHANGED <<operation, verified>>
  BY <1>0, <1>6
<1> QED
  BY <1>0, <1>1, <1>2, <1>3, <1>4, <1>5, <1>6
     DEF Next, ExecutorStep, vars, Read, Apply, Record, Stop, Open, Drift, Rebind

\* The step of e itself.
LEMMA VerifyingStep ==
  ASSUME TypeOK, RunsFenced, RunsInOrder, RunsVerify, TypeOK', [Next]_vars, NEW e \in Executors,
         ExecutorStep(e) \/ Stop(e) \/ \E o \in Operations : Open(e, o),
         Current(e)'
  PROVE  /\ run'[e].pc = "preflight" =>
              \A j \in Positions \ run'[e].todo : j < run'[e].at => j \in verified'[run'[e].o]
         /\ run'[e].pc \in AtAction \cup {"finalize"} =>
              \A j \in Positions \ run'[e].todo : j \in verified'[run'[e].o]
         /\ run'[e].pc = "record" => run'[e].at \in verified'[run'[e].o]
<1> DEFINE o == run[e].o
           Seen == /\ run'[e].pc = "preflight" =>
                        \A j \in Positions \ run'[e].todo :
                          j < run'[e].at => j \in verified'[run'[e].o]
                   /\ run'[e].pc \in AtAction \cup {"finalize"} =>
                        \A j \in Positions \ run'[e].todo : j \in verified'[run'[e].o]
                   /\ run'[e].pc = "record" => run'[e].at \in verified'[run'[e].o]
<1>0. /\ run \in [Executors -> Runs] /\ run' \in [Executors -> Runs] /\ run[e] \in Runs
      /\ verified \in [Operations -> SUBSET Positions] /\ run'[e].fence = operation'[run'[e].o].fence
  BY DEF TypeOK, Current
<1>1. CASE End(e) \/ \E c \in Codes : Refuse(e, c)
  <2>1. run'[e].pc = "idle" \/ run'[e].pc = "block"
    BY <1>0, <1>1 DEF End, Refuse, NoRun, Runs
  <2> QED BY <2>1 DEF AtAction
<1>2. ASSUME run[e].pc \in AtAction \cup {"preflight"}, operation' = operation, GoesOn(e)
      PROVE  Current(e) /\ o \in Operations /\ run'[e].o = o
  BY <1>0, <1>2 DEF Current, Claimed, AtAction, GoesOn, RunsFenced
<1>3. ASSUME NEW s \in AtAction, Goto(e, s), run[e].pc \in AtAction, operation' = operation,
             verified[o] \subseteq verified'[o], s = "record" => run[e].at \in verified'[o]
      PROVE  Seen
  <2>1. /\ run'[e].pc = s /\ run'[e].at = run[e].at /\ run'[e].todo = run[e].todo
        /\ run'[e].o = o /\ GoesOn(e)
    BY <1>0, <1>3 DEF Goto, Runs, GoesOn, AtAction
  <2>2. Current(e)
    BY <1>2, <1>3, <2>1
  <2>3. \A j \in Positions \ run[e].todo : j \in verified'[o]
    BY <1>3, <2>2 DEF RunsVerify
  <2> QED BY <1>3, <2>1, <2>3 DEF AtAction
<1>4. ASSUME NEW S \in SUBSET Positions, NEW r \in Runs, run' = [run EXCEPT ![e] = Begin(S, r)],
             r.o = o, r.todo = S, \A j \in Positions \ S : j \in verified'[o]
      PROVE  Seen
  <2>1. /\ run'[e].pc \in {"inspect", "finalize"} /\ run'[e].todo = S /\ run'[e].o = o
    <3>1. CASE S = {}
      <4>1. Begin(S, r) = [r EXCEPT !.pc = "finalize"]
        BY <3>1, BeginIs
      <4> QED BY <1>0, <1>4, <4>1 DEF Runs
    <3>2. CASE S # {}
      <4>1. Begin(S, r) = [r EXCEPT !.pc = "inspect", !.at = First(S)]
        BY <3>2, BeginIs
      <4> QED BY <1>0, <1>4, <4>1 DEF Runs
    <3> QED BY <3>1, <3>2
  <2> QED BY <1>4, <2>1
<1>5. ASSUME NEW q \in Operations, Open(e, q)
      PROVE  Seen
  <2>1. run'[e].pc = "claim"
    BY <1>0, <1>5 DEF Open, NoRun
  <2> QED BY <2>1 DEF AtAction
<1>6. CASE Claim(e) /\ ~End(e)
  <2>1. run'[e].pc = "read"
    BY <1>0, <1>6 DEF Claim, At, Runs
  <2> QED BY <2>1 DEF AtAction
<1>7. CASE Read(e)
  <2>1. run'[e].pc = "preflight" /\ run'[e].at = 1
    BY <1>0, <1>7 DEF Read, At, Runs, RunsInOrder
  <2>2. \A j \in Positions : ~(j < 1)
    BY PositionsAreNumbers
  <2> QED BY <2>1, <2>2 DEF AtAction
<1>8. CASE Preflight(e) /\ NextPosition(e)
  <2> DEFINE i == run[e].at
  <2>1. /\ i \in Positions /\ run[e].todo \in SUBSET Positions /\ run[e].pc = "preflight"
        /\ operation' = operation
    BY <1>0, <1>8 DEF Preflight, At, RunsInOrder, Runs
  <2>2. \/ End(e)
        \/ GoesOn(e)
    BY <1>8, RunFrame
  <2>3. CASE GoesOn(e)
    <3>1. Current(e) /\ o \in Operations
      BY <1>2, <2>1, <2>3
    <3>2. verified[o] \subseteq verified'[o] /\ (i \in run[e].todo \/ i \in verified'[o])
      <4>1. CASE Verified(e, i)
        BY <1>0, <3>1, <4>1 DEF Verified, Current
      <4>2. CASE i \in run[e].todo /\ UNCHANGED verified
        BY <4>2
      <4>3. CASE Refuse(e, "cleanup_completed_action_changed") \/ Refuse(e, "cleanup_identity_mismatch")
        <5>1. run'[e].pc = "block"
          BY <1>0, <4>3 DEF Refuse, Runs
        <5>2. run'[e].pc \in {"inspect", "finalize", "preflight"}
          <6>1. CASE i = Len(Plan)
            <7>1. Begin(run[e].todo, run[e]).pc \in {"inspect", "finalize"}
              <8>1. CASE run[e].todo = {}
                BY <1>0, <2>1, <8>1 DEF Begin, Runs
              <8>2. CASE run[e].todo # {}
                BY <1>0, <2>1, <8>2 DEF Begin, Runs
              <8> QED BY <8>1, <8>2
            <7> QED BY <1>0, <1>8, <6>1, <7>1 DEF NextPosition
          <6>2. CASE i # Len(Plan)
            BY <1>0, <1>8, <2>1, <6>2 DEF NextPosition, Runs
          <6> QED BY <6>1, <6>2
        <5> QED BY <5>1, <5>2
      <4> QED BY <1>8, <4>1, <4>2, <4>3 DEF Preflight
    <3>3. \A j \in Positions \ run[e].todo : j < i => j \in verified'[o]
      BY <2>1, <3>1, <3>2 DEF RunsVerify
    <3>4. CASE i = Len(Plan)
      <4>1. \A j \in Positions \ run[e].todo : j \in verified'[o]
        BY <3>2, <3>3, <3>4, PositionsAreNumbers
      <4> QED BY <1>0, <1>4, <1>8, <2>1, <3>4, <4>1 DEF NextPosition
    <3>5. CASE i # Len(Plan)
      <4>1. /\ run'[e].pc = "preflight" /\ run'[e].at = i + 1
            /\ run'[e].todo = run[e].todo /\ run'[e].o = o
        BY <1>0, <1>8, <2>1, <3>5 DEF NextPosition, Runs
      <4>2. \A j \in Positions \ run[e].todo : j < i + 1 => j \in verified'[o]
        BY <2>1, <3>2, <3>3, PositionsAreNumbers
      <4> QED BY <4>1, <4>2 DEF AtAction
    <3> QED BY <3>4, <3>5
  <2> QED BY <1>1, <2>2, <2>3
<1>9. CASE Record(e) /\ Fenced(e)
  <2> DEFINE rest == run[e].todo \ {run[e].at}
             r == [run[e] EXCEPT !.todo = rest]
  <2>1. /\ run' = [run EXCEPT ![e] = Begin(rest, r)] /\ run[e].pc = "record"
        /\ verified' = verified
    BY <1>9 DEF Record, At
  <2>2. Current(e)
    BY <1>9, <2>1 DEF Fenced, Current, Claimed
  <2>3. rest \in SUBSET Positions
    BY <1>0 DEF Runs
  <2>4. r \in Runs
    BY <1>0, <2>3, RunsClosed
  <2>5. r.o = o /\ r.todo = rest
    BY <1>0 DEF Runs
  <2>6. \A j \in Positions \ rest : j \in verified'[o]
    BY <2>1, <2>2 DEF RunsVerify, AtAction
  <2> HIDE DEF rest, r, o
  <2> QED BY <1>4, <2>1, <2>3, <2>4, <2>5, <2>6
<1>10. CASE Inspect(e) \/ Verify(e)
  <2>1. operation' = operation /\ run[e].pc \in AtAction
    BY <1>10 DEF Inspect, Verify, At, AtAction
  <2>2. CASE Verified(e, run[e].at) /\ Goto(e, "record")
    <3>1. GoesOn(e)
      BY <1>0, <2>1, <2>2 DEF Goto, GoesOn, Runs, AtAction
    <3>2. Current(e) /\ o \in Operations
      BY <1>2, <2>1, <3>1
    <3>3. verified[o] \subseteq verified'[o] /\ run[e].at \in verified'[o]
      BY <1>0, <2>2, <3>2 DEF Verified, Current
    <3> QED BY <1>3, <2>1, <2>2, <3>3 DEF AtAction
  <2> QED BY <1>1, <1>3, <1>10, <2>1, <2>2 DEF Inspect, Verify, AtAction, Codes
<1>11. CASE Apply(e)
  <2>1. operation' = operation /\ run[e].pc \in AtAction /\ verified' = verified
    BY <1>11 DEF Apply, At, AtAction
  <2> QED BY <1>1, <1>3, <1>11, <2>1 DEF Apply, AtAction, Codes
<1>12. CASE Finalize(e) \/ Block(e) \/ Stop(e)
  BY <1>1, <1>12 DEF Finalize, Block, Stop, Codes
<1>13. CASE Preflight(e) /\ ~NextPosition(e)
  BY <1>1, <1>13 DEF Preflight, Codes
<1>14. CASE Record(e) /\ ~Fenced(e)
  BY <1>1, <1>14 DEF Record, Codes
<1> QED
  BY <1>1, <1>5, <1>6, <1>7, <1>8, <1>9, <1>10, <1>11, <1>12, <1>13, <1>14 DEF ExecutorStep

LEMMA VerifyStep ==
  ASSUME TypeOK, RunsFenced, RunsInOrder, RunsVerify, TypeOK', [Next]_vars
  PROVE  RunsVerify'
<1>1. ASSUME NEW d \in Executors, run'[d] = run[d], Current(d)'
      PROVE  /\ run'[d].pc = "preflight" =>
                  \A j \in Positions \ run'[d].todo : j < run'[d].at => j \in verified'[run'[d].o]
             /\ run'[d].pc \in AtAction \cup {"finalize"} =>
                  \A j \in Positions \ run'[d].todo : j \in verified'[run'[d].o]
             /\ run'[d].pc = "record" => run'[d].at \in verified'[run'[d].o]
  <2> DEFINE o == run[d].o
  <2>1. /\ o \in Operations /\ operation[o].state # "none" /\ run[d].fence <= operation[o].fence
        /\ run[d].fence = operation'[o].fence
    BY <1>1 DEF RunsFenced, Current, Claimed
  <2>2. operation[o].fence \in Nat /\ operation'[o].fence \in Nat /\ run[d].fence \in Nat
    BY <2>1, CleanupAssumption DEF TypeOK, OperationRows, Runs
  <2>3. /\ operation'[o].fence >= operation[o].fence
        /\ verified[o] \subseteq verified'[o] \/ operation'[o].fence > operation[o].fence
    BY <2>1, VerifiedFrame
  <2>4. operation[o].fence = run[d].fence /\ verified[o] \subseteq verified'[o]
    BY <2>1, <2>2, <2>3
  <2>5. Current(d)
    BY <1>1, <2>4 DEF Current, Claimed
  <2> QED BY <1>1, <2>4, <2>5 DEF RunsVerify
<1>2. CASE UNCHANGED run
  BY <1>1, <1>2 DEF RunsVerify
<1>3. ASSUME NEW e \in Executors, ExecutorStep(e) \/ Stop(e) \/ \E o \in Operations : Open(e, o)
      PROVE  RunsVerify'
  BY <1>1, <1>3, OthersStay, VerifyingStep DEF RunsVerify
<1> QED
  BY <1>2, <1>3 DEF Next, vars, PlanCleanup, LeaseExpires, Drift, Rebind

-----------------------------------------------------------------------------
(* The callsign.                                                           *)

\* A receipt is about to be written where the intended state was seen.
LEMMA RecordReached ==
  ASSUME TypeOK, RunsFenced, RunsInOrder, NEW e \in Executors,
         ExecutorStep(e) \/ Stop(e) \/ \E o \in Operations : Open(e, o),
         run'[e].pc = "record"
  PROVE  /\ Intended(run[e].o, run[e].at) /\ run'[e].at = run[e].at /\ run[e].o \in Operations
         /\ world' = world
<1>0. run \in [Executors -> Runs] /\ run[e] \in Runs
  BY DEF TypeOK
<1>1. ~End(e)
  BY <1>0 DEF End, NoRun
<1>2. ASSUME NEW c \in Codes PROVE ~Refuse(e, c)
  BY <1>0 DEF Refuse, Runs
<1>3. ~Goto(e, "apply") /\ ~Goto(e, "verify")
  BY <1>0 DEF Goto, Runs
<1>4. ASSUME NEW S \in SUBSET Positions, NEW r \in Runs
      PROVE  run' # [run EXCEPT ![e] = Begin(S, r)]
  <2>1. CASE S = {}
    BY <1>0, <2>1 DEF Begin, Runs
  <2>2. CASE S # {}
    BY <1>0, <2>2 DEF Begin, Runs
  <2> QED BY <2>1, <2>2
<1>5. ~NextPosition(e) \/ run[e].pc = "record"
  <2>1. CASE run[e].at = Len(Plan)
    <3>1. run[e].todo \in SUBSET Positions
      BY <1>0 DEF Runs
    <3> QED BY <1>0, <1>4, <2>1, <3>1 DEF NextPosition
  <2>2. CASE run[e].at # Len(Plan)
    BY <1>0, <2>2 DEF NextPosition, Runs
  <2> QED BY <2>1, <2>2
<1>6. ~Open(e, NoOperation) /\ \A o \in Operations : ~Open(e, o)
  BY <1>0 DEF Open, NoRun
<1>7. ~Claim(e) /\ ~Read(e)
  BY <1>0, <1>1 DEF Claim, Read, Runs, At
<1>8. ~Record(e)
  <2> DEFINE rest == run[e].todo \ {run[e].at}
             r == [run[e] EXCEPT !.todo = rest]
  <2>1. rest \in SUBSET Positions
    BY <1>0 DEF Runs
  <2>2. r \in Runs
    BY <1>0, <2>1, RunsClosed
  <2>3. run' # [run EXCEPT ![e] = Begin(rest, r)]
    BY <1>4, <2>1, <2>2
  <2> QED BY <1>2, <2>3 DEF Record, Codes
<1>9. ~Preflight(e) /\ ~Finalize(e) /\ ~Block(e) /\ ~Stop(e) /\ ~Apply(e)
  BY <1>1, <1>2, <1>3, <1>5 DEF Preflight, Finalize, Block, Stop, Apply, Codes, At
<1>10. CASE Inspect(e)
  BY <1>0, <1>1, <1>2, <1>3, <1>10 DEF Inspect, Codes, Goto, Runs, At, AtAction, RunsFenced
<1>11. CASE Verify(e)
  BY <1>0, <1>1, <1>2, <1>3, <1>11 DEF Verify, Codes, Goto, Runs, At, AtAction, RunsFenced
<1> QED
  BY <1>6, <1>7, <1>8, <1>9, <1>10, <1>11 DEF ExecutorStep

\* A released callsign stays released.
LEMMA ReleasedForGood ==
  ASSUME TypeOK, RunsFenced, [Next]_vars, NEW i \in Positions, Plan[i] = "callsign_release"
  PROVE  /\ world[i] \in Gone => world'[i] \in Gone
         /\ world'[i] = world[i] \/ world'[i] = "gone"
            \/ \E e \in Executors : Claimed(e) /\ world'[i] = run[e].o
<1>1. ASSUME NEW e \in Executors, Apply(e)
      PROVE  /\ world[i] \in Gone => world'[i] \in Gone
             /\ world'[i] = world[i] \/ world'[i] = "gone" \/ (Claimed(e) /\ world'[i] = run[e].o)
  <2>1. run[e].o \in Operations /\ Claimed(e)
    BY <1>1 DEF Apply, At, RunsFenced, Claimed
  <2>2. world' = world \/ world' = [world EXCEPT ![run[e].at] = Effect(run[e].o, run[e].at)]
    BY <1>1 DEF Apply
  <2> QED BY <2>1, <2>2 DEF Effect, Gone, TypeOK
<1>2. ASSUME NEW j \in Positions, Drift(j)
      PROVE  (world[i] \in Gone => world'[i] \in Gone) /\ (world'[i] = world[i] \/ world'[i] = "gone")
  BY <1>2 DEF Drift, Gone, TypeOK
<1>3. CASE UNCHANGED world
  BY <1>3
<1> QED
  BY <1>1, <1>2, <1>3 DEF Next, ExecutorStep, vars, PlanCleanup, LeaseExpires, Claim, Read, Preflight,
     Inspect, Verify, Record, Finalize, Block, Stop, Open, Rebind

LEMMA CallsignStep ==
  ASSUME TypeOK, RunsFenced, RunsInOrder, CallsignsReleased, TypeOK', [Next]_vars
  PROVE  CallsignsReleased'
<1>0. /\ run \in [Executors -> Runs] /\ operation \in [Operations -> OperationRows]
      /\ \A o \in Operations : operation[o].fence \in Nat /\ operation'[o].fence \in Nat
      /\ \A e \in Executors : run[e].fence \in Nat
  BY CleanupAssumption DEF TypeOK, OperationRows, Runs
<1>1. ASSUME NEW o \in Operations, operation'[o].state \in {"none", "planned"}
      PROVE  operation'[o].fence = 0 /\ \A i \in Positions : action'[o][i] = "planned"
  <2>1. /\ operation[o].state \in {"none", "planned"}
        /\ operation'[o].fence = operation[o].fence
    <3>1. ASSUME NEW q \in Operations, PlanCleanup(q)
          PROVE  /\ operation[o].state \in {"none", "planned"}
                 /\ operation'[o].fence = operation[o].fence
      BY <1>0, <1>1, <3>1 DEF PlanCleanup, CallsignsReleased, Fresh
    <3>2. ASSUME NEW q \in Operations, LeaseExpires(q)
          PROVE  /\ operation[o].state \in {"none", "planned"}
                 /\ operation'[o].fence = operation[o].fence
      BY <1>0, <1>1, <3>2 DEF LeaseExpires, OperationRows
    <3>3. ASSUME NEW e \in Executors, (Claim(e) /\ ~End(e)) \/ Block(e)
          PROVE  operation'[o] = operation[o]
      <4> DEFINE q == run[e].o
                 code == run[e].code
      <4>1. \/ operation' = operation
            \/ operation' = [operation EXCEPT ![q].state = "executing", ![q].fence = @ + 1,
                                              ![q].leased = TRUE, ![q].refusal = "none"]
            \/ operation' = [operation EXCEPT ![q].state = "blocked", ![q].leased = FALSE,
                                              ![q].refusal = code]
        BY <3>3 DEF Claim, Block
      <4> HIDE DEF q, code
      <4> QED BY <1>0, <1>1, <4>1 DEF OperationRows
    <3>4. ASSUME NEW e \in Executors,
                 operation' = [operation EXCEPT ![run[e].o].state = "completed"]
          PROVE  operation'[o] = operation[o]
      <4> DEFINE q == run[e].o
      <4>1. operation' = [operation EXCEPT ![q].state = "completed"]
        BY <3>4
      <4> HIDE DEF q
      <4> QED BY <1>0, <1>1, <4>1 DEF OperationRows
    <3>5. CASE operation' = operation
      BY <1>1, <3>5
    <3>6. ASSUME NEW e \in Executors, NEW q \in Operations, Open(e, q)
          PROVE  operation' = operation
      BY <3>6 DEF Open
    <3> QED BY <1>1, <3>1, <3>2, <3>3, <3>4, <3>5, <3>6, OperationFrame
  <2>2. operation[o].fence = 0 /\ \A i \in Positions : action[o][i] = "planned"
    BY <2>1 DEF CallsignsReleased
  <2>3. \A i \in Positions : action'[o][i] = action[o][i]
    <3>1. ASSUME NEW e \in Executors, Record(e) \/ Block(e), Fenced(e)
          PROVE  run[e].o # o /\ run[e].o \in Operations
      BY <2>1, <3>1 DEF Fenced, Record, Block, At, RunsFenced
    <3>2. ASSUME NEW e \in Executors, Record(e) \/ Block(e), Fenced(e)
          PROVE  \A i \in Positions : action'[o][i] = action[o][i]
      BY <3>1, <3>2 DEF Record, Block, TypeOK
    <3>3. CASE UNCHANGED action
      BY <3>3
    <3> QED
      BY <3>2, <3>3 DEF Next, ExecutorStep, vars, PlanCleanup, LeaseExpires, Claim, Read, Preflight,
         Inspect, Apply, Verify, Record, Block, Finalize, Stop, Open, Drift, Rebind
  <2> QED BY <2>1, <2>2, <2>3
<1>2. ASSUME NEW i \in Positions, Plan[i] = "callsign_release"
      PROVE  /\ \A o \in Operations : action'[o][i] = "completed" => world'[i] \in Gone
             /\ \A e \in Executors : run'[e].pc = "record" /\ run'[e].at = i => world'[i] \in Gone
             /\ \A o \in Operations : world'[i] = o => operation'[o].fence > 0
  <2>0. world[i] \in Gone => world'[i] \in Gone
    BY <1>2, ReleasedForGood
  <2>1. ASSUME NEW o \in Operations, action'[o][i] = "completed"
        PROVE  world'[i] \in Gone
    <3>1. ASSUME NEW e \in Executors, Record(e), action[o][i] # "completed"
          PROVE  run[e].pc = "record" /\ run[e].at = i
      <4> DEFINE q == run[e].o
                 j == run[e].at
      <4>1. run[e].pc = "record" /\ (action' = action \/ action' = [action EXCEPT ![q][j] = "completed"])
        BY <3>1 DEF Record, At
      <4> HIDE DEF q, j
      <4>2. j = i
        <5>1. action \in [Operations -> [Positions -> {"planned", "completed", "blocked"}]]
          BY DEF TypeOK
        <5>2. action' # action
          BY <2>1, <3>1
        <5> QED BY <2>1, <3>1, <4>1, <5>1, <5>2
      <4> QED BY <4>1, <4>2 DEF j
    <3>2. ASSUME NEW e \in Executors, Block(e)
          PROVE  action[o][i] = "completed"
      <4> DEFINE q == run[e].o
                 j == run[e].at
      <4>1. action' = action \/ action' = [action EXCEPT ![q] = [k \in Positions |->
               IF k = j /\ @[k] = "planned" THEN "blocked" ELSE @[k]]]
        BY <3>2 DEF Block
      <4> HIDE DEF q, j
      <4>2. action \in [Operations -> [Positions -> {"planned", "completed", "blocked"}]]
        BY DEF TypeOK
      <4>3. CASE q = o
        BY <2>1, <4>1, <4>2, <4>3
      <4>4. CASE q # o
        BY <2>1, <4>1, <4>2, <4>4
      <4> QED BY <4>3, <4>4
    <3>3. \/ action[o][i] = "completed"
          \/ \E e \in Executors : run[e].pc = "record" /\ run[e].at = i
      BY <2>1, <3>1, <3>2 DEF Next, ExecutorStep, vars, PlanCleanup, LeaseExpires, Claim, Read,
         Preflight, Inspect, Apply, Verify, Finalize, Stop, Open, Drift, Rebind
    <3> QED BY <1>2, <2>0, <3>3 DEF CallsignsReleased
  <2>2. ASSUME NEW e \in Executors, run'[e].pc = "record", run'[e].at = i
        PROVE  world'[i] \in Gone
    <3>1. CASE run'[e] = run[e]
      BY <1>2, <2>0, <2>2, <3>1 DEF CallsignsReleased
    <3>2. CASE ExecutorStep(e) \/ Stop(e) \/ \E o \in Operations : Open(e, o)
      <4>1. Intended(run[e].o, i) /\ run[e].o \in Operations /\ world' = world
        BY <2>2, <3>2, RecordReached
      <4> QED BY <1>2, <4>1 DEF Intended, Gone
    <3> QED BY <3>1, <3>2, OthersStay DEF Next, vars, PlanCleanup, LeaseExpires, Drift, Rebind
  <2>3. ASSUME NEW o \in Operations, world'[i] = o
        PROVE  operation'[o].fence > 0
    <3>1. operation[o].fence > 0
      <4>1. CASE world'[i] = world[i]
        BY <1>2, <2>3, <4>1 DEF CallsignsReleased
      <4>2. CASE world'[i] = "gone"
        BY <2>3, <4>2, CleanupAssumption
      <4>3. ASSUME NEW e \in Executors, Claimed(e), world'[i] = run[e].o
            PROVE  operation[o].fence > 0
        <5>1. run[e].fence > 0 /\ run[e].fence <= operation[o].fence
          BY <2>3, <4>3 DEF RunsFenced, Claimed
        <5> QED BY <1>0, <5>1
      <4> QED BY <1>2, <4>1, <4>2, <4>3, ReleasedForGood
    <3>2. operation[o].state # "none"
      BY <3>1 DEF CallsignsReleased
    <3>3. operation'[o].fence >= operation[o].fence
      BY <3>2, VerifiedFrame
    <3> QED BY <1>0, <3>1, <3>3
  <2> QED BY <2>1, <2>2, <2>3
<1> QED BY <1>1, <1>2 DEF CallsignsReleased

-----------------------------------------------------------------------------
(* One live operation.                                                     *)

\* How the state of one operation can change.
LEMMA StateFrame ==
  ASSUME TypeOK, RunsFenced, [Next]_vars, NEW o \in Operations
  PROVE  \/ /\ operation'[o].state = operation[o].state
            /\ operation'[o].revision = operation[o].revision
            /\ operation'[o].fence = operation[o].fence
         \/ PlanCleanup(o)
         \/ /\ operation'[o].revision = operation[o].revision
            /\ \/ /\ operation'[o].state = "executing" /\ MayClaim(o)
                  /\ \E e \in Executors : Claim(e) /\ ~End(e) /\ run[e].o = o
               \/ /\ operation'[o].state = "completed" /\ operation[o].state = "executing"
                  /\ operation'[o].fence = operation[o].fence
                  /\ \E e \in Executors : Finalize(e) /\ Current(e) /\ run[e].o = o
               \/ /\ operation'[o].state = "blocked" /\ operation[o].state = "executing"
                  /\ \E e \in Executors : Block(e) /\ run[e].o = o
<1>0. operation \in [Operations -> OperationRows]
  BY DEF TypeOK
<1>1. ASSUME NEW q \in Operations, PlanCleanup(q) \/ LeaseExpires(q)
      PROVE  \/ PlanCleanup(o)
             \/ /\ operation'[o].state = operation[o].state
                /\ operation'[o].revision = operation[o].revision
                /\ operation'[o].fence = operation[o].fence
  <2>1. CASE q = o
    BY <1>0, <1>1, <2>1 DEF LeaseExpires, OperationRows
  <2>2. CASE q # o
    BY <1>0, <1>1, <2>2 DEF LeaseExpires, PlanCleanup
  <2> QED BY <2>1, <2>2
<1>2. ASSUME NEW e \in Executors, Claim(e), ~End(e)
      PROVE  \/ operation'[o] = operation[o]
             \/ /\ operation'[o].revision = operation[o].revision
                /\ operation'[o].state = "executing" /\ MayClaim(o) /\ run[e].o = o
  <2> DEFINE q == run[e].o
  <2>1. /\ MayClaim(q)
        /\ operation' = [operation EXCEPT ![q].state = "executing", ![q].fence = @ + 1,
                                          ![q].leased = TRUE, ![q].refusal = "none"]
    BY <1>2 DEF Claim
  <2>2. CASE q = o
    BY <1>0, <2>1, <2>2 DEF OperationRows
  <2>3. CASE q # o
    <3> HIDE DEF q
    <3> QED BY <1>0, <2>1, <2>3
  <2> QED BY <2>2, <2>3
<1>3. ASSUME NEW e \in Executors, Finalize(e),
             operation' = [operation EXCEPT ![run[e].o].state = "completed"]
      PROVE  \/ operation'[o] = operation[o]
             \/ /\ operation'[o].revision = operation[o].revision
                /\ operation'[o].fence = operation[o].fence
                /\ operation'[o].state = "completed" /\ operation[o].state = "executing"
                /\ Current(e) /\ run[e].o = o
  <2>1. CASE run[e].o = o /\ operation[o].fence = run[e].fence
    <3>1. Current(e) /\ operation[o].state = "executing"
      BY <1>3, <2>1 DEF Finalize, At, Current, Claimed, RunsFenced
    <3> QED BY <1>0, <1>3, <2>1, <3>1 DEF OperationRows
  <2>2. CASE run[e].o # o
    <3> DEFINE q == run[e].o
    <3>1. q # o /\ operation' = [operation EXCEPT ![q].state = "completed"]
      BY <1>3, <2>2
    <3> HIDE DEF q
    <3> QED BY <1>0, <3>1
  <2>3. CASE run[e].o = o /\ operation[o].fence # run[e].fence
    BY <1>3, <2>3 DEF Finalize
  <2> QED BY <2>1, <2>2, <2>3
<1>4. ASSUME NEW e \in Executors, Block(e), Fenced(e)
      PROVE  \/ operation'[o] = operation[o]
             \/ /\ operation'[o].revision = operation[o].revision
                /\ operation'[o].state = "blocked" /\ operation[o].state = "executing"
                /\ run[e].o = o
  <2> DEFINE q == run[e].o
             code == run[e].code
  <2>1. /\ operation[q].state = "executing"
        /\ operation' = [operation EXCEPT ![q].state = "blocked", ![q].leased = FALSE,
                                          ![q].refusal = code]
    BY <1>4 DEF Block, Fenced
  <2>2. CASE q = o
    <3> HIDE DEF code
    <3> QED BY <1>0, <2>1, <2>2 DEF OperationRows
  <2>3. CASE q # o
    <3> HIDE DEF q, code
    <3> QED BY <1>0, <2>1, <2>3
  <2> QED BY <2>2, <2>3
<1>5. CASE operation' = operation
  BY <1>5
<1>6. ASSUME NEW e \in Executors, NEW q \in Operations, Open(e, q)
      PROVE  operation' = operation
  BY <1>6 DEF Open
<1> QED BY <1>1, <1>2, <1>3, <1>4, <1>5, <1>6, OperationFrame

LEMMA ReceiptedRetires ==
  ASSUME CallsignsReleased, NEW o \in Operations, AllReceipted(o)
  PROVE  Retired
BY CleanupAssumption DEF CallsignsReleased, AllReceipted, Retired, Positions

LEMMA RetiredStays ==
  ASSUME TypeOK, RunsFenced, [Next]_vars, Retired
  PROVE  Retired'
BY ReleasedForGood DEF Retired

\* The owner of an operation that has no receipt is retired: it cannot be opened.
LEMMA StuckIsShut ==
  ASSUME CallsignsReleased, NEW o \in Operations, Stuck(o)
  PROVE  ~ContextValid(o)
<1>1. operation[o].fence = 0 /\ ~AllReceipted(o)
  <2>1. operation[o].fence = 0 /\ action[o][1] = "planned"
    BY PositionsAreNumbers DEF Stuck, CallsignsReleased
  <2> QED BY <2>1, PositionsAreNumbers DEF AllReceipted
<1>2. ~ReleasedHere(o)
  <2>1. PICK i \in Positions : Plan[i] = "callsign_release"
    BY CleanupAssumption DEF Positions
  <2>2. world[i] # o
    BY <1>1, <2>1 DEF CallsignsReleased
  <2> QED BY <2>1, <2>2 DEF ReleasedHere
<1> QED BY <1>1, <1>2 DEF ContextValid, Stuck

LEMMA StuckStays ==
  ASSUME TypeOK, RunsFenced, CallsignsReleased, TypeOK', [Next]_vars, NEW o \in Operations, Stuck(o)
  PROVE  Stuck(o)'
<1>1. operation[o].state = "planned" /\ Retired'
  BY RetiredStays DEF Stuck
<1>2. operation'[o].state = "planned"
  <2>1. ~PlanCleanup(o)
    BY <1>1 DEF PlanCleanup
  <2>2. ASSUME NEW e \in Executors, Claim(e) PROVE run[e].o # o
    BY <2>2 DEF Claim, At, Stuck
  <2> QED BY <1>1, <2>1, <2>2, StateFrame
<1>3. ASSUME NEW e \in Executors, run'[e].pc = "claim", run'[e].o = o
      PROVE  FALSE
  <2>0. run \in [Executors -> Runs]
    BY DEF TypeOK
  <2>1. run[e].pc # "claim" \/ run[e].o # o
    BY DEF Stuck
  <2>2. CASE run'[e] = run[e]
    BY <1>3, <2>1, <2>2
  <2>3. ASSUME NEW q \in Operations, Open(e, q)
        PROVE  FALSE
    <3>1. run'[e].o = q /\ ContextValid(q)
      BY <2>0, <2>3 DEF Open
    <3> QED BY <1>3, <3>1, StuckIsShut
  <2>4. CASE GoesOn(e)
    BY <1>3, <2>1, <2>4 DEF GoesOn
  <2>5. CASE End(e)
    BY <1>3, <2>0, <2>5 DEF End, NoRun
  <2>6. CASE Claim(e) /\ ~End(e)
    <3>1. run'[e].pc = "read"
      BY <2>0, <2>6 DEF Claim, Runs
    <3> QED BY <1>3, <3>1
  <2>7. CASE Block(e) \/ Stop(e)
    BY <2>5, <2>7 DEF Block, Stop
  <2>8. CASE ExecutorStep(e) \/ Stop(e) \/ \E q \in Operations : Open(e, q)
    BY <2>3, <2>4, <2>5, <2>6, <2>7, <2>8, RunFrame DEF ExecutorStep
  <2> QED BY <2>2, <2>8, OthersStay DEF Next, vars, PlanCleanup, LeaseExpires, Drift, Rebind
<1> QED BY <1>1, <1>2, <1>3 DEF Stuck

\* Only a plan brings an operation to life.
LEMMA LiveFrame ==
  ASSUME TypeOK, RunsFenced, [Next]_vars, NEW o \in Operations, Live(o)'
  PROVE  Live(o) \/ PlanCleanup(o)
<1>1. CASE /\ operation'[o].state = operation[o].state /\ operation[o].state = "blocked"
           /\ AllReceipted(o)'
  <2>1. ASSUME NEW e \in Executors, Record(e) \/ Block(e)
        PROVE  \A i \in Positions : action'[o][i] = action[o][i]
    <3>1. CASE Fenced(e)
      <4>1. run[e].o # o /\ run[e].o \in Operations
        BY <1>1, <2>1, <3>1 DEF Fenced, Record, Block, At, RunsFenced
      <4> QED BY <2>1, <4>1 DEF Record, Block, TypeOK
    <3>2. CASE ~Fenced(e)
      BY <2>1, <3>2 DEF Record, Block
    <3> QED BY <3>1, <3>2
  <2>2. \A i \in Positions : action'[o][i] = action[o][i]
    BY <2>1 DEF Next, ExecutorStep, vars, PlanCleanup, LeaseExpires, Claim, Read, Preflight,
       Inspect, Apply, Verify, Finalize, Stop, Open, Drift, Rebind
  <2> QED BY <1>1, <2>2 DEF AllReceipted, Live
<1>2. CASE /\ operation'[o].state = operation[o].state
           /\ operation[o].state # "blocked" \/ ~AllReceipted(o)'
  BY <1>2 DEF Live
<1>3. CASE MayClaim(o) \/ operation[o].state = "executing"
  BY <1>3 DEF MayClaim, Live
<1> QED BY <1>1, <1>2, <1>3, StateFrame

\* Who moves the obligation.
LEMMA ObligationFrame ==
  ASSUME TypeOK, RunsFenced, OneLive, [Next]_vars
  PROVE  \/ UNCHANGED obligation
         \/ \E o \in Operations :
              /\ PlanCleanup(o) /\ ~obligation.owned
              /\ obligation'.state = "cleanup_pending" /\ obligation'.owned
         \/ \E o \in Operations :
              /\ operation[o].state = "executing" /\ obligation'.owned
              /\ \/ operation'[o].state = "completed" /\ obligation'.state = "cleanup_completed"
                 \/ operation'[o].state = "blocked" /\ obligation'.state = "blocked"
<1>0. operation \in [Operations -> OperationRows] /\ obligation \in Obligations
  BY DEF TypeOK
<1>1. ASSUME NEW o \in Operations, PlanCleanup(o)
      PROVE  \/ UNCHANGED obligation
             \/ ~obligation.owned /\ obligation'.state = "cleanup_pending" /\ obligation'.owned
  BY <1>1 DEF PlanCleanup
<1>2. ASSUME NEW e \in Executors, Finalize(e), ~UNCHANGED obligation
      PROVE  /\ run[e].o \in Operations /\ operation[run[e].o].state = "executing"
             /\ operation'[run[e].o].state = "completed"
             /\ obligation'.state = "cleanup_completed" /\ obligation'.owned
  <2> DEFINE o == run[e].o
  <2>1. /\ o \in Operations /\ operation[o].fence = run[e].fence
        /\ operation' = [operation EXCEPT ![o].state = "completed"]
        /\ obligation' = [obligation EXCEPT !.state = "cleanup_completed", !.version = @ + 1]
    BY <1>2 DEF Finalize, At, RunsFenced
  <2>2. operation[o].state = "executing"
    BY <1>2, <2>1 DEF Finalize, At, RunsFenced, Current, Claimed
  <2>3. obligation.owned
    BY <2>1, <2>2 DEF OneLive
  <2> HIDE DEF o
  <2>4. /\ operation'[o].state = "completed"
        /\ obligation'.state = "cleanup_completed" /\ obligation'.owned
    BY <1>0, <2>1, <2>3 DEF OperationRows, Obligations
  <2> QED BY <2>1, <2>2, <2>4 DEF o
<1>3. ASSUME NEW e \in Executors, Block(e), ~UNCHANGED obligation
      PROVE  /\ run[e].o \in Operations /\ operation[run[e].o].state = "executing"
             /\ operation'[run[e].o].state = "blocked"
             /\ obligation'.state = "blocked" /\ obligation'.owned
  <2> DEFINE o == run[e].o
             code == run[e].code
  <2>1. /\ o \in Operations /\ operation[o].state = "executing"
        /\ operation' = [operation EXCEPT ![o].state = "blocked", ![o].leased = FALSE,
                                          ![o].refusal = code]
        /\ obligation' = [obligation EXCEPT !.state = "blocked", !.version = @ + 1]
    BY <1>3 DEF Block, At, RunsFenced, Fenced
  <2>2. obligation.owned
    BY <2>1 DEF OneLive
  <2> HIDE DEF o, code
  <2>3. /\ operation'[o].state = "blocked"
        /\ obligation'.state = "blocked" /\ obligation'.owned
    BY <1>0, <2>1, <2>2 DEF OperationRows, Obligations
  <2> QED BY <2>1, <2>3 DEF o
<1> QED
  BY <1>1, <1>2, <1>3 DEF Next, ExecutorStep, vars, LeaseExpires, Claim, Read, Preflight, Inspect, Apply,
     Verify, Record, Stop, Open, Drift, Rebind

\* An operation that executes leaves the others stuck.
LEMMA ExecutingAlone ==
  ASSUME OneLive, NEW o \in Operations, NEW q \in Operations, o # q,
         operation[o].state \in {"executing", "completed"}, Live(q)
  PROVE  Stuck(q)
BY DEF OneLive, Live, Stuck

LEMMA OneLiveStep ==
  ASSUME TypeOK, RunsFenced, CallsignsReleased, OneLive, TypeOK', [Next]_vars
  PROVE  OneLive'
<1>1. ASSUME NEW o \in Operations, PlanCleanup(o)
      PROVE  /\ operation[o].state = "none" /\ operation'[o].state = "planned"
             /\ operation'[o].revision = obligation'.version /\ obligation'.owned
             /\ obligation.state # "cleanup_completed" /\ obligation'.state # "cleanup_completed"
             /\ \A q \in Operations : operation[q].revision # obligation'.version
             /\ \A q \in Operations : q # o => operation'[q] = operation[q]
             /\ run' = run /\ world' = world
  BY <1>1 DEF PlanCleanup, TypeOK, Fresh
<1>2. ASSUME NEW o \in Operations, operation'[o].state # "none"
      PROVE  obligation'.owned
  <2>1. CASE operation[o].state = "none"
    <3>1. PlanCleanup(o)
      BY <1>2, <2>1, StateFrame DEF MayClaim
    <3> QED BY <1>1, <3>1
  <2>2. CASE operation[o].state # "none"
    BY <2>2, ObligationFrame DEF OneLive
  <2> QED BY <2>1, <2>2
<1>3. ASSUME NEW o \in Operations, operation'[o].state \in {"planned", "executing"}
      PROVE  operation'[o].revision = obligation'.version \/ AllReceipted(o)' \/ Stuck(o)'
  <2>1. CASE PlanCleanup(o)
    BY <1>1, <2>1
  <2>2. CASE ~PlanCleanup(o)
    <3>1. /\ operation[o].state # "none" /\ operation'[o].revision = operation[o].revision
          /\ Live(o)
      BY <1>3, <2>2, StateFrame DEF MayClaim, Live
    <3>2. operation[o].revision = obligation.version \/ AllReceipted(o) \/ Stuck(o)
      BY <1>3, <2>2, StateFrame DEF MayClaim, OneLive
    <3>3. AllReceipted(o) => AllReceipted(o)'
      BY ReceiptsKept DEF AllReceipted
    <3>4. Stuck(o) => Stuck(o)'
      BY StuckStays
    <3>5. obligation' = obligation \/ Stuck(o)
      <4>1. obligation.owned
        BY <3>1 DEF OneLive
      <4>2. ASSUME NEW q \in Operations, operation[q].state = "executing",
                   operation'[q].state \in {"completed", "blocked"}
            PROVE  Stuck(o)
        BY <1>3, <3>1, <4>2, ExecutingAlone
      <4> QED BY <4>1, <4>2, ObligationFrame
    <3> QED BY <3>1, <3>2, <3>3, <3>4, <3>5
  <2> QED BY <2>1, <2>2
<1>4. ASSUME NEW o \in Operations, NEW q \in Operations, o # q, PlanCleanup(o), Live(q)
      PROVE  Stuck(o)' \/ Stuck(q)'
  <2>1. operation[q].state # "none" /\ obligation.owned
    BY <1>4 DEF Live, OneLive
  <2>2. obligation' = obligation /\ operation[q].revision # obligation.version
    BY <1>1, <1>4, <2>1 DEF PlanCleanup
  <2>3. operation[q].state # "completed"
    BY <1>1, <1>4 DEF OneLive
  <2>4. CASE Stuck(q)
    BY <2>4, StuckStays
  <2>5. CASE AllReceipted(q)
    <3>1. Retired'
      BY <2>5, ReceiptedRetires, RetiredStays
    <3>2. \A e \in Executors : run[e].pc # "idle" => run[e].o # o
      BY <1>1, <1>4 DEF RunsFenced
    <3> QED BY <1>1, <1>4, <3>1, <3>2 DEF Stuck
  <2> QED BY <1>4, <2>2, <2>3, <2>4, <2>5 DEF Live, OneLive
<1>5. ASSUME NEW o \in Operations, NEW q \in Operations, o # q, Live(o)', Live(q)'
      PROVE  Stuck(o)' \/ Stuck(q)'
  <2>1. CASE Live(o) /\ Live(q)
    BY <1>5, <2>1, StuckStays DEF OneLive
  <2>2. CASE Live(o) /\ PlanCleanup(q)
    BY <1>4, <1>5, <2>2
  <2>3. CASE PlanCleanup(o) /\ Live(q)
    BY <1>4, <1>5, <2>3
  <2>4. ~(PlanCleanup(o) /\ PlanCleanup(q))
    BY <1>1, <1>5
  <2> QED BY <1>5, <2>1, <2>2, <2>3, <2>4, LiveFrame
<1>6. obligation'.state = "cleanup_completed" <=>
        \E o \in Operations : operation'[o].state = "completed"
  <2>1. ASSUME NEW o \in Operations, operation[o].state = "completed"
        PROVE  operation'[o].state = "completed"
    BY <2>1, StateFrame DEF MayClaim, PlanCleanup
  <2>2. CASE obligation' = obligation
    <3>1. ASSUME NEW o \in Operations, operation'[o].state = "completed", operation[o].state # "completed"
          PROVE  FALSE
      <4>1. PICK e \in Executors : Finalize(e) /\ Current(e) /\ run[e].o = o
        BY <1>1, <3>1, StateFrame
      <4>2. operation' # operation
        BY <3>1
      <4>3. obligation' = [obligation EXCEPT !.state = "cleanup_completed", !.version = @ + 1]
        BY <4>1, <4>2 DEF Finalize
      <4>4. obligation'.version # obligation.version
        BY <4>3 DEF TypeOK, Obligations
      <4> QED BY <2>2, <4>4
    <3> QED BY <2>1, <2>2, <3>1 DEF OneLive
  <2>3. ASSUME NEW o \in Operations, PlanCleanup(o)
        PROVE  \A q \in Operations : operation'[q].state # "completed"
    BY <1>1, <2>3 DEF OneLive
  <2>4. ASSUME NEW o \in Operations, operation[o].state = "executing",
               operation'[o].state = "blocked"
        PROVE  \A q \in Operations : operation'[q].state # "completed"
    <3> SUFFICES ASSUME NEW q \in Operations, operation'[q].state = "completed" PROVE FALSE
      OBVIOUS
    <3>1. q # o
      BY <2>4
    <3>2. operation[q].state \in {"completed", "executing"}
      BY <1>1, StateFrame
    <3>3. Live(o) /\ ~Stuck(o)
      BY <2>4 DEF Live, Stuck
    <3> QED BY <3>1, <3>2, <3>3, ExecutingAlone
  <2>5. CASE \E o \in Operations :
               /\ operation[o].state = "executing"
               /\ \/ operation'[o].state = "completed" /\ obligation'.state = "cleanup_completed"
                  \/ operation'[o].state = "blocked" /\ obligation'.state = "blocked"
    BY <2>4, <2>5
  <2>6. CASE \E o \in Operations : PlanCleanup(o) /\ obligation'.state = "cleanup_pending"
    BY <2>3, <2>6
  <2> QED BY <2>2, <2>5, <2>6, ObligationFrame
<1> QED BY <1>2, <1>3, <1>5, <1>6 DEF OneLive

\* An operation completes when its executor has seen every position.
LEMMA CompletionStep ==
  ASSUME TypeOK, RunsFenced, RunsInOrder, RunsVerify, CompletionIsVerified, TypeOK', [Next]_vars
  PROVE  CompletionIsVerified'
<1> SUFFICES ASSUME NEW o \in Operations, operation'[o].state = "completed"
             PROVE  verified'[o] = Positions
  BY DEF CompletionIsVerified
<1>1. verified'[o] \subseteq Positions
  BY DEF TypeOK
<1>0. ~PlanCleanup(o)
  <2>1. ASSUME PlanCleanup(o)
        PROVE  operation'[o].state = "planned"
    BY <2>1 DEF PlanCleanup, TypeOK, Fresh
  <2> QED BY <2>1
<1>2. operation'[o].fence = operation[o].fence
  BY <1>0, StateFrame
<1>3. verified[o] \subseteq verified'[o]
  <2>1. operation[o].fence \in Nat
    BY CleanupAssumption DEF TypeOK, OperationRows
  <2> QED BY <1>2, <2>1, VerifiedFrame
<1>4. CASE operation[o].state = "completed"
  BY <1>1, <1>3, <1>4 DEF CompletionIsVerified
<1>5. CASE operation[o].state # "completed"
  <2>1. PICK e \in Executors : Finalize(e) /\ Current(e) /\ run[e].o = o
    BY <1>0, <1>5, StateFrame
  <2>2. run[e].pc = "finalize" /\ run[e].todo = {}
    BY <2>1 DEF Finalize, At, RunsInOrder
  <2>3. \A j \in Positions : j \in verified[o]
    BY <2>1, <2>2 DEF RunsVerify
  <2> QED BY <1>1, <1>3, <2>3
<1> QED BY <1>4, <1>5

-----------------------------------------------------------------------------
(* The theorems.                                                           *)

LEMMA CInvInit == Init => CInv
<1> SUFFICES ASSUME Init PROVE CInv
  OBVIOUS
<1>1. \A o \in Operations : operation[o] = Fresh /\ action[o] = [i \in Positions |-> "planned"]
  BY DEF Init
<1>2. \A e \in Executors : run[e].pc = "idle"
  BY DEF Init, NoRun
<1>3. TypeOK
  <2>1. Fresh \in OperationRows
    <3>1. 0 \in 0..MaxFence
      BY CleanupAssumption
    <3> QED BY <3>1 DEF Fresh, OperationRows, Codes
  <2>2. NoRun \in Runs
    BY CleanupAssumption, PositionsAreNumbers DEF NoRun, Runs, Codes
  <2>3. operation \in [Operations -> OperationRows] /\ run \in [Executors -> Runs]
    BY <2>1, <2>2 DEF Init
  <2>4. obligation \in Obligations /\ drifts \in 0..MaxDrifts
    BY CleanupAssumption DEF Init, Obligations
  <2>5. /\ action \in [Operations -> [Positions -> {"planned", "completed", "blocked"}]]
        /\ \A o \in Operations, i \in Positions : action[o][i] # "blocked"
        /\ expected \in [Operations -> [Positions -> Identities]]
        /\ world \in [Positions -> Identities \cup Gone]
        /\ bound \in BOOLEAN /\ verified \in [Operations -> SUBSET Positions]
    BY DEF Init, Identities
  <2> QED BY <2>3, <2>4, <2>5 DEF TypeOK
<1>4. RunsFenced /\ RunsInOrder /\ RunsVerify
  BY <1>2 DEF RunsFenced, RunsInOrder, RunsVerify, Claimed, Current, AtAction
<1>5. CallsignsReleased
  BY <1>1, <1>2, CleanupAssumption DEF CallsignsReleased, Fresh, Init
<1>6. OneLive /\ CompletionIsVerified
  BY <1>1 DEF OneLive, CompletionIsVerified, Fresh, Live, Init
<1> QED BY <1>3, <1>4, <1>5, <1>6 DEF CInv

LEMMA CInvNext == CInv /\ [Next]_vars => CInv'
<1> SUFFICES ASSUME CInv, [Next]_vars PROVE CInv'
  OBVIOUS
<1>1. TypeOK'
  BY TypeStep DEF CInv
<1>2. RunsFenced' /\ RunsInOrder' /\ RunsVerify'
  BY <1>1, FencedStep, OrderStep, VerifyStep DEF CInv
<1>3. CallsignsReleased' /\ OneLive' /\ CompletionIsVerified'
  BY <1>1, CallsignStep, OneLiveStep, CompletionStep DEF CInv
<1> QED BY <1>1, <1>2, <1>3 DEF CInv

\* The inductive invariant of a cleanup holds throughout.
THEOREM CInvAlways == Spec => []CInv
BY CInvInit, CInvNext, PTL DEF Spec

\* A completed obligation is completed truly, whatever became of the executors
\* before the one that completed it (CleanupExecutor, finalize_cleanup): every
\* action was seen in its intended state under that executor's fence, and no
\* other operation of the obligation is being executed then or afterwards.
THEOREM CompletionIsAlwaysTrue == Spec => []CompletionIsTrue
<1>1. CInv => CompletionIsTrue
  <2> SUFFICES ASSUME CInv PROVE CompletionIsTrue
    OBVIOUS
  <2>1. CompletedOnce
    <3>1. ASSUME NEW o \in Operations, NEW q \in Operations, operation[q].state = "completed", o # q
          PROVE  operation[o].state # "executing"
      BY <3>1 DEF CInv, OneLive, Live, Stuck
    <3> QED BY <3>1 DEF CompletedOnce, CInv, OneLive
  <2> QED BY <2>1 DEF CInv, CompletionIsTrue
<1> QED BY <1>1, CInvAlways, PTL

\* League changes the world for an action only when every earlier action of the
\* plan has its receipt (CleanupExecutor.execute).
THEOREM ReleasesAreInOrder == Spec => ReleaseInOrder
<1>1. ASSUME CInv, NEW e \in Executors, At(e, "apply"), NEW j \in 1..(run[e].at - 1)
      PROVE  action[run[e].o][j] = "completed"
  <2>1. /\ run[e].at \in run[e].todo /\ \A k \in run[e].todo : run[e].at <= k
        /\ \A k \in Positions \ run[e].todo : action[run[e].o][k] = "completed"
        /\ run[e].todo \in SUBSET Positions
    BY <1>1 DEF CInv, RunsInOrder, AtAction, At, TypeOK, Runs
  <2>2. j \in Positions /\ ~(run[e].at <= j)
    <3>1. run[e].at \in 1..Len(Plan) /\ Len(Plan) \in Nat
      BY <2>1, PositionsAreNumbers
    <3> QED BY <3>1, PositionsAreNumbers
  <2> QED BY <2>1, <2>2
<1> DEFINE InOrder == \A e \in Executors :
             At(e, "apply") /\ run'[e].pc = "verify" /\ world' # world =>
               \A j \in 1..(run[e].at - 1) : action[run[e].o][j] = "completed"
<1>2. CInv /\ [Next]_vars => [InOrder]_vars
  BY <1>1
<1> QED BY <1>2, CInvAlways, PTL DEF Spec, ReleaseInOrder
=============================================================================
