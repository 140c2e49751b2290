------------------------------ MODULE StopProofs ------------------------------
(***************************************************************************)
(* Proofs that a Stop is authorized: by one grant each, after every pause, *)
(* and never over a prompt that nobody read.                               *)
(*                                                                         *)
(* The argument counts.  A grant is either still open, as the one-shot     *)
(* authorization or as an owner stop that was not consumed, or it has      *)
(* forced one Stop whose receipt a replay must match; so the Stops and the *)
(* open grants together never exceed the grants.  A message generation     *)
(* carries one owner stop, which orders the controls, and bounds the       *)
(* grants by the owner's messages.                                         *)
(***************************************************************************)
EXTENDS Stop, FiniteSetTheorems, TLAPS

-----------------------------------------------------------------------------
(* The invariant.                                                          *)

\* The supervisor's fences: a running process never remembers one below the
\* floor, which bounds the floor by the fences.
FloorFits == binding.fence # 0 => floor <= binding.fence

OwnerType ==
  /\ messages \in Generations
  /\ prompt \in [number : Generations, named : BOOLEAN, untriaged : BOOLEAN]
  /\ turn \in Turns \cup {NoTurn}
  /\ process \in [Turns -> [pc : {"new", "open", "ended"}, prompt : Generations]]
  /\ working \in SUBSET Delegates

Controls == [state : {"none", "dispatch_pending", "authorized", "consumed", "failed"},
             at : Generations, terminal : Terminals \cup {NoTerminal}, targets : SUBSET Delegates]

StopType ==
  /\ allowOnce \in BOOLEAN
  /\ onceReceipt \in [terminal : Terminals \cup {NoTerminal}, at : Generations]
  /\ control \in Controls
  /\ grants \in Nat
  /\ forced \in SUBSET (Terminals \X Generations)

ExecutionType ==
  /\ pause \in [Generations -> [Delegates -> {"none", "pending", "uncertain", "delivered"}]]
  /\ executor \in [Executors -> [pc : {"idle", "sending", "failing"}, at : Generations,
                                 todo : SUBSET Delegates]]

\* What is behind is older than the newest message.
Ordered ==
  /\ prompt.number <= messages
  /\ control.at <= messages
  /\ control.state = "none" => control = NoControl

\* An executor works on a control.
ExecutorsHaveControl == \A e \in Executors : executor[e].pc # "idle" => control.state # "none"

\* What a replay is compared with was a Stop.
ReceiptsAreStops ==
  /\ onceReceipt.terminal # NoTerminal => <<onceReceipt.terminal, onceReceipt.at>> \in forced
  /\ control.state = "consumed" => <<control.terminal, control.at>> \in forced

OpenOnce == IF allowOnce THEN 1 ELSE 0

OpenControl == IF control.state \in {"dispatch_pending", "failed", "authorized"} THEN 1 ELSE 0

GrantsCount ==
  /\ IsFiniteSet(forced)
  /\ Cardinality(forced) + OpenOnce + OpenControl <= grants
  /\ grants <= MaxGrants + control.at

Book == ReceiptsAreStops /\ GrantsCount

SInv ==
  /\ SupervisionType /\ FloorFits
  /\ OwnerType /\ StopType /\ ExecutionType
  /\ Ordered /\ ExecutorsHaveControl
  /\ Book
  /\ AuthorizedIsDelivered /\ OwnerStopSawEveryPrompt /\ OpenTurnIsActive

\* The initial control and pauses are typed.
LEMMA InitTypes ==
  ASSUME Init
  PROVE  OwnerType /\ StopType /\ ExecutionType
<1> USE StopAssumption
<1>1. 0 \in Generations
  BY DEF Generations
<1>2. OwnerType
  BY <1>1 DEF Init, OwnerType
<1>3. StopType
  BY <1>1 DEF Init, StopType, Controls, NoReceipt, NoControl
<1>4. executor = [e \in Executors |-> Idle] /\ Idle \in [pc : {"idle", "sending", "failing"}, at : Generations, todo : SUBSET Delegates]
  BY <1>1 DEF Init, Idle
<1>5. ExecutionType
  BY <1>4 DEF Init, ExecutionType
<1> QED  BY <1>2, <1>3, <1>5

LEMMA InitSInv == Init => SInv
<1> SUFFICES ASSUME Init PROVE SInv
  OBVIOUS
<1> USE StopAssumption, SupervisionAssumption
<1>1. SupervisionType /\ FloorFits
  BY DEF Init, SupervisionInit, SupervisionType, FloorFits, NoRegistration, NoBinding
<1>2. OwnerType /\ StopType /\ ExecutionType
  BY InitTypes
<1>3. Ordered /\ ExecutorsHaveControl
  BY DEF Init, Ordered, ExecutorsHaveControl, NoControl, Idle, Executors
<1>4. Book
  BY FS_EmptySet DEF Init, Book, ReceiptsAreStops, GrantsCount, OpenOnce, OpenControl, NoReceipt, NoControl
<1>5. AuthorizedIsDelivered /\ OwnerStopSawEveryPrompt /\ OpenTurnIsActive
  BY DEF Init, AuthorizedIsDelivered, OwnerStopSawEveryPrompt, OpenTurnIsActive, NoControl
<1> QED  BY <1>1, <1>2, <1>3, <1>4, <1>5 DEF SInv

-----------------------------------------------------------------------------
(* What a step moves.                                                      *)

\* The supervisor, its attachment, or nothing of the supervision.
LEMMA SupervisionFrame ==
  ASSUME [Next]_vars
  PROVE  \/ Register \/ ReleaseWatcher \/ KillSupervisor \/ ExpireRegistration \/ RestoreRuntime
         \/ \E detach \in BOOLEAN : SetAttachment(detach)
         \/ UNCHANGED supervision
BY DEF Next, Supervisor, vars, CapturePrompt, NoteUserMessage, RearmWait, Work,
       BeginTurn, TriagePrompt, CommitTurn, AbortTurn, KillTurn, CommitOwnerStop,
       RecoverOwnerStop, SendPause, PauseFails, FinalizeOwnerStop, FailOwnerStop,
       AllowStopOnce, Stop

\* The messages and the newest prompt.
LEMMA MessageFrame ==
  ASSUME [Next]_vars
  PROVE  \/ CapturePrompt \/ NoteUserMessage \/ RearmWait
         \/ \E t \in Turns : TriagePrompt(t)
         \/ UNCHANGED <<messages, prompt>>
BY DEF Next, Supervisor, vars, scope, scopeButExecutor, Work,
       BeginTurn, CommitTurn, AbortTurn, KillTurn, CommitOwnerStop,
       RecoverOwnerStop, SendPause, PauseFails, FinalizeOwnerStop, FailOwnerStop,
       AllowStopOnce, SetAttachment, Stop

\* The turns.
LEMMA TurnFrame ==
  ASSUME [Next]_vars
  PROVE  \/ \E t \in Turns :
              \/ BeginTurn(t) \/ TriagePrompt(t) \/ CommitTurn(t) \/ AbortTurn(t) \/ KillTurn(t)
              \/ \E interrupt \in BOOLEAN : CommitOwnerStop(t, interrupt)
         \/ UNCHANGED <<turn, process>>
BY DEF Next, Supervisor, vars, scope, scopeButExecutor, CapturePrompt, NoteUserMessage, RearmWait,
       Work, RecoverOwnerStop, SendPause, PauseFails, FinalizeOwnerStop,
       FailOwnerStop, AllowStopOnce, SetAttachment, Stop

\* The authorizations and their Stops.
LEMMA GrantFrame ==
  ASSUME [Next]_vars
  PROVE  \/ \E t \in Turns, interrupt \in BOOLEAN : CommitOwnerStop(t, interrupt)
         \/ \E e \in Executors : FinalizeOwnerStop(e) \/ FailOwnerStop(e)
         \/ AllowStopOnce
         \/ \E detach \in BOOLEAN : SetAttachment(detach)
         \/ \E t \in Terminals : Stop(t)
         \/ UNCHANGED <<allowOnce, onceReceipt, control, grants, forced>>
BY DEF Next, Supervisor, vars, scope, scopeButExecutor, CapturePrompt, NoteUserMessage, RearmWait,
       Work, BeginTurn, TriagePrompt, CommitTurn, AbortTurn, KillTurn,
       RecoverOwnerStop, SendPause, PauseFails

\* The executors and the pauses.
LEMMA ExecutionFrame ==
  ASSUME [Next]_vars
  PROVE  \/ EndRecovery /\ UNCHANGED <<control, pause>>
         \/ \E t \in Turns : KillTurn(t) \/ \E interrupt \in BOOLEAN : CommitOwnerStop(t, interrupt)
         \/ RecoverOwnerStop
         \/ \E e \in Executors :
              \/ \E d \in Delegates : SendPause(e, d) \/ PauseFails(e, d)
              \/ FinalizeOwnerStop(e) \/ FailOwnerStop(e)
         \/ UNCHANGED <<pause, executor>>
BY DEF Next, Supervisor, vars, scope, scopeButExecutor, CapturePrompt, NoteUserMessage, RearmWait,
       Work, BeginTurn, TriagePrompt, CommitTurn, AbortTurn, AllowStopOnce, SetAttachment, Stop

-----------------------------------------------------------------------------
(* The supervisor.                                                         *)

LEMMA RegisterKeepsFences ==
  ASSUME SupervisionType, FloorFits, Register
  PROVE  SupervisionType' /\ FloorFits'
<1> USE SupervisionAssumption DEF SupervisionType, FloorFits
<1> DEFINE f == NextRegistration
<1>1. f \in Nat
  BY DEF NextRegistration, Larger
<1>2. f \in 0..MaxFence
  BY <1>1 DEF Register
<1>3. IF LeaseIsLive THEN floor <= f ELSE floor + 1 <= f
  BY DEF Register, NextRegistration, Larger, LeaseIsLive
<1>4. /\ registration' = [fence |-> f, expired |-> FALSE]
      /\ floor' = IF LeaseIsLive THEN floor ELSE floor + 1
      /\ binding' = [fence |-> f, runtime |-> runtime]
      /\ issued' = f /\ runtime' = runtime /\ receipt' = receipt
  BY DEF Register
<1> HIDE DEF f
<1>5. floor' \in 1..(MaxFence + 1) /\ floor' <= f
  BY <1>2, <1>3, <1>4
<1> QED  BY <1>2, <1>4, <1>5

LEMMA NextKeepsFences ==
  ASSUME SupervisionType, FloorFits, [Next]_vars
  PROVE  SupervisionType' /\ FloorFits'
<1> USE SupervisionAssumption DEF SupervisionType, FloorFits
<1>1. CASE Register
  BY <1>1, RegisterKeepsFences
<1>2. CASE ReleaseWatcher
  BY <1>2 DEF ReleaseWatcher, NoRegistration, NoBinding
<1>3. CASE KillSupervisor
  BY <1>3 DEF KillSupervisor, NoBinding
<1>4. CASE ExpireRegistration
  BY <1>4 DEF ExpireRegistration
<1>5. CASE RestoreRuntime
  BY <1>5 DEF RestoreRuntime
<1>6. ASSUME NEW detach \in BOOLEAN, SetAttachment(detach)
      PROVE  SupervisionType' /\ FloorFits'
  BY <1>6 DEF SetAttachment, Attachment, NoBinding
<1>7. CASE UNCHANGED supervision
  BY <1>7 DEF supervision
<1> QED  BY <1>1, <1>2, <1>3, <1>4, <1>5, <1>6, <1>7, SupervisionFrame

-----------------------------------------------------------------------------
(* Types.                                                                  *)

LEMMA NextKeepsOwner ==
  ASSUME OwnerType, [Next]_vars
  PROVE  OwnerType'
<1> USE StopAssumption DEF OwnerType, Generations
<1>1. messages' \in Generations /\ prompt' \in [number : Generations, named : BOOLEAN, untriaged : BOOLEAN]
  <2>1. CASE CapturePrompt
    BY <2>1 DEF CapturePrompt
  <2>2. CASE NoteUserMessage
    BY <2>2 DEF NoteUserMessage
  <2>3. CASE RearmWait
    BY <2>3 DEF RearmWait
  <2>4. ASSUME NEW t \in Turns, TriagePrompt(t)
        PROVE  messages' = messages /\ prompt' \in [number : Generations, named : BOOLEAN, untriaged : BOOLEAN]
    BY <2>4 DEF TriagePrompt
  <2> QED  BY <2>1, <2>2, <2>3, <2>4, MessageFrame
<1>2. /\ turn' \in Turns \cup {NoTurn}
      /\ process' \in [Turns -> [pc : {"new", "open", "ended"}, prompt : Generations]]
  <2>1. ASSUME NEW t \in Turns,
               BeginTurn(t) \/ TriagePrompt(t) \/ CommitTurn(t) \/ AbortTurn(t) \/ KillTurn(t)
                 \/ \E interrupt \in BOOLEAN : CommitOwnerStop(t, interrupt)
        PROVE  /\ turn' \in {t, NoTurn, turn}
               /\ \/ \E pc \in {"open", "ended"} : process' = [process EXCEPT ![t].pc = pc]
                  \/ process' = [process EXCEPT ![t].prompt = prompt.number]
    BY <2>1 DEF BeginTurn, TriagePrompt, CommitTurn, AbortTurn, KillTurn, CommitOwnerStop
  <2> QED  BY <2>1, TurnFrame
<1>3. working' \in SUBSET Delegates
  BY DEF Next, Supervisor, vars, scope, scopeButExecutor, CapturePrompt, NoteUserMessage,
         RearmWait, Work, BeginTurn, TriagePrompt, CommitTurn, AbortTurn, KillTurn,
         CommitOwnerStop, RecoverOwnerStop, SendPause, PauseFails, FinalizeOwnerStop,
         FailOwnerStop, AllowStopOnce, SetAttachment, Stop
<1> QED  BY <1>1, <1>2, <1>3

LEMMA NextKeepsExecution ==
  ASSUME OwnerType, StopType, ExecutionType, [Next]_vars
  PROVE  ExecutionType'
<1> USE DEF ExecutionType
<1> DEFINE Pcs == {"idle", "sending", "failing"}
           Execution == [pc : Pcs, at : Generations, todo : SUBSET Delegates]
<1>1. Idle \in Execution
  BY StopAssumption DEF Idle, Generations
<1>2. messages \in Generations /\ control.targets \in SUBSET Delegates
  BY DEF OwnerType, StopType, Controls
<1>3. CASE EndRecovery /\ UNCHANGED pause
  BY <1>1, <1>3 DEF EndRecovery
<1>4. ASSUME NEW t \in Turns, KillTurn(t)  PROVE  ExecutionType'
  BY <1>1, <1>4 DEF KillTurn
<1>5. ASSUME NEW t \in Turns, NEW interrupt \in BOOLEAN, CommitOwnerStop(t, interrupt)
      PROVE  ExecutionType'
  <2> DEFINE targets == IF interrupt THEN working ELSE {}
  <2>1. targets \in SUBSET Delegates
    BY DEF OwnerType
  <2>2. /\ pause' = [pause EXCEPT ![messages] =
                       [d \in Delegates |-> IF d \in targets THEN "pending" ELSE @[d]]]
        /\ executor' = [executor EXCEPT ![t] = [pc |-> "sending", at |-> messages, todo |-> targets]]
    BY <1>5 DEF CommitOwnerStop
  <2> HIDE DEF targets
  <2> QED  BY <1>2, <2>1, <2>2
<1>6. CASE RecoverOwnerStop
  BY <1>2, <1>6 DEF RecoverOwnerStop
<1>7. ASSUME NEW e \in Executors, NEW d \in Delegates, SendPause(e, d)  PROVE  ExecutionType'
  BY <1>7 DEF SendPause
<1>8. ASSUME NEW e \in Executors, NEW d \in Delegates, PauseFails(e, d)  PROVE  ExecutionType'
  <2> DEFINE g == executor[e].at
  <2>1. g \in Generations
    OBVIOUS
  <2>2. pause' = pause \/ pause' = [pause EXCEPT ![g][d] = "uncertain"]
    BY <1>8 DEF PauseFails
  <2>3. executor' = [executor EXCEPT ![e].pc = "failing"]
    BY <1>8 DEF PauseFails
  <2>4. executor' \in [Executors -> Execution]
    BY <2>3
  <2> HIDE DEF g
  <2>5. pause' \in [Generations -> [Delegates -> {"none", "pending", "uncertain", "delivered"}]]
    BY <2>1, <2>2
  <2> QED  BY <2>4, <2>5
<1>9. ASSUME NEW e \in Executors, FinalizeOwnerStop(e) \/ FailOwnerStop(e)  PROVE  ExecutionType'
  BY <1>1, <1>9 DEF FinalizeOwnerStop, FailOwnerStop
<1>10. CASE UNCHANGED <<pause, executor>>
  BY <1>10
<1> QED
  BY <1>3, <1>4, <1>5, <1>6, <1>7, <1>8, <1>9, <1>10, ExecutionFrame

\* What a Stop may write, with the reason it needs.
LEMMA StopMoves ==
  ASSUME NEW t \in Terminals, Stop(t)
  PROVE  /\ UNCHANGED <<grants, pause, messages, prompt>>
         /\ \/ /\ allowOnce /\ allowOnce' = FALSE /\ control' = control
               /\ onceReceipt' = [terminal |-> t, at |-> messages]
               /\ forced' = forced \cup {<<t, messages>>}
            \/ /\ onceReceipt = [terminal |-> t, at |-> messages]
               /\ UNCHANGED <<allowOnce, onceReceipt, control>>
               /\ forced' = forced \cup {<<t, messages>>}
            \/ /\ control.at = messages /\ control.state = "authorized"
               /\ control' = [control EXCEPT !.state = "consumed", !.terminal = t]
               /\ forced' = forced \cup {<<t, messages>>}
               /\ UNCHANGED <<allowOnce, onceReceipt>>
            \/ /\ control.at = messages /\ control.state = "consumed" /\ control.terminal = t
               /\ forced' = forced \cup {<<t, messages>>}
               /\ UNCHANGED <<allowOnce, onceReceipt, control>>
            \/ UNCHANGED <<allowOnce, onceReceipt, control, forced>>
<1>1. UNCHANGED <<grants, pause, messages, prompt>>
  BY DEF Stop
<1>2. \/ /\ TakesOnce /\ allowOnce' = FALSE /\ control' = control
         /\ onceReceipt' = [terminal |-> t, at |-> messages] /\ Forces(t)
      \/ ReplaysOnce(t) /\ Forces(t) /\ UNCHANGED <<allowOnce, onceReceipt, control>>
      \/ /\ TakesOwnerStop /\ Forces(t) /\ UNCHANGED <<allowOnce, onceReceipt>>
         /\ control' = [control EXCEPT !.state = "consumed", !.terminal = t]
      \/ ReplaysOwnerStop(t) /\ Forces(t) /\ UNCHANGED <<allowOnce, onceReceipt, control>>
      \/ UNCHANGED <<allowOnce, onceReceipt, control, forced>>
  BY Zenon DEF Stop
<1> QED
  BY Zenon, <1>1, <1>2 DEF Forces, TakesOnce, ReplaysOnce, TakesOwnerStop, ReplaysOwnerStop

LEMMA NextKeepsStops ==
  ASSUME OwnerType, StopType, [Next]_vars
  PROVE  StopType'
<1> USE DEF StopType
<1>1. messages \in Generations
  BY DEF OwnerType
<1>2. ASSUME NEW t \in Turns, NEW interrupt \in BOOLEAN, CommitOwnerStop(t, interrupt)
      PROVE  StopType'
  <2> DEFINE targets == IF interrupt THEN working ELSE {}
  <2>1. targets \in SUBSET Delegates /\ Recorded(targets) \in {"authorized", "dispatch_pending"}
    BY DEF OwnerType, Recorded
  <2>2. /\ control' = [state |-> Recorded(targets), at |-> messages, terminal |-> NoTerminal,
                       targets |-> targets]
        /\ allowOnce' = FALSE /\ grants' = grants + 1
        /\ UNCHANGED <<onceReceipt, forced>>
    BY <1>2 DEF CommitOwnerStop
  <2> HIDE DEF targets
  <2>3. control' \in Controls
    BY <1>1, <2>1, <2>2 DEF Controls
  <2>4. allowOnce' \in BOOLEAN
    BY <2>2
  <2>5. grants' \in Nat
    BY <2>2
  <2> QED  BY <2>2, <2>3, <2>4, <2>5
<1>3. ASSUME NEW e \in Executors, FinalizeOwnerStop(e) \/ FailOwnerStop(e)
      PROVE  StopType'
  <2>1. \/ control' = control
        \/ control' = [control EXCEPT !.state = "authorized"]
        \/ control' = [control EXCEPT !.state = "failed"]
    BY <1>3 DEF FinalizeOwnerStop, FailOwnerStop, Finalized, Failed
  <2>2. control' \in Controls
    BY <2>1 DEF Controls
  <2>3. UNCHANGED <<allowOnce, onceReceipt, grants, forced>>
    BY <1>3 DEF FinalizeOwnerStop, FailOwnerStop
  <2> QED  BY <2>2, <2>3
<1>4. CASE AllowStopOnce
  BY <1>4 DEF AllowStopOnce
<1>5. ASSUME NEW detach \in BOOLEAN, SetAttachment(detach)  PROVE  StopType'
  BY <1>5 DEF SetAttachment
<1>6. ASSUME NEW t \in Terminals, Stop(t)  PROVE  StopType'
  <2>1. onceReceipt' \in {onceReceipt, [terminal |-> t, at |-> messages]}
    BY <1>6, StopMoves
  <2>2. control' \in {control, [control EXCEPT !.state = "consumed", !.terminal = t]}
    BY <1>6, StopMoves
  <2>3. control' \in Controls
    BY <2>2 DEF Controls
  <2>4. allowOnce' \in BOOLEAN /\ grants' = grants
    BY <1>6, StopMoves
  <2>5. forced' \in {forced, forced \cup {<<t, messages>>}}
    BY <1>6, StopMoves
  <2> QED  BY <1>1, <2>1, <2>3, <2>4, <2>5
<1>7. CASE UNCHANGED <<allowOnce, onceReceipt, control, grants, forced>>
  BY <1>7
<1> QED  BY <1>2, <1>3, <1>4, <1>5, <1>6, <1>7, GrantFrame

-----------------------------------------------------------------------------
(* Order.                                                                  *)

LEMMA NextKeepsOrder ==
  ASSUME OwnerType, StopType, Ordered, ExecutorsHaveControl, [Next]_vars
  PROVE  Ordered'
<1> USE DEF Ordered
<1>1. messages' >= messages /\ prompt'.number <= messages'
  <2> USE DEF OwnerType, Generations
  <2>1. CASE CapturePrompt
    BY <2>1, StopAssumption DEF CapturePrompt
  <2>2. CASE NoteUserMessage
    BY <2>2, StopAssumption DEF NoteUserMessage
  <2>3. CASE RearmWait
    BY <2>3, StopAssumption DEF RearmWait
  <2>4. ASSUME NEW t \in Turns, TriagePrompt(t)
        PROVE  messages' >= messages /\ prompt'.number <= messages'
    BY <2>4, StopAssumption DEF TriagePrompt
  <2> QED  BY <2>1, <2>2, <2>3, <2>4, MessageFrame, StopAssumption
<1>2. /\ control'.at = control.at \/ (control'.at = messages /\ messages' = messages)
      /\ control'.state = "none" => control' = control
  <2> USE DEF StopType, Controls
  <2>1. ASSUME NEW t \in Turns, NEW interrupt \in BOOLEAN, CommitOwnerStop(t, interrupt)
        PROVE  control'.at = messages /\ messages' = messages /\ control'.state # "none"
    BY <2>1 DEF CommitOwnerStop, Recorded
  <2>2. ASSUME NEW e \in Executors, FinalizeOwnerStop(e) \/ FailOwnerStop(e)
        PROVE  control'.at = control.at /\ (control'.state = "none" => control' = control)
    BY <2>2 DEF FinalizeOwnerStop, FailOwnerStop, Finalized, Failed
  <2>3. ASSUME NEW t \in Terminals, Stop(t)
        PROVE  control'.at = control.at /\ (control'.state = "none" => control' = control)
    BY <2>3 DEF Stop
  <2>4. AllowStopOnce \/ (\E detach \in BOOLEAN : SetAttachment(detach)) => control' = control
    BY DEF AllowStopOnce, SetAttachment
  <2> QED  BY <2>1, <2>2, <2>3, <2>4, GrantFrame
<1>3. messages \in Nat /\ control.at \in Nat /\ messages' \in Nat
  BY NextKeepsOwner, StopAssumption DEF OwnerType, StopType, Controls, Generations
<1>4. control'.at <= messages'
  BY <1>1, <1>2, <1>3
<1>5. control'.state = "none" => control' = NoControl
  BY <1>2
<1> QED  BY <1>1, <1>4, <1>5

\* A control is never taken away, so an executor that got one keeps it.
LEMMA NextKeepsExecutors ==
  ASSUME StopType, ExecutionType, ExecutorsHaveControl, [Next]_vars
  PROVE  ExecutorsHaveControl'
<1> USE DEF ExecutorsHaveControl
<1>1. control.state # "none" => control'.state # "none"
  <2> USE DEF StopType, Controls
  <2>1. ASSUME NEW t \in Turns, NEW interrupt \in BOOLEAN, CommitOwnerStop(t, interrupt)
        PROVE  control'.state # "none"
    BY <2>1 DEF CommitOwnerStop, Recorded
  <2>2. ASSUME NEW e \in Executors, FinalizeOwnerStop(e) \/ FailOwnerStop(e), control.state # "none"
        PROVE  control'.state # "none"
    BY <2>2 DEF FinalizeOwnerStop, FailOwnerStop, Finalized, Failed
  <2>3. ASSUME NEW t \in Terminals, Stop(t), control.state # "none"
        PROVE  control'.state # "none"
    BY <2>3 DEF Stop
  <2>4. AllowStopOnce \/ (\E detach \in BOOLEAN : SetAttachment(detach)) => control' = control
    BY DEF AllowStopOnce, SetAttachment
  <2> QED  BY <2>1, <2>2, <2>3, <2>4, GrantFrame
<1>2. ASSUME NEW e \in Executors, executor'[e].pc # "idle"
      PROVE  executor[e].pc # "idle" \/ control'.state # "none"
  <2> USE DEF ExecutionType, Idle
  <2>1. CASE EndRecovery
    BY <1>2, <2>1 DEF EndRecovery
  <2>2. ASSUME NEW t \in Turns, KillTurn(t)
        PROVE  executor[e].pc # "idle"
    BY <1>2, <2>2 DEF KillTurn
  <2>3. ASSUME NEW t \in Turns, NEW interrupt \in BOOLEAN, CommitOwnerStop(t, interrupt)
        PROVE  control'.state # "none"
    BY <2>3 DEF CommitOwnerStop, Recorded
  <2>4. CASE RecoverOwnerStop
    BY <2>4, <1>1 DEF RecoverOwnerStop, Recoverable, OwnerStopPending
  <2>5. ASSUME NEW u \in Executors, NEW d \in Delegates, SendPause(u, d) \/ PauseFails(u, d)
        PROVE  executor[e].pc # "idle"
    BY <1>2, <2>5 DEF SendPause, PauseFails
  <2>6. ASSUME NEW u \in Executors, FinalizeOwnerStop(u) \/ FailOwnerStop(u)
        PROVE  executor[e].pc # "idle"
    BY <1>2, <2>6 DEF FinalizeOwnerStop, FailOwnerStop
  <2>7. CASE UNCHANGED executor
    BY <1>2, <2>7
  <2> QED  BY <2>1, <2>2, <2>3, <2>4, <2>5, <2>6, <2>7, ExecutionFrame
<1> QED  BY <1>1, <1>2

-----------------------------------------------------------------------------
(* The book of grants.                                                     *)

\* A Stop adds at most one pair, and none that is there already.
LEMMA AddedStop ==
  ASSUME IsFiniteSet(forced), NEW x, forced' = forced \cup {x}
  PROVE  /\ IsFiniteSet(forced')
         /\ Cardinality(forced) \in Nat /\ Cardinality(forced') \in Nat
         /\ Cardinality(forced') <= Cardinality(forced) + 1
         /\ x \in forced => Cardinality(forced') = Cardinality(forced)
<1>1. IsFiniteSet(forced')
  BY FS_AddElement
<1>2. Cardinality(forced) \in Nat /\ Cardinality(forced') \in Nat
  BY <1>1, FS_CardinalityType
<1>3. x \in forced => forced' = forced
  OBVIOUS
<1>4. x \in forced => Cardinality(forced') = Cardinality(forced)
  BY <1>3
<1>5. x \notin forced => Cardinality(forced') = Cardinality(forced) + 1
  BY FS_AddElement
<1> QED  BY <1>1, <1>2, <1>4, <1>5

LEMMA CommitKeepsBook ==
  ASSUME OwnerType, StopType, Ordered, Book,
         NEW t \in Turns, NEW interrupt \in BOOLEAN, CommitOwnerStop(t, interrupt)
  PROVE  Book'
<1> USE DEF OwnerType, StopType, Controls, Generations
<1>1. control.at < messages
  <2>1. prompt.number # 0 /\ (control.state # "none" => control.at # messages)
    BY DEF CommitOwnerStop, MayPrepare
  <2>2. control.state = "none" => control.at = 0
    BY DEF Ordered, NoControl
  <2>3. messages \in Nat /\ prompt.number \in Nat /\ control.at \in Nat
    BY StopAssumption
  <2> QED  BY <2>1, <2>2, <2>3 DEF Ordered
<1>2. control'.at = messages /\ control'.state \in {"authorized", "dispatch_pending"}
  BY DEF CommitOwnerStop, Recorded
<1>3. grants' = grants + 1 /\ UNCHANGED <<onceReceipt, forced>>
  BY DEF CommitOwnerStop
<1>4. OpenOnce' = 0 /\ OpenControl' = 1
  BY <1>2 DEF CommitOwnerStop, OpenOnce, OpenControl
<1>5. OpenOnce \in {0, 1} /\ OpenControl \in {0, 1}
  BY DEF OpenOnce, OpenControl
<1>6. Cardinality(forced) \in Nat
  BY FS_CardinalityType DEF Book, GrantsCount
<1>7. Cardinality(forced') = Cardinality(forced)
  BY <1>3
<1>8. GrantsCount'
  BY <1>1, <1>2, <1>3, <1>4, <1>5, <1>6, <1>7, StopAssumption DEF Book, GrantsCount
<1>9. ReceiptsAreStops'
  BY <1>2, <1>3 DEF Book, ReceiptsAreStops
<1> QED  BY <1>8, <1>9 DEF Book

LEMMA StopKeepsBook ==
  ASSUME OwnerType, StopType, Book, NEW t \in Terminals, Stop(t)
  PROVE  Book'
<1> USE DEF StopType, Controls
<1> DEFINE x == <<t, messages>>
<1>1. t # NoTerminal
  BY StopAssumption
<1>2. OpenOnce \in {0, 1} /\ OpenControl \in {0, 1}
  BY DEF OpenOnce, OpenControl
<1>3. IsFiniteSet(forced) /\ Cardinality(forced) \in Nat
  BY FS_CardinalityType DEF Book, GrantsCount
<1>4. CASE /\ allowOnce /\ allowOnce' = FALSE /\ control' = control
           /\ onceReceipt' = [terminal |-> t, at |-> messages]
           /\ forced' = forced \cup {x}
           /\ grants' = grants
  <2>1. OpenOnce = 1 /\ OpenOnce' = 0 /\ OpenControl' = OpenControl
    BY <1>4 DEF OpenOnce, OpenControl
  <2>2. IsFiniteSet(forced') /\ Cardinality(forced') \in Nat /\ Cardinality(forced') <= Cardinality(forced) + 1
    BY <1>3, <1>4, AddedStop
  <2>3. GrantsCount'
    BY <1>2, <1>3, <1>4, <2>1, <2>2 DEF Book, GrantsCount
  <2>4. ReceiptsAreStops'
    BY <1>4 DEF Book, ReceiptsAreStops
  <2> QED  BY <2>3, <2>4 DEF Book
<1>5. CASE /\ control.at = messages /\ control.state = "authorized"
           /\ control' = [control EXCEPT !.state = "consumed", !.terminal = t]
           /\ forced' = forced \cup {x}
           /\ UNCHANGED <<allowOnce, onceReceipt, grants>>
  <2>1. OpenOnce' = OpenOnce /\ OpenControl = 1 /\ OpenControl' = 0 /\ control'.at = control.at
    BY <1>5 DEF OpenOnce, OpenControl
  <2>2. GrantsCount'
    BY <1>2, <1>3, <1>5, <2>1, AddedStop DEF Book, GrantsCount
  <2>3. ReceiptsAreStops'
    BY <1>5 DEF Book, ReceiptsAreStops
  <2> QED  BY <2>2, <2>3 DEF Book
<1>6. CASE /\ UNCHANGED <<allowOnce, onceReceipt, control, grants>>
           /\ \/ forced' = forced
              \/ x \in forced /\ forced' = forced \cup {x}
  <2>1. forced' = forced
    BY <1>6
  <2>2. OpenOnce' = OpenOnce /\ OpenControl' = OpenControl
    BY <1>6 DEF OpenOnce, OpenControl
  <2> QED  BY <1>6, <2>1, <2>2 DEF Book, GrantsCount, ReceiptsAreStops
<1>7. onceReceipt = [terminal |-> t, at |-> messages] => x \in forced
  BY <1>1 DEF Book, ReceiptsAreStops
<1>8. control.at = messages /\ control.state = "consumed" /\ control.terminal = t => x \in forced
  BY DEF Book, ReceiptsAreStops
<1> QED  BY <1>4, <1>5, <1>6, <1>7, <1>8, StopMoves

LEMMA NextKeepsBook ==
  ASSUME OwnerType, StopType, ExecutionType, Ordered, ExecutorsHaveControl, Book, [Next]_vars
  PROVE  Book'
<1> USE DEF Book, ReceiptsAreStops, GrantsCount, OpenOnce, OpenControl
<1>1. ASSUME NEW t \in Turns, NEW interrupt \in BOOLEAN, CommitOwnerStop(t, interrupt)
      PROVE  Book'
  BY <1>1, CommitKeepsBook
<1>2. ASSUME NEW e \in Executors, FinalizeOwnerStop(e) \/ FailOwnerStop(e)
      PROVE  Book'
  <2>1. control.state # "none"
    BY <1>2 DEF FinalizeOwnerStop, FailOwnerStop, ExecutorsHaveControl
  <2>2. \/ control' = control
        \/ /\ control.state \in {"dispatch_pending", "failed"}
           /\ \E s \in {"authorized", "failed"} : control' = [control EXCEPT !.state = s]
    BY <1>2, <2>1 DEF FinalizeOwnerStop, FailOwnerStop, Finalized, Failed, StopType, Controls
  <2>3. UNCHANGED <<allowOnce, onceReceipt, grants, forced>>
    BY <1>2 DEF FinalizeOwnerStop, FailOwnerStop
  <2>4. /\ control'.at = control.at
        /\ OpenOnce' = OpenOnce /\ OpenControl' = OpenControl
        /\ control'.state = "consumed" => control' = control
    BY <2>2, <2>3 DEF StopType, Controls
  <2> QED  BY <2>3, <2>4
<1>3. CASE AllowStopOnce
  <2>1. Cardinality(forced) \in Nat
    BY FS_CardinalityType
  <2>2. /\ ~allowOnce /\ allowOnce' = TRUE /\ grants' = grants + 1 /\ grants < MaxGrants
        /\ UNCHANGED <<onceReceipt, control, forced>>
    BY <1>3 DEF AllowStopOnce
  <2> QED  BY <2>1, <2>2, StopAssumption DEF StopType, Controls, Generations
<1>4. ASSUME NEW detach \in BOOLEAN, SetAttachment(detach)
      PROVE  Book'
  <2>1. Cardinality(forced) \in Nat
    BY FS_CardinalityType
  <2>2. allowOnce' = FALSE /\ UNCHANGED <<onceReceipt, control, grants, forced>>
    BY <1>4 DEF SetAttachment
  <2> QED  BY <2>1, <2>2 DEF StopType
<1>5. ASSUME NEW t \in Terminals, Stop(t)
      PROVE  Book'
  BY <1>5, StopKeepsBook
<1>6. CASE UNCHANGED <<allowOnce, onceReceipt, control, grants, forced>>
  BY <1>6
<1> QED  BY <1>1, <1>2, <1>3, <1>4, <1>5, <1>6, GrantFrame

-----------------------------------------------------------------------------
(* Pauses, prompts and turns.                                              *)

\* A pause that was delivered stays so until a new control writes its own.
LEMMA DeliveredStays ==
  ASSUME OwnerType, StopType, ExecutionType, [Next]_vars
  PROVE  \/ \E t \in Turns, interrupt \in BOOLEAN : CommitOwnerStop(t, interrupt)
         \/ \A g \in Generations, d \in Delegates :
              pause[g][d] = "delivered" => pause'[g][d] = "delivered"
<1> USE DEF ExecutionType
<1>1. ASSUME NEW e \in Executors, NEW c \in Delegates, SendPause(e, c),
             NEW g \in Generations, NEW d \in Delegates, pause[g][d] = "delivered"
      PROVE  pause'[g][d] = "delivered"
  BY <1>1 DEF SendPause
<1>2. ASSUME NEW e \in Executors, NEW c \in Delegates, PauseFails(e, c),
             NEW g \in Generations, NEW d \in Delegates, pause[g][d] = "delivered"
      PROVE  pause'[g][d] = "delivered"
  <2>1. pause[executor[e].at][c] # "delivered"
    BY <1>2 DEF PauseFails
  <2>2. pause' = pause \/ pause' = [pause EXCEPT ![executor[e].at][c] = "uncertain"]
    BY <1>2 DEF PauseFails
  <2> QED  BY <1>2, <2>1, <2>2
<1>3. (\/ RecoverOwnerStop
       \/ \E t \in Turns : KillTurn(t)
       \/ \E e \in Executors : FinalizeOwnerStop(e) \/ FailOwnerStop(e)) => pause' = pause
  BY DEF RecoverOwnerStop, KillTurn, FinalizeOwnerStop, FailOwnerStop
<1> QED  BY <1>1, <1>2, <1>3, ExecutionFrame

LEMMA NextKeepsDelivered ==
  ASSUME OwnerType, StopType, ExecutionType, ExecutorsHaveControl, AuthorizedIsDelivered, [Next]_vars
  PROVE  AuthorizedIsDelivered'
<1> USE DEF StopType, Controls
<1>1. ASSUME NEW t \in Turns, NEW interrupt \in BOOLEAN, CommitOwnerStop(t, interrupt)
      PROVE  AuthorizedIsDelivered'
  BY <1>1 DEF CommitOwnerStop, Recorded, AuthorizedIsDelivered
<1>2. ASSUME \A g \in Generations, d \in Delegates :
               pause[g][d] = "delivered" => pause'[g][d] = "delivered"
      PROVE  \/ \E t \in Turns, interrupt \in BOOLEAN : CommitOwnerStop(t, interrupt)
             \/ AuthorizedIsDelivered'
  <2>1. ASSUME NEW e \in Executors, FinalizeOwnerStop(e) \/ FailOwnerStop(e)
        PROVE  /\ control'.at = control.at /\ control'.targets = control.targets
               /\ control'.state \in {"authorized", "consumed"} =>
                    \/ control.state \in {"authorized", "consumed"}
                    \/ \A d \in control.targets : pause[control.at][d] = "delivered"
    BY <2>1 DEF FinalizeOwnerStop, FailOwnerStop, Finalized, Failed, IsCurrent
  <2>2. ASSUME NEW t \in Terminals, Stop(t)
        PROVE  /\ control'.at = control.at /\ control'.targets = control.targets
               /\ control'.state \in {"authorized", "consumed"} => control.state \in {"authorized", "consumed"}
    BY <2>2, StopMoves
  <2>3. AllowStopOnce \/ (\E detach \in BOOLEAN : SetAttachment(detach)) => control' = control
    BY DEF AllowStopOnce, SetAttachment
  <2> QED  BY <1>2, <2>1, <2>2, <2>3, GrantFrame DEF AuthorizedIsDelivered
<1> QED  BY <1>1, <1>2, DeliveredStays

LEMMA NextKeepsPrompt ==
  ASSUME OwnerType, StopType, ExecutionType, Ordered, ExecutorsHaveControl, OwnerStopSawEveryPrompt, [Next]_vars
  PROVE  OwnerStopSawEveryPrompt'
<1> USE DEF OwnerType, StopType, Controls, Generations, Ordered, OwnerStopSawEveryPrompt
<1>1. \/ messages' = messages + 1
      \/ messages' = messages /\ (prompt'.untriaged => prompt.untriaged)
  <2>1. CASE CapturePrompt \/ NoteUserMessage
    BY <2>1 DEF CapturePrompt, NoteUserMessage
  <2>2. CASE RearmWait
    BY <2>2 DEF RearmWait
  <2>3. ASSUME NEW t \in Turns, TriagePrompt(t)
        PROVE  messages' = messages /\ prompt'.untriaged = FALSE
    BY <2>3 DEF TriagePrompt
  <2> QED  BY <2>1, <2>2, <2>3, MessageFrame
<1>2. \/ control'.at = messages /\ messages' = messages /\ ~prompt.untriaged
      \/ control'.at = control.at /\ (control'.state # "none" => control.state # "none")
  <2>1. ASSUME NEW t \in Turns, NEW interrupt \in BOOLEAN, CommitOwnerStop(t, interrupt)
        PROVE  control'.at = messages /\ messages' = messages /\ ~prompt.untriaged
    BY <2>1 DEF CommitOwnerStop, MayPrepare
  <2>2. ASSUME NEW e \in Executors, FinalizeOwnerStop(e) \/ FailOwnerStop(e)
        PROVE  control'.at = control.at /\ (control'.state # "none" => control.state # "none")
    BY <2>2 DEF FinalizeOwnerStop, FailOwnerStop, Finalized, Failed, ExecutorsHaveControl
  <2>3. ASSUME NEW t \in Terminals, Stop(t)
        PROVE  control'.at = control.at /\ (control'.state # "none" => control.state # "none")
    BY <2>3, StopMoves
  <2>4. AllowStopOnce \/ (\E detach \in BOOLEAN : SetAttachment(detach)) => control' = control
    BY DEF AllowStopOnce, SetAttachment
  <2> QED  BY <2>1, <2>2, <2>3, <2>4, GrantFrame
<1> QED  BY <1>1, <1>2, StopAssumption

LEMMA NextKeepsTurn ==
  ASSUME OwnerType, OpenTurnIsActive, [Next]_vars
  PROVE  OpenTurnIsActive'
<1> USE StopAssumption DEF OwnerType, OpenTurnIsActive
<1>1. ASSUME NEW t \in Turns, BeginTurn(t)
      PROVE  OpenTurnIsActive'
  BY <1>1 DEF BeginTurn
<1>2. ASSUME NEW t \in Turns, TriagePrompt(t)
      PROVE  OpenTurnIsActive'
  BY <1>2 DEF TriagePrompt
<1>3. ASSUME NEW t \in Turns, CommitTurn(t) \/ AbortTurn(t) \/ KillTurn(t)
      PROVE  OpenTurnIsActive'
  BY <1>3 DEF CommitTurn, AbortTurn, KillTurn
<1>4. ASSUME NEW t \in Turns, NEW interrupt \in BOOLEAN, CommitOwnerStop(t, interrupt)
      PROVE  OpenTurnIsActive'
  BY <1>4 DEF CommitOwnerStop
<1> QED  BY <1>1, <1>2, <1>3, <1>4, TurnFrame

-----------------------------------------------------------------------------
(* The theorems.                                                           *)

LEMMA StopInvariant == Spec => []SInv
<1>1. SInv /\ [Next]_vars => SInv'
  BY NextKeepsFences, NextKeepsOwner, NextKeepsExecution, NextKeepsStops, NextKeepsOrder,
     NextKeepsExecutors, NextKeepsBook, NextKeepsDelivered, NextKeepsPrompt, NextKeepsTurn
     DEF SInv
<1> QED  BY InitSInv, <1>1, PTL DEF Spec

\* However many turns, executors, replays of the Stop hook, crashes and messages
\* there are, every Stop the Shotcaller was forced to owe nothing for has a grant
\* of its own, and a current owner stop has seen every prompt (stop_decision,
\* set_allow_stop_once, prepare_owner_stop_control, _owner_stop_prepare_context).
THEOREM StopsAreAuthorized == Spec => []StopIsAuthorized
<1>1. SInv => TypeOK
  <2> SUFFICES ASSUME SInv PROVE TypeOK
    OBVIOUS
  <2>1. Cardinality(forced) \in Nat
    BY FS_CardinalityType DEF SInv, Book, GrantsCount
  <2>2. grants \in 0..(MaxMessages + MaxGrants)
    BY StopAssumption DEF SInv, Book, GrantsCount, StopType, Controls, Generations
  <2> QED  BY <2>2 DEF SInv, TypeOK, OwnerType, StopType, Controls, ExecutionType
<1>2. SInv => Cardinality(forced) <= grants
  <2> SUFFICES ASSUME SInv PROVE Cardinality(forced) <= grants
    OBVIOUS
  <2>1. Cardinality(forced) \in Nat
    BY FS_CardinalityType DEF SInv, Book, GrantsCount
  <2> QED  BY <2>1 DEF SInv, Book, GrantsCount, OpenOnce, OpenControl, StopType
<1>3. SInv => StopIsAuthorized
  BY <1>1, <1>2 DEF SInv, StopIsAuthorized, OneGrantOneStop
<1> QED  BY StopInvariant, <1>3, PTL

\* An owner stop authorizes only when the pause of every delegate it interrupts
\* was delivered, with any number of delegates and of executors that die half
\* way (finalize_owner_stop_control, execute_owner_stop_controls).
THEOREM AuthorizedStopsAreDelivered == Spec => []AuthorizedIsDelivered
<1>1. SInv => AuthorizedIsDelivered
  BY DEF SInv
<1> QED  BY StopInvariant, <1>1, PTL

\* Of any number of request turns one at most is open, and it is the active one
\* (begin_shotcaller_turn, abort_shotcaller_turn).
THEOREM OpenTurnsAreActive == Spec => []OpenTurnIsActive
<1>1. SInv => OpenTurnIsActive
  BY DEF SInv
<1> QED  BY StopInvariant, <1>1, PTL

\* An authorization ends in its Stop or under the control of a later message; a
\* late failure of another executor cannot take it back (fail_owner_stop_control).
THEOREM AuthorizationsAreKept == Spec => AuthorizationIsKept
<1> DEFINE Kept == control.state = "authorized" /\ control' # control =>
                     \/ control'.at > control.at
                     \/ control'.state = "consumed" /\ control'.at = control.at
<1>1. ASSUME SInv, [Next]_vars, control.state = "authorized", control' # control
      PROVE  control'.at > control.at \/ (control'.state = "consumed" /\ control'.at = control.at)
  <2> USE <1>1 DEF SInv, OwnerType, StopType, Controls, Generations
  <2>1. ASSUME NEW t \in Turns, NEW interrupt \in BOOLEAN, CommitOwnerStop(t, interrupt)
        PROVE  control'.at > control.at
    <3>1. control.at # messages /\ control'.at = messages
      BY <2>1 DEF CommitOwnerStop, MayPrepare
    <3>2. control.at \in Nat /\ messages \in Nat /\ control.at <= messages
      BY StopAssumption DEF Ordered
    <3> QED  BY <3>1, <3>2
  <2>2. ASSUME NEW e \in Executors, FinalizeOwnerStop(e) \/ FailOwnerStop(e)
        PROVE  FALSE
    BY <2>2 DEF FinalizeOwnerStop, FailOwnerStop, Finalized, Failed
  <2>3. ASSUME NEW t \in Terminals, Stop(t)
        PROVE  control'.state = "consumed" /\ control'.at = control.at
    BY <2>3, StopMoves
  <2>4. ~(AllowStopOnce \/ \E detach \in BOOLEAN : SetAttachment(detach))
    BY DEF AllowStopOnce, SetAttachment
  <2> QED  BY <2>1, <2>2, <2>3, <2>4, GrantFrame
<1>2. SInv /\ [Next]_vars => [Kept]_vars
  BY <1>1
<1>3. Spec => [][Kept]_vars
  BY StopInvariant, <1>2, PTL DEF Spec
<1> QED  BY <1>3 DEF AuthorizationIsKept
=============================================================================
