-------------------------------- MODULE Stop --------------------------------
(***************************************************************************)
(* When a Shotcaller may stop: stop_decision over its obligations, its     *)
(* open request turn, the one-shot authorization, the semantic owner stop  *)
(* with the pauses it owes to the delegates, and the detached handoff.     *)
(*                                                                         *)
(* Processes: the owner's messages, request turns (one process per token), *)
(* executors of owner stops (the turn that recorded one, and the           *)
(* supervisor that recovers it), provider Stop hooks, the supervisor.      *)
(***************************************************************************)
EXTENDS Supervision, FiniteSets

CONSTANTS
  Delegates,     \* Champions and hidden workers of the Shotcaller
  Turns,         \* processes of `league request turn`, each with its own token
  NoTurn,
  Recovery,      \* the executor in the supervisor (_recover_owner_stops)
  Terminals,     \* terminal generations that Stop hooks report
  NoTerminal,
  MaxMessages,   \* bound: messages of the owner
  MaxGrants      \* bound: uses of allow-stop

ASSUME StopAssumption ==
  /\ NoTurn \notin Turns
  /\ Recovery \notin Turns
  /\ NoTerminal \notin Terminals
  /\ MaxMessages \in Nat
  /\ MaxGrants \in Nat

VARIABLES
  messages,      \* watcher_scopes.user_message_generation
  prompt,        \* the newest captured prompt: its number, whether last_event_id
                 \* names it and whether it is untriaged
  turn,          \* shotcaller_turn: the token of the active turn, or none
  process,       \* per turn process: pc and the prompt it took in
  allowOnce,     \* allow_stop_once
  onceReceipt,   \* allow_stop_once_receipt: terminal and message generation
  control,       \* owner_stop: state, generation, terminal, targets
  pause,         \* per generation and delegate: the outbox row of its pause
  executor,      \* per executor: pc, generation and targets still to dispatch
  working,       \* delegates with active work
  grants,        \* history: authorizations given, one-shot or owner stop
  forced         \* history: the Stops they allowed, as terminal and generation

scope == <<messages, prompt, turn, process, allowOnce, onceReceipt, control,
           pause, executor, working, grants, forced>>

vars == <<supervision, scope>>

Executors == Turns \cup {Recovery}

Generations == 0..MaxMessages

NoReceipt == [terminal |-> NoTerminal, at |-> 0]

NoControl == [state |-> "none", at |-> 0, terminal |-> NoTerminal, targets |-> {}]

Idle == [pc |-> "idle", at |-> 0, todo |-> {}]

TypeOK ==
  /\ SupervisionType
  /\ messages \in Generations
  /\ prompt \in [number : Generations, named : BOOLEAN, untriaged : BOOLEAN]
  /\ turn \in Turns \cup {NoTurn}
  /\ process \in [Turns -> [pc : {"new", "open", "ended"}, prompt : Generations]]
  /\ allowOnce \in BOOLEAN
  /\ onceReceipt \in [terminal : Terminals \cup {NoTerminal}, at : Generations]
  /\ control \in [state : {"none", "dispatch_pending", "authorized", "consumed", "failed"},
                  at : Generations, terminal : Terminals \cup {NoTerminal},
                  targets : SUBSET Delegates]
  /\ pause \in [Generations -> [Delegates -> {"none", "pending", "uncertain", "delivered"}]]
  /\ executor \in [Executors -> [pc : {"idle", "sending", "failing"}, at : Generations,
                                 todo : SUBSET Delegates]]
  /\ working \in SUBSET Delegates
  /\ grants \in 0..(MaxMessages + MaxGrants)
  /\ forced \in SUBSET (Terminals \X Generations)

Init ==
  /\ SupervisionInit
  /\ messages = 0
  /\ prompt = [number |-> 0, named |-> FALSE, untriaged |-> FALSE]
  /\ turn = NoTurn
  /\ process = [t \in Turns |-> [pc |-> "new", prompt |-> 0]]
  /\ allowOnce = FALSE
  /\ onceReceipt = NoReceipt
  /\ control = NoControl
  /\ pause = [g \in Generations |-> [d \in Delegates |-> "none"]]
  /\ executor = [e \in Executors |-> Idle]
  /\ working \in SUBSET Delegates
  /\ grants = 0
  /\ forced = {}

-----------------------------------------------------------------------------
(* The owner and the environment.                                          *)

\* intake_prompt with its wake.  A pending one-shot authorization survives.
CapturePrompt ==
  /\ messages < MaxMessages
  /\ messages' = messages + 1
  /\ prompt' = [number |-> messages', named |-> TRUE, untriaged |-> TRUE]
  /\ UNCHANGED <<supervision, turn, process, allowOnce, onceReceipt, control, pause,
                 executor, working, grants, forced>>

\* note_user_message: the owner is heard, no prompt is recorded.
NoteUserMessage ==
  /\ messages < MaxMessages
  /\ messages' = messages + 1
  /\ UNCHANGED <<supervision, prompt, turn, process, allowOnce, onceReceipt, control,
                 pause, executor, working, grants, forced>>

\* rearm_wait of a foreground supervision writes its own last_event_id.
RearmWait ==
  /\ prompt.named
  /\ prompt' = [prompt EXCEPT !.named = FALSE]
  /\ UNCHANGED <<supervision, messages, turn, process, allowOnce, onceReceipt, control,
                 pause, executor, working, grants, forced>>

\* Delegated work starts and ends.
Work ==
  /\ \E d \in Delegates :
       working' = IF d \in working THEN working \ {d} ELSE working \cup {d}
  /\ UNCHANGED <<supervision, messages, prompt, turn, process, allowOnce, onceReceipt,
                 control, pause, executor, grants, forced>>

-----------------------------------------------------------------------------
(* Request turns.                                                          *)

\* begin_shotcaller_turn: refused while another turn is active.
BeginTurn(t) ==
  /\ process[t].pc = "new"
  /\ turn = NoTurn
  /\ turn' = t
  /\ process' = [process EXCEPT ![t].pc = "open"]
  /\ UNCHANGED <<supervision, messages, prompt, allowOnce, onceReceipt, control, pause,
                 executor, working, grants, forced>>

\* Intake and begin_request_turn: the process reads and triages the prompt.
TriagePrompt(t) ==
  /\ process[t].pc = "open"
  /\ process[t].prompt = 0
  /\ prompt.untriaged
  /\ prompt' = [prompt EXCEPT !.untriaged = FALSE]
  /\ process' = [process EXCEPT ![t].prompt = prompt.number]
  /\ UNCHANGED <<supervision, messages, turn, allowOnce, onceReceipt, control, pause,
                 executor, working, grants, forced>>

\* commit_shotcaller_turn at the end of a turn without owner control.
CommitTurn(t) ==
  /\ process[t].pc = "open"
  /\ turn = t
  /\ turn' = NoTurn
  /\ process' = [process EXCEPT ![t].pc = "ended"]
  /\ UNCHANGED <<supervision, messages, prompt, allowOnce, onceReceipt, control, pause,
                 executor, working, grants, forced>>

\* Mutant of MayPrepare: the prompt of the turn need not be the latest.
MayPrepareForOldPrompt(p) ==
  /\ p # 0
  /\ control.state # "none" => control.at # messages

\* _owner_stop_prepare_context: the control binds the latest prompt, wholly
\* triaged, and a generation carries one control.
MayPrepare(p) ==
  /\ p # 0
  /\ p = prompt.number /\ prompt.named
  /\ ~prompt.untriaged
  /\ control.state # "none" => control.at # messages

\* Mutant of Recorded: a control is authorized before its pauses are sent.
RecordedAuthorized(targets) == "authorized"

\* The state in which prepare_owner_stop_control records a control.
Recorded(targets) == IF targets = {} THEN "authorized" ELSE "dispatch_pending"

\* commit_interactive_request_turn with an owner stop: in one transaction the
\* control is recorded with one pause per working delegate, and the turn ends.
\* The process then executes the control.
CommitOwnerStop(t, interrupt) ==
  LET targets == IF interrupt THEN working ELSE {} IN
  /\ process[t].pc = "open"
  /\ turn = t
  /\ MayPrepare(process[t].prompt)
  /\ turn' = NoTurn
  /\ process' = [process EXCEPT ![t].pc = "ended"]
  /\ control' = [state |-> Recorded(targets),
                 at |-> messages, terminal |-> NoTerminal, targets |-> targets]
  /\ pause' = [pause EXCEPT ![messages] =
                 [d \in Delegates |-> IF d \in targets THEN "pending" ELSE @[d]]]
  /\ executor' = [executor EXCEPT ![t] = [pc |-> "sending", at |-> messages, todo |-> targets]]
  /\ allowOnce' = FALSE
  /\ grants' = grants + 1
  /\ UNCHANGED <<supervision, messages, prompt, onceReceipt, working, forced>>

\* The `finally` of the turn: abort_shotcaller_turn.
AbortTurn(t) ==
  /\ process[t].pc = "open"
  /\ turn' = IF turn = t THEN NoTurn ELSE turn
  /\ process' = [process EXCEPT ![t].pc = "ended"]
  /\ UNCHANGED <<supervision, messages, prompt, allowOnce, onceReceipt, control, pause,
                 executor, working, grants, forced>>

\* The process is killed; an active turn stays active.
KillTurn(t) ==
  /\ process[t].pc = "open" \/ executor[t].pc # "idle"
  /\ process' = [process EXCEPT ![t].pc = "ended"]
  /\ executor' = [executor EXCEPT ![t] = Idle]
  /\ UNCHANGED <<supervision, messages, prompt, turn, allowOnce, onceReceipt, control,
                 pause, working, grants, forced>>

-----------------------------------------------------------------------------
(* Execution of owner stops.                                               *)

\* A current control that still has to be delivered.
OwnerStopPending == control.at = messages /\ control.state \in {"dispatch_pending", "failed"}


\* pending_owner_stop_controls
Recoverable == OwnerStopPending

\* _recover_owner_stops, in the supervisor: execute_owner_stop_controls.
RecoverOwnerStop ==
  /\ binding.fence # 0
  /\ executor[Recovery].pc = "idle"
  /\ Recoverable
  /\ executor' = [executor EXCEPT ![Recovery] =
                    [pc |-> "sending", at |-> messages, todo |-> control.targets]]
  /\ UNCHANGED <<supervision, messages, prompt, turn, process, allowOnce, onceReceipt,
                 control, pause, working, grants, forced>>

\* dispatch_source of one pause: it is delivered, or already was.
SendPause(e, d) ==
  LET g == executor[e].at IN
  /\ executor[e].pc = "sending"
  /\ d \in executor[e].todo
  /\ pause[g][d] \in {"pending", "delivered"}
  /\ pause' = [pause EXCEPT ![g][d] = "delivered"]
  /\ executor' = [executor EXCEPT ![e].todo = @ \ {d}]
  /\ UNCHANGED <<supervision, messages, prompt, turn, process, allowOnce, onceReceipt,
                 control, working, grants, forced>>

\* dispatch_source raises: nothing reached the delegate (the pause is still
\* pending), or nobody knows.  An uncertain pause stays so: claim_outbox refuses
\* it, and reading it is no receipt (reconcile_received_outbox, acknowledge).
PauseFails(e, d) ==
  LET g == executor[e].at IN
  /\ executor[e].pc = "sending"
  /\ d \in executor[e].todo
  /\ pause[g][d] # "delivered"
  /\ \/ UNCHANGED pause
     \/ pause' = [pause EXCEPT ![g][d] = "uncertain"]
  /\ executor' = [executor EXCEPT ![e].pc = "failing"]
  /\ UNCHANGED <<supervision, messages, prompt, turn, process, allowOnce, onceReceipt,
                 control, working, grants, forced>>

\* _current_owner_stop_control
IsCurrent(g) == control.at = g /\ g = messages

\* finalize_owner_stop_control: authorized when every pause is delivered.
Finalized(g) ==
  IF /\ control.state \in {"dispatch_pending", "failed"}
     /\ \A d \in control.targets : pause[g][d] = "delivered"
    THEN [control EXCEPT !.state = "authorized"]
    ELSE control

FinalizeOwnerStop(e) ==
  /\ executor[e].pc = "sending"
  /\ executor[e].todo = {}
  /\ control' = IF IsCurrent(executor[e].at) THEN Finalized(executor[e].at) ELSE control
  /\ executor' = [executor EXCEPT ![e] = Idle]
  /\ UNCHANGED <<supervision, messages, prompt, turn, process, allowOnce, onceReceipt,
                 pause, working, grants, forced>>

\* Mutant of Failed: a late failure takes an authorization back.
FailedAlways == [control EXCEPT !.state = "failed"]

\* fail_owner_stop_control: a late failure does not undo an authorization.
Failed ==
  IF control.state \in {"authorized", "consumed"} THEN control
  ELSE [control EXCEPT !.state = "failed"]

FailOwnerStop(e) ==
  /\ executor[e].pc = "failing"
  /\ control' = IF IsCurrent(executor[e].at) THEN Failed ELSE control
  /\ executor' = [executor EXCEPT ![e] = Idle]
  /\ UNCHANGED <<supervision, messages, prompt, turn, process, allowOnce, onceReceipt,
                 pause, working, grants, forced>>

-----------------------------------------------------------------------------
(* Authorization and decision.                                             *)

\* set_allow_stop_once
AllowStopOnce ==
  /\ grants < MaxGrants
  /\ ~allowOnce
  /\ allowOnce' = TRUE
  /\ grants' = grants + 1
  /\ UNCHANGED <<supervision, messages, prompt, turn, process, onceReceipt, control,
                 pause, executor, working, forced>>

\* set_supervision_attachment; either way a one-shot authorization lapses.
SetAttachment(detach) ==
  /\ MayAttach
  /\ Attachment(detach)
  /\ allowOnce' = FALSE
  /\ UNCHANGED <<registration, floor, binding, runtime, issued, messages, prompt, turn, process,
                 onceReceipt, control, pause, executor, working, grants, forced>>

\* _owner_actionable_counts, and all obligations.
OwnerOwes == prompt.untriaged \/ turn # NoTurn

Owes == OwnerOwes \/ working # {}

\* The one-shot authorization is taken, leaving its receipt.
TakesOnce == allowOnce

\* Mutant of ReplaysOnce: the replay ignores the owner's later messages.
ReplaysOnceStale(t) == onceReceipt.terminal = t

ReplaysOnce(t) == onceReceipt = [terminal |-> t, at |-> messages]

TakesOwnerStop == control.at = messages /\ control.state = "authorized"

ReplaysOwnerStop(t) ==
  control.at = messages /\ control.state = "consumed" /\ control.terminal = t

\* What is left to the obligations: a detached Shotcaller may leave delegated
\* work to its live supervisor, an attached one owes everything.
NothingHolds ==
  IF Detached THEN ~OwnerOwes /\ (working # {} => HandoffIsLive) ELSE ~Owes

Forces(t) == forced' = forced \cup {<<t, messages>>}

\* stop_decision that allows, in the order of its tests.
Stop(t) ==
  /\ \/ /\ TakesOnce
        /\ allowOnce' = FALSE
        /\ onceReceipt' = [terminal |-> t, at |-> messages]
        /\ Forces(t)
        /\ UNCHANGED control
     \/ /\ ~TakesOnce
        /\ ReplaysOnce(t)
        /\ Forces(t)
        /\ UNCHANGED <<allowOnce, onceReceipt, control>>
     \/ /\ ~TakesOnce /\ ~ReplaysOnce(t)
        /\ TakesOwnerStop
        /\ control' = [control EXCEPT !.state = "consumed", !.terminal = t]
        /\ Forces(t)
        /\ UNCHANGED <<allowOnce, onceReceipt>>
     \/ /\ ~TakesOnce /\ ~ReplaysOnce(t)
        /\ ReplaysOwnerStop(t)
        /\ Forces(t)
        /\ UNCHANGED <<allowOnce, onceReceipt, control>>
     \/ /\ ~TakesOnce /\ ~ReplaysOnce(t) /\ ~TakesOwnerStop /\ ~ReplaysOwnerStop(t)
        /\ ~OwnerStopPending
        /\ NothingHolds
        /\ UNCHANGED <<allowOnce, onceReceipt, control, forced>>
  /\ UNCHANGED <<supervision, messages, prompt, turn, process, pause, executor, working,
                 grants>>

-----------------------------------------------------------------------------
\* The supervisor process ends with the executor in it.
EndRecovery == executor' = [executor EXCEPT ![Recovery] = Idle]

scopeButExecutor == <<messages, prompt, turn, process, allowOnce, onceReceipt, control,
                      pause, working, grants, forced>>

Supervisor ==
  \/ /\ Register \/ ExpireRegistration \/ RestoreRuntime
     /\ UNCHANGED scope
  \/ /\ ReleaseWatcher \/ KillSupervisor
     /\ EndRecovery
     /\ UNCHANGED scopeButExecutor

Next ==
  \/ Supervisor
  \/ CapturePrompt \/ NoteUserMessage \/ RearmWait \/ Work
  \/ \E t \in Turns :
       \/ BeginTurn(t) \/ TriagePrompt(t) \/ CommitTurn(t) \/ AbortTurn(t) \/ KillTurn(t)
       \/ \E interrupt \in BOOLEAN : CommitOwnerStop(t, interrupt)
  \/ RecoverOwnerStop
  \/ \E e \in Executors :
       \/ \E d \in Delegates : SendPause(e, d) \/ PauseFails(e, d)
       \/ FinalizeOwnerStop(e) \/ FailOwnerStop(e)
  \/ AllowStopOnce
  \/ \E detach \in BOOLEAN : SetAttachment(detach)
  \/ \E t \in Terminals : Stop(t)

Spec == Init /\ [][Next]_vars

\* The supervisor restarts, runs its recovery loop, and a pause that it sends
\* again and again gets through, unless a sending of it ends uncertain.
Fairness ==
  /\ WF_vars(Register /\ UNCHANGED scope)
  /\ WF_vars(RecoverOwnerStop)
  /\ WF_vars(FinalizeOwnerStop(Recovery))
  /\ WF_vars(FailOwnerStop(Recovery))
  /\ \A d \in Delegates : SF_vars(SendPause(Recovery, d))
  /\ \A d \in Delegates : WF_vars(PauseFails(Recovery, d))

FairSpec == Spec /\ Fairness

-----------------------------------------------------------------------------
\* One authorization lets the Shotcaller stop once: every Stop it forced is the
\* same terminal at the same message, however often the hook is replayed
\* (stop_decision, set_allow_stop_once, prepare_owner_stop_control).
OneGrantOneStop == TypeOK /\ Cardinality(forced) <= grants

\* A control authorizes its Stop only when every delegate it interrupts got its
\* pause (finalize_owner_stop_control), however many executors worked on it.
AuthorizedIsDelivered ==
  control.state \in {"authorized", "consumed"} =>
    \A d \in control.targets : pause[control.at][d] = "delivered"

\* An owner stop that is current covers every prompt: the Shotcaller never leaves
\* by it with a prompt nobody read (_owner_stop_prepare_context, intake_prompt).
OwnerStopSawEveryPrompt ==
  control.state # "none" /\ control.at = messages => ~prompt.untriaged

\* A Stop of a Shotcaller that owes something is authorized: by one grant each,
\* and by an owner stop only for a turn that has seen every prompt.
StopIsAuthorized == OneGrantOneStop /\ OwnerStopSawEveryPrompt

\* Of the processes of request turns at most one is open, and it holds the turn
\* (begin_shotcaller_turn): none commits into the turn of another.
OpenTurnIsActive == \A t \in Turns : process[t].pc = "open" => turn = t

\* An authorization is spent by a Stop or overtaken by a later message's control,
\* and no late failure of another executor takes it back (fail_owner_stop_control).
AuthorizationIsKept ==
  [][control.state = "authorized" /\ control' # control =>
       \/ control'.at > control.at
       \/ control'.state = "consumed" /\ control'.at = control.at]_vars

\* A pause of the current control is uncertain.  No step of the code settles it,
\* so the Shotcaller stays blocked until the owner writes again.
PauseIsLost == \E d \in control.targets : pause[control.at][d] = "uncertain"


\* What docs/REQUEST_LIFECYCLE.md:95-99 says: the supervisor recovers every pending
\* or failed control, an uncertain pause by exact reconciliation of its receipt.
EveryOwnerStopRecovers == OwnerStopPending ~> ~OwnerStopPending

\* What docs/REQUEST_LIFECYCLE.md:77 says: only an owner stop or a verified handoff
\* authorizes an otherwise blocked Stop (set_allow_stop_once, stop_decision).
OnlyControlsAuthorize ==
  [][\A t \in Terminals :
       Stop(t) /\ Owes =>
         TakesOwnerStop \/ ReplaysOwnerStop(t) \/ (~OwnerOwes /\ HandoffIsLive)]_vars
=============================================================================
