---------------------------- MODULE Supervision ----------------------------
(***************************************************************************)
(* The registration of the persistent supervisor of one Shotcaller: the    *)
(* watcher_registrations row with its lease and fence, the scope           *)
(* generation that is the floor of new fences, the binding that the        *)
(* supervisor process remembers, and the detachment receipt that lets a    *)
(* detached Shotcaller leave delegated work to exactly this supervisor.    *)
(*                                                                         *)
(* A root lock admits one supervisor process, and all of them register     *)
(* under one watcher_id.  A process may be paused beyond its lease, be     *)
(* killed, or stop in order and release.                                   *)
(***************************************************************************)
EXTENDS Naturals

CONSTANTS
  MaxFence,      \* bound: registration fences
  MaxRestores    \* bound: restorations of the Shotcaller's runtime

ASSUME SupervisionAssumption == MaxFence \in Nat /\ MaxRestores \in Nat

VARIABLES
  registration,  \* the row: fence (0: no row) and whether the lease has expired
  floor,         \* watcher_scopes.generation
  binding,       \* what the running process remembers: fence (0: nothing) and runtime
  runtime,       \* runtime_generation of the Shotcaller's one verified runtime
  receipt,       \* the detachment receipt; fence 0 while attached
  issued         \* history: the fence of the last registration

supervision == <<registration, floor, binding, runtime, receipt, issued>>

NoRegistration == [fence |-> 0, expired |-> FALSE]

NoBinding == [fence |-> 0, runtime |-> 0]

SupervisionType ==
  /\ registration \in [fence : 0..MaxFence, expired : BOOLEAN]
  /\ floor \in 1..(MaxFence + 1)
  /\ binding \in [fence : 0..MaxFence, runtime : 0..MaxRestores]
  /\ runtime \in 0..MaxRestores
  /\ receipt \in [fence : 0..MaxFence, runtime : 0..MaxRestores]
  /\ issued \in 0..MaxFence

SupervisionInit ==
  /\ registration = NoRegistration
  /\ floor = 1
  /\ binding = NoBinding
  /\ runtime = 0
  /\ receipt = NoBinding
  /\ issued = 0

-----------------------------------------------------------------------------
Larger(m, n) == IF m > n THEN m ELSE n

LeaseIsLive == registration.fence > 0 /\ ~registration.expired

\* The fence _register_binding asks for: above everything at startup, the same
\* for a renewal, one more for a lapsed lease or a restored runtime.
NextRegistration ==
  IF binding.fence = 0 THEN Larger(registration.fence, floor) + 1
  ELSE IF binding.runtime = runtime THEN binding.fence + (IF registration.expired THEN 1 ELSE 0)
  ELSE Larger(binding.fence, floor) + 1

\* Failures stop when the bound leaves no fence for the registration they need.
MayFail == Larger(registration.fence, floor) < MaxFence

\* register_watcher by the supervisor.  A process that remembers a binding
\* names it as the expected one.  Identity, runtime and locator are the same
\* in every registration, so a live lease is renewed, with any fence; only a
\* registration that is not a renewal begins a new scope generation.
Register ==
  LET f == NextRegistration IN
  /\ binding.fence # 0 => registration.fence = binding.fence
  /\ f <= MaxFence
  /\ registration' = [fence |-> f, expired |-> FALSE]
  /\ floor' = IF LeaseIsLive THEN floor ELSE floor + 1
  /\ binding' = [fence |-> f, runtime |-> runtime]
  /\ issued' = f
  /\ UNCHANGED <<runtime, receipt>>

\* release_watcher when the process stops in order; a release that finds
\* another fence is refused, and the process ends all the same.
ReleaseWatcher ==
  /\ binding.fence # 0
  /\ MayFail
  /\ registration' = IF registration.fence = binding.fence THEN NoRegistration ELSE registration
  /\ binding' = NoBinding
  /\ UNCHANGED <<floor, runtime, receipt, issued>>

\* The process is killed.
KillSupervisor ==
  /\ binding.fence # 0
  /\ MayFail
  /\ binding' = NoBinding
  /\ UNCHANGED <<registration, floor, runtime, receipt, issued>>

\* The process is paused, or stays away, beyond the lease.
ExpireRegistration ==
  /\ LeaseIsLive
  /\ MayFail
  /\ registration' = [registration EXCEPT !.expired = TRUE]
  /\ UNCHANGED <<floor, binding, runtime, receipt, issued>>

\* reconcile_restored_runtime: the same runtime row gets a new generation.
RestoreRuntime ==
  /\ runtime < MaxRestores
  /\ runtime' = runtime + 1
  /\ UNCHANGED <<registration, floor, binding, receipt, issued>>

-----------------------------------------------------------------------------
Detached == receipt.fence # 0

\* set_supervision_attachment, called by the supervisor with its own fence.
MayAttach == LeaseIsLive /\ binding.fence = registration.fence

Attachment(detach) ==
  receipt' = IF detach THEN [fence |-> registration.fence, runtime |-> runtime] ELSE NoBinding

\* _detached_watcher_live
HandoffIsLive ==
  /\ Detached
  /\ LeaseIsLive
  /\ registration.fence = receipt.fence
  /\ runtime = receipt.runtime

-----------------------------------------------------------------------------
\* What docs/PROVENANCE.md:1281 says: process startup advances the fence, so that no
\* receipt given to an earlier process speaks for a later one (_register_binding).
StartupAdvancesFence ==
  [][binding.fence = 0 /\ binding'.fence # 0 => binding'.fence > issued]_supervision
=============================================================================
