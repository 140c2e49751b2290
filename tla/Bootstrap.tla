------------------------------ MODULE Bootstrap ------------------------------
(***************************************************************************)
(* In-place creation of Shotcallers: a running agent asks for a callsign,  *)
(* its own pane is given the callsign as route and title, and the          *)
(* assignment becomes active; a failure takes the pane back to what it     *)
(* was before the reservation is rolled back (shotcaller_bootstrap.py,     *)
(* sqlite_callsign_ops.py).                                                *)
(*                                                                         *)
(* Store and terminal share no transaction: an invocation is a sequence of *)
(* transactions, reads of the pane and effects on it, between which the    *)
(* user or the provider may change the pane and the process may die.       *)
(* What is durable is the reservation, the baseline of the pane before any *)
(* effect, and, when the pane already carried a route, the attempt.        *)
(*                                                                         *)
(* One assumption: no two invocations for one agent overlap.               *)
(***************************************************************************)
EXTENDS Integers, Sequences, FiniteSets, SequencesExt

CONSTANTS
  Shotcallers,   \* agents that bootstrap themselves, each in its own pane
  Callsigns,     \* the Shotcaller pool
  Order,         \* its shuffled order
  Legacy,        \* agents with a rolled-back reservation of an older version, without a baseline
  MaxWrites,     \* bound: changes of panes by users and providers
  NoRoute        \* no callsign

ASSUME BootstrapConstants ==
  /\ Order \in Seq(Callsigns) /\ Order # <<>>
  /\ Legacy \subseteq Shotcallers
  /\ MaxWrites \in Nat
  /\ NoRoute \notin Callsigns

VARIABLES
  line,    \* callsign_queue: the available and reserved callsigns in order
  seat,    \* callsign_assignments: two identities a caller may give per agent
  self,    \* agent_instances: version, retirement and the durable bootstrap metadata
  pane,    \* the pane as Herdr shows it
  given,   \* the route the pane had before League touched it
  call,    \* the invocation that runs for each agent
  newest,  \* observations no later change has overtaken: the invocation's, the baseline's
  writes,  \* changes of panes by others so far
  reused   \* history: agents for which a rolled-back assignment was taken up again

bootstrapVars == <<line, seat, self, pane, given, call, newest, writes, reused>>

Attempts == 1..2

NoBase == [schema |-> "none", route |-> NoRoute]

\* At rest: the local state of a process is gone.
Idle == [at |-> "idle", n |-> 0, seen |-> NoRoute, base |-> NoBase, published |-> FALSE,
         source |-> FALSE, resumeRoute |-> FALSE, resumeTitle |-> FALSE]

FirstSeat(a, n) ==
  IF a \in Legacy /\ n = 1 THEN [state |-> "rolled_back", callsign |-> Order[1]]
  ELSE [state |-> "none", callsign |-> NoRoute]

BootstrapInit ==
  /\ line = Order
  /\ seat = [a \in Shotcallers |-> [n \in Attempts |-> FirstSeat(a, n)]]
  /\ self = [a \in Shotcallers |->
       [version |-> IF a \in Legacy THEN 2 ELSE 0, retired |-> a \in Legacy,
        base |-> NoBase, attempt |-> FALSE, bound |-> FALSE]]
  /\ given \in {g \in [Shotcallers -> {NoRoute, Order[1]}] :
                \A a, b \in Shotcallers : a # b /\ g[a] = g[b] => g[a] = NoRoute}
  /\ pane = [a \in Shotcallers |->
       [route |-> given[a], shown |-> "own", owner |-> 0, role |-> FALSE, exact |-> TRUE]]
  /\ call = [a \in Shotcallers |-> Idle]
  /\ newest = [a \in Shotcallers |-> {}]
  /\ writes = 0
  /\ reused = {}

-----------------------------------------------------------------------------
(* The pane.                                                               *)

\* metadata_source, or a complete presentation of the provider: both name the
\* provider, unless League's tokens are mixed in.
Sourced(p) == p.owner = 0 \/ p.shown = "refreshed"

\* _published_exact and _owned_presentation_source for attempt n.
PublishedBy(p, n, c) ==
  p.exact /\ p.route = c /\ p.owner = n /\ p.role /\ p.shown = "league"

\* The presentation the baseline recorded, with no League token in it.
AsRecorded(p) == p.exact /\ p.shown = "own" /\ p.owner = 0

\* Every change of a pane advances its state_change_seq: what was read before
\* is no longer the newest.
Change(a, p) ==
  /\ pane' = [pane EXCEPT ![a] = p]
  /\ newest' = [newest EXCEPT ![a] = {}]

Callsign(a) == seat[a][call[a].n].callsign

Goto(a, at) == call' = [call EXCEPT ![a].at = at]

-----------------------------------------------------------------------------
(* The callsign queue.                                                     *)

Taken(c) ==
  \E a \in Shotcallers, n \in Attempts :
    seat[a][n].callsign = c /\ seat[a][n].state \in {"reserved", "active"}

Available(c) == c \in Range(line) /\ ~Taken(c)

\* The first in line that is available.
FirstAvailable(c) == \E i \in DOMAIN line : line[i] = c /\ ~Taken(c) /\ \A j \in 1..(i - 1) : Taken(line[j])

-----------------------------------------------------------------------------
(* An invocation: league shotcaller create.                                *)

\* _route_only_recovery_source: a retry may go on with a pane that has its
\* route and no title yet, when the attempt and the baseline are durable.
Resumable(a) ==
  /\ AsRecorded(pane[a])
  /\ ~pane[a].role
  /\ self[a].attempt
  /\ self[a].base.schema # "v1"

\* adapter.inspect, with what the store says of the assignment.
Admits(a, n) ==
  LET p == pane[a]
      s == seat[a][n]
      reserved == s.state = "reserved"
      alias == s.callsign
      owned == p.route # NoRoute /\ PublishedBy(p, n, p.route)
      routeOnly == reserved /\ p.route = alias /\ ~owned
  IN /\ p.exact
     /\ p.role => p.route # NoRoute /\ p.owner = n
     /\ \/ owned
        \/ routeOnly /\ Resumable(a)
        \/ ~routeOnly /\ Sourced(p)
     /\ IF s.state \in {"reserved", "active"}
        THEN p.route = alias \/ (reserved /\ p.route = NoRoute)
        ELSE p.route = NoRoute \/ p.owner = 0

\* use_restoration_baseline.
BaseFits(a) ==
  /\ self[a].base.schema = "v3" => self[a].base.route = pane[a].route
  /\ self[a].base.schema \in {"v1", "v2"} => self[a].base.route = NoRoute

Exactly(a, n) == seat[a][n].state = "reserved" /\ ~self[a].retired

\* bind_shotcaller_bootstrap_runtime.
Bound(a, n) == IF Exactly(a, n) THEN [self EXCEPT ![a].bound = TRUE] ELSE self

\* The reads of the store, the inspection of the pane and the binding of the
\* runtime of a resumed attempt. A reservation without a baseline is refused;
\* an assignment that was rolled back is taken up like any other.
Inspect(a, n) ==
  LET s == seat[a][n] IN
  /\ call[a].at = "idle"
  /\ Admits(a, n)
  /\ s.state = "reserved" => self[a].base.schema # "none"
  /\ s.state # "none" => BaseFits(a)
  /\ self' = IF self[a].attempt THEN Bound(a, n) ELSE self
  /\ call' = [call EXCEPT ![a] =
       [Idle EXCEPT !.at = IF s.state = "active" THEN "refresh" ELSE "reserve",
                    !.n = n, !.seen = pane[a].route,
                    !.base = IF s.state = "none" THEN NoBase ELSE self[a].base]]
  /\ newest' = [newest EXCEPT ![a] = @ \cup {"call"}]
  /\ UNCHANGED <<line, seat, pane, given, writes>>

\* ensure_active_presentation: a completed creation puts its title back over
\* the provider's, on a pane it still owns.
RefreshRoute(a) ==
  LET p == pane[a] IN
  /\ call[a].at = "refresh"
  /\ IF /\ p.exact /\ p.route = Callsign(a) /\ p.owner = call[a].n /\ p.role
        /\ p.shown \in {"league", "refreshed"}
     THEN Change(a, [p EXCEPT !.shown = "league"])
     ELSE UNCHANGED <<pane, newest>>
  /\ call' = [call EXCEPT ![a] = Idle]
  /\ UNCHANGED <<line, seat, self, given, writes>>

\* _recover_retired_shotcaller_in_transaction: one clean failed bootstrap of
\* this agent, in this terminal, is reserved the callsign it had.
Recoverable(a, n) ==
  LET other == seat[a][3 - n] IN
  /\ self[a].retired /\ self[a].version = 2
  /\ other.state = "rolled_back"
  /\ ~self[a].attempt /\ ~self[a].bound
  /\ call[a].seen \in {NoRoute, other.callsign}
  /\ self[a].base.schema = "none" => a \in Legacy /\ pane[a].shown = "own" /\ pane[a].owner = 0
  /\ Available(other.callsign)

\* What the pane was before any effect, by the schema of its version.
Baseline(a, schema) ==
  [schema |-> IF call[a].seen = NoRoute THEN schema ELSE "v3", route |-> call[a].seen]

\* The agent lives again, with the baseline it had or one taken now.
Recovered(a) ==
  [self[a] EXCEPT !.version = @ + 1, !.retired = FALSE,
                  !.base = IF @.schema # "none" THEN @ ELSE Baseline(a, "v2")]

\* The callsign of the assignment: the first available, that of a retired
\* reservation, or, if it exists, in whatever state, its own.
Names(a, n, c) ==
  IF seat[a][n].state # "none" THEN c = seat[a][n].callsign
  ELSE IF self[a].version = 0 THEN FirstAvailable(c)
  ELSE Recoverable(a, n) /\ c = seat[a][3 - n].callsign

\* allocate_callsign: a new reservation, the recovery of a retired one, or an
\* existing one read back. A refusal here ends the invocation with no cleanup.
Reserve(a) ==
  LET n == call[a].n
      Granted(c) == Names(a, n, c) /\ call[a].seen \in {NoRoute, c}
      fresh == self[a].version = 0
  IN /\ call[a].at = "reserve"
     /\ \/ \E c \in Callsigns :
             /\ Granted(c)
             /\ call' = [call EXCEPT ![a].at = "base", ![a].published = call[a].seen = c]
             /\ IF seat[a][n].state = "none"
                THEN /\ seat' = [seat EXCEPT ![a][n] = [state |-> "reserved", callsign |-> c]]
                     /\ self' = [self EXCEPT ![a] = IF fresh THEN [@ EXCEPT !.version = 1] ELSE Recovered(a)]
                     /\ newest' = [newest EXCEPT ![a] =
                          IF ~fresh /\ self[a].base.schema = "none" /\ "call" \in @ THEN @ \cup {"base"} ELSE @]
                ELSE UNCHANGED <<seat, self, newest>>
        \/ /\ \A c \in Callsigns : ~Granted(c)
           /\ call' = [call EXCEPT ![a] = Idle]
           /\ UNCHANGED <<seat, self, newest>>
     /\ UNCHANGED <<line, pane, given, writes>>

\* Mutant of Fail: the reservation goes without the pane.
FailUnrestored(a) == call' = [call EXCEPT ![a].at = "rollback"]

\* The service's exception handler: restore what was published, then roll the
\* reservation back; nothing is restored if nothing was published.
Fail(a) == call' = [call EXCEPT ![a].at = IF call[a].published THEN "unroute" ELSE "rollback"]

\* record_shotcaller_bootstrap_baseline: v1 for a pane without a route, v3 for
\* one that came with the callsign; a recovered reservation has its own. None
\* is recorded but for a reserved assignment of a living agent.
TakeBaseline(a) ==
  LET base == self'[a].base
      next == IF base.schema = "v1" THEN "rename" ELSE IF self[a].attempt THEN "check" ELSE "attempt"
      fits == base.schema = "v3" => base.route = call[a].seen
      missing == call[a].base = NoBase /\ self[a].base = NoBase
      refused == missing /\ ~Exactly(a, call[a].n)
  IN /\ call[a].at = "base"
     /\ IF missing /\ ~refused
        THEN /\ self' = [self EXCEPT ![a].base = Baseline(a, "v1")]
             /\ newest' = [newest EXCEPT ![a] = IF "call" \in @ THEN @ \cup {"base"} ELSE @]
        ELSE UNCHANGED <<self, newest>>
     /\ IF fits /\ ~refused THEN call' = [call EXCEPT ![a].at = next, ![a].base = base] ELSE Fail(a)
     /\ UNCHANGED <<line, seat, pane, given, writes>>

\* require_current_recovery_baseline, then the publication attempt is durable
\* before its first effect.
TakeAttempt(a) ==
  LET p == pane[a] IN
  /\ call[a].at = "attempt"
  /\ IF /\ AsRecorded(p)
        /\ \/ p.route = NoRoute /\ "base" \in newest[a]
           \/ p.route = Callsign(a)
        /\ Exactly(a, call[a].n)
     THEN self' = [self EXCEPT ![a].attempt = TRUE] /\ Goto(a, "check")
     ELSE UNCHANGED self /\ Fail(a)
  /\ UNCHANGED <<line, seat, pane, given, newest, writes>>

\* bind_shotcaller_bootstrap_runtime, then require_current_publication: the
\* pane is as it was inspected, untouched or already published.
Check(a) ==
  LET p == pane[a]
      published == PublishedBy(p, call[a].n, Callsign(a))
  IN /\ call[a].at = "check"
     /\ self' = Bound(a, call[a].n)
     /\ IF /\ Exactly(a, call[a].n)
           /\ "call" \in newest[a]
           /\ published \/ (AsRecorded(p) /\ p.route \in {NoRoute, Callsign(a)})
        THEN call' = [call EXCEPT ![a].at = "rename", ![a].source = TRUE,
                        ![a].resumeRoute = p.route = Callsign(a), ![a].resumeTitle = published]
        ELSE call' = [call EXCEPT ![a].at = IF call[a].published THEN "unroute" ELSE "rollback",
                        ![a].source = Exactly(a, call[a].n)]
     /\ UNCHANGED <<line, seat, pane, given, newest, writes>>

\* publish: the route first; Herdr may refuse.
Rename(a) ==
  /\ call[a].at = "rename"
  /\ \/ /\ IF call[a].resumeRoute THEN UNCHANGED <<pane, newest>>
           ELSE Change(a, [pane[a] EXCEPT !.route = Callsign(a)])
        /\ call' = [call EXCEPT ![a].at = "title", ![a].published = TRUE]
     \/ /\ ~call[a].resumeRoute
        /\ call' = [call EXCEPT ![a].at = "unroute", ![a].published = TRUE]
        /\ UNCHANGED <<pane, newest>>
  /\ UNCHANGED <<line, seat, self, given, writes>>

\* Then the title with the tokens of its owner, unless an attempt is loaded
\* and the presentation is no longer the recorded one.
Title(a) ==
  LET p == pane[a] IN
  /\ call[a].at = "title"
  /\ IF p.exact /\ p.route = Callsign(a)
        /\ (call[a].resumeTitle \/ (call[a].base.schema # "v1" => AsRecorded(p)))
     THEN /\ IF call[a].resumeTitle THEN UNCHANGED <<pane, newest>>
             ELSE Change(a, [p EXCEPT !.shown = "league", !.owner = call[a].n, !.role = TRUE])
          /\ call' = [call EXCEPT ![a].at = "stable", ![a].source = TRUE]
     ELSE Fail(a) /\ UNCHANGED <<pane, newest>>
  /\ UNCHANGED <<line, seat, self, given, writes>>

\* _stable_published: the published state is read back before it is receipted.
Stable(a) ==
  /\ call[a].at = "stable"
  /\ IF PublishedBy(pane[a], call[a].n, Callsign(a)) THEN Goto(a, "record") ELSE Fail(a)
  /\ UNCHANGED <<line, seat, self, pane, given, newest, writes>>

\* record_shotcaller_bootstrap: activation, runtime and creation event in one
\* transaction, which may also be refused.
Activate(a) ==
  /\ call[a].at = "record"
  /\ \/ /\ seat[a][call[a].n].state = "reserved"
        /\ seat' = [seat EXCEPT ![a][call[a].n].state = "active"]
        /\ self' = [self EXCEPT ![a].version = @ + 1]
        /\ line' = Remove(line, Callsign(a))
        /\ call' = [call EXCEPT ![a] = Idle]
     \/ Fail(a) /\ UNCHANGED <<line, seat, self>>
  /\ UNCHANGED <<pane, given, newest, writes>>

-----------------------------------------------------------------------------
(* adapter.restore and the rollback.                                       *)

\* League recognises the display as its own.
OwnDisplay(a) ==
  LET p == pane[a] IN
  p.route # NoRoute /\ call[a].source /\ p.owner = call[a].n /\ p.role /\ p.shown = "league"

\* Mutant of GiveUp: a failed restoration is taken for a clean one.
GiveUpClean(a) == call' = [call EXCEPT ![a] = IF call[a].at = "unroute" THEN [@ EXCEPT !.at = "rollback"] ELSE Idle]

\* The invocation ends and reports what it could not undo.
GiveUp(a) == call' = [call EXCEPT ![a] = Idle]

\* A pane that came with the callsign keeps it; only the title goes back.
RestoreAdopted(a) ==
  LET p == pane[a]
      clean == p.shown = "own" /\ p.owner = 0
  IN /\ call[a].at = "unroute"
     /\ call[a].base.route # NoRoute
     /\ IF p.exact /\ p.route = call[a].base.route /\ (clean \/ OwnDisplay(a))
        THEN /\ Goto(a, "rollback")
             /\ IF clean THEN UNCHANGED <<pane, newest>>
                ELSE Change(a, [p EXCEPT !.shown = "own", !.owner = 0])
        ELSE GiveUp(a) /\ UNCHANGED <<pane, newest>>
     /\ UNCHANGED <<line, seat, self, given, writes>>

\* Any other gives the alias back first. What follows depends on what was
\* shown: the original needs no more, League's own title is taken back, a
\* newer presentation is kept and only League's tokens are cleared.
Unroute(a) ==
  LET p == pane[a] IN
  /\ call[a].at = "unroute"
  /\ call[a].base.route = NoRoute
  /\ IF p.exact /\ call[a].base # NoBase
     THEN /\ Change(a, [p EXCEPT !.route = NoRoute])
          /\ Goto(a, IF p.shown = "own" /\ p.owner = 0 THEN "rollback"
                     ELSE IF p.shown = "own" \/ OwnDisplay(a) THEN "untitle" ELSE "untoken")
     ELSE GiveUp(a) /\ UNCHANGED <<pane, newest>>
  /\ UNCHANGED <<line, seat, self, given, writes>>

Untitle(a) ==
  /\ call[a].at = "untitle"
  /\ IF pane[a].exact /\ pane[a].route = NoRoute
     THEN /\ Change(a, [pane[a] EXCEPT !.shown = "own", !.owner = 0, !.role = FALSE])
          /\ Goto(a, "rollback")
     ELSE GiveUp(a) /\ UNCHANGED <<pane, newest>>
  /\ UNCHANGED <<line, seat, self, given, writes>>

Untoken(a) ==
  LET p == pane[a] IN
  /\ call[a].at = "untoken"
  /\ IF p.exact /\ p.route = NoRoute /\ Sourced(p) /\ p.shown # "own"
     THEN /\ Change(a, [p EXCEPT !.owner = 0, !.role = FALSE])
          /\ Goto(a, "rollback")
     ELSE GiveUp(a) /\ UNCHANGED <<pane, newest>>
  /\ UNCHANGED <<line, seat, self, given, writes>>

\* rollback_callsign, and the creation is reported as failed.
Rollback(a) ==
  /\ call[a].at = "rollback"
  /\ IF seat[a][call[a].n].state = "reserved"
     THEN /\ seat' = [seat EXCEPT ![a][call[a].n].state = "rolled_back"]
          /\ self' = [self EXCEPT ![a].version = @ + 1, ![a].retired = TRUE]
     ELSE UNCHANGED <<seat, self>>
  /\ GiveUp(a)
  /\ UNCHANGED <<line, pane, given, newest, writes>>

\* The process dies; what is durable stays.
Die(a) ==
  /\ call[a].at # "idle"
  /\ GiveUp(a)
  /\ UNCHANGED <<line, seat, self, pane, given, newest, writes>>

-----------------------------------------------------------------------------
(* The user and the provider.                                              *)

\* A new title, with League's tokens left or gone; a provider that names
\* itself as the source; the original title shown again; the route taken
\* away by hand; another session in the pane, or the first one back; a change
\* elsewhere, which advances the same sequence.
Disturb(a) ==
  LET p == pane[a] IN
  /\ writes < MaxWrites
  /\ writes' = writes + 1
  /\ \/ Change(a, [p EXCEPT !.shown = "other"])
     \/ Change(a, [p EXCEPT !.shown = "other", !.owner = 0, !.role = FALSE])
     \/ p.owner # 0 /\ Change(a, [p EXCEPT !.shown = "refreshed"])
     \/ Change(a, [p EXCEPT !.shown = "own"])
     \/ p.route # NoRoute /\ Change(a, [p EXCEPT !.route = NoRoute])
     \/ Change(a, [p EXCEPT !.exact = ~@])
     \/ Change(a, p)
  /\ UNCHANGED <<line, seat, self, given, call>>

Step(a) ==
  \/ \E n \in Attempts : Inspect(a, n)
  \/ RefreshRoute(a)
  \/ Reserve(a)
  \/ TakeBaseline(a)
  \/ TakeAttempt(a)
  \/ Check(a)
  \/ Rename(a)
  \/ Title(a)
  \/ Stable(a)
  \/ Activate(a)
  \/ RestoreAdopted(a)
  \/ Unroute(a)
  \/ Untitle(a)
  \/ Untoken(a)
  \/ Rollback(a)

\* The invocation that begins here names a rolled-back assignment.
Reuses(a) ==
  /\ call[a].at = "idle"
  /\ call'[a].at # "idle"
  /\ seat[a][call'[a].n].state = "rolled_back"

BootstrapNext ==
  \E a \in Shotcallers :
    /\ Step(a) \/ Die(a) \/ Disturb(a)
    /\ reused' = IF Reuses(a) THEN reused \cup {a} ELSE reused

BootstrapSpec == BootstrapInit /\ [][BootstrapNext]_bootstrapVars

-----------------------------------------------------------------------------
(* Properties.                                                             *)

BootstrapTypeOK ==
  /\ Range(line) \subseteq Callsigns
  /\ \A a \in Shotcallers, n \in Attempts :
       /\ seat[a][n].state \in {"none", "reserved", "active", "rolled_back"}
       /\ seat[a][n].callsign \in Callsigns \cup {NoRoute}
  /\ \A a \in Shotcallers :
       /\ self[a].version \in 0..4 /\ self[a].base.schema \in {"none", "v1", "v2", "v3"}
       /\ pane[a].shown \in {"own", "league", "other", "refreshed"}
       /\ pane[a].owner \in 0..2 /\ pane[a].route \in Callsigns \cup {NoRoute}
       /\ newest[a] \subseteq {"call", "base"}
  /\ writes \in 0..MaxWrites
  /\ reused \subseteq Shotcallers

\* The alias a pane carries, unless it came with it, is a callsign its agent
\* holds.
Paired(a) ==
  pane[a].route \notin {NoRoute, given[a]} =>
    \E n \in Attempts : seat[a][n].callsign = pane[a].route /\ seat[a][n].state \in {"reserved", "active"}

\* "The existing alias and reservation remain paired as the truthful cleanup
\* obligation" (docs/incident-85-champion-launch-title.md:231-233): a pane
\* never carries an alias League gave it while the callsign may go to another
\* agent, wherever an invocation died or was disturbed. An invocation that
\* takes up a rolled-back assignment renames the pane with no reservation.
AliasIsPaired == \A a \in Shotcallers : Paired(a)

\* What the code does keep of that: the alias and the reservation are paired
\* for every agent none of whose rolled-back assignments was taken up again;
\* and, for all of them, no two assignments hold one callsign.
AliasIsPairedUnlessReused ==
  /\ \A a \in Shotcallers \ reused : Paired(a)
  /\ \A a, b \in Shotcallers, n, m \in Attempts :
       (/\ seat[a][n].state \in {"reserved", "active"}
        /\ seat[b][m].state \in {"reserved", "active"}
        /\ seat[a][n].callsign = seat[b][m].callsign) => a = b /\ n = m

\* "Canonical rollback still waits for proven external alias cleanup"
\* (docs/incident-85-champion-launch-title.md): when a reservation is rolled
\* back its pane has the route it came with, or none, and neither the title
\* nor the ownership League gave it.
RollbackIsProved ==
  [][\A a \in Shotcallers, n \in Attempts :
       seat[a][n].state = "reserved" /\ seat'[a][n].state = "rolled_back" =>
         /\ pane[a].route \in {NoRoute, given[a]}
         /\ pane[a].shown # "league"
         /\ pane[a].owner # n]_bootstrapVars
=============================================================================
