---------------------------- MODULE CallsignPool ----------------------------
(***************************************************************************)
(* What the callsign queue promises: a callsign is lent to one task at a   *)
(* time, a task is lent one callsign in its life, and a callsign that was  *)
(* in service comes back only when its agent is no longer live.            *)
(***************************************************************************)
CONSTANTS Callsigns, Tasks, NoTask

VARIABLES
  holder,   \* per callsign: the task it is lent to, or NoTask
  serving,  \* callsigns whose task has been accepted by an agent
  served,   \* tasks that were lent a callsign
  live      \* tasks whose agent is live

vars == <<holder, serving, served, live>>

Init ==
  /\ holder = [c \in Callsigns |-> NoTask]
  /\ serving = {}
  /\ served = {}
  /\ live = {}

Lend(c, t) ==
  /\ holder[c] = NoTask
  /\ t \notin served
  /\ holder' = [holder EXCEPT ![c] = t]
  /\ served' = served \cup {t}
  /\ UNCHANGED <<serving, live>>

\* The task's agent accepted: the callsign goes into service.
Serve(c) ==
  /\ holder[c] # NoTask /\ c \notin serving
  /\ serving' = serving \cup {c}
  /\ live' = live \cup {holder[c]}
  /\ UNCHANGED <<holder, served>>

\* The agent of a callsign in service is lost, or seen again.
Observe(c) ==
  /\ c \in serving
  /\ live' \in {live \cup {holder[c]}, live \ {holder[c]}}
  /\ UNCHANGED <<holder, serving, served>>

\* A launch that failed gives its callsign back, and so does a task whose
\* agent is gone.
GiveBack(c) ==
  /\ holder[c] # NoTask
  /\ holder[c] \notin live
  /\ holder' = [holder EXCEPT ![c] = NoTask]
  /\ serving' = serving \ {c}
  /\ UNCHANGED <<served, live>>

Next ==
  \/ \E c \in Callsigns, t \in Tasks : Lend(c, t)
  \/ \E c \in Callsigns : Serve(c) \/ Observe(c) \/ GiveBack(c)

Spec == Init /\ [][Next]_vars
=============================================================================
