----------------------------- MODULE Stewardship -----------------------------
(***************************************************************************)
(* What the request lifecycle promises, without its states, versions,      *)
(* leases, receipts and results: at any time one agent is answerable for a *)
(* request and at most one window of that agent may write it; an offer     *)
(* gives up the pen before the recipient can take it; responsibility goes  *)
(* to whom it was offered or back home, and never to anyone else.          *)
(***************************************************************************)
CONSTANTS Requests, Agents, Windows, AgentOf, NoAgent, NoWindow

VARIABLES
  steward,       \* the agent answerable for a request, NoAgent before there is one
  home,          \* the agent it came from
  writer,        \* the window that may write it, or NoWindow
  offered        \* the agent it is offered to, or NoAgent

shared == <<steward, home, writer, offered>>

Init ==
  /\ steward = [r \in Requests |-> NoAgent]
  /\ home = [r \in Requests |-> NoAgent]
  /\ writer = [r \in Requests |-> NoWindow]
  /\ offered = [r \in Requests |-> NoAgent]

Pen(r, w) == writer' = [writer EXCEPT ![r] = w]

\* A request appears with its agent, which may be writing it already.
Adopt(r, a) ==
  /\ steward[r] = NoAgent
  /\ steward' = [steward EXCEPT ![r] = a]
  /\ home' = [home EXCEPT ![r] = a]
  /\ \E w \in Windows \cup {NoWindow} : (w = NoWindow \/ AgentOf[w] = a) /\ Pen(r, w)
  /\ UNCHANGED offered

\* The steward takes the pen, also from another of its windows.
TakePen(r, w) ==
  /\ offered[r] = NoAgent
  /\ AgentOf[w] = steward[r]
  /\ Pen(r, w)
  /\ UNCHANGED <<steward, home, offered>>

DropPen(r) ==
  /\ Pen(r, NoWindow)
  /\ UNCHANGED <<steward, home, offered>>

\* Only the writer offers, and it stops writing.
Offer(r, a) ==
  /\ writer[r] # NoWindow
  /\ Pen(r, NoWindow)
  /\ offered' = [offered EXCEPT ![r] = a]
  /\ UNCHANGED <<steward, home>>

Withdraw(r) ==
  /\ offered' = [offered EXCEPT ![r] = NoAgent]
  /\ UNCHANGED <<steward, home, writer>>

\* Answerability and pen move together.
Accept(r, w) ==
  /\ offered[r] = AgentOf[w]
  /\ writer[r] = NoWindow
  /\ steward' = [steward EXCEPT ![r] = AgentOf[w]]
  /\ offered' = [offered EXCEPT ![r] = NoAgent]
  /\ Pen(r, w)
  /\ UNCHANGED home

\* Only the writer hands a request back, and it stops writing.
HandBack(r) ==
  /\ writer[r] # NoWindow
  /\ offered[r] = NoAgent
  /\ steward' = [steward EXCEPT ![r] = home[r]]
  /\ Pen(r, NoWindow)
  /\ UNCHANGED <<home, offered>>

Next ==
  \E r \in Requests :
    \/ \E a \in Agents : Adopt(r, a) \/ Offer(r, a)
    \/ \E w \in Windows : TakePen(r, w) \/ Accept(r, w)
    \/ DropPen(r) \/ Withdraw(r) \/ HandBack(r)

Spec == Init /\ [][Next]_shared
=============================================================================
