----------------------------- MODULE Succession -----------------------------
(***************************************************************************)
(* What the members of a Squad may rely on: one Shotcaller owns it at any  *)
(* time, ownership moves only to one that has agreed to take it from the   *)
(* present owner in the present term, and whoever has given it up, or has  *)
(* left, never has it again.                                               *)
(***************************************************************************)
EXTENDS Naturals

CONSTANTS Candidates

VARIABLES
  incumbent,     \* who owns the Squad
  term,          \* how often it has changed hands
  agreed,        \* per candidate: the term it agreed to take over after, 0 if none
  gone           \* former owners and those that left without becoming one

successionVars == <<incumbent, term, agreed, gone>>

SuccessionInit ==
  /\ incumbent \in Candidates
  /\ term = 1
  /\ agreed = [s \in Candidates |-> 0]
  /\ gone = {}

Agree(s) ==
  /\ s \notin gone \cup {incumbent}
  /\ agreed' = [agreed EXCEPT ![s] = term]
  /\ UNCHANGED <<incumbent, term, gone>>

\* A candidate that leaves, whether it had agreed or not.
Leave(s) ==
  /\ s \notin gone \cup {incumbent}
  /\ gone' = gone \cup {s}
  /\ agreed' = [agreed EXCEPT ![s] = 0]
  /\ UNCHANGED <<incumbent, term>>

Succeed(s) ==
  /\ s \notin gone
  /\ agreed[s] = term
  /\ incumbent' = s
  /\ term' = term + 1
  /\ agreed' = [agreed EXCEPT ![s] = 0]
  /\ gone' = gone \cup {incumbent}

SuccessionNext == \E s \in Candidates : Agree(s) \/ Leave(s) \/ Succeed(s)

SuccessionSpec == SuccessionInit /\ [][SuccessionNext]_successionVars
=============================================================================
