--------------------------- MODULE ReceiptContract ---------------------------
(***************************************************************************)
(* What delivery promises of each outbox row, whatever dispatchers, leases *)
(* and retries do.  Effects may reach the recipient any number of times    *)
(* (at-least-once transport).  A row is settled at most once (exactly-once *)
(* effect): by an effect that has reached its recipient, or by the         *)
(* decision not to deliver it; and it stays settled.                       *)
(***************************************************************************)
CONSTANTS
  Rows,
  Effects,     \* what can reach a recipient
  Witnessed    \* effects whose only evidence is the recipient's own report

VARIABLES
  happened,    \* per row: the effects that reached the recipient
  settled      \* per row: "open", "withdrawn", or the effect that settled it

Init ==
  /\ happened = [o \in Rows |-> {}]
  /\ settled = [o \in Rows |-> "open"]

\* Effects arrive, also after the row is settled.
Arrives(o) ==
  /\ happened[o] \subseteq happened'[o]
  /\ settled'[o] = settled[o]

\* An effect that arrived earlier, or that its recipient now reports, settles it.
Settles(o) ==
  /\ settled[o] = "open"
  /\ happened[o] \subseteq happened'[o]
  /\ settled'[o] \in (happened[o] \cap Effects) \cup (happened'[o] \cap Witnessed)

Withdraws(o) ==
  /\ settled[o] = "open"
  /\ settled'[o] = "withdrawn"
  /\ happened'[o] = happened[o]

\* One transaction may touch several rows.
Next ==
  /\ happened' \in [Rows -> SUBSET (Effects \cup Witnessed)]
  /\ settled' = [o \in Rows |-> settled'[o]]
  /\ \A o \in Rows : Arrives(o) \/ Settles(o) \/ Withdraws(o)

Spec == Init /\ [][Next]_<<happened, settled>>
=============================================================================
