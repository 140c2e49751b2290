----------------------------- MODULE MCDelivery -----------------------------
(***************************************************************************)
(* Instances of Delivery for TLC.                                          *)
(***************************************************************************)
EXTENDS DeliveryProperties, TLC

CONSTANTS w1, w2, o1, o2

\* Every dispatch_event uses one dispatcher_id, and so do all executors of one
\* owner stop.
Shared == [p \in Workers |-> "installed"]

MCHolders == {"installed", "inbox"}

WatcherOrCursor == [o \in Rows |-> {"watcher_event", "cursor_steering"}]

\* The target of an owner stop is one exact runtime, here one that takes a
\* prompt; the Champion of the other row has no reachable receiver yet.
PromptStop == [o \in Rows |-> IF o = o1 THEN {"direct_prompt"} ELSE {}]
=============================================================================
