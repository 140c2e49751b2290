SPECIFICATION LiveSpec
CONSTANTS
  w1 = w1
  w2 = w2
  o1 = o1
  o2 = o2
  Rows = {o1, o2}
  Workers = {w1, w2}
  Readers = {}
  Holders <- MCHolders
  NoHolder = "nobody"
  InboxHolder = "inbox"
  NoRow = "none"
  Dispatcher <- Shared
  MaxAttempts = 3
  Control = {o1}
  Inbox = {}
  Routine = {}
  Activation = {o2}
  Channels <- PromptStop
INVARIANTS OwnerStopOnce
PROPERTIES StopResultIsClaimants EveryRowSettles
CHECK_DEADLOCK FALSE
