SPECIFICATION ReadingSpec
CONSTANTS
  w1 = w1
  w2 = w2
  o1 = o1
  o2 = o2
  Rows = {o1}
  Workers = {w1, w2}
  Readers = {r1}
  Holders <- MCHolders
  NoHolder = "nobody"
  InboxHolder = "inbox"
  NoRow = "none"
  Dispatcher <- Shared
  MaxAttempts = 3
  Control = {}
  Inbox = {o1}
  Routine = {o1}
  Activation = {}
  Channels <- WatcherOrCursor
INVARIANTS TablesAgree  CursorSteeredOnce 
PROPERTIES ImplementsContract EveryRowSettles
CHECK_DEADLOCK FALSE
