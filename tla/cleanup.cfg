SPECIFICATION FairSpec
CONSTANTS
  Operations = {o1, o2}
  Retained = {o1}
  Executors = {e1, e2}
  NoOperation = NoOperation
  Plan <- ShortPlan
  MaxFence = 2
  MaxDrifts = 1
INVARIANTS CompletionIsTrue
PROPERTIES ReleaseInOrder OperationSettles
CHECK_DEADLOCK FALSE
