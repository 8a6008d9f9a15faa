SPECIFICATION Spec
CONSTANTS
  l1 = l1
  Direct = Direct
  Loops = {l1, l2, l3}
  LoopPriority <- Priority
  MaxConcurrent = 1
  MaxQueueDepth = 2
  MaxRestarts = 2
  FailureThreshold = 2
  PoolSize = 1
  MaxOrphans = 1
  MayShutDown = TRUE
SYMMETRY Symmetric
INVARIANTS
  TypeOK
  EntriesPending
  ClosedNeverIdles
  ClosedBelowThreshold
PROPERTIES
  OpenStartsNoLoop
  GivenUpForGood
CHECK_DEADLOCK FALSE
