SPECIFICATION Spec
CONSTANTS
  l1 = l1
  Direct = Direct
  Loops = {l1, l2}
  LoopPriority <- Flat
  MaxConcurrent = 1
  MaxQueueDepth = 1
  MaxRestarts = 2
  FailureThreshold = 2
  PoolSize = 1
  MaxOrphans = 0
  MayShutDown = TRUE
INVARIANTS
  ShutdownIsGraceful
CHECK_DEADLOCK FALSE
