SPECIFICATION MissionSpec
CONSTANTS
  l1 = l1
  Direct = Direct
  Loops = {l1, l2, l3}
  LoopPriority <- Flat
  MaxConcurrent = 2
  MaxQueueDepth = 1
  MaxRestarts = 2
  FailureThreshold = 1
  PoolSize = 1
  MaxOrphans = 1
  MayShutDown = FALSE
  Asking = {l1}
SYMMETRY Symmetric
INVARIANTS
  LoopsReport
  AssignedIsQueued
  OneAgentPerMission
  LoopsBounded
PROPERTIES
  EndedStaysEnded
CHECK_DEADLOCK FALSE
