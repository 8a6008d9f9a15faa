SPECIFICATION FairSpec
CONSTANTS
  Clients = {c1, c2}
  MaxReconnect = 2
  MaxSessions = 2
INVARIANTS
  NoDeadSession
  FailedSpawnForgotten
  OnlyLostLinger
PROPERTIES
  SpawnSettles
  UnusedIsEvicted
CHECK_DEADLOCK FALSE
