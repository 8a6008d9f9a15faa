SPECIFICATION FairSpec
CONSTANTS
  MaxConcurrency = 2
  Priorities = {0, 1}
  MaxTasks = 4
  MaxStaleGraces = 1
  Watched = {2}
INVARIANTS
  TrackedMatchesStore
  NoLostWakeup
PROPERTIES
  WatchedSettle
  SettledIsFinal
  ImplementsPool
