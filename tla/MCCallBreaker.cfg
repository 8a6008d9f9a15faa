SPECIFICATION FairSpec
CONSTANTS
  Calls = {c1, c2, c3, c4}
  FailureThreshold = 2
  HalfOpenMaxCalls = 2
INVARIANTS
  ClosedBelowThreshold
  ProbesAccounted
PROPERTIES
  PeriodEnds
CHECK_DEADLOCK FALSE
