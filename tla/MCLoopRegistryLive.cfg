SPECIFICATION FairSpec
CONSTANTS
  p1 = p1
  p2 = p2
  p3 = p3
  Procs = {p1, p2}
  Forced <- NoProcs
  MayCrash <- Some
  MayExpire = TRUE
  FirstRun = TRUE
  MaxLoops = 1
  MaxAttempts = 2
  Nobody = Nobody
  Absent = Absent
  Empty = Empty
  Torn = Torn
INVARIANTS
  ListWithinLimit
PROPERTIES
  OnlyUnwrittenLockBlocks
CHECK_DEADLOCK FALSE
