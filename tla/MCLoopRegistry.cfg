SPECIFICATION Spec
CONSTANTS
  p1 = p1
  p2 = p2
  p3 = p3
  Procs = {p1, p2, p3}
  Forced <- NoProcs
  MayCrash <- NoProcs
  MayExpire = FALSE
  FirstRun = FALSE
  MaxLoops = 2
  MaxAttempts = 2
  Nobody = Nobody
  Absent = Absent
  Empty = Empty
  Torn = Torn
SYMMETRY Symmetric
INVARIANTS
  ExcludesUntilExit
  RegistrationsKept
CHECK_DEADLOCK FALSE
