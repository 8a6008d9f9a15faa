SPECIFICATION Spec
CONSTANTS
  m1 = m1
  s1 = s1
  s2 = s2
  Missions = {m1}
  Sockets = {s1, s2}
  NoSocket = NoSocket
  Waits = {"hitl-required"}
  Commands = {"paused", "running", "aborted"}
  MaxRequests = 2
  MaxFlight = 2
  MaxFaults = 3
INVARIANTS
  EndedNotCounted
  HandleIsCurrent
