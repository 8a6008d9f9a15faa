SPECIFICATION Spec
CONSTANTS
  Clients = {c1, c2}
  MaxReconnect = 2
  MaxSessions = 2
INVARIANTS
  TornDownStaysDown
CHECK_DEADLOCK FALSE
