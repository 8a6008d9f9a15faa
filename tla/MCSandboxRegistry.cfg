SPECIFICATION Spec
CONSTANTS
  Sandboxes = {x}
  Unstable = {}
  Nobody = Nobody
  Hitls = {h}
  Says = {"agent.set", "session.start", "session.end", "agent.sessions"}
  MaxEntries = 2
  MaxSockets = 2
  MaxFlight = 1
  MaxSessions = 2
  MaxCalls = 2
INVARIANTS
  OneEntryPerInstance
  ConnectedHasSocket
  QuestionsKept
  CountExact
