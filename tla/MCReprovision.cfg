SPECIFICATION WifiFairSpec
CONSTANTS
  Configs = {c1, c2}
  Reachable = {c1, c2}
  Stations = {s1}
  ApMaxStaConn = 3
  QueueSize = 3
  MaxCalls = 2
  NONE = NONE
INVARIANTS
  ConnectedToRequested
