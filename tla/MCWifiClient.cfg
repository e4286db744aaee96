SPECIFICATION WifiFairSpec
CONSTANTS
  Configs = {c1, c2}
  Reachable = {c1, c2}
  Stations = {s1, s2}
  ApMaxStaConn = 3
  QueueSize = 4
  MaxCalls = 3
  NONE = NONE
INVARIANTS
  WifiTypeOK
  ConnectedBitSound
  ApBitSound
  NeverStalls
  FirstCallGetsItsNetwork
  FirstCallWillWake
PROPERTIES
  FirstCallReturns
