SPECIFICATION FairSpec
CONSTANTS
  Configs = {c1}
  Reachable = {c1}
  Stations = {s1}
  ApMaxStaConn = 3
  QueueSize = 3
  MaxCalls = 1
  NONE = NONE
  MaxUriHandlers = 20
  FileCounts = {10}
PROPERTIES
  RegistrationAnswered
