SPECIFICATION FairSpec
CONSTANTS
  Configs = {c1, c2}
  Reachable = {c1}
  Stations = {s1}
  ApMaxStaConn = 3
  QueueSize = 3
  MaxCalls = 2
  NONE = NONE
  MaxUriHandlers = 20
  FileCounts = {10, 15}
INVARIANTS
  AppTypeOK
  HandlersHaveContext
  StartAfterConfig
  ProvisionedByRequest
  NullOnlyByRejection
  ServiceFromConfig
  AllServed
PROPERTIES
  ImplementsLifecycle
  ImplementsWifi
  FirstConfigOpensConnect
  StartRunsService
