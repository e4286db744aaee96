SPECIFICATION PoolFairSpec
CONSTANTS
  Socks = {54, 55, 56}
  ServerSocks = {54}
  MaxSessions = 1
  BufLen = 2
  MaxBytes = 3
INVARIANTS
  TcpTypeOK
  ConnectGivesConnection
  EndAfterAllData
  PoolTypeOK
  SocketsAccountedFor
PROPERTIES
  ZeroMeansNothingYet
  ImplementsByteStream
  ReadReturns
