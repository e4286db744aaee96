SPECIFICATION DnsSpec
CONSTANTS
  Queries <- MCRoot
  DnsLen = 104
  Backlog = 1
  MaxDatagrams = 1
  PoolSize = 1
  StackHalves = {0, 1}
INVARIANTS
  NextFieldsFound
CHECK_DEADLOCK FALSE
