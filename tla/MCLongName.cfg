SPECIFICATION DnsSpec
CONSTANTS
  Queries <- MCLongest
  DnsLen = 512
  Backlog = 1
  MaxDatagrams = 1
  PoolSize = 1
  StackHalves = {0, 1}
INVARIANTS
  ReplyFits
CHECK_DEADLOCK FALSE
