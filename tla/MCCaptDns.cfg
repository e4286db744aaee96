SPECIFICATION DnsSpec
CONSTANTS
  Queries <- MCQueries
  DnsLen = 104
  Backlog = 2
  MaxDatagrams = 2
  PoolSize = 2
  StackHalves = {0, 1}
INVARIANTS
  DnsTypeOK
  AnswersMatchQuestions
  RepliesWithRoomFit
  OneReplyPerQuery
PROPERTIES
  ReturnsToReceiving
CHECK_DEADLOCK FALSE
