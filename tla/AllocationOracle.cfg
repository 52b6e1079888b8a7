SPECIFICATION FairSpec
CONSTANTS
  Balances = {1, 2}
  FreshTTL = 1
  CacheTTL = 2
  RpcTime = 1
  Alarm = 3
  None = None  NoAnswer = NoAnswer
PROPERTIES
  AnswerRecent
  CatchesUp
  OutageReported
CHECK_DEADLOCK FALSE
