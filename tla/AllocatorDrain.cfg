SPECIFICATION FairSpec
CONSTANTS
  u1 = u1  u2 = u2  u3 = u3  ev = ev  n1 = n1  n2 = n2
  Units = {u1, u2}
  Engines <- MCPaper
  Paper <- MCPaper
  OracleEngine = "ORACLE_NODE"
  Events = {ev}
  Nodes = {n1, n2}
  Opportunities <- MCDrainOpportunities
  MaxAmount = 2
  Bases = {2}
  PaperAllocation = 5
  Balances = {0}
  AllocationPct <- MCDrainPct
  MaxConcurrent <- MCDrainConcurrent
  GlobalMax = 2
  EventCap = 2
  NodeCap = 3
  MinExecution = 1
  HardFloor = 1
  ExecutionPct = 40
  SmallestCap = 1
  ReservationTTL = 3
  CacheTTL = 1
  MayOverrun = TRUE
  NoEvent = NoEvent  NoReservation = NoReservation  NoRow = NoRow
  NoCache = NoCache  NoExecutor = NoExecutor  NoBalance = NoBalance
  NoSkip = NoSkip
PROPERTY
  CapacityReturns
CHECK_DEADLOCK FALSE
