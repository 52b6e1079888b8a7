SPECIFICATION Spec
CONSTANTS
  u1 = u1  u2 = u2  u3 = u3  ev = ev  n1 = n1  n2 = n2
  Units = {u1, u2, u3}
  Engines <- MCEngines
  Paper <- MCPaper
  OracleEngine = "ORACLE_NODE"
  Events = {ev}
  Nodes = {n1, n2}
  Opportunities <- MCOpportunities
  MaxAmount = 3
  Bases = {1, 3}
  PaperAllocation = 3
  Balances = {1, 2}
  AllocationPct <- MCPct
  MaxConcurrent <- MCConcurrent
  GlobalMax = 2
  EventCap = 1
  NodeCap = 1
  MinExecution = 1
  HardFloor = 1
  ExecutionPct = 80
  SmallestCap = 1
  ReservationTTL = 3
  CacheTTL = 1
  MayOverrun = FALSE
  NoEvent = NoEvent  NoReservation = NoReservation  NoRow = NoRow
  NoCache = NoCache  NoExecutor = NoExecutor  NoBalance = NoBalance
  NoSkip = NoSkip
SYMMETRY MCSymmetry
VIEW WhatMatters
ACTION_CONSTRAINTS OneWorld ManyOrCostly
INVARIANTS
  TypeOK
  CacheCoversLedger
  EngineConcurrency
  WorldConcurrency
  PaperBudget
  EventExposureCap
PROPERTIES
  ImplementsLedger
  GrantWithinShare
  GrantWithinNodeCap
  GrantOutsideStandby
CHECK_DEADLOCK FALSE
