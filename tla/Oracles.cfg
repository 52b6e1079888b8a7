SPECIFICATION OraclesSpec
CONSTANTS
  c1 = c1  c2 = c2  c3 = c3  v1 = v1  v2 = v2
  Calls = {c1, c2, c3}
  Ends = {2, 4}
  Candles = {0, 1, 2}
  Closes = {v1, v2}
  MaxNow = 4
  MaxCancels = 1
  Malformed = TRUE
  Timeout = 1
  NoClose = NoClose  Raised = Raised  Cancelled = Cancelled
  Pending = Pending  Nothing = Nothing  Broken = Broken
  NoCall = NoCall  NoReply = NoReply
  Latest = 6
  MaxStamp = 4
  Targets = {0, 1, 2, 3, 4, 5}
  Beat = 2
  Spare = 1
  Turns = 2
  MaxFailures = 2
  NoRound = NoRound
SYMMETRY MCSymmetry
INVARIANTS
  SingleFlight
  OneClose
  CloseInTime
  RaisedForCause
  NobodyStranded
  NearestRound
CHECK_DEADLOCK FALSE
