SPECIFICATION DaySpec
CONSTANTS
  MaxTotal = 3
  LastDay = 3
  MaxDeaths = 1
  Wipes = TRUE
  None = None
INVARIANTS
  DeltaRecovers
CHECK_DEADLOCK FALSE
