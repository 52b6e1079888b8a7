SPECIFICATION LocalSpec
CONSTANTS
  Levels <- MCLevels
  MaxSize = 1
  Freshness = 1
  Latency = 1
  MaxWire = 2
  MaxBad = 1
  NoBook = NoBook
INVARIANTS
  HandedWasTrue
  HandedIsRecent
