SPECIFICATION Spec
CONSTANTS
  primary = primary  secondary = secondary  tertiary = tertiary
  Feeds = {primary, secondary, tertiary}
  Liars = {tertiary}
  Metrics = {10, 11, 13}
  Scale = 100
  WarmupMinTicks = 2
  WarmupMax = 3
  WarmupWindow = 1
  VarianceMax = 15
  VarianceWindow = 2
  GuardMin = 2
  PurgeCount = 1
  HistorySize = 2
  FreshnessMax = 0
  MinQuorum = 3
  MaxNow = 1
  NoSnapshot = NoSnapshot
SYMMETRY MCSymmetry
INVARIANTS
  WarmIsOfThisConnection
  ConsensusTrue
  FreshIsRecent
