SPECIFICATION Spec
CONSTANTS
  u1 = u1  u2 = u2  c1 = c1
  Units = {u1, u2}
  Calls = {c1}
  Asks = {1, 3}
  Bases = {4}
  Quantities = {1}
  TopMetric = 3
  Ladder = 2
  Redrift = 2
  MaxAge = 2
  Expiration = 3
  Margin = 1
  MinInterval = 1
  MaxUnits = 1
  QueueSize = 1
  MaxNow = 2
  MaxSigned = 3
  None = None
SYMMETRY MCSymmetry
INVARIANTS
  HandedOnce
  DropHolds
  PoolInOrder
  OrdersExplained
