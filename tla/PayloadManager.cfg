SPECIFICATION Spec
CONSTANTS
  c1 = c1  c2 = c2
  Calls = {c1, c2}
  Quantity = 2
  MaxOrders = 1
  None = None
SYMMETRY MCSymmetry
INVARIANTS
  SimulationSendsNothing
  ToldIsTrue
  NothingLost
  KeylessForCause
CHECK_DEADLOCK FALSE
