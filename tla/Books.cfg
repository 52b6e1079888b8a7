SPECIFICATION FairSpec
CONSTANTS
  u1 = u1  u2 = u2
  Units = {u1, u2}
INVARIANTS
  NothingForgotten
  UnwantedOnlyUndone
PROPERTY
  WantedIsServed
