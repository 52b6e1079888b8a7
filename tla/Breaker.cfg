SPECIFICATION SomeCausesSpec
CONSTANTS
  p1 = p1
  Processes = {p1}
  Causes <- MCCauses
  Operators = {"manual_halt", "manual_resume", "force_resume_all"}
  WeekDays = 2
  MaxDay = 2
  MaxCrashes = 1
  NoDay = NoDay
INVARIANTS
  TripHolds
PROPERTIES
  OnlyForceLifts
  LossHalts
CHECK_DEADLOCK FALSE
