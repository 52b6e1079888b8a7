SPECIFICATION Spec
CONSTANTS
  p1 = p1
  Processes = {p1}
  Causes <- MCMMCauses
  Operators = {"manual_resume", "force_resume_all"}
  WeekDays = 2
  MaxDay = 1
  MaxCrashes = 0
  NoDay = NoDay
INVARIANT
  MMDailyLossSeen
CHECK_DEADLOCK FALSE
