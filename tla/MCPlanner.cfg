SPECIFICATION Spec
CONSTANTS
  Apps = {a1}
  Global = global
  Sweeps = {s1, s2}
  Idle = idle
  RestChoices <- MCRestChoices
  FollowUpDays = 1
  CheckInDays = 1
  ApplyDays = 1
  WeeklyTarget = 1
  DayTicks = 2
  WeekDays = 2
  BeatTick = 1
  LastTick = 5
  MaxOps = 3
  MaxTodos = 4
  MaxSweep = 1
  Targets = {"applied", "rejected", "planned"}
  Ahead = {1}
INVARIANTS
  NoDoubleNag
  SettledIsSettled
  ThankYouIsOwed
  StripCountsOnce
  ReviewAgreesWithStats
SYMMETRY SweepsAreAlike
CHECK_DEADLOCK FALSE
