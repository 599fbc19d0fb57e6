SPECIFICATION Spec
CONSTANTS
  Events = {e1, e2}
  Messages = {m1}
  None = None
  DaysPerMonth = 2
  FirstDay = 3
  LastDay = 6
  Lookahead = 1
  RawDays = {1, 3}
  FollowUpDays = 1
  MaxDelay = 1
  MaxFaults = 1
INVARIANTS TypeOK StatsKept DefaultStaysEmpty RemindersBound
SYMMETRY Symmetry
CHECK_DEADLOCK FALSE
