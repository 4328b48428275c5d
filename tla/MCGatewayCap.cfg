SPECIFICATION Spec
CONSTANTS
  Reqs = {r1, r2}
  Limit <- MCLimit
  TickRate = 2
  DaySeconds = 2
  MonthDays = 2
  StartTime = 5
  MaxTime = 8
INVARIANT CalendarCap
CHECK_DEADLOCK FALSE
