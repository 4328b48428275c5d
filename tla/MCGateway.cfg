SPECIFICATION FairSpec
CONSTANTS
  Reqs = {r1, r2}
  Limit <- MCLimit
  TickRate = 2
  DaySeconds = 2
  MonthDays = 2
  StartTime = 5
  MaxTime = 8
INVARIANTS
  TypeOK
  CounterAccounts
  CapPerCounter
  RefusedHoldsNothing
  AnsweredIsCharged
  ForgetWindow
  UntimedOnlyAfterFault
PROPERTY EveryRequestEnds
\* Every request ends and the clock is bounded.
CHECK_DEADLOCK FALSE
