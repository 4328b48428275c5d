SPECIFICATION Spec
CONSTANTS
  Procs = {p1, p2}
  Requests = 2
  WindowSeconds = 2
  Burst = 3
  TickRate = 2
  MaxDelay = 2
  MaxTime = 8
  MaxChecks = 5
SYMMETRY MCSymmetry
INVARIANTS
  TypeOK
  FixedWindowBurst
  SlidingWindowLimit
  BucketRateInOrder
  RetryAfterSuffices
\* The model stops at its bounds.
CHECK_DEADLOCK FALSE
