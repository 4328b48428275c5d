SPECIFICATION Spec
CONSTANTS
  Events = {e1, e2, e3}
  Workers = {w1, w2}
  BatchSize = 1
  MaxBatches = 2
  MaxFaults = 2
INVARIANT AttemptsObservable
