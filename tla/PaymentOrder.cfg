SPECIFICATION FairSpec
CONSTANTS
  Workers = {w1, w2}
  Window = 1
  MaxFaults = 2
INVARIANTS AckedDoneIsCompleted
PROPERTIES PaidNeverGoesBack KeepsPromise PaidEventuallyCompleted
CHECK_DEADLOCK FALSE
