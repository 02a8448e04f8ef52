SPECIFICATION Spec
CONSTANTS
  Requests = {r1, r2, r3}
  Processes = {p, q}
  None = None
  Limit = 1
  MaxWait = 2
  MaxStarts = 2
  MaxFaults = 1
SYMMETRY Symmetry
INVARIANTS AtMostLimit WaitCountAddsUp
PROPERTIES RestartCleansUp
CHECK_DEADLOCK FALSE
