SPECIFICATION Spec
CONSTANTS
  Requests = {r1, r2, r3}
  Payloads = {p1, p2}
  NoPayload = NoPayload
  TTL = 3
  ProcessingTimeout = 2
  FailedRetryBackoff = 1
  ClaimTime = 2
  RunTime = 3
  MaxTime = 7
SYMMETRY Symmetry
INVARIANTS OneExecutor RunsOncePerWindow
PROPERTIES ReplayIsForThePayload
CHECK_DEADLOCK FALSE
