SPECIFICATION Spec
CONSTANTS
  Operations = {a, b}
  Payloads = {x, y}
  NoPayload = NoPayload
  Lease = 7
  TTL = 10
  Second = 1
  ClaimTime = 1
  CallTime = 1
  RunTime = 8
  MaxTime = 14
  MaxFaults = 1
SYMMETRY Symmetry
INVARIANTS OneAtATime CreatorIsAlone BlockedAtMostOneLease
CHECK_DEADLOCK FALSE
