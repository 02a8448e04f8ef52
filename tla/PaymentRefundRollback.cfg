SPECIFICATION Spec
CONSTANTS
  Admins = {a1}
  MaxRefunds = 2
  MaxFaults = 1
INVARIANTS NoDebitAfterFailedRollback
CHECK_DEADLOCK FALSE
