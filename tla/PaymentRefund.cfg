SPECIFICATION Spec
CONSTANTS
  Admins = {a1, a2}
  MaxRefunds = 2
  MaxFaults = 2
SYMMETRY Symmetry
INVARIANTS RefundedIsReturned NeverOverRestored DebitedAtMostOnce OwedIsOnRecord
PROPERTIES RefundedIsFinal
CHECK_DEADLOCK FALSE
