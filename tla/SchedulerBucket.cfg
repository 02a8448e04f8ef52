SPECIFICATION Spec
CONSTANTS
  Readers = {a}
  Pollers = {a}
  Rebuilders = {b}
  None = None
  MaxChanges = 3
  MaxFaults = 1
INVARIANTS RetiredIsUnserved ServedIsOfThisLife
PROPERTIES SettlesFresh SettlesLifecycle
CHECK_DEADLOCK FALSE
