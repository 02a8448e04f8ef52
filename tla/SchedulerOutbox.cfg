SPECIFICATION OutboxSpec
CONSTANTS
  Pollers = {p1, p2}
  Clients = {c1, c2}
  None = None
  MaxEvents = 2
  BatchSize = 2
  MaxFaults = 1
INVARIANTS PassedIsHandled UnseenIsPending
PROPERTIES EventuallyHandled
CHECK_DEADLOCK FALSE
