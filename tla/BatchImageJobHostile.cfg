SPECIFICATION Spec
CONSTANTS
  Workers = {w1, w2}
  NoOne = NoOne
  MaxRetries = 2
  OtherHolds = 0
  MaxFaults = 2
  Env = {"stall", "crash", "early", "ackLost"}
SYMMETRY Symmetry
INVARIANTS InflightIsQueued CompletedIsCharged
PROPERTIES TerminalIsFinal
CHECK_DEADLOCK FALSE
