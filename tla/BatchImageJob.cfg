SPECIFICATION FairSpec
CONSTANTS
  Workers = {w1, w2}
  NoOne = NoOne
  MaxRetries = 2
  OtherHolds = 1
  MaxFaults = 3
  Env = {}
INVARIANTS CompletedIsPaid HoldUsedOnce NothingStaysFrozen
PROPERTIES OnlySettledLeaves EnqueuedEnds
CHECK_DEADLOCK FALSE
