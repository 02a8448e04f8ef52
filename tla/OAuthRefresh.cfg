SPECIFICATION Spec
CONSTANTS
  Background = {b}
  Requests = {r}
  Admins = {a}
  NoOne = NoOne
  MaxFamilies = 2
  MaxNumber = 1
  MaxEdits = 1
  MaxFaults = 1
INVARIANTS OneRefresher UsesLiveToken ErrorIsDeserved CachedIsCurrent
PROPERTIES AuthorizationIsKept EventuallyRefreshed
CHECK_DEADLOCK FALSE
