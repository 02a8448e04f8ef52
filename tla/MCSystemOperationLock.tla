----------------------- MODULE MCSystemOperationLock -----------------------
EXTENDS SystemOperationLock, TLC

Symmetry == Permutations(Operations) \cup Permutations(Payloads)
=============================================================================
