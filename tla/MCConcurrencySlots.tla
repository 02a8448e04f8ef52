------------------------ MODULE MCConcurrencySlots ------------------------
EXTENDS ConcurrencySlots, TLC

Symmetry == Permutations(Requests) \cup Permutations(Processes)
=============================================================================
