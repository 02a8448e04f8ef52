--------------------------- MODULE MCBatchImageJob ---------------------------
(* BatchImageJob on a small instance: the workers are interchangeable. *)
EXTENDS BatchImageJob, TLC

Symmetry == Permutations(Workers)
=============================================================================
