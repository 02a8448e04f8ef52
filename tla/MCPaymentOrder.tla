--------------------------- MODULE MCPaymentOrder ---------------------------
(* PaymentOrder on a small instance: the workers are interchangeable. *)
EXTENDS PaymentOrder, TLC

Symmetry == Permutations(Workers)
=============================================================================
