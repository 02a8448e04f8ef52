--------------------------- MODULE MCPaymentRefund ---------------------------
(* PaymentRefund on a small instance: admin requests are interchangeable. *)
EXTENDS PaymentRefund, TLC

Symmetry == Permutations(Admins)
=============================================================================
