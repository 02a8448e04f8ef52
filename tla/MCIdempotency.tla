---------------------------- MODULE MCIdempotency ----------------------------
(* Idempotency on a small instance: requests and payloads are interchangeable. *)
EXTENDS Idempotency, TLC

Symmetry == Permutations(Requests) \cup Permutations(Payloads)
=============================================================================
