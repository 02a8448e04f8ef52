-------------------------- MODULE MCSchedulerOutbox --------------------------
(* SchedulerOutbox on a small instance: pollers and clients are alike. *)
EXTENDS SchedulerOutbox, TLC

Symmetry == Permutations(Pollers) \cup Permutations(Clients)
=============================================================================
