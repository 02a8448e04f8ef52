-------------------------- MODULE MCSchedulerBucket --------------------------
(* SchedulerBucket on a small instance. *)
EXTENDS SchedulerBucket
=============================================================================
