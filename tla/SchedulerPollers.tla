-------------------------- MODULE SchedulerPollers --------------------------
(* What the bucket and the outbox of the scheduler have in common. *)
EXTENDS Naturals

CONSTANTS Pollers,   \* the outbox workers, one per instance
          None,
          MaxFaults  \* bound on failed calls and crashes

ASSUME NoneAssumption == None \notin Pollers
ASSUME MaxFaultsAssumption == MaxFaults \in Nat
=============================================================================
