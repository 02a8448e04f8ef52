-------------------------- MODULE BatchImageQueue --------------------------
(***************************************************************************)
(* The Redis queue of batch image jobs (repository/batch_image_queue.go),  *)
(* seen from one job: how many copies of its id the ready list holds,      *)
(* whether it is in the delayed and the active sorted sets, its inflight   *)
(* key and its lock.  Every operation is one script or MULTI transaction.  *)
(*                                                                         *)
(* Scores are times and are kept as guards: MoveDueDelayedToReady may run  *)
(* as soon as the job is delayed, RecoverStaleActive when the workers'     *)
(* heartbeats have stopped, which the users of this module say.  The       *)
(* inflight key's seven days are longer than any behaviour modelled here.  *)
(***************************************************************************)
EXTENDS Naturals

CONSTANTS Workers, NoOne

ASSUME NoOneAssumption == NoOne \notin Workers

VARIABLES
  ready,     \* copies of the id in the ready list
  delayed,   \* the id is in the delayed sorted set
  active,    \* the id is in the active sorted set
  inflight,  \* the key that keeps the id from being enqueued twice
  lock       \* the worker whose token the lock key holds, or NoOne

queue == <<ready, delayed, active, inflight>>

QueueType ==
  /\ ready \in Nat
  /\ delayed \in BOOLEAN /\ active \in BOOLEAN /\ inflight \in BOOLEAN
  /\ lock \in Workers \cup {NoOne}

QueueInit ==
  /\ ready = 0 /\ delayed = FALSE /\ active = FALSE /\ inflight = FALSE
  /\ lock = NoOne

\* ErrBatchImageAlreadyQueued is what every caller takes for success.
Enqueue ==
  /\ IF inflight THEN UNCHANGED <<inflight, ready>>
     ELSE inflight' = TRUE /\ ready' = ready + 1
  /\ UNCHANGED <<delayed, active>>

\* Faulty variant: the id is popped and not put into the active set.
ReservePopped ==
  /\ ready > 0 /\ ready' = ready - 1
  /\ UNCHANGED <<delayed, active, inflight>>

Reserve ==
  /\ ready > 0 /\ ready' = ready - 1
  /\ active' = TRUE
  /\ UNCHANGED <<delayed, inflight>>

RequeueAfter ==
  /\ active' = FALSE /\ delayed' = TRUE
  /\ UNCHANGED <<ready, inflight>>

Ack ==
  /\ active' = FALSE /\ delayed' = FALSE /\ inflight' = FALSE
  /\ UNCHANGED ready

MoveDueDelayedToReady ==
  /\ delayed
  /\ delayed' = FALSE /\ ready' = ready + 1
  /\ UNCHANGED <<active, inflight>>

RecoverStaleActive ==
  /\ active
  /\ active' = FALSE /\ ready' = ready + 1
  /\ UNCHANGED <<delayed, inflight>>

\* SET NX with the worker's token.
AcquireJobLock(w) == lock = NoOne /\ lock' = w

\* DEL if the key still holds the worker's token.
ReleaseJobLock(w) == lock' = IF lock = w THEN NoOne ELSE lock

Queued == ready > 0 \/ delayed \/ active
=============================================================================
