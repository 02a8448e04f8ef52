-------------------------- MODULE IdempotencyStore --------------------------
(***************************************************************************)
(* The row of idempotency_records with one scope and key hash, and the     *)
(* statements of repository/idempotency_repo.go on it.  Each is one SQL    *)
(* statement, hence one step.  Times are natural numbers; a locked_until   *)
(* that is NULL is 0, before every time.                                   *)
(***************************************************************************)
EXTENDS Naturals

CONSTANTS Payloads, NoPayload

ASSUME PayloadAssumption == NoPayload \notin Payloads

VARIABLES
  record,  \* the row; its id is 0 when there is none
  nextId   \* the id sequence

store == <<record, nextId>>

Processing == "processing"
Succeeded == "succeeded"
FailedRetryable == "failed_retryable"
RecordStatuses == {Processing, Succeeded, FailedRetryable}

NoRecord == [id |-> 0, fingerprint |-> NoPayload, status |-> Processing,
             lockedUntil |-> 0, expiresAt |-> 0]

Exists == record.id # 0

StoreType ==
  /\ nextId \in Nat \ {0}
  /\ record \in [id : Nat, fingerprint : Payloads \cup {NoPayload},
                 status : RecordStatuses, lockedUntil : Nat, expiresAt : Nat]
  /\ record.id < nextId

StoreInit == record = NoRecord /\ nextId = 1

\* INSERT ... ON CONFLICT DO NOTHING, when there is no conflict.
CreateProcessing(payload, lockedUntil, expiresAt) ==
  /\ ~Exists
  /\ record' = [id |-> nextId, fingerprint |-> payload, status |-> Processing,
                lockedUntil |-> lockedUntil, expiresAt |-> expiresAt]
  /\ nextId' = nextId + 1

\* Faulty variant: the lock window is not looked at.
ReclaimableAnyTime(id, from, now) ==
  Exists /\ record.id = id /\ record.status = from

\* The WHERE clause of TryReclaim.
Reclaimable(id, from, now) ==
  /\ Exists /\ record.id = id /\ record.status = from
  /\ record.lockedUntil <= now

\* The fingerprint is not among the columns it sets.
TryReclaim(id, from, now, lockedUntil, expiresAt) ==
  /\ Reclaimable(id, from, now)
  /\ record' = [record EXCEPT !.status = Processing,
                              !.lockedUntil = lockedUntil,
                              !.expiresAt = expiresAt]
  /\ UNCHANGED nextId

\* The WHERE clause of ExtendProcessingLock.
Extendable(id, payload) ==
  /\ Exists /\ record.id = id /\ record.status = Processing
  /\ record.fingerprint = payload

ExtendProcessingLock(id, payload, lockedUntil, expiresAt) ==
  /\ Extendable(id, payload)
  /\ record' = [record EXCEPT !.lockedUntil = lockedUntil,
                              !.expiresAt = expiresAt]
  /\ UNCHANGED nextId

\* WHERE id: neither the status nor the owner is looked at.
Mark(id, status, lockedUntil, expiresAt) ==
  /\ record' = IF Exists /\ record.id = id
               THEN [record EXCEPT !.status = status,
                                   !.lockedUntil = lockedUntil,
                                   !.expiresAt = expiresAt]
               ELSE record
  /\ UNCHANGED nextId

MarkSucceeded(id, expiresAt) == Mark(id, Succeeded, 0, expiresAt)

MarkFailedRetryable(id, lockedUntil, expiresAt) ==
  Mark(id, FailedRetryable, lockedUntil, expiresAt)

\* Faulty variant: the lock's end is taken for the record's.
DeleteUnlocked(now) ==
  /\ Exists /\ record.lockedUntil <= now /\ record' = NoRecord
  /\ UNCHANGED nextId

DeleteExpired(now) ==
  /\ Exists /\ record.expiresAt <= now /\ record' = NoRecord
  /\ UNCHANGED nextId
=============================================================================
