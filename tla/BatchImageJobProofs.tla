------------------------ MODULE BatchImageJobProofs ------------------------
(***************************************************************************)
(* TLAPS proofs about BatchImageJob, for any set of workers and any number *)
(* of faults and retries.  The first theorems hold whatever Env allows;    *)
(* those about the hold say which environments they need (Calm, Steady,    *)
(* Orderly).                                                               *)
(*                                                                         *)
(* Many actions do few things to a variable.  Lemmas first say what a step *)
(* can do to the queue, to the job row and to the Submit call; the         *)
(* invariant is then proved over those few cases.                          *)
(***************************************************************************)
EXTENDS BatchImageJob, TLAPS

\* The operations of batch_image_queue.go.
QueueStep ==
  \/ UNCHANGED queue
  \/ Enqueue \/ Reserve
  \/ RequeueAfter /\ \E w \in Workers : pc[w] # "idle"
  \/ Ack /\ \E w \in Workers : pc[w] = "ack"
  \/ MoveDueDelayedToReady \/ RecoverStaleActive

\* UPDATE ... SET status = 'failed' without a look at the status: the failure
\* path of Submit.
BlindFailure ==
  sub \in {"recordFailed", "recordRefused"} /\ SetStatus("failed")

\* UpdateBatchImageJobProviderSubmit
ProviderSubmitted ==
  /\ CanTransition(status, "submitted") /\ status' = "submitted"
  /\ sub = "update" /\ sub' = "enqueue"
  /\ providerJob' = TRUE /\ UNCHANGED <<retries, hidden>>

\* The statements that write the job row.
RowStep ==
  \/ UNCHANGED row
  \/ CountRetry
  \/ hidden' \in BOOLEAN /\ UNCHANGED <<status, providerJob, retries>>
  \/ \E s \in Statuses \ {"submitted", "completed", "output_deleted"} :
       CanTransition(status, s) /\ SetStatus(s)
  \/ /\ \E w \in Workers : pc[w] = "markSettled"
     /\ status = "settling" /\ SetStatus("completed")
  \/ status = "completed" /\ SetStatus("output_deleted")
  \/ ProviderSubmitted
  \/ BlindFailure

\* The statements on usage_billing_dedup and frozen_balance.
LedgerStep ==
  /\ \/ UNCHANGED claims
     \/ \E c \in {"hold", "capture", "release"} : claims' = claims \cup {c}
  /\ frozen' = frozen \/ frozen' = frozen + 1 \/ frozen' = frozen - 1

\* A Submit call that has come to its Enqueue can only end.
SubmitProgress ==
  \/ sub' \in {sub, "done"}
  \/ sub \notin {"enqueue", "done"} /\ sub' \in SubmitPCs

\* A job that the provider knows has a provider job name, and its Submit call
\* is past all of its failure paths.
ProviderFacts ==
  /\ status \in Live \cup {"completed", "output_deleted"} => providerJob
  /\ providerJob => sub \in {"enqueue", "done"}

\* A worker marks the job settled only after the capture, and the capture's claim
\* is never taken back.
ChargeFacts ==
  /\ \A w \in Workers : pc[w] = "markSettled" => Captured
  /\ CompletedIsCharged

IInv == TypeOK /\ InflightIsQueued /\ ProviderFacts /\ ChargeFacts

USE DEF queue, row, ledger, api

-----------------------------------------------------------------------------
(* What a step can do *)

\* The queue changes only through its own operations.
LEMMA QueueSteps == [Next]_vars => QueueStep
<1> SUFFICES ASSUME [Next]_vars PROVE QueueStep
  OBVIOUS
<1> USE DEF QueueStep
<1>1. CASE Submit \/ Resubmit
  BY <1>1 DEF Submit, Resubmit, SubmitReserve, SubmitItems, SubmitUpload,
     SubmitProvider, SubmitUpdate, SubmitEnqueue, SubmitRelease,
     SubmitRetryEnqueue, SubmitRecordFailed, SubmitHide
<1>2. CASE CancelRead \/ Cancel
  BY <1>2 DEF CancelRead, Cancel, CancelProvider, CancelEnqueue,
     CancelTransition, CancelRelease
<1>3. CASE Recovery
  BY <1>3 DEF Recovery, RecoveryFail, RecoveryRelease, RecoveryEnqueue
<1>4. ASSUME NEW w \in Workers, Work(w)
      PROVE  QueueStep
  BY <1>4 DEF Work, WorkerReserve, WorkerLock, WorkerRead, WorkerProcess,
     WorkerGet, WorkerTransition, Transition, WorkerIndex,
     WorkerReleaseTerminal, WorkerSettle, WorkerCapture, WorkerMarkSettled,
     WorkerRecordFailure, WorkerExhaust, WorkerRecheck, WorkerRequeue,
     WorkerAck, WorkerUnlock, Step
<1>5. ASSUME NEW w \in Workers,
             WorkerCrash(w) \/ WorkerCallFails(w) \/ WorkerLockFails(w)
      PROVE  QueueStep
  BY <1>5 DEF WorkerCrash, WorkerCallFails, WorkerLockFails, Step
<1>6. CASE ProviderWorks \/ MoveDelayed \/ RecoverActive \/ LockExpires
           \/ DeleteOutputs \/ DeleteRecord
  BY <1>6 DEF ProviderWorks, MoveDelayed, RecoverActive, LockExpires,
     DeleteOutputs, DeleteRecord
<1>7. CASE SubmitCallFails \/ CancelCallFails \/ RecoveryCallFails \/ ApiCrash
  BY <1>7 DEF SubmitCallFails, CancelCallFails, RecoveryCallFails, ApiCrash
<1>8. CASE UNCHANGED vars
  BY <1>8 DEF vars
<1> QED
  BY <1>1, <1>2, <1>3, <1>4, <1>5, <1>6, <1>7, <1>8 DEF Next

\* The row changes only through its statements: the status moves along
\* CanTransition, except on the failure path of Submit.
LEMMA RowSteps == [Next]_vars => RowStep
<1> SUFFICES ASSUME [Next]_vars PROVE RowStep
  OBVIOUS
<1> USE DEF RowStep
<1>1. CASE Submit
  <2>1. CASE SubmitReserve \/ SubmitItems \/ SubmitProvider \/ SubmitEnqueue
             \/ SubmitRetryEnqueue
    BY <2>1 DEF SubmitReserve, SubmitItems, SubmitProvider, SubmitEnqueue,
       SubmitRetryEnqueue
  <2>2. CASE SubmitUpload
    BY <2>2 DEF SubmitUpload, Statuses
  <2>3. CASE SubmitUpdate
    BY <2>3 DEF SubmitUpdate, SubmitStep, ProviderSubmitted
  <2>4. CASE SubmitRelease \/ SubmitRecordFailed
    BY <2>4 DEF SubmitRelease, SubmitRecordFailed, SubmitStep, BlindFailure
  <2>5. CASE SubmitHide
    BY <2>5 DEF SubmitHide
  <2> QED
    BY <1>1, <2>1, <2>2, <2>3, <2>4, <2>5 DEF Submit
<1>2. CASE Resubmit \/ CancelRead \/ Cancel
  BY <1>2 DEF Resubmit, CancelRead, Cancel, CancelProvider, CancelEnqueue,
     CancelTransition, CancelRelease, Statuses, Terminal
<1>3. CASE Recovery
  BY <1>3 DEF Recovery, RecoveryFail, RecoveryRelease, RecoveryEnqueue,
     Recoverable, CanTransition, Statuses, Terminal
<1>4. ASSUME NEW w \in Workers, Work(w)
      PROVE  RowStep
  <2>1. CASE WorkerTransition(w)
    BY <2>1 DEF WorkerTransition, Transition, Statuses, Terminal
  <2>2. CASE WorkerMarkSettled(w)
    BY <2>2 DEF WorkerMarkSettled, Step
  <2>3. CASE WorkerRecordFailure(w) \/ WorkerExhaust(w)
    BY <2>3 DEF WorkerRecordFailure, WorkerExhaust
  <2> QED
    BY <1>4, <2>1, <2>2, <2>3 DEF Work, WorkerReserve, WorkerLock, WorkerRead,
       WorkerProcess, WorkerGet, WorkerIndex, WorkerReleaseTerminal,
       WorkerSettle, WorkerCapture, WorkerRecheck, WorkerRequeue, WorkerAck,
       WorkerUnlock
<1>5. ASSUME NEW w \in Workers,
             WorkerCrash(w) \/ WorkerCallFails(w) \/ WorkerLockFails(w)
      PROVE  RowStep
  BY <1>5 DEF WorkerCrash, WorkerCallFails, WorkerLockFails
<1>6. CASE ProviderWorks \/ MoveDelayed \/ RecoverActive \/ LockExpires
           \/ DeleteOutputs \/ DeleteRecord
  BY <1>6 DEF ProviderWorks, MoveDelayed, RecoverActive, LockExpires,
     DeleteOutputs, DeleteRecord, CanTransition, Statuses, Terminal
<1>7. CASE SubmitCallFails
  BY <1>7 DEF SubmitCallFails
<1>8. CASE CancelCallFails \/ RecoveryCallFails \/ ApiCrash
  BY <1>8 DEF CancelCallFails, RecoveryCallFails, ApiCrash
<1>9. CASE UNCHANGED vars
  BY <1>9 DEF vars
<1> QED
  BY <1>1, <1>2, <1>3, <1>4, <1>5, <1>6, <1>7, <1>8, <1>9 DEF Next

\* No step takes a Submit call from its Enqueue or its end back to a failure
\* path.
LEMMA SubmitSteps == ASSUME ProcessType, [Next]_vars
                     PROVE  SubmitProgress \/ ProviderSubmitted
<1> USE DEF SubmitProgress, SubmitPCs
<1>1. CASE Submit
  BY <1>1 DEF Submit, SubmitReserve, SubmitItems, SubmitUpload,
     SubmitProvider, SubmitUpdate, SubmitEnqueue, SubmitRelease,
     SubmitRetryEnqueue, SubmitRecordFailed, SubmitHide, SubmitStep
<1>2. CASE Resubmit \/ CancelRead \/ Cancel
  BY <1>2 DEF Resubmit, CancelRead, Cancel, CancelProvider, CancelEnqueue,
     CancelTransition, CancelRelease, CancelFrame
<1>3. CASE Recovery
  BY <1>3 DEF Recovery, RecoveryFail, RecoveryRelease, RecoveryEnqueue,
     RecoveryFrame
<1>4. ASSUME NEW w \in Workers, Work(w)
      PROVE  sub' = sub
  BY <1>4 DEF Work, WorkerReserve, WorkerLock, WorkerRead, WorkerProcess,
     WorkerGet, WorkerTransition, Transition, WorkerIndex,
     WorkerReleaseTerminal, WorkerSettle, WorkerCapture, WorkerMarkSettled,
     WorkerRecordFailure, WorkerExhaust, WorkerRecheck, WorkerRequeue,
     WorkerAck, WorkerUnlock, WorkerFrame
<1>5. ASSUME NEW w \in Workers,
             WorkerCrash(w) \/ WorkerCallFails(w) \/ WorkerLockFails(w)
      PROVE  sub' = sub
  BY <1>5 DEF WorkerCrash, WorkerCallFails, WorkerLockFails
<1>6. CASE ProviderWorks \/ MoveDelayed \/ RecoverActive \/ LockExpires
           \/ DeleteOutputs \/ DeleteRecord
  BY <1>6 DEF ProviderWorks, MoveDelayed, RecoverActive, LockExpires,
     DeleteOutputs, DeleteRecord
<1>7. CASE SubmitCallFails \/ CancelCallFails \/ RecoveryCallFails \/ ApiCrash
  BY <1>7 DEF SubmitCallFails, CancelCallFails, RecoveryCallFails, ApiCrash
<1>8. CASE UNCHANGED vars
  BY <1>8 DEF vars
<1> QED
  BY <1>1, <1>2, <1>3, <1>4, <1>5, <1>6, <1>7, <1>8 DEF Next

\* A worker that goes on keeps a well-typed position.
LEMMA GotoType ==
  ASSUME NEW w \in Workers, NEW l \in WorkerPCs, Goto(w, l),
         pc \in [Workers -> WorkerPCs]
  PROVE  pc' \in [Workers -> WorkerPCs]
  BY DEF Goto

-----------------------------------------------------------------------------
(* The inductive invariant *)

\* The queue's operations keep its types, and none of them drops a job whose
\* inflight key stays.
LEMMA QueueInvariant ==
  ASSUME QueueType, InflightIsQueued, QueueStep
  PROVE  /\ ready' \in Nat
         /\ delayed' \in BOOLEAN /\ active' \in BOOLEAN /\ inflight' \in BOOLEAN
         /\ InflightIsQueued'
<1> USE DEF QueueStep, Enqueue, Reserve, RequeueAfter, Ack,
        MoveDueDelayedToReady, RecoverStaleActive
<1>1. ready' \in Nat
  BY DEF QueueType
<1>2. delayed' \in BOOLEAN /\ active' \in BOOLEAN /\ inflight' \in BOOLEAN
  BY Zenon DEF QueueType
<1>3. ASSUME inflight', ~delayed', ~active' PROVE ready' > 0
  <2>1. ready \in Nat
    BY DEF QueueType
  <2>2. CASE UNCHANGED queue \/ Enqueue
    <3>1. CASE inflight
      BY <1>3, <2>1, <2>2, <3>1 DEF InflightIsQueued, Queued
    <3>2. CASE ~inflight
      <4>1. ~UNCHANGED queue
        BY <1>3, <3>2, Zenon
      <4>2. ready' = ready + 1
        BY <2>2, <3>2, <4>1
      <4> QED
        BY <2>1, <4>2
    <3> QED
      BY <3>1, <3>2
  <2>3. CASE MoveDueDelayedToReady \/ RecoverStaleActive
    BY <2>1, <2>3
  <2>4. ~(Reserve \/ RequeueAfter \/ Ack)
    BY <1>3
  <2> QED
    BY <2>2, <2>3, <2>4
<1>4. InflightIsQueued'
  BY <1>3 DEF InflightIsQueued, Queued
<1> QED
  BY <1>1, <1>2, <1>4

\* The statements on the row keep its types.
LEMMA RowInvariant ==
  ASSUME RowType, RowStep
  PROVE  RowType'
<1> USE DEF RowType
<1>1. CASE UNCHANGED row
  BY <1>1
<1>2. CASE CountRetry
  BY <1>2, BoundsAssumption DEF CountRetry
<1>3. CASE hidden' \in BOOLEAN /\ UNCHANGED <<status, providerJob, retries>>
  BY <1>3
<1>4. ASSUME NEW s \in Statuses, SetStatus(s)
      PROVE  RowType'
  BY <1>4 DEF SetStatus, Statuses, Terminal
<1>5. CASE ProviderSubmitted
  BY <1>5 DEF ProviderSubmitted, Statuses
<1>6. CASE BlindFailure
  BY <1>4, <1>6 DEF BlindFailure, Statuses, Terminal
<1>7. {"completed", "output_deleted"} \subseteq Statuses
  BY DEF Statuses, Terminal
<1> QED
  BY <1>1, <1>2, <1>3, <1>4, <1>5, <1>6, <1>7 DEF RowStep

\* A job gets its first status of the provider's together with its provider job
\* name, and the Submit call that writes both has left its failure paths.
LEMMA ProviderInvariant ==
  ASSUME RowType, ProviderFacts, RowStep, SubmitProgress \/ ProviderSubmitted
  PROVE  ProviderFacts'
<1> USE DEF ProviderFacts, Live
<1>1. CASE ProviderSubmitted
  BY <1>1 DEF ProviderSubmitted
<1>2. ASSUME SubmitProgress, UNCHANGED providerJob
      PROVE  (providerJob => sub \in {"enqueue", "done"})'
  BY <1>2 DEF SubmitProgress
<1>3. ASSUME SubmitProgress, UNCHANGED <<status, providerJob>>
      PROVE  ProviderFacts'
  BY <1>2, <1>3
<1>4. ASSUME SubmitProgress,
             NEW s \in Statuses \ {"submitted", "completed", "output_deleted"},
             CanTransition(status, s), SetStatus(s)
      PROVE  ProviderFacts'
  <2>1. UNCHANGED providerJob /\ status' = s
    BY <1>4 DEF SetStatus
  <2>2. s \in Live \cup {"completed", "output_deleted"}
          => status \in Live
    BY <1>4 DEF CanTransition, Terminal, Statuses
  <2> QED
    BY <1>2, <1>4, <2>1, <2>2
<1>5. ASSUME SubmitProgress, status = "completed", SetStatus("output_deleted")
      PROVE  ProviderFacts'
  BY <1>2, <1>5 DEF SetStatus
<1>6. ASSUME SubmitProgress, status = "settling", SetStatus("completed")
      PROVE  ProviderFacts'
  BY <1>2, <1>6 DEF SetStatus
<1>7. ASSUME SubmitProgress, BlindFailure
      PROVE  ProviderFacts'
  BY <1>2, <1>7 DEF BlindFailure, SetStatus
<1> QED
  BY <1>1, <1>3, <1>4, <1>5, <1>6, <1>7 DEF RowStep, CountRetry

\* A step charges, gives back or reserves at most one hold.
LEMMA LedgerSteps == [Next]_vars => LedgerStep
<1> SUFFICES ASSUME [Next]_vars PROVE LedgerStep
  OBVIOUS
<1> USE DEF LedgerStep
<1>1. ASSUME ReleaseHold \/ CaptureHold PROVE LedgerStep
  BY <1>1 DEF ReleaseHold, CaptureHold
<1>2. CASE Submit
  <2>1. CASE SubmitRelease
    BY <1>1, <2>1 DEF SubmitRelease
  <2>2. CASE SubmitReserve
    BY <2>2 DEF SubmitReserve
  <2> QED
    BY <1>2, <2>1, <2>2 DEF Submit, SubmitItems, SubmitUpload, SubmitProvider,
       SubmitUpdate, SubmitEnqueue, SubmitRetryEnqueue, SubmitRecordFailed,
       SubmitHide
<1>3. CASE Resubmit \/ CancelRead \/ Cancel \/ Recovery
  BY <1>1, <1>3 DEF Resubmit, CancelRead, Cancel, CancelProvider,
     CancelEnqueue, CancelTransition, CancelRelease, Recovery, RecoveryFail,
     RecoveryRelease, RecoveryEnqueue
<1>4. ASSUME NEW w \in Workers, Work(w)
      PROVE  LedgerStep
  BY <1>1, <1>4 DEF Work, WorkerReserve, WorkerLock, WorkerRead, WorkerProcess,
     WorkerGet, WorkerTransition, Transition, WorkerIndex,
     WorkerReleaseTerminal, WorkerSettle, WorkerCapture, WorkerMarkSettled,
     WorkerRecordFailure, WorkerExhaust, WorkerRecheck, WorkerRequeue,
     WorkerAck, WorkerUnlock
<1>5. ASSUME NEW w \in Workers,
             WorkerCrash(w) \/ WorkerCallFails(w) \/ WorkerLockFails(w)
      PROVE  LedgerStep
  BY <1>1, <1>5 DEF WorkerCrash, WorkerCallFails, WorkerLockFails
<1>6. CASE ProviderWorks \/ MoveDelayed \/ RecoverActive \/ LockExpires
           \/ DeleteOutputs \/ DeleteRecord
  BY <1>6 DEF ProviderWorks, MoveDelayed, RecoverActive, LockExpires,
     DeleteOutputs, DeleteRecord
<1>7. CASE SubmitCallFails
  BY <1>7 DEF SubmitCallFails
<1>8. CASE CancelCallFails \/ RecoveryCallFails \/ ApiCrash
  BY <1>8 DEF CancelCallFails, RecoveryCallFails, ApiCrash
<1>9. CASE UNCHANGED vars
  BY <1>9 DEF vars
<1> QED
  BY <1>2, <1>3, <1>4, <1>5, <1>6, <1>7, <1>8, <1>9 DEF Next

\* Such a step keeps the ledger's types.
LEMMA LedgerInvariant ==
  ASSUME LedgerType, LedgerStep
  PROVE  LedgerType'
<1>1. claims' \in SUBSET {"hold", "capture", "release"}
  BY Zenon DEF LedgerType, LedgerStep
<1>2. frozen' \in Int
  BY DEF LedgerType, LedgerStep
<1> QED
  BY <1>1, <1>2 DEF LedgerType

\* Workers go from label to label.
LEMMA PcInvariant ==
  ASSUME pc \in [Workers -> WorkerPCs], [Next]_vars
  PROVE  pc' \in [Workers -> WorkerPCs]
<1>1. ASSUME NEW w \in Workers, NEW from, NEW l \in WorkerPCs, Step(w, from, l)
      PROVE  pc' \in [Workers -> WorkerPCs]
  BY <1>1, GotoType DEF Step
<1>2. ASSUME NEW w \in Workers, Work(w)
      PROVE  pc' \in [Workers -> WorkerPCs]
  <2>1. CASE WorkerReserve(w) \/ WorkerLock(w) \/ WorkerIndex(w)
             \/ WorkerReleaseTerminal(w) \/ WorkerCapture(w)
    BY <1>1, <2>1 DEF WorkerReserve, WorkerLock, WorkerIndex,
       WorkerReleaseTerminal, WorkerCapture, WorkerPCs
  <2>2. CASE WorkerMarkSettled(w) \/ WorkerExhaust(w) \/ WorkerRequeue(w)
             \/ WorkerAck(w) \/ WorkerUnlock(w)
    BY <1>1, <2>2 DEF WorkerMarkSettled, WorkerExhaust, WorkerRequeue,
       WorkerAck, WorkerUnlock, WorkerPCs
  <2>3. CASE WorkerTransition(w)
    BY <1>1, <2>3 DEF WorkerTransition, Transition, WorkerPCs
  <2>4. CASE WorkerRead(w) \/ WorkerRecheck(w)
    BY <1>1, <2>4 DEF WorkerRead, WorkerRecheck, WorkerPCs
  <2>5. CASE WorkerProcess(w)
    BY <1>1, <2>5, Zenon DEF WorkerProcess, WorkerPCs
  <2>6. CASE WorkerGet(w)
    BY <1>1, <2>6, Zenon DEF WorkerGet, WorkerPCs
  <2>7. CASE WorkerSettle(w)
    BY <1>1, <2>7, Zenon DEF WorkerSettle, WorkerPCs
  <2>8. CASE WorkerRecordFailure(w)
    BY <1>1, <2>8, Zenon DEF WorkerRecordFailure, WorkerPCs
  <2> QED
    BY <1>2, <2>1, <2>2, <2>3, <2>4, <2>5, <2>6, <2>7, <2>8 DEF Work
<1>3. ASSUME NEW w \in Workers,
             WorkerCrash(w) \/ WorkerCallFails(w) \/ WorkerLockFails(w)
      PROVE  pc' \in [Workers -> WorkerPCs]
  BY <1>1, <1>3, GotoType DEF WorkerCrash, WorkerCallFails, WorkerLockFails,
     WorkerPCs
<1>4. CASE Submit \/ Resubmit
  BY <1>4 DEF Submit, Resubmit, SubmitReserve, SubmitItems, SubmitUpload,
     SubmitProvider, SubmitUpdate, SubmitEnqueue, SubmitRelease,
     SubmitRetryEnqueue, SubmitRecordFailed, SubmitHide, SubmitFrame
<1>5. CASE CancelRead \/ Cancel \/ Recovery
  BY <1>5 DEF CancelRead, Cancel, CancelProvider, CancelEnqueue,
     CancelTransition, CancelRelease, CancelFrame, Recovery, RecoveryFail,
     RecoveryRelease, RecoveryEnqueue, RecoveryFrame
<1>6. CASE ProviderWorks \/ MoveDelayed \/ RecoverActive \/ LockExpires
           \/ DeleteOutputs \/ DeleteRecord
  BY <1>6 DEF ProviderWorks, MoveDelayed, RecoverActive, LockExpires,
     DeleteOutputs, DeleteRecord
<1>7. CASE SubmitCallFails \/ CancelCallFails \/ RecoveryCallFails \/ ApiCrash
  BY <1>7 DEF SubmitCallFails, CancelCallFails, RecoveryCallFails, ApiCrash
<1>8. CASE UNCHANGED vars
  BY <1>8 DEF vars
<1> QED
  BY <1>2, <1>3, <1>4, <1>5, <1>6, <1>7, <1>8 DEF Next

\* The lock is free or holds a worker's token; the provider, the Submit, Cancel
\* and recovery calls and the count of faults keep their types.
LEMMA EnvInvariant ==
  ASSUME QueueType, ProcessType, [Next]_vars
  PROVE  /\ lock' \in Workers \cup {NoOne}
         /\ prov' \in {"none", "queued", "running", "succeeded", "failed",
                       "cancelled"}
         /\ cancel' \in CancelPCs /\ recovery' \in RecoveryPCs
         /\ faults' \in Nat /\ faults' >= faults /\ (valid' = valid)
<1> USE DEF QueueType, ProcessType
<1>1. CASE Submit \/ Resubmit
  BY <1>1 DEF Submit, Resubmit, SubmitReserve, SubmitItems, SubmitUpload,
     SubmitProvider, SubmitUpdate, SubmitEnqueue, SubmitRelease,
     SubmitRetryEnqueue, SubmitRecordFailed, SubmitHide, SubmitFrame
<1>2. CASE CancelRead
  <2>1. cancel' \in CancelPCs
    BY <1>2, Zenon DEF CancelRead, CancelPCs
  <2> QED
    BY <1>2, <2>1 DEF CancelRead, CancelFrame
<1>3. CASE Cancel
  BY <1>3 DEF Cancel, CancelProvider, CancelEnqueue, CancelTransition,
     CancelRelease, CancelFrame, CancelPCs
<1>4. CASE Recovery
  BY <1>4 DEF Recovery, RecoveryFail, RecoveryRelease, RecoveryEnqueue,
     RecoveryFrame, RecoveryPCs
<1>5. ASSUME NEW w \in Workers, Work(w)
      PROVE  UNCHANGED <<prov, valid, cancel, recovery, faults>>
             /\ lock' \in Workers \cup {NoOne}
  BY <1>5 DEF Work, WorkerReserve, WorkerLock, WorkerRead, WorkerProcess,
     WorkerGet, WorkerTransition, Transition, WorkerIndex,
     WorkerReleaseTerminal, WorkerSettle, WorkerCapture, WorkerMarkSettled,
     WorkerRecordFailure, WorkerExhaust, WorkerRecheck, WorkerRequeue,
     WorkerAck, WorkerUnlock, WorkerFrame, AcquireJobLock, ReleaseJobLock
<1>6. ASSUME NEW w \in Workers,
             WorkerCrash(w) \/ WorkerCallFails(w) \/ WorkerLockFails(w)
      PROVE  UNCHANGED <<prov, valid, cancel, recovery, lock>>
             /\ faults' = faults + 1
  BY <1>6 DEF WorkerCrash, WorkerCallFails, WorkerLockFails, Fault
<1>7. CASE ProviderWorks \/ MoveDelayed \/ DeleteOutputs \/ DeleteRecord
  BY <1>7 DEF ProviderWorks, MoveDelayed, DeleteOutputs, DeleteRecord
<1>8. CASE RecoverActive \/ LockExpires
  BY <1>8 DEF RecoverActive, LockExpires, Expires
<1>9. CASE SubmitCallFails \/ CancelCallFails \/ RecoveryCallFails \/ ApiCrash
  BY <1>9 DEF SubmitCallFails, CancelCallFails, RecoveryCallFails, ApiCrash,
     Fault, CancelPCs, RecoveryPCs
<1>10. CASE UNCHANGED vars
  BY <1>10 DEF vars
<1> QED
  BY <1>1, <1>2, <1>3, <1>4, <1>5, <1>6, <1>7, <1>8, <1>9, <1>10 DEF Next

\* A worker that goes anywhere else does not come to mark the job settled.
LEMMA ElsewhereNotMark ==
  ASSUME pc \in [Workers -> WorkerPCs], NEW w \in Workers, NEW l, Goto(w, l),
         l # "markSettled"
  PROVE  \A v \in Workers : pc'[v] = "markSettled" => pc[v] = "markSettled"
  BY DEF Goto

\* A worker comes to mark the job settled only by a capture that succeeded.
LEMMA MarkSteps ==
  ASSUME pc \in [Workers -> WorkerPCs], [Next]_vars, NEW v \in Workers,
         pc'[v] = "markSettled"
  PROVE  pc[v] = "markSettled" \/ "capture" \in claims'
<1>1. ASSUME NEW w \in Workers, NEW from, NEW l, l # "markSettled",
             Step(w, from, l)
      PROVE  pc[v] = "markSettled"
  BY <1>1, ElsewhereNotMark DEF Step
<1>2. ASSUME NEW w \in Workers, Work(w)
      PROVE  pc[v] = "markSettled" \/ "capture" \in claims'
  <2>1. CASE WorkerCapture(w)
    <3>1. CASE CaptureHold
      BY <3>1 DEF CaptureHold
    <3>2. CASE ~CaptureHold
      BY <1>1, <2>1, <3>2 DEF WorkerCapture
    <3> QED
      BY <3>1, <3>2
  <2>2. CASE WorkerReserve(w) \/ WorkerLock(w) \/ WorkerIndex(w)
             \/ WorkerReleaseTerminal(w)
    BY <1>1, <2>2 DEF WorkerReserve, WorkerLock, WorkerIndex,
       WorkerReleaseTerminal
  <2>3. CASE WorkerMarkSettled(w) \/ WorkerExhaust(w) \/ WorkerRequeue(w)
             \/ WorkerAck(w) \/ WorkerUnlock(w)
    BY <1>1, <2>3 DEF WorkerMarkSettled, WorkerExhaust, WorkerRequeue,
       WorkerAck, WorkerUnlock
  <2>4. CASE WorkerTransition(w)
    BY <1>1, <2>4 DEF WorkerTransition, Transition
  <2>5. CASE WorkerRead(w) \/ WorkerRecheck(w)
    BY <1>1, <2>5 DEF WorkerRead, WorkerRecheck
  <2>6. CASE WorkerProcess(w)
    BY <1>1, <2>6, Zenon DEF WorkerProcess
  <2>7. CASE WorkerGet(w)
    BY <1>1, <2>7, Zenon DEF WorkerGet
  <2>8. CASE WorkerSettle(w)
    BY <1>1, <2>8, Zenon DEF WorkerSettle
  <2>9. CASE WorkerRecordFailure(w)
    BY <1>1, <2>9, Zenon DEF WorkerRecordFailure
  <2> QED
    BY <1>2, <2>1, <2>2, <2>3, <2>4, <2>5, <2>6, <2>7, <2>8, <2>9 DEF Work
<1>3. ASSUME NEW w \in Workers,
             WorkerCrash(w) \/ WorkerCallFails(w) \/ WorkerLockFails(w)
      PROVE  pc[v] = "markSettled"
  BY <1>1, <1>3, ElsewhereNotMark DEF WorkerCrash, WorkerCallFails,
     WorkerLockFails
<1>4. CASE Submit \/ Resubmit
  BY <1>4 DEF Submit, Resubmit, SubmitReserve, SubmitItems, SubmitUpload,
     SubmitProvider, SubmitUpdate, SubmitEnqueue, SubmitRelease,
     SubmitRetryEnqueue, SubmitRecordFailed, SubmitHide, SubmitFrame
<1>5. CASE CancelRead \/ Cancel \/ Recovery
  BY <1>5 DEF CancelRead, Cancel, CancelProvider, CancelEnqueue,
     CancelTransition, CancelRelease, CancelFrame, Recovery, RecoveryFail,
     RecoveryRelease, RecoveryEnqueue, RecoveryFrame
<1>6. CASE ProviderWorks \/ MoveDelayed \/ RecoverActive \/ LockExpires
           \/ DeleteOutputs \/ DeleteRecord
  BY <1>6 DEF ProviderWorks, MoveDelayed, RecoverActive, LockExpires,
     DeleteOutputs, DeleteRecord
<1>7. CASE SubmitCallFails \/ CancelCallFails \/ RecoveryCallFails \/ ApiCrash
  BY <1>7 DEF SubmitCallFails, CancelCallFails, RecoveryCallFails, ApiCrash
<1>8. CASE UNCHANGED vars
  BY <1>8 DEF vars
<1> QED
  BY <1>2, <1>3, <1>4, <1>5, <1>6, <1>7, <1>8 DEF Next

\* IInv holds when CreateBatchImageJob has committed.
LEMMA InitIInv == Init => IInv
<1> SUFFICES ASSUME Init PROVE IInv
  OBVIOUS
<1>1. QueueType
  BY DEF Init, QueueInit, QueueType
<1>2. RowType
  <2>1. status \in Statuses /\ retries \in 0..MaxRetries
    BY BoundsAssumption DEF Init, Statuses
  <2>2. providerJob \in BOOLEAN /\ hidden \in BOOLEAN
    BY Zenon DEF Init
  <2> QED
    BY <2>1, <2>2, Zenon DEF RowType
<1>3. LedgerType
  BY DEF Init, LedgerType
<1>4. ProcessType
  BY DEF Init, ProcessType, SubmitPCs, CancelPCs, RecoveryPCs, WorkerPCs
<1>5. InflightIsQueued /\ ProviderFacts
  BY DEF Init, QueueInit, InflightIsQueued, ProviderFacts, Live
<1>6. ChargeFacts
  BY DEF Init, ChargeFacts, CompletedIsCharged
<1> QED
  BY <1>1, <1>2, <1>3, <1>4, <1>5, <1>6 DEF IInv, TypeOK

\* Every step preserves IInv.
LEMMA NextIInv == IInv /\ [Next]_vars => IInv'
<1> SUFFICES ASSUME IInv, [Next]_vars PROVE IInv'
  OBVIOUS
<1> USE DEF IInv, TypeOK
<1>1. QueueType' /\ InflightIsQueued'
  BY QueueSteps, QueueInvariant, EnvInvariant DEF QueueType
<1>2. RowType'
  BY RowSteps, RowInvariant
<1>3. LedgerType'
  BY LedgerSteps, LedgerInvariant
<1>4. ProcessType'
  <2>1. sub' \in SubmitPCs
    BY SubmitSteps DEF ProcessType, SubmitProgress, ProviderSubmitted,
       SubmitPCs
  <2>2. pc' \in [Workers -> WorkerPCs]
    BY PcInvariant DEF ProcessType
  <2>3. valid' \in BOOLEAN
    <3>1. valid \in BOOLEAN
      BY Zenon DEF ProcessType
    <3>2. valid' = valid
      BY EnvInvariant
    <3> QED
      BY <3>1, <3>2, Zenon
  <2> QED
    BY <2>1, <2>2, <2>3, EnvInvariant, Zenon DEF ProcessType
<1>5. ProviderFacts'
  BY RowSteps, SubmitSteps, ProviderInvariant
<1>6. ChargeFacts'
  <2>1. Captured => Captured'
    BY LedgerSteps DEF LedgerStep, Captured
  <2>2. ASSUME NEW w \in Workers, pc'[w] = "markSettled" PROVE Captured'
    BY <2>1, <2>2, MarkSteps DEF ProcessType, ChargeFacts, Captured
  <2>3. CompletedIsCharged'
    <3>1. status' \in {"completed", "output_deleted"}
            => \/ status \in {"completed", "output_deleted"}
               \/ \E w \in Workers : pc[w] = "markSettled"
      BY RowSteps DEF RowStep, CountRetry, SetStatus, ProviderSubmitted,
         BlindFailure
    <3> QED
      BY <2>1, <3>1 DEF ChargeFacts, CompletedIsCharged
  <2> QED
    BY <2>2, <2>3 DEF ChargeFacts
<1> QED
  BY <1>1, <1>2, <1>3, <1>4, <1>5, <1>6

\* IInv is an invariant of the specification.
LEMMA IInvHolds == Spec => []IInv
  BY InitIInv, NextIInv, PTL DEF Spec

-----------------------------------------------------------------------------
(* Theorems *)

\* The queue, the row, the ledger and every process keep their types.
THEOREM TypeCorrect == Spec => []TypeOK
<1>1. IInv => TypeOK
  BY DEF IInv
<1> QED
  BY <1>1, IInvHolds, PTL

\* Whatever crashes, stalls, fails or is delivered twice, a job that Enqueue
\* refuses because of its inflight key is in the ready list, the delayed or the
\* active set: it is never lost from the queue.
THEOREM InflightQueued == Spec => []InflightIsQueued
<1>1. IInv => InflightIsQueued
  BY DEF IInv
<1> QED
  BY <1>1, IInvHolds, PTL

\* A completed job has been charged for, with any number of workers that stall,
\* crash or settle the job twice: ChargeFacts ties the mark to the capture.
THEOREM CompletedCharged == Spec => []CompletedIsCharged
<1>1. IInv => CompletedIsCharged
  BY DEF IInv, ChargeFacts
<1> QED
  BY <1>1, IInvHolds, PTL

\* A step leaves a job that is over, or being settled, where it is.
LEMMA OverStays ==
  ASSUME IInv, [Next]_vars
  PROVE  StaysOver
<1> USE DEF StaysOver, Live, Terminal
<1>1. CASE UNCHANGED status
  BY <1>1
<1>2. ASSUME NEW s \in Statuses \ {"submitted", "completed", "output_deleted"},
             CanTransition(status, s), SetStatus(s)
      PROVE  StaysOver
  BY <1>2 DEF CanTransition, SetStatus, Statuses
<1>3. CASE \/ status = "completed" /\ SetStatus("output_deleted")
           \/ status = "settling" /\ SetStatus("completed")
  BY <1>3 DEF SetStatus
<1>4. CASE ProviderSubmitted
  BY <1>4 DEF ProviderSubmitted, CanTransition
<1>5. CASE BlindFailure
  BY <1>5 DEF IInv, TypeOK, RowType, Statuses, ProviderFacts, BlindFailure,
     SetStatus
<1> QED
  BY <1>1, <1>2, <1>3, <1>4, <1>5, RowSteps DEF RowStep, CountRetry

\* No step changes how a job ended, or takes it from settling back to work, but
\* for the deletion of outputs and Submit's failure record.  That record is
\* written whatever the status is; by ProviderFacts no Submit call of a completed
\* or settling job is on that path, so it only ever turns cancelled into failed.
THEOREM TerminalFinal == Spec => TerminalIsFinal
<1>1. IInv /\ [Next]_vars => [StaysOver]_vars
  BY OverStays
<1> QED
  BY <1>1, IInvHolds, PTL DEF Spec, TerminalIsFinal

-----------------------------------------------------------------------------
(* The hold *)

\* No worker or submission outlives its lock or heartbeat, and no Cancel comes
\* before the hold is reserved.
Calm == Env \cap {"stall", "early"} = {}

Held == "hold" \in claims
Returned == "release" \in claims
Unit(b) == IF b THEN 1 ELSE 0

Busy(w) == pc[w] \notin {"idle", "lock"}

\* A worker works under the lock.
Serial == \A w \in Workers : Busy(w) => lock = w

\* What Submit has reserved.
SubmitFacts ==
  /\ sub \notin {"reserve", "recordFailed", "hide", "done"} \/ providerJob => Held
  /\ sub = "reserve" => /\ ~Held /\ ~Returned /\ status = "created"
                        /\ cancel = "idle" /\ recovery = "idle"

\* frozen_balance is what the claims say.
Balance ==
  /\ frozen = Unit(Held) - Unit(Captured) - Unit(Released)
  /\ Captured => Held

\* Whose hold is given back: a job's that failed or was cancelled, or will be.
Lost == status \in {"failed", "cancelled"}
Abandoned ==
  status \in {"created", "uploading"} /\ sub \in {"recordFailed", "hide", "done"}

ReturnFacts ==
  /\ Returned => \/ Lost \/ Abandoned
                 \/ status = "settling" /\ retries = MaxRetries
  /\ cancel = "release" => Lost
  /\ recovery = "release" => Lost

\* What a worker knows of the job at its position.
Following == {"get", "toRunning", "toIndexing", "toFailed", "toCancelled", "index",
              "toSettling", "indexFailed"}
Charging == {"capture", "markSettled"}
Exhausted == {"exhaust", "exhaustFail"}

At(w) ==
  /\ pc[w] \in Following \cup {"process"} => status # "settling"
  /\ pc[w] \in Following => providerJob
  /\ pc[w] \in {"settle", "recordFailure"} \cup Charging \cup Exhausted =>
       status = "settling"
  /\ pc[w] \in Charging => valid
  /\ pc[w] \in Charging \cup {"recordFailure"} => retries < MaxRetries
  /\ pc[w] \in Exhausted => retries = MaxRetries
  /\ pc[w] = "exhaustFail" => Returned
  /\ pc[w] = "recheck" => status = "settling" \/ (Lost /\ Returned)
  /\ pc[w] = "releaseTerminal" => Lost
  /\ pc[w] = "ack" =>
       status \in {"completed", "output_deleted"} \/ (Lost /\ Returned)

Positions == \A w \in Workers : At(w)

Kept == status \in {"completed", "output_deleted"} => ~Returned

KInv == Serial /\ SubmitFacts /\ Balance /\ ReturnFacts /\ Positions /\ Kept

\* The statements on the ledger change it by what the claims say.
LEMMA ReleaseBalance ==
  ASSUME LedgerType, Balance, UNCHANGED ledger \/ ReleaseHold
  PROVE  Balance'
<1>1. frozen \in Int
  BY DEF LedgerType
<1>2. CASE UNCHANGED ledger
  BY <1>2 DEF Balance, Held, Captured, Released
<1>3. CASE /\ ~Returned /\ Held
           /\ claims' = claims \cup {"release"} /\ frozen' = frozen - 1
  <2>1. Held' /\ Captured' = Captured /\ Released' /\ ~Released
    BY <1>3 DEF Held, Captured, Released, Returned
  <2> QED
    BY <1>1, <1>3, <2>1 DEF Balance, Unit
<1>4. CASE /\ ~Returned /\ ~Held
           /\ claims' = claims \cup {"release"} /\ frozen' = frozen
  <2>1. ~Held' /\ ~Held /\ Captured' = Captured /\ ~Released' /\ ~Released
    BY <1>4 DEF Held, Captured, Released, Returned
  <2> QED
    BY <1>1, <1>4, <2>1 DEF Balance, Unit
<1> QED
  BY <1>2, <1>3, <1>4 DEF ReleaseHold, Returned, Held

\* So does the capture of a hold that was reserved.
LEMMA CaptureBalance ==
  ASSUME LedgerType, Balance, Held, CaptureHold
  PROVE  Balance'
<1>1. frozen \in Int
  BY DEF LedgerType
<1>2. CASE UNCHANGED ledger
  BY <1>2 DEF Balance, Held, Captured, Released
<1>3. CASE ~Captured /\ claims' = claims \cup {"capture"} /\ frozen' = frozen - 1
  <2>1. Held' = Held /\ Captured' /\ Released' = Released
    BY <1>3 DEF Held, Captured, Released
  <2> QED
    BY <1>1, <1>3, <2>1 DEF Balance, Unit
<1> QED
  BY <1>2, <1>3 DEF CaptureHold, Captured

\* A step of anything but a worker.
ApiStep ==
  /\ UNCHANGED <<pc, valid, retries>> /\ SubmitFacts'
  /\ lock' = lock \/ \A w \in Workers : lock = w => ~Busy(w)
  /\ providerJob => providerJob'
  /\ sub \in {"recordFailed", "hide", "done"}
       => sub' \in {"recordFailed", "hide", "done"}
  /\ cancel' = "release" => cancel = "release" \/ Lost'
  /\ recovery' = "release" => recovery = "release" \/ Lost'
  /\ \/ status' = status
     \/ status \notin {"settling", "completed", "output_deleted"} /\ Lost'
     \/ status = "completed" /\ status' = "output_deleted"
     \/ /\ sub \in {"upload", "update"} /\ status \in {"created", "uploading"}
        /\ status' \in {"uploading", "submitted"}
  /\ \/ UNCHANGED ledger
     \/ /\ sub = "reserve" /\ status' = status
        /\ claims' = claims \cup {"hold"} /\ frozen' = frozen + 1
     \/ ReleaseHold /\ status' = status /\ (Lost \/ Abandoned')

\* Such a step preserves KInv: no worker's facts about the job are disturbed.
LEMMA ApiStepKInv ==
  ASSUME IInv, KInv, ApiStep
  PROVE  KInv'
<1> USE DEF KInv
<1>1. Serial'
  BY DEF Serial, ApiStep, Busy
<1>2. SubmitFacts'
  BY DEF ApiStep
<1>3. Balance'
  <2>1. CASE UNCHANGED ledger \/ ReleaseHold
    BY <2>1, ReleaseBalance DEF IInv, TypeOK
  <2>2. CASE /\ sub = "reserve"
             /\ claims' = claims \cup {"hold"} /\ frozen' = frozen + 1
    <3>1. ~Held /\ ~Released /\ ~Captured /\ frozen \in Int
      BY <2>2 DEF SubmitFacts, Released, Held, Balance, IInv, TypeOK, LedgerType
    <3>2. Held' /\ ~Released' /\ ~Captured'
      BY <2>2, <3>1 DEF Held, Released, Captured, SubmitFacts, Returned
    <3> QED
      BY <2>2, <3>1, <3>2 DEF Balance, Unit
  <2> QED
    BY <2>1, <2>2 DEF ApiStep
<1>4. Returned => Returned'
  BY DEF ApiStep, Returned, ReleaseHold
<1>5. Returned' => Returned \/ (status' = status /\ (Lost \/ Abandoned'))
  BY DEF ApiStep, Returned
<1>6. Lost => Lost'
  BY DEF ApiStep, Lost
<1>7. ReturnFacts'
  <2>1. Returned' => \/ Lost' \/ Abandoned'
                     \/ status' = "settling" /\ retries' = MaxRetries
    BY <1>5, <1>6 DEF ApiStep, ReturnFacts, Lost, Abandoned
  <2> QED
    BY <1>6, <2>1 DEF ApiStep, ReturnFacts
<1>8. Positions'
  <2> SUFFICES ASSUME NEW w \in Workers PROVE At(w)'
    BY DEF Positions
  <2>1. At(w) /\ pc'[w] = pc[w] /\ valid' = valid /\ retries' = retries
    BY DEF Positions, ApiStep
  <2>2. status = "settling" <=> status' = "settling"
    BY DEF ApiStep, Lost
  <2>3. status \in {"completed", "output_deleted"} =>
          status' \in {"completed", "output_deleted"}
    BY DEF ApiStep
  <2>4. providerJob => providerJob'
    BY DEF ApiStep
  <2> QED
    BY <1>4, <1>6, <2>1, <2>2, <2>3, <2>4 DEF At
<1>9. Kept'
  BY <1>5 DEF Kept, ApiStep, Lost, Abandoned
<1> QED
  BY <1>1, <1>2, <1>3, <1>7, <1>8, <1>9

\* Every action of Submit, Cancel, the recovery, the provider, the clock and the
\* cleanup is an ApiStep.
LEMMA ApiSteps ==
  ASSUME IInv, KInv, Calm,
         \/ Submit \/ Resubmit \/ CancelRead \/ Cancel \/ Recovery
         \/ ProviderWorks \/ MoveDelayed \/ RecoverActive \/ LockExpires
         \/ DeleteOutputs \/ DeleteRecord
         \/ SubmitCallFails \/ CancelCallFails \/ RecoveryCallFails \/ ApiCrash
  PROVE  ApiStep
<1> USE DEF KInv, ApiStep
<1>0. /\ status \in Statuses /\ sub \in SubmitPCs
      /\ providerJob => sub \in {"enqueue", "done"}
      /\ status \in Live \cup {"completed", "output_deleted"} => providerJob
  BY DEF IInv, TypeOK, RowType, ProcessType, ProviderFacts
<1>1. sub \in {"release", "releaseOnly", "recordFailed", "recordRefused"} =>
        Lost \/ status \in {"created", "uploading"}
  BY <1>0 DEF Statuses, Terminal, Live, Lost
<1>2. CASE Submit
  <2> USE DEF SubmitStep, SubmitFrame
  <2>1. CASE SubmitReserve
    BY <2>1 DEF SubmitReserve, SubmitFacts, Held, Returned
  <2>2. CASE SubmitItems \/ SubmitProvider \/ SubmitEnqueue \/ SubmitRetryEnqueue
    BY <2>2 DEF SubmitItems, SubmitProvider, SubmitEnqueue, SubmitRetryEnqueue,
       SubmitFacts, Held, Returned
  <2>3. CASE SubmitUpload
    BY <1>0, <2>3 DEF SubmitUpload, SetStatus, CanTransition, Terminal, SubmitFacts,
       Held, Returned
  <2>4. CASE SubmitUpdate
    BY <1>0, <2>4 DEF SubmitUpdate, CanTransition, Terminal, SubmitFacts, Held,
       Returned
  <2>5. CASE SubmitRelease
    <3>1. /\ UNCHANGED <<pc, valid, retries, lock, providerJob, cancel, recovery>>
          /\ UNCHANGED status
      BY <2>5 DEF SubmitRelease
    <3>2. /\ sub \in {"release", "releaseOnly"}
          /\ sub' \in {"recordFailed", "done", "recordRefused"}
      BY <2>5 DEF SubmitRelease
    <3>3. SubmitFacts'
      <4>1. Held => Held'
        BY <2>5 DEF SubmitRelease, ReleaseHold, Held
      <4> QED
        BY <3>1, <3>2, <4>1 DEF SubmitFacts
    <3>4. \/ ReleaseHold /\ sub' \in {"recordFailed", "done"}
          \/ UNCHANGED ledger
      BY <2>5 DEF SubmitRelease
    <3> QED
      BY <1>1, <3>1, <3>2, <3>3, <3>4 DEF Lost, Abandoned
  <2>6. CASE SubmitRecordFailed
    <3>1. /\ sub \in {"recordFailed", "recordRefused"} /\ status' = "failed"
          /\ sub = "recordFailed" => sub' = "hide"
          /\ sub = "recordRefused" => sub' = "retryEnqueue"
          /\ UNCHANGED <<pc, valid, retries, lock, providerJob, cancel, recovery>>
          /\ UNCHANGED ledger
      BY <2>6 DEF SubmitRecordFailed, SetStatus
    <3>2. SubmitFacts'
      BY <3>1 DEF SubmitFacts, Held
    <3> QED
      BY <1>1, <3>1, <3>2 DEF Lost
  <2>7. CASE SubmitHide
    BY <2>7 DEF SubmitHide, SubmitFacts, Held, Returned
  <2> QED
    BY <1>2, <2>1, <2>2, <2>3, <2>4, <2>5, <2>6, <2>7 DEF Submit
<1>3. CASE Resubmit
  BY <1>3 DEF Resubmit, SubmitFrame, SubmitFacts, Held, Returned
<1>4. CASE CancelRead
  <2>1. sub # "reserve"
    BY <1>4 DEF CancelRead, Calm, SubmitFacts, Held
  <2>2. cancel' = "release" => Lost
    BY <1>4, Zenon DEF CancelRead, Lost
  <2> QED
    BY <1>4, <2>1, <2>2 DEF CancelRead, CancelFrame, SubmitFacts, Held, Lost
<1>5. CASE Cancel
  <2>1. /\ sub # "reserve"
        /\ UNCHANGED <<sub, pc, valid, retries, lock, providerJob, recovery>>
    BY <1>5 DEF Cancel, CancelProvider, CancelEnqueue, CancelTransition,
       CancelRelease, CancelFrame, SubmitFacts, SetStatus
  <2>2. Held => Held'
    BY <1>5 DEF Cancel, CancelProvider, CancelEnqueue, CancelTransition,
       CancelRelease, ReleaseHold, Held
  <2>3. SubmitFacts'
    BY <2>1, <2>2 DEF SubmitFacts
  <2>4. CASE CancelProvider \/ CancelEnqueue
    BY <2>1, <2>3, <2>4 DEF CancelProvider, CancelEnqueue
  <2>5. CASE CancelTransition
    BY <2>1, <2>3, <2>5 DEF CancelTransition, CanTransition, SetStatus, Terminal,
       Lost
  <2>6. CASE CancelRelease
    BY <2>1, <2>3, <2>6 DEF CancelRelease, ReturnFacts
  <2> QED
    BY <1>5, <2>4, <2>5, <2>6 DEF Cancel
<1>6. CASE Recovery
  <2>1. /\ sub # "reserve"
        /\ UNCHANGED <<sub, pc, valid, retries, lock, providerJob, cancel>>
    BY <1>6 DEF Recovery, RecoveryFail, RecoveryRelease, RecoveryEnqueue,
       RecoveryFrame, SubmitFacts, SetStatus, Calm
  <2>2. Held => Held'
    BY <1>6 DEF Recovery, RecoveryFail, RecoveryRelease, RecoveryEnqueue,
       ReleaseHold, Held
  <2>3. SubmitFacts'
    BY <2>1, <2>2 DEF SubmitFacts
  <2>4. CASE RecoveryFail
    BY <2>1, <2>3, <2>4 DEF RecoveryFail, Recoverable, SetStatus, Lost
  <2>5. CASE RecoveryRelease
    BY <2>1, <2>3, <2>5 DEF RecoveryRelease, ReturnFacts
  <2>6. CASE RecoveryEnqueue
    BY <2>1, <2>3, <2>6 DEF RecoveryEnqueue
  <2> QED
    BY <1>6, <2>4, <2>5, <2>6 DEF Recovery
<1>7. CASE ProviderWorks \/ MoveDelayed \/ RecoverActive \/ DeleteRecord
  <2>1. UNCHANGED <<pc, valid, retries, lock, providerJob, status, api, ledger>>
    BY <1>7 DEF ProviderWorks, MoveDelayed, RecoverActive, DeleteRecord
  <2> QED
    BY <2>1 DEF SubmitFacts, Held, Returned
<1>8. CASE LockExpires
  BY <1>8 DEF LockExpires, Expires, Calm, SubmitFacts, Held, Returned, Busy
<1>9. CASE DeleteOutputs
  BY <1>9 DEF DeleteOutputs, SetStatus, SubmitFacts, Held, Returned
<1>10. CASE SubmitCallFails
  <2>1. UNCHANGED <<pc, valid, retries, lock, providerJob, cancel, recovery>>
    BY <1>10 DEF SubmitCallFails
  <2>2. /\ sub # "done" /\ status' = status
        /\ sub' \in {"recordFailed", "hide", "done", "release", "recordRefused",
                     "retryEnqueue"}
        /\ sub' \in {"release", "recordRefused", "retryEnqueue"} => Held
        /\ sub \in {"recordFailed", "hide"} => sub' \in {"hide", "done"}
    BY <1>10 DEF SubmitCallFails, SubmitFacts
  <2>3. \/ UNCHANGED ledger
        \/ /\ sub = "reserve"
           /\ claims' = claims \cup {"hold"} /\ frozen' = frozen + 1
    BY <1>10 DEF SubmitCallFails
  <2>4. SubmitFacts'
    BY <2>1, <2>2, <2>3 DEF SubmitFacts, Held
  <2> QED
    BY <2>1, <2>2, <2>3, <2>4
<1>11. CASE CancelCallFails \/ RecoveryCallFails
  BY <1>11 DEF CancelCallFails, RecoveryCallFails, SubmitFacts, Held, Returned
<1>12. CASE ApiCrash
  BY <1>12 DEF ApiCrash, SubmitFacts, Held, Returned
<1> QED
  BY <1>2, <1>3, <1>4, <1>5, <1>6, <1>7, <1>8, <1>9, <1>10, <1>11, <1>12

Only(w) == \A v \in Workers \ {w} : pc'[v] = pc[v]

\* A step of a worker: what it does to the row and the ledger it does under the
\* lock.
WorkStep(w) ==
  /\ Only(w) /\ At(w)' /\ UNCHANGED <<sub, cancel, recovery, valid, providerJob>>
  /\ Busy(w)' => lock' = w
  /\ ~Busy(w) => /\ lock' = lock \/ lock = NoOne
                 /\ UNCHANGED <<status, retries, ledger>>
  /\ retries = MaxRetries => retries' = MaxRetries
  /\ status' # status => providerJob
  /\ \/ status' = status
     \/ /\ CanTransition(status, status') /\ UNCHANGED ledger
        /\ status' \in {"running", "indexing", "settling", "failed", "cancelled"}
     \/ /\ pc[w] = "markSettled" /\ status' = "completed" /\ UNCHANGED ledger
  /\ \/ UNCHANGED ledger
     \/ /\ ReleaseHold /\ UNCHANGED <<status, retries>>
        /\ Lost \/ (status = "settling" /\ retries = MaxRetries)
     \/ /\ CaptureHold /\ UNCHANGED <<status, retries>>
        /\ status = "settling" /\ retries < MaxRetries

\* Such a step preserves KInv: nobody else works under the lock.
LEMMA WorkStepKInv ==
  ASSUME IInv, KInv, NEW w \in Workers, WorkStep(w)
  PROVE  KInv'
<1> USE DEF KInv
<1>0. /\ retries \in 0..MaxRetries /\ MaxRetries \in Nat /\ status \in Statuses
      /\ status = "settling" => Held
  BY BoundsAssumption DEF IInv, TypeOK, RowType, ProviderFacts, Live, SubmitFacts
<1>1. Busy(w) => \A v \in Workers \ {w} : ~Busy(v)
  BY DEF Serial
<1>2. Serial'
  BY <1>1, NoOneAssumption DEF Serial, WorkStep, Only, Busy
<1>3. Balance'
  BY <1>0, ReleaseBalance, CaptureBalance DEF WorkStep, IInv, TypeOK
<1>4. /\ Held => Held'
      /\ Returned => Returned'
      /\ Returned' => \/ Returned
                      \/ /\ UNCHANGED <<status, retries>>
                         /\ Lost \/ (status = "settling" /\ retries = MaxRetries)
  BY DEF WorkStep, ReleaseHold, CaptureHold, Held, Returned
<1>5. SubmitFacts'
  <2>1. sub = "reserve" => ~Held' /\ ~Returned' /\ status' = "created"
    <3>1. sub = "reserve" => ~providerJob
      BY DEF IInv, ProviderFacts
    <3>2. sub = "reserve" => UNCHANGED ledger
      BY DEF WorkStep, SubmitFacts, Lost
    <3> QED
      BY <3>1, <3>2 DEF WorkStep, SubmitFacts, Held, Returned
  <2> QED
    BY <1>4, <2>1 DEF WorkStep, SubmitFacts
<1>6. Lost => Lost'
  BY DEF WorkStep, Lost, CanTransition, Terminal, Positions, At, Charging
<1>7. ReturnFacts'
  <2>1. ASSUME Returned
        PROVE  \/ Lost' \/ Abandoned'
               \/ status' = "settling" /\ retries' = MaxRetries
    <3>1. CASE Lost
      BY <1>6, <3>1
    <3>2. CASE Abandoned
      BY <3>2 DEF WorkStep, Abandoned, CanTransition, Terminal, Lost, Positions,
         At, Charging
    <3>3. CASE status = "settling" /\ retries = MaxRetries
      <4>1. pc[w] # "markSettled"
        BY <1>0, <3>3 DEF Positions, At, Charging
      <4> QED
        BY <3>3, <4>1 DEF WorkStep, CanTransition, Terminal, Lost
    <3> QED
      BY <2>1, <3>1, <3>2, <3>3 DEF ReturnFacts
  <2> QED
    BY <1>4, <1>6, <2>1 DEF ReturnFacts, WorkStep, Lost, Abandoned
<1>8. Positions'
  <2> SUFFICES ASSUME NEW v \in Workers, v # w PROVE At(v)'
    BY DEF Positions, WorkStep
  <2>1. pc'[v] = pc[v]
    BY DEF WorkStep, Only
  <2>2. CASE Busy(w)
    BY <1>1, <2>1, <2>2 DEF At, Busy, Following, Charging, Exhausted
  <2>3. CASE ~Busy(w)
    BY <2>1, <2>3 DEF WorkStep, Positions, At, Lost, Returned
  <2> QED
    BY <2>2, <2>3
<1>9. Kept'
  <2>1. CASE status' = status
    BY <1>4, <2>1 DEF Kept, Lost
  <2>2. CASE pc[w] = "markSettled" /\ UNCHANGED ledger
    <3>1. status = "settling" /\ retries # MaxRetries
      BY <1>0, <2>2 DEF Positions, At, Charging
    <3> QED
      BY <2>2, <3>1 DEF ReturnFacts, Lost, Abandoned, Kept, Returned
  <2> QED
    BY <2>1, <2>2 DEF WorkStep, Kept
<1> QED
  BY <1>2, <1>3, <1>5, <1>7, <1>8, <1>9

\* A worker goes on alone.
LEMMA GotoFacts ==
  ASSUME pc \in [Workers -> WorkerPCs], NEW w \in Workers, NEW l, Goto(w, l)
  PROVE  Only(w) /\ pc'[w] = l
  BY DEF Goto, Only

\* It leaves one position for another.
LEMMA StepFacts ==
  ASSUME pc \in [Workers -> WorkerPCs], NEW w \in Workers, NEW from, NEW l,
         Step(w, from, l)
  PROVE  Only(w) /\ pc[w] = from /\ pc'[w] = l
  BY DEF Step, Goto, Only

\* Steps that leave the row and the ledger alone.
LEMMA QuietWork ==
  ASSUME KInv, NEW w \in Workers, Only(w), At(w)',
         UNCHANGED <<sub, cancel, recovery, valid, providerJob, status, retries,
                     ledger>>,
         Busy(w)' => lock' = w, ~Busy(w) => lock' = lock \/ lock = NoOne
  PROVE  WorkStep(w)
  BY DEF WorkStep

\* The worker takes the lock, and what it has read then holds until it is done.
LEMMA ReadSteps ==
  ASSUME IInv, KInv, NEW w \in Workers,
         \/ WorkerReserve(w) \/ WorkerLock(w) \/ WorkerRead(w) \/ WorkerProcess(w)
         \/ WorkerGet(w) \/ WorkerIndex(w) \/ WorkerSettle(w) \/ WorkerRecheck(w)
         \/ WorkerRequeue(w) \/ WorkerAck(w) \/ WorkerUnlock(w)
  PROVE  WorkStep(w)
<1> USE DEF KInv, At, Following, Charging, Exhausted, Busy
<1>0. /\ pc \in [Workers -> WorkerPCs] /\ status \in Statuses
      /\ retries \in 0..MaxRetries /\ MaxRetries \in Nat
  BY BoundsAssumption DEF IInv, TypeOK, ProcessType, RowType
<1>1. UNCHANGED <<sub, cancel, recovery, valid, providerJob, status, retries,
                  ledger>>
  BY DEF WorkerReserve, WorkerLock, WorkerRead, WorkerProcess, WorkerGet,
     WorkerIndex, WorkerSettle, WorkerRecheck, WorkerRequeue, WorkerAck,
     WorkerUnlock, WorkerFrame
<1>2. At(w) /\ (Busy(w) => lock = w)
  BY DEF Positions, Serial
<1>3. CASE WorkerReserve(w) \/ WorkerLock(w) \/ WorkerUnlock(w)
  <2>1. /\ Only(w) /\ pc'[w] \in {"idle", "lock", "read"}
        /\ pc'[w] = "read" => lock' = w
        /\ ~Busy(w) => lock' = lock \/ lock = NoOne
    BY <1>0, <1>3, StepFacts DEF WorkerReserve, WorkerLock, WorkerUnlock,
       AcquireJobLock
  <2>2. At(w)'
    BY <2>1
  <2> QED
    BY <1>1, <2>1, <2>2, QuietWork
<1>4. ASSUME UNCHANGED lock, Only(w), At(w)', Busy(w)
      PROVE  WorkStep(w)
  BY <1>1, <1>2, <1>4, QuietWork
<1>5. CASE WorkerRead(w)
  <2>1. /\ Only(w) /\ pc[w] = "read" /\ UNCHANGED lock
        /\ pc'[w] = IF status = "settling" THEN "settle" ELSE "process"
    BY <1>0, <1>5, StepFacts DEF WorkerRead
  <2>2. At(w)'
    BY <1>1, <2>1
  <2> QED
    BY <1>4, <2>1, <2>2
<1>6. CASE WorkerProcess(w)
  <2>1. /\ Only(w) /\ pc[w] = "process" /\ UNCHANGED lock
        /\ pc'[w] = IF Lost THEN "releaseTerminal"
                    ELSE IF status \in Terminal \cup {"settling"} THEN "ack"
                    ELSE IF ~providerJob THEN "requeue"
                    ELSE IF status = "indexing" THEN "index"
                    ELSE "get"
    BY <1>0, <1>6, StepFacts DEF WorkerProcess, Lost
  <2>2. \/ pc'[w] = "releaseTerminal" /\ Lost
        \/ pc'[w] = "ack" /\ status \in {"settling", "completed", "output_deleted"}
        \/ pc'[w] = "requeue"
        \/ pc'[w] \in {"index", "get"} /\ providerJob
    BY <2>1 DEF Terminal, Lost
  <2>3. status # "settling"
    BY <1>2, <2>1
  <2>4. At(w)'
    BY <1>1, <2>2, <2>3 DEF Lost
  <2> QED
    BY <1>4, <2>1, <2>4
<1>7. CASE WorkerGet(w)
  <2>1. /\ Only(w) /\ pc[w] = "get" /\ UNCHANGED lock
        /\ pc'[w] = CASE prov = "succeeded" -> "toIndexing"
                      [] prov = "failed"    -> "toFailed"
                      [] prov = "cancelled" -> "toCancelled"
                      [] prov = "queued"    -> "requeue"
                      [] OTHER              -> "toRunning"
    BY <1>0, <1>7, StepFacts DEF WorkerGet
  <2>2. pc'[w] \in {"toIndexing", "toFailed", "toCancelled", "requeue", "toRunning"}
    BY <2>1, Zenon
  <2>3. At(w)'
    BY <1>1, <1>2, <2>1, <2>2
  <2> QED
    BY <1>4, <2>1, <2>3
<1>8. CASE WorkerIndex(w)
  <2>1. /\ Only(w) /\ pc[w] = "index" /\ UNCHANGED lock
        /\ pc'[w] \in {"indexFailed", "toSettling", "requeue"}
    BY <1>0, <1>8, StepFacts DEF WorkerIndex
  <2>2. At(w)'
    BY <1>1, <1>2, <2>1
  <2> QED
    BY <1>4, <2>1, <2>2
<1>9. CASE WorkerSettle(w)
  <2>1. /\ Only(w) /\ pc[w] = "settle" /\ UNCHANGED lock
        /\ pc'[w] = IF status = "completed" THEN "ack"
                    ELSE IF status # "settling" THEN "requeue"
                    ELSE IF retries = MaxRetries THEN "exhaust"
                    ELSE IF ~valid THEN "recordFailure"
                    ELSE "capture"
    BY <1>0, <1>9, StepFacts DEF WorkerSettle
  <2>2. status = "settling"
    BY <1>2, <2>1
  <2>3. \/ pc'[w] = "exhaust" /\ retries = MaxRetries
        \/ pc'[w] = "recordFailure" /\ retries # MaxRetries
        \/ pc'[w] = "capture" /\ retries # MaxRetries /\ valid
    BY <2>1, <2>2
  <2>4. At(w)'
    BY <1>0, <1>1, <2>2, <2>3
  <2> QED
    BY <1>4, <2>1, <2>4
<1>10. CASE WorkerRecheck(w)
  <2>1. /\ Only(w) /\ pc[w] = "recheck" /\ UNCHANGED lock
        /\ pc'[w] = IF status \in Terminal THEN "ack" ELSE "requeue"
    BY <1>0, <1>10, StepFacts DEF WorkerRecheck
  <2>2. At(w)'
    BY <1>1, <1>2, <2>1 DEF Terminal, Lost, Returned
  <2> QED
    BY <1>4, <2>1, <2>2
<1>11. CASE WorkerRequeue(w) \/ WorkerAck(w)
  <2>1. /\ Only(w) /\ pc[w] \in {"requeue", "ack"} /\ pc'[w] = "unlock"
        /\ UNCHANGED lock
    BY <1>0, <1>11, StepFacts DEF WorkerRequeue, WorkerAck
  <2>2. At(w)'
    BY <2>1
  <2> QED
    BY <1>4, <2>1, <2>2
<1> QED
  BY <1>3, <1>5, <1>6, <1>7, <1>8, <1>9, <1>10, <1>11

\* A transition of the row by the worker that holds the lock.
LEMMA TransitionSteps ==
  ASSUME IInv, KInv, NEW w \in Workers, WorkerTransition(w)
  PROVE  WorkStep(w)
<1>0. /\ pc \in [Workers -> WorkerPCs] /\ At(w) /\ (Busy(w) => lock = w)
      /\ status = "settling" => providerJob
  BY DEF IInv, TypeOK, ProcessType, KInv, Positions, Serial, ProviderFacts, Live
<1>1. PICK from \in Following \cup {"exhaustFail"},
           s \in {"running", "indexing", "settling", "failed", "cancelled"},
           to \in {"requeue", "index", "releaseTerminal", "recheck"} :
        /\ Transition(w, from, s, to)
        /\ to = "index" => s = "indexing"
        /\ to \in {"releaseTerminal", "recheck"} => s = "failed" \/ s = "cancelled"
        /\ to = "recheck" => from = "exhaustFail"
  BY DEF WorkerTransition, Following
<1>2. /\ UNCHANGED <<lock, ledger, sub, cancel, recovery, valid, providerJob,
                     retries>>
      /\ Only(w) /\ pc[w] = from
      /\ \/ CanTransition(status, s) /\ status' = s /\ pc'[w] = to
         \/ status' = status /\ pc'[w] = "requeue"
  BY <1>0, <1>1, StepFacts DEF Transition, SetStatus, WorkerFrame
<1>3. providerJob /\ lock = w /\ Busy(w)
  BY <1>0, <1>2 DEF At, Following, Exhausted, Busy
<1>4. from = "exhaustFail" => Returned /\ Returned'
  BY <1>0, <1>2 DEF At, Returned
<1>5. At(w)'
  BY <1>1, <1>2, <1>3, <1>4 DEF At, Following, Charging, Exhausted, Lost
<1> QED
  BY <1>2, <1>3, <1>5 DEF WorkStep

\* The counter stays at its limit.
LEMMA CountAtLimit == CountRetry /\ retries = MaxRetries => retries' = MaxRetries
<1>1. ~(MaxRetries < MaxRetries)
  BY BoundsAssumption
<1> QED
  BY <1>1, Zenon DEF CountRetry

\* The steps that settle the job or give its hold back.
LEMMA SettleSteps ==
  ASSUME IInv, KInv, NEW w \in Workers,
         \/ WorkerReleaseTerminal(w) \/ WorkerCapture(w) \/ WorkerMarkSettled(w)
         \/ WorkerRecordFailure(w) \/ WorkerExhaust(w)
  PROVE  WorkStep(w)
<1> USE DEF KInv
<1>0. /\ pc \in [Workers -> WorkerPCs] /\ At(w) /\ (Busy(w) => lock = w)
      /\ status = "settling" => providerJob
      /\ retries \in 0..MaxRetries /\ MaxRetries \in Nat
  BY BoundsAssumption DEF IInv, TypeOK, ProcessType, RowType, Positions, Serial,
     ProviderFacts, Live
<1>1. UNCHANGED <<lock, sub, cancel, recovery, valid, providerJob>>
  BY DEF WorkerReleaseTerminal, WorkerCapture, WorkerMarkSettled,
     WorkerRecordFailure, WorkerExhaust, WorkerFrame, SetStatus, CountRetry
<1>2. CASE WorkerReleaseTerminal(w)
  <2>1. /\ Only(w) /\ pc[w] = "releaseTerminal" /\ UNCHANGED <<status, retries>>
        /\ \/ ReleaseHold /\ pc'[w] = "ack"
           \/ UNCHANGED ledger /\ pc'[w] = "requeue"
    BY <1>0, <1>2, StepFacts DEF WorkerReleaseTerminal
  <2>2. Lost /\ lock = w /\ Busy(w)
    BY <1>0, <2>1 DEF At, Busy
  <2>3. ReleaseHold => Returned'
    BY DEF ReleaseHold, Returned
  <2>4. At(w)'
    BY <2>1, <2>2, <2>3 DEF At, Following, Charging, Exhausted, Lost
  <2> QED
    BY <1>1, <2>1, <2>2, <2>4 DEF WorkStep
<1>3. CASE WorkerCapture(w)
  <2>1. /\ Only(w) /\ pc[w] = "capture" /\ UNCHANGED <<status, retries>>
        /\ \/ CaptureHold /\ pc'[w] = "markSettled"
           \/ UNCHANGED ledger /\ pc'[w] = "recordFailure"
    BY <1>0, <1>3, StepFacts DEF WorkerCapture
  <2>2. /\ status = "settling" /\ retries < MaxRetries /\ lock = w /\ Busy(w)
        /\ valid
    BY <1>0, <2>1 DEF At, Busy, Charging
  <2>3. At(w)'
    BY <1>1, <2>1, <2>2 DEF At, Following, Charging, Exhausted
  <2> QED
    BY <1>1, <2>1, <2>2, <2>3 DEF WorkStep
<1>4. CASE WorkerMarkSettled(w)
  <2>1. /\ Only(w) /\ pc[w] = "markSettled" /\ UNCHANGED <<retries, ledger>>
        /\ \/ status' = "completed" /\ pc'[w] = "ack"
           \/ status' = status /\ pc'[w] = "requeue"
    BY <1>0, <1>4, StepFacts DEF WorkerMarkSettled, SetStatus
  <2>2. providerJob /\ lock = w /\ Busy(w)
    BY <1>0, <2>1 DEF At, Busy, Charging
  <2>3. At(w)'
    BY <2>1 DEF At, Following, Charging, Exhausted
  <2> QED
    BY <1>1, <2>1, <2>2, <2>3 DEF WorkStep
<1>5. CASE WorkerRecordFailure(w)
  <2>1. /\ Only(w) /\ pc[w] = "recordFailure" /\ UNCHANGED <<status, ledger>>
        /\ \/ pc'[w] = "exhaust" /\ retries' = MaxRetries
           \/ pc'[w] \in {"recheck", "requeue"}
    BY <1>0, <1>5, StepFacts DEF WorkerRecordFailure, CountRetry
  <2>2. status = "settling" /\ lock = w /\ Busy(w)
    BY <1>0, <2>1 DEF At, Busy
  <2>3. retries = MaxRetries => retries' = MaxRetries
    BY <1>5, CountAtLimit DEF WorkerRecordFailure
  <2>4. At(w)'
    BY <2>1, <2>2 DEF At, Following, Charging, Exhausted
  <2> QED
    BY <1>1, <2>1, <2>2, <2>3, <2>4 DEF WorkStep
<1>6. CASE WorkerExhaust(w)
  <2>1. /\ Only(w) /\ pc[w] = "exhaust" /\ status' = status
        /\ \/ ReleaseHold /\ pc'[w] = "exhaustFail" /\ UNCHANGED retries
           \/ UNCHANGED ledger /\ pc'[w] = "recheck" /\ CountRetry
    BY <1>0, <1>6, StepFacts DEF WorkerExhaust, CountRetry
  <2>2. /\ status = "settling" /\ retries = MaxRetries /\ lock = w /\ Busy(w)
    BY <1>0, <2>1 DEF At, Busy, Exhausted
  <2>3. retries' = MaxRetries
    BY <2>1, <2>2, CountAtLimit
  <2>4. ReleaseHold => Returned'
    BY DEF ReleaseHold, Returned
  <2>5. At(w)'
    BY <2>1, <2>2, <2>3, <2>4 DEF At, Following, Charging, Exhausted
  <2> QED
    BY <1>1, <2>1, <2>2, <2>3, <2>5 DEF WorkStep
<1> QED
  BY <1>2, <1>3, <1>4, <1>5, <1>6

\* A worker that dies or whose call fails: the capture may have been committed.
LEMMA FailureSteps ==
  ASSUME IInv, KInv, NEW w \in Workers,
         WorkerCrash(w) \/ WorkerCallFails(w) \/ WorkerLockFails(w)
  PROVE  WorkStep(w)
<1> USE DEF KInv
<1>0. /\ pc \in [Workers -> WorkerPCs] /\ At(w) /\ (Busy(w) => lock = w)
  BY DEF IInv, TypeOK, ProcessType, Positions, Serial
<1>1. UNCHANGED <<lock, sub, cancel, recovery, valid, providerJob, status,
                  retries>>
  BY DEF WorkerCrash, WorkerCallFails, WorkerLockFails
<1>2. CASE WorkerCrash(w) \/ WorkerLockFails(w)
  <2>1. Only(w) /\ pc'[w] = "idle" /\ UNCHANGED ledger
    BY <1>0, <1>2, StepFacts, GotoFacts DEF WorkerCrash, WorkerLockFails
  <2>2. At(w)' /\ ~Busy(w)'
    BY <2>1 DEF At, Following, Charging, Exhausted, Busy
  <2> QED
    BY <1>1, <2>1, <2>2, QuietWork
<1>3. CASE WorkerCallFails(w)
  <2>1. /\ Only(w) /\ Busy(w)
        /\ \/ pc'[w] \in {"requeue", "unlock", "idle"} /\ UNCHANGED ledger
           \/ /\ pc[w] \in {"recordFailure", "exhaust"} /\ UNCHANGED ledger
              /\ pc'[w] \in {"requeue", "recheck"}
           \/ /\ pc[w] = "capture" /\ pc'[w] = "recordFailure"
              /\ UNCHANGED ledger \/ CaptureHold
    BY <1>0, <1>3, StepFacts, GotoFacts DEF WorkerCallFails, Busy
  <2>2. /\ lock = w
        /\ pc[w] \in {"recordFailure", "exhaust", "capture"} => status = "settling"
        /\ pc[w] = "capture" => retries < MaxRetries
    BY <1>0, <2>1 DEF At, Charging, Exhausted
  <2>3. At(w)'
    BY <1>1, <2>1, <2>2 DEF At, Following, Charging, Exhausted
  <2> QED
    BY <1>1, <2>1, <2>2, <2>3 DEF WorkStep
<1> QED
  BY <1>2, <1>3

-----------------------------------------------------------------------------
\* KInv holds of a job that was just created.
LEMMA InitKInv == Init => KInv
<1> SUFFICES ASSUME Init PROVE KInv
  OBVIOUS
<1>1. \A w \in Workers : pc[w] = "idle"
  BY DEF Init
<1>2. Serial /\ Positions
  BY <1>1 DEF Serial, Positions, At, Busy, Following, Charging, Exhausted
<1>3. ~Held /\ ~Captured /\ ~Released /\ ~Returned
  BY DEF Init, Held, Captured, Released, Returned
<1>4. Balance
  BY <1>3 DEF Init, Balance, Unit
<1>5. SubmitFacts /\ ReturnFacts /\ Kept
  BY <1>3 DEF Init, SubmitFacts, ReturnFacts, Kept
<1> QED
  BY <1>2, <1>4, <1>5 DEF KInv

\* Every step preserves KInv in a calm environment.
LEMMA NextKInv ==
  ASSUME Calm, IInv, KInv, [Next]_vars
  PROVE  KInv'
<1>1. CASE UNCHANGED vars
  <2>1. UNCHANGED <<lock, status, providerJob, retries, claims, frozen, valid,
                    sub, cancel, recovery, pc>>
    BY <1>1 DEF vars
  <2>2. Serial' /\ SubmitFacts' /\ Balance'
    BY <2>1 DEF KInv, Serial, Busy, SubmitFacts, Balance, Held, Returned,
       Captured, Released
  <2>3. ReturnFacts' /\ Kept'
    BY <2>1 DEF KInv, ReturnFacts, Kept, Lost, Abandoned, Returned
  <2>4. Positions'
    BY <2>1 DEF KInv, Positions, At, Lost, Returned
  <2> QED
    BY <2>2, <2>3, <2>4 DEF KInv
<1>2. CASE \E w \in Workers : Work(w) \/ WorkerCrash(w) \/ WorkerCallFails(w)
                              \/ WorkerLockFails(w)
  BY <1>2, ReadSteps, TransitionSteps, SettleSteps, FailureSteps, WorkStepKInv
     DEF Work
<1>3. CASE \/ Submit \/ Resubmit \/ CancelRead \/ Cancel \/ Recovery
           \/ ProviderWorks \/ MoveDelayed \/ RecoverActive \/ LockExpires
           \/ DeleteOutputs \/ DeleteRecord
           \/ SubmitCallFails \/ CancelCallFails \/ RecoveryCallFails
           \/ ApiCrash
  BY <1>3, ApiSteps, ApiStepKInv
<1> QED
  BY <1>1, <1>2, <1>3 DEF Next

\* KInv is an invariant of a calm environment.
THEOREM HoldInvariant == Calm /\ Spec => []KInv
<1> SUFFICES ASSUME Calm PROVE Spec => []KInv
  OBVIOUS
<1>1. IInv /\ KInv /\ [Next]_vars => KInv'
  BY NextKInv
<1> QED
  BY <1>1, InitKInv, IInvHolds, PTL DEF Spec


\* In a calm environment, whatever crashes, fails or is retried and with any
\* number of workers, a completed job was paid for out of its own hold: Kept
\* says that nothing of it was given back, Balance that all of it was charged.
THEOREM CompletedPaid == Calm /\ Spec => []CompletedIsPaid
<1>1. ASSUME IInv, KInv PROVE CompletedIsPaid
  <2> SUFFICES ASSUME status \in {"completed", "output_deleted"}
               PROVE  Captured /\ ~Released /\ frozen = 0
    BY DEF CompletedIsPaid
  <2>1. Captured
    BY <1>1 DEF IInv, ChargeFacts, CompletedIsCharged
  <2>2. Held /\ ~Released
    BY <1>1, <2>1 DEF KInv, Kept, Returned, Released, Balance
  <2>3. frozen = Unit(Held) - Unit(Captured) - Unit(Released)
    BY <1>1 DEF KInv, Balance
  <2>4. Unit(Held) = 1 /\ Unit(Captured) = 1 /\ Unit(Released) = 0
    BY <2>1, <2>2, Zenon DEF Unit
  <2>5. frozen = 0
    BY <2>3, <2>4
  <2> QED
    BY <2>1, <2>2, <2>5
<1>2. IInv /\ KInv => CompletedIsPaid
  BY <1>1
<1> QED
  BY <1>2, IInvHolds, HoldInvariant, PTL

\* In a calm environment a job leaves the queue only when it is over and its
\* hold was charged or given back: only a worker's Ack takes it out, and At
\* says what that worker has seen, which nobody undoes under its lock.
THEOREM LeavesSettled == Calm /\ Spec => OnlySettledLeaves
<1>1. ASSUME IInv, KInv, [Next]_vars, inflight, ~inflight'
      PROVE  status \in Terminal /\ frozen <= 0
  <2>1. PICK w \in Workers : pc[w] = "ack"
    BY <1>1, QueueSteps, Zenon DEF QueueStep, Enqueue, Reserve, RequeueAfter,
       MoveDueDelayedToReady, RecoverStaleActive
  <2>2. \/ status \in {"completed", "output_deleted"} /\ Captured
        \/ Lost /\ Returned
    BY <1>1, <2>1 DEF KInv, Positions, At, IInv, ChargeFacts,
       CompletedIsCharged
  <2>3. status \in Terminal
    BY <2>2 DEF Terminal, Lost
  <2>4. frozen = Unit(Held) - Unit(Captured) - Unit(Released)
    BY <1>1 DEF KInv, Balance
  <2>5. \/ Captured
        \/ ~Held
        \/ Released
    BY <2>2 DEF Held, Returned, Released
  <2> QED
    BY <2>3, <2>4, <2>5 DEF Unit
<1>2. IInv /\ KInv /\ [Next]_vars =>
        [inflight /\ ~inflight' => status \in Terminal /\ frozen <= 0]_vars
  BY <1>1
<1> QED
  BY <1>2, IInvHolds, HoldInvariant, PTL DEF Spec, OnlySettledLeaves


-----------------------------------------------------------------------------
(* What a failure costs *)

\* Moreover an error of a ledger call means that the call did nothing.
Steady == Calm /\ "ackLost" \notin Env

\* Every retry of a job that can be charged was paid for with a failure, one
\* more when the job is already charged: its worker failed to mark it.
Charged == \E w \in Workers : pc[w] = "markSettled"

Cost ==
  /\ ~valid => ~Captured
  /\ valid => retries <= faults
  /\ \A w \in Workers : pc[w] = "recordFailure" /\ valid =>
       /\ retries + 1 <= faults
       /\ Captured => retries + 2 <= faults
  /\ Captured /\ status = "settling" => retries + 1 <= faults \/ Charged
  /\ Captured => \/ status = "settling" /\ ~Returned
                 \/ status \in {"completed", "output_deleted"}
                 \/ faults > MaxRetries

\* A step of anything but a worker charges nothing.
LEMMA ApiStepCost ==
  ASSUME IInv, KInv, Cost, ApiStep, faults' \in Nat, faults' >= faults
  PROVE  Cost'
<1>1. /\ UNCHANGED <<valid, retries, pc>>
      /\ retries \in Nat /\ faults \in Nat /\ MaxRetries \in Nat
  BY BoundsAssumption DEF ApiStep, IInv, TypeOK, RowType, ProcessType
<1>2. Captured' = Captured /\ Charged' = Charged
  BY <1>1 DEF ApiStep, ReleaseHold, Captured, Charged
<1>3. status' = "settling" => status = "settling"
  BY DEF ApiStep, Lost
<1>4. Captured' => \/ status' = "settling" /\ ~Returned'
                   \/ status' \in {"completed", "output_deleted"}
                   \/ faults' > MaxRetries
  <2>1. CASE faults > MaxRetries
    BY <1>1, <2>1
  <2>2. CASE Captured /\ status = "settling" /\ ~Returned
    BY <2>2 DEF ApiStep, Returned, Lost, Abandoned
  <2>3. CASE status \in {"completed", "output_deleted"}
    BY <2>3 DEF ApiStep
  <2> QED
    BY <1>2, <2>1, <2>2, <2>3 DEF Cost
<1>5. (~valid => ~Captured)'
  BY <1>1, <1>2 DEF Cost
<1>6. (valid => retries <= faults)'
  BY <1>1 DEF Cost
<1>7. ASSUME NEW w \in Workers, pc'[w] = "recordFailure", valid'
      PROVE  /\ retries' + 1 <= faults'
             /\ Captured' => retries' + 2 <= faults'
  BY <1>1, <1>2, <1>7 DEF Cost
<1>8. Captured' /\ status' = "settling" => retries' + 1 <= faults' \/ Charged'
  BY <1>1, <1>2, <1>3 DEF Cost
<1> QED
  BY <1>4, <1>5, <1>6, <1>7, <1>8 DEF Cost

\* What a worker's step costs.
CostStep(w) ==
  /\ \/ retries' = retries
     \/ /\ pc[w] = "recordFailure" /\ retries' = retries + 1
        /\ UNCHANGED <<status, ledger>>
  /\ pc'[w] = "recordFailure" =>
       \/ ~valid
       \/ /\ pc[w] = "capture" /\ UNCHANGED <<retries, status, ledger>>
          /\ faults' = faults + 1
  /\ Captured' => Captured \/ (pc[w] = "capture" /\ pc'[w] = "markSettled")
  /\ pc[w] = "markSettled" => status' = "completed" \/ faults' = faults + 1
  /\ status' # status => \/ pc[w] \in Following \cup {"exhaustFail"}
                         \/ pc[w] = "markSettled" /\ status' = "completed"

\* Such a step keeps the account of failures.
LEMMA CostStepCost ==
  ASSUME IInv, KInv, Cost, NEW w \in Workers, WorkStep(w), CostStep(w),
         faults' \in Nat, faults' >= faults, retries' \in 0..MaxRetries
  PROVE  Cost'
<1>0. /\ retries \in 0..MaxRetries /\ retries \in Nat /\ retries' \in Nat
      /\ faults \in Nat /\ MaxRetries \in Nat
      /\ valid' = valid /\ (Captured => Captured')
  BY BoundsAssumption DEF IInv, TypeOK, RowType, ProcessType, WorkStep,
     ReleaseHold, CaptureHold, Captured
<1>1. At(w) /\ Only(w) /\ (Busy(w) => \A v \in Workers \ {w} : ~Busy(v))
  BY DEF KInv, Positions, WorkStep, Serial
<1>2. Captured' => Captured \/ (valid /\ status = "settling")
  BY <1>1 DEF CostStep, At, Charging
<1>3. (~valid => ~Captured)'
  BY <1>0, <1>2 DEF Cost
<1>4. (valid => retries <= faults)'
  BY <1>0 DEF Cost, CostStep
<1>5. ASSUME NEW v \in Workers, pc'[v] = "recordFailure", valid'
      PROVE  /\ retries' + 1 <= faults'
             /\ Captured' => retries' + 2 <= faults'
  <2>1. CASE v = w
    <3>1. /\ pc[w] = "capture" /\ retries' = retries /\ faults' = faults + 1
          /\ Captured' => Captured
      BY <1>0, <1>5, <2>1 DEF CostStep
    <3>2. status = "settling"
      BY <1>1, <3>1 DEF At, Charging
    <3>3. ~Charged
      BY <1>1, <3>1 DEF Charged, Busy
    <3>4. retries <= faults /\ (Captured => retries + 1 <= faults)
      BY <1>0, <1>5, <3>2, <3>3 DEF Cost
    <3> QED
      BY <1>0, <3>1, <3>4
  <2>2. CASE v # w
    <3>1. pc[v] = "recordFailure"
      BY <1>1, <1>5, <2>2 DEF Only
    <3>2. UNCHANGED <<retries, ledger>>
      BY <1>1, <2>2, <3>1 DEF WorkStep, Busy
    <3>3. Captured' = Captured
      BY <3>2 DEF Captured
    <3> QED
      BY <1>0, <1>5, <3>1, <3>2, <3>3 DEF Cost
  <2> QED
    BY <2>1, <2>2
<1>6. ASSUME Captured', status' = "settling"
      PROVE  retries' + 1 <= faults' \/ Charged'
  <2>1. CASE ~Captured
    BY <1>6, <2>1 DEF CostStep, Charged
  <2>2. CASE Captured /\ status = "settling" /\ retries + 1 <= faults
    <3>1. CASE retries' = retries
      BY <1>0, <2>2, <3>1
    <3>2. CASE pc[w] = "recordFailure" /\ retries' = retries + 1
      <4>1. valid
        BY <2>2 DEF Cost
      <4> QED
        BY <1>0, <2>2, <3>2, <4>1 DEF Cost
    <3> QED
      BY <3>1, <3>2 DEF CostStep
  <2>3. CASE Captured /\ status = "settling" /\ Charged
    <3>1. PICK v \in Workers : pc[v] = "markSettled"
      BY <2>3 DEF Charged
    <3>2. CASE v = w
      <4>1. retries' = retries /\ faults' = faults + 1
        BY <1>6, <3>1, <3>2 DEF CostStep
      <4>2. retries <= faults
        BY <2>3 DEF Cost
      <4> QED
        BY <1>0, <4>1, <4>2
    <3>3. CASE v # w
      BY <1>1, <3>1, <3>3 DEF Only, Charged
    <3> QED
      BY <3>2, <3>3
  <2>4. CASE Captured /\ status # "settling"
    <3>1. status \notin {"completed", "output_deleted"}
      BY <1>6, <2>4 DEF WorkStep, CanTransition, Terminal
    <3>2. faults > MaxRetries
      BY <2>4, <3>1 DEF Cost
    <3>3. faults \in Nat /\ MaxRetries \in Nat /\ retries' \in Nat
      BY <1>0
    <3>4. retries' + 1 <= faults'
      <4>1. retries' <= MaxRetries
        BY <3>3
      <4>2. faults' > MaxRetries
        BY <3>2, <3>3
      <4>3. \A i, j, k \in Nat : i <= j /\ k > j => i + 1 <= k
        OBVIOUS
      <4> QED
        BY <3>3, <4>1, <4>2, <4>3
    <3> QED
      BY <3>4
  <2> QED
    BY <2>1, <2>2, <2>3, <2>4 DEF Cost
<1>7. ASSUME Captured', ~(faults' > MaxRetries)
      PROVE  \/ status' = "settling" /\ ~Returned'
             \/ status' \in {"completed", "output_deleted"}
  <2>1. ~(faults > MaxRetries)
    BY <1>0, <1>7
  <2>2. CASE ~Captured
    <3>1. pc[w] = "capture"
      BY <1>7, <2>2 DEF CostStep
    <3>2. status = "settling" /\ retries < MaxRetries
      BY <1>1, <3>1 DEF At, Charging
    <3>3. ~Returned /\ status' = status
      BY <1>0, <3>1, <3>2 DEF KInv, ReturnFacts, Lost, Abandoned, CostStep,
         Following
    <3>4. ~Returned'
      BY <1>0, <3>2, <3>3 DEF WorkStep, CaptureHold, Returned, Lost
    <3> QED
      BY <3>2, <3>3, <3>4
  <2>3. CASE Captured /\ status = "settling" /\ ~Returned
    <3>1. retries # MaxRetries
      <4> SUFFICES ASSUME retries = MaxRetries PROVE FALSE
        OBVIOUS
      <4>1. ~Charged
        BY <1>0 DEF Charged, KInv, Positions, At, Charging
      <4> QED
        BY <1>0, <2>1, <2>3, <4>1 DEF Cost
    <3>2. ~Returned'
      BY <2>3, <3>1 DEF WorkStep, ReleaseHold, CaptureHold, Returned, Lost
    <3>3. status' # status => status' = "completed"
      BY <1>1, <2>3 DEF CostStep, WorkStep, CanTransition, Terminal, At,
         Following, Exhausted
    <3> QED
      BY <2>3, <3>2, <3>3
  <2>4. CASE status \in {"completed", "output_deleted"}
    BY <1>1, <2>4 DEF WorkStep, CanTransition, Terminal, At, Charging
  <2> QED
    BY <2>1, <2>2, <2>3, <2>4 DEF Cost
<1> QED
  BY <1>3, <1>4, <1>5, <1>6, <1>7 DEF Cost


\* A worker's step costs what CostStep says: the capture of a job that is being
\* settled is never refused, for its hold is still there.
LEMMA CostSteps ==
  ASSUME IInv, KInv, "ackLost" \notin Env, NEW w \in Workers,
         Work(w) \/ WorkerCrash(w) \/ WorkerCallFails(w) \/ WorkerLockFails(w)
  PROVE  CostStep(w)
<1>0. /\ pc \in [Workers -> WorkerPCs] /\ At(w)
      /\ retries \in 0..MaxRetries /\ MaxRetries \in Nat /\ frozen \in Int
      /\ OtherHolds \in Nat
      /\ status = "settling" => Held
  BY BoundsAssumption DEF IInv, TypeOK, ProcessType, RowType, LedgerType, KInv,
     Positions, ProviderFacts, Live, SubmitFacts
<1>1. ASSUME pc[w] = "capture" PROVE Captured \/ Covered
  <2>1. status = "settling" /\ retries < MaxRetries
    BY <1>0, <1>1 DEF At, Charging
  <2>2. Held /\ ~Returned
    BY <1>0, <2>1 DEF KInv, ReturnFacts, Lost, Abandoned
  <2>3. ~Captured => Unit(Held) = 1 /\ Unit(Captured) = 0 /\ Unit(Released) = 0
    BY <2>2, Zenon DEF Unit, Released, Returned
  <2>4. ~Captured => frozen = 1
    BY <2>3 DEF KInv, Balance
  <2> QED
    BY <1>0, <2>4 DEF Covered
<1>2. CASE WorkerReserve(w) \/ WorkerLock(w) \/ WorkerRead(w) \/ WorkerProcess(w)
           \/ WorkerGet(w) \/ WorkerIndex(w) \/ WorkerRecheck(w)
           \/ WorkerRequeue(w) \/ WorkerAck(w) \/ WorkerUnlock(w)
  <2>1. UNCHANGED <<status, retries, ledger>> /\ pc[w] # "markSettled"
    BY <1>2 DEF WorkerReserve, WorkerLock, WorkerRead, WorkerProcess, WorkerGet,
       WorkerIndex, WorkerRecheck, WorkerRequeue, WorkerAck, WorkerUnlock, Step
  <2>2. pc'[w] # "recordFailure"
    <3>1. CASE WorkerGet(w)
      <4>1. pc'[w] = CASE prov = "succeeded" -> "toIndexing"
                       [] prov = "failed"    -> "toFailed"
                       [] prov = "cancelled" -> "toCancelled"
                       [] prov = "queued"    -> "requeue"
                       [] OTHER              -> "toRunning"
        BY <1>0, <3>1, StepFacts DEF WorkerGet
      <4>2. pc'[w] \in {"toIndexing", "toFailed", "toCancelled", "requeue",
                        "toRunning"}
        BY <4>1, Zenon
      <4> QED
        BY <4>2
    <3>2. CASE WorkerProcess(w)
      <4>1. pc'[w] \in {"releaseTerminal", "ack", "requeue", "index", "get"}
        BY <1>0, <3>2, StepFacts DEF WorkerProcess
      <4> QED
        BY <4>1
    <3>3. CASE \/ WorkerReserve(w) \/ WorkerLock(w) \/ WorkerRead(w)
               \/ WorkerIndex(w) \/ WorkerRecheck(w) \/ WorkerRequeue(w)
               \/ WorkerAck(w) \/ WorkerUnlock(w)
      BY <1>0, <3>3, StepFacts DEF WorkerReserve, WorkerLock, WorkerRead,
         WorkerIndex, WorkerRecheck, WorkerRequeue, WorkerAck, WorkerUnlock
    <3> QED
      BY <1>2, <3>1, <3>2, <3>3
  <2> QED
    BY <2>1, <2>2 DEF CostStep, Captured
<1>3. CASE WorkerTransition(w)
  <2>1. PICK from \in Following \cup {"exhaustFail"}, s \in Statuses,
             to \in {"requeue", "index", "releaseTerminal", "recheck"} :
          Transition(w, from, s, to)
    BY <1>3 DEF WorkerTransition, Following, Statuses, Terminal
  <2>2. /\ UNCHANGED <<retries, ledger>> /\ pc[w] = from
        /\ pc'[w] \in {to, "requeue"}
    BY <1>0, <2>1, StepFacts DEF Transition, SetStatus
  <2> QED
    BY <2>1, <2>2 DEF CostStep, Captured, Following
<1>4. CASE WorkerSettle(w)
  <2>1. /\ UNCHANGED <<status, retries, ledger>> /\ pc[w] = "settle"
        /\ pc'[w] = IF status = "completed" THEN "ack"
                    ELSE IF status # "settling" THEN "requeue"
                    ELSE IF retries = MaxRetries THEN "exhaust"
                    ELSE IF ~valid THEN "recordFailure"
                    ELSE "capture"
    BY <1>0, <1>4, StepFacts DEF WorkerSettle
  <2>2. pc'[w] = "recordFailure" => ~valid
    BY <2>1
  <2> QED
    BY <2>1, <2>2 DEF CostStep, Captured
<1>5. CASE WorkerReleaseTerminal(w) \/ WorkerExhaust(w)
  <2>1. /\ pc[w] \in {"releaseTerminal", "exhaust"} /\ status' = status
        /\ pc'[w] \in {"ack", "requeue", "exhaustFail", "recheck"}
        /\ retries' = retries \/ (CountRetry /\ pc[w] = "exhaust")
        /\ UNCHANGED ledger \/ ReleaseHold
    BY <1>0, <1>5, StepFacts DEF WorkerReleaseTerminal, WorkerExhaust, CountRetry
  <2>2. retries' = retries
    BY <1>0, <2>1, CountAtLimit DEF At, Exhausted
  <2>3. Captured' => Captured
    BY <2>1 DEF ReleaseHold, Captured
  <2> QED
    BY <2>1, <2>2, <2>3 DEF CostStep
<1>6. CASE WorkerCapture(w)
  <2>1. /\ pc[w] = "capture" /\ UNCHANGED <<status, retries>>
        /\ \/ CaptureHold /\ pc'[w] = "markSettled"
           \/ ~Captured /\ ~Covered
    BY <1>0, <1>6, StepFacts DEF WorkerCapture, Captured
  <2> QED
    BY <1>1, <2>1 DEF CostStep
<1>7. CASE WorkerMarkSettled(w)
  <2>1. /\ pc[w] = "markSettled" /\ UNCHANGED <<retries, ledger>>
        /\ pc'[w] \in {"ack", "requeue"}
        /\ status' = "completed" \/ status # "settling"
    BY <1>0, <1>7, StepFacts DEF WorkerMarkSettled, SetStatus
  <2>2. status = "settling"
    BY <1>0, <2>1 DEF At, Charging
  <2> QED
    BY <2>1, <2>2 DEF CostStep, Captured
<1>8. CASE WorkerRecordFailure(w)
  <2>1. /\ pc[w] = "recordFailure" /\ UNCHANGED <<status, ledger>> /\ CountRetry
        /\ pc'[w] \in {"exhaust", "recheck", "requeue"}
    BY <1>0, <1>8, StepFacts DEF WorkerRecordFailure, CountRetry
  <2>2. retries < MaxRetries
    BY <1>0, <2>1 DEF At
  <2>3. retries' = retries + 1
    BY <2>1, <2>2 DEF CountRetry
  <2> QED
    BY <2>1, <2>3 DEF CostStep, Captured
<1>9. CASE WorkerCrash(w) \/ WorkerLockFails(w)
  <2>1. /\ UNCHANGED <<status, retries, ledger>> /\ faults' = faults + 1
        /\ pc'[w] = "idle"
    BY <1>0, <1>9, StepFacts, GotoFacts DEF WorkerCrash, WorkerLockFails, Fault
  <2> QED
    BY <2>1 DEF CostStep, Captured
<1>10. CASE WorkerCallFails(w)
  <2>1. UNCHANGED <<status, retries, ledger>> /\ faults' = faults + 1
    BY <1>10 DEF WorkerCallFails, Fault
  <2>2. pc'[w] = "recordFailure" => pc[w] = "capture"
    BY <1>0, <1>10, StepFacts, GotoFacts DEF WorkerCallFails
  <2> QED
    BY <2>1, <2>2 DEF CostStep, Captured
<1> QED
  BY <1>2, <1>3, <1>4, <1>5, <1>6, <1>7, <1>8, <1>9, <1>10 DEF Work

\* Nothing is counted yet when the job has just been created.
LEMMA InitCost == Init => Cost
<1> SUFFICES ASSUME Init PROVE Cost
  OBVIOUS
<1>1. ~Captured /\ retries = 0 /\ faults = 0 /\ \A w \in Workers : pc[w] = "idle"
  BY DEF Init, Captured
<1> QED
  BY <1>1 DEF Cost

\* Every step keeps the account of failures.
LEMMA NextCost ==
  ASSUME Steady, IInv, KInv, Cost, [Next]_vars
  PROVE  Cost'
<1>1. /\ faults' \in Nat /\ faults' >= faults /\ retries' \in 0..MaxRetries
  <2>1. IInv'
    BY NextIInv
  <2> QED
    BY <2>1, EnvInvariant DEF IInv, TypeOK, RowType, ProcessType
<1>2. CASE UNCHANGED vars
  <2>1. UNCHANGED <<status, retries, claims, valid, pc, faults>>
    BY <1>2 DEF vars
  <2>2. Captured' = Captured /\ Returned' = Returned /\ Charged' = Charged
    BY <2>1 DEF Captured, Returned, Charged
  <2> QED
    BY <2>1, <2>2 DEF Cost
<1>3. ASSUME NEW w \in Workers,
             Work(w) \/ WorkerCrash(w) \/ WorkerCallFails(w) \/ WorkerLockFails(w)
      PROVE  Cost'
  <2>1. WorkStep(w)
    BY <1>3, ReadSteps, TransitionSteps, SettleSteps, FailureSteps DEF Work
  <2>2. CostStep(w)
    BY <1>3, CostSteps DEF Steady
  <2> QED
    BY <1>1, <2>1, <2>2, CostStepCost
<1>4. CASE \/ Submit \/ Resubmit \/ CancelRead \/ Cancel \/ Recovery
           \/ ProviderWorks \/ MoveDelayed \/ RecoverActive \/ LockExpires
           \/ DeleteOutputs \/ DeleteRecord
           \/ SubmitCallFails \/ CancelCallFails \/ RecoveryCallFails
           \/ ApiCrash
  BY <1>1, <1>4, ApiSteps, ApiStepCost DEF Steady
<1> QED
  BY <1>2, <1>3, <1>4 DEF Next

\* When no worker stalls and every error of a ledger call is true, the hold is
\* charged or given back and never both, nor is anything taken out of what
\* other jobs have frozen, while there are no more failures than MaxRetries:
\* giving back a hold that was charged takes MaxRetries + 1 failures (Cost).
THEOREM HoldOnce == Steady /\ Spec => []HoldUsedOnce
<1> SUFFICES ASSUME Steady PROVE Spec => []HoldUsedOnce
  OBVIOUS
<1>1. Spec => []KInv
  BY HoldInvariant DEF Steady
<1>2. IInv /\ KInv /\ Cost /\ [Next]_vars => Cost'
  BY NextCost
<1>3. ASSUME IInv, KInv, Cost, faults <= MaxRetries
      PROVE  frozen >= 0 /\ ~(Captured /\ Released)
  <2>1. ~(faults > MaxRetries)
    BY <1>3, BoundsAssumption DEF IInv, TypeOK, ProcessType
  <2>2. ~(Captured /\ Released)
    BY <1>3, <2>1 DEF Cost, KInv, Kept, Returned, Released
  <2>3. Captured \/ Released => Held
    BY <1>3 DEF KInv, Balance, Released, Held
  <2>4. frozen = Unit(Held) - Unit(Captured) - Unit(Released)
    BY <1>3 DEF KInv, Balance
  <2> QED
    BY <2>2, <2>3, <2>4 DEF Unit
<1>4. IInv /\ KInv /\ Cost => HoldUsedOnce
  BY <1>3 DEF HoldUsedOnce
<1> QED
  BY <1>1, <1>2, <1>4, InitCost, IInvHolds, PTL DEF Spec

-----------------------------------------------------------------------------
(* Giving the hold back *)

\* Moreover the process that serves Submit, Cancel and the recovery does not
\* die between two of its calls.
Orderly == Steady /\ "crash" \notin Env

\* The hold of a job that is lost has to be given back.
Owed == Lost /\ Held /\ ~Returned /\ ~Captured

\* Somebody works for the job, or will: it is inflight until it is over.
Followed ==
  (Queued \/ \E w \in Workers : pc[w] # "idle") /\ status \notin Terminal =>
    inflight

\* Submit records a failure after the hold was given back.
RecordsLast == sub \in {"recordFailed", "hide"} => ~Held \/ Returned

Retrying ==
  sub = "recordRefused" \/ "retryEnqueue" \in {sub, cancel, recovery}
    => faults >= 1 \/ Captured

SubmitOwes ==
  sub \in {"release", "releaseOnly", "recordRefused", "retryEnqueue"}
CancelOwes == cancel \in {"release", "retryEnqueue"}
RecoveryOwes == recovery \in {"release", "retryEnqueue"}

\* Whoever owes the hold will give it back or put the job into the queue for a
\* worker to do so.
Debt ==
  Owed => faults > 1 \/ Queued \/ SubmitOwes \/ CancelOwes \/ RecoveryOwes

NInv == Followed /\ RecordsLast /\ Retrying /\ Debt

\* A worker begins only with a job of the queue.
LEMMA WorkerWakes ==
  ASSUME ProcessType, [Next]_vars
  PROVE  (\E w \in Workers : pc'[w] # "idle") =>
           Queued \/ \E w \in Workers : pc[w] # "idle"
<1>1. CASE pc' = pc
  BY <1>1
<1>2. ASSUME NEW w \in Workers, Work(w) \/ WorkerCrash(w) \/ WorkerCallFails(w)
                                \/ WorkerLockFails(w)
      PROVE  Queued \/ pc[w] # "idle"
  <2>1. CASE WorkerReserve(w)
    BY <2>1 DEF WorkerReserve, Reserve, Queued
  <2>2. CASE WorkerCrash(w) \/ WorkerCallFails(w) \/ WorkerLockFails(w)
    BY <2>2 DEF WorkerCrash, WorkerCallFails, WorkerLockFails, Step
  <2>3. CASE Work(w) /\ ~WorkerReserve(w)
    BY <2>3 DEF Work, WorkerLock, WorkerRead, WorkerProcess, WorkerGet,
       WorkerTransition, Transition, WorkerIndex, WorkerReleaseTerminal,
       WorkerSettle, WorkerCapture, WorkerMarkSettled, WorkerRecordFailure,
       WorkerExhaust, WorkerRecheck, WorkerRequeue, WorkerAck, WorkerUnlock,
       Step
  <2> QED
    BY <1>2, <2>1, <2>2, <2>3
<1>3. CASE Submit \/ Resubmit \/ CancelRead \/ Cancel \/ Recovery
  BY <1>1, <1>3 DEF Submit, SubmitReserve, SubmitItems, SubmitUpload,
     SubmitProvider, SubmitUpdate, SubmitEnqueue, SubmitRelease,
     SubmitRetryEnqueue, SubmitRecordFailed, SubmitHide, Resubmit, SubmitFrame,
     CancelRead,
     Cancel, CancelProvider, CancelEnqueue, CancelTransition, CancelRelease,
     CancelFrame, Recovery, RecoveryFail, RecoveryRelease, RecoveryEnqueue,
     RecoveryFrame
<1>4. CASE \/ ProviderWorks \/ MoveDelayed \/ RecoverActive \/ LockExpires
           \/ DeleteOutputs \/ DeleteRecord \/ SubmitCallFails
           \/ CancelCallFails \/ RecoveryCallFails \/ ApiCrash
  BY <1>1, <1>4 DEF ProviderWorks, MoveDelayed, RecoverActive, LockExpires,
     DeleteOutputs, DeleteRecord, SubmitCallFails, CancelCallFails,
     RecoveryCallFails, ApiCrash
<1>5. CASE UNCHANGED vars
  BY <1>1, <1>5 DEF vars
<1> QED
  BY <1>2, <1>3, <1>4, <1>5 DEF Next

\* A job that nobody acknowledges stays in the queue, and one that was put into
\* it is inflight.
LEMMA QueueKeeps ==
  ASSUME QueueType, QueueStep
  PROVE  /\ Queued' => \/ Queued \/ inflight'
                       \/ \E w \in Workers : pc[w] # "idle"
         /\ Queued => Queued' \/ \E w \in Workers : pc[w] = "ack"
         /\ inflight => inflight' \/ \E w \in Workers : pc[w] = "ack"
<1> USE DEF QueueStep, Enqueue, Reserve, RequeueAfter, Ack,
        MoveDueDelayedToReady, RecoverStaleActive, Queued
<1>0. ready \in Nat
  BY DEF QueueType
<1>1. CASE UNCHANGED queue
  BY <1>1
<1>2. CASE Enqueue
  <2>1. CASE inflight
    BY <1>2, <2>1
  <2>2. CASE ~inflight
    <3>1. inflight' /\ ready' = ready + 1
      BY <1>2, <2>2
    <3>2. ready' > 0
      BY <1>0, <3>1
    <3> QED
      BY <2>2, <3>1, <3>2, Zenon
  <2> QED
    BY <2>1, <2>2
<1>3. CASE Reserve
  <2>1. ready > 0 /\ active' /\ inflight' = inflight
    BY <1>3
  <2> QED
    BY <2>1, Zenon
<1>4. CASE RequeueAfter /\ \E w \in Workers : pc[w] # "idle"
  <2>1. delayed' /\ (inflight => inflight')
    BY <1>4
  <2>2. Queued'
    BY <2>1
  <2> QED
    BY <1>4, <2>1, <2>2
<1>5. CASE Ack /\ \E w \in Workers : pc[w] = "ack"
  BY <1>5
<1>6. CASE MoveDueDelayedToReady \/ RecoverStaleActive
  <2>1. Queued /\ ready' = ready + 1 /\ inflight' = inflight
    BY <1>6
  <2>2. ready' > 0
    BY <1>0, <2>1
  <2> QED
    BY <2>1, <2>2, Zenon
<1> QED
  BY <1>1, <1>2, <1>3, <1>4, <1>5, <1>6

\* The job stays inflight until it is over.
LEMMA FollowedStep ==
  ASSUME IInv, KInv, Followed, [Next]_vars
  PROVE  Followed'
<1> SUFFICES ASSUME Queued' \/ \E w \in Workers : pc'[w] # "idle",
                    status' \notin Terminal
             PROVE  inflight'
  BY DEF Followed
<1>1. status \notin Terminal
  BY OverStays DEF StaysOver, Terminal
<1>2. ~\E w \in Workers : pc[w] = "ack"
  BY <1>1 DEF KInv, Positions, At, Terminal, Lost
<1>3. QueueStep /\ QueueType /\ ProcessType
  BY QueueSteps DEF IInv, TypeOK
<1>4. inflight' \/ Queued \/ \E w \in Workers : pc[w] # "idle"
  BY <1>3, WorkerWakes, QueueKeeps
<1>5. inflight => inflight'
  BY <1>2, <1>3, QueueKeeps
<1> QED
  BY <1>1, <1>4, <1>5 DEF Followed

\* The queue keeps a job that is not over or whose hold is owed.
LEMMA QueueStays ==
  ASSUME IInv, KInv, [Next]_vars, Owed \/ status \notin Terminal, Queued
  PROVE  Queued'
<1>1. ~\E w \in Workers : pc[w] = "ack"
  BY DEF KInv, Positions, At, Terminal, Lost, Owed
<1> QED
  BY <1>1, QueueSteps, QueueKeeps DEF IInv, TypeOK

\* Enqueue leaves the job in the queue, whether or not it was there.
LEMMA EnqueueQueues ==
  ASSUME IInv, Enqueue
  PROVE  Queued'
<1>1. ready \in Nat /\ (inflight => Queued)
  BY DEF IInv, TypeOK, QueueType, InflightIsQueued
<1>2. CASE inflight
  BY <1>1, <1>2 DEF Enqueue, Queued
<1>3. CASE ~inflight
  <2>1. ready' = ready + 1
    BY <1>3 DEF Enqueue
  <2>2. ready' > 0
    BY <1>1, <2>1
  <2> QED
    BY <2>2 DEF Queued
<1> QED
  BY <1>2, <1>3

\* A release is refused only when the hold was charged.
LEMMA RefusedCharged ==
  ASSUME IInv, KInv, ReleaseRefused
  PROVE  Captured
<1> SUFFICES ASSUME ~Captured PROVE FALSE
  OBVIOUS
<1>1. Held /\ ~Released
  BY DEF ReleaseRefused, Held, Released
<1>2. Unit(Held) = 1 /\ Unit(Captured) = 0 /\ Unit(Released) = 0
  BY <1>1, Zenon DEF Unit
<1>3. frozen = 1
  BY <1>2 DEF KInv, Balance
<1> QED
  BY <1>3, BoundsAssumption DEF ReleaseRefused, Covered

\* How a step treats the debt.
Passed == Queued' \/ faults' > 1

OweStep ==
  /\ RecordsLast' /\ Retrying'
  /\ Owed' => Owed \/ Queued' \/ SubmitOwes' \/ CancelOwes' \/ RecoveryOwes'
  /\ Owed' /\ SubmitOwes => SubmitOwes' \/ Passed
  /\ Owed' /\ CancelOwes => CancelOwes' \/ Passed
  /\ Owed' /\ RecoveryOwes => RecoveryOwes' \/ Passed

\* A step that leaves the calls alone owes nothing new unless the job is lost by
\* it.
LEMMA OweQuietly ==
  ASSUME IInv, NInv, faults' \in Nat, faults' >= faults,
         UNCHANGED <<sub, cancel, recovery>>,
         Held' = Held, Returned => Returned', Captured => Captured',
         Owed' => Owed \/ Queued'
  PROVE  OweStep
<1>1. RecordsLast'
  BY DEF NInv, RecordsLast
<1>2. faults >= 1 => faults' >= 1
  BY DEF IInv, TypeOK, ProcessType
<1>3. Retrying'
  BY <1>2 DEF NInv, Retrying
<1> QED
  BY <1>1, <1>3 DEF OweStep, SubmitOwes, CancelOwes, RecoveryOwes

\* A job that a worker fails or cancels is inflight, hence in the queue.
LEMMA OweWork ==
  ASSUME IInv, KInv, NInv, [Next]_vars, NEW w \in Workers, WorkStep(w),
         faults' \in Nat, faults' >= faults
  PROVE  OweStep
<1>1. /\ UNCHANGED <<sub, cancel, recovery>> /\ Held' = Held
      /\ Returned => Returned'
      /\ Captured => Captured'
  BY DEF WorkStep, ReleaseHold, CaptureHold, Held, Returned, Captured
<1>2. ASSUME Owed', ~Owed PROVE Queued'
  <2>1. Lost' /\ ~Lost
    BY <1>1, <1>2 DEF Owed
  <2>2. CanTransition(status, status') /\ Busy(w)
    BY <2>1 DEF WorkStep, Lost
  <2>3. status \notin Terminal
    BY <2>1, <2>2 DEF CanTransition, Terminal, Lost
  <2>4. inflight
    BY <2>2, <2>3 DEF NInv, Followed, Busy
  <2>5. Queued
    BY <2>4 DEF IInv, InflightIsQueued
  <2> QED
    BY <2>3, <2>5, QueueStays
<1> QED
  BY <1>1, <1>2, OweQuietly

\* Submit gives the hold back before it records its failure, or else enqueues
\* the job.
LEMMA OweSubmit ==
  ASSUME IInv, KInv, NInv, "ackLost" \notin Env, Submit \/ SubmitCallFails,
         faults' \in Nat, faults' >= faults
  PROVE  OweStep
<1> USE DEF SubmitStep
<1>0. UNCHANGED <<cancel, recovery>> /\ faults \in Nat
  BY DEF Submit, SubmitReserve, SubmitItems, SubmitUpload, SubmitProvider,
     SubmitUpdate, SubmitEnqueue, SubmitRelease, SubmitRetryEnqueue,
     SubmitRecordFailed, SubmitHide, SubmitFrame, SubmitCallFails, IInv, TypeOK,
     ProcessType
<1>1. /\ CancelOwes => CancelOwes'
      /\ RecoveryOwes => RecoveryOwes'
  BY <1>0 DEF CancelOwes, RecoveryOwes
<1>2. faults >= 1 => faults' >= 1
  BY <1>0
<1>3. ASSUME Captured => Captured',
             sub' \in {"recordRefused", "retryEnqueue"}
               => faults' >= 1 \/ Captured'
      PROVE  Retrying'
  BY <1>0, <1>2, <1>3 DEF NInv, Retrying
<1>4. CASE SubmitReserve
  <2>1. /\ sub = "reserve" /\ sub' \in {"items", "recordFailed"}
        /\ status' = status /\ (Captured => Captured')
        /\ sub' = "recordFailed" => UNCHANGED ledger
    BY <1>4 DEF SubmitReserve, Captured
  <2>2. status = "created" /\ ~Held
    BY <2>1 DEF KInv, SubmitFacts
  <2>3. RecordsLast'
    BY <2>1, <2>2 DEF RecordsLast, Held
  <2>4. ~Owed'
    BY <2>1, <2>2 DEF Owed, Lost
  <2> QED
    BY <1>3, <2>1, <2>3, <2>4 DEF OweStep
<1>5. CASE \/ SubmitItems \/ SubmitUpload \/ SubmitProvider \/ SubmitUpdate
           \/ SubmitEnqueue
  <2>1. /\ ~SubmitOwes
        /\ sub' \notin {"recordFailed", "hide", "recordRefused", "retryEnqueue"}
        /\ UNCHANGED ledger /\ status' \in {status, "uploading", "submitted"}
    BY <1>5 DEF SubmitItems, SubmitUpload, SubmitProvider, SubmitUpdate,
       SubmitEnqueue, SubmitOwes, SetStatus
  <2>2. RecordsLast' /\ (Captured => Captured')
    BY <2>1 DEF RecordsLast, Captured
  <2>3. Owed' => Owed
    BY <2>1 DEF Owed, Lost, Held, Returned, Captured
  <2> QED
    BY <1>1, <1>3, <2>1, <2>2, <2>3 DEF OweStep
<1>6. CASE SubmitRelease
  <2>1. \/ ReleaseHold /\ sub' \in {"recordFailed", "done"}
        \/ ReleaseRefused /\ sub' = "recordRefused" /\ UNCHANGED ledger
    BY <1>6 DEF SubmitRelease
  <2>2. ReleaseHold => Returned' /\ (Captured => Captured')
    BY DEF ReleaseHold, Returned, Captured
  <2>3. CASE ReleaseHold /\ sub' \in {"recordFailed", "done"}
    BY <1>3, <2>2, <2>3 DEF OweStep, RecordsLast, Owed
  <2>4. CASE ReleaseRefused /\ sub' = "recordRefused" /\ UNCHANGED ledger
    <3>1. Captured'
      BY <2>4, RefusedCharged DEF Captured
    <3> QED
      BY <1>3, <2>4, <3>1 DEF OweStep, RecordsLast, Owed
  <2> QED
    BY <2>1, <2>3, <2>4
<1>7. CASE SubmitRetryEnqueue
  <2>1. /\ sub' = "done" /\ UNCHANGED ledger /\ Enqueue
    BY <1>7 DEF SubmitRetryEnqueue
  <2>2. Queued' /\ RecordsLast' /\ (Captured => Captured')
    BY <2>1, EnqueueQueues DEF RecordsLast, Captured
  <2> QED
    BY <1>3, <2>1, <2>2 DEF OweStep, Passed
<1>8. CASE SubmitRecordFailed \/ SubmitHide
  <2>1. /\ UNCHANGED ledger
        /\ \/ sub = "recordFailed" /\ sub' = "hide"
           \/ sub = "hide" /\ sub' = "done"
           \/ sub = "recordRefused" /\ sub' = "retryEnqueue"
    BY <1>8 DEF SubmitRecordFailed, SubmitHide
  <2>2. Captured' = Captured /\ Held' = Held /\ Returned' = Returned
    BY <2>1 DEF Captured, Held, Returned
  <2>3. RecordsLast'
    BY <2>1, <2>2 DEF NInv, RecordsLast
  <2>4. Retrying'
    BY <1>2, <1>3, <2>1, <2>2 DEF NInv, Retrying
  <2>5. CASE sub \in {"recordFailed", "hide"}
    <3>1. ~Owed'
      BY <2>2, <2>5 DEF NInv, RecordsLast, Owed
    <3> QED
      BY <2>3, <2>4, <3>1 DEF OweStep
  <2>6. CASE sub = "recordRefused"
    BY <1>1, <2>1, <2>3, <2>4, <2>6 DEF OweStep, SubmitOwes
  <2> QED
    BY <2>1, <2>5, <2>6
<1>9. CASE SubmitCallFails
  <2>1. /\ faults' = faults + 1 /\ UNCHANGED ledger /\ status' = status
        /\ \/ sub = "reserve" /\ sub' = "recordFailed"
           \/ sub \in {"items", "upload"} /\ sub' = "release"
           \/ sub \in {"release", "releaseOnly"} /\ sub' = "recordRefused"
           \/ sub = "recordFailed" /\ sub' = "hide"
           \/ sub = "recordRefused" /\ sub' = "retryEnqueue"
           \/ /\ sub \in {"update", "enqueue", "hide", "retryEnqueue"}
              /\ sub' = "done"
    BY <1>9 DEF SubmitCallFails, Fault
  <2>2. /\ faults' >= 1 /\ Captured' = Captured
        /\ faults >= 1 => faults' > 1
    BY <1>0, <2>1 DEF Captured
  <2>3. RecordsLast'
    BY <2>1 DEF NInv, RecordsLast, KInv, SubmitFacts, Held, Returned
  <2>4. Retrying'
    BY <1>3, <2>2
  <2>5. Owed' => Owed \/ SubmitOwes'
    BY <2>1 DEF Owed, Lost, Held, Returned, Captured, SubmitOwes
  <2>6. Owed' /\ SubmitOwes => SubmitOwes' \/ Passed
    BY <2>1, <2>2 DEF SubmitOwes, Passed, NInv, Retrying, Owed
  <2> QED
    BY <1>1, <2>3, <2>4, <2>5, <2>6 DEF OweStep
<1> QED
  BY <1>4, <1>5, <1>6, <1>7, <1>8, <1>9 DEF Submit

\* Cancel gives the hold back after its transition, or else enqueues the job.
LEMMA OweCancel ==
  ASSUME IInv, KInv, NInv, CancelRead \/ Cancel \/ CancelCallFails,
         faults' \in Nat, faults' >= faults
  PROVE  OweStep
<1>0. /\ UNCHANGED <<sub, recovery>> /\ faults \in Nat /\ Held' = Held
      /\ Returned => Returned'
      /\ Captured => Captured'
  BY DEF CancelRead, Cancel, CancelProvider, CancelEnqueue, CancelTransition,
     CancelRelease, CancelFrame, CancelCallFails, IInv, TypeOK, ProcessType,
     ReleaseHold, Held, Returned, Captured
<1>1. /\ SubmitOwes => SubmitOwes'
      /\ RecoveryOwes => RecoveryOwes'
  BY <1>0 DEF SubmitOwes, RecoveryOwes
<1>2. RecordsLast'
  BY <1>0 DEF NInv, RecordsLast
<1>3. faults >= 1 => faults' >= 1
  BY <1>0
<1>4. ASSUME cancel' = "retryEnqueue" => faults' >= 1 \/ Captured'
      PROVE  Retrying'
  BY <1>0, <1>3, <1>4 DEF NInv, Retrying
<1>5. CASE CancelRead
  <2>1. cancel' \in {"release", "idle", "provider", "transition"}
    BY <1>5, Zenon DEF CancelRead
  <2>2. cancel = "idle" /\ status' = status
    BY <1>5 DEF CancelRead
  <2> QED
    BY <1>0, <1>1, <1>2, <1>4, <2>1, <2>2 DEF OweStep, CancelOwes, Owed, Lost
<1>6. CASE CancelProvider
  <2>1. cancel = "provider" /\ cancel' = "enqueue" /\ status' = status
    BY <1>6 DEF CancelProvider
  <2> QED
    BY <1>0, <1>1, <1>2, <1>4, <2>1 DEF OweStep, CancelOwes, Owed, Lost
<1>7. CASE CancelEnqueue
  <2>1. cancel' = "idle" /\ Queued'
    BY <1>7, EnqueueQueues DEF CancelEnqueue
  <2> QED
    BY <1>2, <1>4, <2>1 DEF OweStep, Passed
<1>8. CASE CancelTransition
  <2>1. /\ cancel = "transition" /\ cancel' \in {"release", "idle"}
        /\ cancel' = "release" \/ status' = status
    BY <1>8 DEF CancelTransition
  <2> QED
    BY <1>0, <1>1, <1>2, <1>4, <2>1 DEF OweStep, CancelOwes, Owed, Lost
<1>9. CASE CancelRelease
  <2>1. CASE ReleaseHold /\ cancel' = "idle"
    <3>1. ~Owed'
      BY <2>1 DEF ReleaseHold, Owed, Returned
    <3> QED
      BY <1>2, <1>4, <2>1, <3>1 DEF OweStep
  <2>2. CASE ReleaseRefused /\ cancel' = "retryEnqueue"
    <3>1. Captured'
      BY <1>0, <2>2, RefusedCharged
    <3> QED
      BY <1>2, <1>4, <3>1 DEF OweStep, Owed
  <2> QED
    BY <1>9, <2>1, <2>2 DEF CancelRelease
<1>10. CASE CancelCallFails
  <2>1. /\ faults' = faults + 1 /\ status' = status
        /\ cancel' = IF cancel = "release" THEN "retryEnqueue" ELSE "idle"
    BY <1>10 DEF CancelCallFails, Fault
  <2>2. faults' >= 1 /\ (faults >= 1 => faults' > 1)
    BY <1>0, <2>1
  <2>3. Retrying'
    BY <1>4, <2>2
  <2>4. Owed' => Owed
    BY <1>0, <2>1 DEF Owed, Lost
  <2>5. Owed' /\ CancelOwes => CancelOwes' \/ Passed
    BY <1>0, <2>1, <2>2 DEF CancelOwes, Passed, NInv, Retrying, Owed
  <2> QED
    BY <1>1, <1>2, <2>3, <2>4, <2>5 DEF OweStep
<1> QED
  BY <1>5, <1>6, <1>7, <1>8, <1>9, <1>10 DEF Cancel

\* The recovery gives the hold back after it has failed the job, or else
\* enqueues the job.
LEMMA OweRecovery ==
  ASSUME IInv, KInv, NInv, Recovery \/ RecoveryCallFails,
         faults' \in Nat, faults' >= faults
  PROVE  OweStep
<1>0. /\ UNCHANGED <<sub, cancel>> /\ faults \in Nat /\ Held' = Held
      /\ Returned => Returned'
      /\ Captured => Captured'
  BY DEF Recovery, RecoveryFail, RecoveryRelease, RecoveryEnqueue,
     RecoveryFrame, RecoveryCallFails, IInv, TypeOK, ProcessType, ReleaseHold,
     Held, Returned, Captured
<1>1. /\ SubmitOwes => SubmitOwes'
      /\ CancelOwes => CancelOwes'
  BY <1>0 DEF SubmitOwes, CancelOwes
<1>2. RecordsLast'
  BY <1>0 DEF NInv, RecordsLast
<1>3. faults >= 1 => faults' >= 1
  BY <1>0
<1>4. ASSUME recovery' = "retryEnqueue" => faults' >= 1 \/ Captured'
      PROVE  Retrying'
  BY <1>0, <1>3, <1>4 DEF NInv, Retrying
<1>5. CASE RecoveryFail
  <2>1. recovery' = "release"
    BY <1>5 DEF RecoveryFail
  <2> QED
    BY <1>1, <1>2, <1>4, <2>1 DEF OweStep, RecoveryOwes
<1>6. CASE RecoveryRelease
  <2>1. CASE ReleaseHold /\ recovery' = "idle"
    <3>1. ~Owed'
      BY <2>1 DEF ReleaseHold, Owed, Returned
    <3> QED
      BY <1>2, <1>4, <2>1, <3>1 DEF OweStep
  <2>2. CASE ReleaseRefused /\ recovery' = "retryEnqueue"
    <3>1. Captured'
      BY <1>0, <2>2, RefusedCharged
    <3> QED
      BY <1>2, <1>4, <3>1 DEF OweStep, Owed
  <2> QED
    BY <1>6, <2>1, <2>2 DEF RecoveryRelease
<1>7. CASE RecoveryEnqueue
  <2>1. recovery' = "idle" /\ Queued'
    BY <1>7, EnqueueQueues DEF RecoveryEnqueue
  <2> QED
    BY <1>2, <1>4, <2>1 DEF OweStep, Passed
<1>8. CASE RecoveryCallFails
  <2>1. /\ faults' = faults + 1 /\ status' = status
        /\ \/ recovery' = "retryEnqueue"
           \/ recovery = "retryEnqueue" /\ recovery' = "idle"
    BY <1>8 DEF RecoveryCallFails, Fault
  <2>2. faults' >= 1 /\ (faults >= 1 => faults' > 1)
    BY <1>0, <2>1
  <2>3. Retrying'
    BY <1>4, <2>2
  <2>4. Owed' => Owed
    BY <1>0, <2>1 DEF Owed, Lost
  <2>5. Owed' /\ RecoveryOwes => RecoveryOwes' \/ Passed
    BY <1>0, <2>1, <2>2 DEF RecoveryOwes, Passed, NInv, Retrying, Owed
  <2> QED
    BY <1>1, <1>2, <2>3, <2>4, <2>5 DEF OweStep
<1> QED
  BY <1>5, <1>6, <1>7, <1>8 DEF Recovery

\* Every step passes the debt on.
LEMMA NextNInv ==
  ASSUME Orderly, IInv, KInv, NInv, [Next]_vars
  PROVE  NInv'
<1>1. Followed'
  BY FollowedStep DEF NInv
<1>2. faults' \in Nat /\ faults' >= faults /\ faults \in Nat
  BY EnvInvariant DEF IInv, TypeOK, ProcessType
<1>3. OweStep
  <2>1. ASSUME NEW w \in Workers, Work(w) \/ WorkerCrash(w)
                                  \/ WorkerCallFails(w) \/ WorkerLockFails(w)
        PROVE  OweStep
    <3>1. WorkStep(w)
      BY <2>1, ReadSteps, TransitionSteps, SettleSteps, FailureSteps DEF Work
    <3> QED
      BY <1>2, <3>1, OweWork
  <2>2. CASE Submit \/ SubmitCallFails
    BY <1>2, <2>2, OweSubmit DEF Orderly, Steady
  <2>3. CASE CancelRead \/ Cancel \/ CancelCallFails
    BY <1>2, <2>3, OweCancel
  <2>4. CASE Recovery \/ RecoveryCallFails
    BY <1>2, <2>4, OweRecovery
  <2>5. CASE \/ Resubmit \/ ProviderWorks \/ MoveDelayed \/ RecoverActive
             \/ LockExpires \/ DeleteOutputs \/ DeleteRecord \/ UNCHANGED vars
    <3>1. /\ UNCHANGED <<sub, cancel, recovery, ledger>>
          /\ status' = status \/ status' = "output_deleted"
      BY <2>5 DEF Resubmit, SubmitFrame, ProviderWorks, MoveDelayed,
         RecoverActive, LockExpires, DeleteOutputs, DeleteRecord, SetStatus,
         vars
    <3>2. /\ Held' = Held
          /\ Returned => Returned'
          /\ Captured => Captured'
          /\ Owed' => Owed
      BY <3>1 DEF Held, Returned, Captured, Owed, Lost
    <3> QED
      BY <1>2, <3>1, <3>2, OweQuietly
  <2>6. ~ApiCrash
    BY DEF Orderly, ApiCrash
  <2> QED
    BY <2>1, <2>2, <2>3, <2>4, <2>5, <2>6 DEF Next
<1>4. Debt'
  <2>1. faults > 1 => faults' > 1
    BY <1>2
  <2>2. Owed /\ Queued => Queued'
    BY QueueStays
  <2> QED
    BY <1>3, <2>1, <2>2 DEF OweStep, Passed, Debt, NInv
<1> QED
  BY <1>1, <1>3, <1>4 DEF NInv, OweStep

\* When nothing stalls or dies but a worker and every error of a ledger call is
\* true, nothing of the balance stays frozen for a job that failed or was
\* cancelled once everything about it has come to rest, whatever single call or
\* worker failed: Debt names who still has to give the hold back.
THEOREM NothingFrozen == Orderly /\ Spec => []NothingStaysFrozen
<1> SUFFICES ASSUME Orderly PROVE Spec => []NothingStaysFrozen
  OBVIOUS
<1>1. Spec => []KInv
  BY HoldInvariant DEF Orderly, Steady
<1>2. Init => NInv
  <2> SUFFICES ASSUME Init PROVE NInv
    OBVIOUS
  <2>1. ~Queued /\ \A w \in Workers : pc[w] = "idle"
    BY DEF Init, QueueInit, Queued
  <2> QED
    BY <2>1 DEF Init, NInv, Followed, RecordsLast, Retrying, Debt, Owed, Lost
<1>3. IInv /\ KInv /\ NInv /\ [Next]_vars => NInv'
  BY NextNInv
<1>4. ASSUME IInv, KInv, NInv, Quiescent, Lost, faults <= 1
      PROVE  frozen <= 0
  <2>1. ~(faults > 1)
    BY <1>4 DEF IInv, TypeOK, ProcessType
  <2>2. ~Owed
    BY <1>4, <2>1 DEF NInv, Debt, SubmitOwes, CancelOwes, RecoveryOwes, Quiescent
  <2>3. ~Held \/ Released \/ Captured
    BY <1>4, <2>2 DEF Owed, Held, Returned, Released
  <2>4. frozen = Unit(Held) - Unit(Captured) - Unit(Released)
    BY <1>4 DEF KInv, Balance
  <2> QED
    BY <2>3, <2>4 DEF Unit
<1>5. IInv /\ KInv /\ NInv => NothingStaysFrozen
  BY <1>4 DEF NothingStaysFrozen, Lost
<1> QED
  BY <1>1, <1>2, <1>3, <1>5, IInvHolds, PTL DEF Spec
=============================================================================
