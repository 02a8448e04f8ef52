--------------------------- MODULE BatchImageJob ---------------------------
(***************************************************************************)
(* One batch image job: its Submit call, the queue workers that follow it  *)
(* at the provider, index its results and settle it, the user's Cancel,    *)
(* the recovery of submissions that died, and the balance hold that pays   *)
(* for it (batch_image_public.go, _processor.go, _settlement.go,           *)
(* _billing_hold.go, _billing_recovery.go, batch_image_repo.go,            *)
(* usage_billing_repo.go).  PostgreSQL is the source of truth; the queue   *)
(* only wakes workers up.                                                  *)
(*                                                                         *)
(* A step is one SQL transaction, queue operation or provider call.  The   *)
(* hold is one unit; frozen is this job's part of the user's               *)
(* frozen_balance, which other jobs' holds fill up too (OtherHolds).       *)
(***************************************************************************)
EXTENDS BatchImageQueue, Integers

CONSTANTS
  MaxRetries,  \* batchImageSettlementMaxRetries
  OtherHolds,  \* what other jobs of the user have frozen
  MaxFaults,   \* bound on failed calls and crashed workers
  Env          \* what else may happen, see Environments

\* "stall": a worker or a submission outlives its lock or its heartbeat;
\* "crash": the process serving Submit, Cancel or the recovery dies;
\* "early": Cancel comes before Submit has reserved the hold;
\* "ackLost": a reservation or capture commits and its answer is an error.
Environments == {"stall", "crash", "early", "ackLost"}

ASSUME EnvAssumption == Env \subseteq Environments
ASSUME BoundsAssumption ==
  MaxRetries \in Nat \ {0} /\ OtherHolds \in Nat /\ MaxFaults \in Nat

VARIABLES
  status, providerJob, retries, hidden,  \* the batch_image_jobs row
  claims,     \* usage_billing_dedup: the request ids used for this job
  frozen,     \* this job's part of frozen_balance
  prov,       \* the batch at the provider
  valid,      \* settlement's checks of counts, price and cost pass
  sub,        \* the Submit call
  cancel, recovery,  \* the Cancel call and the billing recovery
  pc,         \* per worker
  faults

row    == <<status, providerJob, retries, hidden>>
ledger == <<claims, frozen>>
api    == <<sub, cancel, recovery>>
vars   == <<queue, lock, row, ledger, prov, valid, api, pc, faults>>

Terminal == {"completed", "failed", "cancelled", "output_deleted"}
Statuses == Terminal \cup {"created", "uploading", "submitted", "running",
                           "indexing", "settling"}
Live == {"submitted", "running", "indexing", "settling"}
WorkerPCs == {"idle", "lock", "read", "process", "get", "toRunning",
              "toIndexing", "toFailed", "toCancelled", "index", "toSettling",
              "indexFailed", "releaseTerminal", "settle", "capture",
              "markSettled", "recordFailure", "exhaust", "exhaustFail",
              "recheck", "requeue", "ack", "unlock"}
SubmitPCs == {"reserve", "items", "upload", "submit", "update", "enqueue",
              "release", "releaseOnly", "recordFailed", "hide",
              "recordRefused", "retryEnqueue", "done"}
CancelPCs == {"idle", "provider", "enqueue", "transition", "release",
              "retryEnqueue"}
RecoveryPCs == {"idle", "release", "retryEnqueue"}

RowType ==
  /\ status \in Statuses /\ retries \in 0..MaxRetries
  /\ providerJob \in BOOLEAN /\ hidden \in BOOLEAN

LedgerType ==
  /\ claims \in SUBSET {"hold", "capture", "release"}
  /\ frozen \in Int

ProcessType ==
  /\ prov \in {"none", "queued", "running", "succeeded", "failed", "cancelled"}
  /\ valid \in BOOLEAN /\ faults \in Nat
  /\ sub \in SubmitPCs /\ cancel \in CancelPCs /\ recovery \in RecoveryPCs
  /\ pc \in [Workers -> WorkerPCs]

TypeOK == QueueType /\ RowType /\ LedgerType /\ ProcessType

\* CreateBatchImageJob has committed.
Init ==
  /\ QueueInit
  /\ status = "created" /\ providerJob = FALSE /\ retries = 0 /\ hidden = FALSE
  /\ claims = {} /\ frozen = 0
  /\ prov = "none" /\ valid \in BOOLEAN
  /\ sub = "reserve" /\ cancel = "idle" /\ recovery = "idle"
  /\ pc = [w \in Workers |-> "idle"]
  /\ faults = 0

-----------------------------------------------------------------------------
(* The job row and the ledger *)

\* Faulty variant: a terminal job may still be failed or cancelled.
CanTransitionLoose(from, to) ==
  \/ to = "failed"
  \/ from \in {"created", "uploading", "submitted", "running"} \cup Terminal
     /\ to = "cancelled"
  \/ from = "created" /\ to \in {"uploading", "submitted"}
  \/ from = "uploading" /\ to = "submitted"
  \/ from \in {"submitted", "running"} /\ to \in {"running", "indexing"}
  \/ from = "indexing" /\ to = "settling"
  \/ from = "settling" /\ to = "completed"

\* CanTransitionBatchImageJob
CanTransition(from, to) ==
  \/ from \in Terminal \ {"output_deleted"} /\ to = "output_deleted"
  \/ from \notin Terminal /\ to = "failed"
  \/ from \in {"created", "uploading", "submitted", "running"}
     /\ to = "cancelled"
  \/ from = "created" /\ to \in {"uploading", "submitted"}
  \/ from = "uploading" /\ to = "submitted"
  \/ from \in {"submitted", "running"} /\ to \in {"running", "indexing"}
  \/ from = "indexing" /\ to = "settling"
  \/ from = "settling" /\ to = "completed"

SetStatus(s) == status' = s /\ UNCHANGED <<providerJob, retries, hidden>>

\* frozen_balance >= the hold, which other jobs' holds count towards.
Covered == frozen + OtherHolds >= 1

\* ReleaseBatchImageBalance succeeds: it was done before, there is no hold to
\* release (and there will be no second chance: the claim is kept), or it gives
\* the hold back.
ReleaseHold ==
  IF "release" \in claims THEN UNCHANGED ledger
  ELSE /\ claims' = claims \cup {"release"}
       /\ IF "hold" \in claims THEN Covered /\ frozen' = frozen - 1
          ELSE UNCHANGED frozen

\* The transaction is rolled back, its claim with it.
ReleaseRefused ==
  "release" \notin claims /\ "hold" \in claims /\ ~Covered

\* Faulty variant: a repeated capture is applied again.
CaptureAgain ==
  Covered /\ claims' = claims \cup {"capture"} /\ frozen' = frozen - 1

\* CaptureBatchImageBalance
CaptureHold ==
  IF "capture" \in claims THEN UNCHANGED ledger
  ELSE /\ Covered
       /\ claims' = claims \cup {"capture"} /\ frozen' = frozen - 1

-----------------------------------------------------------------------------
(* Submit *)

SubmitStep(from, to) == sub = from /\ sub' = to
SubmitFrame == UNCHANGED <<lock, valid, cancel, recovery, pc, faults>>

\* Insufficient balance fails the job; nothing is frozen.
SubmitReserve ==
  /\ \/ /\ SubmitStep("reserve", "items")
        /\ claims' = claims \cup {"hold"} /\ frozen' = frozen + 1
     \/ SubmitStep("reserve", "recordFailed") /\ UNCHANGED ledger
  /\ UNCHANGED <<queue, row, prov>> /\ SubmitFrame

SubmitItems ==
  /\ SubmitStep("items", "upload")
  /\ UNCHANGED <<queue, row, ledger, prov>> /\ SubmitFrame

\* A job that was cancelled meanwhile keeps its status.
SubmitUpload ==
  /\ \/ /\ CanTransition(status, "uploading")
        /\ SubmitStep("upload", "submit") /\ SetStatus("uploading")
     \/ /\ ~CanTransition(status, "uploading")
        /\ SubmitStep("upload", "releaseOnly") /\ UNCHANGED row
  /\ UNCHANGED <<queue, ledger, prov>> /\ SubmitFrame

\* provider.Submit, with or without success
SubmitProvider ==
  /\ \/ SubmitStep("submit", "update") /\ prov' = "queued"
     \/ SubmitStep("submit", "release") /\ UNCHANGED prov
  /\ UNCHANGED <<queue, row, ledger>> /\ SubmitFrame

\* UpdateBatchImageJobProviderSubmit, or abortOrphanProviderJob.
SubmitUpdate ==
  /\ \/ /\ CanTransition(status, "submitted")
        /\ SubmitStep("update", "enqueue")
        /\ status' = "submitted" /\ providerJob' = TRUE
        /\ UNCHANGED <<retries, hidden, prov>>
     \/ /\ ~CanTransition(status, "submitted")
        /\ SubmitStep("update", "done")
        /\ prov' = "cancelled" /\ UNCHANGED row
  /\ UNCHANGED <<queue, ledger>> /\ SubmitFrame

SubmitEnqueue ==
  /\ SubmitStep("enqueue", "done") /\ Enqueue
  /\ UNCHANGED <<row, ledger, prov>> /\ SubmitFrame

\* releaseFailedSubmitHold; a refused release fails the job and enqueues it for
\* a worker to try again.
SubmitRelease ==
  /\ \/ ReleaseHold /\ SubmitStep("release", "recordFailed")
     \/ ReleaseHold /\ SubmitStep("releaseOnly", "done")
     \/ /\ ReleaseRefused /\ sub \in {"release", "releaseOnly"}
        /\ sub' = "recordRefused" /\ UNCHANGED ledger
  /\ UNCHANGED <<queue, row, prov>> /\ SubmitFrame

SubmitRetryEnqueue ==
  /\ SubmitStep("retryEnqueue", "done") /\ Enqueue
  /\ UNCHANGED <<row, ledger, prov>> /\ SubmitFrame

\* RecordBatchImageJobSubmitFailure: UPDATE ... SET status = 'failed' WHERE id,
\* whatever the status is by now.
SubmitRecordFailed ==
  /\ \/ SubmitStep("recordFailed", "hide")
     \/ SubmitStep("recordRefused", "retryEnqueue")
  /\ SetStatus("failed")
  /\ UNCHANGED <<queue, ledger, prov>> /\ SubmitFrame

\* hidePreUpstreamSubmitFailure takes a job that is over off the owner's list.
SubmitHide ==
  /\ SubmitStep("hide", "done")
  /\ hidden' = (hidden \/ status \in Terminal)
  /\ UNCHANGED <<status, providerJob, retries>>
  /\ UNCHANGED <<queue, ledger, prov>> /\ SubmitFrame

\* The client repeats a Submit with its idempotency key.
Resubmit ==
  /\ status = "submitted" /\ Enqueue
  /\ UNCHANGED <<row, ledger, prov, sub>> /\ SubmitFrame

-----------------------------------------------------------------------------
(* Cancel *)

CancelFrame == UNCHANGED <<lock, valid, sub, recovery, pc, faults>>

\* What Cancel does depends on the job it reads.
CancelRead ==
  /\ cancel = "idle" /\ ~hidden
  /\ "early" \in Env \/ "hold" \in claims \/ sub = "done"
  /\ cancel' = CASE status \in {"failed", "cancelled"} -> "release"
                 [] status \in {"settling", "completed", "output_deleted"}
                      -> "idle"
                 [] providerJob /\ status \notin Terminal \cup {"settling"}
                      -> "provider"
                 [] OTHER -> "transition"
  /\ UNCHANGED <<queue, row, ledger, prov>> /\ CancelFrame

CancelProvider ==
  /\ cancel = "provider" /\ cancel' = "enqueue"
  /\ prov' = IF prov \in {"queued", "running"} THEN "cancelled" ELSE prov
  /\ UNCHANGED <<queue, row, ledger>> /\ CancelFrame

CancelEnqueue ==
  /\ cancel \in {"enqueue", "retryEnqueue"} /\ cancel' = "idle" /\ Enqueue
  /\ UNCHANGED <<row, ledger, prov>> /\ CancelFrame

CancelTransition ==
  /\ cancel = "transition"
  /\ \/ /\ CanTransition(status, "cancelled")
        /\ SetStatus("cancelled") /\ cancel' = "release"
     \/ /\ ~CanTransition(status, "cancelled")
        /\ cancel' = "idle" /\ UNCHANGED row
  /\ UNCHANGED <<queue, ledger, prov>> /\ CancelFrame

CancelRelease ==
  /\ cancel = "release"
  /\ \/ ReleaseHold /\ cancel' = "idle"
     \/ ReleaseRefused /\ cancel' = "retryEnqueue" /\ UNCHANGED ledger
  /\ UNCHANGED <<queue, row, prov>> /\ CancelFrame

-----------------------------------------------------------------------------
(* ReleaseStaleUnsubmittedOnce *)

RecoveryFrame == UNCHANGED <<lock, valid, sub, cancel, pc>>

Recoverable == status \in {"created", "uploading"} /\ ~providerJob

\* FailStaleUnsubmittedBatchImageJob: updated_at is old because the submission
\* died, or because it stalled and its heartbeat with it.
RecoveryFail ==
  /\ recovery = "idle" /\ recovery' = "release"
  /\ Recoverable
  /\ \/ sub = "done" /\ UNCHANGED faults
     \/ /\ "stall" \in Env /\ sub # "done"
        /\ faults < MaxFaults /\ faults' = faults + 1
  /\ SetStatus("failed")
  /\ UNCHANGED <<queue, ledger, prov>> /\ RecoveryFrame

RecoveryRelease ==
  /\ recovery = "release"
  /\ \/ ReleaseHold /\ recovery' = "idle"
     \/ ReleaseRefused /\ recovery' = "retryEnqueue" /\ UNCHANGED ledger
  /\ UNCHANGED <<queue, row, prov, faults>> /\ RecoveryFrame

RecoveryEnqueue ==
  /\ recovery = "retryEnqueue" /\ recovery' = "idle" /\ Enqueue
  /\ UNCHANGED <<row, ledger, prov, faults>> /\ RecoveryFrame

-----------------------------------------------------------------------------
(* The worker: RunOnce and BatchImagePipelineProcessor.Process *)

Goto(w, label) == pc' = [pc EXCEPT ![w] = label]
Step(w, from, to) == pc[w] = from /\ Goto(w, to)
WorkerFrame == UNCHANGED <<prov, valid, api, faults>>

WorkerReserve(w) ==
  /\ Step(w, "idle", "lock") /\ Reserve
  /\ UNCHANGED <<lock, row, ledger>> /\ WorkerFrame

\* A lock held by another worker puts the job back with a delay.
WorkerLock(w) ==
  /\ \/ Step(w, "lock", "read") /\ AcquireJobLock(w) /\ UNCHANGED queue
     \/ Step(w, "lock", "idle") /\ lock # NoOne /\ RequeueAfter /\ UNCHANGED lock
  /\ UNCHANGED <<row, ledger>> /\ WorkerFrame

\* The pipeline reads the job to choose a processor ...
WorkerRead(w) ==
  /\ Step(w, "read", IF status = "settling" THEN "settle" ELSE "process")
  /\ UNCHANGED <<queue, lock, row, ledger>> /\ WorkerFrame

\* Faulty variant: a failed job needs no release.
WorkerProcessDone(w) ==
  /\ Step(w, "process",
          IF status \in Terminal \cup {"settling"} THEN "ack"
          ELSE IF ~providerJob                      THEN "requeue"
          ELSE IF status = "indexing"               THEN "index"
          ELSE "get")
  /\ UNCHANGED <<queue, lock, row, ledger>> /\ WorkerFrame

\* ... and the provider processor reads it again.
WorkerProcess(w) ==
  /\ Step(w, "process",
          IF status \in {"failed", "cancelled"}      THEN "releaseTerminal"
          ELSE IF status \in Terminal \cup {"settling"} THEN "ack"
          ELSE IF ~providerJob                       THEN "requeue"
          ELSE IF status = "indexing"                THEN "index"
          ELSE "get")
  /\ UNCHANGED <<queue, lock, row, ledger>> /\ WorkerFrame

WorkerGet(w) ==
  /\ Step(w, "get", CASE prov = "succeeded" -> "toIndexing"
                      [] prov = "failed"    -> "toFailed"
                      [] prov = "cancelled" -> "toCancelled"
                      [] prov = "queued"    -> "requeue"
                      [] OTHER              -> "toRunning")
  /\ UNCHANGED <<queue, lock, row, ledger>> /\ WorkerFrame

\* TransitionBatchImageJobStatus; a transition that is not allowed is an error.
Transition(w, from, s, to) ==
  /\ \/ CanTransition(status, s) /\ Step(w, from, to) /\ SetStatus(s)
     \/ ~CanTransition(status, s) /\ Step(w, from, "requeue") /\ UNCHANGED row
  /\ UNCHANGED <<queue, lock, ledger>> /\ WorkerFrame

WorkerTransition(w) ==
  \/ Transition(w, "toRunning", "running", "requeue")
  \/ Transition(w, "toIndexing", "indexing", "index")
  \/ Transition(w, "toFailed", "failed", "releaseTerminal")
  \/ Transition(w, "toCancelled", "cancelled", "releaseTerminal")
  \/ Transition(w, "toSettling", "settling", "requeue")
  \/ Transition(w, "indexFailed", "failed", "releaseTerminal")
  \/ Transition(w, "exhaustFail", "failed", "recheck")

\* Results that cannot be read fail the job, whoever looks at it by then;
\* ReplaceBatchImageItemsForJob accepts the others only while indexing.
WorkerIndex(w) ==
  /\ \/ Step(w, "index", "indexFailed")
     \/ status = "indexing" /\ Step(w, "index", "toSettling")
     \/ status # "indexing" /\ Step(w, "index", "requeue")
  /\ UNCHANGED <<queue, lock, row, ledger>> /\ WorkerFrame

WorkerReleaseTerminal(w) ==
  /\ \/ ReleaseHold /\ Step(w, "releaseTerminal", "ack")
     \/ /\ ReleaseRefused /\ Step(w, "releaseTerminal", "requeue")
        /\ UNCHANGED ledger
  /\ UNCHANGED <<queue, lock, row>> /\ WorkerFrame

-----------------------------------------------------------------------------
(* Settle *)

\* Faulty variant: the job is marked before it is charged.
WorkerSettleFirst(w) ==
  /\ Step(w, "settle", IF status = "completed"         THEN "ack"
                       ELSE IF status # "settling"     THEN "requeue"
                       ELSE IF retries = MaxRetries    THEN "exhaust"
                       ELSE IF ~valid                  THEN "recordFailure"
                       ELSE "markSettled")
  /\ UNCHANGED <<queue, lock, row, ledger>> /\ WorkerFrame

\* Faulty variant: nobody looks whether the retries are used up.
WorkerSettleAgain(w) ==
  /\ Step(w, "settle", IF status = "completed"         THEN "ack"
                       ELSE IF status # "settling"     THEN "requeue"
                       ELSE IF ~valid                  THEN "recordFailure"
                       ELSE "capture")
  /\ UNCHANGED <<queue, lock, row, ledger>> /\ WorkerFrame

WorkerSettle(w) ==
  /\ Step(w, "settle", IF status = "completed"         THEN "ack"
                       ELSE IF status # "settling"     THEN "requeue"
                       ELSE IF retries = MaxRetries    THEN "exhaust"
                       ELSE IF ~valid                  THEN "recordFailure"
                       ELSE "capture")
  /\ UNCHANGED <<queue, lock, row, ledger>> /\ WorkerFrame

WorkerCapture(w) ==
  /\ \/ CaptureHold /\ Step(w, "capture", "markSettled")
     \/ /\ "capture" \notin claims /\ ~Covered
        /\ Step(w, "capture", "recordFailure") /\ UNCHANGED ledger
  /\ UNCHANGED <<queue, lock, row>> /\ WorkerFrame

\* MarkBatchImageJobSettled: WHERE status = 'settling'.
WorkerMarkSettled(w) ==
  /\ \/ status = "settling" /\ Step(w, "markSettled", "ack")
        /\ SetStatus("completed")
     \/ status # "settling" /\ Step(w, "markSettled", "requeue")
        /\ UNCHANGED row
  /\ UNCHANGED <<queue, lock, ledger>> /\ WorkerFrame

\* Faulty variant: the failure is recorded and not counted.
CountRetryLost == UNCHANGED row

\* retry_count matters only up to the limit.
CountRetry ==
  /\ retries' = IF retries < MaxRetries THEN retries + 1 ELSE retries
  /\ UNCHANGED <<status, providerJob, hidden>>

\* recordSettlementFailure: only billing failures look whether the job is over.
WorkerRecordFailure(w) ==
  /\ CountRetry
  /\ Step(w, "recordFailure", IF retries' = MaxRetries THEN "exhaust"
                              ELSE IF valid            THEN "recheck"
                              ELSE "requeue")
  /\ UNCHANGED <<queue, lock, ledger>> /\ WorkerFrame

\* failExhaustedSettlement gives the hold back, then fails the job.
WorkerExhaust(w) ==
  /\ \/ ReleaseHold /\ Step(w, "exhaust", "exhaustFail") /\ UNCHANGED row
     \/ ReleaseRefused /\ Step(w, "exhaust", "recheck") /\ CountRetry
        /\ UNCHANGED ledger
  /\ UNCHANGED <<queue, lock>> /\ WorkerFrame

\* Faulty variant: the job is not looked at again.
WorkerRecheckNever(w) ==
  /\ Step(w, "recheck", "ack")
  /\ UNCHANGED <<queue, lock, row, ledger>> /\ WorkerFrame

\* BatchImagePipelineProcessor.Process after a billing failure.
WorkerRecheck(w) ==
  /\ Step(w, "recheck", IF status \in Terminal THEN "ack" ELSE "requeue")
  /\ UNCHANGED <<queue, lock, row, ledger>> /\ WorkerFrame

WorkerRequeue(w) ==
  /\ Step(w, "requeue", "unlock") /\ RequeueAfter
  /\ UNCHANGED <<lock, row, ledger>> /\ WorkerFrame

WorkerAck(w) ==
  /\ Step(w, "ack", "unlock") /\ Ack
  /\ UNCHANGED <<lock, row, ledger>> /\ WorkerFrame

\* defer lock.Release
WorkerUnlock(w) ==
  /\ Step(w, "unlock", "idle") /\ ReleaseJobLock(w)
  /\ UNCHANGED <<queue, row, ledger>> /\ WorkerFrame

-----------------------------------------------------------------------------
(* The provider, the clock, cleanup and faults *)

ProviderWorks ==
  /\ \/ prov = "queued" /\ prov' = "running"
     \/ prov = "running" /\ prov' \in {"succeeded", "failed"}
  /\ UNCHANGED <<queue, lock, row, ledger, valid, api, pc, faults>>

MoveDelayed ==
  /\ MoveDueDelayedToReady
  /\ UNCHANGED <<lock, row, ledger, prov, valid, api, pc, faults>>

\* A worker keeps the active entry and its lock fresh while it runs: only a
\* worker that stalls loses them, which is a fault.
Expires(alive) ==
  \/ ~alive /\ UNCHANGED faults
  \/ /\ alive /\ "stall" \in Env
     /\ faults < MaxFaults /\ faults' = faults + 1

RecoverActive ==
  /\ RecoverStaleActive
  /\ Expires(\E w \in Workers : pc[w] # "idle")
  /\ UNCHANGED <<lock, row, ledger, prov, valid, api, pc>>

LockExpires ==
  /\ lock # NoOne /\ lock' = NoOne
  /\ Expires(\E w \in Workers : lock = w /\ pc[w] \notin {"idle", "lock"})
  /\ UNCHANGED <<queue, row, ledger, prov, valid, api, pc>>

\* MarkBatchImageOutputDeleted
DeleteOutputs ==
  /\ status = "completed" /\ SetStatus("output_deleted")
  /\ UNCHANGED <<queue, lock, ledger, prov, valid, api, pc, faults>>

\* DeleteRecord
DeleteRecord ==
  /\ status \in Terminal /\ ~hidden /\ hidden' = TRUE
  /\ UNCHANGED <<queue, lock, status, providerJob, retries, ledger, prov, valid,
                 api, pc, faults>>

Fault == faults < MaxFaults /\ faults' = faults + 1

WorkerCrash(w) ==
  /\ Fault /\ pc[w] # "idle" /\ Goto(w, "idle")
  /\ UNCHANGED <<queue, lock, row, ledger, prov, valid, api>>

\* A worker's call fails: an error of Process requeues the job; an error of the
\* queue leaves it in the active set for RecoverActive.
WorkerCallFails(w) ==
  /\ Fault
  /\ \/ /\ pc[w] \in {"read", "process", "get", "toRunning", "toIndexing",
                      "toFailed", "toCancelled", "index", "toSettling",
                      "indexFailed", "releaseTerminal", "settle",
                      "markSettled", "exhaustFail", "recheck"}
        /\ Goto(w, "requeue") /\ UNCHANGED ledger
     \/ Step(w, "capture", "recordFailure") /\ UNCHANGED ledger
     \/ /\ "ackLost" \in Env /\ Step(w, "capture", "recordFailure")
        /\ CaptureHold
     \/ /\ Step(w, "recordFailure", IF valid THEN "recheck" ELSE "requeue")
        /\ UNCHANGED ledger
     \/ Step(w, "exhaust", "recheck") /\ UNCHANGED ledger
     \/ /\ pc[w] \in {"requeue", "ack"} /\ Goto(w, "unlock")
        /\ UNCHANGED ledger
     \/ Step(w, "unlock", "idle") /\ UNCHANGED ledger
  /\ UNCHANGED <<queue, lock, row, prov, valid, api>>

\* Asking for the lock fails: the job goes back with a delay.
WorkerLockFails(w) ==
  /\ Fault /\ Step(w, "lock", "idle") /\ RequeueAfter
  /\ UNCHANGED <<lock, row, ledger, prov, valid, api>>

\* A call of Submit, Cancel or the recovery fails.  Submit ignores errors of the
\* writes that record its failure.
SubmitCallFails ==
  /\ Fault
  /\ \/ sub = "reserve" /\ sub' = "recordFailed" /\ UNCHANGED ledger
     \/ /\ "ackLost" \in Env /\ sub = "reserve" /\ sub' = "recordFailed"
        /\ claims' = claims \cup {"hold"} /\ frozen' = frozen + 1
     \/ sub \in {"items", "upload"} /\ sub' = "release" /\ UNCHANGED ledger
     \/ /\ sub \in {"release", "releaseOnly"} /\ sub' = "recordRefused"
        /\ UNCHANGED ledger
     \/ sub = "recordFailed" /\ sub' = "hide" /\ UNCHANGED ledger
     \/ sub = "recordRefused" /\ sub' = "retryEnqueue" /\ UNCHANGED ledger
     \/ /\ sub \in {"update", "enqueue", "hide", "retryEnqueue"}
        /\ sub' = "done" /\ UNCHANGED ledger
  /\ prov' = IF sub = "update" THEN "cancelled" ELSE prov
  /\ UNCHANGED <<queue, lock, row, valid, cancel, recovery, pc>>

CancelCallFails ==
  /\ Fault /\ cancel # "idle"
  /\ cancel' = IF cancel = "release" THEN "retryEnqueue" ELSE "idle"
  /\ UNCHANGED <<queue, lock, row, ledger, prov, valid, sub, recovery, pc>>

RecoveryCallFails ==
  /\ Fault
  /\ \/ recovery = "release" /\ recovery' = "retryEnqueue"
     \/ recovery = "retryEnqueue" /\ recovery' = "idle"
  /\ UNCHANGED <<queue, lock, row, ledger, prov, valid, sub, cancel, pc>>

ApiCrash ==
  /\ Fault /\ "crash" \in Env
  /\ \/ sub # "done" /\ sub' = "done" /\ UNCHANGED <<cancel, recovery>>
     \/ cancel # "idle" /\ cancel' = "idle" /\ UNCHANGED <<sub, recovery>>
     \/ recovery # "idle" /\ recovery' = "idle" /\ UNCHANGED <<sub, cancel>>
  /\ UNCHANGED <<queue, lock, row, ledger, prov, valid, pc>>

-----------------------------------------------------------------------------
Submit == \/ SubmitReserve \/ SubmitItems \/ SubmitUpload \/ SubmitProvider
          \/ SubmitUpdate \/ SubmitEnqueue \/ SubmitRelease
          \/ SubmitRetryEnqueue \/ SubmitRecordFailed \/ SubmitHide

Cancel == \/ CancelProvider \/ CancelEnqueue \/ CancelTransition
          \/ CancelRelease

Recovery == RecoveryFail \/ RecoveryRelease \/ RecoveryEnqueue

Work(w) ==
  \/ WorkerReserve(w) \/ WorkerLock(w) \/ WorkerRead(w) \/ WorkerProcess(w)
  \/ WorkerGet(w) \/ WorkerTransition(w) \/ WorkerIndex(w)
  \/ WorkerReleaseTerminal(w) \/ WorkerSettle(w) \/ WorkerCapture(w)
  \/ WorkerMarkSettled(w) \/ WorkerRecordFailure(w) \/ WorkerExhaust(w)
  \/ WorkerRecheck(w) \/ WorkerRequeue(w) \/ WorkerAck(w) \/ WorkerUnlock(w)

Next ==
  \/ Submit \/ Resubmit \/ CancelRead \/ Cancel \/ Recovery
  \/ \E w \in Workers : Work(w) \/ WorkerCrash(w) \/ WorkerCallFails(w)
                      \/ WorkerLockFails(w)
  \/ ProviderWorks \/ MoveDelayed \/ RecoverActive \/ LockExpires
  \/ DeleteOutputs \/ DeleteRecord
  \/ SubmitCallFails \/ CancelCallFails \/ RecoveryCallFails \/ ApiCrash

Spec == Init /\ [][Next]_vars

\* Every loop of the worker process keeps running, the provider finishes its
\* batches, an expired key disappears and a request that was begun goes on.
\* Nobody has to cancel or resubmit, and faults need not happen.
Fairness ==
  /\ \A w \in Workers : WF_vars(Work(w))
  /\ WF_vars(ProviderWorks) /\ WF_vars(MoveDelayed)
  /\ WF_vars(RecoverActive) /\ WF_vars(LockExpires)
  /\ WF_vars(Submit) /\ WF_vars(Cancel) /\ WF_vars(Recovery)

FairSpec == Spec /\ Fairness

-----------------------------------------------------------------------------
(* Properties *)

Captured == "capture" \in claims
Released == {"hold", "release"} \subseteq claims

\* A job that is kept out of the queue by its inflight key is in the queue:
\* whichever worker crashes or stalls where, the id is in the ready list, the
\* delayed or the active set as long as Enqueue refuses it.
InflightIsQueued == inflight => Queued

\* A completed job was charged for, whatever stalled, crashed or was retried: no
\* images are delivered for nothing.
CompletedIsCharged == status \in {"completed", "output_deleted"} => Captured

\* A completed job was paid for out of its own hold, and nothing of the hold was
\* given back.
CompletedIsPaid ==
  status \in {"completed", "output_deleted"} =>
    Captured /\ ~Released /\ frozen = 0

\* The hold is charged or given back, never both, and neither is ever taken out
\* of the balance that other jobs of the user have frozen: as long as there are
\* not more failures than the settlement's retries can absorb.
HoldUsedOnce ==
  faults <= MaxRetries => frozen >= 0 /\ ~(Captured /\ Released)

Quiescent == /\ sub = "done" /\ cancel = "idle" /\ recovery = "idle"
             /\ \A w \in Workers : pc[w] = "idle"
             /\ ~Queued

\* Once everything about a job that failed or was cancelled has come to rest,
\* nothing of the user's balance is still frozen for it, whatever single call
\* or worker failed: a release that fails is tried again by a worker.
NothingStaysFrozen ==
  Quiescent /\ status \in {"failed", "cancelled"} /\ faults <= 1 => frozen <= 0

\* A job leaves the queue only when it is over and its hold has been charged or
\* given back: after that no worker would look at it again.
OnlySettledLeaves ==
  [][inflight /\ ~inflight' => status \in Terminal /\ frozen <= 0]_vars

StaysOver ==
  /\ status \in Terminal =>
       \/ status' = status
       \/ status = "completed" /\ status' = "output_deleted"
       \/ /\ status = "cancelled" /\ status' = "failed"
          /\ sub \in {"recordFailed", "recordRefused"}
  /\ status = "settling" => status' \in {"settling"} \cup Terminal

\* A job that is over stays as it ended, whatever straggles: a completed or failed
\* job is never touched again but for the deletion of a completed job's outputs,
\* and a cancelled one only by its own Submit call, which records its failure
\* without a look at the status.  A job being settled never goes back to work.
TerminalIsFinal == [][StaysOver]_vars

\* A job that was enqueued ends, and nothing stays frozen for it, unless there
\* are more failures than the settlement's retries can absorb.
EnqueuedEnds ==
  (inflight /\ providerJob) ~>
    \/ status \in Terminal /\ frozen <= 0
    \/ faults > MaxRetries
=============================================================================
