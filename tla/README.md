# A verification project for sub2api (MBclawZZ)

This directory holds TLA+ models of the parts of sub2api that move money or
guard an effect that must happen once, the TLC configurations that check them
and TLAPS proofs about them. sub2api is a gateway to the APIs of AI vendors: it
pools upstream accounts, hands API keys to users, charges them by usage and
sells balance and subscriptions. The backend (`src/backend`, Go) keeps its
state in PostgreSQL and Redis, and any number of instances may run on them.

Every module is translated from the code; comments name the function. In the
models a step is one SQL statement or transaction, one Redis script, or one
call of an external service. Between two steps anything else may happen.

## 1. The system

### Components modelled

**Payment orders** (`payment_order.go`, `payment_order_lifecycle.go`,
`payment_fulfillment.go`, `payment_webhook_handler.go`). State: the
`payment_orders` row (status, `paid_at`, `updated_at`), the redeem
code of a balance order, audit rows used as idempotency tokens
(`SUBSCRIPTION_ASSIGNED`, `AFFILIATE_REBATE_APPLIED`, `_SKIPPED`), the balance
and the inviter's credit. Operations: create, webhook, cancel, expire,
reconcile, verify, retry. All but the first end in the same chain:
confirmPayment, toPaid, executeFulfillment, acquire the lease, grant, rebate,
markCompleted or markFailed. The lease is the status `RECHARGING` with
`updated_at` as its version. Hard: webhooks are repeated and come with cancels,
expiry and retries; a lease is taken over while its holder is still running; a
crash leaves any prefix of the chain. Right means: granted once, only when
paid in full, and paid orders get completed while their grant is not refused.

**Refunds** (`payment_refund.go`, admin `payment_handler.go`). State: the
order's status, what was taken back from the user, the audit rows
`REFUND_PENDING`, `REFUND_SUCCESS` and `REFUND_ROLLBACK_FAILED`, the refunds at
the provider. Operations: request, prepare and execute (lock, deduct, gateway
refund, then mark or roll back), query and finalize a pending refund. Hard:
there is no lease; each of five external effects may fail or be lost; retries
rely on what earlier attempts left in the audit log. Right means: REFUNDED is
money returned, the grant is taken back at most once, and a deduction that was
kept is on record.

**Batch image jobs and their queue** (`batch_image_public.go`, `_processor.go`,
`_settlement.go`, `_worker.go`, `_billing_hold.go`, `_billing_recovery.go`,
`_cleanup.go`; `batch_image_repo.go`, `batch_image_queue.go`,
`usage_billing_repo.go`). State: the job row, the hold in `frozen_balance` with
its dedup rows, the Redis ready list, delayed and active sets, inflight key and
job lock. Operations: submit, cancel, worker steps, settlement, recovery,
deletion. Hard: PostgreSQL, Redis, the ledger and the provider are four stores
without a common transaction; workers outlive their locks; the settlement is
retried and given up. Right means: a delivered batch is charged once, a failed
one is not, nothing stays frozen, no job is lost.

**Idempotency coordinator** (`idempotency.go`, `idempotency_repo.go`,
`idempotency_cleanup_service.go`, `handler/idempotency_helper.go`). State: one
`idempotency_records` row per scope and key. Operations: Execute (create, read,
take over or replay, run, mark) and the cleanup. Hard: the record has no owner
column, only times, and every request uses the `now` it read at its start.
Right means: one execution at a time, none after a success, the right answer
replayed.

**Scheduler outbox** (`scheduler_outbox_repo.go`, `pollOutbox` in
`scheduler_snapshot_service.go`). State: the rows of `scheduler_outbox` with
their dedup keys, the watermark and the rebuild lock in Redis. Operations:
change an account in or out of a transaction, enqueue its event, poll, handle,
move the watermark, delete what was consumed. Hard: ids are drawn at the INSERT
and rows appear at the commit; several instances poll with one watermark; a
change may insert no row because one is pending. Right means: no event is passed
by, and a change that is not in the cache has something on its way.

**Scheduler snapshot cache** (`scheduler_snapshot_service.go`,
`scheduler_cache.go`). State: per bucket the active snapshot, its version and
epoch, the retired mark, the registry, the accounts' own keys, a rebuild lock
and the lease of a group's lifecycle. Operations: read and publish on a miss,
handle events, full rebuild, write back single accounts, retire and reopen.
Hard: a writer holds accounts it loaded long ago, versions are allocated after
the load, and a group may be disabled and enabled again meanwhile. Right means:
a retired bucket serves nothing, a reopened one nothing from before, and the
cache settles on what the database says.

**System operation lock** (`system_operation_lock_service.go`, on the
idempotency table). State: one row and, per operation, a renewal goroutine.
Operations: acquire (create or reclaim), renew, release, cleanup. Hard: the row
is guarded by times only, the release by the row's id only. Right means: two
updates or restarts never run together, and a dead one does not block for ever.

**OAuth token refresh** (`oauth_refresh_api.go`, `token_refresh_service.go`, the
token providers, `token_cache_invalidator.go`, admin `account_handler.go`).
State: the account's credentials and status, the refresh lock and the cached
access token in Redis, a mutex per process; at the provider the one refresh
token that is still accepted. Operations: refresh in the background and on
requests, cache the token, and the administrator's refresh, edit and new
authorization. Hard: a refresh token works once; the lock has a TTL and is
skipped when Redis fails; the user may authorize again during a refresh. Right
means: no used token is presented, no account is disabled without reason, the
new authorization survives, an expiring token gets refreshed.

**Concurrency slots** (`concurrency_service.go`, `concurrency_cache.go`,
`gateway_helper.go`). State in Redis: the slots of a user or account, a wait
counter, an index of who has either. Operations: acquire, wait, release, sweep,
start-up clean-up. Hard: calls fail open, clients leave, processes die with
slots in hand, and start while others run. Right means: no more requests than
the limit, a wait counter that is not wrong for good, nothing left after a
restart.

### The rest

PROJECT.json lists every part of the repository with the reason why it is not
modelled. The most interesting ones left: usage billing, the caches of balances
and API keys, the leader lock, the user message queue, the refresh token
sessions and the failover loop. Forwarding, protocol conversion and
administration are data and I/O with hardly any state; `ent` is generated; the
directory of reference projects is a copy of other people's code.

Interactions that the models contain: the webhook handler's answer decides
whether a provider repeats a notification (`ack`); fulfilment calls Redeem,
assigns subscriptions and accrues the rebate in their own transactions; a
refund starts from an order that PaymentOrder left COMPLETED; batch image jobs
reserve, capture and release through the billing repository, and extend the
queue; the coordinator and the system operation lock both extend the same
store; the outbox brings workers to the snapshot cache.

## 2. Modules

| module | models |
|---|---|
| `PaymentPromise` | abstract: money taken, granted once, rebated at most once, completed |
| `PaymentOrder` | one order from creation to fulfilment, any number of workers |
| `PaymentRefund` | the refund of one completed order, any number of admin requests |
| `BatchImageQueue` | the Redis queue seen from one job: one action per script |
| `BatchImageJob` | EXTENDS the queue: Submit, Cancel, recovery, workers, ledger |
| `IdempotencyStore` | one record and the repository's statements on it |
| `Idempotency` | EXTENDS the store: Execute, cleanup, the clock |
| `SystemOperationLock` | EXTENDS the store: the lock, its renewal goroutines, the clock |
| `SchedulerPollers` | the constants that the next two share |
| `SchedulerOutbox` | outbox rows, their writers and the pollers of several instances |
| `SchedulerBucket` | one bucket of the snapshot cache and everyone who writes it |
| `OAuthRefresh` | one account's credentials, its refreshers and its administrator |
| `ConcurrencySlots` | the slots and the wait counter of one user or account |
| `*Proofs` | theorems about `PaymentOrder` (and that it implements PaymentPromise), `PaymentRefund`, `BatchImageJob`, `Idempotency`, `SystemOperationLock`, `OAuthRefresh`, `ConcurrencySlots`; `SchedulerProofs` is about the bucket and the outbox |
| `MC*` | symmetry sets for TLC; nothing is redefined |

One order, job, key, bucket, account or user is enough, because the statements
of these components are keyed by its id. The exceptions are named where they
matter: other jobs' holds share the user's `frozen_balance` (`OtherHolds`), the
accounts' own keys are shared by all snapshots (`entry`), and limits over
several orders of a user are not modelled.

### How state and steps correspond to the code

*PaymentOrder.* A worker is a goroutine with a position `pc` and the request it
serves. `updated_at` is read in two ways and is kept as those: `age` (compared
with the grace period and the lease duration, both five minutes) and `holders`
(workers whose `lease.version` equals it). Ent sets `updated_at` on every
update, so `WriteRow` resets both, also for PersistTradeNo, which only names the
trade number. `grants` and `rebates` count effects on the balance, the
subscription and the inviter. The transaction of a subscription (CheckAssigned,
Assign) and that of a rebate (ClaimRebate, AccrueRebate) are two steps each:
their first SELECT is a snapshot, and the unique index decides at the insert.
`grantable` is what fulfilment asks of the rest of the system: the
subscription's group exists and is active (`doSub`, on every attempt, also when
the subscription was assigned by an earlier one), the user exists and has not
reached Redeem's rate limit. Regulate changes it either way at any time. A
refused attempt ends in markFailed, and so does one whose grant is committed
while a later call fails (GrantedThenFails: Redeem's second read of the code,
the invalidation of the subscription's caches).

*PaymentRefund.* Amounts are all or nothing: `deducted` counts how often the
grant was taken, net of give-backs. `keyed` says whether the provider derives
the refund's id from order and amount (a repeated call is then the same
refund). `detail` is the one `REFUND_PENDING` row that the unique index on
(order_id, action) admits. `overlapped` says that a finalization, which takes no
lock, ran beside another request (a plan's `by` says which call it serves);
executions may overlap as they like, REFUNDING keeps them apart. RefundedIsFinal
excludes only `overlapped`; DebitedAtMostOnce and OwedIsOnRecord exclude faults
too (`Undisturbed`).

*BatchImageJob.* `claims` is the dedup table for the job's three request ids,
`frozen` the job's part of the frozen balance; `Covered` is the WHERE clause
that lets a release or capture draw on other jobs' holds. `valid` says whether
the settlement's checks of counts and prices pass. Scores of the sorted sets are
times and become guards.

*Idempotency.* `clock` is real time in small units; `req[r].now` is the time a
request read at its start. `first` is a history variable: the record of the
latest first success and the end of its window.

*SystemOperationLock.* `lock[o]` is what an operation's Acquire has read and what
it returned, `loop[o]` its renewLoop: waiting for a tick, or between reading the
clock and the UPDATE. `overran` is set when an operation is still at work after
the lock it last wrote has ended, and cleared when all are at rest; `lastRun` is
the last time there was an operation. Release writes the time it read when the
operation finished, so its UPDATE may come a little later than it says.

*SchedulerOutbox.* (Its initial states, steps and specification are OutboxInit,
OutboxNext and OutboxSpec, so that one proof module can extend it together with
the bucket.) A row is `open` from its INSERT to the commit of its
transaction. `stale` says that a committed change is not in the cache, `fresh`
that a poller's load contains every change. `late` are the rows committed after
a row with a higher id was read. `missed` records why the outbox will not bring
a change to the cache: its row was late; a change inside a transaction was
deduplicated against a row polled before the commit, or after its own commit
against a late keyed row; the insert after the commit failed; a handler skipped
the bucket because another rebuild held the lock; an older load was published
over a newer one. In all these cases the next full rebuild is the remedy.

*SchedulerBucket.* The accounts are a revision number `rev`. Versions are only
compared, so `Ranked` replaces them by their order. `born` is the number of
retirements when a writer loaded its accounts: a history value, which the code
does not have and the epoch must make up for.

*OAuthRefresh.* A refresh token is a family (one per authorization) and a number
in it; the provider accepts the latest number of a family that was not revoked.
`grok` picks the platform whose writes are conditional, `together` whether the
workers share a process and so its mutex. A request that finds the lock held
takes the cached token or the one it has; one for a Grok account polls the cache
and the account (WaitForCache, WaitForRefreshedToken) and replaces a differing
cached token by the one that has come, without a version check. A request of a
platform with projects may write the credentials it read back with the project
it found (BackfillProject). `mishaps` records what the code is not proof
against: overlapping refreshes or lost rotations ("race"); the administrator's
own refresh, and credentials written back that had changed since they were read,
by him or by a request ("overwrite"); and a token that was cached although
others were stored by then, or without a later version ("cache").

*ConcurrencySlots.* An entry of the sorted set belongs to the request that will
remove it (`held`) or to nobody (`orphans`: the answer was lost, or the process
died). `lost` marks a request whose entry expired or was removed by another
process's start-up. `leaked` is the number of counts in the wait counter that nobody
may take off (never more than the counter), and `missing` the number of waiting
requests that may not be counted (never more than wait); `unindexed` says that
the index may lack load;
`alone` is the process that starts while no other is up.

### Faults

A failing call has no effect and takes the handler's error path; a crash ends a
request or worker between two steps. Provider calls are the exception (the
answer of a refund or of a token rotation may be lost), the acquisition of a
slot whose client leaves, and "ackLost" in batch jobs, which makes a reservation
or a capture commit and report an error. TTLs of Redis locks end while their
holder still runs, where the code lets them. Faults are bounded by `MaxFaults`.
In `Idempotency` they are not bounded: Abandon may end any request anywhere. In
`BatchImageJob` `Env` switches on what the code does not claim to survive
without damage, so that each run says what it assumes.

## 3. Runs

| run | result | states | shows |
|---|---|---|---|
| `payment_order` | holds | 583 k | two workers, two faults, a group or user that comes and goes: PaymentPromise is implemented (granted and rebated at most once, only if paid), COMPLETED is final, a 2xx is truthful, paid orders get completed unless their grant stays refused |
| `refund` | holds | 1.63 M | two admins, two faults: REFUNDED is returned, nothing is given back twice; with finalizations on their own REFUNDED is final, and without faults the grant is taken back at most once and kept deductions are on record |
| `refund_rollback` | violated | | a second deduction after a failed rollback |
| `batch_job` | holds | 120 k | two workers, three faults, another job's hold in the same frozen balance: completed is paid out of its own hold, the hold used once, nothing stays frozen, only settled jobs leave the queue, enqueued jobs end |
| `batch_job_hostile` | holds | 244 k | with stalls, API crashes, early cancels and lost answers: inflight jobs are queued, completed is charged, a job stays as it ended but for a cancelled one that its own Submit records as failed |
| `idempotency` | holds | 2.34 M | three requests, two payloads: one executor, once per window, faithful replays |
| `scheduler_outbox` | holds | 221 k | no row is passed by, an unseen change is being inserted or has a row above the watermark that no poll has handled, every row is handled in the end |
| `scheduler_bucket` | holds | 403 k | the epoch fences off old writers; snapshot and lifecycle settle on the database |
| `system_lock` | holds | 1.09 M | operations exclude each other while none outlives its lock; the creator is alone; a dead one blocks for one lease at most |
| `system_lock_renewal` | violated | | an operation that reclaimed the row cannot renew it |
| `oauth_refresh` | holds | 785 k | refreshes do not overlap, no used token, deserved errors only, the cache is current, a new authorization is kept, tokens get refreshed |
| `concurrency_slots` | holds | 3.24 M | the limit, what the wait counter may be off by, the clean-up of a restart |

Some invariants of earlier stages are proved and no longer have a run:
GrantedAtMostOnce, GrantedOnlyIfPaid, CompletedIsGranted and RebateAtMostOnce
(consequences of KeepsPromise, which has one), LeaseGuardsExit, and the type
invariants of the modules with proofs.

### Bounds, and why they are enough

* Two workers or admins: every guard compares a process with the row, and a
  takeover needs a holder and a successor. The proofs cover any number where
  there is one.
* `Window = 1`, so ages 0, 1 and 2 are fresh, exactly at the limit and past it.
  Both comparisons (`>=` the grace limit, `<=` the lease limit) meet their edge.
* Two faults in `payment_order`: one breaks a fulfilment, the other its repair.
* `MaxRefunds = 2`: a second refund after a failed one is where identifiers go
  wrong. Two faults: the refund and its rollback, or two losses.
* `MaxRetries = 2` with three faults in `batch_job`, one more than the retries.
  HoldUsedOnce and EnqueuedEnds say what holds while failures are within the
  retry limit and what may happen after it; the third fault keeps that premise
  from being always true. NothingStaysFrozen speaks of at most one fault: the
  retry of a release that goes through the queue is itself a call, and two
  failures in a row lose it.
* `OtherHolds = 1` in `batch_job`: the user's frozen balance then covers a second
  charge, or the release of a hold that was charged, at the expense of another
  job, which is what CompletedIsPaid and HoldUsedOnce exclude. It is `0` in
  `batch_job_hostile`, where such a release is refused, so that the paths after a
  refusal are taken too. The theorems are for any OtherHolds.
* Idempotency: `TTL = 3`, `ProcessingTimeout = 2`, `FailedRetryBackoff = 1` and
  a clock up to 7 allow a record to expire twice, with retries in between.
* Outbox: two pollers, two clients, two rows and one fault. Two rows are what it
  takes for one to commit late, or to be deduplicated against the other.
* Bucket: one process is both reader and poller, another runs full rebuilds;
  three changes let a group be disabled and enabled with accounts changing in
  between.
* System lock: two operations, `Lease = 7` (so a renewal every 2, `Second = 1`), `TTL = 10`,
  `RunTime = 8` and a clock up to 14: a second operation reclaims the row,
  outlives its lease, and meets the first one again.
* OAuth: one worker of each kind and one administrator's request, one rotation
  in each of two families: an overlap, a new authorization during a refresh, and
  a lost rotation all occur.
* Slots: three requests for one slot and a queue of two (a holder and two that
  wait, or one that waits behind a leaked count and one that is turned away),
  two processes and two starts: one starts beside another, or again after a
  crash.

CHECK_DEADLOCK is off everywhere because these systems may come to rest: an
order that is completed and acknowledged, a job that is over, a clock or a
counter of changes at its bound.

### Fairness

*PaymentOrder*: weak fairness of each worker's steps (a goroutine that is not
cut off goes on) and of time; strong fairness of the notification, since a
provider repeats it until it gets a 2xx, although workers may be busy in
between. Nobody is assumed to pay, cancel, verify or retry.
PaidEventuallyCompleted excludes what the code excludes: payments after the
grace period (acknowledged as late) and webhooks answered 2xx after a read error
(`confirmPayment` and `alreadyProcessed` return nil when the order cannot be
read, or when its status is none they know). It is also conditional on
`<>[]grantable`: `doSub` fails every attempt while the group is missing or not
active, and Redeem while the user is gone or rate limited, so an order of a
group that is never reopened stays FAILED although it is paid. A refusal that
ends, whenever that is, leaves nothing behind that keeps the order from
completion.

*BatchImageJob*: weak fairness of the worker loops, the two queue sweeps, the
expiry of a lock, the provider, and requests that were begun. The worker process
runs these in loops for as long as it lives. Faults and cancels need not happen.

*SchedulerOutbox*: weak fairness of each poller (a ticker, one second), of
commits (a transaction ends) and of the expiry of the rebuild lock. Nobody is
assumed to change an account, and no rebuild is assumed.

*SchedulerBucket*: weak fairness of work that was begun, of the full rebuild (its
own ticker) and of the expiry of the lock and the lease.

*OAuthRefresh*: weak fairness of the background service's cycle (a ticker), of
workers that have begun, and of the lock's expiry; strong fairness of taking the
mutex, since Go's mutexes do not starve a waiter. Requests and administrators
need not come.

### Timing assumptions

`TimeAssumption` of Idempotency says that a request claims its record within
ClaimTime, not longer than the processing timeout (30 s by default, for a few
SQL statements), and that an execution ends within RunTime, not longer than the
TTL (a day). Without the second, an operation slower than the TTL would run
twice: the record of a running request is not renewed.

`LockTimeAssumption` of SystemOperationLock: ticks come every third of a
lease, a second at least, and are on time, a call ends within CallTime (its context has two seconds), less
than the renewal interval; the claim, one renewal that fails and one that
succeeds fit in a lease (ClaimTime + 2 RenewInterval + CallTime < Lease, which
is 30 s); a claim takes no longer than an operation may; and an operation ends
before the TTL of the row, even if that is counted from a claim or a renewal
that was under way for a while (RunTime + ClaimTime < TTL, RunTime + CallTime <
TTL). The proof found the last two: an earlier assumption that spoke of calls
only let an operation outlive its row after a slow claim.

## 4. Findings

1. **Second deduction** (`refund_rollback`). The finalization looks at
   `deductionRollbackOK` of the pending refund and not at the recorded failure
   of the rollback before it.
2. **A reclaimed lock is not renewed** (`system_lock_renewal`). `TryReclaim`
   keeps the fingerprint of the row's creator, while the renewal asks for the
   holder's operation id. Every operation but the first of a TTL loses its lock
   after one lease, and another may start beside it.

The quoted lines are in PROJECT.json. Seen and not turned into runs:

*Payments.* The lease may have two holders: it is won by one statement and its
version read by the next, and a worker that stalls for five minutes in between
reads its successor's version. Money is safe (the grant theorems do not rest on
the lease), but an order may be marked FAILED under a running fulfilment.
Storing a trade number moves `updated_at`, from which the grace period is
counted, so a payment of an order that expired long ago is accepted. An order
FAILED by CreateOrder is not retried by an admin, since it has no `paid_at`,
while `docs/PAYMENT.md:252` says "admin can retry".

*Refunds.* The unique index on audit rows also rejects the second
`REFUND_PENDING` row, so that a later pending refund is queried by the id of the
first. Two concurrent finalizations both deduct, and may overwrite REFUNDED. A
crash leaves REFUNDING, which no operation accepts. A pending refund that an
admin started without a deduction is finalized with one, since
`refundFinalizePlan` always deducts.

*Batch images.* A straggler that outlived its lock makes another worker take a
settling job for done and ack it. A settlement that runs out of retries releases
a hold that was captured. A cancel before the reservation uses up the release's
request id, so the hold stays frozen for ever. `RecordBatchImageJobSubmitFailure`
(`batch_image_repo.go:252`) writes `failed` whatever the status is: a job that was
cancelled while Submit was at the provider, or whose release fails, ends as
failed (`batch_image_public.go:355-361` and 404), a transition that
CanTransitionBatchImageJob forbids; the comment at `batch_image_public.go:339`
says that the status of a job that is over is not overwritten, which that branch
observes and its siblings do not. It is the one exception that TerminalIsFinal
makes. The documented settlement
request id `batch_image_settlement:{batch_id}` (`docs/BATCH_IMAGE_MVP.md:168`)
is `batch_image_capture:` in the code.

*Idempotency.* RunsOncePerWindow is about the first success of a record. A record
that expired and was reclaimed keeps its id, and `TryReclaim` compares only the
status and `locked_until`: a request that read the expired record long ago
(within its ClaimTime) may reclaim it after another request reclaimed it,
executed and succeeded, and so execute inside the new window. A response longer
than the limit is cut and is no JSON any more, so that replays fail. The
fail-open mode of the admin helper, which only tests use, would repeat an
operation whose success could not be written.

*Scheduler.* A row that commits after a higher id was polled is never read and
is deleted, although the comment at `scheduler_outbox_repo.go:129` counts on a
grace period. UnlockBucket deletes the rebuild lock whoever holds it. A slow
load gets the higher version and replaces a fresher snapshot until the next
rebuild.

*OAuth.* For platforms other than Grok a late refresh overwrites the credentials
of a new authorization, or disables the account for a refusal of the old ones.
`UpdateAccount` writes back everything it read, a rotation in between included,
and so does a request that stores the project it found, with the credentials. A
Grok request that waited for a refresh caches the token it read without checking
that it is still stored (`grok_token_provider.go:217`): when the user authorizes
again in between, the old token stays in the cache.
The administrator's refresh takes no lock. Two administrators who authorize the
account at the same time may store the older authorization last, a Grok account
included: what AuthorizationIsKept excludes is that a refresh brings back an
authorization that was replaced.

*Slots.* A wait count that a dead process or a failed decrement leaves stays,
with nobody waiting, as long as increments renew the key: until then it takes a
place in the queue. The start-up clean-up takes the slots of other live instances, and all
wait counters, for those of dead processes; the limit is then exceeded until
the requests end. `refreshActiveIndex` may remove the index entry of a slot that
was just acquired.

## 5. Proofs

All theorems are for any constants that satisfy the assumptions of the modules:
any workers or requests, windows, limits, retries and faults. Every safety
property that a passing run checks is stated by one. Four theorems about batch
jobs have a hypothesis about the constant `Env`, which says what the environment
does not do; it is in their statements.

**PaymentOrderProofs.** The inductive invariant is TypeOK and four parts.
*GrantTokens*: the redeem code is used, or the assignment recorded, exactly as
often as something was granted, so a grant spends a token that exists once.
*RebateToken*: the same for the APPLIED row and the inviter's credit.
*PaidFacts*: a worker past the amount check, a set `paid_at`, and every status of
fulfilment each imply a full payment. *GrantFacts*: a worker past the grant, and
COMPLETED, imply that it happened. GrantedAtMostOnce alone is not inductive,
since a worker about to redeem says nothing about the code. The theorems: TypeCorrect,
GrantOnce, GrantPaid, RebateOnce, AckDone, NoWayBack, LeaseExit, and Implements
(every step is a step of PaymentPromise or leaves its variables alone). The
action theorems rest on lemmas that say what a step can write to the status, the
ledger and the payment. Note what is not used: none of the grant theorems needs
the lease.

**PaymentRefundProofs.** Three invariants. *RInv* holds whatever overlaps or fails:
a request past a provider's success, and REFUNDED, imply that the money went
back (*AdminFacts*, *StatusFacts*); a pending answer implies a refund that exists
(*ProviderFacts*, for the query without an id); and the requests that took
something and have yet to keep or give it back are no more than `deducted`
(*OwingCovered*), which is what NeverOverRestored needs: it is not inductive,
since a rollback subtracts without looking. *LockInv*
is about the lock that REFUNDING is: as long as no finalization ran beside
another request, the request between its conditional update and its last write
of the status is alone there, and the status is its own (REFUNDING for an
execution, REFUND_PENDING for a finalization), whatever failed before. Nobody is
there when the status is REFUNDED, which is why none of the unconditional writes
moves it. Every step is reduced to one of four moves (begin, acquire, proceed,
leave). *CalmInv* adds what holds while nothing fails: the *Books* of the request
under the lock, in which what was taken is either its own, or was given back, or
is on record and, the subscription being revoked, cannot be taken again. That
last part is why a kept deduction is not doubled without faults, although the
finalization never looks at the record: finding 1 needs a fault, such as a
balance update that fails, or a finalization beside another request. Theorems: TypeCorrect, RefundReturned, NotOverRestored,
DebitedOnce, OwedRecorded, RefundFinal.

**BatchImageJobProofs.** Lemmas first reduce the fifty actions to what a step can
do to the queue (QueueStep), the row (RowStep), the Submit call and the ledger;
the invariant adds *ProviderFacts* (a live or completed job has a provider job,
and its Submit call is past its failure paths: this is why the unconditional
`failed` of that path cannot hit a completed or settling job; it may hit a
cancelled one) and *ChargeFacts* (a worker
about to mark a job settled has captured). Theorems: TypeCorrect, InflightQueued,
CompletedCharged, TerminalFinal, whatever Env allows.

The others are about the money, and hold in calmer environments only. *Calm*: no
worker outlives its lock and no Cancel comes before the reservation. *Steady*:
moreover, a ledger call that reports an error did nothing. *Orderly*: moreover,
the API process does not die between two of its calls. Workers may crash and
calls may fail in all of them, and TLC finds counterexamples outside (section 4,
*Batch images*). *KInv*, for Calm, says that a worker at work holds the lock
(*Serial*), that `frozen` is what the dedup rows say (*Balance*), whose hold can
have been given back (*ReturnFacts*), and what a worker knows of the job at its
position (*Positions*); CompletedPaid and LeavesSettled follow. CompletedIsPaid
is not inductive, because a worker about to mark the job would not know that the
hold it captured was not given back before; the retry limit is what separates
the two, since the hold of a settling job is given back only at the limit and
captured only below it. *Cost*, for Steady, counts: each retry of a job that can
be charged cost a failure, and one more if it was charged already, so a charged
hold is given back only after more than MaxRetries failures (HoldOnce). *NInv*,
for Orderly, says who owes what is frozen for a job that is lost: the call that
is about to give it back, or the queue, with at most one failure (*Debt*); and
that a job somebody works on is still inflight, so that the retry through the
queue is not lost to a worker that acks (*Followed*). NothingFrozen follows.

**IdempotencyProofs.** *Timely* bounds requests by the clock, *Owns* says that
the record of a running request is still its own, *SamePayload* that a record
keeps the fingerprint of its creator, *LateReader* what a request that read an
expired record still knows, *Window* that the record of the first success
outlives its window and cannot be retried. Theorems: TypeCorrect,
SingleExecutor, OncePerWindow, ReplayFaithful.

**SystemOperationLockProofs.** *LInv* consists of bounds between times. *Timely*:
an operation, and the goroutine that renews its lock, are within the limits that
the assumption gives them. *LastFacts* and *LeaseFacts*: a lock is written no
later than there was an operation, so it ends one lease after the last one;
NoLastingBlock follows. *RowFacts* and *Expiry*: lock and row end a fixed time
apart, and the row of a running operation is neither expired nor cleaned up.
*HolderFacts*: as long as nobody outlived his lock, the lock in the row is that
of the operation that runs, but for a renewal under way, and there is one such
operation; OneAtATime alone says nothing about the operation that is about to
reclaim. *CreatorFacts*: the row's lock ends after the next renewal of its
creator, and after the one that follows while no call has failed, so that one
failed renewal does no harm. Theorems: TypeCorrect, NeverTwoAtATime,
CreatorRunsAlone, NoLastingBlock.

**OAuthRefreshProofs.** Three invariants, one on top of the other. *EInv* is about
positions: what a worker or a request of the administrator holds where it is,
that workers of one process exclude each other by the mutex and all of them by
the lock until a fault (*Exclusion*), and that refreshes that overlapped are on
record (*Alone*). *TInv* is about tokens, as long as no such mishap occurred: the
stored token is the one the provider accepts or is being replaced by the worker
that has its successor (*StoredFacts*), a worker that is about to refresh has
the live token of its family, one that was refused has a family the user
withdrew (*UsedLive*), and an authorization that is not stored yet is known to
one request only (*NewFacts*, without which storing it might bring a used token
back). *CInv*: the cache holds the stored token, or somebody who knows the
stored account is about to see to it (*CacheFacts*). Theorems: TypeCorrect,
RefreshersExclude, TokensUsedOnce, ErrorsAreDeserved, CacheStaysCurrent,
AuthorizationsAreKept.

**SchedulerProofs.** The bucket. *FenceFacts*: a writer's token is never ahead of
the epoch, and if it equals the epoch, its accounts were loaded after the last
retirement. Retiring moves the epoch on and so turns every token into an old
one; capturing reads the present one before the load. With that, an activation,
which compares the token, publishes only accounts of this life. Theorems:
TypeCorrect, RetiredUnserved, ServedThisLife. They need neither the rebuild lock
nor the lifecycle lease.

The outbox. *PInv* says that rows are handled in the order of their ids, although
several instances poll with one watermark: below a handled row everything that
is visible was handled or came late (*Closed*), a poll continues from a handled
row and still has in hand what it read and did not handle (*PollFacts*), and the
watermark itself is a handled row. PassedIsHandled follows, also when a slow
instance moves the watermark back. For UnseenIsPending a row that is not handled
is not enough, since the poll that has it may have loaded before the change.
*Unseen* asks for a row that no such poll holds; the dedup key of a row is
released when it is read (*ReadFacts*), so a change that relies on a pending row
finds one that will still be loaded. Theorems: OutboxTypeCorrect, PassedHandled,
UnseenPending.

**ConcurrencySlotsProofs.** *RequestFacts*: a request that runs has acquired a
slot and, unless its entry was lost, the entry is there; a request is counted in
the queue exactly at the positions from which it is taken off. *CountType*: the
entries are within the limit. AtMostLimit follows, the requests that run and are
not lost being a subset of the entries; WaitCountAddsUp is inductive together
with the other parts (a request is counted once, joins the queue when it is not
in it, and a crash leaks as many counts as it takes requests out of the queue). Lemmas reduce every step to what it does to the slots, the
counter and the requests, and the cardinalities are reasoned about once, on
those. For the clean-up of a restart *StartInv* says that load the index lacks is
on record or about to be indexed (*Indexed*), that requests and sweeps belong to
processes that are up (*Served*, *Swept*), and that a process that starts alone
has no company until it is up, and finds at each of its steps what the earlier
ones left (*Alone*, *Cleaned*). Theorems: TypeCorrect, Limited, WaitCounted,
RestartCleans.

**Only model-checked.** Liveness (PaidEventuallyCompleted, EnqueuedEnds,
EventuallyHandled, SettlesFresh, SettlesLifecycle, EventuallyRefreshed), which
needs fairness and is out of the prover's reach; and the two counterexamples.

## 6. What is left out of the modelled components

Amounts, fees and currencies (an amount is right or wrong), the limits of
CreateOrder, the choice of a provider and its signatures; partial refunds (the
`force` flag and an admin's choice not to deduct are PrepareRefund's amount 0);
items, prices and files of batch jobs; the seven-day expiry of the inflight key;
response bodies and metrics of the coordinator, and requests without a key,
which are simply executed. The coalescing of full rebuilds, the extra rebuilds
of the lag check, the rate limit of database fallbacks, deleted accounts and the
loss of all Redis data. Retry counts, cool-downs, rate gates and circuit
breakers of the token refresh, and the quarantine of Grok accounts on requests;
the token cache has one key per account, although those of Gemini and
Antigravity change once a project is stored.
The leases of WebSocket connections, which survive their process until they
expire, the slots of API keys (statistics) and cached load batches. Mails, logs
and audit rows that nothing reads are not in the models.

## 7. Plan

1. `UsageBilling` with the billing cache: a request is charged once; balances
   cached behind a queue that drops when full, invalidated after a charge.
2. `LeaderLock`: the Redis lock with its advisory fallback, whose holders do not
   exclude each other.
3. The user message queue: one message at a time per account, with a lock whose
   TTL may end.
4. Leases of WebSocket connections in `ConcurrencySlots`.
5. Theorems: what remains of CompletedIsPaid and OnlySettledLeaves when workers
   may outlive their locks.
