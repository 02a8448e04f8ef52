---------------------------- MODULE PaymentOrder ----------------------------
(***************************************************************************)
(* One payment order of sub2api, from its creation to its fulfilment       *)
(* (backend/internal/service/payment_order.go, payment_order_lifecycle.go, *)
(* payment_fulfillment.go).  Orders do not interact in this code: every    *)
(* statement below is keyed by the order's id, so one row is the system.   *)
(*                                                                         *)
(* A worker is a goroutine on some instance of the backend that serves a   *)
(* provider notification, an admin retry, a user's cancel or verify, or a  *)
(* pass of the expiry job.  A step is one SQL statement or transaction, or *)
(* one provider call: everything else may interleave between two steps.    *)
(*                                                                         *)
(* The column updated_at is read in two ways and is kept as what those two *)
(* ways tell apart: age, how long ago it was written (in steps of a        *)
(* window, both windows of the code being five minutes), and holders, the  *)
(* workers whose lease.version equals it.  Ent sets updated_at on EVERY    *)
(* update of the row, so every write of the row resets both.               *)
(***************************************************************************)
EXTENDS Naturals, FiniteSets

CONSTANTS Workers,   \* goroutines that may work on the order
          Window,    \* paymentGraceMinutes and paymentFulfillmentLeaseDuration
          MaxFaults  \* bound on injected faults: failed calls, crashes, stalls

ASSUME WindowAssumption == Window \in Nat \ {0}
ASSUME MaxFaultsAssumption == MaxFaults \in Nat

VARIABLES
  status, paidAt, age, holders,  \* the payment_orders row
  code,         \* the order's redeem code: "none", "unused" or "used"
  assigned,     \* the audit row SUBSCRIPTION_ASSIGNED exists
  grants,       \* how often the balance or the subscription was granted
  rebateAudit,  \* audit rows AFFILIATE_REBATE_APPLIED / _SKIPPED
  rebates,      \* how often the inviter was credited
  pay,          \* the payment at the provider
  ack,          \* what made the webhook answer 2xx, "no" while it has not
  creator,      \* the CreateOrder call: "invoking", "ok" or "failed"
  due,          \* expires_at has passed
  grantable,    \* the purchase may be granted, see Regulate
  orderType, faults,
  pc,           \* per worker: the step it is about to take
  req           \* per worker: what it was called for, see Requests

row    == <<status, paidAt, age, holders>>
ledger == <<code, assigned, grants, rebateAudit, rebates>>
env    == <<pay, creator, due, grantable, orderType>>
vars   == <<row, ledger, env, pc, req, ack, faults>>

Statuses == {"PENDING", "PAID", "RECHARGING", "COMPLETED", "EXPIRED",
             "CANCELLED", "FAILED"}
Fulfillable == {"PAID", "FAILED", "RECHARGING"}
PCs == {"idle", "confirmPayment", "toPaid", "alreadyProcessed", "executeFulfillment",
        "acquireLease", "reloadLease", "getByCode", "createCode", "redeem",
        "checkGroup", "checkAssigned", "assign", "claimRebate",
        "accrueRebate", "markCompleted", "markFailed", "queryOrder",
        "persistTradeNo", "cancelCore"}

\* Why a worker runs: for a webhook (its return value is the HTTP answer), to
\* give the order that status unless it is paid, or anything else.
Requests == {"webhook", "none", "CANCELLED", "EXPIRED"}
NoRequest == "none"

RowType ==
  /\ status \in Statuses
  /\ paidAt \in BOOLEAN
  /\ age \in 0..(Window + 1)
  /\ holders \in SUBSET Workers

LedgerType ==
  /\ code \in {"none", "unused", "used"}
  /\ assigned \in BOOLEAN
  /\ grants \in Nat
  /\ rebateAudit \in SUBSET {"APPLIED", "SKIPPED"}
  /\ rebates \in Nat

EnvType ==
  /\ pay \in {"unpaid", "exact", "short", "closed"}
  /\ ack \in {"no", "done", "late", "lost"}
  /\ creator \in {"invoking", "ok", "failed"}
  /\ due \in BOOLEAN /\ grantable \in BOOLEAN
  /\ orderType \in {"balance", "subscription"}
  /\ faults \in Nat

WorkerType ==
  /\ pc \in [Workers -> PCs]
  /\ req \in [Workers -> Requests]

TypeOK == RowType /\ LedgerType /\ EnvType /\ WorkerType

\* createOrderInTx has committed the PENDING row; invokeProvider is running.
Init ==
  /\ status = "PENDING" /\ paidAt = FALSE
  /\ age = 0 /\ holders = {}
  /\ code = "none" /\ assigned = FALSE /\ grants = 0
  /\ rebateAudit = {} /\ rebates = 0
  /\ pay = "unpaid" /\ ack = "no" /\ creator = "invoking"
  /\ due = FALSE /\ grantable = TRUE
  /\ orderType \in {"balance", "subscription"}
  /\ faults = 0
  /\ pc = [w \in Workers |-> "idle"]
  /\ req = [w \in Workers |-> NoRequest]

-----------------------------------------------------------------------------
(* Helpers *)

\* An UPDATE of the row that sets its status: updated_at becomes now.
WriteRow(s) == status' = s /\ age' = 0 /\ holders' = {}

\* updated_at >= now - grace, in toPaid
WithinGrace == age <= Window

\* Faulty variant: a lease is never taken over.
LeaseForever == FALSE

\* updated_at <= now - lease duration, in acquirePaymentFulfillmentLease
LeaseStale == age >= Window

IsHook(w) == req[w] = "webhook"

Goto(w, label) == pc' = [pc EXCEPT ![w] = label] /\ UNCHANGED <<req, ack>>

\* The handler ends and its locals with it.
End(w) == /\ pc' = [pc EXCEPT ![w] = "idle"]
          /\ req' = [req EXCEPT ![w] = NoRequest]

\* The handler returns nil: a webhook is answered 2xx and never sent again.
ReturnNil(w, reason) == End(w) /\ ack' = IF IsHook(w) THEN reason ELSE ack

\* The handler returns an error: the provider will send the webhook again.
ReturnErr(w) == End(w) /\ UNCHANGED ack

-----------------------------------------------------------------------------
(* The provider, the payer and time *)

\* The payer pays the order's amount, or another one.
Pay ==
  /\ creator = "ok" /\ pay = "unpaid"
  /\ pay' \in {"exact", "short"}
  /\ UNCHANGED <<row, ledger, creator, due, grantable, orderType, pc, req, ack,
                 faults>>

\* Time passes.  A fulfilment takes far less than a window: one that still runs
\* under its lease when the clock advances has stalled, which is a fault.
UnderLease == {"reloadLease", "getByCode", "createCode", "redeem",
               "checkGroup", "checkAssigned", "assign", "claimRebate",
               "accrueRebate", "markCompleted", "markFailed"}
Quiet == \A w \in Workers : pc[w] \notin UnderLease

Tick ==
  /\ Quiet /\ age <= Window
  /\ age' = age + 1
  /\ UNCHANGED <<status, paidAt, holders, ledger, env, pc, req, ack, faults>>

Stall ==
  /\ ~Quiet /\ age <= Window /\ faults < MaxFaults
  /\ faults' = faults + 1 /\ age' = age + 1
  /\ UNCHANGED <<status, paidAt, holders, ledger, env, pc, req, ack>>

Timeout ==
  /\ ~due /\ due' = TRUE
  /\ UNCHANGED <<row, ledger, pay, creator, grantable, orderType, pc, req, ack,
                 faults>>

\* What doSub and Redeem ask of the rest of the system changes: an admin
\* disables, deletes or reopens the subscription's group, the user is deleted,
\* the user's failed redemptions reach Redeem's rate limit or are forgotten.
Regulate ==
  /\ grantable' = ~grantable
  /\ UNCHANGED <<row, ledger, pay, creator, due, orderType, pc, req, ack, faults>>

-----------------------------------------------------------------------------
(* CreateOrder, after createOrderInTx *)

\* invokeProvider got a payment link and stores it; the status is not touched.
CreateOrderOk ==
  /\ creator = "invoking" /\ creator' = "ok"
  /\ WriteRow(status)
  /\ UNCHANGED <<paidAt, ledger, pay, due, grantable, orderType, pc, req, ack,
                 faults>>

\* invokeProvider failed: FAILED is written whatever the status is by now.
CreateOrderFailed ==
  /\ creator = "invoking" /\ creator' = "failed"
  /\ WriteRow("FAILED")
  /\ UNCHANGED <<paidAt, ledger, pay, due, grantable, orderType, pc, req, ack,
                 faults>>

-----------------------------------------------------------------------------
(* Entry points: an idle worker starts serving a request *)

Begin(w, label, r) ==
  /\ pc[w] = "idle"
  /\ pc' = [pc EXCEPT ![w] = label]
  /\ req' = [req EXCEPT ![w] = r]
  /\ UNCHANGED <<row, ledger, env, ack, faults>>

\* The webhook: the provider announces a payment until it gets a 2xx.
HandlePaymentNotification(w) ==
  /\ pay \in {"exact", "short"} /\ ack = "no"
  /\ Begin(w, "confirmPayment", "webhook")

RetryFulfillment(w) ==
  /\ paidAt /\ status \in Fulfillable
  /\ Begin(w, "executeFulfillment", NoRequest)

BeginQuery(w, g) == Begin(w, "queryOrder", g)

CancelOrder(w) == status = "PENDING" /\ BeginQuery(w, "CANCELLED")

ExpireTimedOutOrders(w) ==
  status = "PENDING" /\ due /\ BeginQuery(w, "EXPIRED")

ReconcilePendingWxpayOrders(w) ==
  status = "PENDING" /\ ~due /\ BeginQuery(w, "none")

VerifyOrderByOutTradeNo(w) ==
  status \in {"PENDING", "EXPIRED"} /\ BeginQuery(w, "none")

-----------------------------------------------------------------------------
(* checkPaidWithOptions and cancelCore *)

\* The provider says paid: the rest is a notification.  Its answer may carry a
\* trade number worth storing: one that is neither the order's own nor the
\* reference the query was made with.
QueryPaid(w) ==
  /\ pc[w] = "queryOrder" /\ pay \in {"exact", "short"}
  /\ \E next \in {"persistTradeNo", "confirmPayment"} :
       pc' = [pc EXCEPT ![w] = next]
  /\ req' = [req EXCEPT ![w] = NoRequest]
  /\ UNCHANGED <<row, ledger, env, ack, faults>>

\* The provider says unpaid: a cancelling caller closes the payment, at the
\* providers that can, and goes on to cancelCore's update.
QueryUnpaid(w) ==
  /\ pc[w] = "queryOrder" /\ pay \in {"unpaid", "closed"}
  /\ \/ req[w] = "none" /\ ReturnErr(w) /\ UNCHANGED pay
     \/ /\ req[w] # "none" /\ Goto(w, "cancelCore")
        /\ \/ UNCHANGED pay
           \/ creator # "invoking" /\ pay' = "closed"
  /\ UNCHANGED <<row, ledger, creator, due, grantable, orderType, faults>>

\* An update that names only payment_trade_no, yet moves updated_at too.
PersistTradeNo(w) ==
  /\ pc[w] = "persistTradeNo"
  /\ WriteRow(status)
  /\ Goto(w, "confirmPayment")
  /\ UNCHANGED <<paidAt, ledger, env, faults>>

\* Faulty variant: the update does not require PENDING.
CancelCoreUnguarded(w) ==
  /\ pc[w] = "cancelCore"
  /\ WriteRow(req[w])
  /\ ReturnErr(w)
  /\ UNCHANGED <<paidAt, ledger, env, faults>>

\* cancelCore's update: WHERE status = PENDING.
CancelCore(w) ==
  /\ pc[w] = "cancelCore"
  /\ \/ status = "PENDING" /\ WriteRow(req[w])
     \/ status # "PENDING" /\ UNCHANGED <<status, age, holders>>
  /\ ReturnErr(w)
  /\ UNCHANGED <<paidAt, ledger, env, faults>>

-----------------------------------------------------------------------------
(* From the notification to the lease *)

\* The amount must be the order's; a mismatch is an error and changes nothing.
AmountMatches == pay = "exact"

ConfirmPayment(w) ==
  /\ pc[w] = "confirmPayment"
  /\ \/ AmountMatches /\ Goto(w, "toPaid")
     \/ ~AmountMatches /\ ReturnErr(w)
  /\ UNCHANGED <<row, ledger, env, faults>>

Payable == \/ status \in {"PENDING", "CANCELLED"}
           \/ status = "EXPIRED" /\ WithinGrace

ToPaid(w) ==
  /\ pc[w] = "toPaid"
  /\ \/ /\ Payable
        /\ WriteRow("PAID") /\ paidAt' = TRUE
        /\ Goto(w, "executeFulfillment")
     \/ /\ ~Payable
        /\ Goto(w, "alreadyProcessed")
        /\ UNCHANGED row
  /\ UNCHANGED <<ledger, env, faults>>

AlreadyProcessed(w) ==
  /\ pc[w] = "alreadyProcessed"
  /\ \/ status \in Fulfillable /\ Goto(w, "executeFulfillment")
     \/ /\ status \notin Fulfillable
        /\ ReturnNil(w, CASE status = "COMPLETED" -> "done"
                          [] status = "EXPIRED"   -> "late"
                          [] OTHER                -> "lost")
  /\ UNCHANGED <<row, ledger, env, faults>>

\* executeFulfillment and the guards of Execute{Balance,Subscription}Fulfillment
ExecuteFulfillment(w) ==
  /\ pc[w] = "executeFulfillment"
  /\ \/ status \in Fulfillable /\ Goto(w, "acquireLease")
     \/ /\ status \notin Fulfillable
        /\ IF status = "COMPLETED" THEN ReturnNil(w, "done") ELSE ReturnErr(w)
  /\ UNCHANGED <<row, ledger, env, faults>>

LeaseFree == \/ status \in {"PAID", "FAILED"}
             \/ status = "RECHARGING" /\ LeaseStale

\* Faulty variant: losing the race for the lease is reported as success.
AcquireLeaseQuietly(w) ==
  /\ pc[w] = "acquireLease"
  /\ \/ LeaseFree /\ WriteRow("RECHARGING") /\ Goto(w, "reloadLease")
     \/ /\ ~LeaseFree /\ ReturnNil(w, "done")
        /\ UNCHANGED <<status, age, holders>>
  /\ UNCHANGED <<paidAt, ledger, env, faults>>

\* acquirePaymentFulfillmentLease: the conditional update.
AcquireLease(w) ==
  /\ pc[w] = "acquireLease"
  /\ \/ /\ LeaseFree
        /\ WriteRow("RECHARGING")
        /\ Goto(w, "reloadLease")
     \/ /\ ~LeaseFree
        /\ IF status = "COMPLETED" THEN ReturnNil(w, "done") ELSE ReturnErr(w)
        /\ UNCHANGED <<status, age, holders>>
  /\ UNCHANGED <<paidAt, ledger, env, faults>>

\* The version is whatever updated_at the second statement finds.
ReloadLease(w) ==
  /\ pc[w] = "reloadLease"
  /\ \/ /\ status = "RECHARGING"
        /\ holders' = holders \cup {w}
        /\ Goto(w, IF orderType = "balance" THEN "getByCode" ELSE "checkGroup")
     \/ status # "RECHARGING" /\ ReturnErr(w) /\ UNCHANGED holders
  /\ UNCHANGED <<status, paidAt, age, ledger, env, faults>>

-----------------------------------------------------------------------------
(* doBalance and doSub *)

\* resolveRedeemAction
GetByCode(w) ==
  /\ pc[w] = "getByCode"
  /\ Goto(w, CASE code = "used"   -> "claimRebate"
               [] code = "unused" -> "redeem"
               [] code = "none"   -> "createCode")
  /\ UNCHANGED <<row, ledger, env, faults>>

\* The code column is unique: a second insert is an error.
CreateCode(w) ==
  /\ pc[w] = "createCode"
  /\ \/ code = "none" /\ code' = "unused" /\ Goto(w, "redeem")
     \/ code # "none" /\ UNCHANGED code /\ Goto(w, "markFailed")
  /\ UNCHANGED <<row, assigned, grants, rebateAudit, rebates, env, faults>>

\* acquireRedeemLock: another worker is inside Redeem with the same code.
RedeemLocked(w) == \E v \in Workers \ {w} : pc[v] = "redeem"

\* Redeem: the rate limit, the lock, the lookups of the code and the user, then
\* the transaction of Use (WHERE status = 'unused') and UpdateBalance.
Redeem(w) ==
  /\ pc[w] = "redeem"
  /\ \/ /\ grantable /\ code = "unused"
        /\ code' = "used" /\ grants' = grants + 1
        /\ Goto(w, "claimRebate")
     \/ /\ ~grantable \/ code # "unused" \/ RedeemLocked(w)
        /\ UNCHANGED <<code, grants>>
        /\ Goto(w, "markFailed")
  /\ UNCHANGED <<row, assigned, rebateAudit, rebates, env, faults>>

\* doSub asks for an active group on every attempt, also when the subscription
\* has been assigned by an earlier one.
CheckGroup(w) ==
  /\ pc[w] = "checkGroup"
  /\ Goto(w, IF grantable THEN "checkAssigned" ELSE "markFailed")
  /\ UNCHANGED <<row, ledger, env, faults>>

\* ensurePaymentSubscriptionAssigned: the audit lookup of the transaction.
CheckAssigned(w) ==
  /\ pc[w] = "checkAssigned"
  /\ Goto(w, IF assigned THEN "claimRebate" ELSE "assign")
  /\ UNCHANGED <<row, ledger, env, faults>>

\* Faulty variant: the constraint error is not a rollback.
AssignTwice(w) ==
  /\ pc[w] = "assign"
  /\ assigned' = TRUE /\ grants' = grants + 1
  /\ Goto(w, "claimRebate")
  /\ UNCHANGED <<row, code, rebateAudit, rebates, env, faults>>

\* Its commit.  The audit row is unique per order: when another transaction
\* inserted it meanwhile this one is rolled back and counts as done.  A group
\* that is gone by now is an error, one that is only inactive is not.
Assign(w) ==
  /\ pc[w] = "assign"
  /\ \/ /\ ~assigned
        /\ assigned' = TRUE /\ grants' = grants + 1
        /\ Goto(w, "claimRebate")
     \/ assigned /\ UNCHANGED <<assigned, grants>> /\ Goto(w, "claimRebate")
     \/ ~grantable /\ UNCHANGED <<assigned, grants>> /\ Goto(w, "markFailed")
  /\ UNCHANGED <<row, code, rebateAudit, rebates, env, faults>>

\* applyAffiliateRebateForOrder: the WHERE NOT EXISTS snapshot of the claim.
ClaimRebate(w) ==
  /\ pc[w] = "claimRebate"
  /\ Goto(w, IF rebateAudit = {} THEN "accrueRebate" ELSE "markCompleted")
  /\ UNCHANGED <<row, ledger, env, faults>>

\* The rest of its transaction: ON CONFLICT DO NOTHING on the APPLIED row, then
\* the credit; without an inviter the row is renamed SKIPPED, which fails when
\* that row exists.
AccrueRebate(w) ==
  /\ pc[w] = "accrueRebate"
  /\ \/ /\ "APPLIED" \in rebateAudit
        /\ Goto(w, "markCompleted") /\ UNCHANGED <<rebateAudit, rebates>>
     \/ /\ "APPLIED" \notin rebateAudit
        /\ rebateAudit' = rebateAudit \cup {"APPLIED"}
        /\ rebates' = rebates + 1
        /\ Goto(w, "markCompleted")
     \/ /\ rebateAudit = {}
        /\ rebateAudit' = {"SKIPPED"} /\ UNCHANGED rebates
        /\ Goto(w, "markCompleted")
     \/ /\ rebateAudit = {"SKIPPED"}
        /\ Goto(w, "markFailed") /\ UNCHANGED <<rebateAudit, rebates>>
  /\ UNCHANGED <<row, code, assigned, grants, env, faults>>

\* WHERE status = RECHARGING AND updated_at = lease.version
LeaseHeld(w) == status = "RECHARGING" /\ w \in holders

MarkCompleted(w) ==
  /\ pc[w] = "markCompleted"
  /\ \/ LeaseHeld(w) /\ WriteRow("COMPLETED") /\ ReturnNil(w, "done")
     \/ /\ ~LeaseHeld(w)
        /\ IF status = "COMPLETED" THEN ReturnNil(w, "done")
                                   ELSE Goto(w, "markFailed")
        /\ UNCHANGED <<status, age, holders>>
  /\ UNCHANGED <<paidAt, ledger, env, faults>>

MarkFailed(w) ==
  /\ pc[w] = "markFailed"
  /\ \/ LeaseHeld(w) /\ WriteRow("FAILED")
     \/ ~LeaseHeld(w) /\ UNCHANGED <<status, age, holders>>
  /\ ReturnErr(w)
  /\ UNCHANGED <<paidAt, ledger, env, faults>>

-----------------------------------------------------------------------------
(* Faults *)

\* The handlers' error paths: where the code goes when the call of this step
\* returns an error.  The two reads that answer nil on error lose the webhook.
AfterError(w) ==
  CASE pc[w] = "getByCode" -> "createCode"
    [] pc[w] \in {"createCode", "redeem", "checkGroup", "checkAssigned",
                  "assign", "claimRebate", "accrueRebate", "markCompleted"}
         -> "markFailed"
    [] pc[w] = "queryOrder" /\ req[w] # "none" -> "cancelCore"
    [] pc[w] = "persistTradeNo" -> "confirmPayment"
    [] OTHER -> "idle"

SwallowsError(w) == pc[w] \in {"confirmPayment", "alreadyProcessed"}

CallFails(w) ==
  /\ pc[w] # "idle" /\ faults < MaxFaults
  /\ faults' = faults + 1
  /\ \/ AfterError(w) # "idle" /\ Goto(w, AfterError(w))
     \/ SwallowsError(w) /\ ReturnNil(w, "lost")
     \/ AfterError(w) = "idle" /\ ~SwallowsError(w) /\ ReturnErr(w)
  /\ UNCHANGED <<row, ledger, env>>

\* The grant is committed and a call after it fails: Redeem's second read of the
\* code, or the invalidation of the subscription's caches.
GrantedThenFails(w) ==
  /\ faults < MaxFaults /\ faults' = faults + 1
  /\ \/ /\ pc[w] = "redeem" /\ grantable /\ code = "unused"
        /\ code' = "used" /\ UNCHANGED assigned
     \/ /\ pc[w] = "assign" /\ ~assigned
        /\ assigned' = TRUE /\ UNCHANGED code
  /\ grants' = grants + 1
  /\ Goto(w, "markFailed")
  /\ UNCHANGED <<row, rebateAudit, rebates, env>>

\* The instance dies, or the request's context is cancelled, between two steps.
Crash(w) ==
  /\ pc[w] # "idle" /\ faults < MaxFaults
  /\ faults' = faults + 1
  /\ ReturnErr(w)
  /\ UNCHANGED <<row, ledger, env>>

-----------------------------------------------------------------------------

Start(w) ==
  \/ HandlePaymentNotification(w) \/ RetryFulfillment(w)
  \/ CancelOrder(w) \/ ExpireTimedOutOrders(w)
  \/ ReconcilePendingWxpayOrders(w) \/ VerifyOrderByOutTradeNo(w)

Step(w) ==
  \/ QueryPaid(w) \/ QueryUnpaid(w) \/ PersistTradeNo(w) \/ CancelCore(w)
  \/ ConfirmPayment(w)
  \/ ToPaid(w) \/ AlreadyProcessed(w) \/ ExecuteFulfillment(w)
  \/ AcquireLease(w) \/ ReloadLease(w)
  \/ GetByCode(w) \/ CreateCode(w) \/ Redeem(w)
  \/ CheckGroup(w) \/ CheckAssigned(w) \/ Assign(w)
  \/ ClaimRebate(w) \/ AccrueRebate(w)
  \/ MarkCompleted(w) \/ MarkFailed(w)

Next ==
  \/ Pay \/ Tick \/ Stall \/ Timeout \/ Regulate
  \/ CreateOrderOk \/ CreateOrderFailed
  \/ \E w \in Workers : \/ Start(w) \/ Step(w)
                        \/ CallFails(w) \/ GrantedThenFails(w) \/ Crash(w)

Spec == Init /\ [][Next]_vars

\* A worker that is not cut off takes its next step, the provider sends the
\* webhook until it is answered with 2xx, and time passes between two sendings.
\* Nobody need pay, cancel, verify or retry.
Fairness ==
  /\ WF_vars(Tick)
  /\ \A w \in Workers : WF_vars(Step(w))
  /\ SF_vars(\E w \in Workers : HandlePaymentNotification(w))

FairSpec == Spec /\ Fairness

-----------------------------------------------------------------------------
(* Properties *)

\* Whatever webhooks, retries, lease takeovers, crashes and failed calls occur,
\* the order's balance or subscription is granted at most once.
GrantedAtMostOnce == grants <= 1

\* Nothing is granted unless the provider took the order's full amount: the
\* amount check of confirmPayment guards every way to executeFulfillment, the
\* retry and the reconciliation included.
GrantedOnlyIfPaid == grants > 0 => pay = "exact"

\* COMPLETED is only written by a worker that saw the grant happen.
CompletedIsGranted == status = "COMPLETED" => grants = 1 /\ paidAt

\* The inviter is credited at most once, and only for a granted order, although
\* the claim's NOT EXISTS snapshot may be stale when its row is inserted.
RebateAtMostOnce == rebates <= 1 /\ (rebates = 1 => grants = 1)

\* A webhook answered 2xx because the order is done finds it COMPLETED for good.
AckedDoneIsCompleted == ack = "done" => status = "COMPLETED"

\* A paid order is never cancelled, expired or reopened: once paid_at is set
\* the status stays among the fulfilment ones, and COMPLETED is final.
PaidNeverGoesBack ==
  [][/\ paidAt => status' \in Fulfillable \cup {"COMPLETED"}
     /\ status = "COMPLETED" => status' = "COMPLETED"]_vars

\* A worker that lost its lease leaves the row alone: only a worker whose
\* version still is the row's updated_at moves the order out of RECHARGING.
ExitByHolder ==
  status = "RECHARGING" /\ status' # "RECHARGING"
    => \E w \in holders : /\ pc[w] \in {"markCompleted", "markFailed"}
                         /\ pc'[w] = "idle"
LeaseGuardsExit == [][ExitByHolder]_vars

\* A paid order is completed, unless the payment came after the grace period,
\* the webhook was lost in a read that answers nil on error, or the grant is
\* refused again and again: doSub fails every attempt while the group is not
\* active, Redeem while the user is gone or rate limited.  A refusal that ends
\* delays the order and nothing more, however many attempts it has failed.
PaidEventuallyCompleted ==
  <>[]grantable
    => (pay = "exact" ~> status = "COMPLETED" \/ ack \in {"late", "lost"})

\* Every behaviour is one PaymentPromise allows: workers, leases, retries and
\* faults are invisible in the money, the grant, the rebate and the completion.
Promise == INSTANCE PaymentPromise WITH
  money     <- IF pay \in {"unpaid", "closed"} THEN "none" ELSE pay,
  granted   <- grants,
  rebated   <- rebates,
  completed <- status = "COMPLETED"
KeepsPromise == Promise!Spec
=============================================================================
