---------------------------- MODULE PaymentRefund ----------------------------
(***************************************************************************)
(* The refund of one COMPLETED order (payment_refund.go): an admin's       *)
(* refund takes back what the order granted, asks the payment provider to  *)
(* return the money and settles the order's status; a refund the provider  *)
(* leaves pending is finalized by a second admin call.                     *)
(*                                                                         *)
(* A step is one SQL statement or one provider call.  Unlike fulfilment,   *)
(* refunds have no lease: REFUNDING, set by one conditional update, is the *)
(* only lock, and every later write of the status is unconditional.        *)
(*                                                                         *)
(* Refunds are of the whole amount.  An amount is what the properties tell *)
(* apart: 1 for what the order granted (or what is left of it), 0 for      *)
(* nothing; deducted counts how often it was taken, net of give-backs.     *)
(***************************************************************************)
EXTENDS Integers, FiniteSets

CONSTANTS Admins,      \* admin requests that may run at the same time
          MaxRefunds,  \* bound on refunds created at the provider
          MaxFaults    \* bound on injected faults: failed calls and crashes

ASSUME AdminsAssumption == IsFiniteSet(Admins)
ASSUME MaxRefundsAssumption == MaxRefunds \in Nat \ {0}
ASSUME MaxFaultsAssumption == MaxFaults \in Nat

VARIABLES
  status,     \* of the payment_orders row
  deducted,   \* net deductions from the user's balance or subscription
  sub,        \* the subscription: "active", or "revoked" (soft-deleted)
  audits,     \* audit rows REFUND_ROLLBACK_FAILED and REFUND_SUCCESS
  detail,     \* the audit row REFUND_PENDING; id 0 when there is none
  gw, n,      \* refunds at the provider, and how many were created
  kind,       \* the order's type
  tradeNo,    \* payment_trade_no is not empty
  keyed,      \* the provider derives the refund id from order and amount
  pc, plan,   \* per admin: the next step, and the RefundPlan
  faults,
  overlapped  \* history: a finalization ran beside another request

order    == <<kind, tradeNo, keyed>>
provider == <<gw, n>>
money    == <<deducted, sub>>
log      == <<audits, detail>>
vars == <<status, money, log, provider, order, pc, plan, faults,
          overlapped>>

\* The statuses PrepareRefund accepts and ExecuteRefund locks.
Refundable == {"COMPLETED", "REFUND_REQUESTED", "REFUND_PENDING",
               "REFUND_FAILED"}
\* REFUNDED stands for PARTIALLY_REFUNDED too: neither is ever left by design.
Statuses == Refundable \cup {"REFUNDING", "REFUNDED"}
PCs == {"idle", "lock", "checkAudit", "deduct", "gwRefund", "rollback",
        "restoreStatus", "markRefundFailed", "markRefundPending",
        "auditPending", "markRefundOk", "auditSuccess", "readDetail",
        "queryRefund", "finalCheck", "finalDeduct", "finalizeFailed"}

\* by: the call served, ExecuteRefund or QueryAndFinalizeRefund; saw: the
\* status PrepareRefund read; amount: what is (to be) deducted; answer: the
\* provider's; ok: what RollbackRefund returned, or the same fact as the
\* REFUND_PENDING row recorded it; id: the provider's refund.
Plans == [by : {"execute", "finalize"}, saw : Refundable, amount : {0, 1},
          answer : {"pending", "failed"}, ok : BOOLEAN, id : 0..MaxRefunds]
NoPlan == [by |-> "execute", saw |-> "COMPLETED", amount |-> 0,
           answer |-> "failed", ok |-> TRUE, id |-> 0]

MoneyType ==
  /\ deducted \in Int
  /\ sub \in {"active", "revoked"}

LogType ==
  /\ audits \in SUBSET {"ROLLBACK_FAILED", "SUCCESS"}
  /\ detail \in [id : 0..MaxRefunds, ok : BOOLEAN]

ProviderType ==
  /\ gw \in [1..MaxRefunds -> {"none", "pending", "success", "failed"}]
  /\ n \in 0..MaxRefunds

OrderType ==
  /\ kind \in {"balance", "subscription"}
  /\ tradeNo \in BOOLEAN /\ keyed \in BOOLEAN

AdminType ==
  /\ pc \in [Admins -> PCs]
  /\ plan \in [Admins -> Plans]

TypeOK == /\ status \in Statuses /\ faults \in Nat /\ overlapped \in BOOLEAN
          /\ MoneyType /\ LogType /\ ProviderType /\ OrderType /\ AdminType

Init ==
  /\ status = "COMPLETED"
  /\ deducted = 0 /\ sub = "active"
  /\ audits = {} /\ detail = [id |-> 0, ok |-> TRUE]
  /\ gw = [i \in 1..MaxRefunds |-> "none"] /\ n = 0
  /\ kind \in {"balance", "subscription"}
  /\ tradeNo \in BOOLEAN /\ keyed \in BOOLEAN
  /\ pc = [a \in Admins |-> "idle"]
  /\ plan = [a \in Admins |-> NoPlan]
  /\ faults = 0 /\ overlapped = FALSE

-----------------------------------------------------------------------------
(* Helpers *)

At(a, label) == pc[a] = label
Goto(a, label) == pc' = [pc EXCEPT ![a] = label] /\ UNCHANGED plan
GotoWith(a, label, p) ==
  pc' = [pc EXCEPT ![a] = label] /\ plan' = [plan EXCEPT ![a] = p]
End(a) == GotoWith(a, "idle", NoPlan)

\* The request that a begins runs beside another, one of them a finalization.
Overlap(a) ==
  overlapped' = (overlapped \/ \E b \in Admins \ {a} :
                                 /\ pc[b] # "idle"
                                 /\ "finalize" \in {plan'[a].by, plan[b].by})

\* An order without a subscription to take back has nothing to deduct.
CanDeduct == kind = "balance" \/ sub = "active"

\* DeductBalance (which never refuses: the balance may go below zero), or
\* ExtendSubscription by minus the days, or RevokeSubscription when that would
\* end the subscription.
Take ==
  /\ CanDeduct /\ deducted' = deducted + 1
  /\ \/ UNCHANGED sub
     \/ kind = "subscription" /\ sub' = "revoked"

-----------------------------------------------------------------------------
(* The provider *)

Active == \E i \in 1..MaxRefunds : gw[i] \in {"pending", "success"}
NewId == IF keyed THEN 1 ELSE n + 1

\* A refund is created unless an earlier one holds or has returned the money.
Create(s) ==
  /\ ~Active /\ n < MaxRefunds
  /\ gw' = [gw EXCEPT ![NewId] = s] /\ n' = n + 1

Settle ==
  /\ \E i \in 1..MaxRefunds :
       /\ gw[i] = "pending"
       /\ \E s \in {"success", "failed"} : gw' = [gw EXCEPT ![i] = s]
  /\ UNCHANGED <<status, money, log, n, order, overlapped, pc, plan, faults>>

-----------------------------------------------------------------------------
(* RequestRefund, PrepareRefund and ExecuteRefund *)

RequestRefund ==
  /\ kind = "balance" /\ status = "COMPLETED"
  /\ status' = "REFUND_REQUESTED"
  /\ UNCHANGED <<money, log, provider, order, overlapped, pc, plan, faults>>

\* The admin may choose not to deduct, and the user may have nothing left.
PrepareRefund(a) ==
  /\ At(a, "idle") /\ status \in Refundable
  /\ \E x \in {0, 1} :
       /\ x = 1 => CanDeduct
       /\ GotoWith(a, "lock", [NoPlan EXCEPT !.saw = status, !.amount = x])
  /\ Overlap(a)
  /\ UNCHANGED <<status, money, log, provider, order, faults>>

\* Faulty variant: the status PrepareRefund read decides, not the row's.
LockUnchecked(a) ==
  /\ At(a, "lock") /\ status' = "REFUNDING"
  /\ Goto(a, IF plan[a].amount > 0 THEN "checkAudit" ELSE "gwRefund")
  /\ UNCHANGED <<money, log, provider, order, overlapped, faults>>

\* The conditional update that only one of several requests wins.
Lock(a) ==
  /\ At(a, "lock")
  /\ \/ /\ status \in Refundable /\ status' = "REFUNDING"
        /\ Goto(a, IF plan[a].amount > 0 THEN "checkAudit" ELSE "gwRefund")
     \/ /\ status \notin Refundable
        /\ End(a) /\ UNCHANGED status
  /\ UNCHANGED <<money, log, provider, order, overlapped, faults>>

\* Faulty variant: the skipped deduction stays in the plan.
CheckAuditKeeps(a) ==
  /\ At(a, "checkAudit")
  /\ \/ "ROLLBACK_FAILED" \in audits /\ Goto(a, "gwRefund")
     \/ "ROLLBACK_FAILED" \notin audits /\ Goto(a, "deduct")
  /\ UNCHANGED <<status, money, log, provider, order, overlapped, faults>>

\* A deduction an earlier attempt failed to give back is not made again.
CheckAudit(a) ==
  /\ At(a, "checkAudit")
  /\ \/ /\ "ROLLBACK_FAILED" \in audits
        /\ GotoWith(a, "gwRefund", [plan[a] EXCEPT !.amount = 0])
     \/ "ROLLBACK_FAILED" \notin audits /\ Goto(a, "deduct")
  /\ UNCHANGED <<status, money, log, provider, order, overlapped, faults>>

Deduct(a) ==
  /\ At(a, "deduct")
  /\ \/ Take /\ Goto(a, "gwRefund")
     \/ ~CanDeduct /\ Goto(a, "restoreStatus") /\ UNCHANGED money
  /\ UNCHANGED <<status, log, provider, order, overlapped, faults>>

\* Faulty variant: a pending refund counts as a success.
AnsweredEagerly(a, s, i) ==
  IF s \in {"success", "pending"} THEN Goto(a, "markRefundOk")
  ELSE GotoWith(a, "rollback", [plan[a] EXCEPT !.answer = s, !.id = i])

\* Faulty variant: a pending refund keeps its deduction.
AnsweredKeeping(a, s, i) ==
  CASE s = "success" -> Goto(a, "markRefundOk")
    [] s = "pending" -> GotoWith(a, "markRefundPending",
                                 [plan[a] EXCEPT !.answer = s, !.id = i])
    [] OTHER -> GotoWith(a, "rollback", [plan[a] EXCEPT !.answer = s])

\* validateRefundProviderResponse and finishRefund
Answered(a, s, i) ==
  IF s = "success" THEN Goto(a, "markRefundOk")
  ELSE GotoWith(a, "rollback", [plan[a] EXCEPT !.answer = s, !.id = i])

\* Without a trade number the provider is not asked.  A provider that derives
\* the refund's id answers a repeated request with the refund it has.
GwRefund(a) ==
  /\ At(a, "gwRefund")
  /\ \/ ~tradeNo /\ Goto(a, "markRefundOk") /\ UNCHANGED provider
     \/ /\ tradeNo
        /\ \E s \in {"pending", "success"} : Create(s) /\ Answered(a, s, NewId)
     \/ /\ tradeNo /\ keyed /\ Active
        /\ Answered(a, gw[1], 1) /\ UNCHANGED provider
     \/ tradeNo /\ Answered(a, "failed", 0) /\ UNCHANGED provider
  /\ UNCHANGED <<status, money, log, order, overlapped, faults>>

\* Where handleGwFail and markRefundPending go once RollbackRefund returned.
AfterRollback(a, ok) ==
  GotoWith(a, CASE plan[a].answer = "pending" -> "markRefundPending"
                [] ok                         -> "restoreStatus"
                [] OTHER                      -> "markRefundFailed",
           [plan[a] EXCEPT !.ok = ok])

\* Faulty variant: the rollback of a revoked subscription counts as done.
RollbackRefundBlind(a) ==
  /\ At(a, "rollback")
  /\ deducted' = IF CanDeduct THEN deducted - plan[a].amount ELSE deducted
  /\ AfterRollback(a, TRUE)
  /\ UNCHANGED <<status, sub, log, provider, order, overlapped, faults>>

\* RollbackRefund: a revoked subscription cannot be extended again.
RollbackRefund(a) ==
  /\ At(a, "rollback")
  /\ \/ /\ plan[a].amount > 0 => CanDeduct
        /\ deducted' = deducted - plan[a].amount
        /\ AfterRollback(a, TRUE) /\ UNCHANGED audits
     \/ /\ plan[a].amount > 0 /\ ~CanDeduct
        /\ audits' = audits \cup {"ROLLBACK_FAILED"}
        /\ AfterRollback(a, FALSE) /\ UNCHANGED deducted
  /\ UNCHANGED <<status, sub, detail, provider, order, overlapped, faults>>

\* The status writes: UPDATE ... WHERE id, whatever the status is by now.
SetStatus(a, label, s) ==
  /\ At(a, label) /\ status' = s
  /\ UNCHANGED <<money, provider, order, overlapped, faults>>

RestoreStatus(a) ==
  /\ SetStatus(a, "restoreStatus",
               IF plan[a].saw = "REFUND_REQUESTED" THEN "REFUND_REQUESTED"
               ELSE "COMPLETED")
  /\ End(a) /\ UNCHANGED log

MarkRefundFailed(a) ==
  /\ SetStatus(a, "markRefundFailed", "REFUND_FAILED")
  /\ End(a) /\ UNCHANGED log

MarkRefundPending(a) ==
  /\ SetStatus(a, "markRefundPending", "REFUND_PENDING")
  /\ Goto(a, "auditPending") /\ UNCHANGED log

\* writeAuditLog: (order_id, action) is unique, so a second REFUND_PENDING row
\* is rejected, which is only logged.
AuditPending(a) ==
  /\ At(a, "auditPending")
  /\ detail' = IF detail.id = 0 THEN [id |-> plan[a].id, ok |-> plan[a].ok]
               ELSE detail
  /\ End(a)
  /\ UNCHANGED <<status, money, audits, provider, order, overlapped, faults>>

MarkRefundOk(a) ==
  /\ SetStatus(a, "markRefundOk", "REFUNDED")
  /\ Goto(a, "auditSuccess") /\ UNCHANGED log

AuditSuccess(a) ==
  /\ At(a, "auditSuccess")
  /\ audits' = audits \cup {"SUCCESS"}
  /\ End(a)
  /\ UNCHANGED <<status, money, detail, provider, order, overlapped, faults>>

-----------------------------------------------------------------------------
(* QueryAndFinalizeRefund *)

QueryAndFinalizeRefund(a) ==
  /\ At(a, "idle") /\ status = "REFUND_PENDING"
  /\ GotoWith(a, "readDetail", [NoPlan EXCEPT !.by = "finalize", !.saw = status])
  /\ Overlap(a)
  /\ UNCHANGED <<status, money, log, provider, order, faults>>

LatestRefundPendingDetail(a) ==
  /\ At(a, "readDetail")
  /\ GotoWith(a, "queryRefund",
              [plan[a] EXCEPT !.id = detail.id, !.ok = detail.ok])
  /\ UNCHANGED <<status, money, log, provider, order, overlapped, faults>>

\* QueryRefund: without an id the provider looks up the derived or latest one.
Queried(i) == IF i > 0 THEN i ELSE IF keyed THEN 1 ELSE n

\* refundFinalizePlan, without a deduction that was never given back; for a
\* subscription prepDeduct looks for an active one.
FinalAmount(a) == IF plan[a].ok /\ CanDeduct THEN 1 ELSE 0

\* The answer, and the plan built on it.
QueryRefund(a) ==
  /\ At(a, "queryRefund")
  /\ LET s == gw[Queried(plan[a].id)]
     IN  \/ /\ s = "success"
            /\ GotoWith(a, "finalCheck",
                        [plan[a] EXCEPT !.amount = FinalAmount(a)])
         \/ s = "failed" /\ Goto(a, "finalizeFailed")
         \/ s = "pending" /\ End(a)
  /\ UNCHANGED <<status, money, log, provider, order, overlapped, faults>>

FinalCheck(a) ==
  /\ At(a, "finalCheck")
  /\ Goto(a, IF "SUCCESS" \in audits \/ plan[a].amount = 0
             THEN "markRefundOk" ELSE "finalDeduct")
  /\ UNCHANGED <<status, money, log, provider, order, overlapped, faults>>

FinalDeduct(a) ==
  /\ At(a, "finalDeduct")
  /\ \/ Take /\ Goto(a, "markRefundOk")
     \/ ~CanDeduct /\ End(a) /\ UNCHANGED money
  /\ UNCHANGED <<status, log, provider, order, overlapped, faults>>

FinalizeRefundFailed(a) ==
  /\ SetStatus(a, "finalizeFailed", "REFUND_FAILED")
  /\ End(a) /\ UNCHANGED log

-----------------------------------------------------------------------------
(* Faults *)

\* The process dies, or the request's context is cancelled for good.
Crash(a) ==
  /\ pc[a] # "idle" /\ faults < MaxFaults
  /\ faults' = faults + 1 /\ End(a)
  /\ UNCHANGED <<status, money, log, provider, order, overlapped>>

\* A statement or call returns an error.  hasAuditLog and the read of the
\* REFUND_PENDING row take an error for an absent row; errors of the writes of
\* the status end the request; a provider call may fail after its effect.
CallFails(a) ==
  /\ faults < MaxFaults /\ faults' = faults + 1
  /\ \/ /\ pc[a] \in {"lock", "restoreStatus", "markRefundFailed",
                      "markRefundPending", "auditPending", "markRefundOk",
                      "auditSuccess", "queryRefund", "finalDeduct",
                      "finalizeFailed"}
        /\ End(a) /\ UNCHANGED provider
     \/ At(a, "checkAudit") /\ Goto(a, "deduct") /\ UNCHANGED provider
     \/ At(a, "deduct") /\ Goto(a, "restoreStatus") /\ UNCHANGED provider
     \/ /\ At(a, "gwRefund") /\ tradeNo
        /\ \E s \in {"pending", "success"} : Create(s)
        /\ Answered(a, "failed", 0)
     \/ /\ At(a, "readDetail")
        /\ GotoWith(a, "queryRefund", [plan[a] EXCEPT !.id = 0, !.ok = TRUE])
        /\ UNCHANGED provider
     \/ /\ At(a, "finalCheck")
        /\ Goto(a, IF plan[a].amount = 0 THEN "markRefundOk"
                   ELSE "finalDeduct")
        /\ UNCHANGED provider
  /\ UNCHANGED <<status, money, log, order, overlapped>>

\* UpdateBalance fails: the audit row says so, unless writing it fails as well.
RollbackFails(a) ==
  /\ At(a, "rollback") /\ plan[a].amount > 0
  /\ \/ /\ faults < MaxFaults /\ faults' = faults + 1
        /\ audits' = audits \cup {"ROLLBACK_FAILED"}
     \/ /\ faults + 1 < MaxFaults /\ faults' = faults + 2
        /\ UNCHANGED audits
  /\ AfterRollback(a, FALSE)
  /\ UNCHANGED <<status, money, detail, provider, order, overlapped>>

-----------------------------------------------------------------------------
Execute(a) ==
  \/ PrepareRefund(a) \/ Lock(a) \/ CheckAudit(a) \/ Deduct(a) \/ GwRefund(a)
  \/ RollbackRefund(a) \/ RestoreStatus(a) \/ MarkRefundFailed(a)
  \/ MarkRefundPending(a) \/ AuditPending(a) \/ MarkRefundOk(a)
  \/ AuditSuccess(a)

Finalize(a) ==
  \/ QueryAndFinalizeRefund(a) \/ LatestRefundPendingDetail(a)
  \/ QueryRefund(a) \/ FinalCheck(a) \/ FinalDeduct(a)
  \/ FinalizeRefundFailed(a)

Next == \/ Settle \/ RequestRefund
        \/ \E a \in Admins :
             \/ Execute(a) \/ Finalize(a)
             \/ Crash(a) \/ CallFails(a) \/ RollbackFails(a)

Spec == Init /\ [][Next]_vars

-----------------------------------------------------------------------------
(* Properties *)

\* REFUNDED means that the provider returned the money (or was never paid
\* through a trade number), for every interleaving of refunds, retries and
\* finalizations and every lost answer: markRefundOk is reached only on success.
RefundedIsReturned ==
  status = "REFUNDED" =>
    ~tradeNo \/ \E i \in 1..MaxRefunds : gw[i] = "success"

\* The user is never given back more than was taken: a rollback undoes a
\* deduction its own request made, also after skipped deductions and retries.
NeverOverRestored == deducted >= 0

\* No fault cut a request short, and no finalization ran beside another request.
\* Executions may overlap: REFUNDING keeps them apart.  The finalization takes
\* no lock: its check-then-deduct and its write of the status, as well as the
\* writes of an execution it overtakes, promise nothing else.
Undisturbed == faults = 0 /\ ~overlapped

\* What the order granted is taken back at most once, however often a refund is
\* refused, retried, left pending and finalized.
DebitedAtMostOnce == Undisturbed => deducted <= 1

\* Once a failed rollback is on record, no attempt deducts again what the failed
\* one took and kept.
NoDebitAfterFailedRollback == "ROLLBACK_FAILED" \in audits => deducted <= 1

\* When no request runs, what was taken for a refund that did not happen is on
\* record, as a rollback that failed: an admin can tell what the user is owed.
OwedIsOnRecord ==
  /\ Undisturbed /\ \A a \in Admins : pc[a] = "idle"
  /\ status # "REFUNDED" /\ deducted > 0
  => "ROLLBACK_FAILED" \in audits

\* A REFUNDED order is done with.  Every write of the status but the lock's is
\* unconditional, and requests prepared before the refund may be anywhere in
\* ExecuteRefund, cut short or about to roll back; yet as long as no finalization
\* ran beside another request none of them moves the order on, whatever fails.
RefundedIsFinal ==
  [][status = "REFUNDED" /\ ~overlapped => status' = "REFUNDED"]_vars

=============================================================================
