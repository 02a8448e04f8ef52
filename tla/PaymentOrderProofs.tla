------------------------- MODULE PaymentOrderProofs -------------------------
(***************************************************************************)
(* TLAPS proofs about PaymentOrder, for any set of workers, any window and *)
(* any number of faults.                                                   *)
(***************************************************************************)
EXTENDS PaymentOrder, TLAPS

\* Steps that are only reached through the amount check of confirmPayment.
Confirmed == PCs \ {"idle", "confirmPayment", "queryOrder", "persistTradeNo",
                    "cancelCore"}

\* Steps that are only reached once the order has been granted.
Granted == {"claimRebate", "accrueRebate", "markCompleted"}

\* Each grant is paid for with a row that can be used up only once: the redeem
\* code of a balance order, the audit row of a subscription order.
GrantTokens ==
  /\ grants = (IF code = "used" THEN 1 ELSE 0) + (IF assigned THEN 1 ELSE 0)
  /\ code # "none" => orderType = "balance"
  /\ assigned => orderType = "subscription"
  /\ \A w \in Workers :
       /\ pc[w] \in {"getByCode", "createCode", "redeem"}
            => orderType = "balance"
       /\ pc[w] \in {"checkGroup", "checkAssigned", "assign"}
            => orderType = "subscription"

\* The rebate is paid for with the audit row AFFILIATE_REBATE_APPLIED.
RebateToken ==
  /\ rebates = IF "APPLIED" \in rebateAudit THEN 1 ELSE 0
  /\ rebateAudit # {} => grants = 1

\* What the status and a worker's position say about the payment.
PaidFacts ==
  /\ pay \in {"exact", "short"} => creator = "ok"
  /\ paidAt => pay = "exact" /\ status \in Fulfillable \cup {"COMPLETED"}
  /\ status \in {"PAID", "RECHARGING", "COMPLETED"} => paidAt
  /\ status = "FAILED" => paidAt \/ creator = "failed"
  /\ \A w \in Workers : pc[w] \in Confirmed => pay = "exact"
  /\ \A w \in Workers : pc[w] = "executeFulfillment" => paidAt
  /\ \A w \in Workers : pc[w] = "acquireLease" => paidAt
  /\ \A w \in Workers : pc[w] = "cancelCore"
                          => req[w] \in {"CANCELLED", "EXPIRED"}
  /\ \A w \in Workers : pc[w] = "queryOrder" => req[w] # "webhook"

\* What a worker's position and the status say about the grant.
GrantFacts ==
  /\ \A w \in Workers : pc[w] \in Granted => grants = 1
  /\ status = "COMPLETED" => grants = 1
  /\ grants > 0 => pay = "exact"
  /\ ack = "done" => status = "COMPLETED"

IInv == TypeOK /\ GrantTokens /\ RebateToken /\ PaidFacts /\ GrantFacts

USE DEF row, ledger, env, Requests, NoRequest, Statuses, Fulfillable, PCs

-----------------------------------------------------------------------------
(* Lemmas *)

\* A worker that goes on to a next step keeps a well-typed position.
LEMMA GotoType ==
  ASSUME WorkerType, NEW w \in Workers, NEW l \in PCs, Goto(w, l)
  PROVE  WorkerType'
  BY DEF WorkerType, Goto

\* So does one whose handler ends.
LEMMA EndType ==
  ASSUME WorkerType, NEW w \in Workers, End(w)
  PROVE  WorkerType'
  BY DEF WorkerType, End

\* So does one that begins to serve a request.
LEMMA BeginType ==
  ASSUME WorkerType, NEW w \in Workers, NEW l \in PCs, NEW r \in Requests,
         Begin(w, l, r)
  PROVE  WorkerType'
  BY DEF WorkerType, Begin

-----------------------------------------------------------------------------
(* The inductive invariant *)

\* IInv holds in the state that createOrderInTx leaves behind.
LEMMA InitIInv == Init => IInv
<1> SUFFICES ASSUME Init PROVE IInv
  OBVIOUS
<1>0. age \in 0..(Window + 1) /\ grants \in Nat /\ rebates \in Nat
        /\ faults \in Nat
  BY WindowAssumption DEF Init
<1>1. RowType /\ LedgerType /\ EnvType
  BY <1>0, Zenon DEF Init, RowType, LedgerType, EnvType
<1>2. WorkerType
  BY DEF Init, WorkerType
<1>3. GrantTokens /\ RebateToken
  BY DEF Init, GrantTokens, RebateToken
<1>4. PaidFacts /\ GrantFacts
  BY DEF Init, PaidFacts, GrantFacts, Confirmed, Granted
<1> QED
  BY <1>1, <1>2, <1>3, <1>4 DEF IInv, TypeOK

\* Every step of the payer, of time and of a worker preserves IInv.
LEMMA NextIInv == IInv /\ [Next]_vars => IInv'
<1> SUFFICES ASSUME IInv, [Next]_vars PROVE IInv'
  OBVIOUS
<1> USE WindowAssumption DEF IInv, TypeOK
<1>1. ASSUME Pay PROVE IInv'
  <2>1. RowType' /\ LedgerType' /\ EnvType'
    BY <1>1 DEF RowType, LedgerType, EnvType, Pay
  <2>2. WorkerType'
    BY <1>1 DEF WorkerType, Pay
  <2>3. GrantTokens' /\ RebateToken'
    BY <1>1 DEF RowType, LedgerType, EnvType, WorkerType, GrantTokens,
       RebateToken, GrantFacts, Granted, Pay
  <2>4. PaidFacts'
    BY <1>1 DEF RowType, LedgerType, EnvType, WorkerType, PaidFacts,
       Confirmed, Pay
  <2>5. GrantFacts'
    BY <1>1 DEF RowType, LedgerType, EnvType, WorkerType, GrantTokens,
       PaidFacts, GrantFacts, Confirmed, Granted, Pay
  <2> QED
    BY <2>1, <2>2, <2>3, <2>4, <2>5
<1>2. ASSUME Tick PROVE IInv'
  <2>1. RowType' /\ LedgerType' /\ EnvType'
    BY <1>2 DEF RowType, LedgerType, EnvType, Tick, Quiet
  <2>2. WorkerType'
    BY <1>2 DEF WorkerType, Tick, Quiet
  <2>3. GrantTokens' /\ RebateToken'
    BY <1>2 DEF RowType, LedgerType, EnvType, WorkerType, GrantTokens,
       RebateToken, GrantFacts, Granted, Tick, Quiet
  <2>4. PaidFacts'
    BY <1>2 DEF RowType, LedgerType, EnvType, WorkerType, PaidFacts,
       Confirmed, Tick, Quiet
  <2>5. GrantFacts'
    BY <1>2 DEF RowType, LedgerType, EnvType, WorkerType, GrantTokens,
       PaidFacts, GrantFacts, Confirmed, Granted, Tick, Quiet
  <2> QED
    BY <2>1, <2>2, <2>3, <2>4, <2>5
<1>3. ASSUME Stall PROVE IInv'
  <2>1. RowType' /\ LedgerType' /\ EnvType'
    BY <1>3 DEF RowType, LedgerType, EnvType, Stall, Quiet
  <2>2. WorkerType'
    BY <1>3 DEF WorkerType, Stall, Quiet
  <2>3. GrantTokens' /\ RebateToken'
    BY <1>3 DEF RowType, LedgerType, EnvType, WorkerType, GrantTokens,
       RebateToken, GrantFacts, Granted, Stall, Quiet
  <2>4. PaidFacts'
    BY <1>3 DEF RowType, LedgerType, EnvType, WorkerType, PaidFacts,
       Confirmed, Stall, Quiet
  <2>5. GrantFacts'
    BY <1>3 DEF RowType, LedgerType, EnvType, WorkerType, GrantTokens,
       PaidFacts, GrantFacts, Confirmed, Granted, Stall, Quiet
  <2> QED
    BY <2>1, <2>2, <2>3, <2>4, <2>5
<1>4. ASSUME Timeout PROVE IInv'
  <2>1. RowType' /\ LedgerType' /\ EnvType'
    BY <1>4 DEF RowType, LedgerType, EnvType, Timeout
  <2>2. WorkerType'
    BY <1>4 DEF WorkerType, Timeout
  <2>3. GrantTokens' /\ RebateToken'
    BY <1>4 DEF RowType, LedgerType, EnvType, WorkerType, GrantTokens,
       RebateToken, GrantFacts, Granted, Timeout
  <2>4. PaidFacts'
    BY <1>4 DEF RowType, LedgerType, EnvType, WorkerType, PaidFacts,
       Confirmed, Timeout
  <2>5. GrantFacts'
    BY <1>4 DEF RowType, LedgerType, EnvType, WorkerType, GrantTokens,
       PaidFacts, GrantFacts, Confirmed, Granted, Timeout
  <2> QED
    BY <2>1, <2>2, <2>3, <2>4, <2>5
<1>5. ASSUME CreateOrderOk PROVE IInv'
  <2>1. RowType' /\ LedgerType' /\ EnvType'
    BY <1>5 DEF RowType, LedgerType, EnvType, CreateOrderOk, WriteRow
  <2>2. WorkerType'
    BY <1>5 DEF WorkerType, CreateOrderOk, WriteRow
  <2>3. GrantTokens' /\ RebateToken'
    BY <1>5 DEF RowType, LedgerType, EnvType, WorkerType, GrantTokens,
       RebateToken, GrantFacts, Granted, CreateOrderOk, WriteRow
  <2>4. PaidFacts'
    BY <1>5 DEF RowType, LedgerType, EnvType, WorkerType, PaidFacts,
       Confirmed, CreateOrderOk, WriteRow
  <2>5. GrantFacts'
    BY <1>5 DEF RowType, LedgerType, EnvType, WorkerType, GrantTokens,
       PaidFacts, GrantFacts, Confirmed, Granted, CreateOrderOk, WriteRow
  <2> QED
    BY <2>1, <2>2, <2>3, <2>4, <2>5
<1>6. ASSUME CreateOrderFailed PROVE IInv'
  <2>1. RowType' /\ LedgerType' /\ EnvType'
    BY <1>6 DEF RowType, LedgerType, EnvType, CreateOrderFailed, WriteRow
  <2>2. WorkerType'
    BY <1>6 DEF WorkerType, CreateOrderFailed, WriteRow
  <2>3. GrantTokens' /\ RebateToken'
    BY <1>6 DEF RowType, LedgerType, EnvType, WorkerType, GrantTokens,
       RebateToken, GrantFacts, Granted, CreateOrderFailed, WriteRow
  <2>4. PaidFacts'
    BY <1>6 DEF RowType, LedgerType, EnvType, WorkerType, PaidFacts,
       Confirmed, CreateOrderFailed, WriteRow
  <2>5. GrantFacts'
    BY <1>6 DEF RowType, LedgerType, EnvType, WorkerType, GrantTokens,
       PaidFacts, GrantFacts, Confirmed, Granted, CreateOrderFailed, WriteRow
  <2> QED
    BY <2>1, <2>2, <2>3, <2>4, <2>5
<1>7. ASSUME NEW w \in Workers, HandlePaymentNotification(w) PROVE IInv'
  <2>1. RowType' /\ LedgerType' /\ EnvType'
    BY <1>7 DEF RowType, LedgerType, EnvType, HandlePaymentNotification, Begin
  <2>2. WorkerType'
    BY <1>7, BeginType DEF RowType, HandlePaymentNotification
  <2>3. GrantTokens' /\ RebateToken'
    BY <1>7 DEF RowType, LedgerType, EnvType, WorkerType, GrantTokens,
       RebateToken, GrantFacts, Granted, HandlePaymentNotification, Begin
  <2>4. PaidFacts'
    BY <1>7 DEF RowType, LedgerType, EnvType, WorkerType, PaidFacts,
       Confirmed, HandlePaymentNotification, Begin
  <2>5. GrantFacts'
    BY <1>7 DEF RowType, LedgerType, EnvType, WorkerType, GrantTokens,
       PaidFacts, GrantFacts, Confirmed, Granted, HandlePaymentNotification,
       Begin
  <2> QED
    BY <2>1, <2>2, <2>3, <2>4, <2>5
<1>8. ASSUME NEW w \in Workers, RetryFulfillment(w) PROVE IInv'
  <2>1. RowType' /\ LedgerType' /\ EnvType'
    BY <1>8 DEF RowType, LedgerType, EnvType, RetryFulfillment, Begin
  <2>2. WorkerType'
    BY <1>8, BeginType DEF RowType, RetryFulfillment
  <2>3. GrantTokens' /\ RebateToken'
    BY <1>8 DEF RowType, LedgerType, EnvType, WorkerType, GrantTokens,
       RebateToken, GrantFacts, Granted, RetryFulfillment, Begin
  <2>4. PaidFacts'
    BY <1>8 DEF RowType, LedgerType, EnvType, WorkerType, PaidFacts,
       Confirmed, RetryFulfillment, Begin
  <2>5. GrantFacts'
    BY <1>8 DEF RowType, LedgerType, EnvType, WorkerType, GrantTokens,
       PaidFacts, GrantFacts, Confirmed, Granted, RetryFulfillment, Begin
  <2> QED
    BY <2>1, <2>2, <2>3, <2>4, <2>5
<1>9. ASSUME NEW w \in Workers, CancelOrder(w) PROVE IInv'
  <2>1. RowType' /\ LedgerType' /\ EnvType'
    BY <1>9 DEF RowType, LedgerType, EnvType, CancelOrder, BeginQuery, Begin
  <2>2. WorkerType'
    BY <1>9, BeginType DEF RowType, CancelOrder, BeginQuery
  <2>3. GrantTokens' /\ RebateToken'
    BY <1>9 DEF RowType, LedgerType, EnvType, WorkerType, GrantTokens,
       RebateToken, GrantFacts, Granted, CancelOrder, BeginQuery, Begin
  <2>4. PaidFacts'
    BY <1>9 DEF RowType, LedgerType, EnvType, WorkerType, PaidFacts,
       Confirmed, CancelOrder, BeginQuery, Begin
  <2>5. GrantFacts'
    BY <1>9 DEF RowType, LedgerType, EnvType, WorkerType, GrantTokens,
       PaidFacts, GrantFacts, Confirmed, Granted, CancelOrder, BeginQuery,
       Begin
  <2> QED
    BY <2>1, <2>2, <2>3, <2>4, <2>5
<1>10. ASSUME NEW w \in Workers, ExpireTimedOutOrders(w) PROVE IInv'
  <2>1. RowType' /\ LedgerType' /\ EnvType'
    BY <1>10 DEF RowType, LedgerType, EnvType, ExpireTimedOutOrders,
       BeginQuery, Begin
  <2>2. WorkerType'
    BY <1>10, BeginType DEF RowType, ExpireTimedOutOrders, BeginQuery
  <2>3. GrantTokens' /\ RebateToken'
    BY <1>10 DEF RowType, LedgerType, EnvType, WorkerType, GrantTokens,
       RebateToken, GrantFacts, Granted, ExpireTimedOutOrders, BeginQuery,
       Begin
  <2>4. PaidFacts'
    BY <1>10 DEF RowType, LedgerType, EnvType, WorkerType, PaidFacts,
       Confirmed, ExpireTimedOutOrders, BeginQuery, Begin
  <2>5. GrantFacts'
    BY <1>10 DEF RowType, LedgerType, EnvType, WorkerType, GrantTokens,
       PaidFacts, GrantFacts, Confirmed, Granted, ExpireTimedOutOrders,
       BeginQuery, Begin
  <2> QED
    BY <2>1, <2>2, <2>3, <2>4, <2>5
<1>11. ASSUME NEW w \in Workers, ReconcilePendingWxpayOrders(w) PROVE IInv'
  <2>1. RowType' /\ LedgerType' /\ EnvType'
    BY <1>11 DEF RowType, LedgerType, EnvType, ReconcilePendingWxpayOrders,
       BeginQuery, Begin
  <2>2. WorkerType'
    BY <1>11, BeginType DEF RowType, ReconcilePendingWxpayOrders, BeginQuery
  <2>3. GrantTokens' /\ RebateToken'
    BY <1>11 DEF RowType, LedgerType, EnvType, WorkerType, GrantTokens,
       RebateToken, GrantFacts, Granted, ReconcilePendingWxpayOrders,
       BeginQuery, Begin
  <2>4. PaidFacts'
    BY <1>11 DEF RowType, LedgerType, EnvType, WorkerType, PaidFacts,
       Confirmed, ReconcilePendingWxpayOrders, BeginQuery, Begin
  <2>5. GrantFacts'
    BY <1>11 DEF RowType, LedgerType, EnvType, WorkerType, GrantTokens,
       PaidFacts, GrantFacts, Confirmed, Granted, ReconcilePendingWxpayOrders,
       BeginQuery, Begin
  <2> QED
    BY <2>1, <2>2, <2>3, <2>4, <2>5
<1>12. ASSUME NEW w \in Workers, VerifyOrderByOutTradeNo(w) PROVE IInv'
  <2>1. RowType' /\ LedgerType' /\ EnvType'
    BY <1>12 DEF RowType, LedgerType, EnvType, VerifyOrderByOutTradeNo,
       BeginQuery, Begin
  <2>2. WorkerType'
    BY <1>12, BeginType DEF RowType, VerifyOrderByOutTradeNo, BeginQuery
  <2>3. GrantTokens' /\ RebateToken'
    BY <1>12 DEF RowType, LedgerType, EnvType, WorkerType, GrantTokens,
       RebateToken, GrantFacts, Granted, VerifyOrderByOutTradeNo, BeginQuery,
       Begin
  <2>4. PaidFacts'
    BY <1>12 DEF RowType, LedgerType, EnvType, WorkerType, PaidFacts,
       Confirmed, VerifyOrderByOutTradeNo, BeginQuery, Begin
  <2>5. GrantFacts'
    BY <1>12 DEF RowType, LedgerType, EnvType, WorkerType, GrantTokens,
       PaidFacts, GrantFacts, Confirmed, Granted, VerifyOrderByOutTradeNo,
       BeginQuery, Begin
  <2> QED
    BY <2>1, <2>2, <2>3, <2>4, <2>5
<1>13. ASSUME NEW w \in Workers, QueryPaid(w) PROVE IInv'
  <2>1. RowType' /\ LedgerType' /\ EnvType'
    BY <1>13 DEF RowType, LedgerType, EnvType, QueryPaid
  <2>2. WorkerType'
    BY <1>13 DEF WorkerType, QueryPaid
  <2>3. GrantTokens' /\ RebateToken'
    BY <1>13 DEF RowType, LedgerType, EnvType, WorkerType, GrantTokens,
       RebateToken, GrantFacts, Granted, QueryPaid
  <2>4. PaidFacts'
    BY <1>13 DEF RowType, LedgerType, EnvType, WorkerType, PaidFacts,
       Confirmed, QueryPaid
  <2>5. GrantFacts'
    BY <1>13 DEF RowType, LedgerType, EnvType, WorkerType, GrantTokens,
       PaidFacts, GrantFacts, Confirmed, Granted, QueryPaid
  <2> QED
    BY <2>1, <2>2, <2>3, <2>4, <2>5
<1>14. ASSUME NEW w \in Workers, QueryUnpaid(w) PROVE IInv'
  <2>1. RowType' /\ LedgerType' /\ EnvType'
    BY <1>14 DEF RowType, LedgerType, EnvType, QueryUnpaid, Goto, ReturnErr,
       End
  <2>2. WorkerType'
    BY <1>14, GotoType, EndType DEF QueryUnpaid, ReturnErr
  <2>3. GrantTokens' /\ RebateToken'
    BY <1>14 DEF RowType, LedgerType, EnvType, WorkerType, GrantTokens,
       RebateToken, GrantFacts, Granted, QueryUnpaid, Goto, ReturnErr, End
  <2>4. PaidFacts'
    BY <1>14 DEF RowType, LedgerType, EnvType, WorkerType, PaidFacts,
       Confirmed, QueryUnpaid, Goto, ReturnErr, End
  <2>5. GrantFacts'
    BY <1>14 DEF RowType, LedgerType, EnvType, WorkerType, GrantTokens,
       PaidFacts, GrantFacts, Confirmed, Granted, QueryUnpaid, Goto,
       ReturnErr, End
  <2> QED
    BY <2>1, <2>2, <2>3, <2>4, <2>5
<1>15. ASSUME NEW w \in Workers, PersistTradeNo(w) PROVE IInv'
  <2>1. RowType' /\ LedgerType' /\ EnvType'
    BY <1>15 DEF RowType, LedgerType, EnvType, PersistTradeNo, WriteRow, Goto
  <2>2. WorkerType'
    BY <1>15, GotoType DEF PersistTradeNo, WriteRow
  <2>3. GrantTokens' /\ RebateToken'
    BY <1>15 DEF RowType, LedgerType, EnvType, WorkerType, GrantTokens,
       RebateToken, GrantFacts, Granted, PersistTradeNo, WriteRow, Goto
  <2>4. PaidFacts'
    BY <1>15 DEF RowType, LedgerType, EnvType, WorkerType, PaidFacts,
       Confirmed, PersistTradeNo, WriteRow, Goto
  <2>5. GrantFacts'
    BY <1>15 DEF RowType, LedgerType, EnvType, WorkerType, GrantTokens,
       PaidFacts, GrantFacts, Confirmed, Granted, PersistTradeNo, WriteRow,
       Goto
  <2> QED
    BY <2>1, <2>2, <2>3, <2>4, <2>5
<1>16. ASSUME NEW w \in Workers, CancelCore(w) PROVE IInv'
  <2>1. RowType' /\ LedgerType' /\ EnvType'
    BY <1>16 DEF RowType, LedgerType, EnvType, WorkerType, PaidFacts,
       CancelCore, WriteRow, ReturnErr, End
  <2>2. WorkerType'
    BY <1>16, EndType DEF CancelCore, WriteRow, ReturnErr
  <2>3. GrantTokens' /\ RebateToken'
    BY <1>16 DEF RowType, LedgerType, EnvType, WorkerType, GrantTokens,
       RebateToken, GrantFacts, Granted, CancelCore, WriteRow, ReturnErr, End
  <2>4. PaidFacts'
    BY <1>16 DEF RowType, LedgerType, EnvType, WorkerType, PaidFacts,
       Confirmed, CancelCore, WriteRow, ReturnErr, End
  <2>5. GrantFacts'
    BY <1>16 DEF RowType, LedgerType, EnvType, WorkerType, GrantTokens,
       PaidFacts, GrantFacts, Confirmed, Granted, CancelCore, WriteRow,
       ReturnErr, End
  <2> QED
    BY <2>1, <2>2, <2>3, <2>4, <2>5
<1>17. ASSUME NEW w \in Workers, ConfirmPayment(w) PROVE IInv'
  <2>1. RowType' /\ LedgerType' /\ EnvType'
    BY <1>17 DEF RowType, LedgerType, EnvType, ConfirmPayment, AmountMatches,
       Goto, ReturnErr, End
  <2>2. WorkerType'
    BY <1>17, GotoType, EndType DEF ConfirmPayment, AmountMatches, ReturnErr
  <2>3. GrantTokens' /\ RebateToken'
    BY <1>17 DEF RowType, LedgerType, EnvType, WorkerType, GrantTokens,
       RebateToken, GrantFacts, Granted, ConfirmPayment, AmountMatches, Goto,
       ReturnErr, End
  <2>4. PaidFacts'
    BY <1>17 DEF RowType, LedgerType, EnvType, WorkerType, PaidFacts,
       Confirmed, ConfirmPayment, AmountMatches, Goto, ReturnErr, End
  <2>5. GrantFacts'
    BY <1>17 DEF RowType, LedgerType, EnvType, WorkerType, GrantTokens,
       PaidFacts, GrantFacts, Confirmed, Granted, ConfirmPayment,
       AmountMatches, Goto, ReturnErr, End
  <2> QED
    BY <2>1, <2>2, <2>3, <2>4, <2>5
<1>18. ASSUME NEW w \in Workers, ToPaid(w) PROVE IInv'
  <2>1. status' \in Statuses /\ age' \in 0..(Window + 1)
         /\ holders' \in SUBSET Workers
    BY <1>18 DEF RowType, ToPaid, Payable, WithinGrace, WriteRow, Goto
  <2>2. paidAt' \in BOOLEAN
    BY <1>18, Zenon DEF RowType, ToPaid, Payable, WithinGrace, WriteRow, Goto
  <2>3. RowType'
    BY <2>1, <2>2 DEF RowType
  <2>4. LedgerType' /\ EnvType'
    BY <1>18 DEF LedgerType, EnvType, ToPaid, Payable, WithinGrace, WriteRow,
       Goto
  <2>5. WorkerType'
    BY <1>18, GotoType DEF ToPaid, Payable, WithinGrace, WriteRow
  <2>6. GrantTokens' /\ RebateToken'
    BY <1>18 DEF RowType, LedgerType, EnvType, WorkerType, GrantTokens,
       RebateToken, GrantFacts, Granted, ToPaid, Payable, WithinGrace,
       WriteRow, Goto
  <2>7. PaidFacts'
    BY <1>18 DEF RowType, LedgerType, EnvType, WorkerType, PaidFacts,
       Confirmed, ToPaid, Payable, WithinGrace, WriteRow, Goto
  <2>8. GrantFacts'
    BY <1>18 DEF RowType, LedgerType, EnvType, WorkerType, GrantTokens,
       PaidFacts, GrantFacts, Confirmed, Granted, ToPaid, Payable,
       WithinGrace, WriteRow, Goto
  <2> QED
    BY <2>1, <2>2, <2>3, <2>4, <2>5, <2>6, <2>7, <2>8
<1>19. ASSUME NEW w \in Workers, AlreadyProcessed(w) PROVE IInv'
  <2>1. RowType' /\ LedgerType' /\ EnvType'
    BY <1>19 DEF RowType, LedgerType, EnvType, AlreadyProcessed, Goto,
       ReturnNil, End, IsHook
  <2>2. WorkerType'
    BY <1>19, GotoType, EndType DEF AlreadyProcessed, ReturnNil, IsHook
  <2>3. GrantTokens' /\ RebateToken'
    BY <1>19 DEF RowType, LedgerType, EnvType, WorkerType, GrantTokens,
       RebateToken, GrantFacts, Granted, AlreadyProcessed, Goto, ReturnNil,
       End, IsHook
  <2>4. PaidFacts'
    BY <1>19 DEF RowType, LedgerType, EnvType, WorkerType, PaidFacts,
       Confirmed, AlreadyProcessed, Goto, ReturnNil, End, IsHook
  <2>5. GrantFacts'
    BY <1>19 DEF RowType, LedgerType, EnvType, WorkerType, GrantTokens,
       PaidFacts, GrantFacts, Confirmed, Granted, AlreadyProcessed, Goto,
       ReturnNil, End, IsHook
  <2> QED
    BY <2>1, <2>2, <2>3, <2>4, <2>5
<1>20. ASSUME NEW w \in Workers, ExecuteFulfillment(w) PROVE IInv'
  <2>1. RowType' /\ LedgerType' /\ EnvType'
    BY <1>20 DEF RowType, LedgerType, EnvType, ExecuteFulfillment, Goto,
       ReturnNil, ReturnErr, End, IsHook
  <2>2. WorkerType'
    BY <1>20, GotoType, EndType DEF ExecuteFulfillment, ReturnNil, ReturnErr,
       IsHook
  <2>3. GrantTokens' /\ RebateToken'
    BY <1>20 DEF RowType, LedgerType, EnvType, WorkerType, GrantTokens,
       RebateToken, GrantFacts, Granted, ExecuteFulfillment, Goto, ReturnNil,
       ReturnErr, End, IsHook
  <2>4. PaidFacts'
    BY <1>20 DEF RowType, LedgerType, EnvType, WorkerType, PaidFacts,
       Confirmed, ExecuteFulfillment, Goto, ReturnNil, ReturnErr, End, IsHook
  <2>5. GrantFacts'
    BY <1>20 DEF RowType, LedgerType, EnvType, WorkerType, GrantTokens,
       PaidFacts, GrantFacts, Confirmed, Granted, ExecuteFulfillment, Goto,
       ReturnNil, ReturnErr, End, IsHook
  <2> QED
    BY <2>1, <2>2, <2>3, <2>4, <2>5
<1>21. ASSUME NEW w \in Workers, AcquireLease(w) PROVE IInv'
  <2>1. RowType' /\ LedgerType' /\ EnvType'
    BY <1>21 DEF RowType, LedgerType, EnvType, AcquireLease, LeaseFree,
       LeaseStale, WriteRow, Goto, ReturnNil, ReturnErr, End, IsHook
  <2>2. WorkerType'
    BY <1>21, GotoType, EndType DEF AcquireLease, LeaseFree, LeaseStale,
       WriteRow, ReturnNil, ReturnErr, IsHook
  <2>3. GrantTokens' /\ RebateToken'
    BY <1>21 DEF RowType, LedgerType, EnvType, WorkerType, GrantTokens,
       RebateToken, GrantFacts, Granted, AcquireLease, LeaseFree, LeaseStale,
       WriteRow, Goto, ReturnNil, ReturnErr, End, IsHook
  <2>4. PaidFacts'
    BY <1>21 DEF RowType, LedgerType, EnvType, WorkerType, PaidFacts,
       Confirmed, AcquireLease, LeaseFree, LeaseStale, WriteRow, Goto,
       ReturnNil, ReturnErr, End, IsHook
  <2>5. GrantFacts'
    BY <1>21 DEF RowType, LedgerType, EnvType, WorkerType, GrantTokens,
       PaidFacts, GrantFacts, Confirmed, Granted, AcquireLease, LeaseFree,
       LeaseStale, WriteRow, Goto, ReturnNil, ReturnErr, End, IsHook
  <2> QED
    BY <2>1, <2>2, <2>3, <2>4, <2>5
<1>22. ASSUME NEW w \in Workers, ReloadLease(w) PROVE IInv'
  <2>1. RowType' /\ LedgerType' /\ EnvType'
    BY <1>22 DEF RowType, LedgerType, EnvType, ReloadLease, Goto, ReturnErr,
       End
  <2>2. WorkerType'
    BY <1>22, GotoType, EndType DEF ReloadLease, ReturnErr
  <2>3. GrantTokens' /\ RebateToken'
    BY <1>22 DEF RowType, LedgerType, EnvType, WorkerType, GrantTokens,
       RebateToken, GrantFacts, Granted, ReloadLease, Goto, ReturnErr, End
  <2>4. PaidFacts'
    BY <1>22 DEF RowType, LedgerType, EnvType, WorkerType, PaidFacts,
       Confirmed, ReloadLease, Goto, ReturnErr, End
  <2>5. GrantFacts'
    BY <1>22 DEF RowType, LedgerType, EnvType, WorkerType, GrantTokens,
       PaidFacts, GrantFacts, Confirmed, Granted, ReloadLease, Goto,
       ReturnErr, End
  <2> QED
    BY <2>1, <2>2, <2>3, <2>4, <2>5
<1>23. ASSUME NEW w \in Workers, GetByCode(w) PROVE IInv'
  <2>1. RowType' /\ LedgerType' /\ EnvType'
    BY <1>23 DEF RowType, LedgerType, EnvType, GetByCode, Goto
  <2>2. WorkerType'
    BY <1>23, GotoType DEF LedgerType, GetByCode
  <2>3. GrantTokens' /\ RebateToken'
    BY <1>23 DEF RowType, LedgerType, EnvType, WorkerType, GrantTokens,
       RebateToken, GrantFacts, Granted, GetByCode, Goto
  <2>4. PaidFacts'
    BY <1>23 DEF RowType, LedgerType, EnvType, WorkerType, PaidFacts,
       Confirmed, GetByCode, Goto
  <2>5. GrantFacts'
    BY <1>23 DEF RowType, LedgerType, EnvType, WorkerType, GrantTokens,
       PaidFacts, GrantFacts, Confirmed, Granted, GetByCode, Goto
  <2> QED
    BY <2>1, <2>2, <2>3, <2>4, <2>5
<1>24. ASSUME NEW w \in Workers, CreateCode(w) PROVE IInv'
  <2>1. RowType' /\ LedgerType' /\ EnvType'
    BY <1>24 DEF RowType, LedgerType, EnvType, CreateCode, Goto
  <2>2. WorkerType'
    BY <1>24, GotoType DEF CreateCode
  <2>3. GrantTokens' /\ RebateToken'
    BY <1>24 DEF RowType, LedgerType, EnvType, WorkerType, GrantTokens,
       RebateToken, GrantFacts, Granted, CreateCode, Goto
  <2>4. PaidFacts'
    BY <1>24 DEF RowType, LedgerType, EnvType, WorkerType, PaidFacts,
       Confirmed, CreateCode, Goto
  <2>5. GrantFacts'
    BY <1>24 DEF RowType, LedgerType, EnvType, WorkerType, GrantTokens,
       PaidFacts, GrantFacts, Confirmed, Granted, CreateCode, Goto
  <2> QED
    BY <2>1, <2>2, <2>3, <2>4, <2>5
<1>25. ASSUME NEW w \in Workers, Redeem(w) PROVE IInv'
  <2>1. RowType' /\ LedgerType' /\ EnvType'
    BY <1>25 DEF RowType, LedgerType, EnvType, Redeem, Goto
  <2>2. WorkerType'
    BY <1>25, GotoType DEF Redeem
  <2>3. GrantTokens' /\ RebateToken'
    BY <1>25 DEF RowType, LedgerType, EnvType, WorkerType, GrantTokens,
       RebateToken, GrantFacts, Granted, Redeem, Goto
  <2>4. PaidFacts'
    BY <1>25 DEF RowType, LedgerType, EnvType, WorkerType, PaidFacts,
       Confirmed, Redeem, Goto
  <2>5. GrantFacts'
    BY <1>25 DEF RowType, LedgerType, EnvType, WorkerType, GrantTokens,
       PaidFacts, GrantFacts, Confirmed, Granted, Redeem, Goto
  <2> QED
    BY <2>1, <2>2, <2>3, <2>4, <2>5
<1>26. ASSUME NEW w \in Workers, CheckAssigned(w) PROVE IInv'
  <2>1. RowType' /\ LedgerType' /\ EnvType'
    BY <1>26 DEF RowType, LedgerType, EnvType, CheckAssigned, Goto
  <2>2. WorkerType'
    BY <1>26, GotoType DEF CheckAssigned
  <2>3. GrantTokens' /\ RebateToken'
    BY <1>26 DEF RowType, LedgerType, EnvType, WorkerType, GrantTokens,
       RebateToken, GrantFacts, Granted, CheckAssigned, Goto
  <2>4. PaidFacts'
    BY <1>26 DEF RowType, LedgerType, EnvType, WorkerType, PaidFacts,
       Confirmed, CheckAssigned, Goto
  <2>5. GrantFacts'
    BY <1>26 DEF RowType, LedgerType, EnvType, WorkerType, GrantTokens,
       PaidFacts, GrantFacts, Confirmed, Granted, CheckAssigned, Goto
  <2> QED
    BY <2>1, <2>2, <2>3, <2>4, <2>5
<1>27. ASSUME NEW w \in Workers, Assign(w) PROVE IInv'
  <2>1. RowType' /\ EnvType'
    BY <1>27 DEF RowType, EnvType, Assign, Goto
  <2>2. assigned' \in BOOLEAN
    BY <1>27, Zenon DEF LedgerType, Assign, Goto
  <2>3. LedgerType'
    BY <1>27, <2>2 DEF LedgerType, Assign, Goto
  <2>4. WorkerType'
    BY <1>27, GotoType DEF Assign
  <2>5. GrantTokens' /\ RebateToken'
    BY <1>27 DEF RowType, LedgerType, EnvType, WorkerType, GrantTokens,
       RebateToken, GrantFacts, Granted, Assign, Goto
  <2>6. PaidFacts'
    BY <1>27 DEF RowType, LedgerType, EnvType, WorkerType, PaidFacts,
       Confirmed, Assign, Goto
  <2>7. GrantFacts'
    BY <1>27 DEF RowType, LedgerType, EnvType, WorkerType, GrantTokens,
       PaidFacts, GrantFacts, Confirmed, Granted, Assign, Goto
  <2> QED
    BY <2>1, <2>2, <2>3, <2>4, <2>5, <2>6, <2>7
<1>28. ASSUME NEW w \in Workers, ClaimRebate(w) PROVE IInv'
  <2>1. RowType' /\ LedgerType' /\ EnvType'
    BY <1>28 DEF RowType, LedgerType, EnvType, ClaimRebate, Goto
  <2>2. WorkerType'
    BY <1>28, GotoType DEF ClaimRebate
  <2>3. GrantTokens' /\ RebateToken'
    BY <1>28 DEF RowType, LedgerType, EnvType, WorkerType, GrantTokens,
       RebateToken, GrantFacts, Granted, ClaimRebate, Goto
  <2>4. PaidFacts'
    BY <1>28 DEF RowType, LedgerType, EnvType, WorkerType, PaidFacts,
       Confirmed, ClaimRebate, Goto
  <2>5. GrantFacts'
    BY <1>28 DEF RowType, LedgerType, EnvType, WorkerType, GrantTokens,
       PaidFacts, GrantFacts, Confirmed, Granted, ClaimRebate, Goto
  <2> QED
    BY <2>1, <2>2, <2>3, <2>4, <2>5
<1>29. ASSUME NEW w \in Workers, AccrueRebate(w) PROVE IInv'
  <2>1. RowType' /\ EnvType'
    BY <1>29 DEF RowType, EnvType, AccrueRebate, Goto
  <2>2. rebateAudit' \in SUBSET {"APPLIED", "SKIPPED"}
    BY <1>29, Zenon DEF LedgerType, AccrueRebate, Goto
  <2>3. LedgerType'
    BY <1>29, <2>2 DEF LedgerType, AccrueRebate, Goto
  <2>4. WorkerType'
    BY <1>29, GotoType DEF AccrueRebate
  <2>5. GrantTokens' /\ RebateToken'
    BY <1>29 DEF RowType, LedgerType, EnvType, WorkerType, GrantTokens,
       RebateToken, GrantFacts, Granted, AccrueRebate, Goto
  <2>6. PaidFacts'
    BY <1>29 DEF RowType, LedgerType, EnvType, WorkerType, PaidFacts,
       Confirmed, AccrueRebate, Goto
  <2>7. GrantFacts'
    BY <1>29 DEF RowType, LedgerType, EnvType, WorkerType, GrantTokens,
       PaidFacts, GrantFacts, Confirmed, Granted, AccrueRebate, Goto
  <2> QED
    BY <2>1, <2>2, <2>3, <2>4, <2>5, <2>6, <2>7
<1>30. ASSUME NEW w \in Workers, MarkCompleted(w) PROVE IInv'
  <2>1. RowType' /\ LedgerType' /\ EnvType'
    BY <1>30 DEF RowType, LedgerType, EnvType, MarkCompleted, LeaseHeld,
       WriteRow, ReturnNil, End, IsHook, Goto
  <2>2. WorkerType'
    BY <1>30, GotoType, EndType DEF MarkCompleted, LeaseHeld, WriteRow,
       ReturnNil, IsHook
  <2>3. GrantTokens' /\ RebateToken'
    BY <1>30 DEF RowType, LedgerType, EnvType, WorkerType, GrantTokens,
       RebateToken, GrantFacts, Granted, MarkCompleted, LeaseHeld, WriteRow,
       ReturnNil, End, IsHook, Goto
  <2>4. PaidFacts'
    BY <1>30 DEF RowType, LedgerType, EnvType, WorkerType, PaidFacts,
       Confirmed, MarkCompleted, LeaseHeld, WriteRow, ReturnNil, End, IsHook,
       Goto
  <2>5. GrantFacts'
    BY <1>30 DEF RowType, LedgerType, EnvType, WorkerType, GrantTokens,
       PaidFacts, GrantFacts, Confirmed, Granted, MarkCompleted, LeaseHeld,
       WriteRow, ReturnNil, End, IsHook, Goto
  <2> QED
    BY <2>1, <2>2, <2>3, <2>4, <2>5
<1>31. ASSUME NEW w \in Workers, MarkFailed(w) PROVE IInv'
  <2>1. RowType' /\ LedgerType' /\ EnvType'
    BY <1>31 DEF RowType, LedgerType, EnvType, MarkFailed, LeaseHeld,
       WriteRow, ReturnErr, End
  <2>2. WorkerType'
    BY <1>31, EndType DEF MarkFailed, LeaseHeld, WriteRow, ReturnErr
  <2>3. GrantTokens' /\ RebateToken'
    BY <1>31 DEF RowType, LedgerType, EnvType, WorkerType, GrantTokens,
       RebateToken, GrantFacts, Granted, MarkFailed, LeaseHeld, WriteRow,
       ReturnErr, End
  <2>4. PaidFacts'
    BY <1>31 DEF RowType, LedgerType, EnvType, WorkerType, PaidFacts,
       Confirmed, MarkFailed, LeaseHeld, WriteRow, ReturnErr, End
  <2>5. GrantFacts'
    BY <1>31 DEF RowType, LedgerType, EnvType, WorkerType, GrantTokens,
       PaidFacts, GrantFacts, Confirmed, Granted, MarkFailed, LeaseHeld,
       WriteRow, ReturnErr, End
  <2> QED
    BY <2>1, <2>2, <2>3, <2>4, <2>5
<1>32. ASSUME NEW w \in Workers, CallFails(w) PROVE IInv'
  <2>1. RowType' /\ LedgerType' /\ EnvType'
    BY <1>32 DEF RowType, LedgerType, EnvType, CallFails, AfterError,
       SwallowsError, Goto, ReturnNil, ReturnErr, End, IsHook
  <2>2. WorkerType'
    BY <1>32, GotoType, EndType DEF CallFails, AfterError, SwallowsError,
       ReturnNil, ReturnErr, IsHook
  <2>3. GrantTokens' /\ RebateToken'
    BY <1>32 DEF RowType, LedgerType, EnvType, WorkerType, GrantTokens,
       RebateToken, GrantFacts, Granted, CallFails, AfterError, SwallowsError,
       Goto, ReturnNil, ReturnErr, End, IsHook
  <2>4. PaidFacts'
    <3>1. /\ UNCHANGED <<row, env>>
          /\ \A v \in Workers \ {w} : pc'[v] = pc[v] /\ req'[v] = req[v]
          /\ \/ pc'[w] = "idle"
             \/ pc'[w] = AfterError(w) /\ req'[w] = req[w]
      BY <1>32 DEF WorkerType, CallFails, Goto, ReturnNil, ReturnErr, End,
         IsHook
    <3>2. CASE pc'[w] = "idle"
      BY <3>1, <3>2 DEF PaidFacts, Confirmed
    <3>3. CASE pc'[w] = AfterError(w) /\ req'[w] = req[w]
      <4>1. /\ pc'[w] \in Confirmed => pc[w] \in Confirmed
            /\ pc'[w] \notin {"executeFulfillment", "acquireLease", "queryOrder"}
            /\ pc'[w] = "cancelCore" =>
                 pc[w] = "queryOrder" /\ req'[w] # "none"
        BY <3>3 DEF AfterError, Confirmed
      <4>2. pc'[w] = "cancelCore" => req'[w] \in {"CANCELLED", "EXPIRED"}
        BY <3>3, <4>1 DEF WorkerType, PaidFacts
      <4> QED
        BY <3>1, <4>1, <4>2 DEF PaidFacts
    <3> QED
      BY <3>1, <3>2, <3>3
  <2>5. GrantFacts'
    BY <1>32 DEF RowType, LedgerType, EnvType, WorkerType, GrantTokens,
       PaidFacts, GrantFacts, Confirmed, Granted, CallFails, AfterError,
       SwallowsError, Goto, ReturnNil, ReturnErr, End, IsHook
  <2> QED
    BY <2>1, <2>2, <2>3, <2>4, <2>5
<1>33. ASSUME NEW w \in Workers, Crash(w) PROVE IInv'
  <2>1. RowType' /\ LedgerType' /\ EnvType'
    BY <1>33 DEF RowType, LedgerType, EnvType, Crash, ReturnErr, End
  <2>2. WorkerType'
    BY <1>33, EndType DEF Crash, ReturnErr
  <2>3. GrantTokens' /\ RebateToken'
    BY <1>33 DEF RowType, LedgerType, EnvType, WorkerType, GrantTokens,
       RebateToken, GrantFacts, Granted, Crash, ReturnErr, End
  <2>4. PaidFacts'
    BY <1>33 DEF RowType, LedgerType, EnvType, WorkerType, PaidFacts,
       Confirmed, Crash, ReturnErr, End
  <2>5. GrantFacts'
    BY <1>33 DEF RowType, LedgerType, EnvType, WorkerType, GrantTokens,
       PaidFacts, GrantFacts, Confirmed, Granted, Crash, ReturnErr, End
  <2> QED
    BY <2>1, <2>2, <2>3, <2>4, <2>5
<1>34. ASSUME Regulate PROVE IInv'
  <2>1. RowType' /\ LedgerType' /\ EnvType'
    BY <1>34 DEF RowType, LedgerType, EnvType, Regulate
  <2>2. WorkerType'
    BY <1>34 DEF WorkerType, Regulate
  <2>3. GrantTokens' /\ RebateToken'
    BY <1>34 DEF RowType, LedgerType, EnvType, WorkerType, GrantTokens,
       RebateToken, GrantFacts, Granted, Regulate
  <2>4. PaidFacts'
    BY <1>34 DEF RowType, LedgerType, EnvType, WorkerType, PaidFacts,
       Confirmed, Regulate
  <2>5. GrantFacts'
    BY <1>34 DEF RowType, LedgerType, EnvType, WorkerType, GrantTokens,
       PaidFacts, GrantFacts, Confirmed, Granted, Regulate
  <2> QED
    BY <2>1, <2>2, <2>3, <2>4, <2>5
<1>35. ASSUME NEW w \in Workers, CheckGroup(w) PROVE IInv'
  <2>1. RowType' /\ LedgerType' /\ EnvType'
    BY <1>35 DEF RowType, LedgerType, EnvType, CheckGroup, Goto
  <2>2. WorkerType'
    BY <1>35, GotoType DEF CheckGroup
  <2>3. GrantTokens' /\ RebateToken'
    BY <1>35 DEF RowType, LedgerType, EnvType, WorkerType, GrantTokens,
       RebateToken, GrantFacts, Granted, CheckGroup, Goto
  <2>4. PaidFacts'
    BY <1>35 DEF RowType, LedgerType, EnvType, WorkerType, PaidFacts,
       Confirmed, CheckGroup, Goto
  <2>5. GrantFacts'
    BY <1>35 DEF RowType, LedgerType, EnvType, WorkerType, GrantTokens,
       PaidFacts, GrantFacts, Confirmed, Granted, CheckGroup, Goto
  <2> QED
    BY <2>1, <2>2, <2>3, <2>4, <2>5
<1>36. ASSUME NEW w \in Workers, GrantedThenFails(w) PROVE IInv'
  <2>0. assigned' \in BOOLEAN
    BY <1>36, Zenon DEF LedgerType, GrantedThenFails
  <2>1. RowType' /\ LedgerType' /\ EnvType'
    BY <1>36, <2>0 DEF RowType, LedgerType, EnvType, GrantedThenFails, Goto
  <2>2. WorkerType'
    BY <1>36, GotoType DEF GrantedThenFails
  <2>3. GrantTokens' /\ RebateToken'
    BY <1>36 DEF RowType, LedgerType, EnvType, WorkerType, GrantTokens,
       RebateToken, GrantFacts, Granted, GrantedThenFails, Goto
  <2>4. PaidFacts'
    BY <1>36 DEF RowType, LedgerType, EnvType, WorkerType, PaidFacts,
       Confirmed, GrantedThenFails, Goto
  <2>5. GrantFacts'
    BY <1>36 DEF RowType, LedgerType, EnvType, WorkerType, GrantTokens,
       PaidFacts, GrantFacts, Confirmed, Granted, GrantedThenFails, Goto
  <2> QED
    BY <2>1, <2>2, <2>3, <2>4, <2>5
<1>37. CASE UNCHANGED vars
  BY <1>37 DEF vars, RowType, LedgerType, EnvType, WorkerType, GrantTokens,
     RebateToken, PaidFacts, GrantFacts, Confirmed, Granted
<1> QED
  BY <1>1, <1>2, <1>3, <1>4, <1>5, <1>6, <1>7, <1>8, <1>9, <1>10, <1>11,
     <1>12, <1>13, <1>14, <1>15, <1>16, <1>17, <1>18, <1>19, <1>20, <1>21,
     <1>22, <1>23, <1>24, <1>25, <1>26, <1>27, <1>28, <1>29, <1>30, <1>31,
     <1>32, <1>33, <1>34, <1>35, <1>36, <1>37
     DEF Next, Start, Step

\* IInv is an invariant of the specification.
LEMMA IInvHolds == Spec => []IInv
  BY InitIInv, NextIInv, PTL DEF Spec

-----------------------------------------------------------------------------
(* The theorems *)

\* The row, the ledger and every worker's position stay well-typed.
THEOREM TypeCorrect == Spec => []TypeOK
<1>1. IInv => TypeOK
  BY DEF IInv
<1> QED
  BY <1>1, IInvHolds, PTL

\* However many workers serve webhooks, retries and reconciliations of one
\* order, and whatever fails, it is granted at most once.
THEOREM GrantOnce == Spec => []GrantedAtMostOnce
<1>1. IInv => GrantedAtMostOnce
  BY DEF IInv, TypeOK, LedgerType, GrantTokens, GrantedAtMostOnce
<1> QED
  BY <1>1, IInvHolds, PTL

\* Nothing is granted unless the provider took the order's full amount, and a
\* COMPLETED order has been granted.
THEOREM GrantPaid == Spec => []GrantedOnlyIfPaid /\ []CompletedIsGranted
<1>1. IInv => GrantedOnlyIfPaid /\ CompletedIsGranted
  BY DEF IInv, PaidFacts, GrantFacts, GrantedOnlyIfPaid, CompletedIsGranted
<1> QED
  BY <1>1, IInvHolds, PTL

\* The inviter is credited at most once, for a granted order.
THEOREM RebateOnce == Spec => []RebateAtMostOnce
<1>1. IInv => RebateAtMostOnce
  BY DEF IInv, TypeOK, LedgerType, RebateToken, RebateAtMostOnce
<1> QED
  BY <1>1, IInvHolds, PTL

\* A webhook is answered 2xx for a done order only if the order is COMPLETED.
THEOREM AckDone == Spec => []AckedDoneIsCompleted
<1>1. IInv => AckedDoneIsCompleted
  BY DEF IInv, GrantFacts, AckedDoneIsCompleted
<1> QED
  BY <1>1, IInvHolds, PTL

-----------------------------------------------------------------------------
(* Action properties and refinement *)

\* The steps that write the status; the others leave it and paid_at alone.
LEMMA StatusWrites ==
  ASSUME Next
  PROVE  \/ UNCHANGED <<status, paidAt>>
         \/ CreateOrderFailed
         \/ \E w \in Workers : \/ CancelCore(w) \/ ToPaid(w) \/ AcquireLease(w)
                               \/ MarkCompleted(w) \/ MarkFailed(w)
<1>1. CASE Pay \/ Tick \/ Stall \/ Timeout \/ Regulate \/ CreateOrderOk
  BY <1>1 DEF Pay, Tick, Stall, Timeout, Regulate, CreateOrderOk, WriteRow
<1>2. ASSUME NEW w \in Workers, Start(w) PROVE UNCHANGED <<status, paidAt>>
  BY <1>2 DEF Start, HandlePaymentNotification, RetryFulfillment, CancelOrder,
     ExpireTimedOutOrders, ReconcilePendingWxpayOrders,
     VerifyOrderByOutTradeNo, BeginQuery, Begin
<1>3. ASSUME NEW w \in Workers,
             CallFails(w) \/ GrantedThenFails(w) \/ Crash(w)
      PROVE  UNCHANGED <<status, paidAt>>
  BY <1>3 DEF CallFails, GrantedThenFails, Crash
<1>4. ASSUME NEW w \in Workers,
             \/ QueryPaid(w) \/ QueryUnpaid(w) \/ PersistTradeNo(w)
             \/ ConfirmPayment(w) \/ AlreadyProcessed(w)
             \/ ExecuteFulfillment(w) \/ ReloadLease(w)
      PROVE  UNCHANGED <<status, paidAt>>
  BY <1>4 DEF QueryPaid, QueryUnpaid, PersistTradeNo, ConfirmPayment,
     AlreadyProcessed, ExecuteFulfillment, ReloadLease, WriteRow
<1>5. ASSUME NEW w \in Workers,
             \/ GetByCode(w) \/ CreateCode(w) \/ Redeem(w) \/ CheckGroup(w)
             \/ CheckAssigned(w) \/ Assign(w) \/ ClaimRebate(w)
             \/ AccrueRebate(w)
      PROVE  UNCHANGED <<status, paidAt>>
  BY <1>5 DEF GetByCode, CreateCode, Redeem, CheckGroup, CheckAssigned,
     Assign, ClaimRebate, AccrueRebate
<1> QED
  BY <1>1, <1>2, <1>3, <1>4, <1>5 DEF Next, Step

\* The steps that grant or credit; the others leave both counters alone.
LEMMA LedgerWrites ==
  ASSUME Next
  PROVE  \/ UNCHANGED <<grants, rebates>>
         \/ \E w \in Workers : \/ Redeem(w) \/ Assign(w) \/ AccrueRebate(w)
                               \/ GrantedThenFails(w)
<1>1. CASE \/ Pay \/ Tick \/ Stall \/ Timeout \/ Regulate \/ CreateOrderOk
           \/ CreateOrderFailed
  BY <1>1 DEF Pay, Tick, Stall, Timeout, Regulate, CreateOrderOk,
     CreateOrderFailed
<1>2. ASSUME NEW w \in Workers, Start(w) PROVE UNCHANGED <<grants, rebates>>
  BY <1>2 DEF Start, HandlePaymentNotification, RetryFulfillment, CancelOrder,
     ExpireTimedOutOrders, ReconcilePendingWxpayOrders,
     VerifyOrderByOutTradeNo, BeginQuery, Begin
<1>3. ASSUME NEW w \in Workers, CallFails(w) \/ Crash(w)
      PROVE  UNCHANGED <<grants, rebates>>
  BY <1>3 DEF CallFails, Crash
<1>4. ASSUME NEW w \in Workers,
             \/ QueryPaid(w) \/ QueryUnpaid(w) \/ PersistTradeNo(w)
             \/ CancelCore(w) \/ ConfirmPayment(w) \/ ToPaid(w)
             \/ AlreadyProcessed(w) \/ ExecuteFulfillment(w)
             \/ AcquireLease(w) \/ ReloadLease(w)
      PROVE  UNCHANGED <<grants, rebates>>
  BY <1>4 DEF QueryPaid, QueryUnpaid, PersistTradeNo, CancelCore,
     ConfirmPayment, ToPaid, AlreadyProcessed, ExecuteFulfillment,
     AcquireLease, ReloadLease
<1>5. ASSUME NEW w \in Workers,
             \/ GetByCode(w) \/ CreateCode(w) \/ CheckGroup(w)
             \/ CheckAssigned(w) \/ ClaimRebate(w) \/ MarkCompleted(w)
             \/ MarkFailed(w)
      PROVE  UNCHANGED <<grants, rebates>>
  BY <1>5 DEF GetByCode, CreateCode, CheckGroup, CheckAssigned, ClaimRebate,
     MarkCompleted, MarkFailed
<1> QED
  BY <1>1, <1>2, <1>3, <1>4, <1>5 DEF Next, Step

\* The steps that change the payment at the provider.
LEMMA PayWrites ==
  ASSUME Next
  PROVE  UNCHANGED pay \/ Pay \/ \E w \in Workers : QueryUnpaid(w)
<1>1. CASE \/ Tick \/ Stall \/ Timeout \/ Regulate \/ CreateOrderOk
           \/ CreateOrderFailed
  BY <1>1 DEF Tick, Stall, Timeout, Regulate, CreateOrderOk, CreateOrderFailed
<1>2. ASSUME NEW w \in Workers, Start(w) PROVE UNCHANGED pay
  BY <1>2 DEF Start, HandlePaymentNotification, RetryFulfillment, CancelOrder,
     ExpireTimedOutOrders, ReconcilePendingWxpayOrders,
     VerifyOrderByOutTradeNo, BeginQuery, Begin
<1>3. ASSUME NEW w \in Workers,
             CallFails(w) \/ GrantedThenFails(w) \/ Crash(w)
      PROVE  UNCHANGED pay
  BY <1>3 DEF CallFails, GrantedThenFails, Crash
<1>4. ASSUME NEW w \in Workers, Step(w), ~QueryUnpaid(w) PROVE UNCHANGED pay
  BY <1>4 DEF Step, QueryPaid, PersistTradeNo, CancelCore, ConfirmPayment,
     ToPaid, AlreadyProcessed, ExecuteFulfillment, AcquireLease, ReloadLease,
     GetByCode, CreateCode, Redeem, CheckGroup, CheckAssigned, Assign,
     ClaimRebate, AccrueRebate, MarkCompleted, MarkFailed
<1> QED
  BY <1>1, <1>2, <1>3, <1>4 DEF Next

\* One step never takes a paid order back, nor a COMPLETED one anywhere.
LEMMA CompletedFinal ==
  ASSUME IInv, Next
  PROVE  /\ paidAt => status' \in Fulfillable \cup {"COMPLETED"}
         /\ status = "COMPLETED" => status' = "COMPLETED"
<1>1. CASE UNCHANGED <<status, paidAt>>
  BY <1>1 DEF IInv, PaidFacts
<1>2. CASE CreateOrderFailed
  BY <1>2 DEF IInv, PaidFacts, CreateOrderFailed, WriteRow
<1>3. ASSUME NEW w \in Workers,
             \/ CancelCore(w) \/ ToPaid(w) \/ AcquireLease(w)
             \/ MarkCompleted(w) \/ MarkFailed(w)
      PROVE  /\ paidAt => status' \in Fulfillable \cup {"COMPLETED"}
             /\ status = "COMPLETED" => status' = "COMPLETED"
  BY <1>3 DEF IInv, PaidFacts, CancelCore, ToPaid, Payable, AcquireLease,
     LeaseFree, MarkCompleted, MarkFailed, LeaseHeld, WriteRow
<1> QED
  BY <1>1, <1>2, <1>3, StatusWrites

\* A paid order is never cancelled, expired or reopened; COMPLETED is final.
THEOREM NoWayBack == Spec => PaidNeverGoesBack
<1>1. IInv /\ [Next]_vars
        => [/\ paidAt => status' \in Fulfillable \cup {"COMPLETED"}
            /\ status = "COMPLETED" => status' = "COMPLETED"]_vars
  BY CompletedFinal
<1> QED
  BY <1>1, IInvHolds, PTL DEF Spec, PaidNeverGoesBack

\* Only a worker whose version still is the row's updated_at moves the order
\* out of RECHARGING.
THEOREM LeaseExit == Spec => LeaseGuardsExit
<1>1. ASSUME IInv, Next PROVE ExitByHolder
  <2>1. CASE UNCHANGED <<status, paidAt>>
    BY <2>1 DEF ExitByHolder
  <2>2. CASE CreateOrderFailed
    BY <1>1, <2>2 DEF IInv, PaidFacts, CreateOrderFailed, ExitByHolder
  <2>3. ASSUME NEW w \in Workers, CancelCore(w) \/ ToPaid(w) \/ AcquireLease(w)
        PROVE  ExitByHolder
    BY <1>1, <2>3 DEF CancelCore, ToPaid, Payable, AcquireLease, WriteRow,
       ExitByHolder
  <2>4. ASSUME NEW w \in Workers, MarkCompleted(w) \/ MarkFailed(w)
        PROVE  ExitByHolder
    BY <1>1, <2>4 DEF IInv, TypeOK, WorkerType, MarkCompleted, MarkFailed,
       LeaseHeld, WriteRow, ReturnNil, ReturnErr, End, Goto,
       ExitByHolder
  <2> QED
    BY <1>1, <2>1, <2>2, <2>3, <2>4, StatusWrites
<1>2. IInv /\ [Next]_vars => [ExitByHolder]_vars
  BY <1>1
<1> QED
  BY <1>2, IInvHolds, PTL DEF Spec, LeaseGuardsExit

\* PaymentOrder implements PaymentPromise: with every worker, lease, retry and
\* fault, the order is an order that is paid, granted, rebated and completed
\* in steps that each happen once.
THEOREM Implements == Spec => KeepsPromise
<1>1. Init => Promise!Init
  BY DEF Init, Promise!Init
<1>2. ASSUME IInv, IInv', Next PROVE [Promise!Next]_(Promise!pvars)
  <2>1. CASE Pay
    BY <1>2, <2>1 DEF Pay, Promise!Next, Promise!Take
  <2>2. ASSUME NEW w \in Workers, QueryUnpaid(w)
        PROVE  UNCHANGED Promise!pvars
    BY <2>2 DEF QueryUnpaid, Promise!pvars
  <2>3. ASSUME NEW w \in Workers, Redeem(w) \/ Assign(w) \/ GrantedThenFails(w)
        PROVE  [Promise!Next]_(Promise!pvars)
    BY <1>2, <2>3 DEF IInv, TypeOK, LedgerType, EnvType, GrantTokens,
       PaidFacts, Confirmed, Redeem, Assign, GrantedThenFails, Promise!Next,
       Promise!Grant, Promise!pvars
  <2>4. ASSUME NEW w \in Workers, AccrueRebate(w)
        PROVE  [Promise!Next]_(Promise!pvars)
    BY <1>2, <2>4 DEF IInv, RebateToken, GrantFacts, Granted, AccrueRebate,
       Promise!Next, Promise!Rebate, Promise!pvars
  <2>5. ASSUME UNCHANGED <<pay, grants, rebates>>
        PROVE  [Promise!Next]_(Promise!pvars)
    <3>1. status = "COMPLETED" => status' = "COMPLETED"
      BY <1>2, CompletedFinal
    <3>2. status' = "COMPLETED" => grants' = 1
      BY <1>2 DEF IInv, GrantFacts
    <3> QED
      BY <2>5, <3>1, <3>2 DEF Promise!Next, Promise!Complete, Promise!pvars
  <2> QED
    BY <1>2, <2>1, <2>2, <2>3, <2>4, <2>5, LedgerWrites, PayWrites
<1>3. IInv /\ IInv' /\ [Next]_vars => [Promise!Next]_(Promise!pvars)
  BY <1>2 DEF vars, Promise!pvars
<1> QED
  BY <1>1, <1>3, IInvHolds, PTL DEF Spec, KeepsPromise, Promise!Spec

=============================================================================

