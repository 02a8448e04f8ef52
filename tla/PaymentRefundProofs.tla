------------------------ MODULE PaymentRefundProofs ------------------------
(***************************************************************************)
(* TLAPS proofs about PaymentRefund, for any finite set of admin requests  *)
(* and any number of refunds and faults.                                   *)
(*                                                                         *)
(* RInv holds whatever overlaps or fails.  LockInv, on top of it, is about *)
(* executions that overlap and fail while every finalization runs alone;   *)
(* CalmInv adds that nothing fails.                                        *)
(***************************************************************************)
EXTENDS PaymentRefund, FiniteSetTheorems, TLAPS

Ids == 1..MaxRefunds

\* The money went back, or never came through a provider.
Returned == ~tradeNo \/ \E i \in Ids : gw[i] = "success"

\* The provider's refunds: none before the first is created, and only one where
\* the id is derived.
ProviderFacts ==
  /\ n = 0 => \A i \in Ids : gw[i] = "none"
  /\ keyed => \A i \in Ids \ {1} : gw[i] = "none"

\* What a request at label with plan p knows: a success was answered, a pending
\* refund exists.
Fits(label, p, returned, number) ==
  /\ label \in {"finalCheck", "finalDeduct", "markRefundOk"} => returned
  /\ p.answer = "pending" => number > 0
  /\ label \in {"markRefundPending", "readDetail", "queryRefund"}
     => number > 0

AdminFacts == \A a \in Admins : Fits(pc[a], plan[a], Returned, n)

StatusFacts ==
  /\ status = "REFUNDED" => Returned
  /\ status = "REFUND_PENDING" => n > 0

\* The requests that will give back what they took, or keep it.
Owing == {a \in Admins : pc[a] \in {"gwRefund", "rollback"}
                         /\ plan[a].amount = 1}
OwingCovered == Cardinality(Owing) <= deducted

RInv == /\ TypeOK /\ ProviderFacts /\ AdminFacts /\ StatusFacts
        /\ OwingCovered

\* What a step can do at the provider, to the status, to the requests, and to
\* what was taken.
ProviderStep ==
  \/ UNCHANGED provider
  \/ \E s \in {"pending", "success"} : Create(s)
  \/ /\ UNCHANGED n
     /\ \E i \in Ids, s \in {"success", "failed"} :
          gw[i] = "pending" /\ gw' = [gw EXCEPT ![i] = s]

StatusStep ==
  \/ UNCHANGED status
  \/ status' \in {"COMPLETED", "REFUND_REQUESTED", "REFUNDING",
                  "REFUND_FAILED"}
  \/ /\ status' = "REFUND_PENDING"
     /\ \E a \in Admins : pc[a] = "markRefundPending"
  \/ status' = "REFUNDED" /\ \E a \in Admins : pc[a] = "markRefundOk"

Move(a, label, p) ==
  /\ GotoWith(a, label, p) /\ label \in PCs /\ p \in Plans
  /\ Fits(label, p, Returned', n')

AdminStep ==
  \/ UNCHANGED <<pc, plan>>
  \/ \E a \in Admins : \E label, p : Move(a, label, p)

OwingStep ==
  \/ Owing' \subseteq Owing /\ deducted' \in {deducted, deducted + 1}
  \/ \E a \in Admins : Owing' \subseteq Owing \cup {a}
                       /\ deducted' = deducted + 1
  \/ \E a \in Owing : Owing' \subseteq Owing \ {a}
                      /\ deducted' = deducted - 1

USE AdminsAssumption, MaxRefundsAssumption, MaxFaultsAssumption
    DEF order, provider, money, log, At

-----------------------------------------------------------------------------
(* Plans *)

Seen(s, x) == [NoPlan EXCEPT !.saw = s, !.amount = x]
Saw(s) == [NoPlan EXCEPT !.by = "finalize", !.saw = s]
Amount(p, x) == [p EXCEPT !.amount = x]
Answer(p, s, i) == [p EXCEPT !.answer = s, !.id = i]
Ok(p, b) == [p EXCEPT !.ok = b]
Read(p, i, b) == [p EXCEPT !.id = i, !.ok = b]

\* The plans that requests begin with are plans, and know no success.
LEMMA NewPlans ==
  /\ NoPlan \in Plans /\ NoPlan.answer = "failed" /\ NoPlan.amount = 0
  /\ NoPlan.by = "execute"
  /\ \A s \in Refundable, x \in {0, 1} :
       /\ Seen(s, x) \in Plans /\ Seen(s, x).answer = "failed"
       /\ Seen(s, x).by = "execute"
  /\ \A s \in Refundable : /\ Saw(s) \in Plans /\ Saw(s).answer = "failed"
                            /\ Saw(s).by = "finalize"
<1>1. "COMPLETED" \in Refundable
  BY DEF Refundable
<1>2. 0 \in 0..MaxRefunds
  OBVIOUS
<1>3. /\ NoPlan \in Plans /\ NoPlan.answer = "failed" /\ NoPlan.amount = 0
      /\ NoPlan.by = "execute"
  BY <1>1, <1>2 DEF Plans, NoPlan
<1>4. ASSUME NEW s \in Refundable, NEW x \in {0, 1}
      PROVE  /\ Seen(s, x) \in Plans /\ Seen(s, x).answer = "failed"
             /\ Seen(s, x).by = "execute"
  BY <1>3 DEF Plans, Seen
<1>5. ASSUME NEW s \in Refundable
      PROVE  /\ Saw(s) \in Plans /\ Saw(s).answer = "failed"
             /\ Saw(s).by = "finalize"
  BY <1>3 DEF Plans, Saw
<1> QED
  BY <1>3, <1>4, <1>5

\* Setting the amount of a plan.
LEMMA AmountPlan ==
  ASSUME NEW p \in Plans, NEW x \in {0, 1}
  PROVE  /\ Amount(p, x) \in Plans /\ Amount(p, x).amount = x
         /\ Amount(p, x).answer = p.answer
  BY DEF Plans, Amount

\* Noting the answer of the provider.
LEMMA AnswerPlan ==
  ASSUME NEW p \in Plans, NEW s \in {"pending", "failed"},
         NEW i \in 0..MaxRefunds
  PROVE  /\ Answer(p, s, i) \in Plans /\ Answer(p, s, i).answer = s
         /\ Answer(p, s, i).amount = p.amount
  BY DEF Plans, Answer

\* Noting whether the rollback succeeded.
LEMMA OkPlan ==
  ASSUME NEW p \in Plans, NEW b \in BOOLEAN
  PROVE  Ok(p, b) \in Plans /\ Ok(p, b).answer = p.answer
  BY DEF Plans, Ok

\* Noting the recorded refund.
LEMMA ReadPlan ==
  ASSUME NEW p \in Plans, NEW i \in 0..MaxRefunds, NEW b \in BOOLEAN
  PROVE  Read(p, i, b) \in Plans /\ Read(p, i, b).answer = p.answer
  BY DEF Plans, Read

\* The fields of a plan.
LEMMA PlanTypes ==
  ASSUME NEW p \in Plans
  PROVE  /\ p.amount \in {0, 1} /\ p.ok \in BOOLEAN /\ p.id \in 0..MaxRefunds
         /\ p.answer \in {"pending", "failed"}
  BY DEF Plans

\* Going on with the plan as it is.
LEMMA GotoIsGotoWith ==
  ASSUME AdminType, NEW a \in Admins, NEW label, Goto(a, label)
  PROVE  GotoWith(a, label, plan[a])
  BY DEF AdminType, Goto, GotoWith

\* A move changes one request, and keeps the types of all.
LEMMA Moved ==
  ASSUME AdminType, NEW a \in Admins, NEW label \in PCs, NEW p \in Plans,
         GotoWith(a, label, p)
  PROVE  /\ AdminType' /\ pc'[a] = label /\ plan'[a] = p
         /\ \A b \in Admins \ {a} : pc'[b] = pc[b] /\ plan'[b] = plan[b]
  BY DEF AdminType, GotoWith

-----------------------------------------------------------------------------
(* The provider *)

\* What any step does at the provider.
LEMMA ProviderSteps ==
  ASSUME [Next]_vars
  PROVE  ProviderStep /\ UNCHANGED order
<1> USE DEF ProviderStep
<1>1. ASSUME NEW a \in Admins, Execute(a)
      PROVE  ProviderStep /\ UNCHANGED order
  BY <1>1 DEF Execute, PrepareRefund, Lock, CheckAudit, Deduct, GwRefund,
     RollbackRefund, SetStatus, RestoreStatus, MarkRefundFailed,
     MarkRefundPending, AuditPending, MarkRefundOk, AuditSuccess
<1>2. ASSUME NEW a \in Admins, Finalize(a)
      PROVE  ProviderStep /\ UNCHANGED order
  BY <1>2 DEF Finalize, QueryAndFinalizeRefund, LatestRefundPendingDetail,
     QueryRefund, FinalCheck, FinalDeduct, FinalizeRefundFailed, SetStatus
<1>3. ASSUME NEW a \in Admins, Crash(a) \/ CallFails(a) \/ RollbackFails(a)
      PROVE  ProviderStep /\ UNCHANGED order
  BY <1>3 DEF Crash, CallFails, RollbackFails
<1>4. CASE Settle
  BY <1>4 DEF Settle, Ids
<1>5. CASE RequestRefund \/ UNCHANGED vars
  BY <1>5 DEF RequestRefund, vars
<1> QED
  BY <1>1, <1>2, <1>3, <1>4, <1>5 DEF Next

\* Money that was returned stays returned, and refunds are not forgotten.
LEMMA ProviderInductive ==
  ASSUME ProviderType, ProviderFacts, ProviderStep, UNCHANGED order
  PROVE  /\ ProviderType' /\ ProviderFacts'
         /\ (Returned => Returned') /\ (n > 0 => n' > 0)
<1>1. CASE UNCHANGED provider
  BY <1>1 DEF ProviderType, ProviderFacts, Returned
<1>2. ASSUME NEW s \in {"pending", "success"}, Create(s)
      PROVE  /\ ProviderType' /\ ProviderFacts'
             /\ (Returned => Returned') /\ (n > 0 => n' > 0)
  BY <1>2 DEF ProviderType, ProviderFacts, Returned, Create, Active, NewId,
     Ids
<1>3. ASSUME UNCHANGED n, NEW i \in Ids, NEW s \in {"success", "failed"},
             gw[i] = "pending", gw' = [gw EXCEPT ![i] = s]
      PROVE  /\ ProviderType' /\ ProviderFacts'
             /\ (Returned => Returned') /\ (n > 0 => n' > 0)
  BY <1>3 DEF ProviderType, ProviderFacts, Returned, Ids
<1> QED
  BY <1>1, <1>2, <1>3 DEF ProviderStep

-----------------------------------------------------------------------------
(* The requests *)

\* Labels at which a request knows nothing but its own plan.
PlainPCs == PCs \ {"finalCheck", "finalDeduct", "markRefundOk",
                   "markRefundPending", "readDetail", "queryRefund"}

\* A move to such a label with an answer it already had, or with a failure.
LEMMA PlainMove ==
  ASSUME NEW a \in Admins, NEW label \in PlainPCs, NEW p \in Plans,
         GotoWith(a, label, p), p.answer = "pending" => n' > 0
  PROVE  Move(a, label, p)
  BY DEF Move, Fits, PlainPCs

\* The end of a request is a move.
LEMMA EndMoves ==
  ASSUME NEW a \in Admins, End(a)
  PROVE  \E label, p : Move(a, label, p)
<1>1. GotoWith(a, "idle", NoPlan) /\ "idle" \in PlainPCs
  BY DEF End, PlainPCs, PCs
<1> QED
  BY <1>1, NewPlans, PlainMove

\* Every step of an execution moves the request to where it may be.
LEMMA ExecuteMoves ==
  ASSUME TypeOK, ProviderFacts, AdminFacts, NEW a \in Admins, Execute(a),
         Returned => Returned', n > 0 => n' > 0
  PROVE  \E label, p : Move(a, label, p)
<1> DEFINE Moves == \E label, p : Move(a, label, p)
<1>a. AdminType /\ ProviderType /\ OrderType
  BY DEF TypeOK
<1>b. plan[a] \in Plans
  BY <1>a DEF AdminType
<1>c. /\ plan[a].answer = "pending" => n' > 0
      /\ pc[a] = "markRefundPending" => n' > 0
  BY DEF AdminFacts, Fits
<1>d. \A label : Goto(a, label) => GotoWith(a, label, plan[a])
  BY <1>a, GotoIsGotoWith
<1>e. ASSUME NEW label \in PlainPCs, Goto(a, label)
      PROVE  Moves
  BY <1>b, <1>c, <1>d, <1>e, PlainMove
<1>1. CASE PrepareRefund(a)
  <2>1. PICK x \in {0, 1} : GotoWith(a, "lock", Seen(status, x))
    BY <1>1 DEF PrepareRefund, Seen
  <2>2. status \in Refundable /\ "lock" \in PlainPCs
    BY <1>1 DEF PrepareRefund, PlainPCs, PCs
  <2>3. Seen(status, x) \in Plans /\ Seen(status, x).answer = "failed"
    BY <2>2, NewPlans
  <2> QED
    BY <2>1, <2>2, <2>3, PlainMove
<1>2. CASE Lock(a)
  <2>1. Goto(a, "checkAudit") \/ Goto(a, "gwRefund") \/ End(a)
    BY <1>2 DEF Lock
  <2>2. {"checkAudit", "gwRefund"} \subseteq PlainPCs
    BY DEF PlainPCs, PCs
  <2> QED
    BY <1>e, <2>1, <2>2, EndMoves
<1>3. CASE CheckAudit(a)
  <2>1. GotoWith(a, "gwRefund", Amount(plan[a], 0)) \/ Goto(a, "deduct")
    BY <1>3 DEF CheckAudit, Amount
  <2>2. {"gwRefund", "deduct"} \subseteq PlainPCs
    BY DEF PlainPCs, PCs
  <2>3. /\ Amount(plan[a], 0) \in Plans
        /\ Amount(plan[a], 0).answer = plan[a].answer
    BY <1>b, AmountPlan
  <2> QED
    BY <1>c, <1>e, <2>1, <2>2, <2>3, PlainMove
<1>4. CASE Deduct(a)
  <2>1. Goto(a, "gwRefund") \/ Goto(a, "restoreStatus")
    BY <1>4 DEF Deduct
  <2>2. {"gwRefund", "restoreStatus"} \subseteq PlainPCs
    BY DEF PlainPCs, PCs
  <2> QED
    BY <1>e, <2>1, <2>2
<1>5. CASE GwRefund(a)
  <2>0. "rollback" \in PlainPCs /\ "markRefundOk" \in PCs
    BY DEF PlainPCs, PCs
  <2>1. ASSUME Goto(a, "markRefundOk"), Returned'
        PROVE  Moves
    <3>1. Move(a, "markRefundOk", plan[a])
      BY <1>b, <1>c, <1>d, <2>0, <2>1 DEF Move, Fits
    <3> QED
      BY <3>1
  <2>2. ASSUME NEW s \in {"pending", "failed"}, NEW i \in 0..MaxRefunds,
               s = "pending" => n' > 0,
               GotoWith(a, "rollback", Answer(plan[a], s, i))
        PROVE  Moves
    <3>1. /\ Answer(plan[a], s, i) \in Plans
          /\ Answer(plan[a], s, i).answer = s
      BY <1>b, AnswerPlan
    <3> QED
      BY <2>0, <2>2, <3>1, PlainMove
  <2>3. ASSUME NEW s \in {"pending", "success", "failed"},
               NEW i \in 0..MaxRefunds, Answered(a, s, i),
               s = "success" => Returned', s = "pending" => n' > 0
        PROVE  Moves
    <3>1. CASE s = "success"
      BY <2>1, <2>3, <3>1 DEF Answered
    <3>2. CASE s # "success"
      BY <2>2, <2>3, <3>2 DEF Answered, Answer
    <3> QED
      BY <3>1, <3>2
  <2>4. CASE ~tradeNo /\ Goto(a, "markRefundOk") /\ UNCHANGED provider
    BY <2>1, <2>4, <1>5 DEF Returned, GwRefund
  <2>5. ASSUME NEW s \in {"pending", "success"}, Create(s),
               Answered(a, s, NewId)
        PROVE  Moves
    <3>1. NewId \in Ids /\ n' = n + 1 /\ gw' = [gw EXCEPT ![NewId] = s]
      BY <1>a, <2>5 DEF Create, NewId, Ids, ProviderType
    <3>2. n' > 0
      BY <1>a, <3>1 DEF ProviderType
    <3>3. s = "success" => Returned'
      BY <1>a, <3>1 DEF ProviderType, Returned, Ids
    <3>4. NewId \in 0..MaxRefunds
      BY <3>1 DEF Ids
    <3> QED
      BY <2>3, <2>5, <3>2, <3>3, <3>4
  <2>6. CASE keyed /\ Active /\ Answered(a, gw[1], 1) /\ UNCHANGED provider
    <3>1. 1 \in Ids /\ 1 \in 0..MaxRefunds
      BY DEF Ids
    <3>2. gw[1] \in {"pending", "success"}
      BY <2>6, <3>1 DEF Active, ProviderFacts, Ids
    <3>3. n > 0
      BY <1>a, <3>1, <3>2 DEF ProviderFacts, ProviderType
    <3>4. gw[1] = "success" => Returned
      BY <3>1 DEF Returned
    <3> QED
      BY <2>3, <2>6, <3>1, <3>2, <3>3, <3>4
  <2>7. CASE Answered(a, "failed", 0)
    <3>1. 0 \in 0..MaxRefunds
      OBVIOUS
    <3> QED
      BY <2>3, <2>7, <3>1
  <2> QED
    BY <1>5, <2>4, <2>5, <2>6, <2>7 DEF GwRefund
<1>6. CASE RollbackRefund(a)
  <2>1. PICK b \in BOOLEAN : AfterRollback(a, b)
    BY <1>6 DEF RollbackRefund
  <2>2. PICK label \in {"markRefundPending", "restoreStatus",
                        "markRefundFailed"} :
          /\ GotoWith(a, label, Ok(plan[a], b))
          /\ label = "markRefundPending" => plan[a].answer = "pending"
    BY <2>1 DEF AfterRollback, Ok
  <2>3. Ok(plan[a], b) \in Plans /\ Ok(plan[a], b).answer = plan[a].answer
    BY <1>b, OkPlan
  <2>4. Move(a, label, Ok(plan[a], b))
    BY <1>c, <2>2, <2>3 DEF Move, Fits, PCs
  <2> QED
    BY <2>4
<1>7. CASE \/ RestoreStatus(a) \/ MarkRefundFailed(a) \/ AuditPending(a)
           \/ AuditSuccess(a)
  <2>1. End(a)
    BY <1>7 DEF RestoreStatus, MarkRefundFailed, AuditPending, AuditSuccess
  <2> QED
    BY <2>1, EndMoves
<1>8. CASE MarkRefundPending(a) \/ MarkRefundOk(a)
  <2>1. PICK label \in {"auditPending", "auditSuccess"} : Goto(a, label)
    BY <1>8 DEF MarkRefundPending, MarkRefundOk
  <2>2. label \in PlainPCs
    BY <2>1 DEF PlainPCs, PCs
  <2> QED
    BY <1>e, <2>1, <2>2
<1> QED
  BY <1>1, <1>2, <1>3, <1>4, <1>5, <1>6, <1>7, <1>8 DEF Execute

\* Every step of a finalization moves the request to where it may be.
LEMMA FinalizeMoves ==
  ASSUME TypeOK, ProviderFacts, AdminFacts, StatusFacts, NEW a \in Admins,
         Finalize(a), Returned => Returned', n > 0 => n' > 0
  PROVE  \E label, p : Move(a, label, p)
<1>a. AdminType /\ ProviderType /\ OrderType /\ LogType
  BY DEF TypeOK
<1>b. plan[a] \in Plans
  BY <1>a DEF AdminType
<1>c. /\ plan[a].answer = "pending" => n' > 0
      /\ pc[a] \in {"readDetail", "queryRefund"} => n > 0 /\ n' > 0
      /\ pc[a] \in {"finalCheck", "finalDeduct"} => Returned'
  BY DEF AdminFacts, Fits
<1>d. \A label : Goto(a, label) => GotoWith(a, label, plan[a])
  BY <1>a, GotoIsGotoWith
<1>1. CASE QueryAndFinalizeRefund(a)
  <2>1. GotoWith(a, "readDetail", Saw(status)) /\ status = "REFUND_PENDING"
    BY <1>1 DEF QueryAndFinalizeRefund, Saw
  <2>2. n' > 0 /\ status \in Refundable
    BY <2>1 DEF StatusFacts, Refundable
  <2>3. Saw(status) \in Plans /\ Saw(status).answer = "failed"
    BY <2>2, NewPlans
  <2>4. Move(a, "readDetail", Saw(status))
    BY <2>1, <2>2, <2>3 DEF Move, Fits, PCs
  <2> QED
    BY <2>4
<1>2. CASE LatestRefundPendingDetail(a)
  <2>1. /\ GotoWith(a, "queryRefund", Read(plan[a], detail.id, detail.ok))
        /\ pc[a] = "readDetail"
    BY <1>2 DEF LatestRefundPendingDetail, Read
  <2>2. detail.id \in 0..MaxRefunds /\ detail.ok \in BOOLEAN
    BY <1>a DEF LogType
  <2> DEFINE p == Read(plan[a], detail.id, detail.ok)
  <2>3. p \in Plans /\ p.answer = plan[a].answer
    BY <1>b, <2>2, ReadPlan
  <2> HIDE DEF p
  <2>4. Move(a, "queryRefund", p)
    BY <1>c, <2>1, <2>3 DEF Move, Fits, PCs, p
  <2> QED
    BY <2>4
<1>3. CASE QueryRefund(a)
  <2> DEFINE i == Queried(plan[a].id)
  <2>0. pc[a] = "queryRefund" /\ UNCHANGED <<gw, tradeNo>>
    BY <1>3 DEF QueryRefund
  <2>1. i \in Ids
    BY <1>a, <1>b, <1>c, <2>0, PlanTypes DEF Queried, Ids, ProviderType
  <2>2. \/ gw[i] = "success"
           /\ GotoWith(a, "finalCheck", Amount(plan[a], FinalAmount(a)))
        \/ Goto(a, "finalizeFailed") \/ End(a)
    BY <1>3 DEF QueryRefund, Amount
  <2>3. CASE /\ gw[i] = "success"
             /\ GotoWith(a, "finalCheck", Amount(plan[a], FinalAmount(a)))
    <3>1. Returned'
      BY <2>0, <2>1, <2>3 DEF Returned
    <3>2. FinalAmount(a) \in {0, 1}
      BY DEF FinalAmount
    <3> DEFINE p == Amount(plan[a], FinalAmount(a))
    <3>3. p \in Plans /\ p.answer = plan[a].answer
      BY <1>b, <3>2, AmountPlan
    <3> HIDE DEF p
    <3>4. Move(a, "finalCheck", p)
      BY <1>c, <2>3, <3>1, <3>3 DEF Move, Fits, PCs, p
    <3> QED
      BY <3>4
  <2>4. CASE Goto(a, "finalizeFailed")
    <3>1. "finalizeFailed" \in PlainPCs
      BY DEF PlainPCs, PCs
    <3> QED
      BY <1>b, <1>c, <1>d, <2>4, <3>1, PlainMove
  <2> QED
    BY <2>2, <2>3, <2>4, EndMoves
<1>4. CASE FinalCheck(a) \/ FinalDeduct(a)
  <2>1. /\ pc[a] \in {"finalCheck", "finalDeduct"}
        /\ \/ End(a) \/ Goto(a, "markRefundOk") \/ Goto(a, "finalDeduct")
    BY <1>4 DEF FinalCheck, FinalDeduct
  <2>2. ASSUME NEW label \in {"markRefundOk", "finalDeduct"}, Goto(a, label)
        PROVE  Move(a, label, plan[a])
    BY <1>b, <1>c, <1>d, <2>1, <2>2 DEF Move, Fits, PCs
  <2> QED
    BY <2>1, <2>2, EndMoves
<1>5. CASE FinalizeRefundFailed(a)
  BY <1>5, EndMoves DEF FinalizeRefundFailed
<1> QED
  BY <1>1, <1>2, <1>3, <1>4, <1>5 DEF Finalize

\* A fault moves the request to where it may be.
LEMMA FaultMoves ==
  ASSUME TypeOK, ProviderFacts, AdminFacts, NEW a \in Admins,
         Crash(a) \/ CallFails(a) \/ RollbackFails(a),
         Returned => Returned', n > 0 => n' > 0
  PROVE  \E label, p : Move(a, label, p)
<1>a. AdminType
  BY DEF TypeOK
<1>b. plan[a] \in Plans
  BY <1>a DEF AdminType
<1>c. /\ plan[a].answer = "pending" => n' > 0
      /\ pc[a] = "readDetail" => n' > 0
      /\ pc[a] = "finalCheck" => Returned'
  BY DEF AdminFacts, Fits
<1>d. \A label : Goto(a, label) => GotoWith(a, label, plan[a])
  BY <1>a, GotoIsGotoWith
<1>1. CASE Crash(a)
  BY <1>1, EndMoves DEF Crash
<1>2. CASE CallFails(a)
  <2>1. \/ End(a) \/ Goto(a, "deduct") \/ Goto(a, "restoreStatus")
        \/ GotoWith(a, "rollback", Answer(plan[a], "failed", 0))
        \/ /\ pc[a] = "readDetail"
           /\ GotoWith(a, "queryRefund", Read(plan[a], 0, TRUE))
        \/ /\ pc[a] = "finalCheck"
           /\ Goto(a, "markRefundOk") \/ Goto(a, "finalDeduct")
    BY <1>2 DEF CallFails, Answered, Answer, Read
  <2>2. CASE Goto(a, "deduct") \/ Goto(a, "restoreStatus")
    <3>1. {"deduct", "restoreStatus"} \subseteq PlainPCs
      BY DEF PlainPCs, PCs
    <3> QED
      BY <1>b, <1>c, <1>d, <2>2, <3>1, PlainMove
  <2>3. CASE GotoWith(a, "rollback", Answer(plan[a], "failed", 0))
    <3>1. "rollback" \in PlainPCs /\ 0 \in 0..MaxRefunds
      BY DEF PlainPCs, PCs
    <3>2. /\ Answer(plan[a], "failed", 0) \in Plans
          /\ Answer(plan[a], "failed", 0).answer = "failed"
      BY <1>b, <3>1, AnswerPlan
    <3> QED
      BY <2>3, <3>1, <3>2, PlainMove
  <2>4. CASE /\ pc[a] = "readDetail"
             /\ GotoWith(a, "queryRefund", Read(plan[a], 0, TRUE))
    <3>1. 0 \in 0..MaxRefunds
      OBVIOUS
    <3>2. /\ Read(plan[a], 0, TRUE) \in Plans
          /\ Read(plan[a], 0, TRUE).answer = plan[a].answer
      BY <1>b, <3>1, ReadPlan
    <3>3. Move(a, "queryRefund", Read(plan[a], 0, TRUE))
      BY <1>c, <2>4, <3>2 DEF Move, Fits, PCs
    <3> QED
      BY <3>3
  <2>5. CASE /\ pc[a] = "finalCheck"
             /\ Goto(a, "markRefundOk") \/ Goto(a, "finalDeduct")
    <3>1. ASSUME NEW label \in {"markRefundOk", "finalDeduct"}, Goto(a, label)
          PROVE  Move(a, label, plan[a])
      BY <1>b, <1>c, <1>d, <2>5, <3>1 DEF Move, Fits, PCs
    <3> QED
      BY <2>5, <3>1
  <2> QED
    BY <2>1, <2>2, <2>3, <2>4, <2>5, EndMoves
<1>3. CASE RollbackFails(a)
  <2>1. PICK label \in {"markRefundPending", "restoreStatus",
                        "markRefundFailed"} :
          /\ GotoWith(a, label, Ok(plan[a], FALSE))
          /\ label = "markRefundPending" => plan[a].answer = "pending"
    BY <1>3 DEF RollbackFails, AfterRollback, Ok
  <2>2. /\ Ok(plan[a], FALSE) \in Plans
        /\ Ok(plan[a], FALSE).answer = plan[a].answer
    BY <1>b, OkPlan
  <2>3. Move(a, label, Ok(plan[a], FALSE))
    BY <1>c, <2>1, <2>2 DEF Move, Fits, PCs
  <2> QED
    BY <2>3
<1> QED
  BY <1>1, <1>2, <1>3

\* Every step moves at most one request, to where it may be.
LEMMA AdminSteps ==
  ASSUME TypeOK, ProviderFacts, AdminFacts, StatusFacts, [Next]_vars,
         Returned => Returned', n > 0 => n' > 0
  PROVE  AdminStep
<1>1. ASSUME NEW a \in Admins,
             \/ Execute(a) \/ Finalize(a)
             \/ Crash(a) \/ CallFails(a) \/ RollbackFails(a)
      PROVE  AdminStep
  BY <1>1, ExecuteMoves, FinalizeMoves, FaultMoves DEF AdminStep
<1>2. CASE Settle \/ RequestRefund \/ UNCHANGED vars
  BY <1>2 DEF Settle, RequestRefund, vars, AdminStep
<1> QED
  BY <1>1, <1>2 DEF Next

\* What any step does to the status.
LEMMA StatusSteps ==
  ASSUME [Next]_vars
  PROVE  StatusStep
<1> USE DEF StatusStep
<1>1. ASSUME NEW a \in Admins, Execute(a)
      PROVE  StatusStep
  BY <1>1 DEF Execute, PrepareRefund, Lock, CheckAudit, Deduct, GwRefund,
     RollbackRefund, SetStatus, RestoreStatus, MarkRefundFailed,
     MarkRefundPending, AuditPending, MarkRefundOk, AuditSuccess
<1>2. ASSUME NEW a \in Admins, Finalize(a)
      PROVE  StatusStep
  BY <1>2 DEF Finalize, QueryAndFinalizeRefund, LatestRefundPendingDetail,
     QueryRefund, FinalCheck, FinalDeduct, FinalizeRefundFailed, SetStatus
<1>3. ASSUME NEW a \in Admins, Crash(a) \/ CallFails(a) \/ RollbackFails(a)
      PROVE  StatusStep
  BY <1>3 DEF Crash, CallFails, RollbackFails
<1>4. CASE Settle \/ RequestRefund \/ UNCHANGED vars
  BY <1>4 DEF Settle, RequestRefund, vars
<1> QED
  BY <1>1, <1>2, <1>3, <1>4 DEF Next

-----------------------------------------------------------------------------
(* What was taken *)

\* A move changes at most whether the request itself owes.
LEMMA OwingMove ==
  ASSUME AdminType, NEW a \in Admins, NEW label, NEW p, GotoWith(a, label, p)
  PROVE  /\ Owing' \subseteq Owing \cup {a}
         /\ label \notin {"gwRefund", "rollback"} \/ p.amount # 1
            => Owing' \subseteq Owing \ {a}
<1>1. /\ pc'[a] = label /\ plan'[a] = p
      /\ \A b \in Admins \ {a} : pc'[b] = pc[b] /\ plan'[b] = plan[b]
  BY DEF AdminType, GotoWith
<1>2. Owing' = {b \in Admins : pc'[b] \in {"gwRefund", "rollback"}
                               /\ plan'[b].amount = 1}
  BY DEF Owing
<1> QED
  BY <1>1, <1>2 DEF Owing

\* A request that stops owing, or never did.
LEMMA OwingLeft ==
  ASSUME AdminType, NEW a \in Admins
  PROVE  /\ \A label, p :
              GotoWith(a, label, p) /\ label \notin {"gwRefund", "rollback"}
              => Owing' \subseteq Owing \ {a}
         /\ \A label :
              Goto(a, label) /\ label \notin {"gwRefund", "rollback"}
              => Owing' \subseteq Owing \ {a}
         /\ End(a) => Owing' \subseteq Owing \ {a}
<1>1. ASSUME NEW label, NEW p, GotoWith(a, label, p),
             label \notin {"gwRefund", "rollback"}
      PROVE  Owing' \subseteq Owing \ {a}
  BY <1>1, OwingMove
<1>2. ASSUME NEW label, Goto(a, label), label \notin {"gwRefund", "rollback"}
      PROVE  Owing' \subseteq Owing \ {a}
  BY <1>1, <1>2, GotoIsGotoWith
<1>3. End(a) => Owing' \subseteq Owing \ {a}
  BY <1>1 DEF End
<1> QED
  BY <1>1, <1>2, <1>3

\* The provider's answer changes nothing.
LEMMA OwingAnswered ==
  ASSUME AdminType, NEW a \in Admins, pc[a] = "gwRefund", NEW s, NEW i,
         Answered(a, s, i)
  PROVE  Owing' \subseteq Owing
<1>1. CASE Goto(a, "markRefundOk")
  BY <1>1, GotoIsGotoWith, OwingMove
<1>2. CASE GotoWith(a, "rollback", Answer(plan[a], s, i))
  <2>1. plan[a] \in Plans
    BY DEF AdminType
  <2>2. Answer(plan[a], s, i).amount = plan[a].amount
    BY <2>1 DEF Plans, Answer
  <2>3. CASE plan[a].amount = 1
    BY <1>2, <2>3, OwingMove DEF Owing
  <2>4. CASE plan[a].amount # 1
    BY <1>2, <2>2, <2>4, OwingMove
  <2> QED
    BY <2>3, <2>4
<1> QED
  BY <1>1, <1>2 DEF Answered, Answer

\* What any step does to what was taken, and to who owes it.
LEMMA OwingSteps ==
  ASSUME TypeOK, [Next]_vars
  PROVE  OwingStep
<1>a. AdminType /\ deducted \in Int
  BY DEF TypeOK, MoneyType
<1>b. \A a \in Admins : plan[a] \in Plans /\ plan[a].amount \in {0, 1}
  BY <1>a, PlanTypes DEF AdminType
<1>c. Owing' \subseteq Owing /\ UNCHANGED deducted => OwingStep
  BY DEF OwingStep
<1>1. ASSUME NEW a \in Admins, Execute(a)
      PROVE  OwingStep
  <2>1. CASE PrepareRefund(a)
    <3>1. PICK p : GotoWith(a, "lock", p)
      BY <2>1 DEF PrepareRefund
    <3>2. UNCHANGED deducted
      BY <2>1 DEF PrepareRefund
    <3> QED
      BY <1>a, <1>c, <3>1, <3>2, OwingLeft
  <2>2. CASE Lock(a)
    <3>1. /\ UNCHANGED deducted
          /\ \/ Goto(a, "checkAudit") \/ End(a)
             \/ plan[a].amount # 1 /\ Goto(a, "gwRefund")
      BY <1>b, <2>2 DEF Lock
    <3>2. CASE Goto(a, "checkAudit") \/ End(a)
      BY <1>a, <1>c, <3>1, <3>2, OwingLeft
    <3>3. CASE plan[a].amount # 1 /\ Goto(a, "gwRefund")
      BY <1>a, <1>c, <3>1, <3>3, GotoIsGotoWith, OwingMove
    <3> QED
      BY <3>1, <3>2, <3>3
  <2>3. CASE CheckAudit(a)
    <3>1. /\ UNCHANGED deducted
          /\ \/ GotoWith(a, "gwRefund", Amount(plan[a], 0))
             \/ Goto(a, "deduct")
      BY <2>3 DEF CheckAudit, Amount
    <3>2. Amount(plan[a], 0).amount # 1
      BY <1>b, AmountPlan
    <3> QED
      BY <1>a, <1>c, <3>1, <3>2, OwingMove, OwingLeft
  <2>4. CASE Deduct(a)
    <3>1. \/ deducted' = deducted + 1 /\ Goto(a, "gwRefund")
          \/ UNCHANGED deducted /\ Goto(a, "restoreStatus")
      BY <2>4 DEF Deduct, Take
    <3>2. CASE deducted' = deducted + 1 /\ Goto(a, "gwRefund")
      BY <1>a, <3>2, GotoIsGotoWith, OwingMove DEF OwingStep
    <3>3. CASE UNCHANGED deducted /\ Goto(a, "restoreStatus")
      BY <1>a, <1>c, <3>3, OwingLeft
    <3> QED
      BY <3>1, <3>2, <3>3
  <2>5. CASE GwRefund(a)
    <3>1. /\ UNCHANGED deducted /\ pc[a] = "gwRefund"
          /\ Goto(a, "markRefundOk") \/ \E s, i : Answered(a, s, i)
      BY <2>5 DEF GwRefund
    <3> QED
      BY <1>a, <1>c, <3>1, OwingLeft, OwingAnswered
  <2>6. CASE RollbackRefund(a)
    <3>1. /\ pc[a] = "rollback"
          /\ deducted' \in {deducted, deducted - plan[a].amount}
          /\ \E b : AfterRollback(a, b)
      BY <1>a, <2>6 DEF RollbackRefund
    <3>2. PICK label, p : GotoWith(a, label, p)
                          /\ label \notin {"gwRefund", "rollback"}
      BY <3>1 DEF AfterRollback
    <3>3. Owing' \subseteq Owing \ {a}
      BY <1>a, <3>2, OwingLeft
    <3>4. CASE plan[a].amount = 1
      <4>1. a \in Owing
        BY <3>1, <3>4 DEF Owing
      <4> QED
        BY <3>1, <3>3, <3>4, <4>1 DEF OwingStep
    <3>5. CASE plan[a].amount = 0
      BY <1>a, <1>c, <3>1, <3>3, <3>5
    <3> QED
      BY <1>b, <3>4, <3>5
  <2>7. CASE \/ RestoreStatus(a) \/ MarkRefundFailed(a) \/ AuditPending(a)
             \/ AuditSuccess(a)
    <3>1. End(a) /\ UNCHANGED deducted
      BY <2>7 DEF RestoreStatus, MarkRefundFailed, AuditPending, AuditSuccess,
         SetStatus
    <3> QED
      BY <1>a, <1>c, <3>1, OwingLeft
  <2>8. CASE MarkRefundPending(a) \/ MarkRefundOk(a)
    <3>1. /\ Goto(a, "auditPending") \/ Goto(a, "auditSuccess")
          /\ UNCHANGED deducted
      BY <2>8 DEF MarkRefundPending, MarkRefundOk, SetStatus
    <3> QED
      BY <1>a, <1>c, <3>1, OwingLeft
  <2> QED
    BY <1>1, <2>1, <2>2, <2>3, <2>4, <2>5, <2>6, <2>7, <2>8 DEF Execute
<1>2. ASSUME NEW a \in Admins, Finalize(a)
      PROVE  OwingStep
  <2>1. Owing' \subseteq Owing \ {a}
    BY <1>2, <1>a, OwingLeft DEF Finalize, QueryAndFinalizeRefund,
       LatestRefundPendingDetail, QueryRefund, FinalCheck, FinalDeduct,
       FinalizeRefundFailed
  <2>2. deducted' \in {deducted, deducted + 1}
    BY <1>2 DEF Finalize, QueryAndFinalizeRefund, LatestRefundPendingDetail,
       QueryRefund, FinalCheck, FinalDeduct, FinalizeRefundFailed, SetStatus,
       Take
  <2> QED
    BY <2>1, <2>2 DEF OwingStep
<1>3. ASSUME NEW a \in Admins, Crash(a) \/ CallFails(a) \/ RollbackFails(a)
      PROVE  OwingStep
  <2>1. UNCHANGED deducted
    BY <1>3 DEF Crash, CallFails, RollbackFails
  <2>2. CASE pc[a] = "gwRefund" /\ Answered(a, "failed", 0)
    BY <1>a, <1>c, <2>1, <2>2, OwingAnswered
  <2>3. CASE ~(pc[a] = "gwRefund" /\ Answered(a, "failed", 0))
    <3>1. Owing' \subseteq Owing \ {a}
      BY <1>3, <1>a, <2>3, OwingLeft DEF Crash, CallFails, RollbackFails,
         AfterRollback
    <3> QED
      BY <1>c, <2>1, <3>1
  <2> QED
    BY <2>2, <2>3
<1>4. CASE Settle \/ RequestRefund \/ UNCHANGED vars
  <2>1. UNCHANGED <<pc, plan, deducted>>
    BY <1>4 DEF Settle, RequestRefund, vars
  <2>2. Owing' = Owing
    BY <2>1 DEF Owing
  <2> QED
    BY <1>c, <2>1, <2>2
<1> QED
  BY <1>1, <1>2, <1>3, <1>4 DEF Next

\* What is owed stays covered by what was taken.
LEMMA OwingInductive ==
  ASSUME OwingCovered, OwingStep, deducted \in Int
  PROVE  OwingCovered' /\ deducted' \in Int
<1>1. Owing \subseteq Admins /\ IsFiniteSet(Owing)
  <2>1. Owing \subseteq Admins
    BY DEF Owing
  <2> QED
    BY <2>1, FS_Subset
<1>2. Cardinality(Owing) \in Nat
  BY <1>1, FS_CardinalityType
<1>3. CASE Owing' \subseteq Owing /\ deducted' \in {deducted, deducted + 1}
  <2>1. Cardinality(Owing') <= Cardinality(Owing)
        /\ Cardinality(Owing') \in Nat
    BY <1>1, <1>3, FS_Subset, FS_CardinalityType
  <2> QED
    BY <1>2, <1>3, <2>1 DEF OwingCovered
<1>4. ASSUME NEW a \in Admins, Owing' \subseteq Owing \cup {a},
             deducted' = deducted + 1
      PROVE  OwingCovered' /\ deducted' \in Int
  <2>1. /\ IsFiniteSet(Owing \cup {a})
        /\ Cardinality(Owing \cup {a}) \in
             {Cardinality(Owing), Cardinality(Owing) + 1}
    BY <1>1, FS_AddElement
  <2>2. /\ Cardinality(Owing') <= Cardinality(Owing \cup {a})
        /\ Cardinality(Owing') \in Nat
    BY <1>4, <2>1, FS_Subset, FS_CardinalityType
  <2> QED
    BY <1>2, <1>4, <2>1, <2>2 DEF OwingCovered
<1>5. ASSUME NEW a \in Owing, Owing' \subseteq Owing \ {a},
             deducted' = deducted - 1
      PROVE  OwingCovered' /\ deducted' \in Int
  <2>1. /\ IsFiniteSet(Owing \ {a})
        /\ Cardinality(Owing \ {a}) = Cardinality(Owing) - 1
    BY <1>1, FS_RemoveElement
  <2>2. /\ Cardinality(Owing') <= Cardinality(Owing \ {a})
        /\ Cardinality(Owing') \in Nat
    BY <1>5, <2>1, FS_Subset, FS_CardinalityType
  <2> QED
    BY <1>2, <1>5, <2>1, <2>2 DEF OwingCovered
<1> QED
  BY <1>3, <1>4, <1>5 DEF OwingStep

-----------------------------------------------------------------------------
(* The rest of the state *)

PlainStep ==
  /\ sub' \in {sub, "revoked"}
  /\ audits' \in {audits, audits \cup {"ROLLBACK_FAILED"},
                  audits \cup {"SUCCESS"}}
  /\ faults' \in {faults, faults + 1, faults + 2}
  /\ UNCHANGED overlapped \/ overlapped' \in BOOLEAN
  /\ \/ UNCHANGED detail
     \/ \E a \in Admins : detail' = [id |-> plan[a].id, ok |-> plan[a].ok]

\* What any step does to the other variables.
LEMMA PlainSteps ==
  ASSUME [Next]_vars
  PROVE  PlainStep
<1> USE DEF PlainStep
<1>1. ASSUME NEW a \in Admins, Execute(a)
      PROVE  PlainStep
  BY <1>1 DEF Execute, PrepareRefund, Overlap, Lock, CheckAudit, Deduct, Take,
     GwRefund, RollbackRefund, SetStatus, RestoreStatus, MarkRefundFailed,
     MarkRefundPending, AuditPending, MarkRefundOk, AuditSuccess
<1>2. ASSUME NEW a \in Admins, Finalize(a)
      PROVE  PlainStep
  BY <1>2 DEF Finalize, QueryAndFinalizeRefund, Overlap,
     LatestRefundPendingDetail, QueryRefund, FinalCheck, FinalDeduct, Take,
     FinalizeRefundFailed, SetStatus
<1>3. ASSUME NEW a \in Admins, Crash(a) \/ CallFails(a) \/ RollbackFails(a)
      PROVE  PlainStep
  BY <1>3 DEF Crash, CallFails, RollbackFails
<1>4. CASE Settle \/ RequestRefund \/ UNCHANGED vars
  BY <1>4 DEF Settle, RequestRefund, vars
<1> QED
  BY <1>1, <1>2, <1>3, <1>4 DEF Next

-----------------------------------------------------------------------------
(* The invariant *)

\* RInv holds for an order that was just completed.
LEMMA InitRInv == Init => RInv
<1> SUFFICES ASSUME Init PROVE RInv
  OBVIOUS
<1>1. NoPlan \in Plans /\ NoPlan.answer = "failed" /\ NoPlan.amount = 0
  BY NewPlans
<1>2. TypeOK
  <2>1. AdminType
    BY <1>1 DEF Init, AdminType, PCs
  <2>2. ProviderType
    BY DEF Init, ProviderType
  <2>3. 0 \in 0..MaxRefunds
    OBVIOUS
  <2>4. LogType
    BY <2>3 DEF Init, LogType
  <2>5. OrderType /\ MoneyType /\ status \in Statuses /\ faults \in Nat
    BY DEF Init, OrderType, MoneyType, Statuses, Refundable
  <2>6. overlapped \in BOOLEAN
    BY DEF Init
  <2> QED
    BY <2>1, <2>2, <2>4, <2>5, <2>6 DEF TypeOK
<1>3. ProviderFacts /\ StatusFacts
  BY DEF Init, ProviderFacts, StatusFacts, Ids
<1>4. AdminFacts
  BY <1>1 DEF Init, AdminFacts, Fits
<1>5. Owing = {}
  BY DEF Init, Owing
<1>6. OwingCovered
  BY <1>5, FS_EmptySet DEF Init, OwingCovered
<1> QED
  BY <1>2, <1>3, <1>4, <1>6 DEF RInv

\* Every step preserves RInv.
LEMMA NextRInv == RInv /\ [Next]_vars => RInv'
<1> SUFFICES ASSUME RInv, [Next]_vars PROVE RInv'
  OBVIOUS
<1>0. TypeOK /\ ProviderFacts /\ AdminFacts /\ StatusFacts /\ OwingCovered
  BY DEF RInv
<1>1. ProviderStep /\ UNCHANGED order /\ StatusStep /\ PlainStep /\ OwingStep
  BY <1>0, ProviderSteps, StatusSteps, PlainSteps, OwingSteps
<1>2. /\ ProviderType' /\ ProviderFacts'
      /\ (Returned => Returned') /\ (n > 0 => n' > 0)
  BY <1>0, <1>1, ProviderInductive DEF TypeOK
<1>3. AdminStep
  BY <1>0, <1>2, AdminSteps
<1>4. OwingCovered' /\ deducted' \in Int
  BY <1>0, <1>1, OwingInductive DEF TypeOK, MoneyType
<1>5. AdminType' /\ AdminFacts'
  <2>0. AdminType
    BY <1>0 DEF TypeOK
  <2>1. ASSUME NEW a \in Admins, pc'[a] = pc[a], plan'[a] = plan[a]
        PROVE  Fits(pc'[a], plan'[a], Returned', n')
    BY <1>0, <1>2, <2>1 DEF AdminFacts, Fits
  <2>2. CASE UNCHANGED <<pc, plan>>
    BY <2>0, <2>1, <2>2 DEF AdminType, AdminFacts
  <2>3. ASSUME NEW a \in Admins, NEW label, NEW p, Move(a, label, p)
        PROVE  AdminType' /\ AdminFacts'
    <3>1. /\ AdminType' /\ pc'[a] = label /\ plan'[a] = p
          /\ \A b \in Admins \ {a} : pc'[b] = pc[b] /\ plan'[b] = plan[b]
      BY <2>0, <2>3, Moved DEF Move
    <3>2. Fits(label, p, Returned', n')
      BY <2>3 DEF Move
    <3> QED
      BY <2>1, <3>1, <3>2 DEF AdminFacts
  <2> QED
    BY <1>3, <2>2, <2>3 DEF AdminStep
<1>6. StatusFacts'
  BY <1>0, <1>1, <1>2 DEF StatusStep, StatusFacts, AdminFacts, Fits
<1>7. status' \in Statuses /\ MoneyType' /\ OrderType' /\ faults' \in Nat
  BY <1>0, <1>1, <1>4 DEF TypeOK, StatusStep, PlainStep, Statuses, Refundable,
     MoneyType, OrderType
<1>8. overlapped' \in BOOLEAN
  BY <1>0, <1>1 DEF TypeOK, PlainStep
<1>9. LogType'
  <2>1. \A a \in Admins :
          plan[a].id \in 0..MaxRefunds /\ plan[a].ok \in BOOLEAN
    BY <1>0, PlanTypes DEF TypeOK, AdminType
  <2>2. detail' \in [id : 0..MaxRefunds, ok : BOOLEAN]
    BY <1>0, <1>1, <2>1 DEF TypeOK, LogType, PlainStep
  <2>3. audits' \in SUBSET {"ROLLBACK_FAILED", "SUCCESS"}
    BY <1>0, <1>1 DEF TypeOK, LogType, PlainStep
  <2> QED
    BY <2>2, <2>3 DEF LogType
<1>10. TypeOK'
  BY <1>2, <1>5, <1>7, <1>8, <1>9 DEF TypeOK
<1> QED
  BY <1>2, <1>4, <1>5, <1>6, <1>10 DEF RInv

\* RInv is an invariant of the specification.
LEMMA Invariant == Spec => []RInv
  BY InitRInv, NextRInv, PTL DEF Spec

-----------------------------------------------------------------------------
(* The lock *)

\* Labels of an execution that holds REFUNDING, of a finalization, and of both.
Holding == {"checkAudit", "deduct", "gwRefund", "rollback", "restoreStatus",
            "markRefundFailed", "markRefundPending"}
Finalizing == {"readDetail", "queryRefund", "finalCheck", "finalDeduct",
               "finalizeFailed"}
Writing == Holding \cup Finalizing \cup {"markRefundOk"}

\* Which call may be at a label.
CallAt(label, by) ==
  /\ label \in Finalizing => by = "finalize"
  /\ label \in Holding \cup {"idle", "lock", "auditPending"} => by = "execute"

\* The status a request finds as long as it may write one.
Holds(by) == IF by = "finalize" THEN "REFUND_PENDING" ELSE "REFUNDING"

\* A finalization is alone; the requests that may still write the status, or
\* touch what was taken, are one at most, and the status is theirs.
LockFacts ==
  /\ \A a \in Admins : CallAt(pc[a], plan[a].by)
  /\ \A a \in Admins : plan[a].by = "finalize"
                         => \A b \in Admins \ {a} : pc[b] = "idle"
  /\ \A a \in Admins : pc[a] \in Writing
                         => /\ status = Holds(plan[a].by)
                            /\ \A b \in Admins \ {a} : pc[b] \notin Writing

LockInv == ~overlapped => LockFacts

\* What a step of request a that goes on to label with plan p does to the lock.
Begins(a, label, p) ==
  /\ pc[a] = "idle" /\ UNCHANGED status /\ Overlap(a)
  /\ \/ label = "lock" /\ p.by = "execute"
     \/ label = "readDetail" /\ p.by = "finalize" /\ status = "REFUND_PENDING"
Acquires(a, label, p) ==
  /\ pc[a] = "lock" /\ label \in Holding /\ p.by = plan[a].by
  /\ status \in Refundable /\ status' = "REFUNDING" /\ UNCHANGED overlapped
Proceeds(a, label, p) ==
  /\ pc[a] \in Writing /\ label \in Writing /\ p.by = plan[a].by
  /\ UNCHANGED <<status, overlapped>>
Leaves(a, label, p) ==
  /\ pc[a] # "idle"
  /\ pc[a] \notin Writing => UNCHANGED status
  /\ \/ label = "idle" /\ p.by = "execute"
     \/ label = "auditPending" /\ pc[a] \in Holding /\ p.by = plan[a].by
     \/ label = "auditSuccess" /\ p.by = plan[a].by
  /\ UNCHANGED overlapped

LockStep(a, label, p) ==
  /\ GotoWith(a, label, p) /\ CallAt(label, p.by)
  /\ \/ Begins(a, label, p) \/ Acquires(a, label, p)
     \/ Proceeds(a, label, p) \/ Leaves(a, label, p)

\* A change of the plan keeps the call it belongs to.
LEMMA SameCall ==
  ASSUME NEW p \in Plans
  PROVE  /\ \A x : Amount(p, x).by = p.by
         /\ \A s, i : Answer(p, s, i).by = p.by
         /\ \A b : Ok(p, b).by = p.by
         /\ \A i, b : Read(p, i, b).by = p.by
  BY DEF Plans, Amount, Answer, Ok, Read

\* The end of a request.
LEMMA EndLeaves ==
  ASSUME NEW a \in Admins, End(a), pc[a] # "idle",
         pc[a] \notin Writing => UNCHANGED status, UNCHANGED overlapped
  PROVE  \E label, p : LockStep(a, label, p)
<1>1. GotoWith(a, "idle", NoPlan) /\ NoPlan.by = "execute"
  BY NewPlans DEF End
<1>2. LockStep(a, "idle", NoPlan)
  BY <1>1 DEF LockStep, Leaves, CallAt, Finalizing
<1> QED
  BY <1>2

\* Going on under the lock, from one label to another of the same call.
LEMMA GoesOn ==
  ASSUME NEW a \in Admins, NEW label, NEW p, GotoWith(a, label, p),
         p.by = plan[a].by, CallAt(pc[a], plan[a].by),
         \/ pc[a] \in Holding /\ label \in Holding
         \/ pc[a] \in Finalizing /\ label \in Finalizing
         \/ pc[a] \in Writing /\ label = "markRefundOk",
         UNCHANGED <<status, overlapped>>
  PROVE  \E l, q : LockStep(a, l, q)
<1>1. CallAt(label, p.by)
  BY DEF CallAt, Holding, Finalizing
<1>2. Proceeds(a, label, p)
  BY DEF Proceeds, Writing
<1> QED
  BY <1>1, <1>2 DEF LockStep

\* Every step of an execution is such a step.
LEMMA ExecuteLocks ==
  ASSUME TypeOK, NEW a \in Admins, CallAt(pc[a], plan[a].by), Execute(a)
  PROVE  \E label, p : LockStep(a, label, p)
<1>a. AdminType
  BY DEF TypeOK
<1>b. plan[a] \in Plans
  BY <1>a DEF AdminType
<1>c. \A label : Goto(a, label) => GotoWith(a, label, plan[a])
  BY <1>a, GotoIsGotoWith
<1>1. CASE PrepareRefund(a)
  <2>1. PICK x \in {0, 1} : GotoWith(a, "lock", Seen(status, x))
    BY <1>1 DEF PrepareRefund, Seen
  <2>2. /\ pc[a] = "idle" /\ UNCHANGED status /\ Overlap(a)
        /\ status \in Refundable
    BY <1>1 DEF PrepareRefund
  <2>3. Seen(status, x).by = "execute"
    BY <2>2, NewPlans
  <2>4. LockStep(a, "lock", Seen(status, x))
    BY <2>1, <2>2, <2>3 DEF LockStep, Begins, CallAt, Finalizing
  <2> QED
    BY <2>4
<1>2. CASE Lock(a)
  <2>1. /\ pc[a] = "lock" /\ UNCHANGED overlapped
        /\ \/ End(a) /\ UNCHANGED status
           \/ /\ status \in Refundable /\ status' = "REFUNDING"
              /\ Goto(a, "checkAudit") \/ Goto(a, "gwRefund")
    BY <1>2 DEF Lock
  <2>2. CASE End(a) /\ UNCHANGED status
    BY <2>1, <2>2, EndLeaves DEF Writing, Holding, Finalizing
  <2>3. ASSUME NEW label \in {"checkAudit", "gwRefund"}, Goto(a, label),
               status \in Refundable, status' = "REFUNDING"
        PROVE  \E l, p : LockStep(a, l, p)
    <3>1. plan[a].by = "execute" /\ label \in Holding
      BY <2>1, <2>3 DEF CallAt, Holding
    <3>2. LockStep(a, label, plan[a])
      BY <1>c, <2>1, <2>3, <3>1 DEF LockStep, Acquires, CallAt, Finalizing
    <3> QED
      BY <3>2
  <2> QED
    BY <2>1, <2>2, <2>3
<1>3. CASE CheckAudit(a) \/ Deduct(a)
  <2>1. /\ pc[a] \in {"checkAudit", "deduct"} /\ UNCHANGED <<status, overlapped>>
        /\ \/ GotoWith(a, "gwRefund", Amount(plan[a], 0))
           \/ \E label \in {"deduct", "gwRefund", "restoreStatus"} :
                Goto(a, label)
    BY <1>3 DEF CheckAudit, Deduct, Amount
  <2> QED
    BY <1>b, <1>c, <2>1, SameCall, GoesOn DEF Holding
<1>4. CASE GwRefund(a)
  <2>1. /\ pc[a] = "gwRefund" /\ UNCHANGED <<status, overlapped>>
        /\ \/ Goto(a, "markRefundOk")
           \/ \E s, i : GotoWith(a, "rollback", Answer(plan[a], s, i))
    BY <1>4 DEF GwRefund, Answered, Answer
  <2> QED
    BY <1>b, <1>c, <2>1, SameCall, GoesOn DEF Holding, Writing
<1>5. CASE RollbackRefund(a)
  <2>1. /\ pc[a] = "rollback" /\ UNCHANGED <<status, overlapped>>
        /\ \E b : \E label \in {"markRefundPending", "restoreStatus",
                                "markRefundFailed"} :
             GotoWith(a, label, Ok(plan[a], b))
    BY <1>5 DEF RollbackRefund, AfterRollback, Ok
  <2> QED
    BY <1>b, <2>1, SameCall, GoesOn DEF Holding
<1>6. CASE RestoreStatus(a) \/ MarkRefundFailed(a)
  <2>1. /\ pc[a] \in Writing /\ pc[a] # "idle" /\ End(a)
        /\ UNCHANGED overlapped
    BY <1>6 DEF RestoreStatus, MarkRefundFailed, SetStatus, Writing, Holding
  <2> QED
    BY <2>1, EndLeaves
<1>7. CASE AuditPending(a) \/ AuditSuccess(a)
  <2>1. pc[a] # "idle" /\ End(a) /\ UNCHANGED <<status, overlapped>>
    BY <1>7 DEF AuditPending, AuditSuccess
  <2> QED
    BY <2>1, EndLeaves
<1>8. CASE MarkRefundPending(a)
  <2>1. /\ pc[a] = "markRefundPending" /\ Goto(a, "auditPending")
        /\ UNCHANGED overlapped
    BY <1>8 DEF MarkRefundPending, SetStatus
  <2>2. plan[a].by = "execute" /\ pc[a] \in Holding /\ pc[a] \in Writing
    BY <2>1 DEF CallAt, Holding, Writing
  <2>3. LockStep(a, "auditPending", plan[a])
    BY <1>c, <2>1, <2>2 DEF LockStep, Leaves, CallAt, Finalizing
  <2> QED
    BY <2>3
<1>9. CASE MarkRefundOk(a)
  <2>1. /\ pc[a] = "markRefundOk" /\ Goto(a, "auditSuccess")
        /\ UNCHANGED overlapped
    BY <1>9 DEF MarkRefundOk, SetStatus
  <2>2. LockStep(a, "auditSuccess", plan[a])
    BY <1>c, <2>1 DEF LockStep, Leaves, CallAt, Finalizing, Holding, Writing
  <2> QED
    BY <2>2
<1> QED
  BY <1>1, <1>2, <1>3, <1>4, <1>5, <1>6, <1>7, <1>8, <1>9 DEF Execute

\* So is every step of a finalization.
LEMMA FinalizeLocks ==
  ASSUME TypeOK, NEW a \in Admins, CallAt(pc[a], plan[a].by), Finalize(a)
  PROVE  \E label, p : LockStep(a, label, p)
<1>a. AdminType
  BY DEF TypeOK
<1>b. plan[a] \in Plans
  BY <1>a DEF AdminType
<1>c. \A label : Goto(a, label) => GotoWith(a, label, plan[a])
  BY <1>a, GotoIsGotoWith
<1>1. CASE QueryAndFinalizeRefund(a)
  <2>1. /\ pc[a] = "idle" /\ UNCHANGED status /\ Overlap(a)
        /\ status = "REFUND_PENDING" /\ GotoWith(a, "readDetail", Saw(status))
    BY <1>1 DEF QueryAndFinalizeRefund, Saw
  <2>2. Saw(status).by = "finalize"
    BY <2>1, NewPlans DEF Refundable
  <2>3. LockStep(a, "readDetail", Saw(status))
    BY <2>1, <2>2 DEF LockStep, Begins, CallAt, Holding
  <2> QED
    BY <2>3
<1>2. CASE LatestRefundPendingDetail(a)
  <2>1. /\ pc[a] = "readDetail" /\ UNCHANGED <<status, overlapped>>
        /\ GotoWith(a, "queryRefund", Read(plan[a], detail.id, detail.ok))
    BY <1>2 DEF LatestRefundPendingDetail, Read
  <2>2. Read(plan[a], detail.id, detail.ok).by = plan[a].by
    BY <1>b, SameCall
  <2> QED
    BY <2>1, <2>2, GoesOn DEF Finalizing
<1>3. CASE QueryRefund(a) \/ FinalCheck(a) \/ FinalDeduct(a)
  <2>1. /\ pc[a] \in Finalizing /\ UNCHANGED <<status, overlapped>>
        /\ \/ End(a) \/ Goto(a, "finalizeFailed") \/ Goto(a, "markRefundOk")
           \/ Goto(a, "finalDeduct")
           \/ \E x : GotoWith(a, "finalCheck", Amount(plan[a], x))
    BY <1>3 DEF QueryRefund, FinalCheck, FinalDeduct, Amount, Finalizing
  <2>2. CASE End(a)
    BY <2>1, <2>2, EndLeaves DEF Writing, Finalizing
  <2>3. CASE ~End(a)
    BY <1>b, <1>c, <2>1, <2>3, SameCall, GoesOn DEF Finalizing, Writing
  <2> QED
    BY <2>2, <2>3
<1>4. CASE FinalizeRefundFailed(a)
  <2>1. pc[a] = "finalizeFailed" /\ End(a) /\ UNCHANGED overlapped
    BY <1>4 DEF FinalizeRefundFailed, SetStatus
  <2> QED
    BY <2>1, EndLeaves DEF Writing, Finalizing
<1> QED
  BY <1>1, <1>2, <1>3, <1>4 DEF Finalize

\* And every fault.
LEMMA FaultLocks ==
  ASSUME TypeOK, NEW a \in Admins, CallAt(pc[a], plan[a].by),
         Crash(a) \/ CallFails(a) \/ RollbackFails(a)
  PROVE  \E label, p : LockStep(a, label, p)
<1>a. AdminType
  BY DEF TypeOK
<1>b. plan[a] \in Plans
  BY <1>a DEF AdminType
<1>c. \A label : Goto(a, label) => GotoWith(a, label, plan[a])
  BY <1>a, GotoIsGotoWith
<1>d. UNCHANGED <<status, overlapped>> /\ pc[a] # "idle"
  BY DEF Crash, CallFails, RollbackFails
<1>1. CASE End(a)
  BY <1>1, <1>d, EndLeaves
<1>2. CASE ~End(a) /\ CallFails(a)
  <2>1. \/ pc[a] = "checkAudit" /\ Goto(a, "deduct")
        \/ pc[a] = "deduct" /\ Goto(a, "restoreStatus")
        \/ /\ pc[a] = "gwRefund"
           /\ GotoWith(a, "rollback", Answer(plan[a], "failed", 0))
        \/ /\ pc[a] = "readDetail"
           /\ GotoWith(a, "queryRefund", Read(plan[a], 0, TRUE))
        \/ /\ pc[a] = "finalCheck"
           /\ Goto(a, "markRefundOk") \/ Goto(a, "finalDeduct")
    BY <1>2 DEF CallFails, Answered, Answer, Read
  <2>2. CASE pc[a] \in {"checkAudit", "deduct"}
    BY <1>c, <1>d, <2>1, <2>2, GoesOn DEF Holding
  <2>5. CASE pc[a] = "gwRefund"
    <3>1. GotoWith(a, "rollback", Answer(plan[a], "failed", 0))
      BY <2>1, <2>5
    <3>2. Answer(plan[a], "failed", 0).by = plan[a].by
      BY <1>b, SameCall
    <3> QED
      BY <1>d, <2>5, <3>1, <3>2, GoesOn DEF Holding
  <2>3. CASE pc[a] = "readDetail"
    <3>1. GotoWith(a, "queryRefund", Read(plan[a], 0, TRUE))
      BY <2>1, <2>3
    <3>2. Read(plan[a], 0, TRUE).by = plan[a].by
      BY <1>b DEF Read, Plans
    <3> QED
      BY <1>d, <2>3, <3>1, <3>2, GoesOn DEF Finalizing
  <2>4. CASE pc[a] = "finalCheck"
    BY <1>c, <1>d, <2>1, <2>4, GoesOn DEF Finalizing, Writing
  <2> QED
    BY <2>1, <2>2, <2>3, <2>4, <2>5
<1>3. CASE RollbackFails(a)
  <2>1. /\ pc[a] = "rollback"
        /\ \E label \in {"markRefundPending", "restoreStatus",
                         "markRefundFailed"} :
             GotoWith(a, label, Ok(plan[a], FALSE))
    BY <1>3 DEF RollbackFails, AfterRollback, Ok
  <2> QED
    BY <1>b, <1>d, <2>1, SameCall, GoesOn DEF Holding
<1> QED
  BY <1>1, <1>2, <1>3 DEF Crash

\* What a step that concerns no request does.
LockIdle == /\ UNCHANGED <<pc, plan, overlapped>>
            /\ \/ UNCHANGED status
               \/ status = "COMPLETED" /\ status' = "REFUND_REQUESTED"

LEMMA LockSteps ==
  ASSUME TypeOK, \A a \in Admins : CallAt(pc[a], plan[a].by), [Next]_vars
  PROVE  LockIdle \/ \E a \in Admins : \E label, p : LockStep(a, label, p)
<1>1. ASSUME NEW a \in Admins,
             \/ Execute(a) \/ Finalize(a)
             \/ Crash(a) \/ CallFails(a) \/ RollbackFails(a)
      PROVE  \E label, p : LockStep(a, label, p)
  BY <1>1, ExecuteLocks, FinalizeLocks, FaultLocks
<1>2. CASE Settle \/ RequestRefund \/ UNCHANGED vars
  BY <1>2 DEF Settle, RequestRefund, vars, LockIdle
<1> QED
  BY <1>1, <1>2 DEF Next

\* Overlapping with a finalization is not forgotten.
LEMMA OnceOverlapped ==
  ASSUME TypeOK, NEW a \in Admins, Overlap(a), ~overlapped'
  PROVE  /\ ~overlapped
         /\ \A b \in Admins \ {a} :
              pc[b] # "idle"
              => plan'[a].by # "finalize" /\ plan[b].by # "finalize"
  BY DEF TypeOK, Overlap

\* Every step preserves LockInv.
LEMMA LockInductive ==
  ASSUME TypeOK, LockInv, [Next]_vars, ~overlapped'
  PROVE  ~overlapped /\ LockFacts /\ LockFacts'
<1>a. AdminType /\ overlapped \in BOOLEAN
  BY DEF TypeOK
<1>1. ~overlapped
  <2>1. ASSUME NEW a \in Admins, Overlap(a) PROVE ~overlapped
    BY <2>1, OnceOverlapped
  <2>2. UNCHANGED overlapped \/ \E a \in Admins : Overlap(a)
    <3>1. ASSUME NEW a \in Admins, Execute(a)
          PROVE  UNCHANGED overlapped \/ Overlap(a)
      BY <3>1 DEF Execute, PrepareRefund, Lock, CheckAudit, Deduct, GwRefund,
         RollbackRefund, SetStatus, RestoreStatus, MarkRefundFailed,
         MarkRefundPending, AuditPending, MarkRefundOk, AuditSuccess
    <3>2. ASSUME NEW a \in Admins, Finalize(a)
          PROVE  UNCHANGED overlapped \/ Overlap(a)
      BY <3>2 DEF Finalize, QueryAndFinalizeRefund, LatestRefundPendingDetail,
         QueryRefund, FinalCheck, FinalDeduct, FinalizeRefundFailed, SetStatus
    <3>3. ASSUME NEW a \in Admins, Crash(a) \/ CallFails(a) \/ RollbackFails(a)
          PROVE  UNCHANGED overlapped
      BY <3>3 DEF Crash, CallFails, RollbackFails
    <3>4. CASE Settle \/ RequestRefund \/ UNCHANGED vars
      BY <3>4 DEF Settle, RequestRefund, vars
    <3> QED
      BY <3>1, <3>2, <3>3, <3>4 DEF Next
  <2> QED
    BY <2>1, <2>2
<1>2. LockFacts
  BY <1>1 DEF LockInv
<1>3. CASE LockIdle
  BY <1>2, <1>3 DEF LockIdle, LockFacts, Holds
<1>4. ASSUME NEW a \in Admins, NEW label, NEW p, LockStep(a, label, p)
      PROVE  LockFacts'
  <2>1. /\ pc'[a] = label /\ plan'[a] = p
        /\ \A b \in Admins \ {a} : pc'[b] = pc[b] /\ plan'[b] = plan[b]
    BY <1>a, <1>4 DEF AdminType, LockStep, GotoWith
  <2>2. \A b \in Admins : CallAt(pc'[b], plan'[b].by)
    BY <1>2, <1>4, <2>1 DEF LockFacts, LockStep
  <2>3. CASE Begins(a, label, p)
    <3>1. /\ pc[a] = "idle" /\ UNCHANGED status /\ Overlap(a)
          /\ \/ label = "lock" /\ p.by = "execute"
             \/ /\ label = "readDetail" /\ p.by = "finalize"
                /\ status = "REFUND_PENDING"
      BY <2>3 DEF Begins
    <3>2. \A b \in Admins \ {a} :
            pc[b] # "idle" => p.by # "finalize" /\ plan[b].by # "finalize"
      BY <2>1, <3>1, OnceOverlapped
    <3>3. \A b \in Admins \ {a} : pc[b] = "idle" => plan[b].by # "finalize"
      BY <1>2 DEF LockFacts, CallAt
    <3>4. \A b \in Admins : plan'[b].by = "finalize"
                              => \A c \in Admins \ {b} : pc'[c] = "idle"
      BY <1>2, <2>1, <3>1, <3>2, <3>3 DEF LockFacts
    <3>5. CASE label = "lock"
      BY <1>2, <2>1, <2>2, <3>1, <3>4, <3>5
         DEF LockFacts, Writing, Holding, Finalizing, Holds
    <3>6. CASE label = "readDetail"
      BY <1>2, <2>1, <2>2, <3>1, <3>2, <3>4, <3>6
         DEF LockFacts, Writing, Holding, Finalizing, Holds
    <3> QED
      BY <3>1, <3>5, <3>6
  <2>4. CASE Acquires(a, label, p)
    <3>1. /\ pc[a] = "lock" /\ label \in Holding /\ p.by = "execute"
          /\ status \in Refundable /\ status' = "REFUNDING"
      BY <1>2, <2>4 DEF Acquires, LockFacts, CallAt
    <3>2. \A b \in Admins \ {a} : plan[b].by # "finalize"
      BY <1>2, <3>1 DEF LockFacts
    <3>3. \A b \in Admins \ {a} : pc[b] \notin Writing
      BY <1>2, <3>1, <3>2 DEF LockFacts, Holds, Refundable
    <3> QED
      BY <1>2, <2>1, <2>2, <3>1, <3>2, <3>3 DEF LockFacts, Holds
  <2>5. CASE Proceeds(a, label, p)
    BY <1>2, <2>1, <2>2, <2>5 DEF Proceeds, LockFacts, Holds, Writing,
       Holding, Finalizing
  <2>6. CASE Leaves(a, label, p)
    <3>1. /\ label \notin Writing
          /\ p.by = "finalize" => plan[a].by = "finalize" /\ pc[a] # "idle"
      BY <2>6 DEF Leaves, Writing, Holding, Finalizing
    <3>2. pc[a] \in Writing \/ UNCHANGED status
      BY <2>6 DEF Leaves
    <3>3. pc[a] # "idle"
      BY <2>6 DEF Leaves
    <3>4. \A b \in Admins : plan'[b].by = "finalize"
                              => \A c \in Admins \ {b} : pc'[c] = "idle"
      BY <1>2, <2>1, <3>1, <3>3 DEF LockFacts
    <3>5. \A b \in Admins : pc'[b] \in Writing
            => /\ status' = Holds(plan'[b].by)
               /\ \A c \in Admins \ {b} : pc'[c] \notin Writing
      BY <1>2, <2>1, <3>1, <3>2 DEF LockFacts, Holds
    <3> QED
      BY <2>2, <3>4, <3>5 DEF LockFacts
  <2> QED
    BY <1>4, <2>3, <2>4, <2>5, <2>6 DEF LockStep
<1> QED
  BY <1>1, <1>2, <1>3, <1>4, LockSteps DEF LockFacts

\* LockInv is an invariant of the specification.
LEMMA Locked == Spec => []LockInv
<1>1. Init => LockInv
  BY NewPlans DEF Init, LockInv, LockFacts, CallAt, Writing, Holding,
     Finalizing
<1>2. RInv /\ LockInv /\ [Next]_vars => LockInv'
  BY LockInductive DEF RInv, LockInv
<1> QED
  BY <1>1, <1>2, Invariant, PTL DEF Spec

-----------------------------------------------------------------------------
(* What was taken, while nothing fails *)

\* What was taken was given back, or is on record and cannot be taken again: a
\* rollback fails only for a subscription that the deduction has revoked.
Settled ==
  \/ deducted = 0
  \/ deducted = 1 /\ "ROLLBACK_FAILED" \in audits /\ ~CanDeduct

\* What a request at label, with amount x in its plan, has done to the books:
\* d was taken, or it is settled.
Books(label, x, d, settled) ==
  /\ label \in {"gwRefund", "rollback"} /\ x = 1 => d = 1
  /\ label \in {"gwRefund", "rollback"} /\ x = 0 => settled
  /\ label = "markRefundOk" => d \in {0, 1}
  /\ label \notin {"gwRefund", "rollback", "markRefundOk"} => settled
  /\ label \in {"checkAudit", "deduct"} => x = 1

\* The books are in order: those of the request that holds the order, or what is
\* left when there is none.
CalmFacts ==
  /\ status = "REFUNDED" => deducted \in {0, 1}
  /\ status # "REFUNDED" /\ (\A a \in Admins : pc[a] \notin Writing) => Settled
  /\ \A a \in Admins :
       pc[a] \in Writing => Books(pc[a], plan[a].amount, deducted, Settled)

CalmInv == Undisturbed => CalmFacts

\* A request that holds the order lets go of it with the books in order.
LEMMA CalmEnd ==
  ASSUME AdminType, NEW a \in Admins, NEW label, NEW p, GotoWith(a, label, p),
         label \notin Writing,
         \A b \in Admins \ {a} : pc[b] \notin Writing,
         status' = "REFUNDED" => deducted' \in {0, 1},
         status' # "REFUNDED" => Settled'
  PROVE  CalmFacts'
<1>1. \A b \in Admins : pc'[b] \notin Writing
  BY DEF AdminType, GotoWith
<1> QED
  BY <1>1 DEF CalmFacts

\* A request holds the order and goes on with the books in order.
LEMMA CalmGoto ==
  ASSUME AdminType, NEW a \in Admins, NEW label, NEW p,
         GotoWith(a, label, p), label \in Writing,
         \A b \in Admins \ {a} : pc[b] \notin Writing,
         status' # "REFUNDED", Books(label, p.amount, deducted', Settled')
  PROVE  CalmFacts'
<1>1. /\ pc'[a] = label /\ plan'[a] = p
      /\ \A b \in Admins \ {a} : pc'[b] \notin Writing
  BY DEF AdminType, GotoWith
<1> QED
  BY <1>1 DEF CalmFacts

\* A request that does not hold the order leaves the books alone.
LEMMA CalmStay ==
  ASSUME AdminType, CalmFacts, NEW a \in Admins, NEW label, NEW p,
         GotoWith(a, label, p), pc[a] \notin Writing, label \notin Writing,
         UNCHANGED <<status, deducted>>, Settled' = Settled
  PROVE  CalmFacts'
<1>1. /\ pc'[a] = label
      /\ \A b \in Admins \ {a} : pc'[b] = pc[b] /\ plan'[b] = plan[b]
  BY DEF AdminType, GotoWith
<1>2. \A b \in Admins : pc'[b] \in Writing <=> pc[b] \in Writing
  BY <1>1
<1>3. \A b \in Admins : pc[b] \in Writing => b # a
  OBVIOUS
<1> QED
  BY <1>1, <1>2, <1>3 DEF CalmFacts

\* Every step of a request keeps the books.
LEMMA CalmRequest ==
  ASSUME TypeOK, LockFacts, CalmFacts, NEW a \in Admins,
         Execute(a) \/ Finalize(a), ~overlapped'
  PROVE  CalmFacts'
<1>a. AdminType /\ deducted \in Int
  BY DEF TypeOK, MoneyType
<1>b. plan[a] \in Plans /\ plan[a].amount \in {0, 1}
  BY <1>a, PlanTypes DEF AdminType
<1>c. \A label : Goto(a, label) => GotoWith(a, label, plan[a])
  BY <1>a, GotoIsGotoWith
<1>d. pc[a] \in Writing =>
        /\ \A b \in Admins \ {a} : pc[b] \notin Writing
        /\ status # "REFUNDED"
        /\ Books(pc[a], plan[a].amount, deducted, Settled)
  BY DEF LockFacts, Holds, CalmFacts
<1>e. Settled => deducted \in {0, 1}
  BY DEF Settled
<1>f. UNCHANGED <<deducted, audits, sub, kind>> => Settled' = Settled
  BY DEF Settled, CanDeduct
<1>g. End(a) => GotoWith(a, "idle", NoPlan)
  BY DEF End
<1>h. /\ Writing = {"checkAudit", "deduct", "gwRefund", "rollback",
                    "restoreStatus", "markRefundFailed", "markRefundPending",
                    "readDetail", "queryRefund", "finalCheck", "finalDeduct",
                    "finalizeFailed", "markRefundOk"}
  BY DEF Writing, Holding, Finalizing
<1>1. CASE PrepareRefund(a)
  <2>1. /\ UNCHANGED <<deducted, audits, sub, kind, status>> /\ pc[a] = "idle"
        /\ \E p : GotoWith(a, "lock", p)
    BY <1>1 DEF PrepareRefund
  <2> QED
    BY <1>a, <1>f, <1>h, <2>1, CalmStay
<1>2. CASE QueryAndFinalizeRefund(a)
  <2>1. /\ UNCHANGED <<deducted, audits, sub, kind, status>>
        /\ pc[a] = "idle" /\ status = "REFUND_PENDING" /\ Overlap(a)
        /\ GotoWith(a, "readDetail", Saw(status))
    BY <1>2 DEF QueryAndFinalizeRefund, Saw
  <2>2. plan'[a].by = "finalize"
    BY <1>a, <2>1, NewPlans DEF AdminType, GotoWith, Refundable
  <2>3. \A b \in Admins \ {a} : pc[b] = "idle"
    BY <2>1, <2>2, OnceOverlapped
  <2>4. \A b \in Admins : pc[b] \notin Writing
    BY <1>h, <2>1, <2>3
  <2>5. Settled' /\ status' # "REFUNDED"
    BY <1>f, <2>1, <2>4 DEF CalmFacts
  <2>6. Books("readDetail", Saw(status).amount, deducted', Settled')
    BY <2>5 DEF Books
  <2> QED
    BY <1>a, <1>h, <2>1, <2>4, <2>5, <2>6, CalmGoto
<1>3. CASE Lock(a)
  <2>1. /\ pc[a] = "lock" /\ UNCHANGED <<deducted, audits, sub, kind>>
        /\ \/ End(a) /\ UNCHANGED status
           \/ /\ status \in Refundable /\ status' = "REFUNDING"
              /\ \/ Goto(a, "checkAudit") /\ plan[a].amount = 1
                 \/ Goto(a, "gwRefund") /\ plan[a].amount = 0
    BY <1>b, <1>3 DEF Lock
  <2>2. CASE End(a) /\ UNCHANGED status
    BY <1>a, <1>f, <1>g, <1>h, <2>1, <2>2, CalmStay
  <2>3. ASSUME NEW label \in {"checkAudit", "gwRefund"}, Goto(a, label),
               status \in Refundable, status' = "REFUNDING",
               plan[a].amount = (IF label = "checkAudit" THEN 1 ELSE 0)
        PROVE  CalmFacts'
    <3>1. \A b \in Admins \ {a} : plan[b].by # "finalize"
      BY <2>1 DEF LockFacts
    <3>2. \A b \in Admins : pc[b] \notin Writing
      BY <1>h, <2>1, <2>3, <3>1 DEF LockFacts, Holds, Refundable
    <3>3. Settled'
      BY <1>f, <2>1, <2>3, <3>2 DEF CalmFacts, Refundable
    <3>4. Books(label, plan[a].amount, deducted', Settled')
      BY <2>3, <3>3 DEF Books
    <3> QED
      BY <1>a, <1>c, <1>h, <2>3, <3>2, <3>4, CalmGoto
  <2> QED
    BY <2>1, <2>2, <2>3
<1>4. CASE CheckAudit(a)
  <2>1. /\ pc[a] = "checkAudit"
        /\ UNCHANGED <<deducted, audits, sub, kind, status>>
        /\ \/ GotoWith(a, "gwRefund", Amount(plan[a], 0))
           \/ Goto(a, "deduct")
    BY <1>4 DEF CheckAudit, Amount
  <2>2. Settled' /\ plan[a].amount = 1 /\ status' # "REFUNDED"
    BY <1>d, <1>f, <1>h, <2>1 DEF Books
  <2>3. Amount(plan[a], 0).amount = 0
    BY <1>b, AmountPlan
  <2>4. /\ Books("gwRefund", 0, deducted', Settled')
        /\ Books("deduct", 1, deducted', Settled')
    BY <2>2 DEF Books
  <2> QED
    BY <1>a, <1>c, <1>d, <1>h, <2>1, <2>2, <2>3, <2>4, CalmGoto
<1>5. CASE Deduct(a)
  <2>1. /\ pc[a] = "deduct" /\ UNCHANGED <<audits, kind, status>>
        /\ \/ /\ CanDeduct /\ deducted' = deducted + 1 /\ Goto(a, "gwRefund")
           \/ Goto(a, "restoreStatus") /\ UNCHANGED <<deducted, sub>>
    BY <1>5 DEF Deduct, Take
  <2>2. Settled /\ plan[a].amount = 1 /\ status' # "REFUNDED"
    BY <1>d, <1>h, <2>1 DEF Books
  <2>4. CASE CanDeduct /\ deducted' = deducted + 1 /\ Goto(a, "gwRefund")
    <3>1. deducted' = 1
      BY <2>2, <2>4 DEF Settled
    <3>2. Books("gwRefund", plan[a].amount, deducted', Settled')
      BY <2>2, <3>1 DEF Books
    <3> QED
      BY <1>a, <1>c, <1>d, <1>h, <2>1, <2>2, <2>4, <3>2, CalmGoto
  <2>5. CASE Goto(a, "restoreStatus") /\ UNCHANGED <<deducted, sub>>
    <3>1. Settled'
      BY <1>f, <2>1, <2>2, <2>5
    <3>2. Books("restoreStatus", plan[a].amount, deducted', Settled')
      BY <3>1 DEF Books
    <3> QED
      BY <1>a, <1>c, <1>d, <1>h, <2>1, <2>2, <2>5, <3>2, CalmGoto
  <2> QED
    BY <2>1, <2>4, <2>5
<1>6. CASE GwRefund(a)
  <2>1. /\ pc[a] = "gwRefund"
        /\ UNCHANGED <<deducted, audits, sub, kind, status>>
        /\ Goto(a, "markRefundOk") \/ \E s, i : Answered(a, s, i)
    BY <1>6 DEF GwRefund
  <2>2. /\ Books("gwRefund", plan[a].amount, deducted', Settled')
        /\ status' # "REFUNDED"
    BY <1>d, <1>f, <1>h, <2>1
  <2>3. CASE Goto(a, "markRefundOk")
    <3>1. Books("markRefundOk", plan[a].amount, deducted', Settled')
      BY <1>b, <1>e, <1>f, <2>1, <2>2 DEF Books
    <3> QED
      BY <1>a, <1>c, <1>d, <1>h, <2>1, <2>2, <2>3, <3>1, CalmGoto
  <2>4. ASSUME NEW s, NEW i,
               GotoWith(a, "rollback", Answer(plan[a], s, i))
        PROVE  CalmFacts'
    <3>1. Answer(plan[a], s, i).amount = plan[a].amount
      BY <1>b DEF Plans, Answer
    <3>2. Books("rollback", plan[a].amount, deducted', Settled')
      BY <2>2 DEF Books
    <3> QED
      BY <1>a, <1>d, <1>h, <2>1, <2>2, <2>4, <3>1, <3>2, CalmGoto
  <2> QED
    BY <2>1, <2>3, <2>4 DEF Answered, Answer
<1>7. CASE RollbackRefund(a)
  <2>1. /\ pc[a] = "rollback" /\ UNCHANGED <<sub, kind, status>>
        /\ \/ /\ deducted' = deducted - plan[a].amount /\ UNCHANGED audits
           \/ /\ plan[a].amount > 0 /\ ~CanDeduct /\ UNCHANGED deducted
              /\ audits' = audits \cup {"ROLLBACK_FAILED"}
        /\ \E b : AfterRollback(a, b)
    BY <1>7 DEF RollbackRefund
  <2>2. Books("rollback", plan[a].amount, deducted, Settled)
    BY <1>d, <1>h, <2>1
  <2>3. Settled'
    <3>1. CASE plan[a].amount = 0
      <4>1. Settled /\ UNCHANGED <<deducted, audits, sub, kind>>
        BY <1>a, <2>1, <2>2, <3>1 DEF Books
      <4> QED
        BY <1>f, <4>1
    <3>2. CASE plan[a].amount = 1
      BY <2>1, <2>2, <3>2 DEF Books, Settled, CanDeduct
    <3> QED
      BY <1>b, <3>1, <3>2
  <2>4. PICK label \in {"markRefundPending", "restoreStatus",
                        "markRefundFailed"} : \E p : GotoWith(a, label, p)
    BY <2>1 DEF AfterRollback
  <2>p. PICK p : GotoWith(a, label, p)
    BY <2>4
  <2>5. Books(label, p.amount, deducted', Settled')
    BY <2>3, <2>4 DEF Books
  <2>6. status' # "REFUNDED"
    BY <1>d, <1>h, <2>1
  <2> QED
    BY <1>a, <1>d, <1>h, <2>1, <2>4, <2>p, <2>5, <2>6, CalmGoto
<1>8. CASE \/ RestoreStatus(a) \/ MarkRefundFailed(a)
           \/ FinalizeRefundFailed(a) \/ MarkRefundPending(a)
  <2>1. /\ pc[a] \in {"restoreStatus", "markRefundFailed", "finalizeFailed",
                      "markRefundPending"}
        /\ UNCHANGED <<deducted, audits, sub, kind>>
        /\ End(a) \/ Goto(a, "auditPending")
        /\ status' # "REFUNDED"
    BY <1>8 DEF RestoreStatus, MarkRefundFailed, FinalizeRefundFailed,
       MarkRefundPending, SetStatus
  <2>2. Settled'
    BY <1>d, <1>f, <1>h, <2>1 DEF Books
  <2>3. PICK label \in {"idle", "auditPending"} : \E p : GotoWith(a, label, p)
    BY <1>c, <1>g, <2>1
  <2> QED
    BY <1>a, <1>d, <1>h, <2>1, <2>2, <2>3, CalmEnd
<1>9. CASE AuditPending(a) \/ AuditSuccess(a)
  <2>1. /\ pc[a] \in {"auditPending", "auditSuccess"} /\ End(a)
        /\ UNCHANGED <<deducted, sub, kind, status>>
        /\ audits' \in {audits, audits \cup {"SUCCESS"}}
    BY <1>9 DEF AuditPending, AuditSuccess
  <2>2. Settled' = Settled
    BY <2>1 DEF Settled, CanDeduct
  <2> QED
    BY <1>a, <1>g, <1>h, <2>1, <2>2, CalmStay
<1>10. CASE MarkRefundOk(a)
  <2>1. /\ pc[a] = "markRefundOk" /\ Goto(a, "auditSuccess")
        /\ UNCHANGED deducted /\ status' = "REFUNDED"
    BY <1>10 DEF MarkRefundOk, SetStatus
  <2>2. deducted' \in {0, 1}
    BY <1>d, <1>h, <2>1 DEF Books
  <2> QED
    BY <1>a, <1>c, <1>d, <1>h, <2>1, <2>2, CalmEnd
<1>11. CASE LatestRefundPendingDetail(a) \/ QueryRefund(a) \/ FinalCheck(a)
  <2>1. /\ pc[a] \in {"readDetail", "queryRefund", "finalCheck"}
        /\ UNCHANGED <<deducted, audits, sub, kind, status>>
        /\ \/ End(a) \/ Goto(a, "finalizeFailed") \/ Goto(a, "markRefundOk")
           \/ Goto(a, "finalDeduct")
           \/ \E p : GotoWith(a, "queryRefund", p)
           \/ \E p : GotoWith(a, "finalCheck", p)
    BY <1>11 DEF LatestRefundPendingDetail, QueryRefund, FinalCheck
  <2>2. Settled' /\ status' # "REFUNDED"
    BY <1>d, <1>f, <1>h, <2>1 DEF Books
  <2>3. deducted' \in {0, 1}
    BY <1>d, <1>e, <1>h, <2>1 DEF Books
  <2>4. ASSUME NEW label \in {"finalizeFailed", "markRefundOk", "finalDeduct",
                              "queryRefund", "finalCheck"},
               NEW p, GotoWith(a, label, p)
        PROVE  CalmFacts'
    <3>1. Books(label, p.amount, deducted', Settled')
      BY <2>2, <2>3 DEF Books
    <3> QED
      BY <1>a, <1>d, <1>h, <2>1, <2>2, <2>4, <3>1, CalmGoto
  <2>5. CASE End(a)
    BY <1>a, <1>d, <1>g, <1>h, <2>1, <2>2, <2>5, CalmEnd
  <2> QED
    BY <1>c, <2>1, <2>4, <2>5
<1>12. CASE FinalDeduct(a)
  <2>1. /\ pc[a] = "finalDeduct" /\ UNCHANGED <<audits, kind, status>>
        /\ \/ CanDeduct /\ deducted' = deducted + 1 /\ Goto(a, "markRefundOk")
           \/ End(a) /\ UNCHANGED <<deducted, sub>>
    BY <1>12 DEF FinalDeduct, Take
  <2>2. Settled /\ status' # "REFUNDED"
    BY <1>d, <1>h, <2>1 DEF Books
  <2>3. CASE CanDeduct /\ deducted' = deducted + 1 /\ Goto(a, "markRefundOk")
    <3>1. deducted' = 1
      BY <2>2, <2>3 DEF Settled
    <3>2. Books("markRefundOk", plan[a].amount, deducted', Settled')
      BY <3>1 DEF Books
    <3> QED
      BY <1>a, <1>c, <1>d, <1>h, <2>1, <2>2, <2>3, <3>2, CalmGoto
  <2>4. CASE End(a) /\ UNCHANGED <<deducted, sub>>
    <3>1. Settled'
      BY <1>f, <2>1, <2>2, <2>4
    <3> QED
      BY <1>a, <1>d, <1>g, <1>h, <2>1, <2>2, <2>4, <3>1, CalmEnd
  <2> QED
    BY <2>1, <2>3, <2>4
<1> QED
  BY <1>1, <1>2, <1>3, <1>4, <1>5, <1>6, <1>7, <1>8, <1>9, <1>10, <1>11, <1>12
     DEF Execute, Finalize

\* A fault is not forgotten.
LEMMA OnceFaulty ==
  ASSUME TypeOK, [Next]_vars, faults' = 0
  PROVE  /\ faults = 0
         /\ \A a \in Admins : ~Crash(a) /\ ~CallFails(a) /\ ~RollbackFails(a)
<1>0. faults \in Nat
  BY DEF TypeOK
<1>1. ASSUME NEW a \in Admins, Crash(a) \/ CallFails(a) \/ RollbackFails(a)
      PROVE  FALSE
  <2>1. faults' = faults + 1 \/ faults' = faults + 2
    BY <1>1 DEF Crash, CallFails, RollbackFails
  <2> QED
    BY <1>0, <2>1
<1>2. faults' \in {faults, faults + 1, faults + 2}
  BY PlainSteps DEF PlainStep
<1> QED
  BY <1>0, <1>1, <1>2

\* Every step preserves CalmInv.
LEMMA CalmInductive ==
  ASSUME TypeOK, LockInv, CalmInv, [Next]_vars
  PROVE  CalmInv'
<1> SUFFICES ASSUME Undisturbed' PROVE CalmFacts'
  BY DEF CalmInv
<1>u. faults' = 0 /\ ~overlapped'
  BY DEF Undisturbed
<1>1. /\ faults = 0
      /\ \A a \in Admins : ~Crash(a) /\ ~CallFails(a) /\ ~RollbackFails(a)
  BY <1>u, OnceFaulty
<1>2. ~overlapped /\ LockFacts
  BY <1>u, LockInductive
<1>3. CalmFacts
  BY <1>1, <1>2 DEF CalmInv, Undisturbed
<1>4. ASSUME NEW a \in Admins, Execute(a) \/ Finalize(a)
      PROVE  CalmFacts'
  BY <1>u, <1>2, <1>3, <1>4, CalmRequest
<1>5. CASE Settle \/ RequestRefund \/ UNCHANGED vars
  <2>1. /\ UNCHANGED <<pc, plan, deducted, audits, sub, kind>>
        /\ \/ UNCHANGED status
           \/ status = "COMPLETED" /\ status' = "REFUND_REQUESTED"
    BY <1>5 DEF Settle, RequestRefund, vars
  <2>2. Settled' = Settled
    BY <2>1 DEF Settled, CanDeduct
  <2> QED
    BY <1>3, <2>1, <2>2 DEF CalmFacts
<1> QED
  BY <1>1, <1>4, <1>5 DEF Next

\* CalmInv is an invariant of the specification.
LEMMA Calm == Spec => []CalmInv
<1>1. Init => CalmInv
  BY DEF Init, CalmInv, CalmFacts, Settled, Writing, Holding, Finalizing
<1>2. RInv /\ LockInv /\ CalmInv /\ [Next]_vars => CalmInv'
  BY CalmInductive DEF RInv
<1> QED
  BY <1>1, <1>2, Invariant, Locked, PTL DEF Spec

-----------------------------------------------------------------------------
(* Theorems *)

\* The variables keep their types.
THEOREM TypeCorrect == Spec => []TypeOK
<1>1. RInv => TypeOK
  BY DEF RInv
<1> QED
  BY <1>1, Invariant, PTL

\* REFUNDED means that the provider returned the money, or was never paid
\* through a trade number, however many requests refund, retry and finalize the
\* order at once and whatever fails.
THEOREM RefundReturned == Spec => []RefundedIsReturned
<1>1. RInv => RefundedIsReturned
  BY DEF RInv, StatusFacts, Returned, RefundedIsReturned, Ids
<1> QED
  BY <1>1, Invariant, PTL

\* No rollback gives back what its own request did not take: the user never
\* ends with more than the order granted.
THEOREM NotOverRestored == Spec => []NeverOverRestored
<1>1. ASSUME RInv PROVE NeverOverRestored
  <2>1. Owing \subseteq Admins
    BY DEF Owing
  <2>2. Cardinality(Owing) \in Nat
    BY <2>1, FS_Subset, FS_CardinalityType
  <2> QED
    BY <1>1, <2>2 DEF RInv, TypeOK, MoneyType, OwingCovered, NeverOverRestored
<1> QED
  BY <1>1, Invariant, PTL

\* As long as no finalization runs beside another request and nothing fails,
\* what the order granted is taken back at most once, however many executions
\* overlap: a rollback that fails leaves a subscription that nothing can be
\* taken from.
THEOREM DebitedOnce == Spec => []DebitedAtMostOnce
<1>1. RInv /\ CalmInv => DebitedAtMostOnce
  <2> SUFFICES ASSUME RInv, CalmInv, Undisturbed PROVE deducted <= 1
    BY DEF DebitedAtMostOnce
  <2>1. CalmFacts
    BY DEF CalmInv
  <2>2. CASE \A a \in Admins : pc[a] \notin Writing
    BY <2>1, <2>2 DEF CalmFacts, Settled
  <2>3. ASSUME NEW a \in Admins, pc[a] \in Writing PROVE deducted <= 1
    <3>1. Books(pc[a], plan[a].amount, deducted, Settled)
      BY <2>1, <2>3 DEF CalmFacts
    <3>2. plan[a].amount \in {0, 1}
      BY PlanTypes DEF RInv, TypeOK, AdminType
    <3>3. Settled => deducted <= 1
      BY DEF Settled
    <3> QED
      BY <3>1, <3>2, <3>3 DEF Books
  <2> QED
    BY <2>2, <2>3
<1> QED
  BY <1>1, Calm, Invariant, PTL

\* Under the same conditions, what was taken without a refund is on record.
THEOREM OwedRecorded == Spec => []OwedIsOnRecord
<1>1. CalmInv => OwedIsOnRecord
  BY DEF CalmInv, CalmFacts, Settled, OwedIsOnRecord, Writing, Holding,
     Finalizing
<1> QED
  BY <1>1, Calm, PTL

\* While no finalization has run beside another request, no step moves a REFUNDED
\* order on: however many executions were prepared before the refund, and
\* whatever fails in them, the conditional lock keeps all but one from writing.
THEOREM RefundFinal == Spec => RefundedIsFinal
<1>1. ASSUME RInv, LockInv, [Next]_vars
      PROVE  [status = "REFUNDED" /\ ~overlapped
              => status' = "REFUNDED"]_vars
  <2> SUFFICES ASSUME status = "REFUNDED", ~overlapped, Next
               PROVE  status' = "REFUNDED"
    BY <1>1
  <2>1. LockFacts
    BY <1>1 DEF LockInv
  <2>2. \A a \in Admins : pc[a] \notin Writing
    BY <2>1 DEF LockFacts, Holds
  <2>3. LockIdle \/ \E a \in Admins : \E label, p : LockStep(a, label, p)
    BY <1>1, <2>1, LockSteps DEF RInv, LockFacts
  <2> QED
    BY <2>2, <2>3 DEF LockIdle, LockStep, Begins, Acquires, Proceeds, Leaves,
       Refundable
<1> QED
  BY <1>1, Invariant, Locked, PTL DEF Spec, RefundedIsFinal
=============================================================================
