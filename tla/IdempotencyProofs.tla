------------------------- MODULE IdempotencyProofs -------------------------
(***************************************************************************)
(* TLAPS proofs about Idempotency, for any requests, payloads and times    *)
(* that satisfy TimeAssumption.                                            *)
(***************************************************************************)
EXTENDS Idempotency, TLAPS

\* No request is in the future, works on a record of the future, or lasts longer
\* than it may.
Timely ==
  /\ first.id < nextId
  /\ \A r \in Requests :
       /\ req[r].now <= clock /\ req[r].id < nextId
       /\ pc[r] \in ClaimPCs => clock < req[r].now + ClaimTime
       /\ pc[r] \in RunPCs => clock < req[r].now + RunTime

\* The record is its executor's as long as the executor runs.
Owns ==
  \A r \in Requests : pc[r] \in RunPCs =>
    /\ Exists /\ record.id = req[r].id /\ record.status = Processing
    /\ record.expiresAt = ExpiresAt(r)

\* The record belongs to one payload, whoever reclaims it.
SamePayload ==
  /\ \A r \in Requests :
       /\ pc[r] \in {"reclaimExpired", "reclaim"} \cup RunPCs
       /\ Exists /\ record.id = req[r].id
       => record.fingerprint = req[r].payload
  /\ Exists /\ record.id = first.id => record.fingerprint = first.payload

\* What a request that has read an expired record still knows about it: if it was
\* being processed and is again, it is locked beyond the request's now; if it had
\* succeeded, the first success is over.
LateReader ==
  \A r \in Requests :
    pc[r] = "reclaimExpired" /\ Exists /\ record.id = req[r].id =>
      /\ req[r].from = Processing /\ record.status = Processing
           => record.expiresAt <= req[r].now \/ record.lockedUntil > req[r].now
      /\ req[r].from = Succeeded
           => first.id = record.id /\ first.end <= req[r].now

\* As long as the window of the first success lasts, its record is there and is
\* not one to be retried.
Window ==
  /\ Exists /\ record.status = Succeeded
       => first.id = record.id /\ first.end <= record.expiresAt
  /\ \A r \in Requests : pc[r] = "markSucceeded"
       => first.id = req[r].id /\ first.end <= ExpiresAt(r)
  /\ first.end > clock =>
       /\ Exists /\ record.id = first.id /\ first.end <= record.expiresAt
       /\ record.status # FailedRetryable
       /\ \A r \in Requests : pc[r] \notin {"execute", "markFailed"}

IInv == /\ TypeOK /\ Timely /\ Owns /\ OneExecutor /\ SamePayload
        /\ LateReader /\ Window

-----------------------------------------------------------------------------
(* Lemmas *)

\* Goto moves one request and changes nothing of it.
LEMMA GotoFacts ==
  ASSUME RequestType, NEW r \in Requests, NEW l \in PCs, Goto(r, l)
  PROVE  /\ RequestType' /\ pc'[r] = l /\ req' = req
         /\ \A s \in Requests \ {r} : pc'[s] = pc[s]
  BY DEF RequestType, Goto

\* Hold moves one request and notes the record that it has read.
LEMMA HoldFacts ==
  ASSUME RequestType, NEW r \in Requests, NEW i \in Nat,
         NEW st \in RecordStatuses, NEW l \in PCs, Hold(r, i, st, l)
  PROVE  /\ RequestType' /\ pc'[r] = l
         /\ req'[r].id = i /\ req'[r].from = st
         /\ req'[r].now = req[r].now /\ req'[r].payload = req[r].payload
         /\ \A s \in Requests \ {r} : pc'[s] = pc[s] /\ req'[s] = req[s]
  BY DEF RequestType, Hold

\* Answer ends one request, which forgets its record.
LEMMA AnswerFacts ==
  ASSUME RequestType, NEW r \in Requests, NEW l \in PCs, Answer(r, l)
  PROVE  /\ RequestType' /\ pc'[r] = l
         /\ req'[r].id = 0 /\ req'[r].now = req[r].now
         /\ \A s \in Requests \ {r} : pc'[s] = pc[s] /\ req'[s] = req[s]
  BY DEF RequestType, Answer, RecordStatuses

\* Begin starts one request now.
LEMMA BeginFacts ==
  ASSUME RequestType, HistoryType, NEW r \in Requests, NEW p \in Payloads,
         Begin(r, p)
  PROVE  /\ RequestType' /\ pc'[r] = "create"
         /\ req'[r].id = 0 /\ req'[r].now = clock
         /\ \A s \in Requests \ {r} : pc'[s] = pc[s] /\ req'[s] = req[s]
  BY DEF RequestType, HistoryType, Begin, NoRequest, PCs, ClaimPCs,
     RecordStatuses

\* A step of one request that writes nothing, and after which the request is
\* still timely, has not become an executor, and knows of the record what it has
\* just read, preserves IInv.
Others(r) ==
  \A s \in Requests \ {r} : pc'[s] = pc[s] /\ req'[s] = req[s]

LocalStep(r) ==
  /\ UNCHANGED <<store, clock, first>> /\ RequestType' /\ Others(r)
  /\ req'[r].now <= clock /\ req'[r].id < nextId
  /\ pc'[r] \in ClaimPCs => clock < req'[r].now + ClaimTime
  /\ pc'[r] \in RunPCs =>
       pc[r] = "execute" /\ pc'[r] = "markFailed" /\ req'[r] = req[r]
  /\ pc'[r] \in {"reclaimExpired", "reclaim"} =>
       Exists /\ req'[r].id = record.id
       /\ record.fingerprint = req'[r].payload
  /\ pc'[r] = "reclaimExpired" =>
       record.expiresAt <= req'[r].now /\ req'[r].from = record.status

\* A step that writes nothing preserves IInv.
LEMMA LocalStepIInv ==
  ASSUME IInv, NEW r \in Requests, LocalStep(r)
  PROVE  IInv'
<1> USE DEF IInv, TypeOK, LocalStep, Others, store
<1>1. TypeOK'
  BY DEF StoreType, HistoryType
<1>2. Timely'
  BY DEF Timely, RequestType, RunPCs
<1>3. Owns' /\ OneExecutor'
  BY DEF Owns, OneExecutor, Exists, ExpiresAt, RunPCs
<1>4. SamePayload'
  BY DEF SamePayload, Exists, RunPCs
<1>5. LateReader'
  <2>1. /\ record.expiresAt \in Nat /\ first.end \in Nat
        /\ \A s \in Requests : req'[s].now \in Nat
    BY DEF StoreType, HistoryType, RequestType
  <2> QED
    BY <2>1 DEF LateReader, Exists, Window
<1>6. Window'
  BY DEF Window, Exists, ExpiresAt, RunPCs
<1> QED
  BY <1>1, <1>2, <1>3, <1>4, <1>5, <1>6

\* A request that takes the record while nobody executes and no window of a first
\* success lasts preserves IInv.
ClaimStep(r) ==
  /\ UNCHANGED <<clock, first>> /\ RequestType' /\ Others(r) /\ StoreType'
  /\ pc[r] \in ClaimPCs /\ pc'[r] = "execute"
  /\ req'[r].now = req[r].now /\ req'[r].payload = req[r].payload
  /\ Exists' /\ record'.id = req'[r].id /\ record'.status = Processing
  /\ record'.lockedUntil = LockedUntil(r) /\ record'.expiresAt = ExpiresAt(r)
  /\ record'.fingerprint = req[r].payload
  /\ \A s \in Requests : pc[s] \notin RunPCs
  /\ first.end <= clock
  /\ \/ nextId' = nextId + 1 /\ record'.id = nextId
     \/ /\ nextId' = nextId /\ Exists /\ record'.id = record.id
        /\ record'.fingerprint = record.fingerprint

\* A step that claims the record preserves IInv.
LEMMA ClaimStepIInv ==
  ASSUME IInv, NEW r \in Requests, ClaimStep(r)
  PROVE  IInv'
<1> USE TimeAssumption DEF IInv, TypeOK, ClaimStep, Others
<1>0. /\ nextId \in Nat /\ nextId' \in Nat /\ clock \in Nat /\ first.end \in Nat
      /\ first.id \in Nat
      /\ \A s \in Requests : req[s].now \in Nat /\ req[s].id \in Nat
      /\ \A s \in Requests : req'[s].now \in Nat /\ req'[s].id \in Nat
  BY DEF RequestType, StoreType, HistoryType
<1>1. TypeOK'
  BY DEF StoreType, HistoryType
<1>2. Timely'
  BY <1>0 DEF Timely, ClaimPCs, RunPCs, StoreType
<1>3. Owns' /\ OneExecutor'
  BY DEF Owns, OneExecutor, ExpiresAt, RunPCs
<1>4. SamePayload'
  BY <1>0 DEF SamePayload, Timely, RunPCs
<1>5. LateReader'
  BY <1>0 DEF LateReader, Timely, LockedUntil, ClaimPCs, Processing, Succeeded
<1>6. Window'
  BY <1>0 DEF Window, RunPCs, Processing, Succeeded
<1> QED
  BY <1>1, <1>2, <1>3, <1>4, <1>5, <1>6

-----------------------------------------------------------------------------
(* The inductive invariant *)

\* IInv holds when the key has not been used.
LEMMA InitIInv == Init => IInv
<1> SUFFICES ASSUME Init PROVE IInv
  OBVIOUS
<1> USE DEF Init, StoreInit, NoRecord, NoRequest
<1>1. TypeOK
  BY DEF TypeOK, StoreType, RequestType, HistoryType, RecordStatuses, PCs
<1>2. Timely /\ Owns /\ OneExecutor
  BY DEF Timely, Owns, OneExecutor, ClaimPCs, RunPCs
<1>3. SamePayload /\ LateReader /\ Window
  BY DEF SamePayload, LateReader, Window, Exists, RunPCs
<1> QED
  BY <1>1, <1>2, <1>3 DEF IInv

\* Where a record read is expired or over, the request goes on as IInv says.
LEMMA DecideLocal ==
  ASSUME IInv, NEW r \in Requests, pc[r] \in ClaimPCs, Same(r), Decide(r),
         UNCHANGED <<store, clock, first>>
  PROVE  LocalStep(r)
<1> USE DEF IInv, TypeOK
<1>1. ASSUME NEW l \in {"idle", "replayed"}, Answer(r, l) PROVE LocalStep(r)
  BY <1>1, AnswerFacts DEF LocalStep, Others, Timely, StoreType, PCs, ClaimPCs,
     RunPCs
<1>2. ASSUME Hold(r, record.id, FailedRetryable, "reclaim") PROVE LocalStep(r)
  <2>1. record.id \in Nat /\ FailedRetryable \in RecordStatuses
          /\ "reclaim" \in PCs
    BY DEF StoreType, RecordStatuses, PCs, ClaimPCs
  <2> QED
    BY <1>2, <2>1, HoldFacts DEF LocalStep, Others, Timely, StoreType, ClaimPCs,
       RunPCs, Same
<1> QED
  BY <1>1, <1>2 DEF Decide

\* Every step of a request that only reads, and every end of a request, is local.
LEMMA ReadSteps ==
  ASSUME IInv, NEW r \in Requests,
         (\E p \in Payloads : Begin(r, p)) \/ Get(r) \/ Reread(r)
           \/ ExecuteError(r) \/ Abandon(r)
  PROVE  IInv'
<1> USE DEF IInv, TypeOK
<1>1. ASSUME NEW p \in Payloads, Begin(r, p) PROVE LocalStep(r)
  <2>1. clock <= clock /\ clock < clock + ClaimTime /\ 0 < nextId
    BY TimeAssumption DEF HistoryType, StoreType
  <2>2. /\ RequestType' /\ Others(r) /\ pc'[r] = "create"
        /\ req'[r].id = 0 /\ req'[r].now = clock
    BY <1>1, BeginFacts DEF Others
  <2>3. UNCHANGED <<store, clock, first>>
    BY <1>1 DEF Begin
  <2> QED
    BY <2>1, <2>2, <2>3 DEF LocalStep, RunPCs
<1>2. ASSUME pc[r] \in ClaimPCs \cup RunPCs, Answer(r, "idle"),
             UNCHANGED <<store, clock, first>>
      PROVE  LocalStep(r)
  BY <1>2, AnswerFacts DEF LocalStep, Others, Timely, StoreType, PCs, ClaimPCs,
     RunPCs
<1>3. ASSUME Get(r) PROVE LocalStep(r)
  <2>1. pc[r] \in ClaimPCs /\ UNCHANGED <<store, clock, first>>
    BY <1>3 DEF Get, ClaimPCs
  <2>2. CASE Same(r) /\ record.expiresAt <= req[r].now
             /\ Hold(r, record.id, record.status, "reclaimExpired")
    <3>1. record.id \in Nat /\ record.status \in RecordStatuses
            /\ "reclaimExpired" \in PCs
      BY DEF StoreType, PCs, ClaimPCs
    <3> QED
      BY <2>1, <2>2, <3>1, HoldFacts DEF LocalStep, Others, Timely, StoreType,
         ClaimPCs, RunPCs, Same
  <2> QED
    BY <1>2, <1>3, <2>1, <2>2, DecideLocal DEF Get
<1>4. ASSUME Reread(r) PROVE LocalStep(r)
  <2>1. pc[r] \in ClaimPCs /\ UNCHANGED <<store, clock, first>>
    BY <1>4 DEF Reread, ClaimPCs
  <2> QED
    BY <1>2, <1>4, <2>1, DecideLocal DEF Reread
<1>5. ASSUME ExecuteError(r) PROVE LocalStep(r)
  <2>1. "markFailed" \in PCs
    BY DEF PCs, RunPCs
  <2> QED
    BY <1>5, <2>1, GotoFacts DEF ExecuteError, LocalStep, Others, Timely,
       ClaimPCs, RunPCs
<1>6. ASSUME Abandon(r) PROVE LocalStep(r)
  BY <1>2, <1>6 DEF Abandon
<1> QED
  BY <1>1, <1>3, <1>4, <1>5, <1>6, LocalStepIInv

\* TryReclaim on a record that nobody executes and whose first window is over.
LEMMA TakeOver ==
  ASSUME IInv, NEW r \in Requests, NEW from \in RecordStatuses,
         pc[r] \in {"reclaimExpired", "reclaim"},
         TryReclaim(req[r].id, from, req[r].now, LockedUntil(r), ExpiresAt(r)),
         Goto(r, "execute"), UNCHANGED <<clock, first>>,
         \A s \in Requests : pc[s] \notin RunPCs,
         first.end <= clock
  PROVE  IInv'
<1> USE DEF IInv, TypeOK
<1>1. "execute" \in PCs /\ pc[r] \in ClaimPCs
  BY DEF PCs, RunPCs, ClaimPCs
<1>2. LockedUntil(r) \in Nat /\ ExpiresAt(r) \in Nat
  BY TimeAssumption DEF LockedUntil, ExpiresAt, RequestType
<1>3. StoreType' /\ Exists'
  BY <1>2 DEF StoreType, TryReclaim, Reclaimable, Exists, RecordStatuses
<1>4. ClaimStep(r)
  BY <1>1, <1>3, GotoFacts DEF ClaimStep, Others, TryReclaim, Reclaimable,
     Exists, StoreType, SamePayload
<1> QED
  BY <1>4, ClaimStepIInv

\* The three ways to claim the record.
LEMMA ClaimSteps ==
  ASSUME IInv, NEW r \in Requests, Create(r) \/ ReclaimExpired(r) \/ Reclaim(r)
  PROVE  IInv'
<1> USE DEF IInv, TypeOK
<1>0. ASSUME NEW l \in {"get", "reread"}, pc[r] \in ClaimPCs, Goto(r, l),
             UNCHANGED <<store, clock, first>>
      PROVE  IInv'
  <2>1. LocalStep(r)
    BY <1>0, GotoFacts DEF LocalStep, Others, Timely, PCs, ClaimPCs, RunPCs
  <2> QED
    BY <2>1, LocalStepIInv
<1>1. ASSUME Create(r) PROVE IInv'
  <2>1. CASE Exists /\ Goto(r, "get") /\ UNCHANGED store
    BY <1>0, <1>1, <2>1 DEF Create, ClaimPCs
  <2>2. CASE /\ CreateProcessing(req[r].payload, LockedUntil(r), ExpiresAt(r))
             /\ Hold(r, nextId, Processing, "execute")
    <3>1. LockedUntil(r) \in Nat /\ ExpiresAt(r) \in Nat
      BY TimeAssumption DEF LockedUntil, ExpiresAt, RequestType
    <3>2. StoreType' /\ Exists'
      BY <2>2, <3>1 DEF StoreType, CreateProcessing, Exists, RecordStatuses,
         RequestType
    <3>3. /\ nextId \in Nat /\ Processing \in RecordStatuses
          /\ "execute" \in PCs /\ pc[r] \in ClaimPCs
      BY <1>1 DEF StoreType, RecordStatuses, PCs, RunPCs, ClaimPCs, Create
    <3>4. \A s \in Requests : pc[s] \notin RunPCs
      BY <2>2 DEF Owns, CreateProcessing
    <3>5. first.end <= clock
      BY <2>2 DEF Window, CreateProcessing, HistoryType
    <3>6. ClaimStep(r)
      BY <1>1, <2>2, <3>2, <3>3, <3>4, <3>5, HoldFacts DEF ClaimStep, Others,
         CreateProcessing, Create
    <3> QED
      BY <3>6, ClaimStepIInv
  <2> QED
    BY <1>1, <2>1, <2>2 DEF Create
<1>2. ASSUME ReclaimExpired(r) PROVE IInv'
  <2>1. CASE Goto(r, "reread") /\ UNCHANGED store
    BY <1>0, <1>2, <2>1 DEF ReclaimExpired, ClaimPCs
  <2>2. CASE /\ TryReclaim(req[r].id, req[r].from, req[r].now, LockedUntil(r),
                           ExpiresAt(r))
             /\ Goto(r, "execute")
    <3>0. /\ clock \in Nat /\ first.end \in Nat /\ record.lockedUntil \in Nat
          /\ record.expiresAt \in Nat /\ record.status \in RecordStatuses
          /\ \A s \in Requests : req[s].now \in Nat
      BY DEF StoreType, HistoryType, RequestType
    <3>1. /\ pc[r] = "reclaimExpired" /\ Exists /\ record.id = req[r].id
          /\ req[r].from = record.status /\ record.lockedUntil <= req[r].now
      BY <1>2, <2>2 DEF ReclaimExpired, TryReclaim, Reclaimable
    <3>2. record.status = Processing => record.expiresAt <= clock
      BY <3>0, <3>1 DEF LateReader, Timely
    <3>3. \A s \in Requests : pc[s] \notin RunPCs
      BY <3>0, <3>2, TimeAssumption DEF Owns, Timely, ExpiresAt
    <3>4. first.end <= clock
      BY <3>0, <3>1, <3>2 DEF Window, LateReader, Timely, RecordStatuses
    <3>5. req[r].from \in RecordStatuses
      BY DEF RequestType
    <3> QED
      BY <1>2, <2>2, <3>1, <3>3, <3>4, <3>5, TakeOver DEF ReclaimExpired
  <2> QED
    BY <1>2, <2>1, <2>2 DEF ReclaimExpired
<1>3. ASSUME Reclaim(r) PROVE IInv'
  <2>1. CASE Answer(r, "idle") /\ UNCHANGED store
    <3>1. LocalStep(r)
      BY <1>3, <2>1, AnswerFacts DEF Reclaim, LocalStep, Others, Timely,
         StoreType, PCs, ClaimPCs, RunPCs
    <3> QED
      BY <3>1, LocalStepIInv
  <2>2. CASE /\ TryReclaim(req[r].id, FailedRetryable, req[r].now,
                           LockedUntil(r), ExpiresAt(r))
             /\ Goto(r, "execute")
    <3>1. Exists /\ record.status = FailedRetryable
      BY <2>2 DEF TryReclaim, Reclaimable
    <3>2. \A s \in Requests : pc[s] \notin RunPCs
      BY <3>1 DEF Owns, Processing, FailedRetryable
    <3>3. first.end <= clock
      BY <3>1 DEF Window, HistoryType
    <3> QED
      BY <1>3, <2>2, <3>2, <3>3, TakeOver DEF Reclaim, RecordStatuses
  <2> QED
    BY <1>3, <2>1, <2>2 DEF Reclaim
<1> QED
  BY <1>1, <1>2, <1>3

\* The operation takes effect: its record and its window become the first ones,
\* or were already, and then that window is over.
LEMMA ExecuteOkStep ==
  ASSUME IInv, NEW r \in Requests, ExecuteOk(r)
  PROVE  IInv'
<1> USE TimeAssumption DEF IInv, TypeOK, ExecuteOk, store
<1>0. /\ RequestType' /\ pc'[r] = "markSucceeded" /\ req' = req
      /\ \A s \in Requests \ {r} : pc'[s] = pc[s]
  BY GotoFacts DEF PCs, RunPCs
<1>1. /\ clock \in Nat /\ first.end \in Nat /\ ExpiresAt(r) \in Nat
      /\ req[r].id \in Nat /\ req[r].now \in Nat
      /\ req[r].payload \in Payloads \cup {NoPayload}
  BY DEF HistoryType, RequestType, ExpiresAt
<1>2. /\ Exists /\ record.id = req[r].id /\ record.status = Processing
      /\ record.expiresAt = ExpiresAt(r) /\ clock < ExpiresAt(r)
      /\ first.end <= clock
      /\ record.fingerprint = req[r].payload
      /\ \A s \in Requests \ {r} : pc[s] \notin RunPCs
  BY <1>1 DEF Owns, Timely, Window, OneExecutor, SamePayload, ExpiresAt, RunPCs
<1>3. HistoryType' /\ StoreType' /\ first'.id = record.id
      /\ first'.end <= ExpiresAt(r)
  BY <1>1, <1>2 DEF HistoryType, StoreType
<1>4. Timely'
  BY <1>0, <1>3 DEF Timely, StoreType, RunPCs, ClaimPCs
<1>5. Owns' /\ OneExecutor'
  BY <1>0, <1>2 DEF Owns, OneExecutor, Exists, ExpiresAt, RunPCs
<1>6. SamePayload'
  BY <1>0, <1>2 DEF SamePayload, Exists, RunPCs
<1>7. LateReader'
  BY <1>0, <1>2 DEF LateReader, Exists, Processing, Succeeded
<1>8. Window'
  <2>1. (Exists /\ record.status = Succeeded
           => first.id = record.id /\ first.end <= record.expiresAt)'
    BY <1>2 DEF Exists, Processing, Succeeded
  <2>2. (\A s \in Requests : pc[s] = "markSucceeded"
           => first.id = req[s].id /\ first.end <= ExpiresAt(s))'
    BY <1>0, <1>2, <1>3 DEF ExpiresAt, RunPCs
  <2>3. (first.end > clock =>
           /\ Exists /\ record.id = first.id /\ first.end <= record.expiresAt
           /\ record.status # FailedRetryable
           /\ \A s \in Requests : pc[s] \notin {"execute", "markFailed"})'
    BY <1>0, <1>2, <1>3 DEF Exists, RunPCs, Processing, FailedRetryable
  <2> QED
    BY <2>1, <2>2, <2>3 DEF Window
<1> QED
  BY <1>0, <1>3, <1>4, <1>5, <1>6, <1>7, <1>8

\* The executor writes its result to the record, which it still owns.
LEMMA WriteSteps ==
  ASSUME IInv, NEW r \in Requests, WriteSucceeded(r) \/ WriteFailed(r)
  PROVE  IInv'
<1> USE TimeAssumption DEF IInv, TypeOK
<1> DEFINE lock == IF pc[r] = "markSucceeded" THEN 0
                   ELSE clock + FailedRetryBackoff
           st == IF pc[r] = "markSucceeded" THEN Succeeded ELSE FailedRetryable
<1>0. /\ RequestType' /\ pc'[r] = "idle" /\ req'[r].id = 0
      /\ req'[r].now = req[r].now /\ Others(r)
  BY AnswerFacts DEF WriteSucceeded, WriteFailed, PCs, Others
<1>1. /\ pc[r] \in {"markSucceeded", "markFailed"}
      /\ UNCHANGED <<clock, first, nextId>>
  BY DEF WriteSucceeded, WriteFailed, MarkSucceeded, MarkFailedRetryable, Mark
<1>2. /\ Exists /\ record.id = req[r].id /\ record.expiresAt = ExpiresAt(r)
      /\ \A s \in Requests \ {r} : pc[s] \notin RunPCs
  BY <1>1 DEF Owns, OneExecutor, RunPCs
<1>3. record' = [record EXCEPT !.status = st, !.lockedUntil = lock,
                               !.expiresAt = ExpiresAt(r)]
  BY <1>2 DEF WriteSucceeded, WriteFailed, MarkSucceeded, MarkFailedRetryable,
     Mark
<1>4. lock \in Nat /\ st \in {Succeeded, FailedRetryable} /\ ExpiresAt(r) \in Nat
  BY DEF HistoryType, RequestType, ExpiresAt
<1>5. StoreType' /\ HistoryType'
  BY <1>1, <1>3, <1>4 DEF StoreType, HistoryType, RecordStatuses
<1>6. /\ record'.id = record.id /\ record'.status = st /\ Exists'
      /\ record'.fingerprint = record.fingerprint
      /\ record'.expiresAt = record.expiresAt
  BY <1>2, <1>3 DEF StoreType, Exists
<1>7. Timely'
  BY <1>0, <1>1 DEF Timely, StoreType, RunPCs, ClaimPCs, Others
<1>8. Owns' /\ OneExecutor'
  BY <1>0, <1>2 DEF Owns, OneExecutor, RunPCs, Others
<1>9. SamePayload'
  BY <1>0, <1>1, <1>2, <1>6 DEF SamePayload, RunPCs, Others
<1>10. LateReader'
  BY <1>0, <1>1, <1>2, <1>4, <1>6 DEF LateReader, Others, Processing, Succeeded,
     FailedRetryable
<1>11. Window'
  <2>1. CASE pc[r] = "markSucceeded"
    <3>1. first.id = record.id /\ first.end <= record.expiresAt
      BY <1>2, <2>1 DEF Window
    <3>2. st = Succeeded /\ Succeeded # FailedRetryable
      BY <2>1 DEF Succeeded, FailedRetryable
    <3>3. \A s \in Requests : pc'[s] \notin RunPCs
      BY <1>0, <1>2 DEF Others, RunPCs
    <3> QED
      BY <1>1, <1>6, <3>1, <3>2, <3>3 DEF Window, RunPCs
  <2>2. CASE pc[r] = "markFailed"
    <3>1. ~(first.end > clock)
      BY <2>2 DEF Window
    <3>2. st = FailedRetryable /\ Succeeded # FailedRetryable
      BY <2>2 DEF Succeeded, FailedRetryable
    <3>3. \A s \in Requests : pc'[s] \notin RunPCs
      BY <1>0, <1>2 DEF Others, RunPCs
    <3> QED
      BY <1>1, <1>6, <3>1, <3>2, <3>3 DEF Window, RunPCs
  <2> QED
    BY <1>1, <2>1, <2>2
<1> QED
  BY <1>0, <1>5, <1>7, <1>8, <1>9, <1>10, <1>11

\* An expired record has no executor and no window that lasts.
LEMMA CleanupStep == ASSUME IInv, Cleanup PROVE IInv'
<1> USE TimeAssumption DEF IInv, TypeOK, Cleanup, DeleteExpired, NoRecord
<1>0. /\ clock \in Nat /\ first.end \in Nat /\ record.expiresAt \in Nat
      /\ \A s \in Requests : req[s].now \in Nat
  BY DEF HistoryType, RequestType, StoreType
<1>1. \A s \in Requests : pc[s] \notin RunPCs
  BY <1>0 DEF Owns, Timely, ExpiresAt
<1>2. first.end <= clock
  BY <1>0 DEF Window
<1>3. TypeOK' /\ ~Exists'
  BY DEF StoreType, RequestType, HistoryType, RecordStatuses, Exists
<1>4. Timely'
  BY DEF Timely
<1>5. Owns' /\ OneExecutor'
  BY <1>1 DEF Owns, OneExecutor
<1>6. SamePayload' /\ LateReader'
  BY <1>3 DEF SamePayload, LateReader
<1>7. Window'
  BY <1>0, <1>1, <1>2, <1>3 DEF Window, RunPCs
<1> QED
  BY <1>3, <1>4, <1>5, <1>6, <1>7

\* Time only ends windows.
LEMMA TickStep == ASSUME IInv, Tick PROVE IInv'
<1> USE DEF IInv, TypeOK, Tick, store
<1>0. /\ clock \in Nat /\ first.end \in Nat
      /\ \A s \in Requests : req[s].now \in Nat
  BY DEF HistoryType, RequestType
<1>1. TypeOK'
  BY DEF StoreType, RequestType, HistoryType
<1>2. Timely'
  BY <1>0 DEF Timely
<1>3. Owns' /\ OneExecutor'
  BY DEF Owns, OneExecutor, Exists, ExpiresAt
<1>4. SamePayload' /\ LateReader'
  BY DEF SamePayload, LateReader, Exists
<1>5. Window'
  BY <1>0 DEF Window, Exists, ExpiresAt
<1> QED
  BY <1>1, <1>2, <1>3, <1>4, <1>5

\* Every step preserves IInv.
LEMMA NextIInv == IInv /\ [Next]_vars => IInv'
<1> SUFFICES ASSUME IInv, [Next]_vars PROVE IInv'
  OBVIOUS
<1>1. ASSUME NEW r \in Requests, Serve(r) \/ \E p \in Payloads : Begin(r, p)
      PROVE  IInv'
  BY <1>1, ReadSteps, ClaimSteps, ExecuteOkStep, WriteSteps DEF Serve
<1>2. CASE UNCHANGED vars
  BY <1>2 DEF vars, store, IInv, TypeOK, StoreType, RequestType, HistoryType,
     Timely, Owns, OneExecutor, SamePayload, LateReader, Window, Exists,
     ExpiresAt
<1> QED
  BY <1>1, <1>2, CleanupStep, TickStep DEF Next

\* IInv is an invariant of the specification.
LEMMA IInvHolds == Spec => []IInv
  BY InitIInv, NextIInv, PTL DEF Spec

-----------------------------------------------------------------------------
(* Theorems *)

\* The record, the requests and the history keep their types.
THEOREM TypeCorrect == Spec => []TypeOK
<1>1. IInv => TypeOK
  BY DEF IInv
<1> QED
  BY <1>1, IInvHolds, PTL

\* However many requests with one key race, fail, are abandoned and retried, the
\* operation is executed by one of them at a time.
THEOREM SingleExecutor == Spec => []OneExecutor
<1>1. IInv => OneExecutor
  BY DEF IInv
<1> QED
  BY <1>1, IInvHolds, PTL

\* An operation that took effect for a record is not executed again as long as the
\* window of that success lasts.
THEOREM OncePerWindow == Spec => []RunsOncePerWindow
<1>1. IInv => RunsOncePerWindow
  BY DEF IInv, TypeOK, HistoryType, Window, RunsOncePerWindow
<1> QED
  BY <1>1, IInvHolds, PTL

\* Only what an operation answered to the same payload is replayed.
THEOREM ReplayFaithful == Spec => ReplayIsForThePayload
<1>1. ASSUME IInv, Next, NEW r \in Requests, Replays(r)
      PROVE  record.id = first.id /\ req[r].payload = first.payload
  <2> USE DEF IInv, TypeOK
  <2>1. ASSUME NEW s \in Requests, NEW l, l # "replayed",
               pc' = [pc EXCEPT ![s] = l]
        PROVE  FALSE
    BY <1>1, <2>1 DEF Replays, RequestType
  <2>2. ASSUME NEW s \in Requests, Same(s), Decide(s)
        PROVE  record.id = first.id /\ req[r].payload = first.payload
    <3>1. s = r /\ Exists /\ record.status = Succeeded
      <4>1. record.status = Succeeded /\ pc' = [pc EXCEPT ![s] = "replayed"]
        BY <2>1, <2>2 DEF Decide, Answer, Hold
      <4>2. s = r
        BY <1>1, <4>1 DEF Replays, RequestType
      <4> QED
        BY <2>2, <4>1, <4>2 DEF Same
    <3>2. record.id = first.id
      BY <1>1, <3>1 DEF Window
    <3>3. record.fingerprint = first.payload
      BY <1>1, <3>1, <3>2 DEF SamePayload
    <3> QED
      BY <2>2, <3>1, <3>2, <3>3 DEF Same
  <2>3. ASSUME NEW s \in Requests, Get(s) \/ Reread(s)
        PROVE  record.id = first.id /\ req[r].payload = first.payload
    BY <2>1, <2>2, <2>3 DEF Get, Reread, Answer, Hold
  <2>4. ASSUME NEW s \in Requests,
               Create(s) \/ ReclaimExpired(s) \/ Reclaim(s) \/ ExecuteOk(s)
                 \/ ExecuteError(s) \/ WriteSucceeded(s) \/ WriteFailed(s)
                 \/ Abandon(s) \/ \E p \in Payloads : Begin(s, p)
        PROVE  FALSE
    BY <2>1, <2>4 DEF Create, ReclaimExpired, Reclaim, ExecuteOk, ExecuteError,
       WriteSucceeded, WriteFailed, Abandon, Begin, Goto, Hold, Answer
  <2>5. ASSUME Cleanup \/ Tick PROVE FALSE
    BY <1>1, <2>5 DEF Cleanup, Tick, Replays
  <2> QED
    BY <1>1, <2>3, <2>4, <2>5 DEF Next, Serve
<1>2. IInv /\ [Next]_vars => [ReplaysTheFirst]_vars
  BY <1>1 DEF ReplaysTheFirst
<1> QED
  BY <1>2, IInvHolds, PTL DEF Spec, ReplayIsForThePayload
=============================================================================
