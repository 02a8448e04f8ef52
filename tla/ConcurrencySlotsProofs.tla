----------------------- MODULE ConcurrencySlotsProofs -----------------------
(***************************************************************************)
(* TLAPS proofs about ConcurrencySlots, for any finite set of requests, any *)
(* processes, limits and number of faults.                                 *)
(*                                                                         *)
(* Lemmas first say what a step can do to the slots and to the wait        *)
(* counter; the invariants about cardinalities are proved from those.      *)
(***************************************************************************)
EXTENDS ConcurrencySlots, FiniteSetTheorems, TLAPS

RequestType == pc \in [Requests -> PCs] /\ job \in [Requests -> Jobs]

\* The part of TypeOK that does not count.
BaseType ==
  /\ held \subseteq Requests /\ wait \in 0..MaxWait
  /\ index \in {"absent", "ahead", "past"} /\ marker \in BOOLEAN
  /\ RequestType
  /\ boot \in [Processes -> BootPCs] /\ sweep \in [Processes -> SweepPCs]
  /\ starts \in 0..MaxStarts /\ faults \in 0..MaxFaults
  /\ leaked \in Nat /\ missing \in Nat /\ unindexed \in BOOLEAN
  /\ alone \in Processes \cup {None}

\* The slots that are taken are within the limit.
CountType == orphans \in Nat /\ Count <= Limit

\* What the position of a request says about its job: a request that runs has
\* acquired a slot, and the ones that are to be taken off the wait counter are
\* in the queue or have just left it.
Consistent(label, j) ==
  /\ label \in {"touch", "run"} => j.got
  /\ j.counted => label \in {"touchWait", "wait", "touch", "dequeue"}
  /\ label \in {"touchWait", "wait", "dequeue"} => j.counted

\* The entry of a request that has a slot is there, unless it expired or another
\* process removed it.
RequestFacts ==
  \A r \in Requests :
    /\ Consistent(pc[r], job[r])
    /\ job[r].got /\ ~job[r].lost => r \in held

IInv == BaseType /\ CountType /\ RequestFacts /\ WaitCountAddsUp

\* What a step can do to the slots.
SlotStep ==
  \/ UNCHANGED <<held, orphans>>
  \/ \E r \in Requests : held' = held \cup {r} /\ Count < Limit
                         /\ UNCHANGED orphans
  \/ UNCHANGED held /\ orphans' = orphans + 1 /\ Count < Limit
  \/ UNCHANGED held /\ orphans > 0 /\ orphans' = orphans - 1
  \/ held' \subseteq held
     /\ orphans' \in {0, orphans, Count - Cardinality(held')}

\* What a step can do to the counter: nothing, delete it, let a request join or
\* leave the queue, counted or not, and take away the requests of a process.
WaitStep ==
  \/ UNCHANGED <<wait, ledger>> /\ Queued' = Queued
  \/ Wipe /\ Queued' = Queued
  \/ \E r \in Requests \ Queued :
       /\ Queued' = Queued \cup {r}
       /\ \/ wait' = wait + 1 /\ (UNCHANGED ledger \/ Note(0, 0))
          \/ UNCHANGED wait /\ Note(0, 1)
  \/ \E r \in Queued :
       /\ Queued' = Queued \ {r}
       /\ \/ wait' = (IF wait > 0 THEN wait - 1 ELSE 0) /\ Note(0, 0)
          \/ UNCHANGED wait /\ Note(1, 0)
  \/ \E died : /\ UNCHANGED wait /\ Queued' = Queued \ died
               /\ Note(Cardinality(Queued \cap died), 0)

\* A request moves on, with its job and its entry as they must be.
Move(r, label, j) ==
  /\ GotoWith(r, label, j) /\ label \in PCs /\ j \in Jobs
  /\ Consistent(label, j)
  /\ j.got /\ ~j.lost => r \in held'
  /\ held \ {r} \subseteq held'

\* What a step can do to the requests.
RequestStep ==
  \/ UNCHANGED <<pc, job>> /\ held \subseteq held'
  \/ \E r \in Requests : \E label, j : Move(r, label, j)
  \/ \E p \in Processes : CleanupSlots(p) \/ Crash(p)

USE SlotsAssumption DEF redis, ledger, history, Processing

-----------------------------------------------------------------------------
(* Cardinalities *)

\* The requests that wait are finitely many.
LEMMA QueuedFinite == Queued \subseteq Requests /\ IsFiniteSet(Queued)
<1>1. Queued \subseteq Requests
  BY DEF Queued
<1> QED
  BY <1>1, FS_Subset

\* A step keeps the slots within the limit.
LEMMA CountStep ==
  ASSUME held \subseteq Requests, CountType, SlotStep
  PROVE  CountType'
<1>1. IsFiniteSet(held) /\ Cardinality(held) \in Nat
  BY FS_Subset, FS_CardinalityType
<1>2. CASE UNCHANGED <<held, orphans>>
  BY <1>2 DEF CountType, Count
<1>3. ASSUME NEW r \in Requests, held' = held \cup {r}, Count < Limit,
             UNCHANGED orphans
      PROVE  CountType'
  <2>1. Cardinality(held \cup {r}) = IF r \in held THEN Cardinality(held)
                                     ELSE Cardinality(held) + 1
    BY <1>1, FS_AddElement, Zenon
  <2> QED
    BY <1>1, <1>3, <2>1 DEF CountType, Count
<1>4. CASE UNCHANGED held /\ orphans' = orphans + 1 /\ Count < Limit
  BY <1>1, <1>4 DEF CountType, Count
<1>5. CASE UNCHANGED held /\ orphans > 0 /\ orphans' = orphans - 1
  BY <1>1, <1>5 DEF CountType, Count
<1>6. CASE held' \subseteq held
           /\ orphans' \in {0, orphans, Count - Cardinality(held')}
  <2>1. Cardinality(held') <= Cardinality(held) /\ Cardinality(held') \in Nat
    BY <1>1, <1>6, FS_Subset, FS_CardinalityType
  <2> QED
    BY <1>1, <1>6, <2>1 DEF CountType, Count
<1> QED
  BY <1>2, <1>3, <1>4, <1>5, <1>6 DEF SlotStep

\* A step does not move the counter without a record of it.
LEMMA AddsUpStep ==
  ASSUME wait \in Nat, leaked \in Nat, missing \in Nat, WaitCountAddsUp,
         WaitStep
  PROVE  WaitCountAddsUp' /\ leaked' \in Nat /\ missing' \in Nat
<1> DEFINE n == Cardinality(Queued)
           m == Cardinality(Queued')
<1>0. IsFiniteSet(Queued) /\ n \in Nat
  BY QueuedFinite, FS_CardinalityType
<1>1. wait <= n + leaked /\ n <= wait + missing
  BY DEF WaitCountAddsUp
<1>3. SUFFICES /\ wait' <= m + leaked' /\ m <= wait' + missing'
               /\ leaked' \in Nat /\ missing' \in Nat
  BY DEF WaitCountAddsUp
<1>4. CASE UNCHANGED <<wait, ledger>> /\ Queued' = Queued
  BY <1>1, <1>4
<1>5. CASE Wipe /\ Queued' = Queued
  BY <1>0, <1>5 DEF Wipe
<1>6. ASSUME NEW r \in Requests \ Queued, Queued' = Queued \cup {r},
             \/ wait' = wait + 1 /\ (UNCHANGED ledger \/ Note(0, 0))
             \/ UNCHANGED wait /\ Note(0, 1)
      PROVE  /\ wait' <= m + leaked' /\ m <= wait' + missing'
             /\ leaked' \in Nat /\ missing' \in Nat
  <2>1. m = n + 1
    BY <1>0, <1>6, FS_AddElement
  <2>2. \A i, j \in Nat : Note(i, j) => /\ leaked' = Least(wait', leaked + i)
                                      /\ missing' = Least(m, missing + j)
    BY DEF Note
  <2> HIDE DEF n, m
  <2> QED
    BY <1>0, <1>1, <1>6, <2>1, <2>2 DEF Least
<1>7. ASSUME NEW r \in Queued, Queued' = Queued \ {r},
             \/ wait' = (IF wait > 0 THEN wait - 1 ELSE 0) /\ Note(0, 0)
             \/ UNCHANGED wait /\ Note(1, 0)
      PROVE  /\ wait' <= m + leaked' /\ m <= wait' + missing'
             /\ leaked' \in Nat /\ missing' \in Nat
  <2>1. m = n - 1
    BY <1>0, <1>7, FS_RemoveElement
  <2>2. n > 0
    BY <1>0, <1>7, FS_EmptySet
  <2>3. \A i, j \in Nat : Note(i, j) => /\ leaked' = Least(wait', leaked + i)
                                      /\ missing' = Least(m, missing + j)
    BY DEF Note
  <2> HIDE DEF n, m
  <2> QED
    BY <1>0, <1>1, <1>7, <2>1, <2>2, <2>3 DEF Least
<1>8. ASSUME NEW died, UNCHANGED wait, Queued' = Queued \ died,
             Note(Cardinality(Queued \cap died), 0)
      PROVE  /\ wait' <= m + leaked' /\ m <= wait' + missing'
             /\ leaked' \in Nat /\ missing' \in Nat
  <2> DEFINE k == Cardinality(Queued \cap died)
  <2>1. m = n - k
    BY <1>0, <1>8, FS_Difference
  <2>2. k \in Nat /\ k <= n
    <3>1. Queued \cap died \subseteq Queued
      OBVIOUS
    <3> QED
      BY <1>0, <3>1, FS_Subset, FS_CardinalityType
  <2>3. leaked' = Least(wait', leaked + k) /\ missing' = Least(m, missing + 0)
    BY <1>8 DEF Note
  <2> HIDE DEF n, m, k
  <2> QED
    BY <1>0, <1>1, <1>8, <2>1, <2>2, <2>3 DEF Least
<1> HIDE DEF n, m
<1> QED
  BY <1>4, <1>5, <1>6, <1>7, <1>8 DEF WaitStep

-----------------------------------------------------------------------------
(* What a step can do *)

\* Every step changes the slots in one of the ways of SlotStep.
LEMMA SlotSteps ==
  ASSUME BaseType, orphans \in Nat, [Next]_vars
  PROVE  SlotStep
<1> USE DEF SlotStep
<1>1. ASSUME NEW r \in Requests, Serve(r)
      PROVE  SlotStep
  BY <1>1 DEF Serve, Begin, AcquireSlot, Acquire, TouchActiveIndex,
     IncrementWaitCount, StopWaiting, DecrementWaitCount, Done, ReleaseSlot,
     ReadActiveLoad, RefreshActiveIndex
<1>2. ASSUME NEW r \in Requests, RequestFails(r) \/ SlotExpires(r)
      PROVE  SlotStep
  BY <1>2 DEF RequestFails, AcquireFails, IndexFails, IncrementFails,
     DecrementFails, ReleaseFails, SlotExpires
<1>3. ASSUME NEW p \in Processes, StartUp(p)
      PROVE  SlotStep
  BY <1>3 DEF StartUp, Start, CheckLegacyMarker, SweepLegacyWaitKeys,
     SetMarker, AllIndexMembers, CleanupSlots, DeleteWaitKey, RemoveIndexMember
<1>4. ASSUME NEW p \in Processes,
             \/ BootFails(p) \/ Crash(p) \/ ListExpired(p)
             \/ ReadIndexLoads(p) \/ Reconcile(p) \/ SweepFails(p)
      PROVE  SlotStep
  BY <1>4 DEF BootFails, Crash, ListExpired, ReadIndexLoads, Reconcile,
     SweepFails, SweepRest
<1>5. CASE OrphanExpires \/ WaitCountExpires \/ IndexScorePasses
  BY <1>5 DEF OrphanExpires, WaitCountExpires, IndexScorePasses
<1>6. CASE UNCHANGED vars
  BY <1>6 DEF vars
<1> QED
  BY <1>1, <1>2, <1>3, <1>4, <1>5, <1>6 DEF Next

\* The changes that a move makes to the job.
Fresh(p) == [NoJob EXCEPT !.proc = p]
Got(j, b) == [j EXCEPT !.got = b]
Counted(j, b) == [j EXCEPT !.counted = b]
Saw(j, b) == [j EXCEPT !.empty = b]
Lost(j) == [j EXCEPT !.lost = TRUE]

\* Changing one field leaves the others.
LEMMA JobFields ==
  /\ NoJob \in Jobs /\ ~NoJob.got /\ ~NoJob.counted
  /\ \A p \in Processes :
       Fresh(p) \in Jobs /\ ~Fresh(p).got /\ ~Fresh(p).counted
  /\ \A j \in Jobs :
       /\ j.got \in BOOLEAN /\ j.counted \in BOOLEAN /\ j.lost \in BOOLEAN
       /\ Lost(j) \in Jobs /\ Lost(j).lost
       /\ Lost(j).got = j.got /\ Lost(j).counted = j.counted
       /\ \A b \in BOOLEAN :
            /\ Got(j, b) \in Jobs /\ Got(j, b).got = b
            /\ Got(j, b).counted = j.counted /\ Got(j, b).lost = j.lost
            /\ Counted(j, b) \in Jobs /\ Counted(j, b).counted = b
            /\ Counted(j, b).got = j.got /\ Counted(j, b).lost = j.lost
            /\ Saw(j, b) \in Jobs /\ Saw(j, b).got = j.got
            /\ Saw(j, b).counted = j.counted /\ Saw(j, b).lost = j.lost
  BY DEF Jobs, NoJob, Fresh, Got, Counted, Saw, Lost

\* A move that keeps the job is a move with that job.
LEMMA GotoIsGotoWith ==
  ASSUME RequestType, NEW r \in Requests, NEW label, Goto(r, label)
  PROVE  GotoWith(r, label, job[r])
  BY DEF RequestType, Goto, GotoWith

\* What a move leaves.
LEMMA Moved ==
  ASSUME RequestType, NEW r \in Requests, NEW label \in PCs, NEW j \in Jobs,
         GotoWith(r, label, j)
  PROVE  /\ RequestType' /\ pc'[r] = label /\ job'[r] = j
         /\ \A q \in Requests \ {r} : pc'[q] = pc[q] /\ job'[q] = job[q]
  BY DEF RequestType, GotoWith

\* Every step of a request is a move.
LEMMA RequestSteps ==
  ASSUME BaseType, RequestFacts, [Next]_vars
  PROVE  RequestStep
<1> DEFINE MoveOf(r) == \E label, j : Move(r, label, j)
<1>a. RequestType /\ held \subseteq Requests
  BY DEF BaseType
<1>b. \A r \in Requests : job[r] \in Jobs
  BY <1>a DEF RequestType
<1> USE DEF RequestFacts, Consistent, Move, PCs
<1>1. ASSUME NEW r \in Requests, Serve(r)
      PROVE  MoveOf(r)
  <2>0. \A label : Goto(r, label) => GotoWith(r, label, job[r])
    BY <1>a, GotoIsGotoWith
  <2>1. CASE \E p \in Processes : Begin(r, p)
    <3>1. PICK p \in Processes :
            GotoWith(r, "try", Fresh(p)) /\ UNCHANGED held
      BY <2>1 DEF Begin, Fresh
    <3> QED
      BY <3>1, JobFields
  <2>2. CASE AcquireSlot(r)
    <3>1. \/ /\ GotoWith(r, "touch", Got(job[r], TRUE))
             /\ pc[r] \in {"try", "wait"} /\ held' = held \cup {r}
          \/ Goto(r, "enqueue") /\ pc[r] = "try" /\ UNCHANGED held
      BY <2>2 DEF AcquireSlot, Acquire, Got
    <3> QED
      BY <1>b, <2>0, <3>1, JobFields
  <2>3. CASE TouchActiveIndex(r)
    BY <1>b, <2>0, <2>3, JobFields DEF TouchActiveIndex, AfterTouch
  <2>4. CASE IncrementWaitCount(r)
    <3>1. /\ pc[r] = "enqueue" /\ UNCHANGED held
          /\ \/ GotoWith(r, "touchWait", Counted(job[r], TRUE))
             \/ GotoWith(r, "idle", NoJob)
      BY <2>4 DEF IncrementWaitCount, End, Counted
    <3> QED
      BY <1>b, <3>1, JobFields
  <2>5. CASE StopWaiting(r) \/ Done(r)
    BY <1>b, <2>0, <2>5, JobFields DEF StopWaiting, Done
  <2>6. CASE DecrementWaitCount(r)
    <3>1. GotoWith(r, "read", Counted(job[r], FALSE)) /\ UNCHANGED held
      BY <2>6 DEF DecrementWaitCount, Counted
    <3> QED
      BY <1>b, <3>1, JobFields
  <2>7. CASE ReleaseSlot(r)
    <3>1. /\ GotoWith(r, "read", Got(job[r], FALSE)) /\ pc[r] = "release"
          /\ held' = held \ {r}
      BY <2>7 DEF ReleaseSlot, Got
    <3>2. ~job[r].counted
      BY <3>1
    <3>3. /\ Got(job[r], FALSE) \in Jobs /\ ~Got(job[r], FALSE).got
          /\ ~Got(job[r], FALSE).counted
      BY <1>b, <3>2, JobFields
    <3> QED
      BY <3>1, <3>3
  <2>8. CASE ReadActiveLoad(r)
    <3>1. /\ GotoWith(r, "write", Saw(job[r], Load = 0)) /\ pc[r] = "read"
          /\ UNCHANGED held
      BY <2>8 DEF ReadActiveLoad, Saw
    <3>2. ~job[r].counted
      BY <3>1
    <3>3. ASSUME NEW b \in BOOLEAN, GotoWith(r, "write", Saw(job[r], b))
          PROVE  MoveOf(r)
      <4>1. /\ Saw(job[r], b) \in Jobs /\ Saw(job[r], b).got = job[r].got
            /\ ~Saw(job[r], b).counted /\ Saw(job[r], b).lost = job[r].lost
        BY <1>b, <3>2, JobFields
      <4> QED
        BY <3>1, <3>3, <4>1
    <3> QED
      BY <3>1, <3>3
  <2>9. CASE RefreshActiveIndex(r)
    <3>1. Resume(r, Saw(job[r], FALSE)) /\ pc[r] = "write" /\ UNCHANGED held
      BY <2>9 DEF RefreshActiveIndex, Saw
    <3>2. ~job[r].counted
      BY <3>1
    <3>3. /\ Saw(job[r], FALSE) \in Jobs
          /\ Saw(job[r], FALSE).got = job[r].got
          /\ ~Saw(job[r], FALSE).counted
          /\ Saw(job[r], FALSE).lost = job[r].lost
      BY <1>b, <3>2, JobFields
    <3> QED
      BY <1>b, <3>1, <3>3, JobFields DEF Resume, End
  <2> QED
    BY <1>1, <2>1, <2>2, <2>3, <2>4, <2>5, <2>6, <2>7, <2>8, <2>9 DEF Serve
<1>2. ASSUME NEW r \in Requests, RequestFails(r) \/ SlotExpires(r)
      PROVE  MoveOf(r)
  <2>0. \A label : Goto(r, label) => GotoWith(r, label, job[r])
    BY <1>a, GotoIsGotoWith
  <2>1. CASE AcquireFails(r)
    BY <1>b, <2>0, <2>1, JobFields DEF AcquireFails, End
  <2>2. CASE IndexFails(r)
    <3>1. /\ UNCHANGED held
          /\ \/ pc[r] = "touch" /\ AfterTouch(r)
             \/ pc[r] = "touchWait" /\ Goto(r, "wait")
             \/ pc[r] \in {"read", "write"} /\ Resume(r, Saw(job[r], FALSE))
      BY <2>2 DEF IndexFails, Saw
    <3> QED
      BY <1>b, <2>0, <3>1, JobFields DEF AfterTouch, Resume, End
  <2>3. CASE IncrementFails(r)
    <3>1. /\ pc[r] = "enqueue" /\ UNCHANGED held
          /\ GotoWith(r, "wait", Counted(job[r], TRUE))
      BY <2>3 DEF IncrementFails, Counted
    <3> QED
      BY <1>b, <3>1, JobFields
  <2>4. CASE DecrementFails(r)
    <3>1. Resume(r, Counted(job[r], FALSE)) /\ UNCHANGED held
      BY <2>4 DEF DecrementFails, Counted
    <3> QED
      BY <1>b, <3>1, JobFields DEF Resume, End
  <2>5. CASE ReleaseFails(r)
    BY <1>b, <2>5, JobFields DEF ReleaseFails, End
  <2>6. CASE SlotExpires(r)
    <3>1. /\ GotoWith(r, "run", Lost(job[r])) /\ pc[r] = "run"
          /\ held' = held \ {r}
      BY <2>6 DEF SlotExpires, Lost
    <3> QED
      BY <1>b, <3>1, JobFields
  <2> QED
    BY <1>2, <2>1, <2>2, <2>3, <2>4, <2>5, <2>6 DEF RequestFails
<1>3. ASSUME NEW p \in Processes, StartUp(p), ~CleanupSlots(p)
      PROVE  UNCHANGED <<pc, job, held>>
  BY <1>3 DEF StartUp, Start, CheckLegacyMarker, SweepLegacyWaitKeys,
     SetMarker, AllIndexMembers, DeleteWaitKey, RemoveIndexMember, BootRest
<1>4. ASSUME NEW p \in Processes,
             \/ BootFails(p) \/ ListExpired(p)
             \/ ReadIndexLoads(p) \/ Reconcile(p) \/ SweepFails(p)
      PROVE  UNCHANGED <<pc, job, held>>
  BY <1>4 DEF BootFails, ListExpired, ReadIndexLoads, Reconcile, SweepFails,
     SweepRest
<1>5. CASE OrphanExpires \/ WaitCountExpires \/ IndexScorePasses
           \/ UNCHANGED vars
  <2>1. UNCHANGED <<pc, job, held>>
    BY <1>5 DEF OrphanExpires, WaitCountExpires, IndexScorePasses, vars
  <2> QED
    BY <2>1 DEF RequestStep
<1> QED
  BY <1>1, <1>2, <1>3, <1>4, <1>5 DEF Next, RequestStep

-----------------------------------------------------------------------------
(* The invariant is inductive *)

\* The requests keep their types and facts.
LEMMA RequestInductive ==
  ASSUME BaseType, RequestFacts, [Next]_vars
  PROVE  RequestType' /\ RequestFacts'
<1>a. RequestType /\ held \subseteq Requests
  BY DEF BaseType
<1>b. \A r \in Requests : job[r] \in Jobs
  BY <1>a DEF RequestType
<1>1. CASE UNCHANGED <<pc, job>> /\ held \subseteq held'
  BY <1>a, <1>1 DEF RequestType, RequestFacts
<1>2. ASSUME NEW r \in Requests, NEW label, NEW j, Move(r, label, j)
      PROVE  RequestType' /\ RequestFacts'
  <2>1. /\ RequestType' /\ pc'[r] = label /\ job'[r] = j
        /\ \A q \in Requests \ {r} : pc'[q] = pc[q] /\ job'[q] = job[q]
    BY <1>a, <1>2, Moved DEF Move
  <2> QED
    BY <1>2, <2>1 DEF Move, RequestFacts
<1>3. ASSUME NEW p \in Processes, CleanupSlots(p)
      PROVE  RequestType' /\ RequestFacts'
  <2>1. /\ UNCHANGED pc
        /\ job' = [r \in Requests |->
                     IF r \in held THEN Lost(job[r]) ELSE job[r]]
    BY <1>3 DEF CleanupSlots, BootRest, Lost
  <2>2. \A r \in Requests :
          /\ job'[r] \in Jobs /\ job'[r].got = job[r].got
          /\ job'[r].counted = job[r].counted
          /\ job'[r].lost = (job[r].lost \/ r \in held)
    BY <1>b, <2>1, JobFields
  <2> QED
    BY <1>a, <2>1, <2>2 DEF RequestType, RequestFacts, Consistent
<1>4. ASSUME NEW p \in Processes, Crash(p)
      PROVE  RequestType' /\ RequestFacts'
  <2> DEFINE died == {r \in Requests : job[r].proc = p}
  <2>1. /\ pc' = [r \in Requests |-> IF r \in died THEN "idle" ELSE pc[r]]
        /\ job' = [r \in Requests |-> IF r \in died THEN NoJob ELSE job[r]]
        /\ held' = held \ died
    BY <1>4 DEF Crash
  <2> QED
    BY <1>a, <1>b, <2>1, JobFields DEF RequestType, RequestFacts, Consistent,
       PCs
<1> QED
  BY <1>1, <1>2, <1>3, <1>4, RequestSteps DEF RequestStep

\* What a move does to the queue depends on counted alone.
LEMMA QueueMove ==
  ASSUME RequestType, NEW r \in Requests, NEW label \in PCs, NEW j \in Jobs,
         GotoWith(r, label, j)
  PROVE  /\ (j.counted <=> job[r].counted) => Queued' = Queued
         /\ j.counted /\ ~job[r].counted
            => r \notin Queued /\ Queued' = Queued \cup {r}
         /\ ~j.counted /\ job[r].counted
            => r \in Queued /\ Queued' = Queued \ {r}
<1>1. /\ job'[r] = j
      /\ \A q \in Requests \ {r} : job'[q] = job[q]
  BY Moved
<1>2. Queued' = {q \in Requests : job'[q].counted}
  BY DEF Queued
<1> QED
  BY <1>1, <1>2 DEF Queued

\* A request that is not counted and moves on uncounted leaves the queue alone.
LEMMA Uncounted ==
  ASSUME RequestType, NEW r \in Requests, NEW label \in PCs, ~job[r].counted
  PROVE  /\ GotoWith(r, label, NoJob) => Queued' = Queued
         /\ \A p \in Processes :
              GotoWith(r, label, Fresh(p)) => Queued' = Queued
<1>1. NoJob \in Jobs /\ ~NoJob.counted
  BY JobFields
<1>2. GotoWith(r, label, NoJob) => Queued' = Queued
  BY <1>1, QueueMove
<1>3. ASSUME NEW p \in Processes, GotoWith(r, label, Fresh(p))
      PROVE  Queued' = Queued
  <2>1. Fresh(p) \in Jobs /\ ~Fresh(p).counted
    BY JobFields
  <2> QED
    BY <1>3, <2>1, QueueMove
<1> QED
  BY <1>2, <1>3

\* So does one whose job changes in another field.
LEMMA SameCounted ==
  ASSUME RequestType, NEW r \in Requests, NEW label \in PCs, NEW b \in BOOLEAN
  PROVE  /\ GotoWith(r, label, Got(job[r], b)) => Queued' = Queued
         /\ GotoWith(r, label, Saw(job[r], b)) => Queued' = Queued
         /\ GotoWith(r, label, Lost(job[r])) => Queued' = Queued
<1>0. job[r] \in Jobs
  BY DEF RequestType
<1>1. /\ Got(job[r], b) \in Jobs /\ (Got(job[r], b).counted <=> job[r].counted)
      /\ Saw(job[r], b) \in Jobs /\ (Saw(job[r], b).counted <=> job[r].counted)
      /\ Lost(job[r]) \in Jobs /\ (Lost(job[r]).counted <=> job[r].counted)
  BY <1>0, JobFields
<1>2. GotoWith(r, label, Got(job[r], b)) => Queued' = Queued
  BY <1>1, QueueMove
<1>3. GotoWith(r, label, Saw(job[r], b)) => Queued' = Queued
  BY <1>1, QueueMove
<1>4. GotoWith(r, label, Lost(job[r])) => Queued' = Queued
  BY <1>1, QueueMove
<1> QED
  BY <1>2, <1>3, <1>4

\* A request joins or leaves the queue.
LEMMA Requeued ==
  ASSUME RequestType, NEW r \in Requests, NEW label \in PCs
  PROVE  /\ ~job[r].counted /\ GotoWith(r, label, Counted(job[r], TRUE))
            => r \notin Queued /\ Queued' = Queued \cup {r}
         /\ job[r].counted /\ GotoWith(r, label, Counted(job[r], FALSE))
            => r \in Queued /\ Queued' = Queued \ {r}
<1>0. job[r] \in Jobs
  BY DEF RequestType
<1>1. /\ Counted(job[r], TRUE) \in Jobs /\ Counted(job[r], TRUE).counted
      /\ Counted(job[r], FALSE) \in Jobs /\ ~Counted(job[r], FALSE).counted
  BY <1>0, JobFields
<1>2. ~job[r].counted /\ GotoWith(r, label, Counted(job[r], TRUE))
      => r \notin Queued /\ Queued' = Queued \cup {r}
  BY <1>1, QueueMove
<1>3. job[r].counted /\ GotoWith(r, label, Counted(job[r], FALSE))
      => r \in Queued /\ Queued' = Queued \ {r}
  BY <1>1, QueueMove
<1> QED
  BY <1>2, <1>3

\* Where a request is not counted, and where it is.
LEMMA CountedWhere ==
  ASSUME RequestFacts, NEW r \in Requests
  PROVE  /\ pc[r] \in {"idle", "try", "enqueue", "read", "write", "run",
                       "release"} => ~job[r].counted
         /\ pc[r] = "dequeue" => job[r].counted
  BY DEF RequestFacts, Consistent

\* Every step changes the counter in one of the ways of WaitStep.
LEMMA WaitSteps ==
  ASSUME BaseType, RequestFacts, [Next]_vars
  PROVE  WaitStep
<1>a. RequestType /\ wait \in Nat
  BY DEF BaseType
<1>b. \A r \in Requests : job[r] \in Jobs
  BY <1>a DEF RequestType
<1>c. UNCHANGED <<wait, ledger>> /\ Queued' = Queued => WaitStep
  BY DEF WaitStep
<1>d. UNCHANGED job => Queued' = Queued
  BY DEF Queued
<1>1. ASSUME NEW r \in Requests, Serve(r)
      PROVE  WaitStep
  <2>1. CASE \/ \E p \in Processes : Begin(r, p)
             \/ AcquireSlot(r) \/ TouchActiveIndex(r) \/ StopWaiting(r)
             \/ Done(r) \/ ReleaseSlot(r) \/ ReadActiveLoad(r)
             \/ RefreshActiveIndex(r)
    <3>1. UNCHANGED <<wait, ledger>>
      BY <2>1 DEF Begin, AcquireSlot, TouchActiveIndex, StopWaiting, Done,
         ReleaseSlot, ReadActiveLoad, RefreshActiveIndex
    <3>2. CASE \E p \in Processes : Begin(r, p)
      <4>1. PICK p \in Processes :
              GotoWith(r, "try", Fresh(p)) /\ pc[r] = "idle"
        BY <3>2 DEF Begin, Fresh
      <4>2. ~job[r].counted /\ "try" \in PCs
        BY <4>1, CountedWhere DEF PCs
      <4> QED
        BY <1>a, <1>c, <3>1, <4>1, <4>2, Uncounted
    <3>3. CASE AcquireSlot(r)
      <4>1. \/ GotoWith(r, "touch", Got(job[r], TRUE))
            \/ UNCHANGED job
        BY <3>3 DEF AcquireSlot, Acquire, Got, Goto
      <4>2. "touch" \in PCs
        BY DEF PCs
      <4>3. Queued' = Queued
        BY <1>a, <1>d, <4>1, <4>2, SameCounted
      <4> QED
        BY <1>c, <3>1, <4>3
    <3>4. CASE TouchActiveIndex(r) \/ StopWaiting(r) \/ Done(r)
      <4>1. UNCHANGED job
        BY <3>4 DEF TouchActiveIndex, AfterTouch, StopWaiting, Done, Goto
      <4> QED
        BY <1>c, <1>d, <3>1, <4>1
    <3>5. CASE ReleaseSlot(r)
      <4>1. GotoWith(r, "read", Got(job[r], FALSE)) /\ "read" \in PCs
        BY <3>5 DEF ReleaseSlot, Got, PCs
      <4>2. Queued' = Queued
        BY <1>a, <4>1, SameCounted
      <4> QED
        BY <1>c, <3>1, <4>2
    <3>6. CASE ReadActiveLoad(r)
      <4>1. GotoWith(r, "write", Saw(job[r], Load = 0)) /\ "write" \in PCs
        BY <3>6 DEF ReadActiveLoad, Saw, PCs
      <4>2. (Load = 0) \in BOOLEAN
        OBVIOUS
      <4>3. Queued' = Queued
        BY <1>a, <4>1, <4>2, SameCounted
      <4> QED
        BY <1>c, <3>1, <4>3
    <3>7. CASE RefreshActiveIndex(r)
      <4>1. pc[r] = "write" /\ Resume(r, Saw(job[r], FALSE))
        BY <3>7 DEF RefreshActiveIndex, Saw
      <4>2. \/ GotoWith(r, "run", Saw(job[r], FALSE))
            \/ GotoWith(r, "idle", NoJob)
        BY <4>1 DEF Resume, End
      <4>3. ~job[r].counted /\ {"run", "idle"} \subseteq PCs
        BY <4>1, CountedWhere DEF PCs
      <4>4. Queued' = Queued
        BY <1>a, <4>2, <4>3, SameCounted, Uncounted
      <4> QED
        BY <1>c, <3>1, <4>4
    <3> QED
      BY <2>1, <3>2, <3>3, <3>4, <3>5, <3>6, <3>7
  <2>2. CASE IncrementWaitCount(r)
    <3>1. pc[r] = "enqueue" /\ UNCHANGED ledger
      BY <2>2 DEF IncrementWaitCount
    <3>2. ~job[r].counted /\ {"touchWait", "idle"} \subseteq PCs
      BY <3>1, CountedWhere DEF PCs
    <3>3. \/ wait' = wait + 1
             /\ GotoWith(r, "touchWait", Counted(job[r], TRUE))
          \/ UNCHANGED wait /\ GotoWith(r, "idle", NoJob)
      BY <2>2 DEF IncrementWaitCount, End, Counted
    <3>4. CASE wait' = wait + 1
               /\ GotoWith(r, "touchWait", Counted(job[r], TRUE))
      <4>1. r \notin Queued /\ Queued' = Queued \cup {r}
        BY <1>a, <3>2, <3>4, Requeued
      <4> QED
        BY <3>1, <3>4, <4>1 DEF WaitStep
    <3>5. CASE UNCHANGED wait /\ GotoWith(r, "idle", NoJob)
      <4>1. Queued' = Queued
        BY <1>a, <3>2, <3>5, Uncounted
      <4> QED
        BY <1>c, <3>1, <3>5, <4>1
    <3> QED
      BY <3>3, <3>4, <3>5
  <2>3. CASE DecrementWaitCount(r)
    <3>1. /\ pc[r] = "dequeue" /\ GotoWith(r, "read", Counted(job[r], FALSE))
          /\ wait' = (IF wait > 0 THEN wait - 1 ELSE 0) /\ Note(0, 0)
      BY <2>3 DEF DecrementWaitCount, Counted
    <3>2. job[r].counted /\ "read" \in PCs
      BY <3>1, CountedWhere DEF PCs
    <3>3. r \in Queued /\ Queued' = Queued \ {r}
      BY <1>a, <3>1, <3>2, Requeued
    <3> QED
      BY <3>1, <3>3 DEF WaitStep
  <2> QED
    BY <1>1, <2>1, <2>2, <2>3 DEF Serve
<1>2. ASSUME NEW r \in Requests, RequestFails(r) \/ SlotExpires(r)
      PROVE  WaitStep
  <2>1. CASE AcquireFails(r) \/ IndexFails(r) \/ ReleaseFails(r)
             \/ SlotExpires(r)
    <3>1. UNCHANGED <<wait, ledger>>
      BY <2>1 DEF AcquireFails, IndexFails, ReleaseFails, SlotExpires
    <3>2. \/ UNCHANGED job
          \/ /\ pc[r] \in {"try", "read", "write", "release"}
             /\ GotoWith(r, "idle", NoJob)
          \/ GotoWith(r, "run", Saw(job[r], FALSE))
          \/ GotoWith(r, "run", Lost(job[r]))
      BY <2>1 DEF AcquireFails, IndexFails, ReleaseFails, SlotExpires,
         AfterTouch, Resume, End, Goto, Saw, Lost
    <3>3. CASE /\ pc[r] \in {"try", "read", "write", "release"}
               /\ GotoWith(r, "idle", NoJob)
      <4>1. ~job[r].counted /\ "idle" \in PCs
        BY <3>3, CountedWhere DEF PCs
      <4>2. Queued' = Queued
        BY <1>a, <3>3, <4>1, Uncounted
      <4> QED
        BY <1>c, <3>1, <4>2
    <3>4. CASE \/ GotoWith(r, "run", Saw(job[r], FALSE))
               \/ GotoWith(r, "run", Lost(job[r]))
      <4>1. "run" \in PCs
        BY DEF PCs
      <4>2. Queued' = Queued
        BY <1>a, <3>4, <4>1, SameCounted
      <4> QED
        BY <1>c, <3>1, <4>2
    <3> QED
      BY <1>c, <1>d, <3>1, <3>2, <3>3, <3>4
  <2>2. CASE IncrementFails(r)
    <3>1. /\ pc[r] = "enqueue" /\ GotoWith(r, "wait", Counted(job[r], TRUE))
          /\ wait' \in {wait, wait + 1}
          /\ Note(0, IF wait' = wait THEN 1 ELSE 0)
      BY <2>2 DEF IncrementFails, Counted
    <3>2. ~job[r].counted /\ "wait" \in PCs
      BY <3>1, CountedWhere DEF PCs
    <3>3. r \notin Queued /\ Queued' = Queued \cup {r}
      BY <1>a, <3>1, <3>2, Requeued
    <3>4. \/ wait' = wait + 1 /\ Note(0, 0)
          \/ wait' = wait /\ Note(0, 1)
      BY <1>a, <3>1 DEF Note
    <3> QED
      BY <3>3, <3>4 DEF WaitStep
  <2>3. CASE DecrementFails(r)
    <3>1. /\ pc[r] = "dequeue" /\ Resume(r, Counted(job[r], FALSE))
          /\ wait' = wait \/ (wait > 0 /\ wait' = wait - 1)
          /\ Note(IF wait' = wait THEN 1 ELSE 0, 0)
      BY <2>3 DEF DecrementFails, Counted
    <3>2. job[r].counted /\ {"run", "idle"} \subseteq PCs
      BY <3>1, CountedWhere DEF PCs
    <3>3. r \in Queued /\ Queued' = Queued \ {r}
      <4>1. CASE GotoWith(r, "run", Counted(job[r], FALSE))
        BY <1>a, <3>2, <4>1, Requeued
      <4>2. CASE GotoWith(r, "idle", NoJob)
        <5>1. NoJob \in Jobs /\ ~NoJob.counted
          BY JobFields
        <5> QED
          BY <1>a, <3>2, <4>2, <5>1, QueueMove
      <4> QED
        BY <3>1, <4>1, <4>2 DEF Resume, End
    <3>4. \/ wait' = (IF wait > 0 THEN wait - 1 ELSE 0) /\ Note(0, 0)
          \/ wait' = wait /\ Note(1, 0)
      BY <1>a, <3>1 DEF Note
    <3> QED
      BY <3>3, <3>4 DEF WaitStep
  <2> QED
    BY <1>2, <2>1, <2>2, <2>3 DEF RequestFails
<1>3. ASSUME NEW p \in Processes, StartUp(p)
      PROVE  WaitStep
  <2>1. CASE CleanupSlots(p)
    <3>1. /\ job' = [r \in Requests |->
                       IF r \in held THEN Lost(job[r]) ELSE job[r]]
          /\ UNCHANGED <<wait, ledger>>
      BY <2>1 DEF CleanupSlots, Lost
    <3>2. \A r \in Requests : job'[r].counted <=> job[r].counted
      BY <1>b, <3>1, JobFields
    <3>3. Queued' = Queued
      BY <3>2 DEF Queued
    <3> QED
      BY <1>c, <3>1, <3>3
  <2>2. CASE SweepLegacyWaitKeys(p) \/ DeleteWaitKey(p)
    <3>1. UNCHANGED job /\ Wipe
      BY <2>2 DEF SweepLegacyWaitKeys, DeleteWaitKey
    <3> QED
      BY <1>d, <3>1 DEF WaitStep
  <2>3. CASE Start(p) \/ CheckLegacyMarker(p) \/ SetMarker(p)
             \/ AllIndexMembers(p) \/ RemoveIndexMember(p)
    <3>1. UNCHANGED <<wait, ledger, job>>
      BY <2>3 DEF Start, CheckLegacyMarker, SetMarker, AllIndexMembers,
         RemoveIndexMember
    <3> QED
      BY <1>c, <1>d, <3>1
  <2> QED
    BY <1>3, <2>1, <2>2, <2>3 DEF StartUp
<1>4. ASSUME NEW p \in Processes,
             \/ BootFails(p) \/ ListExpired(p)
             \/ ReadIndexLoads(p) \/ Reconcile(p) \/ SweepFails(p)
      PROVE  WaitStep
  <2>1. UNCHANGED <<wait, ledger, job>>
    BY <1>4 DEF BootFails, ListExpired, ReadIndexLoads, Reconcile, SweepFails,
       SweepRest
  <2> QED
    BY <1>c, <1>d, <2>1
<1>5. ASSUME NEW p \in Processes, Crash(p)
      PROVE  WaitStep
  <2> DEFINE died == {r \in Requests : job[r].proc = p}
  <2>1. /\ UNCHANGED wait /\ Note(Cardinality(Queued \cap died), 0)
        /\ job' = [r \in Requests |-> IF r \in died THEN NoJob ELSE job[r]]
    BY <1>5 DEF Crash
  <2>2. ~NoJob.counted
    BY JobFields
  <2> HIDE DEF died
  <2>3. Queued' = {r \in Requests : job'[r].counted}
    BY DEF Queued
  <2>4. Queued' = Queued \ died
    BY <2>1, <2>2, <2>3 DEF Queued
  <2> QED
    BY <2>1, <2>4 DEF WaitStep
<1>6. CASE OrphanExpires \/ WaitCountExpires \/ IndexScorePasses
  <2>1. /\ UNCHANGED job
        /\ UNCHANGED <<wait, ledger>> \/ Wipe
    BY <1>6 DEF OrphanExpires, WaitCountExpires, IndexScorePasses
  <2> QED
    BY <1>d, <2>1 DEF WaitStep
<1>7. CASE UNCHANGED vars
  <2>1. UNCHANGED <<wait, ledger, job>>
    BY <1>7 DEF vars
  <2> QED
    BY <1>c, <1>d, <2>1
<1> QED
  BY <1>1, <1>2, <1>3, <1>4, <1>5, <1>6, <1>7 DEF Next

\* What a step can do to the counter, the index and the processes.
PlainStep ==
  /\ \/ wait' \in {wait, 0}
     \/ wait < MaxWait /\ wait' = wait + 1
     \/ wait > 0 /\ wait' = wait - 1
  /\ index' \in {index, "absent", "ahead", "past"}
  /\ marker' \in {marker, TRUE}
  /\ \/ UNCHANGED starts
     \/ starts < MaxStarts /\ starts' = starts + 1
  /\ \/ UNCHANGED faults
     \/ faults < MaxFaults /\ faults' = faults + 1
  /\ UNCHANGED unindexed \/ unindexed' \in BOOLEAN

ProcessStep ==
  /\ \/ UNCHANGED boot
     \/ \E p \in Processes, label \in BootPCs : Boot(p, label)
  /\ \/ UNCHANGED sweep
     \/ \E p \in Processes, label \in SweepPCs : Sweep(p, label)
  /\ alone' \in {alone, None} \cup Processes

\* Every step changes those in one of these ways.
LEMMA PlainSteps ==
  ASSUME wait \in Nat, [Next]_vars
  PROVE  PlainStep
<1> USE DEF PlainStep, Wipe, Unindex, NoFault, Fault
<1>1. ASSUME NEW r \in Requests, Serve(r)
      PROVE  PlainStep
  BY <1>1 DEF Serve, Begin, AcquireSlot, TouchActiveIndex, IncrementWaitCount,
     StopWaiting, DecrementWaitCount, Done, ReleaseSlot, ReadActiveLoad,
     RefreshActiveIndex, Touch, Drop
<1>2. ASSUME NEW r \in Requests, RequestFails(r) \/ SlotExpires(r)
      PROVE  PlainStep
  BY <1>2 DEF RequestFails, AcquireFails, IndexFails, IncrementFails,
     DecrementFails, ReleaseFails, SlotExpires
<1>3. ASSUME NEW p \in Processes, StartUp(p)
      PROVE  PlainStep
  BY <1>3 DEF StartUp, Start, CheckLegacyMarker, SweepLegacyWaitKeys,
     SetMarker, AllIndexMembers, CleanupSlots, DeleteWaitKey,
     RemoveIndexMember, BootRest, Drop
<1>4. ASSUME NEW p \in Processes,
             \/ BootFails(p) \/ Crash(p) \/ ListExpired(p)
             \/ ReadIndexLoads(p) \/ Reconcile(p) \/ SweepFails(p)
      PROVE  PlainStep
  BY <1>4 DEF BootFails, Crash, ListExpired, ReadIndexLoads, Reconcile,
     SweepFails, SweepRest, Touch, Drop
<1>5. CASE OrphanExpires \/ WaitCountExpires \/ IndexScorePasses
  BY <1>5 DEF OrphanExpires, WaitCountExpires, IndexScorePasses
<1>6. CASE UNCHANGED vars
  BY <1>6 DEF vars
<1> QED
  BY <1>1, <1>2, <1>3, <1>4, <1>5, <1>6 DEF Next

\* Every step changes the processes one at a time.
LEMMA ProcessSteps ==
  ASSUME [Next]_vars
  PROVE  ProcessStep
<1> USE DEF ProcessStep, BootPCs, SweepPCs
<1>1. ASSUME NEW r \in Requests,
             Serve(r) \/ RequestFails(r) \/ SlotExpires(r)
      PROVE  UNCHANGED <<boot, sweep, alone>>
  BY <1>1 DEF Serve, Begin, AcquireSlot, TouchActiveIndex, IncrementWaitCount,
     StopWaiting, DecrementWaitCount, Done, ReleaseSlot, ReadActiveLoad,
     RefreshActiveIndex, RequestFails, AcquireFails, IndexFails,
     IncrementFails, DecrementFails, ReleaseFails, SlotExpires
<1>2. ASSUME NEW p \in Processes, StartUp(p)
      PROVE  ProcessStep
  BY <1>2 DEF StartUp, Start, CheckLegacyMarker, SweepLegacyWaitKeys,
     SetMarker, AllIndexMembers, CleanupSlots, DeleteWaitKey,
     RemoveIndexMember, BootRest
<1>3. ASSUME NEW p \in Processes,
             \/ BootFails(p) \/ Crash(p) \/ ListExpired(p)
             \/ ReadIndexLoads(p) \/ Reconcile(p) \/ SweepFails(p)
      PROVE  ProcessStep
  BY <1>3 DEF BootFails, Crash, ListExpired, ReadIndexLoads, Reconcile,
     SweepFails, SweepRest
<1>4. CASE OrphanExpires \/ WaitCountExpires \/ IndexScorePasses
           \/ UNCHANGED vars
  BY <1>4 DEF OrphanExpires, WaitCountExpires, IndexScorePasses, vars
<1> QED
  BY <1>1, <1>2, <1>3, <1>4 DEF Next

\* The invariant holds at first and in every step.
LEMMA InitIInv == Init => IInv
<1> SUFFICES ASSUME Init PROVE IInv
  OBVIOUS
<1>1. NoJob \in Jobs /\ ~NoJob.got /\ ~NoJob.counted
  BY JobFields
<1>2. BaseType
  <2>1. RequestType
    BY <1>1 DEF Init, RequestType, PCs
  <2>2. /\ boot \in [Processes -> BootPCs]
        /\ sweep \in [Processes -> SweepPCs]
    BY DEF Init, BootPCs, SweepPCs
  <2>3. /\ wait \in 0..MaxWait
        /\ starts \in 0..MaxStarts /\ faults \in 0..MaxFaults
    BY DEF Init
  <2>4. marker \in BOOLEAN /\ unindexed \in BOOLEAN
    BY DEF Init
  <2> QED
    BY <2>1, <2>2, <2>3, <2>4 DEF Init, BaseType
<1>3. CountType
  BY FS_EmptySet DEF Init, CountType, Count
<1>4. RequestFacts
  BY <1>1 DEF Init, RequestFacts, Consistent
<1>5. Queued = {}
  BY <1>1 DEF Init, Queued
<1>6. WaitCountAddsUp
  BY <1>5, FS_EmptySet DEF Init, WaitCountAddsUp
<1> QED
  BY <1>2, <1>3, <1>4, <1>6 DEF IInv

\* Every step keeps the invariant.
LEMMA NextIInv == IInv /\ [Next]_vars => IInv'
<1> SUFFICES ASSUME IInv, [Next]_vars PROVE IInv'
  OBVIOUS
<1>0. /\ BaseType /\ CountType /\ RequestFacts /\ WaitCountAddsUp
      /\ wait \in Nat /\ leaked \in Nat /\ missing \in Nat
      /\ orphans \in Nat /\ held \subseteq Requests
  BY DEF IInv, BaseType, CountType
<1>1. SlotStep /\ WaitStep /\ PlainStep /\ ProcessStep
  BY <1>0, SlotSteps, WaitSteps, PlainSteps, ProcessSteps
<1>2. RequestType' /\ RequestFacts'
  BY <1>0, RequestInductive
<1>3. /\ CountType' /\ WaitCountAddsUp'
      /\ leaked' \in Nat /\ missing' \in Nat
  BY <1>0, <1>1, CountStep, AddsUpStep
<1>4. held' \subseteq Requests
  BY <1>0, <1>1 DEF SlotStep
<1>5. /\ wait' \in 0..MaxWait /\ index' \in {"absent", "ahead", "past"}
      /\ starts' \in 0..MaxStarts /\ faults' \in 0..MaxFaults
  BY <1>0, <1>1 DEF BaseType, PlainStep
<1>6. marker' \in BOOLEAN /\ unindexed' \in BOOLEAN
  BY <1>0, <1>1 DEF BaseType, PlainStep
<1>7. /\ boot' \in [Processes -> BootPCs] /\ sweep' \in [Processes -> SweepPCs]
      /\ alone' \in Processes \cup {None}
  BY <1>0, <1>1 DEF BaseType, ProcessStep, Boot, Sweep
<1>8. BaseType'
  BY <1>2, <1>3, <1>4, <1>5, <1>6, <1>7 DEF BaseType
<1> QED
  BY <1>2, <1>3, <1>8 DEF IInv

\* The invariant holds always.
LEMMA Inductive == Spec => []IInv
  BY InitIInv, NextIInv, PTL DEF Spec

-----------------------------------------------------------------------------
(* Theorems *)

\* The variables keep their types, and the entries in Redis never exceed the
\* limit.
THEOREM TypeCorrect == Spec => []TypeOK
<1>1. IInv => TypeOK
  BY DEF IInv, BaseType, CountType, RequestType, TypeOK
<1> QED
  BY <1>1, Inductive, PTL

\* At most Limit requests run at once, entries that nobody will remove
\* included: acquireScript counts and adds in one step, and the entry of a
\* request that runs stays until it is released, expires or another process
\* removes it.
THEOREM Limited == Spec => []AtMostLimit
<1>1. ASSUME IInv PROVE AtMostLimit
  <2> DEFINE running == {r \in Requests : pc[r] = "run" /\ ~job[r].lost}
  <2>1. BaseType /\ CountType /\ RequestFacts
    BY <1>1 DEF IInv
  <2>2. running \subseteq held
    BY <2>1 DEF RequestFacts, Consistent
  <2>3. IsFiniteSet(held)
    BY <2>1, FS_Subset DEF BaseType
  <2>4. /\ Cardinality(running) <= Cardinality(held)
        /\ Cardinality(running) \in Nat /\ Cardinality(held) \in Nat
    BY <2>2, <2>3, FS_Subset, FS_CardinalityType
  <2> HIDE DEF running
  <2>5. Cardinality(running) + orphans <= Limit
    BY <2>1, <2>4 DEF CountType, Count
  <2> QED
    BY <2>5 DEF AtMostLimit, running
<1> QED
  BY <1>1, Inductive, PTL

\* The wait counter is off by no more than what failed calls, dead processes and
\* deleted keys account for: every other path, a request that times out in the
\* queue included, takes off what it has put on.
THEOREM WaitCounted == Spec => []WaitCountAddsUp
<1>1. IInv => WaitCountAddsUp
  BY DEF IInv
<1> QED
  BY <1>1, Inductive, PTL

-----------------------------------------------------------------------------
(* What a start-up finds *)

Empty == held = {} /\ orphans = 0 /\ wait = 0

\* Somebody is about to write the index.
Touching == \E r \in Requests : pc[r] \in {"touch", "touchWait"}

\* Load that the index lacks is on record or about to be indexed.
Indexed == index = "absent" /\ Load > 0 => unindexed \/ Touching

\* Requests and clean-up workers are those of processes that are up.
Served == \A r \in Requests : pc[r] # "idle" =>
            job[r].proc \in Processes /\ boot[job[r].proc] = "up"
Swept == \A p \in Processes : sweep[p] # "idle" => boot[p] = "up"

\* A process that starts alone has no company, and leaves nothing behind.
Starting(p) == boot[p] \notin {"down", "up"}
Alone == alone # None =>
  /\ boot[alone] # "down"
  /\ Starting(alone) => \A q \in Processes \ {alone} : boot[q] = "down"
Cleaned == alone # None =>
  /\ boot[alone] \in {"wait", "index"} => held = {} /\ orphans = 0
  /\ boot[alone] = "index" => wait = 0

StartInv == Indexed /\ Served /\ Swept /\ Alone /\ Cleaned

\* There is no load when there is nothing in Redis.
LEMMA LoadEmpty ==
  ASSUME BaseType, CountType
  PROVE  Load \in Nat /\ (Load = 0 <=> Empty)
<1>1. IsFiniteSet(held)
  BY FS_Subset DEF BaseType
<1>2. Cardinality(held) \in Nat /\ (Cardinality(held) = 0 <=> held = {})
  BY <1>1, FS_CardinalityType, FS_EmptySet
<1>3. orphans \in Nat /\ wait \in Nat
  BY DEF BaseType, CountType
<1> QED
  BY <1>2, <1>3 DEF Load, Count, Empty

\* Entries that change hands do not appear from nothing.
LEMMA OrphansOfNothing ==
  ASSUME Empty, held' \subseteq held, UNCHANGED wait,
         orphans' \in {orphans, Count - Cardinality(held')}
  PROVE  Empty'
<1>1. held = {} /\ held' = {} /\ orphans = 0
  BY DEF Empty
<1>2. Cardinality(held) = 0 /\ Cardinality(held') = 0
  BY <1>1, FS_EmptySet
<1>3. Count = 0
  BY <1>1, <1>2 DEF Count
<1> QED
  BY <1>1, <1>2, <1>3 DEF Empty

\* Unindex records its cause and keeps what it has recorded.
LEMMA UnindexRecords ==
  ASSUME NEW cause, Unindex(cause), index' = "absent", Load' > 0,
         unindexed \/ cause
  PROVE  unindexed'
  BY Zenon DEF Unindex

\* A step that neither adds load nor changes the index.
QuietIndex ==
  /\ index' = index /\ (Empty => Empty') /\ (Touching => Touching')
  /\ unindexed' = unindexed \/ Unindex(FALSE)

\* Such a step leaves no load without a record.
LEMMA QuietIndexed ==
  ASSUME BaseType, CountType, BaseType', CountType', Indexed, QuietIndex
  PROVE  Indexed'
<1> SUFFICES ASSUME index' = "absent", Load' > 0, ~Touching' PROVE unindexed'
  BY DEF Indexed
<1>1. ~Empty'
  <2>1. (Load \in Nat /\ (Load = 0 <=> Empty))'
    BY LoadEmpty, PTL
  <2> QED
    BY <2>1
<1>2. Load > 0
  BY <1>1, LoadEmpty DEF QuietIndex
<1>3. unindexed
  BY <1>2 DEF QuietIndex, Indexed
<1>4. CASE unindexed' = unindexed
  BY <1>3, <1>4
<1>5. CASE Unindex(FALSE)
  BY <1>3, <1>5, UnindexRecords
<1> QED
  BY <1>4, <1>5 DEF QuietIndex

\* A request that moves from elsewhere does not keep others from the index.
LEMMA TouchingStays ==
  ASSUME RequestType, NEW r \in Requests, pc[r] \notin {"touch", "touchWait"},
         NEW label, pc' = [pc EXCEPT ![r] = label]
  PROVE  Touching => Touching'
  BY DEF RequestType, Touching

\* What a step can do to the load and the index: nothing that matters, write
\* it, leave that to the request that added the load, or put it on record.
IndexStep == QuietIndex \/ index' # "absent" \/ Touching' \/ Unindex(TRUE)

\* A request that has just added load is about to write the index.
LEMMA NowTouching ==
  ASSUME RequestType, NEW r \in Requests, NEW label \in {"touch", "touchWait"},
         pc' = [pc EXCEPT ![r] = label]
  PROVE  Touching'
  BY DEF RequestType, Touching

\* A request of the queue or of the slots takes one of those steps.
LEMMA RequestIndexSteps ==
  ASSUME IInv, NEW r \in Requests,
         Serve(r) \/ RequestFails(r) \/ SlotExpires(r)
  PROVE  IndexStep
<1>a. BaseType /\ RequestType /\ orphans \in Nat /\ wait \in Nat
  BY DEF IInv, BaseType, CountType
<1> DEFINE moves == \E label : pc' = [pc EXCEPT ![r] = label]
<1>b. ASSUME pc[r] \notin {"touch", "touchWait"}, moves
      PROVE  Touching => Touching'
  <2>1. PICK label : pc' = [pc EXCEPT ![r] = label]
    BY <1>b
  <2> QED
    BY <1>a, <1>b, <2>1, TouchingStays
<1>c. /\ \A label : Goto(r, label) => moves
      /\ \A label, j : GotoWith(r, label, j) => moves
      /\ \A j : Resume(r, j) => moves
      /\ End(r) => moves
  BY DEF Goto, GotoWith, Resume, End
<1> HIDE DEF moves
<1>1. CASE \/ \E p \in Processes : Begin(r, p)
           \/ StopWaiting(r) \/ Done(r) \/ ReadActiveLoad(r)
  <2>1. /\ UNCHANGED <<held, orphans, wait, index, unindexed>>
        /\ pc[r] \notin {"touch", "touchWait"} /\ moves
    BY <1>1, <1>c DEF Begin, StopWaiting, Done, ReadActiveLoad
  <2> QED
    BY <1>b, <2>1 DEF IndexStep, QuietIndex, Empty
<1>2. CASE AcquireSlot(r)
  <2>1. CASE pc[r] \in {"try", "wait"} /\ Acquire(r)
    <3>1. pc' = [pc EXCEPT ![r] = "touch"]
      BY <2>1 DEF Acquire, GotoWith
    <3> QED
      BY <1>a, <3>1, NowTouching DEF IndexStep
  <2>2. CASE pc[r] = "try" /\ Goto(r, "enqueue") /\ UNCHANGED held
    <3>1. UNCHANGED <<held, orphans, wait, index, unindexed>>
      BY <1>2, <2>2 DEF AcquireSlot
    <3> QED
      BY <1>b, <1>c, <2>2, <3>1 DEF IndexStep, QuietIndex, Empty
  <2> QED
    BY <1>2, <2>1, <2>2 DEF AcquireSlot
<1>3. CASE TouchActiveIndex(r)
  BY <1>3 DEF TouchActiveIndex, Touch, IndexStep
<1>4. CASE IncrementWaitCount(r)
  <2>1. CASE GotoWith(r, "touchWait", [job[r] EXCEPT !.counted = TRUE])
    <3>1. pc' = [pc EXCEPT ![r] = "touchWait"]
      BY <2>1 DEF GotoWith
    <3> QED
      BY <1>a, <3>1, NowTouching DEF IndexStep
  <2>2. CASE End(r) /\ UNCHANGED wait
    <3>1. /\ UNCHANGED <<held, orphans, wait, index, unindexed>>
          /\ pc[r] = "enqueue"
      BY <1>4, <2>2 DEF IncrementWaitCount
    <3> QED
      BY <1>b, <1>c, <2>2, <3>1 DEF IndexStep, QuietIndex, Empty
  <2> QED
    BY <1>4, <2>1, <2>2 DEF IncrementWaitCount
<1>5. CASE DecrementWaitCount(r)
  <2>1. /\ UNCHANGED <<held, orphans, index, unindexed>>
        /\ wait' = (IF wait > 0 THEN wait - 1 ELSE 0)
        /\ pc[r] = "dequeue" /\ moves
    BY <1>5, <1>c DEF DecrementWaitCount
  <2>2. wait = 0 => wait' = 0
    BY <1>a, <2>1
  <2> QED
    BY <1>b, <2>1, <2>2 DEF IndexStep, QuietIndex, Empty
<1>6. CASE ReleaseSlot(r) \/ SlotExpires(r)
  <2>1. /\ UNCHANGED <<orphans, wait, index>> /\ held' = held \ {r}
        /\ pc[r] \in {"release", "run"} /\ moves /\ Unindex(FALSE)
    BY <1>6, <1>c DEF ReleaseSlot, SlotExpires
  <2> QED
    BY <1>b, <2>1 DEF IndexStep, QuietIndex, Empty
<1>7. CASE RefreshActiveIndex(r)
  <2>1. Touch \/ Drop
    BY <1>7 DEF RefreshActiveIndex
  <2> QED
    BY <2>1 DEF Touch, Drop, IndexStep
<1>8. CASE AcquireFails(r)
  <2>1. /\ UNCHANGED <<held, wait, index>> /\ moves
        /\ pc[r] \in {"try", "wait"} /\ Unindex(orphans' > orphans)
        /\ orphans' \in {orphans, orphans + 1}
    BY <1>8, <1>c DEF AcquireFails
  <2>2. CASE UNCHANGED orphans
    <3>1. (orphans' > orphans) = FALSE
      BY <1>a, <2>2
    <3>2. Unindex(FALSE)
      BY <2>1, <3>1, Zenon DEF Unindex
    <3> QED
      BY <1>b, <2>1, <2>2, <3>2 DEF IndexStep, QuietIndex, Empty
  <2>3. CASE orphans' = orphans + 1
    <3>1. (orphans' > orphans) = TRUE
      BY <1>a, <2>3
    <3> QED
      BY <2>1, <3>1, Zenon DEF Unindex, IndexStep
  <2> QED
    BY <2>1, <2>2, <2>3
<1>9. CASE IndexFails(r)
  <2>1. Unindex(pc[r] \in {"touch", "touchWait"})
    BY <1>9 DEF IndexFails
  <2>2. CASE pc[r] \in {"touch", "touchWait"}
    <3>1. (pc[r] \in {"touch", "touchWait"}) = TRUE
      BY <2>2
    <3> QED
      BY <2>1, <3>1, Zenon DEF Unindex, IndexStep
  <2>3. CASE pc[r] \notin {"touch", "touchWait"}
    <3>1. (pc[r] \in {"touch", "touchWait"}) = FALSE
      BY <2>3
    <3>2. Unindex(FALSE)
      BY <2>1, <3>1, Zenon DEF Unindex
    <3>3. /\ UNCHANGED <<held, orphans, wait, index>> /\ moves
      BY <1>9, <1>c, <2>3 DEF IndexFails
    <3> QED
      BY <1>b, <2>3, <3>2, <3>3 DEF IndexStep, QuietIndex, Empty
  <2> QED
    BY <2>2, <2>3
<1>10. CASE IncrementFails(r)
  <2>1. /\ UNCHANGED <<held, orphans, index>> /\ moves /\ pc[r] = "enqueue"
        /\ Unindex(wait' > wait) /\ wait' \in {wait, wait + 1}
    BY <1>10, <1>c DEF IncrementFails
  <2>2. CASE UNCHANGED wait
    <3>1. (wait' > wait) = FALSE
      BY <1>a, <2>2
    <3>2. Unindex(FALSE)
      BY <2>1, <3>1, Zenon DEF Unindex
    <3> QED
      BY <1>b, <2>1, <2>2, <3>2 DEF IndexStep, QuietIndex, Empty
  <2>3. CASE wait' = wait + 1
    <3>1. (wait' > wait) = TRUE
      BY <1>a, <2>3
    <3> QED
      BY <2>1, <3>1, Zenon DEF Unindex, IndexStep
  <2> QED
    BY <2>1, <2>2, <2>3
<1>11. CASE DecrementFails(r)
  <2>1. /\ UNCHANGED <<held, orphans, index>> /\ moves /\ pc[r] = "dequeue"
        /\ Unindex(FALSE)
    BY <1>11, <1>c DEF DecrementFails
  <2>2. UNCHANGED wait \/ wait > 0
    BY <1>11 DEF DecrementFails
  <2>3. wait = 0 => wait' = 0
    BY <1>a, <2>2
  <2> QED
    BY <1>b, <2>1, <2>3 DEF IndexStep, QuietIndex, Empty
<1>12. CASE ReleaseFails(r)
  <2>1. /\ UNCHANGED <<wait, index>> /\ moves /\ pc[r] = "release"
        /\ Unindex(FALSE) /\ held' \subseteq held
        /\ orphans' \in {orphans, Count - Cardinality(held')}
    BY <1>12, <1>c DEF ReleaseFails
  <2>2. Empty => Empty'
    BY <2>1, OrphansOfNothing
  <2> QED
    BY <1>b, <2>1, <2>2 DEF IndexStep, QuietIndex
<1> QED
  BY <1>1, <1>2, <1>3, <1>4, <1>5, <1>6, <1>7, <1>8, <1>9, <1>10, <1>11,
     <1>12 DEF Serve, RequestFails

\* So do the processes, their clean-up workers and time.
LEMMA ProcessIndexSteps ==
  ASSUME IInv, NEW p \in Processes,
         \/ StartUp(p) \/ BootFails(p) \/ Crash(p) \/ ListExpired(p)
         \/ ReadIndexLoads(p) \/ Reconcile(p) \/ SweepFails(p)
  PROVE  IndexStep
<1>a. BaseType /\ RequestType /\ orphans \in Nat /\ wait \in Nat
  BY DEF IInv, BaseType, CountType
<1>1. CASE \/ Start(p) \/ CheckLegacyMarker(p) \/ SetMarker(p)
           \/ AllIndexMembers(p) \/ BootFails(p) \/ ListExpired(p)
           \/ ReadIndexLoads(p) \/ SweepFails(p)
  <2>1. UNCHANGED <<held, orphans, wait, index, unindexed, pc>>
    BY <1>1 DEF Start, CheckLegacyMarker, SetMarker, AllIndexMembers,
       BootFails, ListExpired, ReadIndexLoads, SweepFails, SweepRest, BootRest
  <2> QED
    BY <2>1 DEF IndexStep, QuietIndex, Empty, Touching
<1>2. CASE SweepLegacyWaitKeys(p) \/ CleanupSlots(p) \/ DeleteWaitKey(p)
  <2>1. /\ UNCHANGED <<index, pc>> /\ Unindex(FALSE)
        /\ held' \in {held, {}} /\ orphans' \in {orphans, 0}
        /\ wait' \in {wait, 0}
    BY <1>2 DEF SweepLegacyWaitKeys, CleanupSlots, DeleteWaitKey, Wipe,
       BootRest
  <2> QED
    BY <2>1 DEF IndexStep, QuietIndex, Empty, Touching
<1>3. CASE RemoveIndexMember(p) \/ Reconcile(p)
  BY <1>3 DEF RemoveIndexMember, Reconcile, Drop, Touch, IndexStep
<1>4. CASE Crash(p)
  <2> DEFINE lost == \E r \in {q \in Requests : job[q].proc = p} :
                       pc[r] \in {"touch", "touchWait"}
  <2>1. /\ UNCHANGED <<wait, index>> /\ Unindex(lost) /\ held' \subseteq held
        /\ orphans' \in {orphans, Count - Cardinality(held')}
        /\ pc' = [r \in Requests |->
                    IF job[r].proc = p THEN "idle" ELSE pc[r]]
    BY <1>4 DEF Crash
  <2>2. CASE lost
    <3>1. lost = TRUE
      BY <2>2
    <3> QED
      BY <2>1, <3>1, Zenon DEF Unindex, IndexStep
  <2>3. CASE ~lost
    <3>1. Touching => Touching'
      BY <2>1, <2>3 DEF Touching
    <3>2. lost = FALSE
      BY <2>3
    <3>3. Unindex(FALSE)
      BY <2>1, <3>2, Zenon DEF Unindex
    <3>4. Empty => Empty'
      BY <2>1, OrphansOfNothing
    <3> QED
      BY <2>1, <3>1, <3>3, <3>4 DEF IndexStep, QuietIndex
  <2> QED
    BY <2>2, <2>3
<1> QED
  BY <1>1, <1>2, <1>3, <1>4 DEF StartUp

\* Load that the index lacks stays on record or about to be indexed.
LEMMA IndexedSteps ==
  ASSUME IInv, IInv', Indexed, [Next]_vars
  PROVE  Indexed'
<1>a. /\ BaseType /\ CountType /\ BaseType' /\ CountType'
      /\ orphans \in Nat /\ wait \in Nat
  BY DEF IInv, BaseType, CountType
<1>1. IndexStep
  <2>1. CASE OrphanExpires \/ WaitCountExpires
    <3>1. UNCHANGED <<held, index, pc>> /\ Unindex(FALSE)
      BY <2>1 DEF OrphanExpires, WaitCountExpires
    <3>2. /\ UNCHANGED orphans \/ orphans > 0
          /\ UNCHANGED wait \/ wait > 0
      BY <2>1 DEF OrphanExpires, WaitCountExpires
    <3>3. ~Empty \/ UNCHANGED <<orphans, wait>>
      BY <1>a, <3>2 DEF Empty
    <3> QED
      BY <3>1, <3>3 DEF IndexStep, QuietIndex, Empty, Touching
  <2>2. CASE IndexScorePasses
    BY <2>2 DEF IndexScorePasses, IndexStep
  <2>3. CASE UNCHANGED vars
    <3>1. UNCHANGED <<held, orphans, wait, index, unindexed, pc>>
      BY <2>3 DEF vars
    <3> QED
      BY <3>1 DEF IndexStep, QuietIndex, Empty, Touching
  <2> QED
    BY <2>1, <2>2, <2>3, RequestIndexSteps, ProcessIndexSteps DEF Next
<1>2. CASE QuietIndex
  BY <1>a, <1>2, QuietIndexed
<1>3. CASE index' # "absent" \/ Touching'
  BY <1>3 DEF Indexed
<1>4. CASE Unindex(TRUE)
  BY <1>4, UnindexRecords DEF Indexed
<1> QED
  BY <1>1, <1>2, <1>3, <1>4 DEF IndexStep

\* A request stays with its process.
LEMMA ProcField ==
  /\ \A p \in Processes : Fresh(p).proc = p
  /\ \A j \in Jobs : \A b \in BOOLEAN :
       /\ Got(j, b).proc = j.proc /\ Counted(j, b).proc = j.proc
       /\ Saw(j, b).proc = j.proc /\ Lost(j).proc = j.proc
  BY DEF Jobs, NoJob, Fresh, Got, Counted, Saw, Lost

\* How a request moves: it ends, goes on, or begins at a process that is up.
Carries(r) ==
  \/ pc' = [pc EXCEPT ![r] = "idle"]
     /\ \A q \in Requests \ {r} : job'[q] = job[q]
  \/ \E label, j : /\ GotoWith(r, label, j)
                   /\ \/ pc[r] # "idle" /\ j.proc = job[r].proc
                      \/ j.proc \in Processes /\ boot[j.proc] = "up"

\* Every step of a request is such a move.
LEMMA CarriedOn ==
  ASSUME RequestType, NEW r \in Requests,
         Serve(r) \/ RequestFails(r) \/ SlotExpires(r)
  PROVE  /\ Carries(r) /\ UNCHANGED <<boot, sweep, alone>>
         /\ pc[r] # "idle" \/ \E p \in Processes : boot[p] = "up"
<1>1. UNCHANGED <<boot, sweep, alone>>
  BY DEF Serve, Begin, AcquireSlot, TouchActiveIndex, IncrementWaitCount,
     StopWaiting, DecrementWaitCount, Done, ReleaseSlot, ReadActiveLoad,
     RefreshActiveIndex, RequestFails, AcquireFails, IndexFails,
     IncrementFails, DecrementFails, ReleaseFails, SlotExpires
<1>a. job[r] \in Jobs
  BY DEF RequestType
<1>b. End(r) => Carries(r)
  BY DEF RequestType, End, GotoWith, Carries
<1>c. ASSUME NEW label, NEW j, GotoWith(r, label, j), pc[r] # "idle",
             j.proc = job[r].proc
      PROVE  Carries(r)
  BY <1>c DEF Carries
<1>d. \A label : Goto(r, label) /\ pc[r] # "idle" => Carries(r)
  BY <1>c, GotoIsGotoWith
<1>2. CASE \E p \in Processes : Begin(r, p)
  <2>1. PICK p \in Processes : GotoWith(r, "try", Fresh(p)) /\ boot[p] = "up"
    BY <1>2 DEF Begin, Fresh
  <2> QED
    BY <1>1, <2>1, ProcField DEF Carries
<1>3. CASE ~\E p \in Processes : Begin(r, p)
  <2>1. pc[r] # "idle"
    BY <1>3 DEF Serve, AcquireSlot, TouchActiveIndex, IncrementWaitCount,
       StopWaiting, DecrementWaitCount, Done, ReleaseSlot, ReadActiveLoad,
       RefreshActiveIndex, RequestFails, AcquireFails, IndexFails,
       IncrementFails, DecrementFails, ReleaseFails, SlotExpires
  <2>2. \/ End(r) \/ \E label : Goto(r, label)
        \/ \E label : \E b \in BOOLEAN :
             \/ GotoWith(r, label, Got(job[r], b))
             \/ GotoWith(r, label, Counted(job[r], b))
             \/ GotoWith(r, label, Saw(job[r], b))
             \/ GotoWith(r, label, Lost(job[r]))
    <3>1. CASE AcquireSlot(r) \/ TouchActiveIndex(r) \/ StopWaiting(r)
               \/ Done(r) \/ ReleaseSlot(r)
      BY <3>1 DEF AcquireSlot, Acquire, TouchActiveIndex, AfterTouch,
         StopWaiting, Done, ReleaseSlot, Got
    <3>2. CASE IncrementWaitCount(r) \/ DecrementWaitCount(r)
               \/ IncrementFails(r) \/ DecrementFails(r)
      BY <3>2 DEF IncrementWaitCount, DecrementWaitCount, IncrementFails,
         DecrementFails, Resume, Counted
    <3>3. CASE ReadActiveLoad(r)
      <4>1. GotoWith(r, "write", Saw(job[r], Load = 0))
        BY <3>3 DEF ReadActiveLoad, Saw
      <4>2. (Load = 0) \in BOOLEAN
        OBVIOUS
      <4> QED
        BY <4>1, <4>2
    <3>4. CASE RefreshActiveIndex(r)
      BY <3>4 DEF RefreshActiveIndex, Resume, Saw
    <3>5. CASE AcquireFails(r) \/ IndexFails(r) \/ ReleaseFails(r)
      BY <3>5 DEF AcquireFails, IndexFails, AfterTouch, ReleaseFails, Resume,
         Saw
    <3>6. CASE SlotExpires(r)
      BY <3>6 DEF SlotExpires, Lost
    <3> QED
      BY <1>3, <3>1, <3>2, <3>3, <3>4, <3>5, <3>6 DEF Serve, RequestFails
  <2>3. Carries(r)
    BY <1>a, <1>b, <1>c, <1>d, <2>1, <2>2, ProcField
  <2> QED
    BY <1>1, <2>1, <2>3
<1> QED
  BY <1>2, <1>3

\* While a process starts alone there are no requests and no clean-up workers.
LEMMA AloneIsQuiet ==
  ASSUME BaseType, Served, Swept, Alone, alone # None, Starting(alone)
  PROVE  /\ alone \in Processes
         /\ \A p \in Processes : boot[p] # "up" /\ sweep[p] = "idle"
         /\ \A r \in Requests : pc[r] = "idle"
<1>1. alone \in Processes
  BY DEF BaseType
<1>2. \A p \in Processes : boot[p] # "up"
  BY DEF Alone, Starting
<1> QED
  BY <1>1, <1>2 DEF Served, Swept

\* Requests belong to processes that are up, and disturb no start-up.
LEMMA RequestStartSteps ==
  ASSUME BaseType, Served, Swept, Alone, Cleaned, NEW r \in Requests,
         Serve(r) \/ RequestFails(r) \/ SlotExpires(r)
  PROVE  Served' /\ Swept' /\ Alone' /\ Cleaned'
<1>a. RequestType
  BY DEF BaseType
<1>1. /\ Carries(r) /\ UNCHANGED <<boot, sweep, alone>>
      /\ pc[r] # "idle" \/ \E p \in Processes : boot[p] = "up"
  BY <1>a, CarriedOn
<1>2. Served'
  <2>1. CASE pc' = [pc EXCEPT ![r] = "idle"]
             /\ \A q \in Requests \ {r} : job'[q] = job[q]
    BY <1>a, <1>1, <2>1 DEF Served, RequestType
  <2>2. ASSUME NEW label, NEW j, GotoWith(r, label, j),
               \/ pc[r] # "idle" /\ j.proc = job[r].proc
               \/ j.proc \in Processes /\ boot[j.proc] = "up"
        PROVE  Served'
    BY <1>a, <1>1, <2>2 DEF Served, RequestType, GotoWith
  <2> QED
    BY <1>1, <2>1, <2>2 DEF Carries
<1>3. Swept' /\ Alone'
  BY <1>1 DEF Swept, Alone, Starting
<1>4. Cleaned'
  <2>1. alone # None => ~Starting(alone)
    BY <1>1, AloneIsQuiet
  <2> QED
    BY <1>1, <2>1 DEF Cleaned, Starting
<1> QED
  BY <1>2, <1>3, <1>4

\* A process on its way up, or that goes down, changes no request of another.
LEMMA BootStartSteps ==
  ASSUME BaseType, Served, Swept, Alone, Cleaned, NEW p \in Processes,
         StartUp(p) \/ BootFails(p)
  PROVE  Served' /\ Swept' /\ Alone' /\ Cleaned'
<1>a. /\ RequestType /\ boot \in [Processes -> BootPCs]
      /\ alone \in Processes \cup {None}
  BY DEF BaseType
<1>1. /\ boot[p] # "up" /\ UNCHANGED <<pc, sweep>>
      /\ \E label \in BootPCs \ {"down"} : Boot(p, label)
  BY DEF StartUp, Start, CheckLegacyMarker, SweepLegacyWaitKeys, SetMarker,
     AllIndexMembers, CleanupSlots, DeleteWaitKey, RemoveIndexMember,
     BootFails, BootRest, BootPCs
<1>2. /\ boot' \in [Processes -> BootPCs] /\ boot'[p] # "down"
      /\ \A q \in Processes \ {p} : boot'[q] = boot[q]
  BY <1>a, <1>1 DEF Boot
<1>3. \A r \in Requests : job'[r].proc = job[r].proc
  <2>1. CASE CleanupSlots(p)
    <3>1. job' = [r \in Requests |->
                    IF r \in held THEN Lost(job[r]) ELSE job[r]]
      BY <2>1 DEF CleanupSlots, Lost
    <3>2. \A r \in Requests : Lost(job[r]).proc = job[r].proc
      BY <1>a, ProcField DEF RequestType
    <3> QED
      BY <3>1, <3>2
  <2>2. CASE UNCHANGED job
    BY <2>2
  <2> QED
    BY <2>1, <2>2 DEF StartUp, Start, CheckLegacyMarker, SweepLegacyWaitKeys,
       SetMarker, AllIndexMembers, DeleteWaitKey, RemoveIndexMember, BootFails
<1>4. Served' /\ Swept'
  BY <1>1, <1>2, <1>3 DEF Served, Swept
<1>5. CASE Start(p)
  <2>1. /\ alone' = IF \A q \in Processes : boot[q] = "down" THEN p ELSE None
        /\ Boot(p, "legacy")
    BY <1>5 DEF Start
  <2>2. boot'[p] = "legacy"
    BY <1>a, <2>1 DEF Boot
  <2> QED
    BY <1>2, <1>4, <2>1, <2>2 DEF Alone, Cleaned, Starting
<1>6. CASE ~Start(p)
  <2>1. boot[p] # "down" /\ alone' \in {alone, None}
    BY <1>6 DEF StartUp, CheckLegacyMarker, SweepLegacyWaitKeys, SetMarker,
       AllIndexMembers, CleanupSlots, DeleteWaitKey, RemoveIndexMember,
       BootFails, BootRest
  <2>2. ASSUME alone # None, alone # p
        PROVE  /\ alone \in Processes /\ ~Starting(alone)
               /\ boot'[alone] = boot[alone]
    BY <1>a, <1>2, <2>1, <2>2 DEF Alone, Starting
  <2>3. Alone'
    <3>1. CASE alone' = p
      BY <1>1, <1>2, <2>1, <3>1 DEF Alone, Starting
    <3>2. CASE alone' # p /\ alone' # None
      BY <2>1, <2>2, <3>2 DEF Alone, Starting
    <3> QED
      BY <3>1, <3>2 DEF Alone
  <2>4. Cleaned'
    <3>1. CASE alone' # p /\ alone' # None
      BY <2>1, <2>2, <3>1 DEF Cleaned, Starting
    <3>2. CASE alone' = p
      <4>1. alone = p /\ p # None /\ ~BootFails(p)
        BY <2>1, <3>2 DEF BootFails
      <4>2. \/ boot'[p] \in {"sweep", "list", "mark", "slots", "up"}
            \/ boot'[p] = "wait" /\ held' = {} /\ orphans' = 0
            \/ /\ boot[p] = "wait" /\ boot'[p] = "index" /\ wait' = 0
               /\ UNCHANGED <<held, orphans>>
        BY <1>6, <1>a, <4>1 DEF StartUp, CheckLegacyMarker,
           SweepLegacyWaitKeys, SetMarker, AllIndexMembers, CleanupSlots,
           DeleteWaitKey, RemoveIndexMember, Wipe, Boot
      <4> QED
        BY <3>2, <4>1, <4>2 DEF Cleaned
    <3> QED
      BY <3>1, <3>2 DEF Cleaned
  <2> QED
    BY <1>4, <2>3, <2>4
<1> QED
  BY <1>5, <1>6

\* A process that dies takes its requests with it.
LEMMA CrashStartSteps ==
  ASSUME BaseType, Served, Swept, Alone, Cleaned, NEW p \in Processes, Crash(p)
  PROVE  Served' /\ Swept' /\ Alone' /\ Cleaned'
<1>a. /\ boot \in [Processes -> BootPCs] /\ sweep \in [Processes -> SweepPCs]
      /\ alone \in Processes \cup {None}
  BY DEF BaseType
<1>1. /\ boot[p] # "down" /\ Boot(p, "down") /\ Sweep(p, "idle")
      /\ pc' = [r \in Requests |-> IF job[r].proc = p THEN "idle" ELSE pc[r]]
      /\ job' = [r \in Requests |-> IF job[r].proc = p THEN NoJob ELSE job[r]]
      /\ alone' = IF alone = p THEN None ELSE alone
  BY DEF Crash
<1>2. /\ \A q \in Processes \ {p} : boot'[q] = boot[q] /\ sweep'[q] = sweep[q]
      /\ sweep'[p] = "idle"
  BY <1>a, <1>1 DEF Boot, Sweep
<1>3. Served' /\ Swept'
  BY <1>1, <1>2 DEF Served, Swept
<1>4. alone' # None => /\ alone \in Processes \ {p} /\ alone' = alone
                       /\ ~Starting(alone) /\ boot'[alone] = boot[alone]
  BY <1>a, <1>1, <1>2 DEF Alone
<1> QED
  BY <1>3, <1>4 DEF Alone, Cleaned, Starting

\* Every step keeps the facts about start-ups.
LEMMA NextStartInv ==
  ASSUME IInv, IInv', StartInv, [Next]_vars
  PROVE  StartInv'
<1>a. /\ BaseType /\ orphans \in Nat /\ wait \in Nat
      /\ Indexed /\ Served /\ Swept /\ Alone /\ Cleaned
  BY DEF IInv, BaseType, CountType, StartInv
<1>1. Indexed'
  BY <1>a, IndexedSteps
<1>2. ASSUME NEW p \in Processes,
             \/ ListExpired(p) \/ ReadIndexLoads(p) \/ Reconcile(p)
             \/ SweepFails(p)
      PROVE  Served' /\ Swept' /\ Alone' /\ Cleaned'
  <2>1. /\ UNCHANGED <<pc, job, boot, alone, held, orphans, wait>>
        /\ \E label \in SweepPCs : Sweep(p, label)
        /\ boot[p] = "up" \/ sweep[p] # "idle"
    BY <1>2 DEF ListExpired, ReadIndexLoads, Reconcile, SweepFails, SweepRest,
       SweepPCs
  <2>2. Served' /\ Alone' /\ Cleaned'
    BY <1>a, <2>1 DEF Served, Alone, Cleaned, Starting
  <2>3. Swept'
    BY <1>a, <2>1 DEF Swept, BaseType, Sweep
  <2> QED
    BY <2>2, <2>3
<1>3. ASSUME \/ OrphanExpires \/ WaitCountExpires \/ IndexScorePasses
             \/ UNCHANGED vars
      PROVE  Served' /\ Swept' /\ Alone' /\ Cleaned'
  <2>1. UNCHANGED <<pc, job, boot, sweep, alone, held>>
    BY <1>3 DEF OrphanExpires, WaitCountExpires, IndexScorePasses, vars
  <2>2. /\ UNCHANGED orphans \/ orphans > 0
        /\ UNCHANGED wait \/ wait' = 0
    BY <1>3 DEF OrphanExpires, WaitCountExpires, IndexScorePasses, Wipe, vars
  <2>3. /\ orphans = 0 => orphans' = 0
        /\ wait = 0 => wait' = 0
    BY <1>a, <2>2
  <2> QED
    BY <1>a, <2>1, <2>3 DEF Served, Swept, Alone, Cleaned, Starting
<1>4. Served' /\ Swept' /\ Alone' /\ Cleaned'
  BY <1>a, <1>2, <1>3, RequestStartSteps, BootStartSteps, CrashStartSteps
     DEF Next
<1> QED
  BY <1>1, <1>4 DEF StartInv

\* Load that the index lacks is on record, and a process that starts alone
\* finds nobody else at work.
LEMMA StartInvariant == Spec => []StartInv
<1>1. Init => StartInv
  <2> SUFFICES ASSUME Init PROVE StartInv
    OBVIOUS
  <2>1. Load = 0
    BY FS_EmptySet DEF Init, Load, Count
  <2>2. Indexed
    BY <2>1 DEF Indexed
  <2>3. Served /\ Swept /\ Alone /\ Cleaned
    BY DEF Init, Served, Swept, Alone, Cleaned
  <2> QED
    BY <2>2, <2>3 DEF StartInv
<1>2. IInv /\ IInv' /\ StartInv /\ [Next]_vars => StartInv'
  <2> SUFFICES ASSUME IInv, IInv', StartInv, [Next]_vars PROVE StartInv'
    OBVIOUS
  <2> QED
    BY NextStartInv
<1> QED
  BY <1>1, <1>2, Inductive, PTL DEF Spec

\* A process that starts as the only one has removed everything from Redis when
\* it begins to serve, unless load was on record that the index lacks:
\* CleanupStaleProcessSlots finds its work in the index alone.
THEOREM RestartCleans == Spec => RestartCleansUp
<1>1. ASSUME IInv, IInv', StartInv, Next, NEW p \in Processes,
             boot[p] # "up", boot'[p] = "up", alone' = p, ~unindexed
      PROVE  Load' = 0
  <2>a. /\ BaseType /\ CountType /\ Indexed /\ Served /\ Swept /\ Alone
        /\ Cleaned /\ boot \in [Processes -> BootPCs] /\ p # None
    BY <1>1 DEF IInv, StartInv, BaseType
  <2>b. (Load \in Nat /\ (Load = 0 <=> Empty))'
    <3>1. BaseType' /\ CountType'
      BY <1>1 DEF IInv
    <3> QED
      BY <3>1, LoadEmpty, PTL
  <2>1. AllIndexMembers(p) \/ RemoveIndexMember(p)
    <3>1. ~UNCHANGED boot
      BY <1>1
    <3>2. \A r \in Requests : ~(Serve(r) \/ RequestFails(r) \/ SlotExpires(r))
      BY <2>a, <3>1, CarriedOn DEF BaseType
    <3>3. ASSUME NEW q \in Processes,
                 StartUp(q) \/ BootFails(q) \/ Crash(q)
          PROVE  q = p
      <4>1. \E label : Boot(q, label)
        BY <3>3 DEF StartUp, Start, CheckLegacyMarker, SweepLegacyWaitKeys,
           SetMarker, AllIndexMembers, CleanupSlots, DeleteWaitKey,
           RemoveIndexMember, BootFails, Crash
      <4> QED
        BY <1>1, <2>a, <4>1 DEF Boot
    <3>4. ~BootFails(p) /\ ~Crash(p)
      BY <1>1, <2>a DEF BootFails, Crash
    <3>5. StartUp(p)
      BY <1>1, <3>1, <3>2, <3>3, <3>4 DEF Next, ListExpired, ReadIndexLoads,
         Reconcile, SweepFails, SweepRest, OrphanExpires, WaitCountExpires,
         IndexScorePasses
    <3> QED
      BY <1>1, <2>a, <3>5 DEF StartUp, Start, CheckLegacyMarker,
         SweepLegacyWaitKeys, SetMarker, CleanupSlots, DeleteWaitKey, Boot
  <2>2. boot[p] \in {"list", "index"} /\ alone = p
        /\ UNCHANGED <<held, orphans, wait>>
    BY <1>1, <2>1 DEF AllIndexMembers, RemoveIndexMember, BootRest
  <2>3. CASE AllIndexMembers(p)
    <3>1. index = "absent"
      BY <1>1, <2>3, <2>a DEF AllIndexMembers, Boot
    <3>2. ~Touching
      <4>1. \A r \in Requests : pc[r] = "idle"
        BY <2>2, <2>a, AloneIsQuiet DEF Starting
      <4> QED
        BY <4>1 DEF Touching
    <3>3. ~(Load > 0)
      BY <1>1, <2>a, <3>1, <3>2 DEF Indexed
    <3>4. Empty
      BY <2>a, <3>3, LoadEmpty
    <3> QED
      BY <2>2, <2>b, <3>4 DEF Empty
  <2>4. CASE RemoveIndexMember(p)
    <3>1. boot[p] = "index"
      BY <2>4 DEF RemoveIndexMember
    <3> QED
      BY <2>2, <2>a, <2>b, <3>1 DEF Cleaned, Empty
  <2> QED
    BY <2>1, <2>3, <2>4
<1>2. IInv /\ IInv' /\ StartInv /\ [Next]_vars
      => [\A p \in Processes :
            boot[p] # "up" /\ boot'[p] = "up" /\ alone' = p /\ ~unindexed
            => Load' = 0]_vars
  BY <1>1
<1> QED
  BY <1>2, Inductive, StartInvariant, PTL DEF Spec, RestartCleansUp
=============================================================================
