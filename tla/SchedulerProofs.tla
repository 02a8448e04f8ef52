--------------------------- MODULE SchedulerProofs ---------------------------
(***************************************************************************)
(* TLAPS proofs about the scheduler's cache, for any workers and any       *)
(* number of changes and faults.  SchedulerBucket: the epoch keeps writers *)
(* from before a retirement out.  SchedulerOutbox, in the second half:     *)
(* polls pass no event by, and a change is not forgotten.                  *)
(***************************************************************************)
EXTENDS SchedulerBucket, SchedulerOutbox, FiniteSetTheorems, TLAPS

Tokened == {"lock", "load", "allocate", "write", "activate"}
Loaded == {"allocate", "write", "activate"}

\* What a worker at label with job j knows: its token is not ahead of the epoch,
\* and if it is the epoch's own, the accounts it loaded are of this life.
Fits(label, j, e, n) ==
  /\ label \in Tokened \/ (label = "release" /\ j.on) => j.tok \in 1..e
  /\ label \in Loaded /\ j.tok = e => j.born = n

FenceFacts == \A w \in Workers : Fits(pc[w], job[w], epoch, retirements)

WorkerType == pc \in [Workers -> PCs] /\ job \in [Workers -> Jobs]

FInv == TypeOK /\ FenceFacts /\ RetiredIsUnserved /\ ServedIsOfThisLife

\* What a step can do to the epoch, to the snapshot and to the workers.
EpochStep ==
  \/ UNCHANGED <<epoch, retirements>>
  \/ epoch = 0 /\ epoch' = 1 /\ UNCHANGED retirements
  \/ epoch' = epoch + 1 /\ retirements' = retirements + 1

SnapStep ==
  \/ UNCHANGED <<snap, retirements>> /\ (retired' => retired)
  \/ snap' = NoSnapshot
  \/ /\ ~retired' /\ UNCHANGED retirements
     /\ snap'.born = retirements

Move(w, label, j) ==
  /\ GotoWith(w, label, j) /\ label \in PCs /\ j \in Jobs
  /\ Fits(label, j, epoch', retirements')

WorkerStep ==
  \/ UNCHANGED <<pc, job>>
  \/ \E w \in Workers : \E label, j : Move(w, label, j)

USE WorkersAssumption, MaxChangesAssumption, MaxFaultsAssumption
    DEF db, fence, cache

-----------------------------------------------------------------------------
(* The jobs of the workers *)

Task(t) == [NoJob EXCEPT !.task = t]
TaskOn(t, b) == [NoJob EXCEPT !.task = t, !.on = b]
TaskData(t, d) == [NoJob EXCEPT !.task = t, !.data = d]
Tok(j, e) == [j EXCEPT !.tok = e]
Load(j, d, n) == [j EXCEPT !.data = d, !.born = n]
On(j, b) == [j EXCEPT !.on = b]

Tasks == {"none", "read", "sync", "event", "full"}

\* The jobs that tasks begin with.
LEMMA NewJobs ==
  /\ NoJob \in Jobs
  /\ \A t \in Tasks : Task(t) \in Jobs
  /\ \A t \in Tasks, b \in BOOLEAN : TaskOn(t, b) \in Jobs
  /\ \A t \in Tasks, d \in Nat : TaskData(t, d) \in Jobs
  BY DEF Jobs, NoJob, Task, TaskOn, TaskData, Tasks

\* A job that has captured its token.
LEMMA TokJob ==
  ASSUME NEW j \in Jobs, NEW e \in Nat
  PROVE  Tok(j, e) \in Jobs /\ Tok(j, e).tok = e /\ Tok(j, e).on = j.on
  BY DEF Jobs, Tok

\* A job that has loaded the accounts.
LEMMA LoadJob ==
  ASSUME NEW j \in Jobs, NEW d \in Nat, NEW n \in Nat
  PROVE  Load(j, d, n) \in Jobs /\ Load(j, d, n).tok = j.tok
         /\ Load(j, d, n).born = n
  BY DEF Jobs, Load

\* A job that has read whether the group is active.
LEMMA OnJob ==
  ASSUME NEW j \in Jobs, NEW b \in BOOLEAN
  PROVE  On(j, b) \in Jobs /\ On(j, b).tok = j.tok /\ On(j, b).on = b
  BY DEF Jobs, On

\* The fields of a job have their types.
LEMMA JobTypes ==
  ASSUME NEW j \in Jobs
  PROVE  /\ j.task \in Tasks /\ j.on \in BOOLEAN
         /\ j.tok \in Nat /\ j.data \in Nat
  BY DEF Jobs, Tasks

\* A move that keeps the job is a move with that job.
LEMMA GotoIsGotoWith ==
  ASSUME WorkerType, NEW w \in Workers, NEW label, Goto(w, label)
  PROVE  GotoWith(w, label, job[w])
  BY DEF WorkerType, Goto, GotoWith

\* What a move leaves.
LEMMA Moved ==
  ASSUME WorkerType, NEW w \in Workers, NEW label \in PCs, NEW j \in Jobs,
         GotoWith(w, label, j)
  PROVE  /\ WorkerType' /\ pc'[w] = label /\ job'[w] = j
         /\ \A v \in Workers \ {w} : pc'[v] = pc[v] /\ job'[v] = job[v]
  BY DEF WorkerType, GotoWith

-----------------------------------------------------------------------------
(* What a step can do *)

\* Every step changes the epoch in one of those ways.
LEMMA EpochSteps ==
  ASSUME epoch \in Nat, retirements \in Nat, [Next]_vars
  PROVE  EpochStep
<1> USE DEF EpochStep
<1>1. ASSUME NEW w \in Workers, Begin(w) \/ CallFails(w) \/ Crash(w)
      PROVE  EpochStep
  BY <1>1 DEF Begin, ListSchedulableAccounts, SyncAccount, HandleAccountEvent,
     HandleLastUsedEvent, HandleGroupEvent, RebuildFullSnapshot, Start,
     CallFails, Crash
<1>2. ASSUME NEW w \in Workers, Continue(w), ~Apply(w)
      PROVE  EpochStep
  BY <1>2 DEF Continue, ListActiveGroups, SetAccount, CaptureBucketWriteToken,
     TryLockBucket, LoadAccounts, AllocateSnapshotVersion,
     WriteSnapshotVersion, ActivateSnapshotVersion, UnlockBucket,
     TryAcquireGroupLifecycleLease, ReadGroup, ReleaseGroupLifecycleLease
<1>3. ASSUME NEW w \in Workers, Apply(w)
      PROVE  EpochStep
  BY <1>3 DEF Apply, ReopenBucket, RetireBucket
<1>4. CASE ChangeAccounts \/ ChangeGroup \/ LockExpires \/ LeaseExpires
           \/ UNCHANGED vars
  BY <1>4 DEF ChangeAccounts, ChangeGroup, LockExpires, LeaseExpires, vars
<1> QED
  BY <1>1, <1>2, <1>3, <1>4 DEF Next

\* Only a writer whose token is the epoch's changes the snapshot, and what it
\* loaded is then of this life.
LEMMA SnapSteps ==
  ASSUME FenceFacts, [Next]_vars
  PROVE  SnapStep
<1> USE DEF SnapStep
<1>1. ASSUME NEW w \in Workers, Begin(w) \/ CallFails(w) \/ Crash(w)
      PROVE  SnapStep
  BY <1>1 DEF Begin, ListSchedulableAccounts, SyncAccount, HandleAccountEvent,
     HandleLastUsedEvent, HandleGroupEvent, RebuildFullSnapshot, Start,
     CallFails, Crash
<1>2. ASSUME NEW w \in Workers, Continue(w), ~Apply(w),
             ~ActivateSnapshotVersion(w)
      PROVE  SnapStep
  BY <1>2 DEF Continue, ListActiveGroups, SetAccount, CaptureBucketWriteToken,
     TryLockBucket, LoadAccounts, AllocateSnapshotVersion,
     WriteSnapshotVersion, UnlockBucket,
     TryAcquireGroupLifecycleLease, ReadGroup, ReleaseGroupLifecycleLease
<1>3. ASSUME NEW w \in Workers, ActivateSnapshotVersion(w)
      PROVE  SnapStep
  <2>1. /\ pc[w] = "activate" /\ UNCHANGED <<retired, retirements>>
        /\ \/ /\ ~retired /\ job[w].tok = epoch
              /\ snap' = [rev |-> job[w].data, born |-> job[w].born]
           \/ UNCHANGED snap
    BY <1>3 DEF ActivateSnapshotVersion, Fenced
  <2>2. job[w].tok = epoch => job[w].born = retirements
    BY <2>1 DEF FenceFacts, Fits, Loaded
  <2> QED
    BY <2>1, <2>2
<1>4. ASSUME NEW w \in Workers, Apply(w)
      PROVE  SnapStep
  <2>1. \/ snap' = NoSnapshot
        \/ ~retired /\ UNCHANGED <<snap, retirements>> /\ retired' = FALSE
    BY <1>4 DEF Apply, ReopenBucket, RetireBucket, Clear
  <2> QED
    BY <2>1
<1>5. CASE ChangeAccounts \/ ChangeGroup \/ LockExpires \/ LeaseExpires
           \/ UNCHANGED vars
  BY <1>5 DEF ChangeAccounts, ChangeGroup, LockExpires, LeaseExpires, vars
<1> QED
  BY <1>1, <1>2, <1>3, <1>4, <1>5 DEF Next

\* A worker that needs no token knows nothing.
LEMMA NothingKnown ==
  ASSUME NEW w \in Workers, NEW j \in Jobs,
         NEW label \in {"idle", "setAccount", "listGroups", "capture",
                        "unlock", "lease", "group", "apply"},
         GotoWith(w, label, j)
  PROVE  Move(w, label, j)
  BY DEF Move, Fits, Tokened, Loaded, PCs

\* A worker that ends knows nothing.
LEMMA EndMoves ==
  ASSUME NEW w \in Workers, End(w)
  PROVE  \E label, j : Move(w, label, j)
<1>1. GotoWith(w, "idle", NoJob)
  BY DEF End
<1> QED
  BY <1>1, NewJobs, NothingKnown

\* A worker that starts anew knows nothing.
LEMMA FreshMoves ==
  ASSUME WorkerType, NEW w \in Workers,
         NEW label \in {"capture", "lease", "unlock"}, GotoFresh(w, label)
  PROVE  \E j : Move(w, label, j)
<1>1. GotoWith(w, label, Task(job[w].task))
  BY DEF GotoFresh, Task
<1>2. job[w].task \in Tasks
  BY JobTypes DEF WorkerType
<1>3. Task(job[w].task) \in Jobs
  BY <1>2, NewJobs
<1> QED
  BY <1>1, <1>3, NothingKnown

\* So does one that begins a task.
LEMMA BeginMoves ==
  ASSUME TypeOK, NEW w \in Workers, Begin(w)
  PROVE  \E label, j : Move(w, label, j)
<1>0. rev \in Nat /\ entry \in Nat /\ registered \in BOOLEAN
  BY DEF TypeOK
<1>1. \/ GotoWith(w, "capture", Task("read"))
      \/ GotoWith(w, "setAccount", TaskData("sync", rev))
      \/ GotoWith(w, "setAccount", TaskData("event", rev))
      \/ GotoWith(w, "setAccount", TaskData("sync", entry))
      \/ GotoWith(w, "lease", Task("event"))
      \/ GotoWith(w, "listGroups", TaskOn("full", registered))
  BY DEF Begin, ListSchedulableAccounts, SyncAccount, HandleAccountEvent,
     HandleLastUsedEvent, HandleGroupEvent, RebuildFullSnapshot, Start, Task,
     TaskData, TaskOn
<1>2. /\ Task("read") \in Jobs /\ Task("event") \in Jobs
      /\ TaskData("sync", rev) \in Jobs /\ TaskData("event", rev) \in Jobs
      /\ TaskData("sync", entry) \in Jobs
      /\ TaskOn("full", registered) \in Jobs
  BY <1>0, NewJobs DEF Tasks
<1> QED
  BY <1>1, <1>2, NothingKnown

\* A worker that continues knows what its label says.
LEMMA ContinueMoves ==
  ASSUME TypeOK, FenceFacts, NEW w \in Workers, Continue(w)
  PROVE  \E label, j : Move(w, label, j)
<1> DEFINE Moves == \E label, j : Move(w, label, j)
<1>a. /\ WorkerType /\ epoch \in Nat /\ retirements \in Nat /\ rev \in Nat
      /\ groupActive \in BOOLEAN
  BY DEF TypeOK, WorkerType
<1>b. job[w] \in Jobs /\ job[w].tok \in Nat
  BY <1>a, JobTypes DEF WorkerType
<1>c. Fits(pc[w], job[w], epoch, retirements)
  BY DEF FenceFacts
<1>d. \A label : Goto(w, label) => GotoWith(w, label, job[w])
  BY <1>a, GotoIsGotoWith
<1>1. CASE ListActiveGroups(w)
  <2>1. GotoFresh(w, "capture") \/ GotoFresh(w, "lease") \/ End(w)
    BY <1>1 DEF ListActiveGroups
  <2> QED
    BY <1>a, <2>1, FreshMoves, EndMoves
<1>2. CASE SetAccount(w)
  <2>1. GotoFresh(w, "capture") \/ End(w)
    BY <1>2 DEF SetAccount
  <2> QED
    BY <1>a, <2>1, FreshMoves, EndMoves
<1>3. CASE CaptureBucketWriteToken(w)
  <2>1. \/ Goto(w, "lease") \/ End(w)
        \/ /\ epoch' \in Nat \ {0}
           /\ \/ GotoWith(w, "load", Tok(job[w], epoch'))
              \/ GotoWith(w, "lock", Tok(job[w], epoch'))
    BY <1>3, <1>a DEF CaptureBucketWriteToken, Tok
  <2>2. CASE Goto(w, "lease") \/ End(w)
    BY <1>b, <1>d, <2>2, NothingKnown, EndMoves
  <2>3. ASSUME epoch' \in Nat \ {0}, NEW label \in {"load", "lock"},
               GotoWith(w, label, Tok(job[w], epoch'))
        PROVE  Moves
    <3>1. Tok(job[w], epoch') \in Jobs /\ Tok(job[w], epoch').tok = epoch'
      BY <1>b, <2>3, TokJob
    <3>2. Move(w, label, Tok(job[w], epoch'))
      BY <2>3, <3>1 DEF Move, Fits, Tokened, Loaded, PCs
    <3> QED
      BY <3>2
  <2> QED
    BY <2>1, <2>2, <2>3
<1>4. CASE TryLockBucket(w)
  <2>1. End(w) \/ GotoWith(w, "load", job[w])
    BY <1>4, <1>d DEF TryLockBucket
  <2>2. CASE GotoWith(w, "load", job[w])
    <3>1. pc[w] = "lock" /\ UNCHANGED <<epoch, retirements>>
      BY <1>4 DEF TryLockBucket
    <3>2. Move(w, "load", job[w])
      BY <1>b, <1>c, <2>2, <3>1 DEF Move, Fits, Tokened, Loaded, PCs
    <3> QED
      BY <3>2
  <2> QED
    BY <2>1, <2>2, EndMoves
<1>5. CASE LoadAccounts(w)
  <2>1. /\ pc[w] = "load" /\ UNCHANGED <<epoch, retirements>>
        /\ GotoWith(w, "allocate", Load(job[w], rev, retirements))
    BY <1>5 DEF LoadAccounts, Load
  <2> DEFINE j == Load(job[w], rev, retirements)
  <2>2. j \in Jobs /\ j.tok = job[w].tok /\ j.born = retirements
    BY <1>a, <1>b, LoadJob
  <2> HIDE DEF j
  <2>3. Move(w, "allocate", j)
    BY <1>c, <2>1, <2>2 DEF Move, Fits, Tokened, Loaded, PCs, j
  <2> QED
    BY <2>3
<1>6. CASE AllocateSnapshotVersion(w) \/ WriteSnapshotVersion(w)
  <2>1. /\ pc[w] \in {"allocate", "write"} /\ UNCHANGED <<epoch, retirements>>
        /\ \/ End(w) \/ GotoFresh(w, "unlock")
           \/ GotoWith(w, "write", job[w])
           \/ GotoWith(w, "activate", job[w])
    BY <1>6, <1>d DEF AllocateSnapshotVersion, WriteSnapshotVersion, Finish
  <2>2. ASSUME NEW label \in {"write", "activate"}, GotoWith(w, label, job[w])
        PROVE  Moves
    <3>1. Move(w, label, job[w])
      BY <1>b, <1>c, <2>1, <2>2 DEF Move, Fits, Tokened, Loaded, PCs
    <3> QED
      BY <3>1
  <2> QED
    BY <1>a, <2>1, <2>2, EndMoves, FreshMoves
<1>7. CASE ActivateSnapshotVersion(w)
  <2>1. End(w) \/ GotoFresh(w, "unlock")
    BY <1>7 DEF ActivateSnapshotVersion, Finish
  <2> QED
    BY <1>a, <2>1, EndMoves, FreshMoves
<1>8. CASE UnlockBucket(w) \/ TryAcquireGroupLifecycleLease(w)
  <2>1. End(w) \/ GotoWith(w, "group", job[w])
    BY <1>8, <1>d DEF UnlockBucket, TryAcquireGroupLifecycleLease
  <2> QED
    BY <1>b, <2>1, EndMoves, NothingKnown
<1>9. CASE ReadGroup(w)
  <2>1. GotoWith(w, "apply", On(job[w], groupActive))
    BY <1>9 DEF ReadGroup, On
  <2>2. On(job[w], groupActive) \in Jobs
    BY <1>a, <1>b, OnJob
  <2> QED
    BY <2>1, <2>2, NothingKnown
<1>10. CASE Apply(w)
  <2>1. /\ GotoWith(w, "release", Tok(job[w], epoch'))
        /\ epoch' \in Nat /\ (job[w].on => epoch' # 0)
    BY <1>10, <1>a DEF Apply, ReopenBucket, RetireBucket, Tok
  <2>2. /\ Tok(job[w], epoch') \in Jobs /\ Tok(job[w], epoch').tok = epoch'
        /\ Tok(job[w], epoch').on = job[w].on
    BY <1>b, <2>1, TokJob
  <2>3. Move(w, "release", Tok(job[w], epoch'))
    BY <2>1, <2>2 DEF Move, Fits, Tokened, Loaded, PCs
  <2> QED
    BY <2>3
<1>11. CASE ReleaseGroupLifecycleLease(w)
  <2>1. /\ pc[w] = "release" /\ UNCHANGED <<epoch, retirements>>
        /\ \/ End(w)
           \/ job[w].on /\ GotoWith(w, "lock", On(job[w], FALSE))
    BY <1>11 DEF ReleaseGroupLifecycleLease, On
  <2>2. CASE job[w].on /\ GotoWith(w, "lock", On(job[w], FALSE))
    <3>1. On(job[w], FALSE) \in Jobs /\ On(job[w], FALSE).tok = job[w].tok
      BY <1>b, OnJob
    <3>2. Move(w, "lock", On(job[w], FALSE))
      BY <1>c, <2>1, <2>2, <3>1 DEF Move, Fits, Tokened, Loaded, PCs
    <3> QED
      BY <3>2
  <2> QED
    BY <2>1, <2>2, EndMoves
<1> QED
  BY <1>1, <1>2, <1>3, <1>4, <1>5, <1>6, <1>7, <1>8, <1>9, <1>10, <1>11
     DEF Continue

\* Every step moves at most one worker, to where its token allows it to be.
LEMMA WorkerSteps ==
  ASSUME TypeOK, FenceFacts, [Next]_vars
  PROVE  WorkerStep
<1>1. ASSUME NEW w \in Workers, Begin(w) \/ Continue(w)
      PROVE  WorkerStep
  BY <1>1, BeginMoves, ContinueMoves DEF WorkerStep
<1>2. ASSUME NEW w \in Workers, CallFails(w) \/ Crash(w)
      PROVE  WorkerStep
  <2>1. End(w)
    BY <1>2 DEF CallFails, Crash
  <2> QED
    BY <2>1, EndMoves DEF WorkerStep
<1>3. CASE ChangeAccounts \/ ChangeGroup \/ LockExpires \/ LeaseExpires
           \/ UNCHANGED vars
  BY <1>3 DEF ChangeAccounts, ChangeGroup, LockExpires, LeaseExpires, vars,
     WorkerStep
<1> QED
  BY <1>1, <1>2, <1>3 DEF Next

\* What a step can do to the rest of the state.
PlainStep ==
  /\ rev' \in {rev, rev + 1}
  /\ \/ UNCHANGED changes
     \/ changes < MaxChanges /\ changes' = changes + 1
  /\ \/ UNCHANGED faults
     \/ faults < MaxFaults /\ faults' = faults + 1
  /\ UNCHANGED entry \/ \E w \in Workers : entry' = job[w].data
  /\ lease' \in {lease, None} \cup Workers
  /\ \/ snap' \in {snap, NoSnapshot}
     \/ \E w \in Workers : snap' = [rev |-> job[w].data, born |-> job[w].born]

FlagStep ==
  /\ UNCHANGED groupActive \/ groupActive' \in BOOLEAN
  /\ UNCHANGED retired \/ retired' \in BOOLEAN
  /\ UNCHANGED registered \/ registered' \in BOOLEAN
  /\ UNCHANGED locked \/ locked' \in BOOLEAN

VersionStep ==
  UNCHANGED ver \/ \E f : DOMAIN f = DOMAIN ver /\ ver' = Ranked(f)

\* Every step changes the numbers in one of those ways.
LEMMA PlainSteps ==
  ASSUME [Next]_vars
  PROVE  PlainStep
<1> USE DEF PlainStep, Changed
<1>1. ASSUME NEW w \in Workers, Begin(w) \/ CallFails(w) \/ Crash(w)
      PROVE  PlainStep
  BY <1>1 DEF Begin, ListSchedulableAccounts, SyncAccount, HandleAccountEvent,
     HandleLastUsedEvent, HandleGroupEvent, RebuildFullSnapshot, Start,
     CallFails, Crash
<1>2. ASSUME NEW w \in Workers, Continue(w)
      PROVE  PlainStep
  BY <1>2 DEF Continue, ListActiveGroups, SetAccount, CaptureBucketWriteToken,
     TryLockBucket, LoadAccounts, AllocateSnapshotVersion,
     WriteSnapshotVersion, ActivateSnapshotVersion, UnlockBucket,
     TryAcquireGroupLifecycleLease, ReadGroup, Apply, ReopenBucket,
     RetireBucket, Clear, ReleaseGroupLifecycleLease
<1>3. CASE ChangeAccounts \/ ChangeGroup \/ LockExpires \/ LeaseExpires
           \/ UNCHANGED vars
  BY <1>3 DEF ChangeAccounts, ChangeGroup, LockExpires, LeaseExpires, vars
<1> QED
  BY <1>1, <1>2, <1>3 DEF Next

\* Every step changes the flags in one of those ways.
LEMMA FlagSteps ==
  ASSUME [Next]_vars
  PROVE  FlagStep
<1> USE DEF FlagStep
<1>1. ASSUME NEW w \in Workers, Begin(w) \/ CallFails(w) \/ Crash(w)
      PROVE  FlagStep
  BY <1>1 DEF Begin, ListSchedulableAccounts, SyncAccount, HandleAccountEvent,
     HandleLastUsedEvent, HandleGroupEvent, RebuildFullSnapshot, Start,
     CallFails, Crash
<1>2. ASSUME NEW w \in Workers, Continue(w)
      PROVE  FlagStep
  BY <1>2 DEF Continue, ListActiveGroups, SetAccount, CaptureBucketWriteToken,
     TryLockBucket, LoadAccounts, AllocateSnapshotVersion,
     WriteSnapshotVersion, ActivateSnapshotVersion, UnlockBucket,
     TryAcquireGroupLifecycleLease, ReadGroup, Apply, ReopenBucket,
     RetireBucket, Clear, ReleaseGroupLifecycleLease
<1>3. CASE ChangeAccounts \/ ChangeGroup \/ LockExpires \/ LeaseExpires
           \/ UNCHANGED vars
  BY <1>3 DEF ChangeAccounts, ChangeGroup, LockExpires, LeaseExpires, vars
<1> QED
  BY <1>1, <1>2, <1>3 DEF Next

\* Every step changes the versions in one of those ways.
LEMMA VersionSteps ==
  ASSUME [Next]_vars
  PROVE  VersionStep
<1> DEFINE Set(w, n) == ver' = Ranked([ver EXCEPT ![w] = n])
<1>0. \A w, n : Set(w, n) => VersionStep
  BY DEF VersionStep
<1>1. ASSUME NEW w \in Workers, Begin(w) \/ CallFails(w) \/ Crash(w)
      PROVE  VersionStep
  <2>1. UNCHANGED ver \/ Set(w, 0)
    BY <1>1 DEF Begin, ListSchedulableAccounts, SyncAccount,
       HandleAccountEvent, HandleLastUsedEvent, HandleGroupEvent,
       RebuildFullSnapshot, Start, CallFails, Crash
  <2> QED
    BY <1>0, <2>1 DEF VersionStep
<1>2. ASSUME NEW w \in Workers, Continue(w)
      PROVE  VersionStep
  <2>1. CASE AllocateSnapshotVersion(w)
    <3>1. UNCHANGED ver \/ Set(w, Cardinality(DOMAIN ver) + 1)
      BY <2>1 DEF AllocateSnapshotVersion, Incr
    <3> QED
      BY <1>0, <3>1 DEF VersionStep
  <2>2. CASE ActivateSnapshotVersion(w)
    <3>1. \/ ver' = Ranked([ver EXCEPT ![None] = ver[w], ![w] = 0])
          \/ Set(w, 0)
      BY <2>2 DEF ActivateSnapshotVersion
    <3>2. DOMAIN [ver EXCEPT ![None] = ver[w], ![w] = 0] = DOMAIN ver
      OBVIOUS
    <3> QED
      BY <1>0, <3>1, <3>2 DEF VersionStep
  <2>3. CASE Apply(w)
    <3>1. UNCHANGED ver \/ Set(None, 0)
      BY <2>3 DEF Apply, ReopenBucket, RetireBucket, Clear
    <3> QED
      BY <1>0, <3>1 DEF VersionStep
  <2>4. CASE ~AllocateSnapshotVersion(w) /\ ~ActivateSnapshotVersion(w)
             /\ ~Apply(w)
    BY <1>2, <2>4 DEF Continue, ListActiveGroups, SetAccount,
       CaptureBucketWriteToken, TryLockBucket, LoadAccounts,
       WriteSnapshotVersion, UnlockBucket, TryAcquireGroupLifecycleLease,
       ReadGroup, ReleaseGroupLifecycleLease, VersionStep
  <2> QED
    BY <2>1, <2>2, <2>3, <2>4
<1>3. CASE ChangeAccounts \/ ChangeGroup \/ LockExpires \/ LeaseExpires
           \/ UNCHANGED vars
  BY <1>3 DEF ChangeAccounts, ChangeGroup, LockExpires, LeaseExpires, vars,
     VersionStep
<1> QED
  BY <1>1, <1>2, <1>3 DEF Next

\* Ranks are numbers.
LEMMA RankedType ==
  ASSUME NEW f, IsFiniteSet(DOMAIN f)
  PROVE  Ranked(f) \in [DOMAIN f -> Nat]
<1>1. ASSUME NEW x \in DOMAIN f
      PROVE  Cardinality({y \in DOMAIN f : 0 < f[y] /\ f[y] <= f[x]}) \in Nat
  <2>1. {y \in DOMAIN f : 0 < f[y] /\ f[y] <= f[x]} \subseteq DOMAIN f
    OBVIOUS
  <2>2. IsFiniteSet({y \in DOMAIN f : 0 < f[y] /\ f[y] <= f[x]})
    BY <2>1, FS_Subset
  <2> QED
    BY <2>2, FS_CardinalityType
<1> QED
  BY <1>1 DEF Ranked

-----------------------------------------------------------------------------
(* The invariant *)

\* The invariant holds at first.
LEMMA InitFInv == Init => FInv
<1> SUFFICES ASSUME Init PROVE FInv
  OBVIOUS
<1>1. TypeOK
  <2>1. pc \in [Workers -> PCs] /\ job \in [Workers -> Jobs]
    BY NewJobs DEF Init, PCs
  <2>2. snap \in [rev : Nat, born : Nat]
    BY DEF Init, NoSnapshot
  <2>3. groupActive \in BOOLEAN /\ retired \in BOOLEAN
        /\ registered \in BOOLEAN /\ locked \in BOOLEAN
    BY DEF Init
  <2> QED
    BY <2>1, <2>2, <2>3 DEF Init, TypeOK
<1>2. FenceFacts
  BY DEF Init, FenceFacts, Fits, Tokened, Loaded
<1>3. RetiredIsUnserved /\ ServedIsOfThisLife
  BY DEF Init, RetiredIsUnserved, ServedIsOfThisLife
<1> QED
  BY <1>1, <1>2, <1>3 DEF FInv

\* Every step keeps it.
LEMMA NextFInv == FInv /\ [Next]_vars => FInv'
<1> SUFFICES ASSUME FInv, [Next]_vars PROVE FInv'
  OBVIOUS
<1>0. TypeOK /\ FenceFacts /\ RetiredIsUnserved /\ ServedIsOfThisLife
  BY DEF FInv
<1>1. epoch \in Nat /\ retirements \in Nat /\ WorkerType
  BY <1>0 DEF TypeOK, WorkerType
<1>2. /\ EpochStep /\ SnapStep /\ WorkerStep
      /\ PlainStep /\ FlagStep /\ VersionStep
  BY <1>0, <1>1, EpochSteps, SnapSteps, WorkerSteps, PlainSteps, FlagSteps,
     VersionSteps
<1>3. epoch' \in Nat /\ retirements' \in Nat
  BY <1>1, <1>2 DEF EpochStep
<1>4. RetiredIsUnserved' /\ ServedIsOfThisLife'
  BY <1>0, <1>2 DEF SnapStep, RetiredIsUnserved, ServedIsOfThisLife
\* A worker that stays where it is knows what it knew.
<1>5. ASSUME NEW w \in Workers, pc'[w] = pc[w], job'[w] = job[w]
      PROVE  Fits(pc'[w], job'[w], epoch', retirements')
  <2>1. Fits(pc[w], job[w], epoch, retirements) /\ job[w].tok \in Nat
    BY <1>0, <1>1, JobTypes DEF FenceFacts, WorkerType
  <2> QED
    BY <1>1, <1>2, <1>5, <2>1 DEF EpochStep, Fits, Tokened, Loaded
<1>6. WorkerType' /\ FenceFacts'
  <2>1. CASE UNCHANGED <<pc, job>>
    BY <1>1, <1>5, <2>1 DEF WorkerType, FenceFacts
  <2>2. ASSUME NEW w \in Workers, NEW label, NEW j, Move(w, label, j)
        PROVE  WorkerType' /\ FenceFacts'
    <3>1. /\ WorkerType' /\ pc'[w] = label /\ job'[w] = j
          /\ \A v \in Workers \ {w} : pc'[v] = pc[v] /\ job'[v] = job[v]
      BY <1>1, <2>2, Moved DEF Move
    <3>2. Fits(label, j, epoch', retirements')
      BY <2>2 DEF Move
    <3> QED
      BY <1>5, <3>1, <3>2 DEF FenceFacts
  <2> QED
    BY <1>2, <2>1, <2>2 DEF WorkerStep
<1>7. ver' \in [Workers \cup {None} -> Nat]
  <2>1. /\ ver \in [Workers \cup {None} -> Nat]
        /\ DOMAIN ver = Workers \cup {None}
    BY <1>0 DEF TypeOK
  <2>2. IsFiniteSet(Workers \cup {None})
    BY FS_AddElement
  <2>3. ASSUME NEW f, DOMAIN f = DOMAIN ver, ver' = Ranked(f)
        PROVE  ver' \in [Workers \cup {None} -> Nat]
    BY <2>1, <2>2, <2>3, RankedType
  <2> QED
    BY <1>2, <2>1, <2>3 DEF VersionStep
<1>8. \A w \in Workers : job[w].data \in Nat /\ job[w].born \in Nat
  BY <1>1 DEF WorkerType, Jobs
<1>9. /\ rev' \in Nat /\ changes' \in 0..MaxChanges /\ faults' \in 0..MaxFaults
      /\ entry' \in Nat /\ lease' \in Workers \cup {None}
  BY <1>0, <1>2, <1>8 DEF TypeOK, PlainStep
<1>10. snap' \in [rev : Nat, born : Nat]
  BY <1>0, <1>2, <1>8 DEF TypeOK, PlainStep, NoSnapshot
<1>11. /\ groupActive' \in BOOLEAN /\ retired' \in BOOLEAN
       /\ registered' \in BOOLEAN /\ locked' \in BOOLEAN
  BY <1>0, <1>2 DEF TypeOK, FlagStep
<1>12. TypeOK'
  BY <1>3, <1>6, <1>7, <1>9, <1>10, <1>11 DEF TypeOK, WorkerType
<1> QED
  BY <1>4, <1>6, <1>12 DEF FInv

\* It holds always.
LEMMA Invariant == Spec => []FInv
  BY InitFInv, NextFInv, PTL DEF Spec

-----------------------------------------------------------------------------
(* Theorems *)

\* The variables keep their types.
THEOREM TypeCorrect == Spec => []TypeOK
<1>1. FInv => TypeOK
  BY DEF FInv
<1> QED
  BY <1>1, Invariant, PTL

\* A retired bucket serves nothing, whoever captured a token before: activation
\* checks the token and writes in one script.
THEOREM RetiredUnserved == Spec => []RetiredIsUnserved
<1>1. FInv => RetiredIsUnserved
  BY DEF FInv
<1> QED
  BY <1>1, Invariant, PTL

\* A bucket serves accounts that were loaded after its last retirement: each
\* retirement moves the epoch past every token given out before.
THEOREM ServedThisLife == Spec => []ServedIsOfThisLife
<1>1. FInv => ServedIsOfThisLife
  BY DEF FInv
<1> QED
  BY <1>1, Invariant, PTL

-----------------------------------------------------------------------------
(***************************************************************************)
(* The outbox.  PInv says that rows are handled in the order of their ids: *)
(* what lies at or below a handled row is handled or came late.  Unseen    *)
(* says which row will make a poll load a change that the cache lacks.     *)
(***************************************************************************)

Visible(i) == st[i] \in {"committed", "deleted"}

\* Ids are drawn in order, and a client's row is its own until it commits.
RowFacts == \A i \in Ids : i > next => st[i] = "none"
ClientFacts ==
  \A c \in Clients :
    /\ row[c] # 0 => st[row[c]] = "open"
    /\ cpc[c] = "insert" => row[c] # 0
    /\ \A d \in Clients : row[c] = row[d] /\ row[c] # 0 => c = d

\* What has been read had been committed, and its dedup key is released.
ReadFacts ==
  /\ \A i \in handled : Visible(i) /\ i \notin keyed
  /\ \A p \in Pollers : \A i \in todo[p] : Visible(i) /\ i \notin keyed

\* The rows up to n are handled or came late, except for rest.
Settled(n, rest) ==
  \A i \in Ids : i <= n /\ Visible(i) => i \in handled \cup late \cup rest

\* Rows are handled in the order of their ids.
Closed ==
  /\ \A n \in handled : Settled(n, {})
  /\ \A i \in Ids : st[i] = "deleted" => i \in handled \cup late
  /\ \A i \in late : Visible(i)

Reached(n) == n = 0 \/ n \in handled

\* A poll continues from a row that was handled, and has in todo what it read
\* and has not handled.
PollFacts(p) ==
  /\ ppc[p] \in {"idle", "list"} => todo[p] = {} /\ ~loaded[p]
  /\ ppc[p] = "list" => Reached(wm[p])
  /\ ppc[p] \in {"handle", "publish"} =>
       /\ last[p] \in todo[p] /\ Settled(last[p], todo[p])
       /\ \A i \in todo[p] : i <= last[p]
  /\ ppc[p] \in {"mark", "clean"} => last[p] \in handled /\ todo[p] = {}
  /\ ppc[p] = "publish" => loaded[p]

PInv == /\ OutboxTypeOK /\ RowFacts /\ ClientFacts /\ ReadFacts /\ Closed
        /\ Reached(watermark) /\ \A p \in Pollers : PollFacts(p)

\* A row that will make some poll load: no poll that has it loaded before the
\* last change.
Pending(i) ==
  /\ Committed(i) /\ i \notin handled \cup late
  /\ \A p \in Pollers : loaded[p] /\ ~(ppc[p] = "publish" /\ fresh[p])
                        => i \notin todo[p]
Unseen ==
  stale /\ ~missed => \/ \E c \in Clients : cpc[c] \in {"enqueue", "insert"}
                      \/ \E i \in Ids : Pending(i)

USE MaxEventsAssumption, BatchSizeAssumption
    DEF rowVars, clientVars, pollerVars, redis, history, Ids

-----------------------------------------------------------------------------
(* The clients *)

\* What an INSERT leaves: a new row with the next id, or nothing.
NewRow(c, label) ==
  /\ next + 1 \in Ids /\ next' = next + 1 /\ st[next + 1] = "none"
  /\ st' = [st EXCEPT ![next + 1] = "open"]
  /\ keyed' \in {keyed, keyed \cup {next + 1}}
  /\ cpc' = [cpc EXCEPT ![c] = label] /\ row' = [row EXCEPT ![c] = next + 1]
NoRow(c, label) ==
  /\ Conflict /\ UNCHANGED <<st, keyed, next>>
  /\ cpc' = [cpc EXCEPT ![c] = IF label = "tx" THEN "tx" ELSE "idle"]
  /\ row' = [row EXCEPT ![c] = 0]

\* Those are the outcomes of an INSERT.
LEMMA Inserted ==
  ASSUME RowType, RowFacts, NEW c \in Clients, NEW label, Insert(c, label)
  PROVE  NewRow(c, label) \/ NoRow(c, label)
<1>1. next \in Nat /\ next <= MaxEvents
  BY DEF RowType
<1>2. ASSUME next < MaxEvents PROVE next + 1 \in Ids /\ st[next + 1] = "none"
  BY <1>1, <1>2 DEF RowFacts
<1>3. CASE /\ next < MaxEvents /\ next' = next + 1
           /\ st' = [st EXCEPT ![next'] = "open"]
           /\ \/ ~Conflict /\ ~Blocked /\ keyed' = keyed \cup {next'}
              \/ UNCHANGED keyed
           /\ cpc' = [cpc EXCEPT ![c] = label]
           /\ row' = [row EXCEPT ![c] = next']
  BY <1>2, <1>3 DEF NewRow
<1>4. CASE /\ Conflict
           /\ cpc' = [cpc EXCEPT ![c] = IF label = "tx" THEN "tx" ELSE "idle"]
           /\ row' = [row EXCEPT ![c] = 0]
           /\ UNCHANGED rowVars
  BY <1>4 DEF NoRow
<1> QED
  BY <1>3, <1>4 DEF Insert

\* What a step of a client can do to the rows: one that commits is late when a
\* row with a higher id has been read.
ClientStep ==
  /\ UNCHANGED <<watermark, lock, ppc, wm, todo, last, loaded, handled>>
  /\ \A i \in Ids :
       /\ Visible(i) => st'[i] = st[i]
       /\ st'[i] = "deleted" => st[i] = "deleted"
       /\ Visible(i)' => Visible(i) \/ i \in late' \/ ~ReadBeyond(i)
       /\ i \in keyed' /\ i \notin keyed => st'[i] = "open"
  /\ late \subseteq late' /\ \A i \in late' \ late : Visible(i)'

\* Every step of a client keeps the types and the facts about rows.
LEMMA ClientSteps ==
  ASSUME OutboxTypeOK, RowFacts, ClientFacts, NEW c \in Clients, Client(c)
  PROVE  /\ RowType' /\ ClientType' /\ RowFacts' /\ ClientFacts'
         /\ ClientStep
<1>a. /\ st \in [Ids -> {"none", "open", "committed", "deleted",
                         "rolledback"}]
      /\ keyed \subseteq Ids /\ next \in 0..MaxEvents
      /\ cpc \in [Clients -> {"idle", "enqueue", "insert", "tx"}]
      /\ row \in [Clients -> 0..MaxEvents] /\ RowType /\ ClientType
  BY DEF OutboxTypeOK, RowType, ClientType
<1>b. UNCHANGED <<watermark, lock, ppc, wm, todo, last, loaded, handled>>
  BY DEF Client, Change, Enqueue, ChangeInTx, Commit, EnqueueFails, Rollback
<1>1. ASSUME NEW label \in {"insert", "tx"}, Insert(c, label), UNCHANGED late
      PROVE  /\ RowType' /\ ClientType' /\ RowFacts' /\ ClientFacts'
             /\ ClientStep
  <2>1. CASE NewRow(c, label)
    <3>1. RowType' /\ ClientType'
      BY <1>a, <2>1 DEF NewRow, RowType, ClientType
    <3>2. RowFacts'
      BY <1>a, <2>1 DEF NewRow, RowFacts
    <3>3. ClientFacts'
      BY <1>a, <2>1 DEF NewRow, ClientFacts
    <3>4. ClientStep
      BY <1>a, <1>b, <1>1, <2>1 DEF NewRow, ClientStep, Visible
    <3> QED
      BY <3>1, <3>2, <3>3, <3>4
  <2>2. CASE NoRow(c, label)
    <3>1. RowType' /\ ClientType' /\ RowFacts' /\ ClientFacts'
      BY <1>a, <1>1, <2>2 DEF NoRow, RowType, ClientType, RowFacts,
         ClientFacts
    <3>2. ClientStep
      BY <1>b, <1>1, <2>2 DEF NoRow, ClientStep, Visible
    <3> QED
      BY <3>1, <3>2
  <2> QED
    BY <1>a, <1>1, <2>1, <2>2, Inserted
<1>2. CASE Enqueue(c) \/ ChangeInTx(c)
  BY <1>1, <1>2 DEF Enqueue, ChangeInTx
<1>3. CASE Change(c) \/ EnqueueFails(c)
  <2>1. /\ UNCHANGED <<st, keyed, next, row, late>>
        /\ \E label \in {"idle", "enqueue"} :
             cpc' = [cpc EXCEPT ![c] = label]
    BY <1>3 DEF Change, EnqueueFails
  <2>2. RowType' /\ ClientType' /\ RowFacts' /\ ClientFacts'
    BY <1>a, <2>1 DEF RowType, ClientType, RowFacts, ClientFacts
  <2>3. ClientStep
    BY <1>b, <2>1 DEF ClientStep, Visible
  <2> QED
    BY <2>2, <2>3
<1>4. CASE Commit(c) \/ Rollback(c)
  <2>1. /\ UNCHANGED next /\ keyed' \subseteq keyed /\ late \subseteq late'
        /\ cpc' = [cpc EXCEPT ![c] = "idle"] /\ row' = [row EXCEPT ![c] = 0]
    BY <1>4 DEF Commit, Rollback
  <2>2. \/ row[c] = 0 /\ UNCHANGED <<st, late>>
        \/ /\ row[c] # 0
           /\ \/ /\ st' = [st EXCEPT ![row[c]] = "committed"]
                 /\ ReadBeyond(row[c]) => row[c] \in late'
                 /\ late' \subseteq late \cup {row[c]}
              \/ st' = [st EXCEPT ![row[c]] = "rolledback"] /\ UNCHANGED late
    BY <1>4 DEF Commit, Rollback
  <2>3. row[c] # 0 => row[c] \in Ids /\ st[row[c]] = "open"
    BY <1>a DEF ClientFacts
  <2>4. RowType' /\ ClientType'
    BY <1>a, <2>1, <2>2 DEF RowType, ClientType
  <2>5. RowFacts'
    BY <1>a, <2>1, <2>2, <2>3 DEF RowFacts
  <2>6. ClientFacts'
    BY <1>a, <2>1, <2>2, <2>3 DEF ClientFacts
  <2>7. ClientStep
    BY <1>a, <1>b, <2>1, <2>2, <2>3 DEF ClientStep, Visible
  <2> QED
    BY <2>4, <2>5, <2>6, <2>7
<1> QED
  BY <1>2, <1>3, <1>4 DEF Client

-----------------------------------------------------------------------------
(* The rows that were read *)

\* A row that becomes visible below one that has been read is late, so what is
\* settled stays settled.
LEMMA SettledStays ==
  ASSUME ClientStep, NEW n \in Ids, Visible(n), NEW rest,
         \A i \in Ids : i < n => ReadBeyond(i), Settled(n, rest)
  PROVE  \A i \in Ids :
           i <= n /\ Visible(i)' => i \in handled \cup late' \cup rest
<1> SUFFICES ASSUME NEW i \in Ids, i <= n, Visible(i)'
             PROVE  i \in handled \cup late' \cup rest
  OBVIOUS
<1>1. CASE Visible(i)
  BY <1>1 DEF ClientStep, Settled
<1>2. CASE ~Visible(i)
  <2>1. i < n
    BY <1>2
  <2> QED
    BY <1>2, <2>1 DEF ClientStep
<1> QED
  BY <1>1, <1>2

\* What a client's step keeps of the pollers.
LEMMA ClientKeeps ==
  ASSUME PInv, NEW c \in Clients, Client(c)
  PROVE  PInv'
<1>a. /\ OutboxTypeOK /\ RowFacts /\ ClientFacts /\ ReadFacts /\ Closed
      /\ Reached(watermark) /\ \A p \in Pollers : PollFacts(p)
  BY DEF PInv
<1>b. /\ handled \subseteq Ids /\ todo \in [Pollers -> SUBSET Ids]
      /\ \A p \in Pollers : todo[p] \subseteq Ids
  BY <1>a DEF OutboxTypeOK, PollerType
<1>1. RowType' /\ ClientType' /\ RowFacts' /\ ClientFacts' /\ ClientStep
  BY <1>a, ClientSteps
<1>2. UNCHANGED <<watermark, lock, ppc, wm, todo, last, loaded, handled>>
  BY <1>1 DEF ClientStep
<1>3. OutboxTypeOK'
  <2>1. /\ failures' \in 0..MaxFaults
    BY <1>a DEF OutboxTypeOK, Client, Change, Enqueue, ChangeInTx, Commit,
       EnqueueFails, Rollback
  <2>2. fresh' \in [Pollers -> BOOLEAN] /\ stale' \in BOOLEAN
        /\ missed' \in BOOLEAN
    BY <1>a DEF OutboxTypeOK, Client, Change, Enqueue, ChangeInTx, Commit,
       EnqueueFails, Rollback, AccountChanged
  <2>3. late' \subseteq Ids
    <3>1. row[c] # 0 => row[c] \in Ids
      BY <1>a DEF OutboxTypeOK, ClientType
    <3> QED
      BY <1>a, <3>1 DEF OutboxTypeOK, Client, Change, Enqueue, ChangeInTx,
         Commit, EnqueueFails, Rollback
  <2> QED
    BY <1>a, <1>1, <1>2, <2>1, <2>2, <2>3 DEF OutboxTypeOK, PollerType
<1>4. ASSUME NEW i \in Ids, Visible(i), i \notin keyed
      PROVE  Visible(i)' /\ i \notin keyed'
  BY <1>1, <1>4 DEF ClientStep, Visible
<1>5. ReadFacts'
  BY <1>a, <1>b, <1>2, <1>4 DEF ReadFacts
<1>6. Closed'
  <2>1. ASSUME NEW n \in handled PROVE Settled(n, {})'
    <3>1. n \in Ids /\ Visible(n) /\ Settled(n, {})
      BY <1>a, <1>b, <2>1 DEF ReadFacts, Closed
    <3>2. \A i \in Ids : i < n => ReadBeyond(i)
      BY <2>1 DEF ReadBeyond
    <3>3. \A i \in Ids : i <= n /\ Visible(i)'
                         => i \in handled \cup late' \cup {}
      BY <1>1, <3>1, <3>2, SettledStays
    <3> QED
      BY <1>2, <3>3 DEF Settled
  <2>2. \A i \in Ids : st'[i] = "deleted" => i \in handled' \cup late'
    BY <1>a, <1>1, <1>2 DEF ClientStep, Closed
  <2>3. \A i \in late' : Visible(i)'
    <3>1. late \subseteq Ids
      BY <1>a DEF OutboxTypeOK
    <3> QED
      BY <1>a, <1>1, <3>1 DEF ClientStep, Closed, Visible
  <2> QED
    BY <1>2, <2>1, <2>2, <2>3 DEF Closed
<1>7. ASSUME NEW p \in Pollers PROVE PollFacts(p)'
  <2>1. PollFacts(p)
    BY <1>a
  <2>2. ASSUME ppc[p] \in {"handle", "publish"}
        PROVE  Settled(last[p], todo[p])'
    <3>1. /\ last[p] \in todo[p] /\ Settled(last[p], todo[p])
          /\ last[p] \in Ids /\ Visible(last[p])
      BY <1>a, <1>b, <2>1, <2>2 DEF PollFacts, ReadFacts
    <3>2. \A i \in Ids : i < last[p] => ReadBeyond(i)
      BY <2>2 DEF ReadBeyond
    <3>3. \A i \in Ids : i <= last[p] /\ Visible(i)'
                         => i \in handled \cup late' \cup todo[p]
      BY <1>1, <3>1, <3>2, SettledStays
    <3> QED
      BY <1>2, <3>3 DEF Settled
  <2> QED
    BY <1>2, <2>1, <2>2 DEF PollFacts, Reached
<1>8. Reached(watermark)'
  BY <1>a, <1>2 DEF Reached
<1> QED
  BY <1>1, <1>3, <1>5, <1>6, <1>7, <1>8 DEF PInv

-----------------------------------------------------------------------------
(* The pollers *)

\* What a step of p leaves alone.
PollerStep(p) ==
  /\ UNCHANGED <<next, cpc, row, late>>
  /\ \A q \in Pollers \ {p} :
       /\ ppc'[q] = ppc[q] /\ wm'[q] = wm[q] /\ todo'[q] = todo[q]
       /\ last'[q] = last[q] /\ loaded'[q] = loaded[q]
  /\ keyed' \subseteq keyed /\ handled \subseteq handled'
  /\ \A i \in Ids : /\ Visible(i)' <=> Visible(i)
                    /\ st'[i] = "open" <=> st[i] = "open"
                    /\ st'[i] = "none" <=> st[i] = "none"

\* The types of what a poll changes.
PollType ==
  /\ ppc \in [Pollers -> {"idle", "list", "handle", "publish", "mark",
                          "clean"}]
  /\ wm \in [Pollers -> 0..MaxEvents]
  /\ todo \in [Pollers -> SUBSET Ids]
  /\ last \in [Pollers -> 0..MaxEvents]
  /\ loaded \in [Pollers -> BOOLEAN]

\* Every step of a poller is of that kind and keeps the types.
LEMMA PollerSteps ==
  ASSUME OutboxTypeOK, NEW p \in Pollers, Poll(p) \/ PollFails(p)
  PROVE  OutboxTypeOK' /\ PollerStep(p)
<1>a. /\ RowType /\ ClientType /\ PollType /\ watermark \in 0..MaxEvents
      /\ lock \in Pollers \cup {None} /\ failures \in 0..MaxFaults
      /\ fresh \in [Pollers -> BOOLEAN] /\ stale \in BOOLEAN
      /\ missed \in BOOLEAN /\ handled \subseteq Ids /\ late \subseteq Ids
      /\ keyed \subseteq Ids
  BY DEF OutboxTypeOK, PollerType, PollType, RowType
<1>1. UNCHANGED <<next, cpc, row, late>> /\ keyed' \subseteq keyed
  BY DEF Poll, GetOutboxWatermark, ListAfterAndReleaseDedup, HandleEvent,
     Publish, SetOutboxWatermark, DeleteConsumedUpTo, PollFails
<1>2. /\ RowType'
      /\ \A i \in Ids : /\ Visible(i)' <=> Visible(i)
                        /\ st'[i] = "open" <=> st[i] = "open"
                        /\ st'[i] = "none" <=> st[i] = "none"
  <2>1. CASE UNCHANGED st
    BY <1>a, <1>1, <2>1 DEF RowType, Visible
  <2>2. CASE DeleteConsumedUpTo(p)
    <3>1. PICK d \in SUBSET {i \in Ids : i <= last[p] /\ Committed(i)} :
            st' = [i \in Ids |-> IF i \in d THEN "deleted" ELSE st[i]]
      BY <2>2 DEF DeleteConsumedUpTo
    <3>2. \A i \in d : st[i] = "committed"
      BY <3>1 DEF Committed
    <3> QED
      BY <1>a, <1>1, <3>1, <3>2 DEF RowType, Visible
  <2> QED
    BY <2>1, <2>2 DEF Poll, GetOutboxWatermark, ListAfterAndReleaseDedup,
       HandleEvent, Publish, SetOutboxWatermark, PollFails
<1>3. ASSUME Done(p), ppc[p] \in {"handle", "publish"}
      PROVE  /\ handled' \subseteq Ids /\ handled \subseteq handled'
             /\ ppc' \in [Pollers -> {"idle", "list", "handle", "publish",
                                     "mark", "clean"}]
             /\ todo' \in [Pollers -> SUBSET Ids]
             /\ \A q \in Pollers \ {p} :
                  ppc'[q] = ppc[q] /\ todo'[q] = todo[q]
  <2>1. PICK i \in todo[p] : /\ todo' = [todo EXCEPT ![p] = @ \ {i}]
                             /\ handled' = handled \cup {i}
                             /\ Proceed(p, IF todo[p] = {i} THEN "mark"
                                        ELSE "handle")
    BY <1>3 DEF Done
  <2>2. todo[p] \subseteq Ids
    BY <1>a DEF PollType
  <2> QED
    BY <1>a, <2>1, <2>2 DEF PollType, Proceed
<1> DEFINE Frame ==
      /\ PollType' /\ handled' \subseteq Ids /\ handled \subseteq handled'
      /\ watermark' \in 0..MaxEvents
      /\ \A q \in Pollers \ {p} :
           /\ ppc'[q] = ppc[q] /\ wm'[q] = wm[q] /\ todo'[q] = todo[q]
           /\ last'[q] = last[q] /\ loaded'[q] = loaded[q]
<1>4. Frame
  <2>1. CASE GetOutboxWatermark(p)
    BY <1>a, <2>1 DEF GetOutboxWatermark, PollType, Proceed
  <2>2. CASE EndPoll(p) /\ UNCHANGED <<handled, watermark>>
    BY <1>a, <2>2 DEF EndPoll, PollType, Proceed
  <2>3. ASSUME StartBatch(p, Batch(wm[p])), UNCHANGED <<handled, watermark>>
        PROVE  Frame
    <3>1. Batch(wm[p]) \subseteq Ids
      BY DEF Batch, After
    <3> QED
      BY <1>a, <2>3, <3>1 DEF StartBatch, PollType, Proceed
  <2>4. CASE ListAfterAndReleaseDedup(p)
    BY <2>2, <2>3, <2>4 DEF ListAfterAndReleaseDedup
  <2>5. CASE HandleEvent(p)
    BY <1>3, <1>a, <2>5 DEF HandleEvent, PollType, Proceed
  <2>6. CASE Publish(p)
    BY <1>3, <1>a, <2>6 DEF Publish, PollType
  <2>7. CASE SetOutboxWatermark(p)
    BY <1>a, <2>7 DEF SetOutboxWatermark, PollType, Proceed
  <2>8. CASE DeleteConsumedUpTo(p) \/ PollFails(p)
    BY <2>2, <2>8 DEF DeleteConsumedUpTo, PollFails
  <2> QED
    BY <2>1, <2>4, <2>5, <2>6, <2>7, <2>8 DEF Poll
<1>5. /\ lock' \in Pollers \cup {None} /\ failures' \in 0..MaxFaults
  BY <1>a DEF Poll, GetOutboxWatermark, ListAfterAndReleaseDedup, HandleEvent,
     Publish, SetOutboxWatermark, DeleteConsumedUpTo, PollFails
<1>6. /\ fresh' \in [Pollers -> BOOLEAN] /\ stale' \in BOOLEAN
      /\ missed' \in BOOLEAN
  BY <1>a DEF Poll, GetOutboxWatermark, ListAfterAndReleaseDedup, HandleEvent,
     Publish, SetOutboxWatermark, DeleteConsumedUpTo, PollFails
<1>7. OutboxTypeOK'
  BY <1>a, <1>1, <1>2, <1>4, <1>5, <1>6 DEF OutboxTypeOK, ClientType,
     PollerType, PollType
<1> QED
  BY <1>1, <1>2, <1>4, <1>7 DEF PollerStep

\* The clients and the other pollers are not disturbed.
LEMMA OthersKeep ==
  ASSUME PInv, NEW p \in Pollers, PollerStep(p)
  PROVE  /\ RowFacts' /\ ClientFacts'
         /\ \A q \in Pollers \ {p} :
              /\ PollFacts(q)'
              /\ \A i \in todo'[q] : Visible(i)' /\ i \notin keyed'
         /\ \A i \in handled : Visible(i)' /\ i \notin keyed'
<1>a. /\ OutboxTypeOK /\ RowFacts /\ ClientFacts /\ ReadFacts
      /\ \A q \in Pollers : PollFacts(q)
  BY DEF PInv
<1>b. /\ handled \subseteq Ids /\ \A q \in Pollers : todo[q] \subseteq Ids
      /\ \A c \in Clients : row[c] # 0 => row[c] \in Ids
  BY <1>a DEF OutboxTypeOK, PollerType, ClientType
<1>1. RowFacts' /\ ClientFacts'
  BY <1>a, <1>b DEF PollerStep, RowFacts, ClientFacts
<1>2. \A n, rest : Settled(n, rest) =>
        \A i \in Ids : i <= n /\ Visible(i)'
                       => i \in handled' \cup late' \cup rest
  BY DEF Settled, PollerStep
<1>3. ASSUME NEW q \in Pollers \ {p}
      PROVE  PollFacts(q)'
  <2>1. PollFacts(q)
    BY <1>a
  <2>2. /\ ppc'[q] = ppc[q] /\ wm'[q] = wm[q] /\ todo'[q] = todo[q]
        /\ last'[q] = last[q] /\ loaded'[q] = loaded[q]
        /\ handled \subseteq handled'
    BY DEF PollerStep
  <2>3. Settled(last[q], todo[q]) => Settled(last[q], todo[q])'
    BY <1>2, <2>2 DEF Settled
  <2> QED
    BY <2>1, <2>2, <2>3 DEF PollFacts, Reached
<1>4. /\ \A i \in handled : Visible(i)' /\ i \notin keyed'
      /\ \A q \in Pollers \ {p} :
           \A i \in todo'[q] : Visible(i)' /\ i \notin keyed'
  BY <1>a, <1>b DEF ReadFacts, PollerStep
<1> QED
  BY <1>1, <1>3, <1>4

\* Nothing new is handled.
LEMMA StillClosed ==
  ASSUME PInv, NEW p \in Pollers, PollerStep(p), UNCHANGED handled,
         \A i \in Ids : st'[i] = "deleted" => i \in handled \cup late
  PROVE  Closed'
<1>1. late \subseteq Ids
  BY DEF PInv, OutboxTypeOK
<1> QED
  BY <1>1 DEF PInv, Closed, Settled, PollerStep

\* Events are handled in order.
LEMMA DoneHandles ==
  ASSUME PInv, NEW p \in Pollers, PollerStep(p),
         ppc[p] \in {"handle", "publish"}, Done(p), UNCHANGED <<st, last>>
  PROVE  ReadFacts' /\ Closed' /\ PollFacts(p)'
<1>a. /\ OutboxTypeOK /\ ReadFacts /\ Closed /\ PollFacts(p)
  BY DEF PInv
<1>b. /\ handled \subseteq Ids /\ todo[p] \subseteq Ids
      /\ ppc \in [Pollers -> {"idle", "list", "handle", "publish", "mark",
                             "clean"}]
      /\ todo \in [Pollers -> SUBSET Ids]
  BY <1>a DEF OutboxTypeOK, PollerType
<1>1. PICK i \in todo[p] : /\ \A j \in todo[p] : i <= j
                           /\ todo' = [todo EXCEPT ![p] = @ \ {i}]
                           /\ handled' = handled \cup {i}
                           /\ Proceed(p, IF todo[p] = {i} THEN "mark"
                                      ELSE "handle")
  BY DEF Done
<1>2. /\ last[p] \in todo[p] /\ Settled(last[p], todo[p])
      /\ \A j \in todo[p] : j <= last[p]
  BY <1>a DEF PollFacts
<1>3. /\ i \in Ids /\ Visible(i)' /\ i \notin keyed'
      /\ todo'[p] = todo[p] \ {i}
      /\ ppc'[p] = IF todo[p] = {i} THEN "mark" ELSE "handle"
      /\ UNCHANGED late /\ keyed' \subseteq keyed
  BY <1>1, <1>a, <1>b DEF ReadFacts, PollerStep, Proceed
<1>4. \A j \in todo[p] : Visible(j)' /\ j \notin keyed'
  BY <1>a, <1>b, <1>3 DEF ReadFacts, PollerStep
<1>5. ReadFacts'
  BY <1>1, <1>3, <1>4, OthersKeep DEF ReadFacts
<1>6. Closed'
  <2>1. \A n \in handled : Settled(n, {})'
    BY <1>a, <1>1, <1>3 DEF Closed, Settled, PollerStep
  <2>2. Settled(i, {})'
    <3> SUFFICES ASSUME NEW j \in Ids, j <= i, Visible(j)'
                 PROVE  j \in handled' \cup late'
      BY DEF Settled
    <3>1. Visible(j) /\ j <= last[p]
      BY <1>1, <1>2, <1>3, <1>b DEF PollerStep
    <3>2. j \in handled \cup late \cup todo[p]
      BY <1>2, <3>1 DEF Settled
    <3>3. j \in todo[p] => j = i
      BY <1>1, <1>3
    <3> QED
      BY <1>1, <1>3, <3>2, <3>3
  <2>3. \A j \in Ids : st'[j] = "deleted" => j \in handled' \cup late'
    BY <1>a, <1>1, <1>3 DEF Closed
  <2>4. \A j \in late' : Visible(j)'
    BY <1>a, <1>3 DEF Closed, Visible
  <2> QED
    BY <1>1, <2>1, <2>2, <2>3, <2>4 DEF Closed
<1>7. PollFacts(p)'
  <2>1. CASE todo[p] = {i}
    BY <1>1, <1>2, <1>3, <2>1 DEF PollFacts
  <2>2. CASE todo[p] # {i}
    <3>1. last[p] # i
      <4>1. PICK j \in todo[p] : j # i
        BY <2>2
      <4>2. i <= j /\ j <= last[p] /\ i \in Int /\ j \in Int
        BY <1>1, <1>2, <1>b, <4>1
      <4> QED
        BY <4>1, <4>2
    <3>2. Settled(last[p], todo[p])'
      BY <1>1, <1>2, <1>3 DEF Settled, PollerStep
    <3> QED
      BY <1>1, <1>2, <1>3, <2>2, <3>1, <3>2 DEF PollFacts
  <2> QED
    BY <2>1, <2>2
<1> QED
  BY <1>5, <1>6, <1>7

\* A batch has every committed row from the watermark to its last one.
LEMMA BatchIsWhole ==
  ASSUME NEW w, NEW m \in Batch(w), NEW i \in After(w), i <= m
  PROVE  i \in Batch(w)
<1> DEFINE below(k) == {j \in After(w) : j < k}
<1>1. i \in Ids /\ m \in Ids /\ After(w) \subseteq Ids
  BY DEF Batch, After
<1>2. IsFiniteSet(below(m))
  <2>1. IsFiniteSet(1..MaxEvents) /\ below(m) \subseteq 1..MaxEvents
    BY <1>1, FS_Interval
  <2> QED
    BY <2>1, FS_Subset
<1>3. below(i) \subseteq below(m)
  BY <1>1
<1>4. /\ Cardinality(below(i)) <= Cardinality(below(m))
      /\ Cardinality(below(i)) \in Nat /\ Cardinality(below(m)) \in Nat
  BY <1>2, <1>3, FS_Subset, FS_CardinalityType
<1>5. Cardinality(below(m)) < BatchSize
  BY DEF Batch
<1>6. Cardinality(below(i)) < BatchSize
  <2> HIDE DEF below
  <2> QED
    BY <1>4, <1>5
<1> QED
  BY <1>6 DEF Batch

\* A poll that ends leaves nothing to do.
LEMMA PollEnds ==
  ASSUME PInv, NEW p \in Pollers, PollerStep(p), EndPoll(p), UNCHANGED handled
  PROVE  ReadFacts' /\ PollFacts(p)'
<1>1. /\ ppc \in [Pollers -> {"idle", "list", "handle", "publish", "mark",
                             "clean"}]
      /\ todo \in [Pollers -> SUBSET Ids] /\ loaded \in [Pollers -> BOOLEAN]
  BY DEF PInv, OutboxTypeOK, PollerType
<1>2. ppc'[p] = "idle" /\ todo'[p] = {} /\ loaded'[p] = FALSE
  BY <1>1 DEF EndPoll, Proceed
<1> QED
  BY <1>2, OthersKeep DEF ReadFacts, PollFacts

\* A poller keeps the facts.
LEMMA PollKeeps ==
  ASSUME PInv, NEW p \in Pollers, Poll(p) \/ PollFails(p)
  PROVE  PInv'
<1>a. /\ OutboxTypeOK /\ ReadFacts /\ Closed /\ Reached(watermark)
      /\ PollFacts(p)
  BY DEF PInv
<1>b. /\ handled \subseteq Ids /\ todo[p] \subseteq Ids
      /\ ppc \in [Pollers -> {"idle", "list", "handle", "publish", "mark",
                             "clean"}]
      /\ wm \in [Pollers -> 0..MaxEvents]
      /\ todo \in [Pollers -> SUBSET Ids]
      /\ last \in [Pollers -> 0..MaxEvents]
      /\ loaded \in [Pollers -> BOOLEAN]
  BY <1>a DEF OutboxTypeOK, PollerType
<1>1. OutboxTypeOK' /\ PollerStep(p)
  BY <1>a, PollerSteps
<1>2. /\ RowFacts' /\ ClientFacts'
      /\ \A q \in Pollers \ {p} :
           /\ PollFacts(q)'
           /\ \A i \in todo'[q] : Visible(i)' /\ i \notin keyed'
      /\ \A i \in handled : Visible(i)' /\ i \notin keyed'
  BY <1>1, OthersKeep
<1>3. UNCHANGED <<st, handled>> => Closed'
  BY <1>a, <1>1, StillClosed DEF Closed
<1>4. SUFFICES ReadFacts' /\ Closed' /\ Reached(watermark)' /\ PollFacts(p)'
  BY <1>1, <1>2 DEF PInv
<1>5. CASE GetOutboxWatermark(p)
  <2>1. /\ UNCHANGED <<st, handled, watermark, todo, loaded>>
        /\ ppc[p] = "idle" /\ ppc'[p] = "list" /\ wm'[p] = watermark
    BY <1>b, <1>5 DEF GetOutboxWatermark, Proceed
  <2>2. ReadFacts' /\ PollFacts(p)' /\ Reached(watermark)'
    BY <1>a, <1>2, <2>1 DEF ReadFacts, PollFacts, Reached
  <2> QED
    BY <1>3, <2>1, <2>2
<1>6. CASE ListAfterAndReleaseDedup(p)
  <2> DEFINE b == Batch(wm[p])
  <2>1. UNCHANGED <<st, handled, watermark, late>> /\ ppc[p] = "list"
    BY <1>6 DEF ListAfterAndReleaseDedup
  <2>2. Closed' /\ Reached(watermark)'
    BY <1>3, <1>a, <2>1 DEF Reached
  <2>3. CASE EndPoll(p)
    BY <1>1, <2>1, <2>2, <2>3, PollEnds
  <2>4. CASE StartBatch(p, b) /\ keyed' = keyed \ b
    <3>1. b \subseteq Ids /\ \A i \in b : Committed(i)
      BY DEF Batch, After
    <3>2. PICK m \in b : /\ \A j \in b : j <= m
                         /\ last' = [last EXCEPT ![p] = m]
      BY <2>4 DEF StartBatch
    <3>3. /\ ppc'[p] = "handle" /\ todo'[p] = b /\ last'[p] = m
          /\ UNCHANGED loaded /\ ~loaded[p]
      BY <1>a, <1>b, <2>1, <2>4, <3>2 DEF StartBatch, Proceed, PollFacts
    <3>4. ReadFacts'
      <4>1. \A i \in b : Visible(i)' /\ i \notin keyed'
        BY <2>1, <2>4, <3>1 DEF Visible, Committed
      <4> QED
        BY <1>2, <2>1, <3>3, <4>1 DEF ReadFacts
    <3>5. ASSUME NEW i \in Ids, i <= m, Visible(i)
          PROVE  i \in handled \cup late \cup b
      <4>1. CASE i <= wm[p]
        <5>1. wm[p] \in handled
          BY <1>a, <1>b, <2>1, <4>1 DEF PollFacts, Reached
        <5> QED
          BY <1>a, <3>5, <4>1, <5>1 DEF Closed, Settled
      <4>2. CASE i > wm[p] /\ Committed(i)
        <5>1. i \in After(wm[p])
          BY <4>2 DEF After
        <5> QED
          BY <3>2, <3>5, <5>1, BatchIsWhole
      <4>3. CASE st[i] = "deleted"
        BY <1>a, <4>3 DEF Closed
      <4> QED
        BY <1>b, <3>5, <4>1, <4>2, <4>3 DEF Visible, Committed
    <3>6. PollFacts(p)'
      <4>1. Settled(last[p], todo[p])'
        BY <2>1, <3>3, <3>5 DEF Settled, Visible
      <4> QED
        BY <3>2, <3>3, <4>1 DEF PollFacts
    <3> QED
      BY <2>2, <3>4, <3>6
  <2> QED
    BY <1>6, <2>3, <2>4 DEF ListAfterAndReleaseDedup
<1>7. CASE HandleEvent(p) \/ Publish(p)
  <2>1. /\ UNCHANGED <<st, keyed, watermark, last>>
        /\ ppc[p] \in {"handle", "publish"}
    BY <1>7 DEF HandleEvent, Publish
  <2>2. Reached(watermark)'
    BY <1>1, <1>a, <2>1 DEF Reached, PollerStep
  <2>3. CASE Done(p)
    BY <1>1, <2>1, <2>2, <2>3, DoneHandles
  <2>4. CASE /\ ppc[p] = "handle" /\ Proceed(p, "publish")
             /\ UNCHANGED <<todo, handled>>
             /\ loaded' = [loaded EXCEPT ![p] = TRUE]
    <3>1. ppc'[p] = "publish" /\ loaded'[p]
      BY <1>b, <2>4 DEF Proceed
    <3>2. ReadFacts'
      BY <1>a, <2>1, <2>4 DEF ReadFacts, Visible
    <3>3. Settled(last[p], todo[p])'
      BY <1>1, <1>a, <2>1, <2>4 DEF PollFacts, Settled, Visible, PollerStep
    <3>4. PollFacts(p)'
      BY <1>a, <2>1, <2>4, <3>1, <3>3 DEF PollFacts
    <3> QED
      BY <1>3, <2>1, <2>2, <2>4, <3>2, <3>4
  <2> QED
    BY <1>7, <2>3, <2>4 DEF HandleEvent, Publish
<1>8. CASE SetOutboxWatermark(p)
  <2>1. /\ UNCHANGED <<st, keyed, handled, todo, last>> /\ ppc[p] = "mark"
        /\ ppc'[p] = "clean" /\ watermark' = last[p]
    BY <1>b, <1>8 DEF SetOutboxWatermark, Proceed
  <2>2. ReadFacts' /\ PollFacts(p)' /\ Reached(watermark)'
    BY <1>a, <2>1 DEF ReadFacts, PollFacts, Reached, Visible
  <2> QED
    BY <1>3, <2>1, <2>2
<1>9. CASE DeleteConsumedUpTo(p)
  <2>1. /\ UNCHANGED <<handled, watermark, late>> /\ ppc[p] = "clean"
        /\ EndPoll(p)
    BY <1>9 DEF DeleteConsumedUpTo
  <2>2. PICK d \in SUBSET {i \in Ids : i <= last[p] /\ Committed(i)} :
          st' = [i \in Ids |-> IF i \in d THEN "deleted" ELSE st[i]]
    BY <1>9 DEF DeleteConsumedUpTo
  <2>3. \A i \in d : i \in handled \cup late
    BY <1>a, <2>1, <2>2 DEF PollFacts, Closed, Settled, Visible, Committed
  <2>4. \A i \in Ids : st'[i] = "deleted" => i \in handled \cup late
    BY <1>a, <2>2, <2>3 DEF Closed
  <2>5. Closed'
    BY <1>1, <2>1, <2>4, StillClosed
  <2> QED
    BY <1>1, <1>a, <2>1, <2>5, PollEnds DEF Reached
<1>10. CASE PollFails(p)
  <2>1. UNCHANGED <<st, handled, watermark>> /\ EndPoll(p)
    BY <1>10 DEF PollFails
  <2> QED
    BY <1>1, <1>3, <1>a, <2>1, PollEnds DEF Reached
<1> QED
  BY <1>5, <1>6, <1>7, <1>8, <1>9, <1>10 DEF Poll

\* The facts hold at first and are kept by every step.
LEMMA InitPInv == OutboxInit => PInv
<1> SUFFICES ASSUME OutboxInit PROVE PInv
  OBVIOUS
<1>1. OutboxTypeOK
  <2>1. RowType /\ ClientType
    BY DEF OutboxInit, RowType, ClientType
  <2>2. PollerType
    BY DEF OutboxInit, PollerType
  <2>3. watermark \in 0..MaxEvents /\ failures \in 0..MaxFaults
    BY DEF OutboxInit
  <2>4. /\ fresh \in [Pollers -> BOOLEAN] /\ stale \in BOOLEAN
        /\ missed \in BOOLEAN /\ lock \in Pollers \cup {None}
    BY DEF OutboxInit
  <2> QED
    BY <2>1, <2>2, <2>3, <2>4 DEF OutboxInit, OutboxTypeOK
<1>2. RowFacts /\ ClientFacts /\ ReadFacts /\ Closed /\ Reached(watermark)
  BY DEF OutboxInit, RowFacts, ClientFacts, ReadFacts, Closed, Reached
<1>3. \A p \in Pollers : PollFacts(p)
  BY Zenon DEF OutboxInit, PollFacts
<1> QED
  BY <1>1, <1>2, <1>3 DEF PInv

\* Every step keeps the facts.
LEMMA NextPInv == PInv /\ [OutboxNext]_outboxVars => PInv'
<1> SUFFICES ASSUME PInv, [OutboxNext]_outboxVars PROVE PInv'
  OBVIOUS
<1>1. CASE RebuildLockExpires \/ LoseWatermark \/ UNCHANGED outboxVars
  <2>1. /\ UNCHANGED <<rowVars, clientVars, pollerVars, history>>
        /\ watermark' \in {watermark, 0} /\ lock' \in {lock, None}
        /\ \/ UNCHANGED failures
           \/ failures < MaxFaults /\ failures' = failures + 1
    BY <1>1 DEF RebuildLockExpires, LoseWatermark, outboxVars
  <2>2. OutboxTypeOK'
    BY <2>1 DEF PInv, OutboxTypeOK, RowType, ClientType, PollerType
  <2>3. RowFacts' /\ ClientFacts' /\ ReadFacts' /\ Closed'
    BY <2>1 DEF PInv, RowFacts, ClientFacts, ReadFacts, Closed, Settled,
       Visible
  <2>4. Reached(watermark)' /\ \A p \in Pollers : PollFacts(p)'
    BY <2>1 DEF PInv, Reached, PollFacts, Settled, Visible
  <2> QED
    BY <2>2, <2>3, <2>4 DEF PInv
<1> QED
  BY <1>1, ClientKeeps, PollKeeps DEF OutboxNext

-----------------------------------------------------------------------------
(* The changes that are not in the cache *)

\* A client that changes the account leaves a pending row, or relies on one.
LEMMA ClientUnseen ==
  ASSUME PInv, Unseen, NEW c \in Clients, Client(c)
  PROVE  Unseen'
<1> SUFFICES ASSUME stale', ~missed',
                    ~\E d \in Clients : cpc'[d] \in {"enqueue", "insert"}
             PROVE  \E i \in Ids : Pending(i)'
  BY DEF Unseen
<1>a. /\ OutboxTypeOK /\ RowFacts /\ ClientFacts /\ ReadFacts /\ Closed
  BY DEF PInv
<1>b. /\ cpc \in [Clients -> {"idle", "enqueue", "insert", "tx"}]
      /\ keyed \subseteq Ids /\ row \in [Clients -> 0..MaxEvents]
      /\ st \in [Ids -> {"none", "open", "committed", "deleted",
                         "rolledback"}]
      /\ RowType
  BY <1>a DEF OutboxTypeOK, ClientType, RowType
<1>c. ClientStep
  BY <1>a, ClientSteps
<1>d. UNCHANGED <<ppc, todo, loaded, handled>>
  BY <1>c DEF ClientStep
<1>1. ASSUME Waiting, UNCHANGED <<st, late>>
      PROVE  \E i \in Ids : Pending(i)'
  <2>1. PICK i \in keyed \ late : Committed(i)
    BY <1>1 DEF Waiting
  <2>2. i \notin handled /\ \A p \in Pollers : i \notin todo[p]
    BY <1>a, <2>1 DEF ReadFacts
  <2> QED
    BY <1>1, <1>b, <1>d, <2>1, <2>2 DEF Pending, Committed
<1>2. ASSUME UNCHANGED <<late, fresh, stale, missed>>,
             cpc[c] \in {"idle", "tx"},
             \E label : cpc' = [cpc EXCEPT ![c] = label]
      PROVE  \E i \in Ids : Pending(i)'
  <2>1. \A d \in Clients : cpc[d] \notin {"enqueue", "insert"}
    BY <1>2, <1>b
  <2>2. PICK i \in Ids : Pending(i)
    BY <1>2, <2>1 DEF Unseen
  <2>3. Committed(i)'
    BY <1>c, <2>2 DEF Pending, ClientStep, Visible, Committed
  <2> QED
    BY <1>2, <1>d, <2>2, <2>3 DEF Pending
<1>3. CASE Change(c)
  BY <1>3, <1>b DEF Change
<1>4. CASE Enqueue(c)
  <2>1. CASE NewRow(c, "insert")
    BY <1>b, <2>1 DEF NewRow
  <2>2. CASE NoRow(c, "insert")
    <3>1. cpc'[c] = "idle"
      BY <1>b, <2>2 DEF NoRow
    <3>2. Waiting /\ UNCHANGED <<st, late>>
      BY <1>4, <2>2, <3>1 DEF Enqueue, NoRow
    <3> QED
      BY <1>1, <3>2
  <2> QED
    BY <1>4, <1>a, <1>b, <2>1, <2>2, Inserted DEF Enqueue
<1>5. CASE ChangeInTx(c)
  <2>1. /\ UNCHANGED <<late, fresh, stale, missed>> /\ cpc[c] = "idle"
        /\ \E label : cpc' = [cpc EXCEPT ![c] = label]
    BY <1>5 DEF ChangeInTx, Insert
  <2> QED
    BY <1>2, <2>1
<1>6. CASE Commit(c)
  <2>1. CASE row[c] = 0
    BY <1>1, <1>6, <2>1 DEF Commit
  <2>2. CASE row[c] # 0
    <3>1. row[c] \in Ids /\ st[row[c]] = "open"
      BY <1>a, <1>b, <2>2 DEF ClientFacts
    <3>2. UNCHANGED late /\ st' = [st EXCEPT ![row[c]] = "committed"]
      BY <1>6, <2>2 DEF Commit
    <3>3. /\ row[c] \notin handled \cup late
          /\ \A p \in Pollers : row[c] \notin todo[p]
      BY <1>a, <3>1 DEF ReadFacts, Closed, Visible
    <3>4. ASSUME NEW i \in Ids, i = row[c] PROVE Pending(i)'
      BY <1>b, <1>d, <3>2, <3>3, <3>4 DEF Pending, Committed
    <3> QED
      BY <3>1, <3>4
  <2> QED
    BY <2>1, <2>2
<1>7. CASE EnqueueFails(c)
  BY <1>7 DEF EnqueueFails
<1>8. CASE Rollback(c)
  BY <1>2, <1>8 DEF Rollback
<1> QED
  BY <1>3, <1>4, <1>5, <1>6, <1>7, <1>8 DEF Client

\* A poll that takes a pending row out of the outbox loads after it.
LEMMA PollUnseen ==
  ASSUME PInv, Unseen, NEW p \in Pollers, Poll(p) \/ PollFails(p)
  PROVE  Unseen'
<1>a. /\ OutboxTypeOK /\ ReadFacts /\ Closed /\ PollFacts(p)
  BY DEF PInv
<1>b. /\ ppc \in [Pollers -> {"idle", "list", "handle", "publish", "mark",
                             "clean"}]
      /\ todo \in [Pollers -> SUBSET Ids]
      /\ loaded \in [Pollers -> BOOLEAN] /\ fresh \in [Pollers -> BOOLEAN]
      /\ missed \in BOOLEAN /\ stale \in BOOLEAN
  BY <1>a DEF OutboxTypeOK, PollerType
<1>c. PollerStep(p) /\ UNCHANGED cpc
  BY <1>a, PollerSteps DEF PollerStep
<1> SUFFICES ASSUME stale', ~missed',
                    ~\E d \in Clients : cpc[d] \in {"enqueue", "insert"}
             PROVE  \E i \in Ids : Pending(i)'
  BY <1>c DEF Unseen
<1>1. stale /\ ~missed
  <2>1. CASE Publish(p)
    BY <1>b, <2>1 DEF Publish
  <2>2. CASE HandleEvent(p)
    <3>1. stale' = stale /\ missed' \in {missed, missed \/ stale}
      BY <2>2 DEF HandleEvent
    <3> QED
      BY <1>b, <3>1
  <2>3. CASE ~Publish(p) /\ ~HandleEvent(p)
    <3>1. UNCHANGED <<stale, missed>>
      BY <2>3 DEF Poll, PollFails, GetOutboxWatermark,
         ListAfterAndReleaseDedup, SetOutboxWatermark, DeleteConsumedUpTo
    <3> QED
      BY <3>1
  <2> QED
    BY <2>1, <2>2, <2>3
<1>2. PICK i \in Ids : Pending(i)
  BY <1>1 DEF Unseen
<1>3. SUFFICES /\ Committed(i)' /\ i \notin handled'
               /\ loaded'[p] /\ ~(ppc'[p] = "publish" /\ fresh'[p])
                  => i \notin todo'[p]
               /\ \A q \in Pollers \ {p} : fresh'[q] = fresh[q]
  BY <1>2, <1>c DEF Pending, PollerStep
<1>4. \A q \in Pollers \ {p} : fresh'[q] = fresh[q]
  BY <1>b DEF Poll, PollFails, GetOutboxWatermark, ListAfterAndReleaseDedup,
     HandleEvent, Publish, SetOutboxWatermark, DeleteConsumedUpTo
<1>5. CASE GetOutboxWatermark(p)
  <2>1. UNCHANGED <<st, handled, loaded>> /\ ~loaded[p]
    BY <1>5, <1>a DEF GetOutboxWatermark, PollFacts
  <2> QED
    BY <1>2, <1>4, <2>1 DEF Pending, Committed
<1>6. CASE ListAfterAndReleaseDedup(p) \/ PollFails(p)
  <2>1. UNCHANGED <<st, handled>> /\ ~loaded'[p]
    BY <1>6, <1>a, <1>b DEF ListAfterAndReleaseDedup, PollFails, EndPoll,
       StartBatch, PollFacts
  <2> QED
    BY <1>2, <1>4, <2>1 DEF Pending, Committed
<1>7. CASE /\ HandleEvent(p) /\ ~loaded[p] /\ lock = None
  <2>1. UNCHANGED <<st, handled>> /\ ppc'[p] = "publish" /\ fresh'[p]
    BY <1>7, <1>b DEF HandleEvent, Proceed
  <2> QED
    BY <1>2, <1>4, <2>1 DEF Pending, Committed
<1>8. CASE HandleEvent(p) /\ ~loaded[p] /\ lock # None
  BY <1>1, <1>8 DEF HandleEvent
<1>9. CASE Publish(p) \/ (HandleEvent(p) /\ loaded[p])
  <2>1. /\ UNCHANGED st /\ Done(p) /\ loaded[p]
        /\ ~(ppc[p] = "publish" /\ fresh[p])
    <3>1. CASE Publish(p)
      BY <1>a, <1>b, <3>1 DEF Publish, PollFacts
    <3>2. CASE HandleEvent(p) /\ loaded[p]
      BY <3>2 DEF HandleEvent
    <3> QED
      BY <1>9, <3>1, <3>2
  <2>2. i \notin todo[p]
    BY <1>2, <2>1 DEF Pending
  <2>3. PICK j \in todo[p] : /\ todo' = [todo EXCEPT ![p] = @ \ {j}]
                             /\ handled' = handled \cup {j}
    BY <2>1 DEF Done
  <2> QED
    BY <1>2, <1>4, <1>b, <2>1, <2>2, <2>3 DEF Pending, Committed
<1>10. CASE SetOutboxWatermark(p)
  <2>1. UNCHANGED <<st, handled, todo>> /\ todo[p] = {}
    BY <1>10, <1>a DEF SetOutboxWatermark, PollFacts
  <2> QED
    BY <1>2, <1>4, <2>1 DEF Pending, Committed
<1>11. CASE DeleteConsumedUpTo(p)
  <2>1. UNCHANGED handled /\ ~loaded'[p] /\ ppc[p] = "clean"
    BY <1>11, <1>b DEF DeleteConsumedUpTo, EndPoll
  <2>2. PICK d \in SUBSET {k \in Ids : k <= last[p] /\ Committed(k)} :
          st' = [k \in Ids |-> IF k \in d THEN "deleted" ELSE st[k]]
    BY <1>11 DEF DeleteConsumedUpTo
  <2>3. \A k \in d : k \in handled \cup late
    BY <1>a, <2>1, <2>2 DEF PollFacts, Closed, Settled, Visible, Committed
  <2> QED
    BY <1>2, <1>4, <2>1, <2>2, <2>3 DEF Pending, Committed
<1> QED
  BY <1>5, <1>6, <1>7, <1>8, <1>9, <1>10, <1>11 DEF Poll

\* Every step keeps the changes that are not in the cache pending.
LEMMA NextUnseen == PInv /\ Unseen /\ [OutboxNext]_outboxVars => Unseen'
<1> SUFFICES ASSUME PInv, Unseen, [OutboxNext]_outboxVars PROVE Unseen'
  OBVIOUS
<1>1. CASE RebuildLockExpires \/ LoseWatermark \/ UNCHANGED outboxVars
  <2>1. UNCHANGED <<st, cpc, ppc, todo, loaded, fresh, stale, missed, handled,
                    late>>
    BY <1>1 DEF RebuildLockExpires, LoseWatermark, outboxVars
  <2> QED
    BY <2>1 DEF Unseen, Pending, Committed
<1> QED
  BY <1>1, ClientUnseen, PollUnseen DEF OutboxNext

\* The facts about the rows, the polls and the changes hold always.
LEMMA OutboxInvariant == OutboxSpec => [](PInv /\ Unseen)
<1>1. OutboxInit => Unseen
  BY DEF OutboxInit, Unseen
<1> QED
  BY <1>1, InitPInv, NextPInv, NextUnseen, PTL DEF OutboxSpec

\* The rows, the clients and the polls keep their types.
THEOREM OutboxTypeCorrect == OutboxSpec => []OutboxTypeOK
<1>1. PInv => OutboxTypeOK
  BY DEF PInv
<1> QED
  BY <1>1, OutboxInvariant, PTL

\* No poll passes an event by: a row at or below the watermark, or deleted, was
\* handled or committed after a row with a higher id had been read, although
\* the pollers of all instances write one watermark, forward and back, and a
\* poll may fail after its rows lost their dedup keys.
THEOREM PassedHandled == OutboxSpec => []PassedIsHandled
<1>1. ASSUME PInv PROVE PassedIsHandled
  BY <1>1 DEF PInv, PassedIsHandled, Reached, Closed, Settled, Visible,
     Committed
<1> QED
  BY <1>1, OutboxInvariant, PTL

\* A change that the cache lacks has its event on the way: a row that
\* suppressed another one by its dedup key is not yet in any batch, so the load
\* that it causes comes after the change.
THEOREM UnseenPending == OutboxSpec => []UnseenIsPending
<1>1. ASSUME PInv, Unseen PROVE UnseenIsPending
  <2>1. ASSUME NEW i \in Ids, Pending(i) PROVE i > watermark
    <3>1. watermark \in Nat
      BY <1>1 DEF PInv, OutboxTypeOK
    <3>2. watermark \in handled => ~(i <= watermark)
      BY <1>1, <2>1 DEF PInv, Closed, Settled, Visible, Pending, Committed
    <3> QED
      BY <1>1, <3>1, <3>2 DEF PInv, Reached
  <2> QED
    BY <1>1, <2>1 DEF Unseen, UnseenIsPending, Pending
<1> QED
  BY <1>1, OutboxInvariant, PTL
=============================================================================
