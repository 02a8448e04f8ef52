--------------------------- MODULE SchedulerBucket ---------------------------
(***************************************************************************)
(* One bucket of the scheduler's cache (scheduler_snapshot_service.go,     *)
(* scheduler_cache.go): the snapshot of a group's accounts in Redis and    *)
(* everyone who writes it.  Requests that miss publish what they load,     *)
(* outbox workers rebuild the bucket of a changed account or group, full   *)
(* rebuilds run on a timer, and the bucket is retired and reopened with    *)
(* its group.                                                              *)
(*                                                                         *)
(* A step is one Redis command or script or one query.  The accounts are a *)
(* revision number; a snapshot is a list of ids, while the accounts behind *)
(* the ids have one key each (entry), shared by all snapshots.  Versions   *)
(* of snapshots are only compared, so the model keeps their order.         *)
(***************************************************************************)
EXTENDS SchedulerPollers, Integers, FiniteSets

CONSTANTS Readers,     \* requests: reads of the snapshot, edits of accounts
          Rebuilders,  \* full rebuild workers, one per instance
          MaxChanges   \* bound on changes and uses of accounts and groups

Workers == Readers \cup Pollers \cup Rebuilders

ASSUME WorkersAssumption == IsFiniteSet(Workers) /\ None \notin Workers
ASSUME MaxChangesAssumption == MaxChanges \in Nat

VARIABLES
  rev, groupActive, changes,  \* the database
  epoch, retired,             \* the bucket's fence
  snap,                       \* the active snapshot, or NoSnapshot
  ver,                        \* versions: of the active one at None
  registered,                 \* the bucket is in sched:buckets
  entry,                      \* the account's own keys; 0: missing
  locked,                     \* the rebuild lock
  lease,                      \* owner of the group's lifecycle lease
  pc, job,                    \* per worker, see Jobs
  faults,
  retirements                 \* history

db     == <<rev, groupActive, changes>>
fence  == <<epoch, retired>>
cache  == <<snap, ver, registered>>
vars == <<db, fence, cache, entry, locked, lease, pc, job, faults,
          retirements>>

PCs == {"idle", "setAccount", "listGroups", "capture", "lock", "load",
        "allocate", "write", "activate", "unlock", "lease", "group", "apply",
        "release"}

\* task: what the worker runs; tok: its write token; data: the accounts it
\* read, born: after how many retirements (history); on: the bucket was
\* registered, or the group active.
Jobs == [task : {"none", "read", "sync", "event", "full"}, tok : Nat,
         data : Nat, born : Nat, on : BOOLEAN]
NoJob == [task |-> "none", tok |-> 0, data |-> 0, born |-> 0, on |-> FALSE]
NoSnapshot == [rev |-> 0, born |-> 0]

TypeOK ==
  /\ rev \in Nat /\ groupActive \in BOOLEAN /\ changes \in 0..MaxChanges
  /\ epoch \in Nat /\ retired \in BOOLEAN
  /\ snap \in [rev : Nat, born : Nat] /\ registered \in BOOLEAN
  /\ ver \in [Workers \cup {None} -> Nat]
  /\ entry \in Nat /\ locked \in BOOLEAN /\ lease \in Workers \cup {None}
  /\ pc \in [Workers -> PCs] /\ job \in [Workers -> Jobs]
  /\ faults \in 0..MaxFaults /\ retirements \in Nat

Init ==
  /\ rev = 1 /\ groupActive = TRUE /\ changes = 0
  /\ epoch = 0 /\ retired = FALSE
  /\ snap = NoSnapshot /\ registered = FALSE
  /\ ver = [x \in Workers \cup {None} |-> 0]
  /\ entry = 0 /\ locked = FALSE /\ lease = None
  /\ pc = [w \in Workers |-> "idle"] /\ job = [w \in Workers |-> NoJob]
  /\ faults = 0 /\ retirements = 0

-----------------------------------------------------------------------------
(* Helpers *)

Goto(w, label) == pc' = [pc EXCEPT ![w] = label] /\ UNCHANGED job
GotoWith(w, label, j) ==
  pc' = [pc EXCEPT ![w] = label] /\ job' = [job EXCEPT ![w] = j]
\* The next step needs nothing but the task.
GotoFresh(w, label) ==
  GotoWith(w, label, [NoJob EXCEPT !.task = job[w].task])
End(w) == GotoWith(w, "idle", NoJob)

\* The smallest numbers in the same order: the counter of the versions only
\* has to give out one that is higher than all before.
Ranked(f) ==
  [x \in DOMAIN f |->
     Cardinality({y \in DOMAIN f : 0 < f[y] /\ f[y] <= f[x]})]
Incr(w) == ver' = Ranked([ver EXCEPT ![w] = Cardinality(DOMAIN ver) + 1])

Changed == changes < MaxChanges /\ changes' = changes + 1

ChangeAccounts ==
  /\ Changed /\ rev' = rev + 1
  /\ UNCHANGED <<groupActive, fence, cache, entry, locked, lease, pc, job,
                 faults, retirements>>

ChangeGroup ==
  /\ Changed /\ groupActive' = ~groupActive
  /\ UNCHANGED <<rev, fence, cache, entry, locked, lease, pc, job, faults,
                 retirements>>

-----------------------------------------------------------------------------
(* Where the writers start *)

Start(w, label, j) ==
  /\ pc[w] = "idle" /\ GotoWith(w, label, j)
  /\ UNCHANGED <<fence, cache, entry, locked, lease, faults, retirements>>

\* ListSchedulableAccounts on a miss.  A snapshot may be missing, empty, or
\* lack the entry of an account; a failing read of it counts as a miss.
ListSchedulableAccounts(w) ==
  /\ w \in Readers /\ Start(w, "capture", [NoJob EXCEPT !.task = "read"])
  /\ UNCHANGED db

\* syncSchedulerAccountSnapshot, by the request that edited the account.
SyncAccount(w) ==
  /\ w \in Readers
  /\ Start(w, "setAccount", [NoJob EXCEPT !.task = "sync", !.data = rev])
  /\ UNCHANGED db

HandleAccountEvent(w) ==
  /\ w \in Pollers
  /\ Start(w, "setAccount", [NoJob EXCEPT !.task = "event", !.data = rev])
  /\ UNCHANGED db

\* UpdateLastUsed writes back what it read from the cache.
HandleLastUsedEvent(w) ==
  /\ w \in Pollers /\ entry > 0 /\ Changed
  /\ Start(w, "setAccount", [NoJob EXCEPT !.task = "sync", !.data = entry])
  /\ UNCHANGED <<rev, groupActive>>

HandleGroupEvent(w) ==
  /\ w \in Pollers /\ Start(w, "lease", [NoJob EXCEPT !.task = "event"])
  /\ UNCHANGED db

\* rebuildFullSnapshot: on a timer, at start-up, and when the outbox lags.
RebuildFullSnapshot(w) ==
  /\ w \in Rebuilders
  /\ Start(w, "listGroups", [NoJob EXCEPT !.task = "full", !.on = registered])
  /\ UNCHANGED db

ListActiveGroups(w) ==
  /\ pc[w] = "listGroups"
  /\ \/ groupActive /\ GotoFresh(w, "capture")
     \/ ~groupActive /\ job[w].on /\ GotoFresh(w, "lease")
     \/ ~groupActive /\ ~job[w].on /\ End(w)
  /\ UNCHANGED <<db, fence, cache, entry, locked, lease, faults, retirements>>

SetAccount(w) ==
  /\ pc[w] = "setAccount" /\ entry' = job[w].data
  /\ \/ job[w].task = "event" /\ GotoFresh(w, "capture")
     \/ job[w].task = "sync" /\ End(w)
  /\ UNCHANGED <<db, fence, cache, locked, lease, faults, retirements>>

-----------------------------------------------------------------------------
(* Publishing a snapshot *)

\* A retired bucket is not written; a full rebuild that finds an active group's
\* bucket retired reopens it.
CaptureBucketWriteToken(w) ==
  /\ pc[w] = "capture"
  /\ \/ /\ retired /\ UNCHANGED epoch
        /\ IF job[w].task = "full" THEN Goto(w, "lease") ELSE End(w)
     \/ /\ ~retired /\ epoch' = (IF epoch = 0 THEN 1 ELSE epoch)
        /\ GotoWith(w, IF job[w].task = "read" THEN "load" ELSE "lock",
                    [job[w] EXCEPT !.tok = epoch'])
  /\ UNCHANGED <<db, retired, cache, entry, locked, lease, faults,
                 retirements>>

\* A busy bucket is skipped, or reported to the caller: nothing is written.
TryLockBucket(w) ==
  /\ pc[w] = "lock"
  /\ \/ locked /\ End(w) /\ UNCHANGED locked
     \/ ~locked /\ locked' = TRUE /\ Goto(w, "load")
  /\ UNCHANGED <<db, fence, cache, entry, lease, faults, retirements>>

LoadAccounts(w) ==
  /\ pc[w] = "load"
  /\ GotoWith(w, "allocate",
              [job[w] EXCEPT !.data = rev, !.born = retirements])
  /\ UNCHANGED <<db, fence, cache, entry, locked, lease, faults, retirements>>

Fenced(w) == retired \/ job[w].tok # epoch

\* After SetSnapshot: a request has no lock to release.
Finish(w) == IF job[w].task = "read" THEN End(w) ELSE GotoFresh(w, "unlock")

AllocateSnapshotVersion(w) ==
  /\ pc[w] = "allocate"
  /\ \/ Fenced(w) /\ Finish(w) /\ UNCHANGED ver
     \/ ~Fenced(w) /\ Incr(w) /\ Goto(w, "write")
  /\ UNCHANGED <<db, fence, snap, registered, entry, locked, lease, faults,
                 retirements>>

\* Faulty variant: an account that has an entry keeps it.
WriteOnlyMissing(w) ==
  /\ pc[w] = "write" /\ Goto(w, "activate")
  /\ entry' = IF entry = 0 THEN job[w].data ELSE entry
  /\ UNCHANGED <<db, fence, cache, locked, lease, faults, retirements>>

\* writeSnapshotVersion also writes the accounts' own keys.
WriteSnapshotVersion(w) ==
  /\ pc[w] = "write" /\ entry' = job[w].data /\ Goto(w, "activate")
  /\ UNCHANGED <<db, fence, cache, locked, lease, faults, retirements>>

\* Faulty variant: the fence is only checked when the version is allocated.
ActivateUnfenced(w) ==
  /\ pc[w] = "activate" /\ Finish(w)
  /\ \/ /\ ver[w] >= ver[None] /\ registered' = TRUE
        /\ snap' = [rev |-> job[w].data, born |-> job[w].born]
        /\ ver' = Ranked([ver EXCEPT ![None] = ver[w], ![w] = 0])
     \/ /\ ver[w] < ver[None]
        /\ ver' = Ranked([ver EXCEPT ![w] = 0])
        /\ UNCHANGED <<snap, registered>>
  /\ UNCHANGED <<db, fence, entry, locked, lease, faults, retirements>>

ActivateSnapshotVersion(w) ==
  /\ pc[w] = "activate" /\ Finish(w)
  /\ \/ /\ ~Fenced(w) /\ ver[w] >= ver[None] /\ registered' = TRUE
        /\ snap' = [rev |-> job[w].data, born |-> job[w].born]
        /\ ver' = Ranked([ver EXCEPT ![None] = ver[w], ![w] = 0])
     \/ /\ Fenced(w) \/ ver[w] < ver[None]
        /\ ver' = Ranked([ver EXCEPT ![w] = 0])
        /\ UNCHANGED <<snap, registered>>
  /\ UNCHANGED <<db, fence, entry, locked, lease, faults, retirements>>

\* DEL, whoever holds the lock by now.
UnlockBucket(w) ==
  /\ pc[w] = "unlock" /\ locked' = FALSE /\ End(w)
  /\ UNCHANGED <<db, fence, cache, entry, lease, faults, retirements>>

-----------------------------------------------------------------------------
(* prepareGroupLifecycle *)

TryAcquireGroupLifecycleLease(w) ==
  /\ pc[w] = "lease"
  /\ \/ lease # None /\ End(w) /\ UNCHANGED lease
     \/ lease = None /\ lease' = w /\ Goto(w, "group")
  /\ UNCHANGED <<db, fence, cache, entry, locked, faults, retirements>>

ReadGroup(w) ==
  /\ pc[w] = "group"
  /\ GotoWith(w, "apply", [job[w] EXCEPT !.on = groupActive])
  /\ UNCHANGED <<db, fence, cache, entry, locked, lease, faults, retirements>>

\* The scripts end the snapshot and forget the bucket.
Clear == /\ snap' = NoSnapshot /\ ver' = Ranked([ver EXCEPT ![None] = 0])
         /\ registered' = FALSE

\* Faulty variant: the epoch stays.
RetireKeepingEpoch ==
  /\ Clear /\ retired' = TRUE /\ UNCHANGED epoch
  /\ retirements' = retirements + (IF retired THEN 0 ELSE 1)

\* Only the first retirement moves the epoch on.
RetireBucket ==
  /\ Clear /\ retired' = TRUE
  /\ LET first == IF retired THEN 0 ELSE 1
     IN  epoch' = epoch + first /\ retirements' = retirements + first

\* Faulty variant: a bucket is never reopened.
ReopenNever == UNCHANGED <<fence, cache, retirements>>

ReopenBucket ==
  /\ epoch' = IF epoch = 0 THEN 1 ELSE epoch
  /\ retired' = FALSE
  /\ IF retired THEN Clear ELSE UNCHANGED cache
  /\ UNCHANGED retirements

Apply(w) ==
  /\ pc[w] = "apply"
  /\ \/ job[w].on /\ ReopenBucket
     \/ ~job[w].on /\ RetireBucket
  /\ GotoWith(w, "release", [job[w] EXCEPT !.tok = epoch'])
  /\ UNCHANGED <<db, entry, locked, lease, faults>>

\* The owner's token is compared; a lost lease is an error.  An active group's
\* bucket is rebuilt with the token of the reopening.
ReleaseGroupLifecycleLease(w) ==
  /\ pc[w] = "release"
  /\ \/ /\ lease = w /\ lease' = None
        /\ IF job[w].on THEN GotoWith(w, "lock", [job[w] EXCEPT !.on = FALSE])
                        ELSE End(w)
     \/ lease # w /\ End(w) /\ UNCHANGED lease
  /\ UNCHANGED <<db, fence, cache, entry, locked, faults, retirements>>

-----------------------------------------------------------------------------
(* Faults and time *)

Deciding == {"group", "apply"}
Rebuilding == {"load", "allocate", "write", "activate"}

\* A call returns an error or the context ends: the deferred release and unlock
\* still run, but the release itself may be what fails.
CallFails(w) ==
  /\ pc[w] # "idle" /\ faults < MaxFaults /\ faults' = faults + 1
  /\ lease' = (IF pc[w] \in Deciding /\ lease = w THEN None ELSE lease)
  /\ locked' = (locked /\ ~(pc[w] \in Rebuilding /\ job[w].task # "read"))
  /\ ver' = Ranked([ver EXCEPT ![w] = 0])
  /\ End(w)
  /\ UNCHANGED <<db, fence, snap, registered, entry, retirements>>

Crash(w) ==
  /\ pc[w] # "idle" /\ faults < MaxFaults /\ faults' = faults + 1
  /\ ver' = Ranked([ver EXCEPT ![w] = 0])
  /\ End(w)
  /\ UNCHANGED <<db, fence, snap, registered, entry, locked, lease,
                 retirements>>

\* 30 seconds, as long as a rebuild may take.
LockExpires ==
  /\ locked /\ locked' = FALSE
  /\ UNCHANGED <<db, fence, cache, entry, lease, pc, job, faults, retirements>>

\* 60 seconds: a decision ends with its context after 30.
LeaseExpires ==
  /\ lease # None /\ pc[lease] \notin Deciding /\ lease' = None
  /\ UNCHANGED <<db, fence, cache, entry, locked, pc, job, faults,
                 retirements>>

-----------------------------------------------------------------------------
Begin(w) ==
  \/ ListSchedulableAccounts(w) \/ SyncAccount(w) \/ HandleAccountEvent(w)
  \/ HandleLastUsedEvent(w) \/ HandleGroupEvent(w) \/ RebuildFullSnapshot(w)

Continue(w) ==
  \/ ListActiveGroups(w) \/ SetAccount(w) \/ CaptureBucketWriteToken(w)
  \/ TryLockBucket(w) \/ LoadAccounts(w) \/ AllocateSnapshotVersion(w)
  \/ WriteSnapshotVersion(w) \/ ActivateSnapshotVersion(w) \/ UnlockBucket(w)
  \/ TryAcquireGroupLifecycleLease(w) \/ ReadGroup(w) \/ Apply(w)
  \/ ReleaseGroupLifecycleLease(w)

Next == \/ ChangeAccounts \/ ChangeGroup
        \/ \E w \in Workers :
             Begin(w) \/ Continue(w) \/ CallFails(w) \/ Crash(w)
        \/ LockExpires \/ LeaseExpires

\* What was begun goes on, the timer of the full rebuild fires, keys expire.
Fairness ==
  /\ \A w \in Workers : WF_vars(Continue(w))
  /\ \A w \in Rebuilders : WF_vars(RebuildFullSnapshot(w))
  /\ WF_vars(LockExpires) /\ WF_vars(LeaseExpires)

Spec == Init /\ [][Next]_vars /\ Fairness

-----------------------------------------------------------------------------
(* Properties *)

\* A retired bucket serves nothing: no writer that took its token before the
\* retirement publishes after it.
RetiredIsUnserved == retired => snap = NoSnapshot

\* What a bucket serves was loaded after its last retirement: retiring and
\* reopening it leaves no writer behind whose accounts are from before.
ServedIsOfThisLife == snap # NoSnapshot => snap.born = retirements

\* Once the accounts are left alone, the cache serves them as they are: reads
\* that missed, events and rebuilds may publish old accounts over new ones, but
\* a full rebuild repairs it.
SettlesFresh ==
  <>[](snap # NoSnapshot => snap.rev = rev /\ entry = rev)

\* Once the group is left alone, its bucket is open if it is active and serves
\* nothing if it is not.
SettlesLifecycle ==
  <>[](IF groupActive THEN ~retired ELSE snap = NoSnapshot)

=============================================================================
