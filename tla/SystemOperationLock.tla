------------------------ MODULE SystemOperationLock ------------------------
(***************************************************************************)
(* SystemOperationLockService (service/system_operation_lock_service.go):  *)
(* the lock that keeps two system operations (update, rollback, restart)   *)
(* from running at the same time.  It is one row of idempotency_records,   *)
(* shared by all instances, whose fingerprint is the id of the operation   *)
(* that created it.                                                        *)
(*                                                                         *)
(* An operation claims the row, runs, and releases the row; a goroutine    *)
(* of its own renews the lock in the meantime.  Ticks are on time; from    *)
(* the reading of the clock to the statement that uses it a claim takes at *)
(* most ClaimTime, a renewal and a release at most CallTime, their timeout *)
(* of two seconds.                                                         *)
(***************************************************************************)
EXTENDS IdempotencyStore

CONSTANTS
  Operations,           \* the requests for system operations
  Lease, TTL,
  Second,               \* a second, in units of the clock
  ClaimTime, CallTime,
  RunTime,              \* bound on the time from Acquire to Release
  MaxTime, MaxFaults    \* bounds on the clock, on errors and crashes

RenewInterval == IF Lease \div 3 < Second THEN Second ELSE Lease \div 3

ASSUME LockTimeAssumption ==
  /\ {Lease, TTL, Second, ClaimTime, CallTime, RunTime, MaxTime, MaxFaults}
       \subseteq Nat
  /\ ClaimTime + 2 * RenewInterval + CallTime < Lease /\ Lease <= TTL
  /\ CallTime < RenewInterval
  /\ ClaimTime <= RunTime
  /\ RunTime + ClaimTime < TTL /\ RunTime + CallTime < TTL

VARIABLES
  clock, faults,
  pc,        \* per operation: its position
  lock,      \* per operation: what Acquire has read, and the lock it returned
  loop,      \* per operation: its renewLoop
  overran,   \* history: an operation outlived the lock it last wrote, and
             \* since then there was always one at work
  lastRun    \* history: the last time there was an operation

own == <<pc, lock, loop>>
vars == <<store, clock, faults, own, overran, lastRun>>

ClaimPCs == {"create", "get", "reclaim"}
HoldPCs == {"run", "release"}
PCs == ClaimPCs \cup HoldPCs \cup {"idle"}

NoLock == [payload |-> NoPayload, now |-> 0, id |-> 0, from |-> Processing,
           created |-> FALSE, until |-> 0]
NoLoop == [at |-> "off", time |-> 0, stop |-> FALSE]

TypeOK ==
  /\ StoreType
  /\ clock \in Nat \ {0} /\ faults \in 0..MaxFaults
  /\ pc \in [Operations -> PCs]
  /\ lock \in [Operations -> [payload : Payloads \cup {NoPayload}, now : Nat,
                              id : Nat, from : RecordStatuses,
                              created : BOOLEAN, until : Nat]]
  /\ loop \in [Operations -> [at : {"off", "wait", "write"}, time : Nat,
                              stop : BOOLEAN]]
  /\ overran \in BOOLEAN /\ lastRun \in Nat
  /\ \A o \in Operations : lock[o].id < nextId

Init ==
  /\ StoreInit /\ clock = 1 /\ faults = 0
  /\ pc = [o \in Operations |-> "idle"]
  /\ lock = [o \in Operations |-> NoLock]
  /\ loop = [o \in Operations |-> NoLoop]
  /\ overran = FALSE /\ lastRun = 0

-----------------------------------------------------------------------------
AtWork(o) == pc[o] # "idle" \/ loop[o].at # "off"
Quiet == \A o \in Operations : ~AtWork(o)
NoOperation == \A o \in Operations : pc[o] = "idle"

Goto(o, label) == pc' = [pc EXCEPT ![o] = label]

\* Nothing refers any more to an operation that is over and has no renewLoop.
Forget(o) ==
  lock' = IF pc'[o] = "idle" /\ loop'[o].at = "off"
          THEN [lock EXCEPT ![o] = NoLock] ELSE lock

\* Leaves the history alone.
Others == UNCHANGED <<clock, overran, lastRun>>

\* Acquire reads the clock once.  A second operation with the same id is
\* kept away by the coordinator that Acquire is called from.
Begin(o, payload) ==
  /\ ~AtWork(o)
  /\ \A p \in Operations : AtWork(p) => lock[p].payload # payload
  /\ Goto(o, "create")
  /\ lock' = [lock EXCEPT ![o] = [NoLock EXCEPT !.payload = payload,
                                                !.now = clock]]
  /\ lastRun' = clock
  /\ UNCHANGED <<store, clock, faults, loop, overran>>

\* Acquire returns the lock and starts renewLoop.
Acquired(o, id, created) ==
  /\ Goto(o, "run")
  /\ lock' = [lock EXCEPT ![o].id = id, ![o].created = created,
                          ![o].until = lock[o].now + Lease]
  /\ loop' = [loop EXCEPT ![o] = [at |-> "wait", time |-> clock + RenewInterval,
                                  stop |-> FALSE]]

Create(o) ==
  /\ pc[o] = "create"
  /\ \/ /\ CreateProcessing(lock[o].payload, lock[o].now + Lease,
                            lock[o].now + TTL)
        /\ Acquired(o, nextId, TRUE)
     \/ Exists /\ Goto(o, "get") /\ UNCHANGED <<store, lock, loop>>
  /\ UNCHANGED faults /\ Others

\* The row is processing and its lock has not ended.
Locked(now) == record.status = Processing /\ record.lockedUntil > now

Get(o) ==
  /\ pc[o] = "get"
  /\ \/ /\ ~Exists \/ Locked(lock[o].now)
        /\ Goto(o, "idle") /\ UNCHANGED loop /\ Forget(o)
     \/ /\ Exists /\ ~Locked(lock[o].now)
        /\ Goto(o, "reclaim") /\ UNCHANGED loop
        /\ lock' = [lock EXCEPT ![o].id = record.id, ![o].from = record.status]
  /\ UNCHANGED <<store, faults>> /\ Others

Reclaim(o) ==
  /\ pc[o] = "reclaim"
  /\ \/ /\ TryReclaim(lock[o].id, lock[o].from, lock[o].now,
                      lock[o].now + Lease, lock[o].now + TTL)
        /\ Acquired(o, lock[o].id, FALSE)
     \/ /\ ~Reclaimable(lock[o].id, lock[o].from, lock[o].now)
        /\ Goto(o, "idle") /\ UNCHANGED <<store, loop>> /\ Forget(o)
  /\ UNCHANGED faults /\ Others

-----------------------------------------------------------------------------
\* Faulty variant: the renewal goroutine is not told to stop.
FinishWithoutStop(o) ==
  /\ pc[o] = "run" /\ Goto(o, "release")
  /\ lock' = [lock EXCEPT ![o].now = clock]
  /\ UNCHANGED <<store, faults, loop>> /\ Others

\* The operation is over; Release closes stopCh and reads the clock.
Finish(o) ==
  /\ pc[o] = "run" /\ Goto(o, "release")
  /\ lock' = [lock EXCEPT ![o].now = clock]
  /\ loop' = [loop EXCEPT ![o].stop = TRUE]
  /\ UNCHANGED <<store, faults>> /\ Others

Release(o) ==
  /\ pc[o] = "release" /\ Goto(o, "idle")
  /\ \/ MarkSucceeded(lock[o].id, lock[o].now + TTL)
     \/ MarkFailedRetryable(lock[o].id, lock[o].now, lock[o].now + TTL)
  /\ UNCHANGED <<faults, loop>> /\ Forget(o) /\ Others

\* A tick of the ticker, which reads the clock.
RenewTick(o) ==
  /\ loop[o].at = "wait" /\ loop[o].time = clock
  /\ loop' = [loop EXCEPT ![o].at = "write"]
  /\ UNCHANGED <<store, faults, pc, lock>> /\ Others

NextTick(o) ==
  loop' = [loop EXCEPT ![o].at = "wait", ![o].time = loop[o].time + RenewInterval]

\* "ownership_lost": the loop ends, the operation goes on.
Renew(o) ==
  /\ loop[o].at = "write"
  /\ \/ /\ ExtendProcessingLock(lock[o].id, lock[o].payload,
                                loop[o].time + Lease, loop[o].time + TTL)
        /\ NextTick(o) /\ UNCHANGED pc
        /\ lock' = [lock EXCEPT ![o].until = loop[o].time + Lease]
     \/ /\ ~Extendable(lock[o].id, lock[o].payload)
        /\ loop' = [loop EXCEPT ![o] = NoLoop]
        /\ UNCHANGED <<store, pc>> /\ Forget(o)
  /\ UNCHANGED faults /\ Others

\* The select of a loop that was told to stop; a tick that is due as well may
\* still be taken first.
RenewStop(o) ==
  /\ loop[o].at = "wait" /\ loop[o].stop
  /\ loop' = [loop EXCEPT ![o] = NoLoop]
  /\ UNCHANGED <<store, faults, pc>> /\ Forget(o) /\ Others

-----------------------------------------------------------------------------
Fault == faults < MaxFaults /\ faults' = faults + 1

\* Faulty variant: an error ends the loop.
RenewFailsForGood(o) ==
  /\ Fault /\ loop[o].at = "write" /\ loop' = [loop EXCEPT ![o] = NoLoop]
  /\ UNCHANGED <<store, pc, lock>> /\ Others

\* A renewal that fails is tried again at the next tick.
RenewFails(o) ==
  /\ Fault /\ loop[o].at = "write" /\ NextTick(o)
  /\ UNCHANGED <<store, pc, lock>> /\ Others

\* The other calls: Acquire returns the error, the error of Release is dropped.
CallFails(o) ==
  /\ Fault /\ pc[o] \in ClaimPCs \cup {"release"} /\ Goto(o, "idle")
  /\ UNCHANGED <<store, loop>> /\ Forget(o) /\ Others

\* The process dies, and its goroutines with it.
Crash(o) ==
  /\ Fault /\ AtWork(o) /\ Goto(o, "idle")
  /\ loop' = [loop EXCEPT ![o] = NoLoop]
  /\ UNCHANGED store /\ Forget(o) /\ Others

\* IdempotencyCleanupService.
Cleanup == DeleteExpired(clock) /\ UNCHANGED <<faults, own>> /\ Others

\* An operation's lock is about to end: a renewal that is still under way
\* may have moved it forward by no more than the time such a call takes.
Overrunning(o, now) == pc[o] \in HoldPCs /\ now + CallTime >= lock[o].until

OnTime(o) ==
  /\ pc[o] \in ClaimPCs => clock < lock[o].now + ClaimTime
  /\ pc[o] = "run" => clock < lock[o].now + RunTime
  /\ pc[o] = "release" => clock < lock[o].now + CallTime
  /\ loop[o].at = "wait" => clock < loop[o].time /\ ~loop[o].stop
  /\ loop[o].at = "write" => clock < loop[o].time + CallTime

Tick ==
  /\ clock < MaxTime
  /\ \A o \in Operations : OnTime(o)
  /\ clock' = clock + 1
  /\ overran' = (/\ ~Quiet
                 /\ overran \/ \E o \in Operations : Overrunning(o, clock + 1))
  /\ lastRun' = IF NoOperation THEN lastRun ELSE clock + 1
  /\ UNCHANGED <<store, faults, own>>

Next ==
  \/ \E o \in Operations, payload \in Payloads : Begin(o, payload)
  \/ \E o \in Operations :
       \/ Create(o) \/ Get(o) \/ Reclaim(o) \/ Finish(o) \/ Release(o)
       \/ RenewTick(o) \/ Renew(o) \/ RenewStop(o)
       \/ RenewFails(o) \/ CallFails(o) \/ Crash(o)
  \/ Cleanup \/ Tick

Spec == Init /\ [][Next]_vars

-----------------------------------------------------------------------------
Running(o) == pc[o] = "run"

\* What the lock is for: two system operations never run at the same time, as
\* long as none of them outlives the lock it last wrote.  (Acquire, TryReclaim
\* and Release; an operation that does outlive it runs beside its successor,
\* and its Release frees the successor's lock.)
OneAtATime ==
  ~overran => \A o, p \in Operations : Running(o) /\ Running(p) => o = p

\* An operation that created the row runs alone however long it takes, even
\* when one call fails: renewLoop carries on after an error, and nobody else
\* holds or releases a row with this id.
CreatorIsAlone ==
  \A o, p \in Operations :
    Running(o) /\ Running(p) /\ lock[o].created /\ faults <= 1 => o = p

\* An operation that dies, or whose Release fails, blocks the next ones for at
\* most one lease: no renewal goroutine outlives the operation it belongs to.
BlockedAtMostOneLease ==
  Exists /\ Locked(clock) /\ NoOperation => record.lockedUntil <= lastRun + Lease

\* The test of the renewal: "locked_until should be renewed while lock is held".
HeldIsRenewed ==
  \A o \in Operations :
    Running(o) /\ faults = 0 => Exists /\ record.lockedUntil > clock
=============================================================================
