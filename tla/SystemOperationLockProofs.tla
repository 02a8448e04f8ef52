--------------------- MODULE SystemOperationLockProofs ---------------------
(***************************************************************************)
(* TLAPS proofs about SystemOperationLock, for any operations and faults,  *)
(* and for all times that satisfy LockTimeAssumption.                      *)
(***************************************************************************)
EXTENDS SystemOperationLock, TLAPS

\* The times of an operation and of its renewLoop, as OnTime keeps them, and
\* whether the loop was told to stop.
OperationFacts(label, k, l, now) ==
  /\ label \in ClaimPCs =>
       k.now <= now /\ now <= k.now + ClaimTime /\ l.at = "off"
  /\ label = "run" =>
       k.now <= now /\ now <= k.now + RunTime /\ (l.at # "off" => ~l.stop)
  /\ label = "release" => k.now <= now /\ now <= k.now + CallTime
  /\ label \in {"release", "idle"} /\ l.at # "off" => l.stop
  /\ l.at = "wait" => now <= l.time
  /\ l.at = "write" => l.time <= now /\ now <= l.time + CallTime

Timely == \A o \in Operations : OperationFacts(pc[o], lock[o], loop[o], clock)

\* lastRun is now as long as there is an operation; a renewal that is under way
\* read the clock while there was one.
LastFacts ==
  /\ lastRun <= clock
  /\ \A o \in Operations :
       /\ pc[o] # "idle" => lastRun = clock
       /\ loop[o].at = "wait" /\ loop[o].time = clock => lastRun = clock
       /\ loop[o].at = "write" => loop[o].time <= lastRun

\* A lock is written no later than there was an operation.
LeaseFacts ==
  record.status = Processing => record.lockedUntil <= lastRun + Lease

\* Lock and row end together, a fixed time apart.
RowFacts ==
  Exists /\ record.status = Processing
  => record.expiresAt + Lease = record.lockedUntil + TTL

\* The row of an operation that runs is there, and late enough to expire.
Expiry ==
  \A o \in Operations : Running(o) =>
    /\ Exists /\ record.id = lock[o].id
    /\ \/ record.expiresAt + ClaimTime >= lock[o].now + TTL
       \/ record.expiresAt + CallTime >= lock[o].now + TTL

\* While nobody outlived his lock, it is the row's, but for a renewal that was
\* under way, and nobody else has one.
HolderFacts ==
  ~overran => \A o \in Operations : pc[o] \in HoldPCs =>
    /\ Exists /\ record.id = lock[o].id /\ record.status = Processing
    /\ record.lockedUntil + CallTime >= lock[o].until
    /\ clock + CallTime < lock[o].until /\ lock[o].until <= clock + Lease
    /\ \A p \in Operations : pc[p] \in HoldPCs => p = o

\* The row of the operation that created it is its own: nobody else knows the
\* id, and the next renewal, or the one after it, comes before the lock ends.
CreatorFacts ==
  \A o \in Operations : Running(o) /\ lock[o].created /\ faults <= 1 =>
    /\ record.status = Processing /\ record.fingerprint = lock[o].payload
    /\ loop[o].at # "off"
    /\ record.lockedUntil > loop[o].time + CallTime
                            + (IF faults = 0 THEN RenewInterval ELSE 0)
    /\ \A p \in Operations \ {o} : lock[p].id # record.id

LInv == /\ TypeOK /\ Timely /\ LastFacts /\ LeaseFacts /\ RowFacts /\ Expiry
        /\ HolderFacts /\ CreatorFacts

-----------------------------------------------------------------------------
(* Types, times and single operations *)

Locks == [payload : Payloads \cup {NoPayload}, now : Nat, id : Nat,
          from : RecordStatuses, created : BOOLEAN, until : Nat]
Loops == [at : {"off", "wait", "write"}, time : Nat, stop : BOOLEAN]
OwnType == /\ pc \in [Operations -> PCs] /\ lock \in [Operations -> Locks]
           /\ loop \in [Operations -> Loops]

\* The constants, as the prover uses them.
LEMMA Times ==
  /\ Lease \in Nat /\ TTL \in Nat /\ ClaimTime \in Nat /\ CallTime \in Nat
  /\ RunTime \in Nat /\ MaxFaults \in Nat /\ RenewInterval \in Nat
  /\ ClaimTime + 2 * RenewInterval + CallTime < Lease /\ Lease <= TTL
  /\ CallTime < RenewInterval /\ ClaimTime <= RunTime
  /\ RunTime + ClaimTime < TTL /\ RunTime + CallTime < TTL
  BY LockTimeAssumption DEF RenewInterval

\* The types of what a state is made of.
LEMMA Types ==
  ASSUME TypeOK
  PROVE  /\ OwnType /\ StoreType /\ clock \in Nat /\ lastRun \in Nat
         /\ faults \in Nat /\ overran \in BOOLEAN
         /\ \A o \in Operations :
              /\ pc[o] \in PCs
              /\ lock[o].now \in Nat /\ lock[o].until \in Nat
              /\ lock[o].id \in Nat /\ lock[o].id < nextId
              /\ lock[o].created \in BOOLEAN
              /\ loop[o].time \in Nat /\ loop[o].stop \in BOOLEAN
              /\ loop[o].at \in {"off", "wait", "write"}
         /\ record.lockedUntil \in Nat /\ record.expiresAt \in Nat
         /\ record.id \in Nat /\ nextId \in Nat /\ record.id < nextId
  BY Times DEF TypeOK, OwnType, StoreType, Locks, Loops

\* The other operations are left alone.
Only(o) ==
  \A p \in Operations \ {o} :
    pc'[p] = pc[p] /\ lock'[p] = lock[p] /\ loop'[p] = loop[p]

\* Goto moves one operation.
LEMMA GotoFacts ==
  ASSUME OwnType, NEW o \in Operations, NEW label \in PCs, Goto(o, label)
  PROVE  /\ pc' \in [Operations -> PCs] /\ pc'[o] = label
         /\ \A p \in Operations \ {o} : pc'[p] = pc[p]
  BY DEF OwnType, Goto

\* Forget changes one lock, and only when its operation is over.
LEMMA ForgetFacts ==
  ASSUME OwnType, NEW o \in Operations, Forget(o)
  PROVE  /\ lock' \in [Operations -> Locks]
         /\ lock'[o] = lock[o] \/ lock'[o] = NoLock
         /\ pc'[o] # "idle" => lock'[o] = lock[o]
         /\ \A p \in Operations \ {o} : lock'[p] = lock[p]
<1>1. NoLock \in Locks
  BY DEF NoLock, Locks, RecordStatuses
<1> QED
  BY <1>1 DEF OwnType, Forget

\* A loop that ends leaves the other ones alone.
LEMMA LoopEnds ==
  ASSUME OwnType, NEW o \in Operations, loop' = [loop EXCEPT ![o] = NoLoop]
  PROVE  /\ loop' \in [Operations -> Loops] /\ loop'[o].at = "off"
         /\ \A p \in Operations \ {o} : loop'[p] = loop[p]
  BY DEF OwnType, NoLoop, Loops

\* NextTick waits one interval after the tick that was due.
LEMMA NextTickFacts ==
  ASSUME OwnType, NEW o \in Operations, NextTick(o)
  PROVE  /\ loop' \in [Operations -> Loops] /\ loop'[o].at = "wait"
         /\ loop'[o].time = loop[o].time + RenewInterval
         /\ loop'[o].stop = loop[o].stop
         /\ \A p \in Operations \ {o} : loop'[p] = loop[p]
  BY Times DEF OwnType, NextTick, Loops

\* What the operation that gets the lock knows of it.
LEMMA AcquiredFacts ==
  ASSUME OwnType, NEW o \in Operations, NEW id \in Nat,
         NEW created \in BOOLEAN, clock \in Nat, Acquired(o, id, created)
  PROVE  /\ OwnType' /\ Only(o) /\ pc'[o] = "run"
         /\ lock'[o].payload = lock[o].payload /\ lock'[o].now = lock[o].now
         /\ lock'[o].id = id /\ lock'[o].created = created
         /\ lock'[o].until = lock[o].now + Lease
         /\ loop'[o].at = "wait" /\ loop'[o].time = clock + RenewInterval
         /\ loop'[o].stop = FALSE
<1>1. /\ pc' \in [Operations -> PCs] /\ pc'[o] = "run"
      /\ \A p \in Operations \ {o} : pc'[p] = pc[p]
  BY GotoFacts DEF Acquired, PCs, HoldPCs
<1>2. /\ lock' \in [Operations -> Locks]
      /\ lock'[o].payload = lock[o].payload /\ lock'[o].now = lock[o].now
      /\ lock'[o].id = id /\ lock'[o].created = created
      /\ lock'[o].until = lock[o].now + Lease
      /\ \A p \in Operations \ {o} : lock'[p] = lock[p]
  <2> DEFINE end == lock[o].now + Lease
  <2>1. end \in Nat
    BY Times DEF OwnType, Locks
  <2>2. lock' = [lock EXCEPT ![o].id = id, ![o].created = created,
                             ![o].until = end]
    BY DEF Acquired
  <2>3. /\ lock' \in [Operations -> Locks]
        /\ lock'[o].payload = lock[o].payload /\ lock'[o].now = lock[o].now
        /\ lock'[o].id = id /\ lock'[o].created = created
        /\ lock'[o].until = end
        /\ \A p \in Operations \ {o} : lock'[p] = lock[p]
    <3> HIDE DEF end
    <3> QED
      BY <2>1, <2>2 DEF OwnType, Locks
  <2> QED
    BY <2>3
<1>3. /\ loop' \in [Operations -> Loops]
      /\ loop'[o].at = "wait" /\ loop'[o].time = clock + RenewInterval
      /\ loop'[o].stop = FALSE
      /\ \A p \in Operations \ {o} : loop'[p] = loop[p]
  BY Times DEF OwnType, Acquired, Loops
<1> QED
  BY <1>1, <1>2, <1>3 DEF OwnType, Only

-----------------------------------------------------------------------------
(* Kinds of steps, and why each preserves LInv *)

\* The same types after a step.
LEMMA TypesNext ==
  ASSUME TypeOK'
  PROVE  /\ clock' \in Nat /\ lastRun' \in Nat /\ faults' \in Nat
         /\ \A o \in Operations :
              /\ pc'[o] \in PCs
              /\ lock'[o].now \in Nat /\ lock'[o].until \in Nat
              /\ lock'[o].id \in Nat
              /\ loop'[o].time \in Nat /\ loop'[o].stop \in BOOLEAN
              /\ loop'[o].at \in {"off", "wait", "write"}
         /\ record'.lockedUntil \in Nat /\ record'.expiresAt \in Nat
         /\ record'.id \in Nat /\ nextId' \in Nat
  BY Times DEF TypeOK, StoreType

\* A lock that has not been overrun, or whose creator runs, has not ended.
LEMMA StillLocked ==
  ASSUME LInv, NEW p \in Operations,
         \/ ~overran /\ pc[p] \in HoldPCs
         \/ Running(p) /\ lock[p].created /\ faults <= 1
  PROVE  Exists /\ record.status = Processing /\ record.lockedUntil > clock
<1> USE Times, Types DEF LInv
<1>1. CASE ~overran /\ pc[p] \in HoldPCs
  BY <1>1 DEF HolderFacts
<1>2. CASE Running(p) /\ lock[p].created /\ faults <= 1
  <2>1. loop[p].at \in {"wait", "write"} /\ clock <= loop[p].time + CallTime
    BY <1>2 DEF CreatorFacts, Timely, OperationFacts
  <2>2. /\ record.status = Processing
        /\ record.lockedUntil > loop[p].time + CallTime
    BY <1>2 DEF CreatorFacts
  <2> QED
    BY <1>2, <2>1, <2>2 DEF Expiry
<1> QED
  BY <1>1, <1>2

\* A step of one operation that leaves the row and the clock alone, and after
\* which the operation is timely, holds no lock that it did not hold before, and
\* has noted no id but that of a row which is not locked.
LocalStep(o) ==
  /\ UNCHANGED <<store, clock, overran>> /\ OwnType' /\ Only(o)
  /\ faults' \in 0..MaxFaults /\ faults <= faults'
  /\ lastRun' \in {lastRun, clock} /\ lastRun <= lastRun'
  /\ OperationFacts(pc'[o], lock'[o], loop'[o], clock)
  /\ pc'[o] # "idle" => lastRun' = clock
  /\ loop'[o].at = "wait" /\ loop'[o].time = clock => lastRun' = clock
  /\ loop'[o].at = "write" => loop'[o].time <= lastRun'
  /\ pc'[o] = "run" => pc[o] = "run" /\ lock'[o] = lock[o]
  /\ pc'[o] = "release" =>
       /\ pc[o] \in HoldPCs
       /\ lock'[o].id = lock[o].id /\ lock'[o].until = lock[o].until
  /\ \/ lock'[o].id \in {0, lock[o].id}
     \/ lock'[o].id = record.id /\ ~Locked(lock[o].now) /\ pc[o] = "get"
  /\ pc'[o] = "run" /\ lock[o].created /\ faults' <= 1 =>
       /\ loop'[o].at # "off"
       /\ record.lockedUntil > loop'[o].time + CallTime
                               + (IF faults' = 0 THEN RenewInterval ELSE 0)

\* LocalStep preserves LInv: nobody reads the id of a row that is still locked.
LEMMA LocalStepLInv ==
  ASSUME LInv, NEW o \in Operations, LocalStep(o)
  PROVE  LInv'
<1> USE Times, Types DEF LInv
<1>1. TypeOK'
  <2>1. lock'[o].id < nextId'
    BY DEF LocalStep, store
  <2> QED
    BY <2>1 DEF TypeOK, LocalStep, Only, StoreType, store, OwnType, Locks, Loops
<1> USE TypesNext
<1>2. Timely'
  BY <1>1 DEF Timely, OperationFacts, LocalStep, Only
<1>3. LastFacts'
  BY <1>1 DEF LastFacts, LocalStep, Only
<1>4. LeaseFacts' /\ RowFacts'
  BY <1>1 DEF LeaseFacts, RowFacts, LocalStep, store, Exists
<1>5. Expiry'
  BY <1>1 DEF Expiry, Running, LocalStep, Only, store, Exists
<1>6. HolderFacts'
  BY <1>1 DEF HolderFacts, HoldPCs, LocalStep, Only, store, Exists
<1>7. CreatorFacts'
  <2> SUFFICES ASSUME NEW p \in Operations, Running(p)', lock'[p].created,
                      faults' <= 1
               PROVE  /\ record.status = Processing
                      /\ record.fingerprint = lock'[p].payload
                      /\ loop'[p].at # "off"
                      /\ record.lockedUntil > loop'[p].time + CallTime
                           + (IF faults' = 0 THEN RenewInterval ELSE 0)
                      /\ \A q \in Operations \ {p} : lock'[q].id # record.id
    BY DEF CreatorFacts, LocalStep, store
  <2>1. Running(p) /\ lock[p].created /\ lock'[p] = lock[p] /\ faults <= 1
    BY DEF Running, LocalStep, Only
  <2>2. Exists /\ record.status = Processing /\ record.lockedUntil > clock
    BY <2>1, StillLocked
  <2>3. \A q \in Operations \ {p} : lock[q].id # record.id
    BY <2>1 DEF CreatorFacts
  <2>4. \A q \in Operations \ {p} : lock'[q].id # record.id
    <3>1. pc[o] = "get" => Locked(lock[o].now)
      BY <2>2 DEF Locked, Timely, OperationFacts, ClaimPCs
    <3> QED
      BY <2>2, <2>3, <3>1 DEF LocalStep, Only, Exists
  <2>5. record.fingerprint = lock'[p].payload
    BY <2>1 DEF CreatorFacts
  <2>6. /\ loop'[p].at # "off"
        /\ record.lockedUntil > loop'[p].time + CallTime
             + (IF faults' = 0 THEN RenewInterval ELSE 0)
    <3>1. CASE p = o
      BY <3>1, <2>1 DEF LocalStep, Running
    <3>2. CASE p # o
      BY <3>2, <2>1 DEF LocalStep, Only, CreatorFacts
    <3> QED
      BY <3>1, <3>2
  <2> QED
    BY <2>2, <2>4, <2>5, <2>6
<1> QED
  BY <1>1, <1>2, <1>3, <1>4, <1>5, <1>6, <1>7

\* An operation gets the lock: it has created the row, or taken over one whose
\* lock had ended.
AcquireStep(o) ==
  /\ UNCHANGED <<clock, faults, overran, lastRun>>
  /\ StoreType' /\ OwnType' /\ Only(o) /\ pc[o] \in ClaimPCs
  /\ pc'[o] = "run" /\ lock'[o].now = lock[o].now
  /\ lock'[o].payload = lock[o].payload /\ lock'[o].until = lock[o].now + Lease
  /\ loop'[o].at = "wait" /\ loop'[o].time = clock + RenewInterval
  /\ loop'[o].stop = FALSE
  /\ Exists' /\ record'.id = lock'[o].id /\ record'.status = Processing
  /\ record'.lockedUntil = lock[o].now + Lease
  /\ record'.expiresAt = lock[o].now + TTL
  /\ \/ /\ ~Exists /\ record'.id = nextId /\ nextId' = nextId + 1
        /\ record'.fingerprint = lock[o].payload
     \/ /\ Exists /\ record'.id = record.id /\ nextId' = nextId
        /\ record.lockedUntil <= lock[o].now /\ ~lock'[o].created

\* AcquireStep preserves LInv: nobody holds a lock that has not ended.
LEMMA AcquireStepLInv ==
  ASSUME LInv, NEW o \in Operations, AcquireStep(o)
  PROVE  LInv'
<1> USE Times, Types DEF LInv
<1>1. TypeOK'
  BY DEF TypeOK, AcquireStep, Only, StoreType, OwnType, Locks, Loops
<1> USE TypesNext
<1>2. lock[o].now <= clock /\ clock <= lock[o].now + ClaimTime /\ lastRun = clock
  BY DEF Timely, OperationFacts, LastFacts, AcquireStep, ClaimPCs
<1>3. ~(Exists /\ record.lockedUntil > clock)
  BY <1>2 DEF AcquireStep
<1>4. \A p \in Operations :
        /\ ~overran => pc[p] \notin HoldPCs
        /\ ~(Running(p) /\ lock[p].created /\ faults <= 1)
  BY <1>3, StillLocked
<1>5. Timely'
  BY <1>1, <1>2 DEF Timely, OperationFacts, AcquireStep, Only, ClaimPCs
<1>6. LastFacts' /\ LeaseFacts' /\ RowFacts'
  BY <1>1, <1>2 DEF LastFacts, LeaseFacts, RowFacts, AcquireStep, Only
<1>7. Expiry'
  <2>1. \A p \in Operations \ {o} : Running(p) => lock[p].now <= clock
    BY DEF Timely, OperationFacts, Running
  <2> QED
    BY <1>1, <1>2, <2>1 DEF Expiry, Running, AcquireStep, Only
<1>8. HolderFacts'
  BY <1>1, <1>2, <1>4 DEF HolderFacts, HoldPCs, AcquireStep, Only
<1>9. CreatorFacts'
  BY <1>1, <1>2, <1>4 DEF CreatorFacts, Running, AcquireStep, Only
<1> QED
  BY <1>1, <1>5, <1>6, <1>7, <1>8, <1>9

\* A renewal finds the row processing and moves its end forward.
RenewStep(o) ==
  /\ UNCHANGED <<clock, faults, overran, lastRun, nextId, pc>>
  /\ StoreType' /\ OwnType' /\ Only(o) /\ loop[o].at = "write"
  /\ lock'[o].id = lock[o].id /\ lock'[o].payload = lock[o].payload
  /\ lock'[o].now = lock[o].now /\ lock'[o].created = lock[o].created
  /\ lock'[o].until = loop[o].time + Lease
  /\ loop'[o].at = "wait" /\ loop'[o].time = loop[o].time + RenewInterval
  /\ loop'[o].stop = loop[o].stop
  /\ Exists /\ record.id = lock[o].id /\ record.status = Processing
  /\ record'.id = record.id /\ record'.status = record.status
  /\ record'.fingerprint = record.fingerprint
  /\ record'.lockedUntil = loop[o].time + Lease
  /\ record'.expiresAt = loop[o].time + TTL

\* RenewStep preserves LInv, also when the loop is that of another operation.
LEMMA RenewStepLInv ==
  ASSUME LInv, NEW o \in Operations, RenewStep(o)
  PROVE  LInv'
<1> USE Times, Types DEF LInv
<1>1. TypeOK'
  BY DEF TypeOK, RenewStep, Only, StoreType, OwnType, Locks, Loops
<1> USE TypesNext
<1>2. loop[o].time <= clock /\ clock <= loop[o].time + CallTime
      /\ loop[o].time <= lastRun
  BY DEF Timely, OperationFacts, LastFacts, RenewStep
<1>3. Timely'
  BY <1>1, <1>2 DEF Timely, OperationFacts, RenewStep, Only, ClaimPCs
<1>4. LastFacts' /\ LeaseFacts' /\ RowFacts'
  BY <1>1, <1>2 DEF LastFacts, LeaseFacts, RowFacts, RenewStep, Only
<1>5. Expiry'
  <2>1. \A p \in Operations : Running(p) => lock[p].now <= clock
    BY DEF Timely, OperationFacts, Running
  <2> QED
    BY <1>1, <1>2, <2>1 DEF Expiry, Exists, Running, RenewStep, Only
<1>6. HolderFacts'
  BY <1>1, <1>2 DEF HolderFacts, Exists, HoldPCs, RenewStep, Only
<1>7. CreatorFacts'
  BY <1>1, <1>2 DEF CreatorFacts, Running, RenewStep, Only
<1> QED
  BY <1>1, <1>3, <1>4, <1>5, <1>6, <1>7

\* A release frees the row with the id that it knows, if there is one.
ReleaseStep(o) ==
  /\ UNCHANGED <<clock, faults, overran, lastRun, nextId, loop>>
  /\ StoreType' /\ OwnType' /\ Only(o) /\ pc[o] = "release" /\ pc'[o] = "idle"
  /\ lock'[o].id \in {0, lock[o].id}
  /\ record'.id = record.id
  /\ \/ record' = record
     \/ /\ Exists /\ record.id = lock[o].id /\ record'.status # Processing
        /\ record'.expiresAt = lock[o].now + TTL

\* ReleaseStep preserves LInv: the row of a creator is known to nobody else.
LEMMA ReleaseStepLInv ==
  ASSUME LInv, NEW o \in Operations, ReleaseStep(o)
  PROVE  LInv'
<1> USE Times, Types DEF LInv
<1>1. TypeOK'
  <2>1. \A p \in Operations : lock'[p].id < nextId'
    <3>1. 0 < nextId
      BY DEF StoreType
    <3> QED
      BY <3>1 DEF ReleaseStep, Only
  <2> QED
    BY <2>1 DEF TypeOK, ReleaseStep, OwnType, Locks, Loops
<1> USE TypesNext
<1>2. lock[o].now <= clock /\ clock <= lock[o].now + CallTime
  BY DEF Timely, OperationFacts, ReleaseStep
<1>3. Timely'
  BY <1>1, <1>2 DEF Timely, OperationFacts, ReleaseStep, Only, ClaimPCs
<1>4. LastFacts' /\ LeaseFacts' /\ RowFacts'
  BY <1>1, <1>2 DEF LastFacts, LeaseFacts, RowFacts, Exists, ReleaseStep, Only
<1>5. Expiry'
  <2>1. \A p \in Operations : Running(p) => lock[p].now <= clock
    BY DEF Timely, OperationFacts, Running
  <2> QED
    BY <1>1, <1>2, <2>1 DEF Expiry, Exists, Running, ReleaseStep, Only
<1>6. HolderFacts'
  BY <1>1 DEF HolderFacts, HoldPCs, ReleaseStep, Only
<1>7. CreatorFacts'
  <2> SUFFICES ASSUME NEW p \in Operations, Running(p)', lock'[p].created,
                      faults <= 1
               PROVE  /\ p # o /\ Running(p) /\ lock[p].created
                      /\ record' = record /\ Exists
    BY DEF CreatorFacts, ReleaseStep, Only, Exists
  <2>1. p # o /\ Running(p) /\ lock[p].created
    BY DEF Running, ReleaseStep, Only
  <2> QED
    BY <2>1 DEF CreatorFacts, Expiry, ReleaseStep
<1> QED
  BY <1>1, <1>3, <1>4, <1>5, <1>6, <1>7

\* The cleanup does not delete the row of an operation that runs.
LEMMA CleanupLInv ==
  ASSUME LInv, Cleanup
  PROVE  LInv'
<1> USE Times, Types DEF LInv
<1>1. TypeOK'
  <2>1. StoreType'
    BY DEF Cleanup, DeleteExpired, StoreType, NoRecord, RecordStatuses
  <2> QED
    BY <2>1 DEF TypeOK, Cleanup, DeleteExpired, own, Others
<1> USE TypesNext DEF Cleanup, own, Others
<1>2. Timely' /\ LastFacts'
  BY DEF Timely, LastFacts
<1>3. /\ Exists /\ record.expiresAt <= clock /\ record' = NoRecord
      /\ record'.lockedUntil = 0 /\ ~Exists'
  BY DEF DeleteExpired, NoRecord, Exists
<1>4. LeaseFacts' /\ RowFacts'
  BY <1>1, <1>3 DEF LeaseFacts, RowFacts
<1>5. \A p \in Operations : ~Running(p)
  BY <1>3 DEF Expiry, Timely, OperationFacts, Running
<1>6. \A p \in Operations : ~overran => pc[p] \notin HoldPCs
  BY <1>3 DEF HolderFacts, RowFacts
<1>7. Expiry' /\ CreatorFacts'
  BY <1>5 DEF Expiry, CreatorFacts, Running
<1>8. HolderFacts'
  BY <1>6 DEF HolderFacts
<1> QED
  BY <1>1, <1>2, <1>4, <1>7, <1>8

\* Time passes: an operation that outlives its lock is noted.
LEMMA TickLInv ==
  ASSUME LInv, Tick
  PROVE  LInv'
<1> USE Times, Types DEF LInv
<1>1. TypeOK'
  <2>1. clock' \in Nat \ {0} /\ lastRun' \in Nat /\ overran' \in BOOLEAN
    BY DEF Tick
  <2> QED
    BY <2>1 DEF TypeOK, StoreType, Tick, own, store
<1> USE TypesNext DEF own, store
<1>2. Timely'
  BY <1>1 DEF Timely, OperationFacts, Tick, OnTime, ClaimPCs
<1>3. LastFacts'
  <2>1. clock' = clock + 1 /\ lastRun' <= clock' /\ lastRun <= lastRun'
    BY DEF LastFacts, Tick
  <2>2. ASSUME NEW o \in Operations, pc[o] # "idle"
        PROVE  lastRun' = clock'
    BY <2>2 DEF Tick, NoOperation
  <2>3. ASSUME NEW o \in Operations, loop[o].at = "wait" PROVE pc[o] # "idle"
    BY <2>3 DEF Tick, OnTime, Timely, OperationFacts
  <2> QED
    BY <1>1, <2>1, <2>2, <2>3 DEF LastFacts, Tick
<1>4. LeaseFacts' /\ RowFacts' /\ Expiry' /\ CreatorFacts'
  <2>1. lastRun <= lastRun'
    BY DEF LastFacts, Tick
  <2> QED
    BY <1>1, <2>1 DEF LeaseFacts, RowFacts, Expiry, CreatorFacts, Running,
       Exists, Tick
<1>5. HolderFacts'
  <2> SUFFICES ASSUME NEW o \in Operations, pc[o] \in HoldPCs, ~overran'
               PROVE  ~overran /\ clock' + CallTime < lock[o].until
    BY <1>1 DEF HolderFacts, Exists, Tick
  <2>1. ~Quiet
    BY DEF Quiet, AtWork, HoldPCs
  <2> QED
    BY <2>1 DEF Tick, Overrunning
<1> QED
  BY <1>1, <1>2, <1>3, <1>4, <1>5

-----------------------------------------------------------------------------
(* The actions *)

\* The facts about one operation that its steps use.
LEMMA Knows ==
  ASSUME LInv, NEW o \in Operations
  PROVE  /\ OperationFacts(pc[o], lock[o], loop[o], clock) /\ lastRun <= clock
         /\ pc[o] # "idle" => lastRun = clock
         /\ loop[o].at = "wait" /\ loop[o].time = clock => lastRun = clock
         /\ loop[o].at = "write" => loop[o].time <= lastRun
         /\ Running(o) /\ lock[o].created /\ faults <= 1 =>
              /\ loop[o].at # "off" /\ Extendable(lock[o].id, lock[o].payload)
              /\ record.lockedUntil > loop[o].time + CallTime
                                      + (IF faults = 0 THEN RenewInterval ELSE 0)
  BY DEF LInv, Timely, LastFacts, Expiry, CreatorFacts, Extendable

\* An operation that ends, and keeps no more than a loop which was told to stop.
LEMMA EndLocal ==
  ASSUME LInv, NEW o \in Operations, UNCHANGED store, Others,
         faults' \in {faults, faults + 1}, faults' \in 0..MaxFaults,
         Goto(o, "idle"), Forget(o),
         \/ UNCHANGED loop /\ pc[o] \in ClaimPCs \cup {"release"}
         \/ loop' = [loop EXCEPT ![o] = NoLoop]
  PROVE  LocalStep(o)
<1> USE Times, Types, Knows DEF LInv, Others
<1>1. pc' \in [Operations -> PCs] /\ pc'[o] = "idle"
      /\ \A p \in Operations \ {o} : pc'[p] = pc[p]
  BY GotoFacts DEF PCs
<1>2. /\ lock' \in [Operations -> Locks]
      /\ lock'[o] = lock[o] \/ lock'[o] = NoLock
      /\ \A p \in Operations \ {o} : lock'[p] = lock[p]
  BY ForgetFacts
<1>3. lock'[o].id \in {0, lock[o].id}
  BY <1>2 DEF NoLock
<1>4. /\ loop' \in [Operations -> Loops]
      /\ \A p \in Operations \ {o} : loop'[p] = loop[p]
      /\ \/ loop'[o].at = "off"
         \/ loop'[o] = loop[o] /\ loop[o].at # "off" /\ loop[o].stop
  BY LoopEnds DEF OwnType, OperationFacts
<1>5. OperationFacts(pc'[o], lock'[o], loop'[o], clock)
  BY <1>1, <1>4 DEF OperationFacts, ClaimPCs
<1>6. /\ loop'[o].at = "wait" /\ loop'[o].time = clock => lastRun = clock
      /\ loop'[o].at = "write" => loop'[o].time <= lastRun
  BY <1>4
<1> QED
  BY <1>1, <1>2, <1>3, <1>4, <1>5, <1>6 DEF LocalStep, OwnType, Only

\* A loop that ends without its operation.
LEMMA LoopEndLocal ==
  ASSUME LInv, NEW o \in Operations, UNCHANGED <<store, pc, faults>>, Others,
         loop[o].at # "off", loop' = [loop EXCEPT ![o] = NoLoop], Forget(o),
         ~(Running(o) /\ lock[o].created /\ faults <= 1)
  PROVE  LocalStep(o)
<1> USE Times, Types, Knows DEF LInv, Others
<1>1. faults \in 0..MaxFaults /\ 0 < nextId
  BY DEF TypeOK, StoreType
<1>2. /\ lock' \in [Operations -> Locks]
      /\ lock'[o] = lock[o] \/ lock'[o] = NoLock
      /\ pc'[o] # "idle" => lock'[o] = lock[o]
      /\ \A p \in Operations \ {o} : lock'[p] = lock[p]
  BY ForgetFacts
<1>3. lock'[o].id \in {0, lock[o].id}
  BY <1>2 DEF NoLock
<1>4. /\ loop' \in [Operations -> Loops] /\ loop'[o].at = "off"
      /\ \A p \in Operations \ {o} : loop'[p] = loop[p]
  BY LoopEnds
<1>5. OperationFacts(pc'[o], lock'[o], loop'[o], clock)
  BY <1>2, <1>4 DEF OperationFacts, ClaimPCs
<1> QED
  BY <1>1, <1>2, <1>3, <1>4, <1>5 DEF LocalStep, OwnType, Only, Running, HoldPCs

\* Acquire begins with a fresh lock.
LEMMA BeginLocal ==
  ASSUME LInv, NEW o \in Operations, NEW payload \in Payloads, Begin(o, payload)
  PROVE  LocalStep(o)
<1> USE Times, Types, Knows DEF LInv
<1>1. faults \in 0..MaxFaults
  BY DEF TypeOK
<1>2. /\ pc' \in [Operations -> PCs] /\ pc'[o] = "create"
      /\ \A p \in Operations \ {o} : pc'[p] = pc[p]
  BY GotoFacts DEF Begin, PCs, ClaimPCs
<1>3. /\ lock' \in [Operations -> Locks]
      /\ lock'[o].id = 0 /\ lock'[o].now = clock
      /\ \A p \in Operations \ {o} : lock'[p] = lock[p]
  BY DEF Begin, NoLock, OwnType, Locks, RecordStatuses
<1>4. loop' = loop /\ loop[o].at = "off" /\ lastRun' = clock
  BY DEF Begin, AtWork
<1>5. OperationFacts(pc'[o], lock'[o], loop'[o], clock)
  BY <1>2, <1>3, <1>4 DEF OperationFacts, ClaimPCs
<1> QED
  BY <1>1, <1>2, <1>3, <1>4, <1>5 DEF LocalStep, OwnType, Only, Begin

\* A claim that goes on to the next statement.
LEMMA ClaimLocal ==
  ASSUME LInv, NEW o \in Operations, UNCHANGED <<store, faults, loop>>, Others,
         \/ pc[o] = "create" /\ Goto(o, "get") /\ UNCHANGED lock
         \/ /\ pc[o] = "get" /\ Goto(o, "reclaim") /\ ~Locked(lock[o].now)
            /\ lock' = [lock EXCEPT ![o].id = record.id,
                                    ![o].from = record.status]
  PROVE  LocalStep(o)
<1> USE Times, Types, Knows DEF LInv, Others
<1>1. faults \in 0..MaxFaults
  BY DEF TypeOK
<1>2. /\ pc' \in [Operations -> PCs] /\ pc[o] \in {"create", "get"}
      /\ pc'[o] \in {"get", "reclaim"}
      /\ \A p \in Operations \ {o} : pc'[p] = pc[p]
  BY GotoFacts DEF PCs, ClaimPCs
<1>3. record.id \in Nat /\ record.status \in RecordStatuses
  BY DEF StoreType
<1>4. /\ lock' \in [Operations -> Locks] /\ lock'[o].now = lock[o].now
      /\ \/ lock'[o].id = lock[o].id
         \/ lock'[o].id = record.id /\ ~Locked(lock[o].now) /\ pc[o] = "get"
      /\ \A p \in Operations \ {o} : lock'[p] = lock[p]
  BY <1>3 DEF OwnType, Locks
<1>5. OperationFacts(pc'[o], lock'[o], loop'[o], clock)
  BY <1>2, <1>4 DEF OperationFacts, ClaimPCs
<1>6. loop'[o].at = "off"
  BY <1>2 DEF OperationFacts, ClaimPCs
<1> QED
  BY <1>1, <1>2, <1>4, <1>5, <1>6 DEF LocalStep, OwnType, Only, ClaimPCs

\* Release tells the loop to stop.
LEMMA FinishLocal ==
  ASSUME LInv, NEW o \in Operations, Finish(o)
  PROVE  LocalStep(o)
<1> USE Times, Types, Knows DEF LInv, Others, Finish
<1>1. faults \in 0..MaxFaults
  BY DEF TypeOK
<1>2. /\ pc' \in [Operations -> PCs] /\ pc'[o] = "release"
      /\ \A p \in Operations \ {o} : pc'[p] = pc[p]
  BY GotoFacts DEF PCs, HoldPCs
<1>3. /\ lock' \in [Operations -> Locks] /\ lock'[o].now = clock
      /\ lock'[o].id = lock[o].id /\ lock'[o].until = lock[o].until
      /\ \A p \in Operations \ {o} : lock'[p] = lock[p]
  BY DEF OwnType, Locks
<1>4. /\ loop' \in [Operations -> Loops] /\ loop'[o].stop = TRUE
      /\ loop'[o].at = loop[o].at /\ loop'[o].time = loop[o].time
      /\ \A p \in Operations \ {o} : loop'[p] = loop[p]
  BY DEF OwnType, Loops
<1>5. OperationFacts(pc'[o], lock'[o], loop'[o], clock)
  BY <1>2, <1>3, <1>4 DEF OperationFacts, ClaimPCs
<1> QED
  BY <1>1, <1>2, <1>3, <1>4, <1>5 DEF LocalStep, OwnType, Only, HoldPCs

\* A tick that is due, and a renewal that failed, which the next tick repeats.
LEMMA LoopLocal ==
  ASSUME LInv, NEW o \in Operations, RenewTick(o) \/ RenewFails(o)
  PROVE  LocalStep(o)
<1> USE Times, Types, Knows DEF LInv, Others
<1>1. faults \in 0..MaxFaults /\ faults' \in 0..MaxFaults /\ faults <= faults'
  BY DEF TypeOK, RenewTick, RenewFails, Fault
<1>2. CASE RenewTick(o)
  <2>1. /\ loop' \in [Operations -> Loops] /\ loop'[o].stop = loop[o].stop
        /\ loop'[o].at = "write" /\ loop'[o].time = loop[o].time
        /\ loop[o].at = "wait" /\ loop[o].time = clock
        /\ \A p \in Operations \ {o} : loop'[p] = loop[p]
    BY <1>2 DEF RenewTick, OwnType, Loops
  <2>2. OperationFacts(pc'[o], lock'[o], loop'[o], clock)
    BY <1>2, <2>1 DEF RenewTick, OperationFacts, ClaimPCs
  <2> QED
    BY <1>1, <1>2, <2>1, <2>2 DEF LocalStep, OwnType, Only, RenewTick, Running,
       HoldPCs
<1>3. CASE RenewFails(o)
  <2>1. /\ loop' \in [Operations -> Loops] /\ loop'[o].stop = loop[o].stop
        /\ loop'[o].at = "wait"
        /\ loop'[o].time = loop[o].time + RenewInterval
        /\ loop[o].at = "write" /\ clock <= loop[o].time + CallTime
        /\ \A p \in Operations \ {o} : loop'[p] = loop[p]
    BY <1>3, NextTickFacts DEF RenewFails, OperationFacts
  <2>2. OperationFacts(pc'[o], lock'[o], loop'[o], clock)
    BY <1>3, <2>1 DEF RenewFails, OperationFacts, ClaimPCs
  <2>3. loop'[o].time # clock
    BY <2>1
  <2>4. pc'[o] = "run" /\ lock[o].created /\ faults' <= 1 =>
          /\ faults = 0 /\ faults' = 1
          /\ record.lockedUntil > loop'[o].time + CallTime
    BY <1>3, <2>1 DEF RenewFails, Fault, Running
  <2> QED
    BY <1>1, <1>3, <2>1, <2>2, <2>3, <2>4 DEF LocalStep, OwnType, Only,
       RenewFails, HoldPCs
<1> QED
  BY <1>2, <1>3

\* Create takes the lock, or finds that there is a row.
LEMMA CreateLInv ==
  ASSUME LInv, NEW o \in Operations, Create(o)
  PROVE  LInv'
<1> USE Times, Types, Knows DEF LInv, Others
<1>1. CASE Exists /\ Goto(o, "get") /\ UNCHANGED <<store, lock, loop>>
  <2>1. LocalStep(o)
    BY <1>1, ClaimLocal DEF Create
  <2> QED
    BY <2>1, LocalStepLInv
<1>2. CASE /\ CreateProcessing(lock[o].payload, lock[o].now + Lease,
                               lock[o].now + TTL)
           /\ Acquired(o, nextId, TRUE)
  <2>1. /\ OwnType' /\ Only(o) /\ pc'[o] = "run"
        /\ lock'[o].payload = lock[o].payload /\ lock'[o].now = lock[o].now
        /\ lock'[o].id = nextId /\ lock'[o].until = lock[o].now + Lease
        /\ loop'[o].at = "wait" /\ loop'[o].time = clock + RenewInterval
        /\ loop'[o].stop = FALSE
    BY <1>2, AcquiredFacts
  <2>2. /\ record'.id = nextId /\ record'.status = Processing
        /\ record'.fingerprint = lock[o].payload /\ nextId' = nextId + 1
        /\ record'.lockedUntil = lock[o].now + Lease /\ ~Exists
        /\ record'.expiresAt = lock[o].now + TTL
    BY <1>2 DEF CreateProcessing
  <2>3. StoreType' /\ Exists'
    BY <1>2 DEF CreateProcessing, StoreType, Exists, OwnType, Locks,
       RecordStatuses
  <2>4. AcquireStep(o)
    BY <2>1, <2>2, <2>3 DEF AcquireStep, Create, ClaimPCs
  <2> QED
    BY <2>4, AcquireStepLInv
<1> QED
  BY <1>1, <1>2 DEF Create

\* Get ends the claim, or notes the row.
LEMMA GetLInv ==
  ASSUME LInv, NEW o \in Operations, Get(o)
  PROVE  LInv'
<1>1. faults' \in {faults, faults + 1} /\ faults' \in 0..MaxFaults
  BY DEF LInv, TypeOK, Get
<1>2. LocalStep(o)
  BY <1>1, EndLocal, ClaimLocal DEF Get, ClaimPCs
<1> QED
  BY <1>2, LocalStepLInv

\* Reclaim takes over a row whose lock has ended, or gives up.
LEMMA ReclaimLInv ==
  ASSUME LInv, NEW o \in Operations, Reclaim(o)
  PROVE  LInv'
<1> USE Times, Types, Knows DEF LInv, Others
<1>1. CASE Goto(o, "idle") /\ UNCHANGED <<store, loop>> /\ Forget(o)
  <2>1. faults' \in {faults, faults + 1} /\ faults' \in 0..MaxFaults
    BY DEF TypeOK, Reclaim
  <2>2. LocalStep(o)
    BY <1>1, <2>1, EndLocal DEF Reclaim, ClaimPCs
  <2> QED
    BY <2>2, LocalStepLInv
<1>2. CASE /\ TryReclaim(lock[o].id, lock[o].from, lock[o].now,
                         lock[o].now + Lease, lock[o].now + TTL)
           /\ Acquired(o, lock[o].id, FALSE)
  <2>1. /\ OwnType' /\ Only(o) /\ pc'[o] = "run"
        /\ lock'[o].payload = lock[o].payload /\ lock'[o].now = lock[o].now
        /\ lock'[o].id = lock[o].id /\ lock'[o].created = FALSE
        /\ lock'[o].until = lock[o].now + Lease
        /\ loop'[o].at = "wait" /\ loop'[o].time = clock + RenewInterval
        /\ loop'[o].stop = FALSE
    BY <1>2, AcquiredFacts
  <2>2. /\ record'.id = record.id /\ record'.status = Processing
        /\ nextId' = nextId /\ Exists /\ record.id = lock[o].id
        /\ record.lockedUntil <= lock[o].now
        /\ record'.lockedUntil = lock[o].now + Lease
        /\ record'.expiresAt = lock[o].now + TTL
    BY <1>2 DEF TryReclaim, Reclaimable, StoreType
  <2>3. StoreType' /\ Exists'
    <3> DEFINE end == lock[o].now + Lease
               expires == lock[o].now + TTL
    <3>1. end \in Nat /\ expires \in Nat
      OBVIOUS
    <3>2. /\ record' = [record EXCEPT !.status = Processing, !.lockedUntil = end,
                                      !.expiresAt = expires]
          /\ nextId' = nextId /\ record.id # 0
      BY <1>2 DEF TryReclaim, Reclaimable, Exists
    <3> HIDE DEF end, expires
    <3> QED
      BY <3>1, <3>2 DEF StoreType, Exists, RecordStatuses
  <2>4. AcquireStep(o)
    BY <2>1, <2>2, <2>3 DEF AcquireStep, Reclaim, ClaimPCs
  <2> QED
    BY <2>4, AcquireStepLInv
<1> QED
  BY <1>1, <1>2 DEF Reclaim

\* Both ways to release.
LEMMA ReleaseLInv ==
  ASSUME LInv, NEW o \in Operations, Release(o)
  PROVE  LInv'
<1> USE Times, Types, Knows DEF LInv, Others
<1>1. /\ pc' \in [Operations -> PCs] /\ pc'[o] = "idle"
      /\ \A p \in Operations \ {o} : pc'[p] = pc[p]
  BY GotoFacts DEF Release, PCs
<1>2. /\ lock' \in [Operations -> Locks] /\ lock'[o].id \in {0, lock[o].id}
      /\ \A p \in Operations \ {o} : lock'[p] = lock[p]
  BY ForgetFacts DEF Release, NoLock
<1>3. ASSUME NEW status \in {Succeeded, FailedRetryable},
             NEW lockedUntil \in Nat,
             Mark(lock[o].id, status, lockedUntil, lock[o].now + TTL)
      PROVE  /\ StoreType' /\ record'.id = record.id /\ nextId' = nextId
             /\ \/ record' = record
                \/ /\ Exists /\ record.id = lock[o].id
                   /\ record'.status # Processing
                   /\ record'.expiresAt = lock[o].now + TTL
  <2> DEFINE expires == lock[o].now + TTL
  <2>1. expires \in Nat
    OBVIOUS
  <2>2. Mark(lock[o].id, status, lockedUntil, expires)
    BY <1>3
  <2> HIDE DEF expires
  <2>3. /\ StoreType' /\ record'.id = record.id /\ nextId' = nextId
        /\ \/ record' = record
           \/ /\ Exists /\ record.id = lock[o].id
              /\ record'.status # Processing /\ record'.expiresAt = expires
    BY <2>1, <2>2 DEF Mark, StoreType, RecordStatuses, Processing, Succeeded,
       FailedRetryable
  <2> QED
    BY <2>3 DEF expires
<1>4. /\ StoreType' /\ record'.id = record.id /\ nextId' = nextId
      /\ \/ record' = record
         \/ /\ Exists /\ record.id = lock[o].id /\ record'.status # Processing
            /\ record'.expiresAt = lock[o].now + TTL
  BY <1>3 DEF Release, MarkSucceeded, MarkFailedRetryable
<1>5. ReleaseStep(o)
  BY <1>1, <1>2, <1>4 DEF ReleaseStep, Release, OwnType, Only
<1> QED
  BY <1>5, ReleaseStepLInv

\* A renewal extends the lock, or ends the loop.
LEMMA RenewLInv ==
  ASSUME LInv, NEW o \in Operations, Renew(o)
  PROVE  LInv'
<1> USE Times, Types, Knows DEF LInv, Others
<1>1. CASE /\ ~Extendable(lock[o].id, lock[o].payload)
           /\ loop' = [loop EXCEPT ![o] = NoLoop]
           /\ UNCHANGED <<store, pc>> /\ Forget(o)
  <2>1. LocalStep(o)
    BY <1>1, LoopEndLocal DEF Renew
  <2> QED
    BY <2>1, LocalStepLInv
<1>2. CASE /\ ExtendProcessingLock(lock[o].id, lock[o].payload,
                                   loop[o].time + Lease, loop[o].time + TTL)
           /\ NextTick(o) /\ UNCHANGED pc
           /\ lock' = [lock EXCEPT ![o].until = loop[o].time + Lease]
  <2>1. /\ loop' \in [Operations -> Loops] /\ loop'[o].at = "wait"
        /\ loop'[o].time = loop[o].time + RenewInterval
        /\ loop'[o].stop = loop[o].stop
        /\ \A p \in Operations \ {o} : loop'[p] = loop[p]
    BY <1>2, NextTickFacts
  <2>2. /\ lock' \in [Operations -> Locks]
        /\ lock'[o].id = lock[o].id /\ lock'[o].payload = lock[o].payload
        /\ lock'[o].now = lock[o].now /\ lock'[o].created = lock[o].created
        /\ lock'[o].until = loop[o].time + Lease
        /\ \A p \in Operations \ {o} : lock'[p] = lock[p]
    BY <1>2 DEF OwnType, Locks
  <2>3. /\ StoreType' /\ nextId' = nextId
        /\ Exists /\ record.id = lock[o].id /\ record.status = Processing
        /\ record'.id = record.id /\ record'.status = record.status
        /\ record'.fingerprint = record.fingerprint
        /\ record'.lockedUntil = loop[o].time + Lease
        /\ record'.expiresAt = loop[o].time + TTL
    <3> DEFINE end == loop[o].time + Lease
               expires == loop[o].time + TTL
    <3>1. end \in Nat /\ expires \in Nat
      OBVIOUS
    <3>2. /\ record' = [record EXCEPT !.lockedUntil = end, !.expiresAt = expires]
          /\ nextId' = nextId /\ Exists /\ record.id = lock[o].id
          /\ record.status = Processing
      BY <1>2 DEF ExtendProcessingLock, Extendable
    <3> HIDE DEF end, expires
    <3>3. /\ StoreType' /\ record'.id = record.id
          /\ record'.status = record.status
          /\ record'.fingerprint = record.fingerprint
          /\ record'.lockedUntil = end /\ record'.expiresAt = expires
      BY <3>1, <3>2 DEF StoreType
    <3> QED
      BY <3>2, <3>3 DEF end, expires
  <2>4. RenewStep(o)
    BY <1>2, <2>1, <2>2, <2>3 DEF RenewStep, Renew, OwnType, Only
  <2> QED
    BY <2>4, RenewStepLInv
<1> QED
  BY <1>1, <1>2 DEF Renew

-----------------------------------------------------------------------------
(* The inductive invariant *)

\* LInv holds when there has been no operation.
LEMMA InitLInv == Init => LInv
<1> SUFFICES ASSUME Init PROVE LInv
  OBVIOUS
<1> USE Times DEF Init, StoreInit, NoRecord, NoLock, NoLoop
<1>1. TypeOK
  <2>1. StoreType
    BY DEF StoreType, RecordStatuses
  <2>2. pc \in [Operations -> PCs] /\ lock \in [Operations -> Locks]
        /\ loop \in [Operations -> Loops]
    BY DEF PCs, Locks, Loops, RecordStatuses
  <2>3. \A o \in Operations : lock[o].id < nextId
    OBVIOUS
  <2>4. overran \in BOOLEAN
    BY Zenon
  <2>5. clock \in Nat \ {0} /\ faults \in 0..MaxFaults /\ lastRun \in Nat
    OBVIOUS
  <2> HIDE DEF Init
  <2> QED
    BY <2>1, <2>2, <2>3, <2>4, <2>5 DEF TypeOK, Locks, Loops
<1>2. Timely /\ LastFacts
  BY DEF Timely, LastFacts, OperationFacts, ClaimPCs
<1>3. LeaseFacts /\ RowFacts
  BY DEF LeaseFacts, RowFacts, Exists
<1>4. Expiry /\ HolderFacts /\ CreatorFacts
  BY DEF Expiry, HolderFacts, CreatorFacts, Running, HoldPCs
<1> QED
  BY <1>1, <1>2, <1>3, <1>4 DEF LInv

\* Every action preserves LInv.
LEMMA NextLInv ==
  ASSUME LInv, [Next]_vars
  PROVE  LInv'
<1>1. CASE UNCHANGED vars
  BY <1>1 DEF LInv, TypeOK, StoreType, Timely, LastFacts, LeaseFacts, RowFacts,
     Expiry, HolderFacts, CreatorFacts, Running, Exists, vars, own, store
<1>2. ASSUME NEW o \in Operations, NEW payload \in Payloads, Begin(o, payload)
      PROVE  LInv'
  BY <1>2, BeginLocal, LocalStepLInv
<1>3. ASSUME NEW o \in Operations, Finish(o) \/ RenewTick(o) \/ RenewFails(o)
      PROVE  LInv'
  BY <1>3, FinishLocal, LoopLocal, LocalStepLInv
<1>4. ASSUME NEW o \in Operations, RenewStop(o) PROVE LInv'
  <2>1. ~Running(o) /\ loop[o].at # "off"
    BY <1>4, Knows DEF RenewStop, OperationFacts, Running
  <2>2. LocalStep(o)
    BY <1>4, <2>1, LoopEndLocal DEF RenewStop
  <2> QED
    BY <2>2, LocalStepLInv
<1>5. ASSUME NEW o \in Operations, CallFails(o) \/ Crash(o) PROVE LInv'
  <2>1. faults' \in {faults, faults + 1} /\ faults' \in 0..MaxFaults
    BY <1>5, Times DEF LInv, TypeOK, CallFails, Crash, Fault
  <2>2. LocalStep(o)
    BY <1>5, <2>1, EndLocal DEF CallFails, Crash
  <2> QED
    BY <2>2, LocalStepLInv
<1> QED
  BY <1>1, <1>2, <1>3, <1>4, <1>5, CreateLInv, GetLInv, ReclaimLInv, ReleaseLInv,
     RenewLInv, CleanupLInv, TickLInv DEF Next

\* LInv holds in every state that the operations, their renewLoops, the cleanup,
\* errors and crashes reach.
THEOREM LockInvariant == Spec => []LInv
<1>1. Init => LInv
  BY InitLInv
<1>2. LInv /\ [Next]_vars => LInv'
  BY NextLInv
<1> QED
  BY <1>1, <1>2, PTL DEF Spec

-----------------------------------------------------------------------------
(* What follows *)

\* The row, the operations and their renewLoops stay within their types, and no
\* operation knows an id that the sequence has not given.
THEOREM TypeCorrect == Spec => []TypeOK
<1>1. LInv => TypeOK
  BY DEF LInv
<1> QED
  BY <1>1, LockInvariant, PTL

\* Two system operations do not run at the same time, as long as none of them
\* outlives the lock it last wrote, whatever is renewed, released or cleaned up.
THEOREM NeverTwoAtATime == Spec => []OneAtATime
<1>1. LInv => OneAtATime
  BY DEF LInv, HolderFacts, OneAtATime, Running, HoldPCs
<1> QED
  BY <1>1, LockInvariant, PTL

\* While the operation that created the row runs, no other one does, however long
\* it takes and even when one call has failed.
THEOREM CreatorRunsAlone == Spec => []CreatorIsAlone
<1>1. LInv => CreatorIsAlone
  <2> SUFFICES ASSUME LInv, NEW o \in Operations, NEW p \in Operations,
                      Running(o), Running(p), lock[o].created, faults <= 1
               PROVE  o = p
    BY DEF CreatorIsAlone
  <2>1. record.id = lock[p].id
    BY DEF LInv, Expiry
  <2> QED
    BY <2>1 DEF LInv, CreatorFacts
<1> QED
  BY <1>1, LockInvariant, PTL

\* When there is no operation, the lock that the last one left behind ends within
\* one lease of the last time there was one.
THEOREM NoLastingBlock == Spec => []BlockedAtMostOneLease
<1>1. LInv => BlockedAtMostOneLease
  BY DEF LInv, LeaseFacts, BlockedAtMostOneLease, Locked
<1> QED
  BY <1>1, LockInvariant, PTL
=============================================================================
