-------------------------- MODULE ConcurrencySlots --------------------------
(***************************************************************************)
(* The slots of one user or account (concurrency_service.go,               *)
(* concurrency_cache.go, handler/gateway_helper.go).  Redis keeps a sorted *)
(* set with an entry per request, a counter of the requests that wait for  *)
(* a slot, and an index of the ids that have either, from which background *)
(* clean-up and start-up find their work.                                  *)
(*                                                                         *)
(* A step is one Redis command, script or pipeline.  Every attempt uses an *)
(* id of its own, so an entry belongs to the request that will remove it   *)
(* (held) or to nobody (orphans).  Every script drops expired entries      *)
(* before it counts: an entry that expires is gone at once.  A request     *)
(* whose client has left gives its slot back and counts as ended.          *)
(***************************************************************************)
EXTENDS Naturals, FiniteSets

CONSTANTS Requests, Processes, None,
          Limit,      \* maxConcurrency
          MaxWait,    \* the limit of the wait queue
          MaxStarts,  \* bound on process starts
          MaxFaults   \* bound on failed calls and crashes

ASSUME SlotsAssumption ==
  /\ IsFiniteSet(Requests) /\ None \notin Processes
  /\ {Limit, MaxWait, MaxStarts, MaxFaults} \subseteq Nat
  /\ Limit > 0

VARIABLES
  held, orphans,    \* the slots
  wait,             \* the wait counter; 0: missing
  index,            \* "absent", or the score is "ahead" of the time or "past"
  marker,           \* legacy_wait_sweep:v1
  pc, job,          \* per request, see Jobs
  boot,             \* per process: its start-up
  sweep,            \* per process: its slot clean-up worker
  starts, faults,
  leaked,           \* history: counts that nobody may take off
  missing,          \* history: requests that wait and may not be counted
  unindexed,        \* history: load that the index may lack
  alone             \* history: the process that starts as the only one

redis == <<held, orphans, wait, index, marker>>
ledger == <<leaked, missing>>
history == <<ledger, unindexed, alone>>
vars == <<redis, pc, job, boot, sweep, starts, faults, history>>

PCs == {"idle", "try", "touch", "enqueue", "touchWait", "wait", "dequeue",
        "read", "write", "run", "release"}
BootPCs == {"down", "legacy", "sweep", "mark", "list", "slots", "wait",
            "index", "up"}
SweepPCs == {"idle", "read", "add", "remove"}

\* proc: the process; got: a slot was acquired; counted: to be taken off the
\* wait counter; empty: what refreshActiveIndex read; lost (history): its entry
\* expired, or another process removed it at its start.
Jobs == [proc : Processes \cup {None}, got : BOOLEAN, counted : BOOLEAN,
         empty : BOOLEAN, lost : BOOLEAN]
NoJob == [proc |-> None, got |-> FALSE, counted |-> FALSE, empty |-> FALSE,
          lost |-> FALSE]

Count == Cardinality(held) + orphans
Load == Count + wait
Queued == {r \in Requests : job[r].counted}

TypeOK ==
  /\ held \subseteq Requests /\ orphans \in Nat /\ Count <= Limit
  /\ wait \in 0..MaxWait /\ index \in {"absent", "ahead", "past"}
  /\ marker \in BOOLEAN
  /\ pc \in [Requests -> PCs] /\ job \in [Requests -> Jobs]
  /\ boot \in [Processes -> BootPCs] /\ sweep \in [Processes -> SweepPCs]
  /\ starts \in 0..MaxStarts /\ faults \in 0..MaxFaults
  /\ leaked \in Nat /\ missing \in Nat /\ unindexed \in BOOLEAN
  /\ alone \in Processes \cup {None}

Init ==
  /\ held = {} /\ orphans = 0 /\ wait = 0 /\ index = "absent"
  /\ marker = FALSE
  /\ pc = [r \in Requests |-> "idle"] /\ job = [r \in Requests |-> NoJob]
  /\ boot = [p \in Processes |-> "down"]
  /\ sweep = [p \in Processes |-> "idle"]
  /\ starts = 0 /\ faults = 0
  /\ leaked = 0 /\ missing = 0 /\ unindexed = FALSE /\ alone = None

-----------------------------------------------------------------------------
(* Helpers *)

Least(m, n) == IF m <= n THEN m ELSE n

Goto(r, label) == pc' = [pc EXCEPT ![r] = label] /\ UNCHANGED job
GotoWith(r, label, j) ==
  pc' = [pc EXCEPT ![r] = label] /\ job' = [job EXCEPT ![r] = j]
End(r) == GotoWith(r, "idle", NoJob)

\* Notes counts that nobody will take off and requests that are not counted: no
\* more than there are counts, and requests that wait.
Note(lost, uncounted) ==
  /\ leaked' = Least(wait', leaked + lost)
  /\ missing' = Least(Cardinality(Queued'), missing + uncounted)
\* The key of the counter is gone, whoever is counted.
Wipe == wait' = 0 /\ leaked' = 0 /\ missing' = Cardinality(Queued)
\* Notes load that no index entry points to.
Unindex(cause) ==
  unindexed' = ((unindexed \/ cause) /\ index' = "absent" /\ Load' > 0)

Processing == <<boot, sweep, starts, alone>>
NoFault == UNCHANGED faults
Fault == faults < MaxFaults /\ faults' = faults + 1

\* ZADD and ZREM on the index.
Touch == index' = "ahead" /\ Unindex(FALSE)
Drop == index' = "absent" /\ Unindex(TRUE)

-----------------------------------------------------------------------------
(* A request: AcquireUserSlotWithWait; accounts take the same steps *)

Begin(r, p) ==
  /\ pc[r] = "idle" /\ boot[p] = "up"
  /\ GotoWith(r, "try", [NoJob EXCEPT !.proc = p])
  /\ UNCHANGED <<redis, Processing, ledger, unindexed>> /\ NoFault

\* Faulty variant: the entries are not counted.
AcquireUncounted(r) ==
  /\ held' = held \cup {r}
  /\ GotoWith(r, "touch", [job[r] EXCEPT !.got = TRUE])

\* acquireScript.
Acquire(r) ==
  /\ Count < Limit /\ held' = held \cup {r}
  /\ GotoWith(r, "touch", [job[r] EXCEPT !.got = TRUE])

\* A request that waits tries again on a timer.
AcquireSlot(r) ==
  /\ \/ pc[r] \in {"try", "wait"} /\ Acquire(r)
     \/ pc[r] = "try" /\ Count >= Limit /\ Goto(r, "enqueue") /\ UNCHANGED held
  /\ UNCHANGED <<orphans, wait, index, marker, Processing, ledger,
                 unindexed>> /\ NoFault

AfterTouch(r) == Goto(r, IF job[r].counted THEN "dequeue" ELSE "run")

TouchActiveIndex(r) ==
  /\ \/ pc[r] = "touch" /\ AfterTouch(r)
     \/ pc[r] = "touchWait" /\ Goto(r, "wait")
  /\ UNCHANGED <<held, orphans, wait, marker, Processing, ledger>>
  /\ Touch /\ NoFault

\* incrementWaitScript; a full queue ends the request.
IncrementWaitCount(r) ==
  /\ pc[r] = "enqueue"
  /\ \/ /\ wait < MaxWait /\ wait' = wait + 1
        /\ GotoWith(r, "touchWait", [job[r] EXCEPT !.counted = TRUE])
     \/ wait >= MaxWait /\ End(r) /\ UNCHANGED wait
  /\ UNCHANGED <<held, orphans, index, marker, Processing, ledger,
                 unindexed>> /\ NoFault

\* The time is up, or the client has gone.
StopWaiting(r) ==
  /\ pc[r] = "wait" /\ Goto(r, "dequeue")
  /\ UNCHANGED <<redis, Processing, ledger, unindexed>> /\ NoFault

\* Where a request is when it has updated the index.
Resume(r, j) == IF j.got THEN GotoWith(r, "run", j) ELSE End(r)

\* Faulty variant: only a request that has got a slot is taken off.
DecrementIfGot(r) ==
  /\ pc[r] = "dequeue"
  /\ wait' = IF wait > 0 /\ job[r].got THEN wait - 1 ELSE wait
  /\ GotoWith(r, "read", [job[r] EXCEPT !.counted = FALSE])
  /\ Note(0, 0)
  /\ UNCHANGED <<held, orphans, index, marker, Processing, unindexed>>
  /\ NoFault

\* decrementWaitScript.
DecrementWaitCount(r) ==
  /\ pc[r] = "dequeue"
  /\ wait' = IF wait > 0 THEN wait - 1 ELSE 0
  /\ GotoWith(r, "read", [job[r] EXCEPT !.counted = FALSE])
  /\ Note(0, 0)
  /\ UNCHANGED <<held, orphans, index, marker, Processing, unindexed>>
  /\ NoFault

\* The response is complete, or the client has gone (wrapReleaseOnDone).
Done(r) ==
  /\ pc[r] = "run" /\ Goto(r, "release")
  /\ UNCHANGED <<redis, Processing, ledger, unindexed>> /\ NoFault

ReleaseSlot(r) ==
  /\ pc[r] = "release" /\ held' = held \ {r}
  /\ GotoWith(r, "read", [job[r] EXCEPT !.got = FALSE])
  /\ UNCHANGED <<orphans, wait, index, marker, Processing, ledger>>
  /\ Unindex(FALSE) /\ NoFault

\* refreshActiveIndex reads the load and then writes the index.
ReadActiveLoad(r) ==
  /\ pc[r] = "read"
  /\ GotoWith(r, "write", [job[r] EXCEPT !.empty = Load = 0])
  /\ UNCHANGED <<redis, Processing, ledger, unindexed>> /\ NoFault

RefreshActiveIndex(r) ==
  /\ pc[r] = "write" /\ Resume(r, [job[r] EXCEPT !.empty = FALSE])
  /\ UNCHANGED <<held, orphans, wait, marker, Processing, ledger>>
  /\ (IF job[r].empty THEN Drop ELSE Touch) /\ NoFault

-----------------------------------------------------------------------------
(* Expiry *)

\* A request runs for longer than the TTL.
SlotExpires(r) ==
  /\ pc[r] = "run" /\ r \in held /\ held' = held \ {r}
  /\ GotoWith(r, "run", [job[r] EXCEPT !.lost = TRUE])
  /\ UNCHANGED <<orphans, wait, index, marker, Processing, ledger>>
  /\ Unindex(FALSE) /\ NoFault

OrphanExpires ==
  /\ orphans > 0 /\ orphans' = orphans - 1
  /\ UNCHANGED <<held, wait, index, marker, pc, job, Processing, ledger>>
  /\ Unindex(FALSE) /\ NoFault

\* Every increment starts the TTL anew, and it is at least as long as a request
\* may wait.
WaitCountExpires ==
  /\ wait > 0 /\ Wipe
  /\ \A r \in Queued : pc[r] = "dequeue"
  /\ UNCHANGED <<held, orphans, index, marker, pc, job, Processing>>
  /\ Unindex(FALSE) /\ NoFault

IndexScorePasses ==
  /\ index = "ahead" /\ index' = "past"
  /\ UNCHANGED <<held, orphans, wait, marker, pc, job, Processing, ledger,
                 unindexed>> /\ NoFault

-----------------------------------------------------------------------------
(* The clean-up worker: reconcileExpiredIndexCandidates *)

Sweep(p, label) == sweep' = [sweep EXCEPT ![p] = label]

SweepRest == UNCHANGED <<held, orphans, wait, marker, pc, job, boot, starts,
                         ledger, alone>> /\ NoFault

ListExpired(p) ==
  /\ boot[p] = "up" /\ sweep[p] = "idle" /\ index = "past" /\ Sweep(p, "read")
  /\ UNCHANGED <<index, unindexed>> /\ SweepRest

ReadIndexLoads(p) ==
  /\ sweep[p] = "read" /\ Sweep(p, IF Load = 0 THEN "remove" ELSE "add")
  /\ UNCHANGED <<index, unindexed>> /\ SweepRest

Reconcile(p) ==
  /\ sweep[p] \in {"add", "remove"} /\ Sweep(p, "idle")
  /\ SweepRest
  /\ IF sweep[p] = "add" THEN Touch ELSE Drop

-----------------------------------------------------------------------------
(* Start-up: CleanupStaleProcessSlots, before the process serves requests *)

Boot(p, label) == boot' = [boot EXCEPT ![p] = label]
BootRest == UNCHANGED <<pc, sweep, starts, alone>> /\ NoFault

Start(p) ==
  /\ boot[p] = "down" /\ starts < MaxStarts /\ starts' = starts + 1
  /\ Boot(p, "legacy")
  /\ alone' = IF \A q \in Processes : boot[q] = "down" THEN p ELSE None
  /\ UNCHANGED <<redis, pc, job, sweep, ledger, unindexed>> /\ NoFault

\* sweepLegacyWaitKeysOnce, with the marker as it was when it looked.
CheckLegacyMarker(p) ==
  /\ boot[p] = "legacy" /\ Boot(p, IF marker THEN "list" ELSE "sweep")
  /\ UNCHANGED <<redis, job, ledger, unindexed>> /\ BootRest

SweepLegacyWaitKeys(p) ==
  /\ boot[p] = "sweep" /\ Boot(p, "mark") /\ Wipe
  /\ UNCHANGED <<held, orphans, index, marker, job>>
  /\ Unindex(FALSE) /\ BootRest

SetMarker(p) ==
  /\ boot[p] = "mark" /\ Boot(p, "list") /\ marker' = TRUE
  /\ UNCHANGED <<held, orphans, wait, index, job, ledger, unindexed>>
  /\ BootRest

\* Faulty variant: members whose score has passed are left out.
ListAhead(p) ==
  /\ boot[p] = "list" /\ Boot(p, IF index # "ahead" THEN "up" ELSE "slots")
  /\ UNCHANGED <<redis, job, ledger, unindexed>> /\ BootRest

AllIndexMembers(p) ==
  /\ boot[p] = "list" /\ Boot(p, IF index = "absent" THEN "up" ELSE "slots")
  /\ UNCHANGED <<redis, job, ledger, unindexed>> /\ BootRest

\* startupCleanupSlotScript removes every entry without the new process's
\* prefix, which no request has yet: those of other live processes too.
CleanupSlots(p) ==
  /\ boot[p] = "slots" /\ Boot(p, "wait")
  /\ held' = {} /\ orphans' = 0
  /\ job' = [r \in Requests |->
               IF r \in held THEN [job[r] EXCEPT !.lost = TRUE] ELSE job[r]]
  /\ UNCHANGED <<wait, index, marker, ledger>>
  /\ Unindex(FALSE) /\ BootRest

DeleteWaitKey(p) ==
  /\ boot[p] = "wait" /\ Boot(p, "index") /\ Wipe
  /\ UNCHANGED <<held, orphans, index, marker, job>>
  /\ Unindex(FALSE) /\ BootRest

RemoveIndexMember(p) ==
  /\ boot[p] = "index" /\ Boot(p, "up")
  /\ UNCHANGED <<held, orphans, wait, marker, job, ledger>>
  /\ Drop /\ BootRest

-----------------------------------------------------------------------------
(* Faults *)

\* An acquisition returns an error; the script may have run, for instance when
\* the client leaves in the middle of the call.
AcquireFails(r) ==
  /\ Fault
  /\ \/ pc[r] = "try" /\ End(r)
     \/ pc[r] = "wait" /\ Goto(r, "dequeue")
  /\ \/ UNCHANGED orphans
     \/ Count < Limit /\ orphans' = orphans + 1
  /\ UNCHANGED <<held, wait, index, marker, Processing, ledger>>
  /\ Unindex(orphans' > orphans)

\* Errors of the index are only logged.
IndexFails(r) ==
  /\ Fault
  /\ \/ pc[r] = "touch" /\ AfterTouch(r)
     \/ pc[r] = "touchWait" /\ Goto(r, "wait")
     \/ pc[r] \in {"read", "write"}
        /\ Resume(r, [job[r] EXCEPT !.empty = FALSE])
  /\ UNCHANGED <<redis, Processing, ledger>>
  /\ Unindex(pc[r] \in {"touch", "touchWait"})

\* An error of the counter lets the request wait, and be taken off in the end.
IncrementFails(r) ==
  /\ Fault /\ pc[r] = "enqueue"
  /\ GotoWith(r, "wait", [job[r] EXCEPT !.counted = TRUE])
  /\ \/ UNCHANGED wait
     \/ wait < MaxWait /\ wait' = wait + 1
  /\ UNCHANGED <<held, orphans, index, marker, Processing>>
  /\ Note(0, IF wait' = wait THEN 1 ELSE 0) /\ Unindex(wait' > wait)

\* A decrement or a release may have been done when it fails; the index is not
\* refreshed then.
DecrementFails(r) ==
  /\ Fault /\ pc[r] = "dequeue" /\ Resume(r, [job[r] EXCEPT !.counted = FALSE])
  /\ \/ UNCHANGED wait
     \/ wait > 0 /\ wait' = wait - 1
  /\ UNCHANGED <<held, orphans, index, marker, Processing>>
  /\ Note(IF wait' = wait THEN 1 ELSE 0, 0) /\ Unindex(FALSE)

ReleaseFails(r) ==
  /\ Fault /\ pc[r] = "release" /\ End(r)
  /\ held' = held \ {r} /\ orphans' \in {orphans, Count - Cardinality(held')}
  /\ UNCHANGED <<wait, index, marker, Processing, ledger>>
  /\ Unindex(FALSE)

\* A failing clean-up is only logged.
BootFails(p) ==
  /\ Fault /\ boot[p] \notin {"down", "up"} /\ Boot(p, "up")
  /\ alone' = IF alone = p THEN None ELSE alone
  /\ UNCHANGED <<redis, pc, job, sweep, starts, ledger, unindexed>>

SweepFails(p) ==
  /\ Fault /\ sweep[p] # "idle" /\ Sweep(p, "idle")
  /\ UNCHANGED <<redis, pc, job, boot, starts, history>>

Crash(p) ==
  LET died == {r \in Requests : job[r].proc = p} IN
  /\ Fault /\ boot[p] # "down" /\ Boot(p, "down") /\ Sweep(p, "idle")
  /\ pc' = [r \in Requests |-> IF r \in died THEN "idle" ELSE pc[r]]
  /\ job' = [r \in Requests |-> IF r \in died THEN NoJob ELSE job[r]]
  /\ held' = held \ died /\ orphans' = Count - Cardinality(held')
  /\ alone' = IF alone = p THEN None ELSE alone
  /\ UNCHANGED <<wait, index, marker, starts>>
  /\ Note(Cardinality(Queued \cap died), 0)
  /\ Unindex(\E r \in died : pc[r] \in {"touch", "touchWait"})

-----------------------------------------------------------------------------
Serve(r) ==
  \/ \E p \in Processes : Begin(r, p)
  \/ AcquireSlot(r) \/ TouchActiveIndex(r) \/ IncrementWaitCount(r)
  \/ StopWaiting(r) \/ DecrementWaitCount(r) \/ Done(r) \/ ReleaseSlot(r)
  \/ ReadActiveLoad(r) \/ RefreshActiveIndex(r)

RequestFails(r) == \/ AcquireFails(r) \/ IndexFails(r) \/ IncrementFails(r)
                   \/ DecrementFails(r) \/ ReleaseFails(r)

StartUp(p) ==
  \/ Start(p) \/ CheckLegacyMarker(p) \/ SweepLegacyWaitKeys(p)
  \/ SetMarker(p) \/ AllIndexMembers(p) \/ CleanupSlots(p)
  \/ DeleteWaitKey(p) \/ RemoveIndexMember(p)

Next ==
  \/ \E r \in Requests : Serve(r) \/ RequestFails(r) \/ SlotExpires(r)
  \/ \E p \in Processes : \/ StartUp(p) \/ BootFails(p) \/ Crash(p)
                          \/ ListExpired(p) \/ ReadIndexLoads(p)
                          \/ Reconcile(p) \/ SweepFails(p)
  \/ OrphanExpires \/ WaitCountExpires \/ IndexScorePasses

Spec == Init /\ [][Next]_vars

-----------------------------------------------------------------------------
(* Properties *)

\* At most Limit requests run at the same time, entries that were left behind
\* included, whatever fails and whoever dies: except for requests that outlived
\* the TTL or were running when another process started.
AtMostLimit ==
  Cardinality({r \in Requests : pc[r] = "run" /\ ~job[r].lost}) + orphans
    <= Limit

\* What the counter may be off by.  It exceeds the number of requests that wait
\* by no more than the counts that requests of dead processes and failed
\* decrements have left in it: these stay, and turn others away, until the key
\* expires or a start-up deletes it, or until as many requests that were not
\* counted are taken off.  It falls short by no more than the requests, of those
\* that wait, that were let in by a failed increment or waited when the key was
\* deleted.
WaitCountAddsUp ==
  /\ wait <= Cardinality(Queued) + leaked
  /\ Cardinality(Queued) <= wait + missing

\* A process that starts as the only one finds and removes what the ones before
\* it left, also when the scores of the index have passed: unless the index had
\* lost it, to a failed call or to a refresh that read before an acquisition and
\* wrote after it.
RestartCleansUp ==
  [][ \A p \in Processes :
        boot[p] # "up" /\ boot'[p] = "up" /\ alone' = p /\ ~unindexed
        => Load' = 0 ]_vars
=============================================================================
