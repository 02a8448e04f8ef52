--------------------------- MODULE SchedulerOutbox ---------------------------
(***************************************************************************)
(* The scheduler's outbox (scheduler_outbox_repo.go, pollOutbox): a change *)
(* of an account is announced by a row of scheduler_outbox, and on every   *)
(* instance a poller reads the rows after a watermark shared in Redis,     *)
(* reloads what they are about and moves the watermark on.                 *)
(*                                                                         *)
(* One account and its bucket.  What a poller publishes is the subject of  *)
(* SchedulerBucket; here it only matters whether a publication contains    *)
(* every change committed so far.  A step is one SQL statement, one commit *)
(* or one Redis command; the id of a row is drawn when it is inserted, and *)
(* the row is visible when its transaction commits.                        *)
(***************************************************************************)
EXTENDS SchedulerPollers, Integers, FiniteSets

CONSTANTS Clients,    \* requests that change the account
          MaxEvents,  \* bound on the rows of the outbox
          BatchSize   \* rows per poll (200)

ASSUME MaxEventsAssumption == MaxEvents \in Nat
ASSUME BatchSizeAssumption == BatchSize \in Nat \ {0}

VARIABLES
  st,         \* state of every row
  keyed,      \* rows whose dedup_key is not NULL
  next,       \* the sequence of ids
  cpc, row,   \* per client: the next step, and its row (0: none)
  watermark,  \* in Redis
  lock,       \* the bucket's rebuild lock in Redis
  ppc, wm, todo, last, loaded, \* per poller, see PollerType
  failures,
  fresh,      \* history, per poller: no change was committed since its load
  stale,      \* history: a committed change is not in the cache
  missed,     \* history: why the outbox will not bring it there, see README
  handled,    \* history: rows some poller handled
  late        \* history: rows committed after a row with a higher id was read

Ids == 1..MaxEvents
rowVars    == <<st, keyed, next>>
clientVars == <<cpc, row>>
pollerVars == <<ppc, wm, todo, last, loaded>>
redis      == <<watermark, lock>>
history    == <<fresh, stale, missed, handled, late>>
outboxVars == <<rowVars, clientVars, redis, pollerVars, failures, history>>

RowType ==
  /\ st \in [Ids -> {"none", "open", "committed", "deleted", "rolledback"}]
  /\ keyed \subseteq Ids /\ next \in 0..MaxEvents

ClientType ==
  /\ cpc \in [Clients -> {"idle", "enqueue", "insert", "tx"}]
  /\ row \in [Clients -> 0..MaxEvents]

\* wm: the watermark read; todo: the rows still to handle, last: the highest
\* row of the batch; loaded: the bucket is in seen, the batch's set.
PollerType ==
  /\ ppc \in [Pollers -> {"idle", "list", "handle", "publish", "mark",
                          "clean"}]
  /\ wm \in [Pollers -> 0..MaxEvents]
  /\ todo \in [Pollers -> SUBSET Ids]
  /\ last \in [Pollers -> 0..MaxEvents]
  /\ loaded \in [Pollers -> BOOLEAN]

OutboxTypeOK ==
  /\ RowType /\ ClientType /\ PollerType
  /\ watermark \in 0..MaxEvents /\ lock \in Pollers \cup {None}
  /\ failures \in 0..MaxFaults
  /\ fresh \in [Pollers -> BOOLEAN] /\ stale \in BOOLEAN /\ missed \in BOOLEAN
  /\ handled \subseteq Ids /\ late \subseteq Ids

OutboxInit ==
  /\ st = [i \in Ids |-> "none"] /\ keyed = {} /\ next = 0
  /\ cpc = [c \in Clients |-> "idle"] /\ row = [c \in Clients |-> 0]
  /\ watermark = 0 /\ lock = None
  /\ ppc = [p \in Pollers |-> "idle"] /\ wm = [p \in Pollers |-> 0]
  /\ todo = [p \in Pollers |-> {}] /\ last = [p \in Pollers |-> 0]
  /\ loaded = [p \in Pollers |-> FALSE]
  /\ failures = 0
  /\ fresh = [p \in Pollers |-> FALSE] /\ stale = FALSE /\ missed = FALSE
  /\ handled = {} /\ late = {}

-----------------------------------------------------------------------------
(* Changes of the account and enqueueSchedulerOutbox *)

Committed(i) == st[i] = "committed"

\* A change becomes visible.
AccountChanged == stale' = TRUE /\ fresh' = [p \in Pollers |-> FALSE]

\* The unique index on dedup_key: ON CONFLICT DO NOTHING against a committed
\* row; an INSERT that meets an uncommitted one waits for its transaction.
Conflict == \E i \in keyed : Committed(i)
Blocked == \E i \in keyed : st[i] = "open"

\* The row that a deduplicated change relies on is still to be read.
Waiting == \E i \in keyed \ late : Committed(i)

\* INSERT: account_changed has a dedup_key, account_groups_changed and
\* account_bulk_changed have none.  The row's id, or 0 when it was not needed.
Insert(c, label) ==
  \/ /\ next < MaxEvents /\ next' = next + 1
     /\ st' = [st EXCEPT ![next'] = "open"]
     /\ \/ ~Conflict /\ ~Blocked /\ keyed' = keyed \cup {next'}
        \/ UNCHANGED keyed
     /\ cpc' = [cpc EXCEPT ![c] = label] /\ row' = [row EXCEPT ![c] = next']
  \/ /\ Conflict
     /\ cpc' = [cpc EXCEPT ![c] = IF label = "tx" THEN "tx" ELSE "idle"]
     /\ row' = [row EXCEPT ![c] = 0]
     /\ UNCHANGED rowVars

\* Update, UpdateCredentials, SetError, ...: the row is inserted after the commit
\* of the change.
Change(c) ==
  /\ cpc[c] = "idle" /\ next < MaxEvents
  /\ cpc' = [cpc EXCEPT ![c] = "enqueue"]
  /\ AccountChanged
  /\ UNCHANGED <<rowVars, row, redis, pollerVars, failures, missed, handled,
                 late>>

Enqueue(c) ==
  /\ cpc[c] = "enqueue" /\ Insert(c, "insert")
  /\ missed' = (missed \/ (cpc'[c] = "idle" /\ ~Waiting))
  /\ UNCHANGED <<redis, pollerVars, failures, fresh, stale, handled, late>>

\* CreateWithAccountGroups, the quota of usage billing, the conditional updates
\* of Grok accounts: change and row are one transaction.
ChangeInTx(c) ==
  /\ cpc[c] = "idle" /\ Insert(c, "tx")
  /\ UNCHANGED <<redis, pollerVars, failures, history>>

\* A row with a higher id has been read by a poll.
ReadBeyond(i) ==
  \/ i < watermark
  \/ \E j \in handled : i < j
  \/ \E p \in Pollers : ppc[p] \notin {"idle", "list"} /\ i < last[p]

\* The commit makes the row visible and, in a transaction, the change as well:
\* the row such a change relied on may have been read meanwhile.
Commit(c) ==
  /\ cpc[c] \in {"insert", "tx"}
  /\ LET i == row[c]
     IN  /\ st' = IF i = 0 THEN st ELSE [st EXCEPT ![i] = "committed"]
         /\ late' = IF i # 0 /\ ReadBeyond(i) THEN late \cup {i} ELSE late
         /\ IF cpc[c] = "tx" THEN AccountChanged
            ELSE UNCHANGED <<stale, fresh>>
         /\ missed' = (missed \/ (i = 0 /\ ~Waiting)
                              \/ (i # 0 /\ ReadBeyond(i)))
  /\ cpc' = [cpc EXCEPT ![c] = "idle"] /\ row' = [row EXCEPT ![c] = 0]
  /\ UNCHANGED <<keyed, next, redis, pollerVars, failures, handled>>

\* The INSERT after a change fails, which is only logged.
EnqueueFails(c) ==
  /\ cpc[c] = "enqueue" /\ failures < MaxFaults /\ failures' = failures + 1
  /\ cpc' = [cpc EXCEPT ![c] = "idle"]
  /\ missed' = (missed \/ stale)
  /\ UNCHANGED <<rowVars, row, redis, pollerVars, fresh, stale, handled,
                 late>>

\* The transaction is rolled back: the id stays unused.
Rollback(c) ==
  /\ cpc[c] = "tx" /\ failures < MaxFaults /\ failures' = failures + 1
  /\ st' = IF row[c] = 0 THEN st ELSE [st EXCEPT ![row[c]] = "rolledback"]
  /\ keyed' = keyed \ {row[c]}
  /\ cpc' = [cpc EXCEPT ![c] = "idle"] /\ row' = [row EXCEPT ![c] = 0]
  /\ UNCHANGED <<next, redis, pollerVars, history>>

-----------------------------------------------------------------------------
(* pollOutbox *)

Proceed(p, label) == ppc' = [ppc EXCEPT ![p] = label]
EndPoll(p) ==
  /\ Proceed(p, "idle")
  /\ wm' = [wm EXCEPT ![p] = 0] /\ last' = [last EXCEPT ![p] = 0]
  /\ todo' = [todo EXCEPT ![p] = {}]
  /\ loaded' = [loaded EXCEPT ![p] = FALSE]

GetOutboxWatermark(p) ==
  /\ ppc[p] = "idle" /\ Proceed(p, "list")
  /\ wm' = [wm EXCEPT ![p] = watermark]
  /\ UNCHANGED <<rowVars, clientVars, redis, todo, last, loaded, failures,
                 history>>

\* The rows after the watermark, in the order of their ids, at most BatchSize.
After(w) == {i \in Ids : i > w /\ Committed(i)}
Batch(w) ==
  {i \in After(w) : Cardinality({j \in After(w) : j < i}) < BatchSize}

StartBatch(p, b) ==
  /\ Proceed(p, "handle") /\ todo' = [todo EXCEPT ![p] = b]
  /\ \E i \in b : (\A j \in b : j <= i) /\ last' = [last EXCEPT ![p] = i]
  /\ UNCHANGED <<wm, loaded>>

\* Faulty variant: the dedup keys are released when the batch is consumed.
ListKeepingDedup(p) ==
  /\ ppc[p] = "list"
  /\ LET b == Batch(wm[p])
     IN  \/ b = {} /\ EndPoll(p)
         \/ StartBatch(p, b)
  /\ UNCHANGED <<rowVars, clientVars, redis, failures, history>>

\* Reading the rows and releasing their dedup keys is one statement.
ListAfterAndReleaseDedup(p) ==
  /\ ppc[p] = "list"
  /\ LET b == Batch(wm[p])
     IN  \/ b = {} /\ EndPoll(p) /\ UNCHANGED keyed
         \/ StartBatch(p, b) /\ keyed' = keyed \ b
  /\ UNCHANGED <<st, next, clientVars, redis, failures, history>>

\* The end of an event: the next one, or the watermark.
Done(p) ==
  \E i \in todo[p] :
    /\ \A j \in todo[p] : i <= j
    /\ todo' = [todo EXCEPT ![p] = @ \ {i}]
    /\ handled' = handled \cup {i}
    /\ Proceed(p, IF todo[p] = {i} THEN "mark" ELSE "handle")

\* handleAccountEvent: the first event of a batch takes the rebuild lock and
\* loads the accounts; when another rebuild has the lock, the event counts as
\* handled all the same.  Later events of the batch find the bucket in seen.
HandleEvent(p) ==
  /\ ppc[p] = "handle"
  /\ loaded' = [loaded EXCEPT ![p] = TRUE]
  /\ \/ /\ ~loaded[p] /\ lock = None
        /\ lock' = p /\ Proceed(p, "publish")
        /\ fresh' = [fresh EXCEPT ![p] = TRUE]
        /\ UNCHANGED <<todo, missed, handled>>
     \/ /\ ~loaded[p] /\ lock # None
        /\ missed' = (missed \/ stale)
        /\ Done(p) /\ UNCHANGED <<lock, fresh>>
     \/ /\ loaded[p]
        /\ Done(p) /\ UNCHANGED <<lock, fresh, missed>>
  /\ UNCHANGED <<rowVars, clientVars, watermark, wm, last, failures, stale,
                 late>>

\* SetSnapshot and UnlockBucket, which deletes the lock whoever holds it.  Old
\* accounts replace newer ones: their version is higher.
Publish(p) ==
  /\ ppc[p] = "publish" /\ lock' = None /\ Done(p)
  /\ stale' = ~fresh[p]
  /\ missed' = (~fresh[p] /\ (missed \/ ~stale))
  /\ fresh' = [fresh EXCEPT ![p] = FALSE]
  /\ UNCHANGED <<rowVars, clientVars, watermark, wm, last, loaded, failures,
                 late>>

\* Faulty variant: the watermark skips to the newest row.
SetOutboxWatermarkToNewest(p) ==
  /\ ppc[p] = "mark" /\ watermark' = next /\ Proceed(p, "clean")
  /\ UNCHANGED <<rowVars, clientVars, lock, wm, todo, last, loaded, failures,
                 history>>

SetOutboxWatermark(p) ==
  /\ ppc[p] = "mark" /\ watermark' = last[p] /\ Proceed(p, "clean")
  /\ UNCHANGED <<rowVars, clientVars, lock, wm, todo, last, loaded, failures,
                 history>>

\* cleanupConsumedOutbox: the rows created more than 10 seconds ago, which may
\* be any, or none while another instance holds the advisory lock.
DeleteConsumedUpTo(p) ==
  /\ ppc[p] = "clean" /\ EndPoll(p)
  /\ \E d \in SUBSET {i \in Ids : i <= last[p] /\ Committed(i)} :
       /\ st' = [i \in Ids |-> IF i \in d THEN "deleted" ELSE st[i]]
       /\ keyed' = keyed \ d
  /\ UNCHANGED <<next, clientVars, redis, failures, history>>

\* A read, a handler or the writes of the watermark fail, or the process dies:
\* the poll ends without moving the watermark.
PollFails(p) ==
  /\ ppc[p] # "idle" /\ failures < MaxFaults /\ failures' = failures + 1
  /\ EndPoll(p) /\ fresh' = [fresh EXCEPT ![p] = FALSE]
  /\ UNCHANGED <<rowVars, clientVars, redis, stale, missed, handled, late>>

\* The lock's TTL of 30 seconds passes.
RebuildLockExpires ==
  /\ lock # None /\ lock' = None
  /\ UNCHANGED <<rowVars, clientVars, watermark, pollerVars, failures,
                 history>>

\* Redis loses the watermark: GetOutboxWatermark takes a missing key for 0.
LoseWatermark ==
  /\ watermark > 0 /\ failures < MaxFaults /\ failures' = failures + 1
  /\ watermark' = 0
  /\ UNCHANGED <<rowVars, clientVars, lock, pollerVars, history>>

-----------------------------------------------------------------------------
Client(c) == \/ Change(c) \/ Enqueue(c) \/ ChangeInTx(c) \/ Commit(c)
             \/ EnqueueFails(c) \/ Rollback(c)

Poll(p) == \/ GetOutboxWatermark(p) \/ ListAfterAndReleaseDedup(p)
           \/ HandleEvent(p) \/ Publish(p)
           \/ SetOutboxWatermark(p) \/ DeleteConsumedUpTo(p)

OutboxNext == \/ \E c \in Clients : Client(c)
        \/ \E p \in Pollers : Poll(p) \/ PollFails(p)
        \/ RebuildLockExpires \/ LoseWatermark

\* The pollers run on a ticker, statements end, and the lock expires.
OutboxFairness == /\ \A p \in Pollers : WF_outboxVars(Poll(p))
            /\ \A c \in Clients : WF_outboxVars(Commit(c))
            /\ WF_outboxVars(RebuildLockExpires)

OutboxSpec == OutboxInit /\ [][OutboxNext]_outboxVars /\ OutboxFairness

-----------------------------------------------------------------------------
(* Properties *)

\* No poll passes an event by: a row at or below the watermark, or deleted, was
\* handled, whatever the pollers of several instances do to the watermark they
\* share and however often a poll fails.  The exception are rows that commit
\* after a row with a higher id was read.
PassedIsHandled ==
  \A i \in Ids :
    /\ (Committed(i) /\ i <= watermark) \/ st[i] = "deleted"
    /\ i \notin late
    => i \in handled

\* A change is not forgotten: as long as it is not in the cache, its event is
\* being inserted or has yet to be handled, which starts with a load.  The
\* deduplication could break this: a change that finds a pending row inserts
\* none and relies on a load to come.
UnseenIsPending ==
  stale /\ ~missed =>
    \/ \E c \in Clients : cpc[c] \in {"enqueue", "insert"}
    \/ \E i \in Ids : Committed(i) /\ i > watermark /\ i \notin handled

\* Every event that commits in time is handled in the end, by some instance.
EventuallyHandled ==
  \A i \in Ids : Committed(i) /\ i \notin late ~> i \in handled

=============================================================================
