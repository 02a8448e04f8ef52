---------------------------- MODULE Idempotency ----------------------------
(***************************************************************************)
(* IdempotencyCoordinator.Execute (service/idempotency.go) for requests    *)
(* that come with one idempotency key, and the cleanup of expired records. *)
(* A step is one statement on the record, or the operation that is         *)
(* protected; that operation takes effect and returns, or fails without    *)
(* an effect.                                                              *)
(*                                                                         *)
(* now is read once, at the start of a request, and used for everything    *)
(* the request writes and compares.  ClaimTime and RunTime bound how long  *)
(* a request takes to claim the record and to end.                         *)
(***************************************************************************)
EXTENDS IdempotencyStore

CONSTANTS
  Requests,           \* the requests that are served at the same time
  TTL, ProcessingTimeout, FailedRetryBackoff,
  ClaimTime, RunTime,
  MaxTime             \* bound on the clock

ASSUME TimeAssumption ==
  /\ TTL \in Nat \ {0} /\ ProcessingTimeout \in Nat /\ FailedRetryBackoff \in Nat
  /\ ClaimTime \in Nat \ {0} /\ RunTime \in Nat /\ MaxTime \in Nat
  /\ ClaimTime <= ProcessingTimeout /\ ClaimTime <= RunTime /\ RunTime <= TTL

VARIABLES
  clock,
  pc, req,   \* per request: position; payload, now, and the record it works on
  first      \* history: the record of the latest first success, the end of its
             \* window and the payload it was for

vars == <<store, clock, pc, req, first>>

ClaimPCs == {"create", "get", "reclaimExpired", "reread", "reclaim"}
RunPCs == {"execute", "markSucceeded", "markFailed"}
PCs == ClaimPCs \cup RunPCs \cup {"idle", "replayed"}

NoRequest == [payload |-> NoPayload, now |-> 0, id |-> 0, from |-> Processing]

RequestType ==
  /\ pc \in [Requests -> PCs]
  /\ req \in [Requests -> [payload : Payloads \cup {NoPayload}, now : Nat,
                           id : Nat, from : RecordStatuses]]
HistoryType ==
  /\ clock \in Nat \ {0}
  /\ first \in [id : Nat, end : Nat, payload : Payloads \cup {NoPayload}]

TypeOK == StoreType /\ RequestType /\ HistoryType

Init ==
  /\ StoreInit /\ clock = 1
  /\ pc = [r \in Requests |-> "idle"]
  /\ req = [r \in Requests |-> NoRequest]
  /\ first = [id |-> 0, end |-> 0, payload |-> NoPayload]

-----------------------------------------------------------------------------
Goto(r, label) == pc' = [pc EXCEPT ![r] = label] /\ UNCHANGED req

\* The request is answered.
Answer(r, label) ==
  /\ pc' = [pc EXCEPT ![r] = label]
  /\ req' = [req EXCEPT ![r].id = 0, ![r].from = Processing]

\* The request goes on with the record it has read.
Hold(r, id, status, label) ==
  /\ pc' = [pc EXCEPT ![r] = label]
  /\ req' = [req EXCEPT ![r].id = id, ![r].from = status]

LockedUntil(r) == req[r].now + ProcessingTimeout
ExpiresAt(r) == req[r].now + TTL

Begin(r, payload) ==
  /\ pc[r] \in {"idle", "replayed"}
  /\ pc' = [pc EXCEPT ![r] = "create"]
  /\ req' = [req EXCEPT ![r] = [NoRequest EXCEPT !.payload = payload,
                                                 !.now = clock]]
  /\ UNCHANGED <<store, clock, first>>

Create(r) ==
  /\ pc[r] = "create"
  /\ \/ /\ CreateProcessing(req[r].payload, LockedUntil(r), ExpiresAt(r))
        /\ Hold(r, nextId, Processing, "execute")
     \/ Exists /\ Goto(r, "get") /\ UNCHANGED store
  /\ UNCHANGED <<clock, first>>

\* The switch on the status: replay, conflict, backoff, or a retry.
Decide(r) ==
  \/ record.status = Succeeded /\ Answer(r, "replayed")
  \/ record.status = Processing /\ Answer(r, "idle")
  \/ /\ record.status = FailedRetryable /\ record.lockedUntil > req[r].now
     /\ Answer(r, "idle")
  \/ /\ record.status = FailedRetryable /\ record.lockedUntil <= req[r].now
     /\ Hold(r, record.id, FailedRetryable, "reclaim")

\* Faulty variant: the payloads are not compared.
SameAny(r) == Exists

\* The record is there and is one for the same payload.
Same(r) == Exists /\ record.fingerprint = req[r].payload

Get(r) ==
  /\ pc[r] = "get"
  /\ \/ ~Same(r) /\ Answer(r, "idle")
     \/ /\ Same(r) /\ record.expiresAt <= req[r].now
        /\ Hold(r, record.id, record.status, "reclaimExpired")
     \/ Same(r) /\ record.expiresAt > req[r].now /\ Decide(r)
  /\ UNCHANGED <<store, clock, first>>

\* A record that somebody else took over is read again.
ReclaimExpired(r) ==
  /\ pc[r] = "reclaimExpired"
  /\ \/ /\ TryReclaim(req[r].id, req[r].from, req[r].now, LockedUntil(r),
                      ExpiresAt(r))
        /\ Goto(r, "execute")
     \/ /\ ~Reclaimable(req[r].id, req[r].from, req[r].now)
        /\ Goto(r, "reread") /\ UNCHANGED store
  /\ UNCHANGED <<clock, first>>

Reread(r) ==
  /\ pc[r] = "reread"
  /\ \/ ~Same(r) /\ Answer(r, "idle")
     \/ Same(r) /\ Decide(r)
  /\ UNCHANGED <<store, clock, first>>

Reclaim(r) ==
  /\ pc[r] = "reclaim"
  /\ \/ /\ TryReclaim(req[r].id, FailedRetryable, req[r].now, LockedUntil(r),
                      ExpiresAt(r))
        /\ Goto(r, "execute")
     \/ /\ ~Reclaimable(req[r].id, FailedRetryable, req[r].now)
        /\ Answer(r, "idle") /\ UNCHANGED store
  /\ UNCHANGED <<clock, first>>

\* The operation takes effect ...
ExecuteOk(r) ==
  /\ pc[r] = "execute" /\ Goto(r, "markSucceeded")
  /\ first' = IF first.id = req[r].id THEN first
              ELSE [id |-> req[r].id, end |-> ExpiresAt(r),
                    payload |-> req[r].payload]
  /\ UNCHANGED <<store, clock>>

\* ... or fails.
ExecuteError(r) ==
  /\ pc[r] = "execute" /\ Goto(r, "markFailed")
  /\ UNCHANGED <<store, clock, first>>

WriteSucceeded(r) ==
  /\ pc[r] = "markSucceeded"
  /\ MarkSucceeded(req[r].id, ExpiresAt(r)) /\ Answer(r, "idle")
  /\ UNCHANGED <<clock, first>>

WriteFailed(r) ==
  /\ pc[r] = "markFailed"
  /\ MarkFailedRetryable(req[r].id, clock + FailedRetryBackoff, ExpiresAt(r))
  /\ Answer(r, "idle")
  /\ UNCHANGED <<clock, first>>

\* The store fails (ErrIdempotencyStoreUnavail), the answer cannot be stored or
\* replayed, the client's context ends, or the process dies: nothing more is
\* written for the request.
Abandon(r) ==
  /\ pc[r] \in ClaimPCs \cup RunPCs /\ Answer(r, "idle")
  /\ UNCHANGED <<store, clock, first>>

\* IdempotencyCleanupService.cleanupOnce
Cleanup ==
  /\ DeleteExpired(clock)
  /\ UNCHANGED <<clock, pc, req, first>>

\* Time passes, but not past a request's end.
Tick ==
  /\ clock < MaxTime /\ clock' = clock + 1
  /\ \A r \in Requests :
       /\ pc[r] \in ClaimPCs => clock' < req[r].now + ClaimTime
       /\ pc[r] \in RunPCs => clock' < req[r].now + RunTime
  /\ UNCHANGED <<store, pc, req, first>>

Serve(r) ==
  \/ Create(r) \/ Get(r) \/ ReclaimExpired(r) \/ Reread(r) \/ Reclaim(r)
  \/ ExecuteOk(r) \/ ExecuteError(r) \/ WriteSucceeded(r) \/ WriteFailed(r)
  \/ Abandon(r)

Next ==
  \/ \E r \in Requests : Serve(r) \/ \E p \in Payloads : Begin(r, p)
  \/ Cleanup \/ Tick

Spec == Init /\ [][Next]_vars

-----------------------------------------------------------------------------
(* Properties *)

\* The operation is never run by two requests at a time, although nothing but
\* now, locked_until and expires_at says who owns the record: not by retries, not
\* after a failure, not when requests race for an expired record.
OneExecutor ==
  \A r, s \in Requests :
    pc[r] \in RunPCs /\ pc[s] \in RunPCs => r = s

\* Once the operation has taken effect for a record, it is not executed again
\* before the window of that first success has ended, whether the success could
\* be written to the record or not, and whatever else was tried and failed.
RunsOncePerWindow ==
  \A r \in Requests : pc[r] = "execute" => first.end <= clock

Replays(r) == pc[r] # "replayed" /\ pc'[r] = "replayed"

ReplaysTheFirst ==
  \A r \in Requests :
    Replays(r) => record.id = first.id /\ req[r].payload = first.payload

\* A replayed answer is the answer to the same payload, given by an operation that
\* took effect for this very record.
ReplayIsForThePayload == [][ReplaysTheFirst]_vars
=============================================================================
