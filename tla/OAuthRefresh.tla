---------------------------- MODULE OAuthRefresh ----------------------------
(***************************************************************************)
(* The refresh of one account's OAuth token: OAuthRefreshAPI (service/     *)
(* oauth_refresh_api.go) called by the background service                  *)
(* (token_refresh_service.go) and by requests (claude_token_provider.go    *)
(* and its siblings), and the administrator's operations on credentials    *)
(* (handler/admin/account_handler.go).                                     *)
(*                                                                         *)
(* A refresh token is a family, one per authorization by the user, and a   *)
(* number in it: the provider accepts the last one it gave out, and only   *)
(* once.  It stands for the access token that came with it as well.  A     *)
(* step is one statement, one Redis command or one call of the provider.   *)
(***************************************************************************)
EXTENDS Integers, FiniteSets

CONSTANTS
  Background,     \* workers of the background service
  Requests,       \* requests that need an access token
  Admins,         \* requests of the administrator
  NoOne,
  MaxFamilies, MaxNumber,   \* bounds on authorizations and rotations of one
  MaxEdits, MaxFaults       \* bounds on administrator's requests and faults

Workers == Background \cup Requests

ASSUME OAuthAssumption ==
  /\ NoOne \notin Workers \cup Admins
  /\ Background \cap Requests = {} /\ Workers \cap Admins = {}
  /\ {MaxFamilies, MaxNumber} \subseteq Nat \ {0}
  /\ {MaxEdits, MaxFaults} \subseteq Nat

VARIABLES
  grok,      \* the account is a Grok account: conditional writes
  together,  \* the workers run in one process, not in one each
  live,      \* provider: the number accepted in each family
  revoked,   \* provider: the families the user has withdrawn
  aging,     \* the tokens that are near their expiry
  stored,    \* accounts.credentials
  status,    \* accounts.status
  lock,      \* Redis: the refresh lock
  cached,    \* Redis: the access token
  pc, job,   \* per worker: position and local variables
  apc, edit, \* per administrator's request: position and local variables
  edits,     \* the number of administrator's requests so far
  versions,  \* the latest _token_version, a time
  faults,
  mishaps,   \* history: two refreshes overlapped or a rotation was not stored
             \* ("race"); the administrator refreshed by hand, or he or a
             \* request that had found a project wrote back what had changed
             \* since it was read ("overwrite"); a token was cached that was
             \* no longer stored, by somebody who had looked before or could
             \* not tell ("cache")
  reused     \* history: a worker was refused because of a token used before

provider == <<live, revoked, aging>>
account == <<stored, status>>
admin == <<apc, edit, edits>>
deployment == <<grok, together>>
ghost == <<mishaps, reused>>
vars == <<deployment, provider, account, lock, cached, pc, job, admin,
          versions, faults, ghost>>

Families == 1..MaxFamilies
Tokens == [family : Families, number : 1..(MaxNumber + 1)]
NoToken == [family |-> 0, number |-> 0]
Credentials == [token : Tokens \cup {NoToken}, version : Nat]
NoCredentials == [token |-> NoToken, version |-> 0]

Critical == {"read", "refresh", "recover", "persist", "delete", "release"}
PCs == Critical \cup {"idle", "mutex", "lock", "wait", "reread", "setError",
                      "invalidate", "check", "filled", "set"}
AdminPCs == {"idle", "refresh", "load", "save", "clear", "invalidate"}
Outcomes == {"none", "skip", "failed", "invalid", "refreshed"}
Mishaps == {"race", "overwrite", "cache"}

NoJob == [account |-> NoCredentials, used |-> NoCredentials, new |-> NoToken,
          locked |-> FALSE, outcome |-> "none"]
NoEdit == [new |-> NoCredentials, loaded |-> NoCredentials,
           status |-> "active", authorized |-> FALSE]

TypeOK ==
  /\ grok \in BOOLEAN /\ together \in BOOLEAN
  /\ live \in [Families -> 0..(MaxNumber + 1)]
  /\ revoked \subseteq Families /\ aging \subseteq Tokens
  /\ stored \in Credentials /\ stored.token # NoToken
  /\ status \in {"active", "error"}
  /\ lock \in Workers \cup {NoOne} /\ cached \in Tokens \cup {NoToken}
  /\ pc \in [Workers -> PCs]
  /\ job \in [Workers -> [account : Credentials, used : Credentials,
                          new : Tokens \cup {NoToken}, locked : BOOLEAN,
                          outcome : Outcomes]]
  /\ apc \in [Admins -> AdminPCs]
  /\ edit \in [Admins -> [new : Credentials, loaded : Credentials,
                          status : {"active", "error"}, authorized : BOOLEAN]]
  /\ edits \in 0..MaxEdits /\ versions \in Nat /\ faults \in 0..MaxFaults
  /\ mishaps \subseteq Mishaps /\ reused \in BOOLEAN

FirstToken == [family |-> 1, number |-> 1]

Init ==
  /\ grok \in BOOLEAN /\ together \in BOOLEAN
  /\ live = [f \in Families |-> IF f = 1 THEN 1 ELSE 0]
  /\ revoked = {} /\ aging = {}
  /\ stored = [token |-> FirstToken, version |-> 0] /\ status = "active"
  /\ lock = NoOne /\ cached = NoToken
  /\ pc = [w \in Workers |-> "idle"] /\ job = [w \in Workers |-> NoJob]
  /\ apc = [a \in Admins |-> "idle"] /\ edit = [a \in Admins |-> NoEdit]
  /\ edits = 0
  /\ versions = 0 /\ faults = 0 /\ mishaps = {} /\ reused = FALSE

-----------------------------------------------------------------------------
Accepted(t) == live[t.family] = t.number /\ t.family \notin revoked
Rotated(t) == [t EXCEPT !.number = t.number + 1]

\* What the provider does with a token it accepts.
Rotate(t) == live' = [live EXCEPT ![t.family] = t.number + 1]

NeedsRefresh(t) == t \in aging

\* A token comes near its expiry.  It is the last one of its family that the
\* model lets age, if its successor could not be represented.
Age ==
  /\ stored.token.number <= MaxNumber
  /\ stored.token \notin aging /\ aging' = aging \cup {stored.token}
  /\ UNCHANGED <<deployment, live, revoked, account, lock, cached, pc, job,
                 admin, versions, faults, ghost>>

Fault == faults < MaxFaults /\ faults' = faults + 1

\* The user withdraws the authorization.
Revoke ==
  /\ Fault /\ revoked' = revoked \cup {stored.token.family}
  /\ UNCHANGED <<deployment, live, aging, account, lock, cached, pc, job,
                 admin, versions, ghost>>

SameProcess(v, w) == v = w \/ together

Goto(w, label) == pc' = [pc EXCEPT ![w] = label]
Leave(w) == Goto(w, "idle") /\ job' = [job EXCEPT ![w] = NoJob]
Ends(w, outcome) ==
  Goto(w, "release") /\ job' = [job EXCEPT ![w].outcome = outcome]

Remember(mishap, happened) ==
  mishaps' = IF happened THEN mishaps \cup {mishap} ELSE mishaps

\* What the steps of a worker leave alone.
Else == UNCHANGED <<deployment, revoked, aging, admin>>

\* processCandidatePage: an active account that needs a refresh is picked.
BeginRefresh(w) ==
  /\ w \in Background /\ pc[w] = "idle"
  /\ status = "active" /\ NeedsRefresh(stored.token)
  /\ Goto(w, "mutex")
  /\ UNCHANGED <<live, account, lock, cached, job, versions, faults, ghost>>
  /\ Else

\* GetAccessToken of a provider, when the cache does not answer.
CacheMiss == cached = NoToken \/ (grok /\ cached # stored.token)
             \/ (grok /\ NeedsRefresh(stored.token))
GetAccessToken(w) ==
  /\ w \in Requests /\ pc[w] = "idle" /\ status = "active" /\ CacheMiss
  /\ job' = [job EXCEPT ![w].account = stored]
  /\ Goto(w, IF NeedsRefresh(stored.token) THEN "mutex" ELSE "check")
  /\ UNCHANGED <<live, account, lock, cached, versions, faults, ghost>> /\ Else

-----------------------------------------------------------------------------
\* Faulty variant: the mutex of the process is not taken.
LockMutexNot(w) ==
  /\ pc[w] = "mutex" /\ Goto(w, "lock")
  /\ UNCHANGED <<live, account, lock, cached, job, versions, faults, ghost>>
  /\ Else

\* RefreshIfNeeded: calls of one process for the account go one by one.
LockMutex(w) ==
  /\ pc[w] = "mutex"
  /\ \A v \in Workers :
       SameProcess(v, w) => pc[v] \notin Critical \cup {"lock"}
  /\ Goto(w, "lock")
  /\ UNCHANGED <<live, account, lock, cached, job, versions, faults, ghost>>
  /\ Else

\* The worker goes on, with the lock or, when Redis fails, without it.
Enter(w, locked) ==
  /\ Goto(w, "read") /\ job' = [job EXCEPT ![w].locked = locked]
  /\ Remember("race", \E v \in Workers : pc[v] \in Critical)

\* LockHeld: the caller does without a refresh.  A request takes the token it
\* finds in the cache or the one it has; one for a Grok account waits.
LockHeld(w) ==
  \/ /\ w \in Requests /\ Goto(w, IF grok THEN "wait" ELSE "check")
     /\ UNCHANGED job
  \/ (w \in Background \/ (~grok /\ cached # NoToken)) /\ Leave(w)

AcquireRefreshLock(w) ==
  /\ pc[w] = "lock"
  /\ \/ lock = NoOne /\ lock' = w /\ Enter(w, TRUE)
     \/ lock # NoOne /\ LockHeld(w) /\ UNCHANGED <<lock, mishaps>>
  /\ UNCHANGED <<live, account, cached, versions, faults, reused>> /\ Else

AcquireFails(w) ==
  /\ Fault /\ pc[w] = "lock" /\ Enter(w, FALSE)
  /\ UNCHANGED <<live, account, lock, cached, versions, reused>> /\ Else

\* Faulty variant: a request refreshes the account it came with.
RereadNot(w) ==
  /\ pc[w] = "read"
  /\ LET fresh == IF w \in Requests THEN job[w].account ELSE stored
     IN  /\ status = "active" /\ NeedsRefresh(fresh.token)
         /\ Goto(w, "refresh") /\ job' = [job EXCEPT ![w].used = fresh]
  /\ UNCHANGED <<live, account, lock, cached, versions, faults, ghost>> /\ Else

\* The account is read again: it may be refreshed or disabled by now.
Reread(w) ==
  /\ pc[w] = "read"
  /\ \/ /\ status = "active" /\ NeedsRefresh(stored.token)
        /\ Goto(w, "refresh") /\ job' = [job EXCEPT ![w].used = stored]
     \/ /\ status # "active" \/ ~NeedsRefresh(stored.token)
        /\ Goto(w, "release")
        /\ job' = [job EXCEPT ![w].account = stored, ![w].outcome = "skip"]
  /\ UNCHANGED <<live, account, lock, cached, versions, faults, ghost>> /\ Else

Refresh(w) ==
  LET t == job[w].used.token IN
  /\ pc[w] = "refresh"
  /\ \/ /\ Accepted(t) /\ Rotate(t)
        /\ Goto(w, "persist") /\ job' = [job EXCEPT ![w].new = Rotated(t)]
        /\ UNCHANGED reused
     \/ /\ ~Accepted(t) /\ UNCHANGED live
        /\ Goto(w, "recover") /\ UNCHANGED job
        /\ reused' = (reused \/ t.number < live[t.family])
  /\ UNCHANGED <<account, lock, cached, versions, faults, mishaps>> /\ Else

\* The call fails, or the answer comes after the context has ended.
RefreshFails(w) ==
  LET t == job[w].used.token IN
  /\ Fault /\ pc[w] = "refresh" /\ Ends(w, "failed")
  /\ \/ UNCHANGED <<live, mishaps>>
     \/ Accepted(t) /\ Rotate(t) /\ mishaps' = mishaps \cup {"race"}
  /\ UNCHANGED <<account, lock, cached, versions, reused>> /\ Else

\* Somebody else has used the token, if the one stored is another by now.
TryRecoverFromRefreshRace(w) ==
  /\ pc[w] = "recover"
  /\ \/ /\ stored.token # job[w].used.token /\ Goto(w, "release")
        /\ job' = [job EXCEPT ![w].account = stored, ![w].outcome = "skip"]
     \/ stored.token = job[w].used.token /\ Ends(w, "invalid")
  /\ UNCHANGED <<live, account, lock, cached, versions, faults, ghost>> /\ Else

Store(w) ==
  /\ versions' = versions + 1
  /\ stored' = [token |-> job[w].new, version |-> versions + 1]
Stored(w) ==
  /\ Goto(w, IF grok THEN "delete" ELSE "release")
  /\ job' = [job EXCEPT ![w].account = stored', ![w].outcome = "refreshed"]

\* Faulty variant: the credentials are written whatever they are now.
PersistBlind(w) ==
  /\ pc[w] = "persist" /\ Store(w) /\ Stored(w)
  /\ UNCHANGED <<live, status, lock, cached, faults, ghost>> /\ Else

\* UpdateGrokOAuthCredentialsIfUnchanged, or persistAccountCredentials.
Persist(w) ==
  /\ pc[w] = "persist"
  /\ \/ /\ grok => stored = job[w].used
        /\ Store(w) /\ Stored(w)
     \/ /\ grok /\ stored # job[w].used /\ Goto(w, "release")
        /\ job' = [job EXCEPT ![w].account = stored, ![w].outcome = "skip"]
        /\ UNCHANGED <<stored, versions>>
  /\ UNCHANGED <<live, status, lock, cached, faults, ghost>> /\ Else

PersistFails(w) ==
  /\ Fault /\ pc[w] = "persist" /\ Ends(w, "failed")
  /\ mishaps' = mishaps \cup {"race"}
  /\ UNCHANGED <<live, account, lock, cached, versions, reused>> /\ Else

\* loadGrokDurableAccountAfterPersist.
DeleteAccessToken(w) ==
  /\ pc[w] = "delete" /\ cached' = NoToken
  /\ Goto(w, "release") /\ job' = [job EXCEPT ![w].account = stored]
  /\ UNCHANGED <<live, account, lock, versions, faults, ghost>> /\ Else

\* What the caller does next.  After a failure the providers of some platforms
\* return the error, those of others use the token they have.
AfterRefresh(w) ==
  CASE w \in Background /\ job[w].outcome = "refreshed" -> {"invalidate"}
    [] w \in Background /\ job[w].outcome = "invalid" -> {"setError"}
    [] w \in Background /\ job[w].outcome \notin {"refreshed", "invalid"} ->
         {"idle"}
    [] w \in Requests /\ job[w].outcome \in {"failed", "invalid"} ->
         {"idle"} \cup (IF grok THEN {} ELSE {"check"})
    [] OTHER -> {"check"}

\* The lock is deleted whoever holds it; then the mutex is unlocked.
Release(w) ==
  /\ pc[w] = "release" /\ lock' = IF job[w].locked THEN NoOne ELSE lock
  /\ \/ "idle" \in AfterRefresh(w) /\ Leave(w)
     \/ /\ \E label \in AfterRefresh(w) \ {"idle"} : Goto(w, label)
        /\ job' = [job EXCEPT ![w] =
             IF w \in Requests THEN [NoJob EXCEPT !.account = job[w].account]
             ELSE [NoJob EXCEPT !.used = job[w].used]]
  /\ UNCHANGED <<live, account, cached, versions, faults, ghost>> /\ Else

-----------------------------------------------------------------------------
\* Faulty variant: the error is not bound to the credentials that failed.
SetErrorBlind(w) ==
  /\ pc[w] = "setError" /\ status' = "error" /\ Goto(w, "invalidate")
  /\ UNCHANGED <<live, stored, lock, cached, job, versions, faults, ghost>>
  /\ Else

\* invalid_grant: the background service disables the account, a Grok account
\* only if it is still the one that was refused.
SetError(w) ==
  /\ pc[w] = "setError"
  /\ \/ /\ grok => stored = job[w].used /\ status = "active"
        /\ status' = "error" /\ Goto(w, "invalidate") /\ UNCHANGED job
     \/ /\ grok /\ ~(stored = job[w].used /\ status = "active")
        /\ Leave(w) /\ UNCHANGED status
  /\ UNCHANGED <<live, stored, lock, cached, versions, faults, ghost>> /\ Else

InvalidateToken(w) ==
  /\ pc[w] = "invalidate" /\ cached' = NoToken /\ Leave(w)
  /\ UNCHANGED <<live, account, lock, versions, faults, ghost>> /\ Else

\* Other credentials are stored, and no later version says so: those the
\* administrator writes have none, or that of the account they were made from.
Unversioned(w) ==
  Remember("cache", /\ stored.version <= job[w].account.version
                          /\ stored.token # job[w].account.token)

\* Faulty variant: the version is not looked at.
CheckTokenVersionNot(w) ==
  /\ pc[w] \in {"check", "filled"} /\ Goto(w, "set") /\ Unversioned(w)
  /\ job' = [job EXCEPT ![w].used = stored]
  /\ UNCHANGED <<live, account, lock, cached, versions, faults, reused>>
  /\ Else

\* The token of an account that is outdated by its version is not cached.
CheckTokenVersion(w) ==
  /\ pc[w] \in {"check", "filled"}
  /\ \/ /\ stored.version > job[w].account.version
        /\ Leave(w) /\ UNCHANGED mishaps
     \/ /\ stored.version <= job[w].account.version
        /\ Goto(w, "set") /\ job' = [job EXCEPT ![w].used = stored]
        /\ Unversioned(w)
  /\ UNCHANGED <<live, account, lock, cached, versions, faults, reused>>
  /\ Else

SetAccessToken(w) ==
  /\ pc[w] = "set" /\ cached' = job[w].account.token /\ Leave(w)
  /\ Remember("cache", stored # job[w].used)
  /\ UNCHANGED <<live, account, lock, versions, faults, reused>> /\ Else

\* waitForRefreshedToken, a round: the cache is read, and then the account.
WaitForCache(w) ==
  /\ pc[w] = "wait" /\ Goto(w, "reread")
  /\ job' = [job EXCEPT ![w].new = cached]
  /\ UNCHANGED <<live, account, lock, cached, versions, faults, ghost>> /\ Else

Changed(w) ==
  \/ stored.token # job[w].account.token
  \/ stored.version > job[w].account.version

\* Another token in the cache than the one that has come is replaced by it.
\* The request is over when it has come, when the account is disabled or when
\* the time is up.  (A token that is near its expiry may have expired.)
WaitForRefreshedToken(w) ==
  LET comes == status = "active" /\ Changed(w)
      repair == comes /\ job[w].new \notin {NoToken, stored.token}
  IN
  /\ pc[w] = "reread"
  /\ \/ /\ repair /\ Goto(w, "set")
        /\ job' = [job EXCEPT ![w].account = stored, ![w].used = stored]
     \/ (~repair \/ NeedsRefresh(stored.token)) /\ Leave(w)
     \/ /\ status = "active" /\ (~comes \/ NeedsRefresh(stored.token))
        /\ Goto(w, "wait") /\ job' = [job EXCEPT ![w].new = NoToken]
  /\ UNCHANGED <<live, account, lock, cached, versions, faults, ghost>> /\ Else

\* An account of some platforms without a project: the request looks for one
\* and writes its credentials back with it, whatever they are now.
BackfillProject(w) ==
  /\ w \in Requests /\ ~grok /\ pc[w] = "check"
  /\ stored' = job[w].account /\ Goto(w, "filled") /\ UNCHANGED job
  /\ Remember("overwrite", stored # job[w].account)
  /\ UNCHANGED <<live, status, lock, cached, versions, faults, reused>> /\ Else

\* The search fails: some go on, others use the token and do not cache it.
BackfillFails(w) ==
  /\ Fault /\ w \in Requests /\ ~grok /\ pc[w] = "check" /\ Leave(w)
  /\ UNCHANGED <<live, account, lock, cached, versions, ghost>> /\ Else

CacheExpires ==
  /\ cached # NoToken /\ cached' = NoToken
  /\ UNCHANGED <<deployment, provider, account, lock, pc, job, admin, versions,
                 faults, ghost>>

-----------------------------------------------------------------------------
\* The administrator's requests.
AGoto(a, label) == apc' = [apc EXCEPT ![a] = label]
ABegin(a, label) ==
  /\ apc[a] = "idle" /\ AGoto(a, label)
  /\ edits < MaxEdits /\ edits' = edits + 1
ALeave(a) == AGoto(a, "idle") /\ edit' = [edit EXCEPT ![a] = NoEdit]
AdminElse ==
  UNCHANGED <<deployment, revoked, aging, lock, pc, job, versions, faults>>

\* UpdateAccount of anything but the credentials.
EditAccount(a) ==
  /\ ABegin(a, "load")
  /\ UNCHANGED <<live, account, cached, edit, ghost>> /\ AdminElse

\* The user authorizes again; ApplyOAuthCredentials.
ApplyOAuthCredentials(a) ==
  /\ ABegin(a, "load")
  /\ \E f \in Families :
       /\ live[f] = 0 /\ \A g \in 1..(f - 1) : live[g] # 0
       /\ live' = [live EXCEPT ![f] = 1]
       /\ edit' = [edit EXCEPT ![a].authorized = TRUE,
                     ![a].new = [token |-> [family |-> f, number |-> 1],
                                 version |-> 0]]
  /\ UNCHANGED <<account, cached, ghost>> /\ AdminElse

\* Refresh on demand: no lock, and the account as it was read.
ManualRefresh(a) ==
  /\ ABegin(a, "refresh")
  /\ edit' = [edit EXCEPT ![a].loaded = stored]
  /\ UNCHANGED <<live, account, cached, ghost>> /\ AdminElse

RefreshSingleAccount(a) ==
  LET t == edit[a].loaded.token IN
  /\ apc[a] = "refresh"
  /\ \/ /\ Accepted(t) /\ t.number <= MaxNumber /\ Rotate(t)
        /\ AGoto(a, "load")
        /\ edit' = [edit EXCEPT ![a].new =
                      [edit[a].loaded EXCEPT !.token = Rotated(t)]]
        /\ mishaps' = mishaps \cup {"overwrite"}
     \/ ~Accepted(t) /\ ALeave(a) /\ UNCHANGED <<live, mishaps>>
  /\ UNCHANGED <<account, cached, reused, edits>> /\ AdminElse

LoadAccount(a) ==
  /\ apc[a] = "load" /\ AGoto(a, "save")
  /\ edit' = [edit EXCEPT ![a].loaded = stored, ![a].status = status]
  /\ UNCHANGED <<live, account, cached, ghost, edits>> /\ AdminElse

\* Update writes every column, the ones it has only read included.
UpdateAccount(a) ==
  /\ apc[a] = "save"
  /\ Remember("overwrite", <<stored, status>> # <<edit[a].loaded, edit[a].status>>)
  /\ status' = edit[a].status
  /\ \/ /\ edit[a].new = NoCredentials /\ stored' = edit[a].loaded
        /\ ALeave(a)
     \/ /\ edit[a].new # NoCredentials /\ stored' = edit[a].new
        /\ AGoto(a, IF edit[a].authorized THEN "clear" ELSE "invalidate")
        /\ UNCHANGED edit
  /\ UNCHANGED <<live, cached, reused, edits>> /\ AdminElse

ClearError(a) ==
  /\ apc[a] = "clear" /\ AGoto(a, "invalidate") /\ status' = "active"
  /\ UNCHANGED <<live, stored, cached, edit, ghost, edits>> /\ AdminElse

AdminInvalidateToken(a) ==
  /\ apc[a] = "invalidate" /\ ALeave(a) /\ cached' = NoToken
  /\ UNCHANGED <<live, account, ghost, edits>> /\ AdminElse

-----------------------------------------------------------------------------
\* The TTL of the lock runs out.
EndOfTTL ==
  /\ lock # NoOne /\ lock' = NoOne
  /\ UNCHANGED <<deployment, provider, account, cached, pc, job, admin,
                 versions, ghost>>

Held == lock # NoOne /\ pc[lock] \in Critical /\ job[lock].locked

\* Faulty variant: the lock has no TTL.
LockExpiresNever == FALSE /\ UNCHANGED vars

\* It is the lock of a worker that died.
LockExpires == ~Held /\ EndOfTTL /\ UNCHANGED faults

\* It is that of a worker that takes longer, which only a request can: the
\* attempts of the background service are shorter than the TTL.
LockLapses == Held /\ lock \in Requests /\ EndOfTTL /\ Fault

\* A process dies, with all its workers.
Crash(w) ==
  LET died == {v \in Workers : SameProcess(v, w)} IN
  /\ Fault /\ pc[w] # "idle"
  /\ pc' = [v \in Workers |-> IF v \in died THEN "idle" ELSE pc[v]]
  /\ job' = [v \in Workers |-> IF v \in died THEN NoJob ELSE job[v]]
  /\ Remember("race", \E v \in died : pc[v] = "persist")
  /\ UNCHANGED <<live, account, lock, cached, versions, reused>> /\ Else

\* The steps a worker takes without waiting for anything.
Proceed(w) ==
  \/ AcquireRefreshLock(w) \/ Reread(w) \/ Refresh(w)
  \/ TryRecoverFromRefreshRace(w) \/ Persist(w) \/ DeleteAccessToken(w)
  \/ Release(w) \/ SetError(w) \/ InvalidateToken(w)
  \/ CheckTokenVersion(w) \/ SetAccessToken(w)
  \/ WaitForCache(w) \/ WaitForRefreshedToken(w)

WorkerFails(w) ==
  \/ AcquireFails(w) \/ RefreshFails(w) \/ PersistFails(w)
  \/ BackfillFails(w) \/ Crash(w)

AdminStep(a) ==
  \/ EditAccount(a) \/ ApplyOAuthCredentials(a) \/ ManualRefresh(a)
  \/ RefreshSingleAccount(a) \/ LoadAccount(a) \/ UpdateAccount(a)
  \/ ClearError(a) \/ AdminInvalidateToken(a)

Next ==
  \/ \E w \in Workers : \/ BeginRefresh(w) \/ GetAccessToken(w) \/ LockMutex(w)
                        \/ Proceed(w) \/ BackfillProject(w) \/ WorkerFails(w)
  \/ \E a \in Admins : AdminStep(a)
  \/ Age \/ Revoke \/ LockExpires \/ LockLapses \/ CacheExpires

\* The refresh loop comes round, a running worker goes on, the mutex (a
\* channel, which serves its senders in turn) is not kept from a waiter, and
\* the TTL of a lock that nobody holds runs out.
Fairness ==
  /\ \A w \in Background : WF_vars(BeginRefresh(w))
  /\ \A w \in Workers : WF_vars(Proceed(w)) /\ SF_vars(LockMutex(w))
  /\ WF_vars(LockExpires)

Spec == Init /\ [][Next]_vars /\ Fairness

-----------------------------------------------------------------------------
\* The mutex and the Redis lock together: two workers refresh at the same time
\* only if they are of different processes, and only after Redis has failed or
\* a lock has ended before its holder did.
OneRefresher ==
  \A v, w \in Workers :
    /\ v # w /\ pc[v] \in Critical /\ pc[w] \in Critical
    => ~SameProcess(v, w) /\ faults > 0

\* No worker presents a refresh token that was used before, for which some
\* providers withdraw the whole authorization, unless two refreshes overlapped,
\* a rotation was not stored, the administrator refreshed by hand, or somebody
\* wrote back credentials read earlier: the administrator, or a request that had
\* found a project.  (The account is read again under the lock.)
UsesLiveToken ==
  reused => mishaps \cap {"race", "overwrite"} # {}

\* A disabled account has credentials the provider refuses: for a Grok account
\* also when the user authorizes again during a failing refresh, for the other
\* platforms, which disable unconditionally, as long as nobody does.
ErrorIsDeserved ==
  /\ status = "error" /\ \A a \in Admins : apc[a] # "clear"
  /\ mishaps \cap {"race", "overwrite"} = {}
  /\ grok \/ \A f \in Families : live[f] # 0 => f = 1
  => ~Accepted(stored.token)

\* The credentials of a Grok account pass from one authorization to another only
\* when the administrator stores the new one: a refresh that comes back late does
\* not bring back the authorization it began with.
AuthorizationIsKept ==
  [][ grok /\ "overwrite" \notin mishaps'
      => \/ stored'.token.family = stored.token.family
         \/ \E a \in Admins : apc[a] = "save" /\ edit[a].authorized
                              /\ stored' = edit[a].new ]_vars

\* When everybody who changed the credentials has also dealt with the cache, it
\* holds no other token than the stored one.  (What nobody guards against is in
\* the premises: credentials that change after CheckTokenVersion or a waiting
\* Grok request has looked, and those that come without a later version.)
CachedIsCurrent ==
  /\ faults = 0 /\ mishaps \cap {"cache", "overwrite"} = {}
  /\ \A w \in Workers : pc[w] \notin
       {"delete", "release", "invalidate", "check", "filled", "set"}
  /\ \A a \in Admins : apc[a] \notin {"clear", "invalidate"}
  => cached \in {NoToken, stored.token}

\* An account that needs a refresh and can have one gets it, whatever dies on
\* the way: a lock that is left behind ends by itself, and whoever finds the
\* lock held may rely on its holder.
EventuallyRefreshed ==
  (status = "active" /\ NeedsRefresh(stored.token) /\ Accepted(stored.token))
    ~> (\/ ~NeedsRefresh(stored.token) \/ ~Accepted(stored.token)
        \/ status = "error")
=============================================================================
