------------------------- MODULE OAuthRefreshProofs -------------------------
(***************************************************************************)
(* TLAPS proofs about OAuthRefresh, for any workers, requests of the       *)
(* administrator, authorizations, rotations and faults.                    *)
(***************************************************************************)
EXTENDS OAuthRefresh, TLAPS

\* What a worker or a request of the administrator holds at its position.
WorkerFacts(label, j) ==
  /\ label = "refresh" => /\ j.used.token \in Tokens
                          /\ j.used.token.number <= MaxNumber
  /\ label = "persist" => /\ j.used.token \in Tokens /\ j.new \in Tokens
                          /\ j.new = Rotated(j.used.token)
  /\ label = "delete" => j.outcome = "refreshed"

AdminFacts(label, e) ==
  /\ label \in {"idle", "refresh"} => e.new = NoCredentials /\ ~e.authorized
  /\ label \in {"refresh", "save"} => e.loaded.token \in Tokens
  /\ e.new # NoCredentials => e.new.token \in Tokens

\* A request has read the account.
HasAccount(label, j) == label # "idle" => j.account.token \in Tokens

Positions ==
  /\ \A w \in Requests : HasAccount(pc[w], job[w])
  /\ \A t \in aging : t.number <= MaxNumber
  /\ \A w \in Workers : WorkerFacts(pc[w], job[w])
  /\ \A a \in Admins : AdminFacts(apc[a], edit[a])

\* The mutex and the lock.
Exclusion ==
  /\ together => \A v, w \in Workers :
       {pc[v], pc[w]} \subseteq Critical \cup {"lock"} => v = w
  /\ faults = 0 => \A w \in Workers :
       pc[w] \in Critical => lock = w /\ job[w].locked

\* No two refreshes overlapped, no rotation was lost, and nobody changed the
\* credentials besides but to store a new authorization.
Clean == mishaps \cap {"race", "overwrite"} = {}

Alone == Clean => \A v, w \in Workers :
           pc[v] \in Critical /\ pc[w] \in Critical => v = w

\* The token stored is the one that the provider accepts, or is just being
\* replaced by a worker that has a new one.
StoredFacts == Clean =>
  /\ live[stored.token.family] # 0 /\ \A f \in revoked : live[f] # 0
  /\ \/ stored.token.number = live[stored.token.family]
     \/ \E w \in Workers : pc[w] = "persist" /\ stored = job[w].used

\* What the token a worker has begun with is worth.  Whoever has been refused,
\* or is to disable the account, used a token the user has withdrawn.
Using == {"refresh", "recover", "persist"}

UsedFacts(label, j) ==
  /\ label \in Using =>
       /\ j.used.token \in Tokens /\ live[j.used.token.family] # 0
       /\ stored.token = j.used.token => stored = j.used
  /\ label \in {"refresh", "recover"} =>
       j.used.token.number = live[j.used.token.family]
  /\ label = "persist" => live[j.used.token.family] = j.used.token.number + 1
  /\ \/ label \in {"recover", "setError"}
     \/ label = "release" /\ j.outcome = "invalid"
     => j.used.token.family \in revoked

UsedLive == Clean => \A w \in Workers : UsedFacts(pc[w], job[w])

\* An authorization that is not stored yet is known to one request only.
Pending(a) == apc[a] \in {"load", "save"} /\ edit[a].new # NoCredentials
NewFamily(a) == edit[a].new.token.family

NewFacts == Clean => \A a \in Admins : Pending(a) =>
  /\ edit[a].authorized
  /\ edit[a].new.token.number = 1 /\ live[NewFamily(a)] = 1
  /\ NewFamily(a) # stored.token.family
  /\ \A w \in Workers : pc[w] \in Using => job[w].used.token.family # NewFamily(a)
  /\ \A b \in Admins \ {a} : Pending(b) => NewFamily(b) # NewFamily(a)

\* A disabled account is one whose authorization was withdrawn.
ErrorFacts ==
  /\ status = "error" /\ Clean /\ \A a \in Admins : apc[a] # "clear"
  /\ grok \/ \A f \in Families : live[f] # 0 => f = 1
  => stored.token.family \in revoked

\* Who will deal with the cache: by deleting the token, or with the account that
\* is stored.
InCharge(w) ==
  \/ pc[w] \in {"delete", "invalidate"}
  \/ /\ pc[w] = "release" /\ job[w].outcome = "refreshed"
     /\ w \in Background \/ job[w].account = stored
  \/ pc[w] \in {"check", "filled"} /\ job[w].account = stored
  \/ pc[w] = "set" /\ job[w].account = stored /\ job[w].used = stored

\* The cache holds the stored token, or somebody is about to see to it.
CacheFacts ==
  /\ "cache" \notin mishaps => \A w \in Workers :
       pc[w] = "set" => job[w].used.token = job[w].account.token
  /\ faults = 0 /\ mishaps \cap {"cache", "overwrite"} = {} =>
       \/ cached \in {NoToken, stored.token}
       \/ \E w \in Workers : InCharge(w)
       \/ \E a \in Admins : apc[a] \in {"clear", "invalidate"}

-----------------------------------------------------------------------------
(* Types and single steps *)

Jobs == [account : Credentials, used : Credentials, new : Tokens \cup {NoToken},
         locked : BOOLEAN, outcome : Outcomes]
JobType == pc \in [Workers -> PCs] /\ job \in [Workers -> Jobs]

Edits == [new : Credentials, loaded : Credentials, status : {"active", "error"},
          authorized : BOOLEAN]
AdminType == apc \in [Admins -> AdminPCs] /\ edit \in [Admins -> Edits]
             /\ edits \in 0..MaxEdits

SharedType ==
  /\ live \in [Families -> 0..(MaxNumber + 1)]
  /\ stored \in Credentials /\ stored.token \in Tokens
  /\ status \in {"active", "error"}
  /\ lock \in Workers \cup {NoOne} /\ cached \in Tokens \cup {NoToken}
  /\ versions \in Nat /\ faults \in 0..MaxFaults
  /\ mishaps \subseteq Mishaps /\ reused \in BOOLEAN

\* The parts of the type invariant that one kind of step changes.
LEMMA Parts ==
  TypeOK <=> /\ grok \in BOOLEAN /\ together \in BOOLEAN
             /\ revoked \subseteq Families /\ aging \subseteq Tokens
             /\ SharedType /\ JobType /\ AdminType
<1>1. NoToken \notin Tokens
  BY DEF NoToken, Tokens, Families
<1>2. \A c \in Credentials : c.token \in Tokens <=> c.token # NoToken
  BY <1>1 DEF Credentials
<1> QED
  BY <1>2 DEF TypeOK, SharedType, JobType, Jobs, AdminType, Edits

\* The same after a step.
LEMMA PartsNext ==
  ASSUME grok' \in BOOLEAN, together' \in BOOLEAN, revoked' \subseteq Families,
         aging' \subseteq Tokens, SharedType', JobType', AdminType'
  PROVE  TypeOK'
<1>1. NoToken \notin Tokens
  BY DEF NoToken, Tokens, Families
<1> QED
  BY <1>1 DEF TypeOK, SharedType, JobType, Jobs, AdminType, Edits

\* A job that does not exist yet.
LEMMA Empty ==
  /\ NoCredentials \in Credentials /\ NoJob \in Jobs /\ NoEdit \in Edits
  BY DEF NoCredentials, Credentials, NoJob, Jobs, NoEdit, Edits, Outcomes

\* The token that the provider gives for one which may age.
LEMMA RotatedFacts ==
  ASSUME NEW t \in Tokens, t.number <= MaxNumber
  PROVE  /\ Rotated(t) \in Tokens /\ Rotated(t).family = t.family
         /\ Rotated(t).number = t.number + 1
  BY OAuthAssumption DEF Rotated, Tokens, Families

Only(w) == \A v \in Workers \ {w} : pc'[v] = pc[v] /\ job'[v] = job[v]
OnlyAdmin(a) == \A b \in Admins \ {a} : apc'[b] = apc[b] /\ edit'[b] = edit[b]

\* A worker moves and keeps its variables; the lemmas after this one are the same
\* for a worker that also changes some of them.
LEMMA GotoFacts ==
  ASSUME JobType, NEW w \in Workers, NEW label \in PCs, Goto(w, label),
         UNCHANGED job
  PROVE  JobType' /\ Only(w) /\ pc'[w] = label
  BY DEF JobType, Goto, Only

\* It is done.
LEMMA LeaveFacts ==
  ASSUME JobType, NEW w \in Workers, Leave(w)
  PROVE  JobType' /\ Only(w) /\ pc'[w] = "idle" /\ job'[w] = NoJob
  BY Empty DEF JobType, Leave, Goto, Only, PCs

\* It begins with other variables.
LEMMA ReplaceFacts ==
  ASSUME JobType, NEW w \in Workers, NEW label \in PCs, Goto(w, label),
         NEW j \in Jobs, job' = [job EXCEPT ![w] = j]
  PROVE  JobType' /\ Only(w) /\ pc'[w] = label /\ job'[w] = j
  BY DEF JobType, Goto, Only

\* It takes another account.
LEMMA AccountFacts ==
  ASSUME JobType, NEW w \in Workers, NEW label \in PCs, Goto(w, label),
         NEW c \in Credentials, job' = [job EXCEPT ![w].account = c]
  PROVE  /\ JobType' /\ Only(w) /\ pc'[w] = label
         /\ job'[w].account = c /\ job'[w].used = job[w].used
         /\ job'[w].new = job[w].new /\ job'[w].locked = job[w].locked
         /\ job'[w].outcome = job[w].outcome
  BY DEF JobType, Goto, Only, Jobs

\* It takes another account, with an outcome.
LEMMA OutcomeFacts ==
  ASSUME JobType, NEW w \in Workers, NEW label \in PCs, Goto(w, label),
         NEW c \in Credentials, NEW outcome \in Outcomes,
         job' = [job EXCEPT ![w].account = c, ![w].outcome = outcome]
  PROVE  /\ JobType' /\ Only(w) /\ pc'[w] = label
         /\ job'[w].account = c /\ job'[w].outcome = outcome
         /\ job'[w].used = job[w].used /\ job'[w].new = job[w].new
         /\ job'[w].locked = job[w].locked
  BY DEF JobType, Goto, Only, Jobs

\* It has an outcome.
LEMMA EndsFacts ==
  ASSUME JobType, NEW w \in Workers, NEW outcome \in Outcomes, Ends(w, outcome)
  PROVE  /\ JobType' /\ Only(w) /\ pc'[w] = "release"
         /\ job'[w].account = job[w].account /\ job'[w].outcome = outcome
         /\ job'[w].used = job[w].used /\ job'[w].new = job[w].new
         /\ job'[w].locked = job[w].locked
  BY DEF JobType, Ends, Goto, Only, Jobs, PCs, Critical

\* It takes the credentials to use.
LEMMA UsedFieldFacts ==
  ASSUME JobType, NEW w \in Workers, NEW label \in PCs, Goto(w, label),
         NEW c \in Credentials, job' = [job EXCEPT ![w].used = c]
  PROVE  /\ JobType' /\ Only(w) /\ pc'[w] = label
         /\ job'[w].used = c /\ job'[w].account = job[w].account
         /\ job'[w].new = job[w].new /\ job'[w].locked = job[w].locked
         /\ job'[w].outcome = job[w].outcome
  BY DEF JobType, Goto, Only, Jobs

\* It has got a token.
LEMMA NewFieldFacts ==
  ASSUME JobType, NEW w \in Workers, NEW label \in PCs, Goto(w, label),
         NEW t \in Tokens \cup {NoToken}, job' = [job EXCEPT ![w].new = t]
  PROVE  /\ JobType' /\ Only(w) /\ pc'[w] = label
         /\ job'[w].new = t /\ job'[w].used = job[w].used
         /\ job'[w].account = job[w].account /\ job'[w].locked = job[w].locked
         /\ job'[w].outcome = job[w].outcome
  BY DEF JobType, Goto, Only, Jobs

\* It has the lock, or goes on without.
LEMMA LockedFacts ==
  ASSUME JobType, NEW w \in Workers, NEW label \in PCs, Goto(w, label),
         NEW locked \in BOOLEAN, job' = [job EXCEPT ![w].locked = locked]
  PROVE  /\ JobType' /\ Only(w) /\ pc'[w] = label
         /\ job'[w].locked = locked /\ job'[w].used = job[w].used
         /\ job'[w].account = job[w].account /\ job'[w].new = job[w].new
         /\ job'[w].outcome = job[w].outcome
  BY DEF JobType, Goto, Only, Jobs

-----------------------------------------------------------------------------
(* What the steps of a worker do *)

\* A worker before and after the refresh.
LEMMA BeginFacts ==
  ASSUME TypeOK, NEW w \in Workers, BeginRefresh(w) \/ GetAccessToken(w)
  PROVE  /\ JobType' /\ Only(w) /\ pc[w] = "idle"
         /\ pc'[w] \in {"mutex", "check"}
<1> USE Parts DEF SharedType
<1>1. CASE BeginRefresh(w)
  <2>1. "mutex" \in PCs
    BY DEF PCs
  <2> QED
    BY <1>1, <2>1, GotoFacts DEF BeginRefresh
<1>2. CASE GetAccessToken(w)
  <2>1. "mutex" \in PCs /\ "check" \in PCs
    BY DEF PCs
  <2> QED
    BY <1>2, <2>1, AccountFacts DEF GetAccessToken
<1> QED
  BY <1>1, <1>2

\* The mutex.
LEMMA LockMutexFacts ==
  ASSUME TypeOK, NEW w \in Workers, LockMutex(w)
  PROVE  /\ JobType' /\ Only(w) /\ pc[w] = "mutex" /\ pc'[w] = "lock"
         /\ job' = job
  <1>1. "lock" \in PCs
    BY DEF PCs
  <1> QED
    BY <1>1, Parts, GotoFacts DEF LockMutex

\* With the lock, without it, or not at all.
LEMMA AcquireFacts ==
  ASSUME TypeOK, NEW w \in Workers, AcquireRefreshLock(w) \/ AcquireFails(w)
  PROVE  /\ JobType' /\ Only(w) /\ pc[w] = "lock"
         /\ \/ /\ pc'[w] = "read"
               /\ \/ lock = NoOne /\ lock' = w /\ job'[w].locked
                     /\ faults' = faults
                  \/ lock' = lock /\ faults' = faults + 1
               /\ Remember("race", \E v \in Workers : pc[v] \in Critical)
            \/ /\ pc'[w] \in {"idle", "check", "wait"} /\ lock' = lock
               /\ faults' = faults /\ mishaps' = mishaps
<1> USE Parts
<1>0. {"read", "check", "wait"} \subseteq PCs
  BY DEF PCs, Critical
<1>1. ASSUME NEW locked \in BOOLEAN, Enter(w, locked)
      PROVE  /\ JobType' /\ Only(w) /\ pc'[w] = "read"
             /\ job'[w].locked = locked
             /\ Remember("race", \E v \in Workers : pc[v] \in Critical)
  BY <1>0, <1>1, LockedFacts DEF Enter
<1>2. ASSUME LockHeld(w)
      PROVE  JobType' /\ Only(w) /\ pc'[w] \in {"idle", "check", "wait"}
  BY <1>0, <1>2, GotoFacts, LeaveFacts DEF LockHeld
<1> QED
  BY <1>1, <1>2 DEF AcquireRefreshLock, AcquireFails, Fault

\* The stored credentials are used if they are to be refreshed.
LEMMA RereadFacts ==
  ASSUME TypeOK, NEW w \in Workers, Reread(w)
  PROVE  /\ JobType' /\ Only(w) /\ pc[w] = "read"
         /\ job'[w].locked = job[w].locked
         /\ \/ /\ pc'[w] = "refresh" /\ job'[w].used = stored
               /\ stored.token \in aging
            \/ pc'[w] = "release" /\ job'[w].outcome = "skip"
<1>1. {"refresh", "release"} \subseteq PCs /\ "skip" \in Outcomes
  BY DEF PCs, Critical, Outcomes
<1> QED
  BY <1>1, Parts, UsedFieldFacts, OutcomeFacts DEF Reread, SharedType,
     NeedsRefresh

\* The provider's answer.
LEMMA RefreshFacts ==
  ASSUME TypeOK, NEW w \in Workers, WorkerFacts(pc[w], job[w]), Refresh(w)
  PROVE  /\ JobType' /\ Only(w) /\ pc[w] = "refresh"
         /\ job'[w].locked = job[w].locked /\ job'[w].used = job[w].used
         /\ \/ /\ pc'[w] = "persist" /\ Accepted(job[w].used.token)
               /\ Rotate(job[w].used.token) /\ reused' = reused
               /\ job'[w].new = Rotated(job[w].used.token)
            \/ /\ pc'[w] = "recover" /\ ~Accepted(job[w].used.token)
               /\ live' = live
               /\ reused' = (reused \/ job[w].used.token.number
                                         < live[job[w].used.token.family])
<1>1. {"persist", "recover"} \subseteq PCs
  BY DEF PCs, Critical
<1>2. Rotated(job[w].used.token) \in Tokens
  BY RotatedFacts DEF WorkerFacts, Refresh
<1> QED
  BY <1>1, <1>2, Parts, NewFieldFacts, GotoFacts DEF Refresh

\* No answer, although the provider may have rotated the token.
LEMMA RefreshFailsFacts ==
  ASSUME TypeOK, NEW w \in Workers, RefreshFails(w)
  PROVE  /\ JobType' /\ Only(w) /\ pc[w] = "refresh" /\ pc'[w] = "release"
         /\ job'[w].locked = job[w].locked /\ job'[w].outcome = "failed"
         /\ faults' = faults + 1 /\ faults' \in 0..MaxFaults
         /\ \/ live' = live /\ mishaps' = mishaps
            \/ /\ Rotate(job[w].used.token)
               /\ mishaps' = mishaps \cup {"race"}
<1>1. "failed" \in Outcomes
  BY DEF Outcomes
<1>2. faults' = faults + 1 /\ faults' \in 0..MaxFaults
  BY OAuthAssumption, Parts DEF SharedType, RefreshFails, Fault
<1> QED
  BY <1>1, <1>2, Parts, EndsFacts DEF RefreshFails

\* The two conclusions from a refusal.
LEMMA RecoverFacts ==
  ASSUME TypeOK, NEW w \in Workers, TryRecoverFromRefreshRace(w)
  PROVE  /\ JobType' /\ Only(w) /\ pc[w] = "recover" /\ pc'[w] = "release"
         /\ job'[w].locked = job[w].locked /\ job'[w].used = job[w].used
         /\ job'[w].outcome \in {"skip", "invalid"}
<1>1. "release" \in PCs /\ {"skip", "invalid"} \subseteq Outcomes
  BY DEF PCs, Critical, Outcomes
<1> QED
  BY <1>1, Parts, OutcomeFacts, EndsFacts DEF TryRecoverFromRefreshRace,
     SharedType

\* The new token is stored, or for a Grok account it came too late.
LEMMA PersistFacts ==
  ASSUME TypeOK, NEW w \in Workers, WorkerFacts(pc[w], job[w]), Persist(w)
  PROVE  /\ JobType' /\ Only(w) /\ pc[w] = "persist"
         /\ job'[w].locked = job[w].locked
         /\ stored' \in Credentials /\ versions' \in Nat
         /\ \/ /\ grok => stored = job[w].used
               /\ stored'.token = job[w].new /\ job'[w].account = stored'
               /\ job'[w].outcome = "refreshed"
               /\ pc'[w] = IF grok THEN "delete" ELSE "release"
            \/ /\ grok /\ stored # job[w].used /\ pc'[w] = "release"
               /\ job'[w].outcome = "skip" /\ stored' = stored
               /\ versions' = versions
<1>0. JobType /\ SharedType
  BY Parts
<1>1. /\ "delete" \in PCs /\ "release" \in PCs
      /\ "skip" \in Outcomes /\ "refreshed" \in Outcomes
  BY DEF PCs, Critical, Outcomes
<1>2. CASE /\ grok => stored = job[w].used
           /\ Store(w) /\ Stored(w)
  <2>1. /\ stored' \in Credentials /\ stored'.token = job[w].new
        /\ versions' \in Nat
    BY <1>0, <1>2 DEF Store, Credentials, SharedType, WorkerFacts, Persist
  <2> DEFINE label == IF grok THEN "delete" ELSE "release"
  <2>2. label \in PCs
    BY <1>1
  <2>3. /\ Goto(w, label)
        /\ job' = [job EXCEPT ![w].account = stored', ![w].outcome = "refreshed"]
    BY <1>2 DEF Stored
  <2> HIDE DEF label
  <2>4. /\ JobType' /\ Only(w) /\ job'[w].locked = job[w].locked
        /\ job'[w].account = stored' /\ job'[w].outcome = "refreshed"
        /\ pc'[w] = label
    BY <1>0, <1>1, <2>1, <2>2, <2>3 DEF JobType, Goto, Only, Jobs
  <2> QED
    BY <1>2, <2>1, <2>4 DEF Persist, label
<1>3. CASE /\ grok /\ stored # job[w].used /\ Goto(w, "release")
           /\ job' = [job EXCEPT ![w].account = stored, ![w].outcome = "skip"]
           /\ UNCHANGED <<stored, versions>>
  <2>1. stored \in Credentials /\ versions \in Nat
    BY <1>0 DEF SharedType
  <2>2. /\ Goto(w, "release")
        /\ job' = [job EXCEPT ![w].account = stored, ![w].outcome = "skip"]
    BY <1>3
  <2>3. /\ JobType' /\ Only(w) /\ job'[w].locked = job[w].locked
        /\ job'[w].outcome = "skip" /\ pc'[w] = "release"
    BY <1>0, <1>1, <2>1, <2>2 DEF JobType, Goto, Only, Jobs
  <2> QED
    BY <1>3, <2>1, <2>3 DEF Persist
<1> QED
  BY <1>2, <1>3 DEF Persist

\* A rotation that is not stored.
LEMMA PersistFailsFacts ==
  ASSUME TypeOK, NEW w \in Workers, PersistFails(w)
  PROVE  /\ JobType' /\ Only(w) /\ pc[w] = "persist" /\ pc'[w] = "release"
         /\ job'[w].locked = job[w].locked /\ job'[w].outcome = "failed"
         /\ faults' = faults + 1 /\ faults' \in 0..MaxFaults
         /\ mishaps' = mishaps \cup {"race"}
<1>1. "failed" \in Outcomes
  BY DEF Outcomes
<1>2. faults' = faults + 1 /\ faults' \in 0..MaxFaults
  BY OAuthAssumption, Parts DEF SharedType, PersistFails, Fault
<1> QED
  BY <1>1, <1>2, Parts, EndsFacts DEF PersistFails

\* A Grok account, after its new token is stored.
LEMMA DeleteFacts ==
  ASSUME TypeOK, NEW w \in Workers, DeleteAccessToken(w)
  PROVE  /\ JobType' /\ Only(w) /\ pc[w] = "delete" /\ pc'[w] = "release"
         /\ job'[w].locked = job[w].locked /\ cached' = NoToken
         /\ job'[w].outcome = job[w].outcome /\ job'[w].used = job[w].used
<1>1. "release" \in PCs
  BY DEF PCs, Critical
<1> QED
  BY <1>1, Parts, AccountFacts DEF DeleteAccessToken, SharedType

\* Where a worker goes after its refresh, and what it still knows.
LEMMA ReleaseFacts ==
  ASSUME TypeOK, NEW w \in Workers, Release(w)
  PROVE  /\ JobType' /\ Only(w) /\ pc[w] = "release"
         /\ lock' = IF job[w].locked THEN NoOne ELSE lock
         /\ pc'[w] \in {"idle", "invalidate", "setError", "check"}
         /\ pc'[w] = "setError" => job[w].outcome = "invalid"
                                   /\ job'[w].used = job[w].used
         /\ job[w].outcome = "refreshed" =>
              IF w \in Background THEN pc'[w] = "invalidate"
              ELSE pc'[w] = "check" /\ job'[w].account = job[w].account
<1> USE Parts
<1>1. {"idle", "invalidate", "setError", "check"} \subseteq PCs
  BY DEF PCs
<1>2. /\ job[w] \in Jobs /\ job[w].account \in Credentials
      /\ job[w].used \in Credentials
  BY DEF JobType, Jobs
<1>3. AfterRefresh(w) \subseteq {"idle", "invalidate", "setError", "check"}
  BY DEF AfterRefresh, Outcomes
<1>4. "setError" \in AfterRefresh(w) => w \in Background
                                       /\ job[w].outcome = "invalid"
  BY DEF AfterRefresh
<1>5. job[w].outcome = "refreshed" =>
        AfterRefresh(w) = IF w \in Background THEN {"invalidate"} ELSE {"check"}
  BY DEF AfterRefresh
<1>6. w \in Background => w \notin Requests
  BY OAuthAssumption
<1>7. CASE "idle" \in AfterRefresh(w) /\ Leave(w)
  BY <1>5, <1>7, LeaveFacts DEF Release
<1>8. ASSUME NEW label \in AfterRefresh(w) \ {"idle"}, Goto(w, label),
             job' = [job EXCEPT ![w] =
               IF w \in Requests THEN [NoJob EXCEPT !.account = job[w].account]
               ELSE [NoJob EXCEPT !.used = job[w].used]]
      PROVE  /\ JobType' /\ Only(w) /\ pc'[w] = label
             /\ w \in Requests => job'[w].account = job[w].account
             /\ w \notin Requests => job'[w].used = job[w].used
  <2> DEFINE j == IF w \in Requests THEN [NoJob EXCEPT !.account = job[w].account]
                  ELSE [NoJob EXCEPT !.used = job[w].used]
  <2>1. /\ j \in Jobs
        /\ w \in Requests => j.account = job[w].account
        /\ w \notin Requests => j.used = job[w].used
    BY <1>2, Empty DEF NoJob, Jobs
  <2>2. job' = [job EXCEPT ![w] = j]
    BY <1>8
  <2> HIDE DEF j
  <2>3. label \in PCs
    BY <1>1, <1>3, <1>8
  <2>4. JobType' /\ Only(w) /\ pc'[w] = label /\ job'[w] = j
    BY <1>8, <2>1, <2>2, <2>3, ReplaceFacts
  <2> QED
    BY <2>1, <2>4
<1> QED
  BY <1>3, <1>4, <1>5, <1>6, <1>7, <1>8 DEF Release, Workers

\* After a refusal.
LEMMA SetErrorFacts ==
  ASSUME TypeOK, NEW w \in Workers, SetError(w)
  PROVE  /\ JobType' /\ Only(w) /\ pc[w] = "setError"
         /\ pc'[w] \in {"idle", "invalidate"}
         /\ \/ /\ grok => stored = job[w].used
               /\ status' = "error" /\ pc'[w] = "invalidate"
            \/ status' = status
<1>1. "invalidate" \in PCs
  BY DEF PCs
<1> QED
  BY <1>1, Parts, GotoFacts, LeaveFacts DEF SetError

\* The steps that end with the cache.  A check that finds a later version does
\* not find the account that is stored.
LEMMA CacheStepFacts ==
  ASSUME TypeOK, NEW w \in Workers,
         InvalidateToken(w) \/ CheckTokenVersion(w) \/ SetAccessToken(w)
  PROVE  /\ JobType' /\ Only(w)
         /\ pc[w] \in {"invalidate", "check", "filled", "set"}
         /\ pc'[w] \in {"idle", "set"} /\ mishaps \subseteq mishaps'
         /\ mishaps' \subseteq mishaps \cup {"cache"}
         /\ \/ /\ pc[w] = "invalidate" /\ pc'[w] = "idle" /\ cached' = NoToken
               /\ mishaps' = mishaps
            \/ /\ pc'[w] = "idle" /\ cached' = cached
               /\ pc[w] \in {"check", "filled"} /\ job[w].account # stored
            \/ /\ pc[w] \in {"check", "filled"}
               /\ pc'[w] = "set" /\ cached' = cached
               /\ job'[w].used = stored /\ job'[w].account = job[w].account
               /\ "cache" \notin mishaps' => stored.token = job[w].account.token
            \/ /\ pc[w] = "set" /\ pc'[w] = "idle"
               /\ cached' = job[w].account.token
               /\ "cache" \notin mishaps' => stored = job[w].used
<1> USE Parts
<1>1. "set" \in PCs
  BY DEF PCs
<1>2. stored.version \in Nat /\ stored \in Credentials
  BY DEF SharedType, Credentials
<1>3. CASE InvalidateToken(w)
  BY <1>3, LeaveFacts DEF InvalidateToken, ghost
<1>4. CASE CheckTokenVersion(w)
  <2>1. CASE stored.version > job[w].account.version /\ Leave(w)
             /\ UNCHANGED mishaps
    BY <1>2, <1>4, <2>1, LeaveFacts DEF CheckTokenVersion
  <2>2. CASE /\ stored.version <= job[w].account.version
             /\ Goto(w, "set") /\ job' = [job EXCEPT ![w].used = stored]
             /\ Unversioned(w)
    <3>1. /\ JobType' /\ Only(w) /\ pc'[w] = "set" /\ job'[w].used = stored
          /\ job'[w].account = job[w].account
      BY <1>1, <1>2, <2>2, UsedFieldFacts
    <3> QED
      BY <1>4, <2>2, <3>1 DEF CheckTokenVersion, Unversioned, Remember
  <2> QED
    BY <1>4, <2>1, <2>2 DEF CheckTokenVersion
<1>5. CASE SetAccessToken(w)
  BY <1>5, LeaveFacts DEF SetAccessToken, Remember
<1> QED
  BY <1>3, <1>4, <1>5

\* A request for a Grok account that waits, until it takes what is stored.
LEMMA WaitFacts ==
  ASSUME TypeOK, NEW w \in Workers, WaitForCache(w) \/ WaitForRefreshedToken(w)
  PROVE  /\ JobType' /\ Only(w) /\ pc[w] \in {"wait", "reread"}
         /\ pc'[w] \in {"wait", "reread", "idle", "set"}
         /\ pc'[w] = "set" => job'[w].account = stored /\ job'[w].used = stored
<1>0. JobType /\ stored \in Credentials /\ cached \in Tokens \cup {NoToken}
  BY Parts DEF SharedType
<1>1. {"wait", "reread", "set"} \subseteq PCs
  BY DEF PCs
<1>2. CASE WaitForCache(w)
  BY <1>0, <1>1, <1>2, NewFieldFacts DEF WaitForCache
<1>3. CASE WaitForRefreshedToken(w)
  <2>1. CASE Leave(w)
    BY <1>0, <1>3, <2>1, LeaveFacts DEF WaitForRefreshedToken
  <2>2. CASE Goto(w, "wait") /\ job' = [job EXCEPT ![w].new = NoToken]
    BY <1>0, <1>1, <1>3, <2>2, NewFieldFacts DEF WaitForRefreshedToken
  <2>3. CASE /\ Goto(w, "set")
             /\ job' = [job EXCEPT ![w].account = stored, ![w].used = stored]
    <3>1. /\ JobType' /\ Only(w) /\ pc'[w] = "set"
          /\ job'[w].account = stored /\ job'[w].used = stored
      BY <1>0, <1>1, <2>3 DEF JobType, Goto, Only, Jobs
    <3> QED
      BY <1>3, <3>1 DEF WaitForRefreshedToken
  <2> QED
    BY <1>3, <2>1, <2>2, <2>3 DEF WaitForRefreshedToken
<1> QED
  BY <1>2, <1>3

\* The search for a project.
LEMMA BackfillFacts ==
  ASSUME TypeOK, NEW w \in Workers, BackfillProject(w) \/ BackfillFails(w)
  PROVE  /\ JobType' /\ Only(w) /\ w \in Requests /\ ~grok /\ pc[w] = "check"
         /\ mishaps \subseteq mishaps'
         /\ mishaps' \subseteq mishaps \cup {"overwrite"}
         /\ \/ /\ pc'[w] = "filled" /\ job'[w] = job[w]
               /\ stored' = job[w].account /\ faults' = faults
               /\ "overwrite" \in mishaps' \/ stored' = stored
            \/ /\ pc'[w] = "idle" /\ stored' = stored
               /\ faults' = faults + 1 /\ faults' \in 0..MaxFaults
<1> USE Parts
<1>1. "filled" \in PCs
  BY DEF PCs
<1>2. CASE BackfillProject(w)
  BY <1>1, <1>2, GotoFacts DEF BackfillProject, Remember
<1>3. CASE BackfillFails(w)
  <2>1. faults' = faults + 1 /\ faults' \in 0..MaxFaults
    BY <1>3, OAuthAssumption DEF SharedType, BackfillFails, Fault
  <2> QED
    BY <1>3, <2>1, LeaveFacts DEF BackfillFails, account, ghost
<1> QED
  BY <1>2, <1>3

-----------------------------------------------------------------------------
(* The mutex and the lock *)

EInv == TypeOK /\ Positions /\ Exclusion /\ Alone

Guarded == Critical \cup {"lock"}

\* A step of one worker that comes by the mutex to the lock, and by the lock, or
\* a fault, to the refresh.
WorkerStep(w) ==
  /\ UNCHANGED <<deployment, revoked, aging, admin>>
  /\ SharedType' /\ JobType' /\ Only(w) /\ WorkerFacts(pc'[w], job'[w])
  /\ faults <= faults' /\ mishaps \subseteq mishaps'
  /\ pc'[w] \in Guarded =>
       \/ pc[w] \in Guarded
       \/ \A v \in Workers : SameProcess(v, w) => pc[v] \notin Guarded
  /\ pc'[w] \in Critical =>
       \/ pc[w] \in Critical /\ job'[w].locked = job[w].locked /\ lock' = lock
       \/ /\ \/ lock = NoOne /\ lock' = w /\ job'[w].locked
             \/ faults' # 0
          /\ \/ \A v \in Workers : pc[v] \notin Critical
             \/ "race" \in mishaps'
  /\ pc'[w] \notin Critical => lock' = lock \/ pc[w] \in Critical

\* Such a step keeps the mutex, the lock and what is known at each position.
LEMMA WorkerStepEInv ==
  ASSUME EInv, NEW w \in Workers, WorkerStep(w),
         w \in Requests => HasAccount(pc'[w], job'[w])
  PROVE  EInv'
<1> USE Parts DEF EInv
<1>1. TypeOK'
  <2>1. AdminType' /\ revoked' = revoked /\ aging' = aging
        /\ grok' = grok /\ together' = together
    BY DEF WorkerStep, admin, AdminType, deployment
  <2>2. SharedType' /\ JobType'
    BY DEF WorkerStep
  <2> QED
    BY <2>1, <2>2, PartsNext
<1>2. Positions'
  <2>1. \A v \in Requests : HasAccount(pc'[v], job'[v])
    BY DEF Positions, WorkerStep, Only, Workers
  <2> QED
    BY <2>1 DEF Positions, WorkerStep, Only, admin
<1>3. Exclusion'
  <2>1. together' = together /\ NoOne \notin Workers /\ faults \in Nat
        /\ faults' \in Nat /\ faults <= faults'
    BY OAuthAssumption DEF WorkerStep, deployment, SharedType
  <2>2. together' => \A u, v \in Workers :
          pc'[u] \in Guarded /\ pc'[v] \in Guarded => u = v
    BY <2>1 DEF Exclusion, WorkerStep, Only, SameProcess, Guarded
  <2>3. faults' = 0 => \A v \in Workers :
          pc'[v] \in Critical => lock' = v /\ job'[v].locked
    BY <2>1 DEF Exclusion, WorkerStep, Only
  <2> QED
    BY <2>2, <2>3 DEF Exclusion, Guarded
<1>4. Alone'
  BY DEF Alone, Clean, WorkerStep, Only
<1> QED
  BY <1>1, <1>2, <1>3, <1>4

\* Every action of a worker, but for a crash, is a WorkerStep.
LEMMA WorkerSteps ==
  ASSUME EInv, NEW w \in Workers,
         \/ BeginRefresh(w) \/ GetAccessToken(w) \/ LockMutex(w) \/ Proceed(w)
         \/ AcquireFails(w) \/ RefreshFails(w) \/ PersistFails(w)
         \/ BackfillProject(w) \/ BackfillFails(w)
  PROVE  WorkerStep(w)
<1> USE Parts DEF EInv, Else
<1>0. SharedType /\ faults \in Nat /\ WorkerFacts(pc[w], job[w])
  BY DEF Positions, SharedType
<1>a. ASSUME UNCHANGED <<live, account, versions, faults, reused, lock>>,
             cached' \in Tokens \cup {NoToken}, mishaps' \subseteq Mishaps
      PROVE  SharedType' /\ faults <= faults' /\ lock' = lock
  BY <1>0, <1>a DEF SharedType, account
<1>1. CASE BeginRefresh(w) \/ GetAccessToken(w)
  <2>1. SharedType' /\ faults <= faults' /\ lock' = lock /\ mishaps' = mishaps
    BY <1>1, <1>a, <1>0 DEF BeginRefresh, GetAccessToken, ghost, SharedType
  <2>2. UNCHANGED <<deployment, revoked, aging, admin>>
    BY <1>1 DEF BeginRefresh, GetAccessToken
  <2> QED
    BY <1>1, <2>1, <2>2, BeginFacts DEF WorkerStep, WorkerFacts, Guarded, Critical
<1>2. CASE LockMutex(w)
  <2>1. SharedType' /\ faults <= faults' /\ lock' = lock /\ mishaps' = mishaps
    BY <1>2, <1>a, <1>0 DEF LockMutex, ghost, SharedType
  <2>2. \A v \in Workers : SameProcess(v, w) => pc[v] \notin Guarded
    BY <1>2 DEF LockMutex, Guarded
  <2>3. UNCHANGED <<deployment, revoked, aging, admin>>
    BY <1>2 DEF LockMutex
  <2> QED
    BY <1>2, <2>1, <2>2, <2>3, LockMutexFacts DEF WorkerStep, WorkerFacts, Guarded,
       Critical
<1>3. CASE AcquireRefreshLock(w) \/ AcquireFails(w)
  <2>1. /\ lock' \in Workers \cup {NoOne} /\ faults' \in 0..MaxFaults
        /\ faults' \in {faults, faults + 1}
    <3>1. MaxFaults \in Nat /\ faults \in 0..MaxFaults
      BY <1>0, OAuthAssumption DEF SharedType
    <3>2. faults' = faults \/ (faults < MaxFaults /\ faults' = faults + 1)
      BY <1>3 DEF AcquireRefreshLock, AcquireFails, Fault
    <3>3. lock' \in {lock, w}
      BY <1>3 DEF AcquireRefreshLock, AcquireFails
    <3> QED
      BY <1>0, <3>1, <3>2, <3>3 DEF SharedType
  <2>2. UNCHANGED <<deployment, revoked, aging, admin, live, account, cached,
                    versions, reused>>
    BY <1>3 DEF AcquireRefreshLock, AcquireFails
  <2>3. mishaps \subseteq mishaps' /\ mishaps' \subseteq Mishaps
    BY <1>0, <1>3 DEF AcquireRefreshLock, AcquireFails, Enter, Remember, Mishaps,
       SharedType
  <2>4. SharedType' /\ faults <= faults'
    BY <1>0, <2>1, <2>2, <2>3 DEF SharedType, account
  <2>5. /\ JobType' /\ Only(w) /\ pc[w] = "lock"
        /\ \/ /\ pc'[w] = "read"
              /\ \/ lock = NoOne /\ lock' = w /\ job'[w].locked
                 \/ faults' # 0
              /\ \/ \A v \in Workers : pc[v] \notin Critical
                 \/ "race" \in mishaps'
           \/ pc'[w] \in {"idle", "check", "wait"} /\ lock' = lock
    BY <1>0, <1>3, AcquireFacts DEF Remember
  <2> QED
    BY <2>2, <2>3, <2>4, <2>5 DEF WorkerStep, WorkerFacts, Guarded, Critical
<1>4. CASE Reread(w)
  <2>1. SharedType' /\ faults <= faults' /\ lock' = lock /\ mishaps' = mishaps
    BY <1>4, <1>a, <1>0 DEF Reread, ghost, SharedType
  <2>2. UNCHANGED <<deployment, revoked, aging, admin>>
    BY <1>4 DEF Reread
  <2>3. stored.token \in aging => stored.token.number <= MaxNumber
    BY DEF Positions
  <2> QED
    BY <1>0, <1>4, <2>1, <2>2, <2>3, RereadFacts DEF WorkerStep, WorkerFacts,
       Guarded, Critical, SharedType
<1>5. ASSUME NEW t \in Tokens, t.number <= MaxNumber, Rotate(t)
      PROVE  live' \in [Families -> 0..(MaxNumber + 1)]
  BY <1>0, <1>5, OAuthAssumption DEF Rotate, SharedType, Tokens
<1>6. CASE Refresh(w)
  <2>1. UNCHANGED <<deployment, revoked, aging, admin, account, lock, cached,
                    versions, faults, mishaps>>
    BY <1>6 DEF Refresh
  <2>2. live' \in [Families -> 0..(MaxNumber + 1)] /\ reused' \in BOOLEAN
    BY <1>0, <1>5, <1>6 DEF Refresh, WorkerFacts, SharedType
  <2>3. SharedType' /\ faults <= faults'
    BY <1>0, <2>1, <2>2 DEF SharedType, account
  <2>4. /\ JobType' /\ Only(w) /\ pc[w] = "refresh"
        /\ job'[w].locked = job[w].locked
        /\ \/ pc'[w] = "persist" /\ job'[w].used = job[w].used
                /\ job'[w].new = Rotated(job[w].used.token)
           \/ pc'[w] = "recover"
    BY <1>0, <1>6, RefreshFacts
  <2>5. WorkerFacts(pc'[w], job'[w])
    BY <1>0, <2>4, RotatedFacts DEF WorkerFacts
  <2> QED
    BY <2>1, <2>3, <2>4, <2>5 DEF WorkerStep, Guarded, Critical
<1>7. CASE RefreshFails(w)
  <2>1. UNCHANGED <<deployment, revoked, aging, admin, account, lock, cached,
                    versions, reused>>
    BY <1>7 DEF RefreshFails
  <2>2. /\ JobType' /\ Only(w) /\ pc[w] = "refresh" /\ pc'[w] = "release"
        /\ job'[w].locked = job[w].locked
        /\ faults' = faults + 1 /\ faults' \in 0..MaxFaults
        /\ mishaps \subseteq mishaps' /\ mishaps' \subseteq mishaps \cup {"race"}
    BY <1>7, RefreshFailsFacts
  <2>3. live' \in [Families -> 0..(MaxNumber + 1)]
    BY <1>0, <1>5, <1>7 DEF RefreshFails, WorkerFacts, SharedType
  <2>a. faults \in Nat /\ mishaps \subseteq Mishaps
    BY <1>0 DEF SharedType
  <2>b. faults <= faults' /\ mishaps' \subseteq Mishaps
    BY <2>2, <2>a DEF Mishaps
  <2>c. UNCHANGED <<stored, status, lock, cached, versions, reused>>
    BY <2>1 DEF account
  <2>4. SharedType' /\ faults <= faults'
    BY <1>0, <2>2, <2>3, <2>b, <2>c DEF SharedType
  <2> QED
    BY <2>1, <2>2, <2>4 DEF WorkerStep, WorkerFacts, Guarded, Critical
<1>8. CASE TryRecoverFromRefreshRace(w)
  <2>1. SharedType' /\ faults <= faults' /\ lock' = lock /\ mishaps' = mishaps
    BY <1>8, <1>a, <1>0 DEF TryRecoverFromRefreshRace, ghost, SharedType
  <2>2. UNCHANGED <<deployment, revoked, aging, admin>>
    BY <1>8 DEF TryRecoverFromRefreshRace
  <2> QED
    BY <1>8, <2>1, <2>2, RecoverFacts DEF WorkerStep, WorkerFacts, Guarded,
       Critical
<1>9. CASE Persist(w)
  <2>1. UNCHANGED <<deployment, revoked, aging, admin, live, status, lock, cached,
                    faults, mishaps, reused>>
    BY <1>9 DEF Persist, ghost
  <2>2. /\ JobType' /\ Only(w) /\ pc[w] = "persist"
        /\ pc'[w] \in {"delete", "release"} /\ job'[w].locked = job[w].locked
        /\ pc'[w] = "delete" => job'[w].outcome = "refreshed"
        /\ stored' \in Credentials /\ versions' \in Nat
        /\ stored'.token = job[w].new \/ stored' = stored
    BY <1>0, <1>9, PersistFacts
  <2>3. SharedType' /\ faults <= faults'
    BY <1>0, <2>1, <2>2 DEF SharedType, WorkerFacts
  <2> QED
    BY <2>1, <2>2, <2>3 DEF WorkerStep, WorkerFacts, Guarded, Critical
<1>10. CASE PersistFails(w)
  <2>1. UNCHANGED <<deployment, revoked, aging, admin, live, account, lock, cached,
                    versions, reused>>
    BY <1>10 DEF PersistFails
  <2>2. /\ JobType' /\ Only(w) /\ pc[w] = "persist" /\ pc'[w] = "release"
        /\ job'[w].locked = job[w].locked
        /\ faults' = faults + 1 /\ faults' \in 0..MaxFaults
        /\ mishaps \subseteq mishaps' /\ mishaps' \subseteq mishaps \cup {"race"}
    BY <1>10, PersistFailsFacts
  <2>3. SharedType' /\ faults <= faults'
    BY <1>0, <2>1, <2>2 DEF SharedType, account, Mishaps
  <2> QED
    BY <2>1, <2>2, <2>3 DEF WorkerStep, WorkerFacts, Guarded, Critical
<1>11. CASE DeleteAccessToken(w)
  <2>1. SharedType' /\ faults <= faults' /\ lock' = lock /\ mishaps' = mishaps
    BY <1>11, <1>a, <1>0 DEF DeleteAccessToken, ghost, SharedType
  <2>2. UNCHANGED <<deployment, revoked, aging, admin>>
    BY <1>11 DEF DeleteAccessToken
  <2> QED
    BY <1>11, <2>1, <2>2, DeleteFacts DEF WorkerStep, WorkerFacts, Guarded,
       Critical
<1>12. CASE Release(w)
  <2>1. UNCHANGED <<deployment, revoked, aging, admin, live, account, cached,
                    versions, faults, mishaps, reused>>
    BY <1>12 DEF Release, ghost
  <2>2. lock' \in Workers \cup {NoOne}
    BY <1>0, <1>12 DEF Release, SharedType
  <2>3. SharedType' /\ faults <= faults'
    BY <1>0, <2>1, <2>2 DEF SharedType, account
  <2>4. /\ JobType' /\ Only(w) /\ pc[w] = "release"
        /\ pc'[w] \in {"idle", "invalidate", "setError", "check"}
    BY <1>12, ReleaseFacts
  <2> QED
    BY <2>1, <2>3, <2>4 DEF WorkerStep, WorkerFacts, Guarded, Critical
<1>13. CASE SetError(w)
  <2>1. UNCHANGED <<deployment, revoked, aging, admin, live, stored, cached, lock,
                    versions, faults, mishaps, reused>>
    BY <1>13 DEF SetError, ghost
  <2>2. status' \in {"active", "error"}
    BY <1>0, <1>13 DEF SetError, SharedType
  <2>3. SharedType' /\ faults <= faults'
    BY <1>0, <2>1, <2>2 DEF SharedType
  <2>4. /\ JobType' /\ Only(w) /\ pc[w] = "setError"
        /\ pc'[w] \in {"idle", "invalidate"}
    BY <1>13, SetErrorFacts
  <2> QED
    BY <2>1, <2>3, <2>4 DEF WorkerStep, WorkerFacts, Guarded, Critical
<1>14. CASE InvalidateToken(w) \/ CheckTokenVersion(w) \/ SetAccessToken(w)
  <2>1. UNCHANGED <<deployment, revoked, aging, admin, live, account, lock,
                    versions, faults, reused>>
    BY <1>14 DEF InvalidateToken, CheckTokenVersion, SetAccessToken, ghost
  <2>2. /\ JobType' /\ Only(w) /\ pc'[w] \in {"idle", "set"}
        /\ mishaps \subseteq mishaps' /\ mishaps' \subseteq mishaps \cup {"cache"}
        /\ cached' \in {NoToken, cached, job[w].account.token}
    BY <1>14, CacheStepFacts
  <2>3. job[w].account.token \in Tokens \cup {NoToken}
    BY DEF JobType, Jobs, Credentials
  <2>4. SharedType' /\ faults <= faults'
    BY <1>0, <2>1, <2>2, <2>3 DEF SharedType, account, Mishaps
  <2> QED
    BY <2>1, <2>2, <2>4 DEF WorkerStep, WorkerFacts, Guarded, Critical
<1>15. CASE WaitForCache(w) \/ WaitForRefreshedToken(w)
  <2>1. UNCHANGED <<deployment, revoked, aging, admin, live, account, lock,
                    cached, versions, faults, mishaps, reused>>
    BY <1>15 DEF WaitForCache, WaitForRefreshedToken, ghost
  <2>2. SharedType' /\ faults <= faults' /\ lock' = lock
    BY <1>0, <1>a, <2>1 DEF SharedType
  <2> QED
    BY <1>15, <2>1, <2>2, WaitFacts DEF WorkerStep, WorkerFacts, Guarded, Critical
<1>16. CASE BackfillProject(w) \/ BackfillFails(w)
  <2>1. UNCHANGED <<deployment, revoked, aging, admin, live, status, lock, cached,
                    versions, reused>>
    BY <1>16 DEF BackfillProject, BackfillFails, account, ghost
  <2>2. /\ JobType' /\ Only(w) /\ w \in Requests /\ pc[w] = "check"
        /\ pc'[w] \in {"filled", "idle"} /\ stored' \in {stored, job[w].account}
        /\ faults' = faults \/ (faults' = faults + 1 /\ faults' \in 0..MaxFaults)
        /\ mishaps \subseteq mishaps'
        /\ mishaps' \subseteq mishaps \cup {"overwrite"}
    BY <1>16, BackfillFacts
  <2>3. stored' \in Credentials /\ stored'.token \in Tokens
    BY <1>0, <2>2 DEF Positions, HasAccount, SharedType, JobType, Jobs
  <2>4. faults' \in 0..MaxFaults /\ faults <= faults'
    BY <1>0, <2>2 DEF SharedType
  <2>5. mishaps' \subseteq Mishaps
    BY <1>0, <2>2 DEF SharedType, Mishaps
  <2>6. SharedType'
    BY <1>0, <2>1, <2>3, <2>4, <2>5 DEF SharedType
  <2> QED
    BY <2>1, <2>2, <2>4, <2>6 DEF WorkerStep, WorkerFacts, Guarded, Critical
<1> QED
  BY <1>1, <1>2, <1>3, <1>4, <1>6, <1>7, <1>8, <1>9, <1>10, <1>11, <1>12, <1>13,
     <1>14, <1>15, <1>16 DEF Proceed

\* A request keeps the account it has read, or takes the one that is stored.
LEMMA AccountsKept ==
  ASSUME EInv, NEW w \in Requests,
         \/ BeginRefresh(w) \/ GetAccessToken(w) \/ LockMutex(w) \/ Proceed(w)
         \/ AcquireFails(w) \/ RefreshFails(w) \/ PersistFails(w)
         \/ BackfillProject(w) \/ BackfillFails(w)
  PROVE  HasAccount(pc'[w], job'[w])
<1> USE Parts DEF EInv
<1>0. /\ JobType /\ stored.token \in Tokens /\ HasAccount(pc[w], job[w])
      /\ w \in Workers /\ w \notin Background /\ WorkerFacts(pc[w], job[w])
  BY OAuthAssumption DEF Positions, SharedType, Workers
<1>a. ASSUME \/ pc'[w] = "idle"
             \/ job'[w].account = stored
             \/ pc[w] # "idle" /\ job'[w].account = job[w].account
      PROVE  HasAccount(pc'[w], job'[w])
  BY <1>0, <1>a DEF HasAccount
<1>1. CASE BeginRefresh(w) \/ GetAccessToken(w)
  BY <1>0, <1>1, <1>a DEF BeginRefresh, GetAccessToken, JobType, Jobs
<1>2. CASE LockMutex(w) \/ AcquireRefreshLock(w) \/ AcquireFails(w)
  <2>1. CASE LockMutex(w)
    BY <1>0, <1>a, <2>1 DEF LockMutex
  <2>2. CASE AcquireRefreshLock(w)
    <3>1. \/ \E b \in BOOLEAN : job' = [job EXCEPT ![w].locked = b]
          \/ UNCHANGED job
          \/ Goto(w, "idle")
      BY <2>2 DEF AcquireRefreshLock, Enter, LockHeld, Leave
    <3>2. pc[w] # "idle"
      BY <2>2 DEF AcquireRefreshLock
    <3> QED
      BY <1>0, <1>a, <3>1, <3>2 DEF Goto, JobType, Jobs
  <2>3. CASE AcquireFails(w)
    BY <1>0, <1>a, <2>3 DEF AcquireFails, Enter, JobType, Jobs
  <2> QED
    BY <1>2, <2>1, <2>2, <2>3
<1>3. CASE Reread(w) \/ Refresh(w) \/ RefreshFails(w)
           \/ TryRecoverFromRefreshRace(w)
  BY <1>0, <1>3, <1>a DEF Reread, Refresh, RefreshFails, Ends,
     TryRecoverFromRefreshRace, JobType, Jobs
<1>4. CASE Persist(w)
  <2>1. CASE Stored(w) /\ Store(w)
    <3>1. job'[w].account = stored' /\ stored'.token = job[w].new
      BY <1>0, <2>1 DEF Stored, Store, JobType, Jobs
    <3> QED
      BY <1>0, <1>4, <3>1 DEF Persist, WorkerFacts, HasAccount
  <2>2. CASE job' = [job EXCEPT ![w].account = stored, ![w].outcome = "skip"]
    BY <1>0, <1>a, <2>2 DEF JobType, Jobs
  <2> QED
    BY <1>4, <2>1, <2>2 DEF Persist
<1>5. CASE PersistFails(w) \/ DeleteAccessToken(w)
  BY <1>0, <1>5, <1>a DEF PersistFails, Ends, DeleteAccessToken, JobType, Jobs
<1>6. CASE Release(w)
  <2>1. CASE Leave(w)
    BY <1>0, <1>a, <2>1, LeaveFacts
  <2>2. CASE job' = [job EXCEPT ![w] =
                       IF w \in Requests
                       THEN [NoJob EXCEPT !.account = job[w].account]
                       ELSE [NoJob EXCEPT !.used = job[w].used]]
    <3>1. job'[w].account = job[w].account
      BY <1>0, <2>2 DEF JobType, Jobs, NoJob
    <3> QED
      BY <1>6, <1>a, <3>1 DEF Release
  <2> QED
    BY <1>6, <2>1, <2>2 DEF Release
<1>7. CASE SetError(w) \/ InvalidateToken(w) \/ SetAccessToken(w)
           \/ CheckTokenVersion(w)
  BY <1>0, <1>7, <1>a DEF SetError, InvalidateToken, SetAccessToken,
     CheckTokenVersion, Leave, Goto, JobType, Jobs
<1>8. CASE WaitForCache(w) \/ WaitForRefreshedToken(w)
  BY <1>0, <1>8, <1>a DEF WaitForCache, WaitForRefreshedToken, Leave, Goto,
     JobType, Jobs
<1>9. CASE BackfillProject(w) \/ BackfillFails(w)
  BY <1>0, <1>9, <1>a DEF BackfillProject, BackfillFails, Leave, Goto, JobType
<1> QED
  BY <1>1, <1>2, <1>3, <1>4, <1>5, <1>6, <1>7, <1>8, <1>9 DEF Proceed

\* What the administrator's steps do.
LEMMA ABeginFacts ==
  ASSUME TypeOK, NEW a \in Admins, NEW label \in AdminPCs, ABegin(a, label)
  PROVE  /\ apc' \in [Admins -> AdminPCs] /\ apc[a] = "idle" /\ apc'[a] = label
         /\ \A b \in Admins \ {a} : apc'[b] = apc[b]
         /\ edits' \in 0..MaxEdits
<1>1. MaxEdits \in Nat /\ edits \in 0..MaxEdits
  BY OAuthAssumption, Parts DEF AdminType
<1> QED
  BY <1>1, Parts DEF ABegin, AGoto, AdminType

\* A request ends.
LEMMA ALeaveFacts ==
  ASSUME AdminType, NEW a \in Admins, ALeave(a)
  PROVE  /\ apc' \in [Admins -> AdminPCs] /\ edit' \in [Admins -> Edits]
         /\ apc'[a] = "idle" /\ edit'[a] = NoEdit /\ OnlyAdmin(a)
  BY Empty DEF AdminType, ALeave, AGoto, OnlyAdmin, AdminPCs

\* The requests of the administrator, one lemma for each step.
LEMMA EditFacts ==
  ASSUME TypeOK, Positions, NEW a \in Admins, EditAccount(a)
  PROVE  /\ AdminType' /\ OnlyAdmin(a) /\ apc[a] = "idle" /\ apc'[a] = "load"
         /\ edit'[a] = edit[a] /\ edit[a].new = NoCredentials
<1>1. "load" \in AdminPCs
  BY DEF AdminPCs
<1> QED
  BY <1>1, Parts, ABeginFacts DEF EditAccount, AdminType, OnlyAdmin, Positions,
     AdminFacts

\* A new authorization is one that the provider has not given out before.
LEMMA ApplyFacts ==
  ASSUME TypeOK, NEW a \in Admins, ApplyOAuthCredentials(a)
  PROVE  /\ AdminType' /\ OnlyAdmin(a) /\ apc[a] = "idle" /\ apc'[a] = "load"
         /\ edit'[a].authorized /\ edit'[a].new # NoCredentials
         /\ edit'[a].new.token \in Tokens /\ edit'[a].new.token.number = 1
         /\ live[edit'[a].new.token.family] = 0
         /\ live' = [live EXCEPT ![edit'[a].new.token.family] = 1]
<1>1. "load" \in AdminPCs
  BY DEF AdminPCs
<1>2. /\ apc' \in [Admins -> AdminPCs] /\ apc[a] = "idle" /\ apc'[a] = "load"
      /\ \A b \in Admins \ {a} : apc'[b] = apc[b]
      /\ edits' \in 0..MaxEdits
  BY <1>1, ABeginFacts DEF ApplyOAuthCredentials
<1>3. PICK f \in Families :
        /\ live[f] = 0 /\ live' = [live EXCEPT ![f] = 1]
        /\ edit' = [edit EXCEPT ![a].authorized = TRUE,
                      ![a].new = [token |-> [family |-> f, number |-> 1],
                                  version |-> 0]]
  BY DEF ApplyOAuthCredentials
<1> DEFINE c == [token |-> [family |-> f, number |-> 1], version |-> 0]
<1>4. /\ c \in Credentials /\ c # NoCredentials /\ c.token \in Tokens
      /\ c.token.family = f /\ c.token.number = 1
  BY OAuthAssumption DEF Credentials, Tokens, Families, NoCredentials, NoToken
<1>5. edit' = [edit EXCEPT ![a].authorized = TRUE, ![a].new = c]
  BY <1>3
<1> HIDE DEF c
<1>6. /\ edit' \in [Admins -> Edits]
      /\ edit'[a].authorized = TRUE /\ edit'[a].new = c
      /\ \A b \in Admins \ {a} : edit'[b] = edit[b]
  BY <1>4, <1>5, Parts DEF AdminType, Edits
<1> QED
  BY <1>2, <1>3, <1>4, <1>6 DEF AdminType, OnlyAdmin

\* The account is read for a refresh by hand.
LEMMA ManualFacts ==
  ASSUME TypeOK, Positions, NEW a \in Admins, ManualRefresh(a)
  PROVE  /\ AdminType' /\ OnlyAdmin(a) /\ apc[a] = "idle" /\ apc'[a] = "refresh"
         /\ edit'[a].loaded = stored /\ edit'[a].new = NoCredentials
         /\ ~edit'[a].authorized
<1>1. "refresh" \in AdminPCs
  BY DEF AdminPCs
<1>2. /\ apc' \in [Admins -> AdminPCs] /\ apc[a] = "idle"
      /\ apc'[a] = "refresh"
      /\ \A b \in Admins \ {a} : apc'[b] = apc[b]
      /\ edits' \in 0..MaxEdits
  BY <1>1, ABeginFacts DEF ManualRefresh
<1>3. /\ edit' \in [Admins -> Edits] /\ edit'[a].loaded = stored
      /\ edit'[a].new = edit[a].new /\ edit'[a].authorized = edit[a].authorized
      /\ \A b \in Admins \ {a} : edit'[b] = edit[b]
  BY Parts DEF ManualRefresh, AdminType, Edits, SharedType
<1>4. edit[a].new = NoCredentials /\ ~edit[a].authorized
  BY <1>2 DEF Positions, AdminFacts
<1> QED
  BY <1>2, <1>3, <1>4 DEF AdminType, OnlyAdmin

\* The refresh by hand is a mishap, unless it is refused.
LEMMA RefreshSingleFacts ==
  ASSUME TypeOK, Positions, NEW a \in Admins, RefreshSingleAccount(a)
  PROVE  /\ AdminType' /\ OnlyAdmin(a) /\ apc[a] = "refresh"
         /\ live' \in [Families -> 0..(MaxNumber + 1)]
         /\ \/ /\ apc'[a] = "load" /\ edit'[a].new.token \in Tokens
               /\ mishaps' = mishaps \cup {"overwrite"}
            \/ /\ apc'[a] = "idle" /\ edit'[a] = NoEdit
               /\ live' = live /\ mishaps' = mishaps
<1> USE Parts DEF RefreshSingleAccount
<1> DEFINE t == edit[a].loaded.token
<1>1. t \in Tokens
  BY DEF Positions, AdminFacts
<1>2. CASE ~Accepted(t) /\ ALeave(a) /\ UNCHANGED <<live, mishaps>>
  BY <1>2, ALeaveFacts DEF AdminType, SharedType
<1>3. CASE /\ Accepted(t) /\ t.number <= MaxNumber /\ Rotate(t)
           /\ AGoto(a, "load")
           /\ edit' = [edit EXCEPT ![a].new =
                         [edit[a].loaded EXCEPT !.token = Rotated(t)]]
           /\ mishaps' = mishaps \cup {"overwrite"}
  <2> DEFINE c == [edit[a].loaded EXCEPT !.token = Rotated(t)]
  <2>1. live' \in [Families -> 0..(MaxNumber + 1)]
    BY <1>1, <1>3, OAuthAssumption DEF Rotate, SharedType, Tokens
  <2>2. c \in Credentials /\ c.token \in Tokens
    <3>1. Rotated(t) \in Tokens
      BY <1>1, <1>3, RotatedFacts
    <3>2. edit[a].loaded \in Credentials
      BY DEF AdminType, Edits
    <3> HIDE DEF t
    <3> QED
      BY <3>1, <3>2 DEF Credentials
  <2>3. /\ apc' \in [Admins -> AdminPCs] /\ apc'[a] = "load"
        /\ \A b \in Admins \ {a} : apc'[b] = apc[b]
    BY <1>3 DEF AdminType, AGoto, AdminPCs
  <2>4. edit' = [edit EXCEPT ![a].new = c]
    BY <1>3
  <2>5. /\ edit' \in [Admins -> Edits] /\ edit'[a].new = c
        /\ \A b \in Admins \ {a} : edit'[b] = edit[b]
    <3> HIDE DEF c
    <3> QED
      BY <2>2, <2>4 DEF AdminType, Edits
  <2> HIDE DEF c
  <2> QED
    BY <1>3, <2>1, <2>2, <2>3, <2>5 DEF AdminType, OnlyAdmin
<1> QED
  BY <1>2, <1>3

\* The account is read to be changed.
LEMMA LoadFacts ==
  ASSUME TypeOK, NEW a \in Admins, LoadAccount(a)
  PROVE  /\ AdminType' /\ OnlyAdmin(a) /\ apc[a] = "load" /\ apc'[a] = "save"
         /\ edit'[a].loaded = stored /\ edit'[a].status = status
         /\ edit'[a].new = edit[a].new /\ edit'[a].authorized = edit[a].authorized
<1>1. stored \in Credentials /\ status \in {"active", "error"} /\ AdminType
  BY Parts DEF SharedType
<1> QED
  BY <1>1 DEF LoadAccount, AGoto, AdminType, Edits, AdminPCs, OnlyAdmin

\* It is written back: as it was read, if that is no mishap, or with new
\* credentials, which leave the cache to be invalidated.
LEMMA UpdateFacts ==
  ASSUME TypeOK, Positions, NEW a \in Admins, UpdateAccount(a)
  PROVE  /\ AdminType' /\ OnlyAdmin(a) /\ apc[a] = "save"
         /\ stored' \in Credentials /\ stored'.token \in Tokens
         /\ status' \in {"active", "error"}
         /\ mishaps \subseteq mishaps' /\ mishaps' \subseteq mishaps \cup {"overwrite"}
         /\ "overwrite" \notin mishaps' =>
              stored = edit[a].loaded /\ status = edit[a].status
         /\ status' = edit[a].status
         /\ \/ /\ edit[a].new = NoCredentials /\ stored' = edit[a].loaded
               /\ apc'[a] = "idle" /\ edit'[a] = NoEdit
            \/ /\ edit[a].new # NoCredentials /\ stored' = edit[a].new
               /\ edit'[a] = edit[a]
               /\ apc'[a] = IF edit[a].authorized THEN "clear" ELSE "invalidate"
<1> USE Parts DEF UpdateAccount
<1>1. /\ edit[a] \in Edits /\ edit[a].new \in Credentials
      /\ edit[a].loaded \in Credentials /\ edit[a].status \in {"active", "error"}
  BY DEF AdminType, Edits
<1>2. /\ mishaps \subseteq mishaps' /\ mishaps' \subseteq mishaps \cup {"overwrite"}
      /\ "overwrite" \notin mishaps' =>
           stored = edit[a].loaded /\ status = edit[a].status
  BY DEF Remember
<1>3. /\ edit[a].loaded.token \in Tokens
      /\ edit[a].new # NoCredentials => edit[a].new.token \in Tokens
  BY DEF Positions, AdminFacts
<1>4. CASE /\ edit[a].new = NoCredentials /\ stored' = edit[a].loaded
           /\ ALeave(a)
  BY <1>1, <1>2, <1>3, <1>4, ALeaveFacts DEF AdminType
<1>5. CASE /\ edit[a].new # NoCredentials /\ stored' = edit[a].new
           /\ AGoto(a, IF edit[a].authorized THEN "clear" ELSE "invalidate")
           /\ UNCHANGED edit
  <2>1. /\ AdminType' /\ OnlyAdmin(a) /\ edit'[a] = edit[a]
        /\ apc'[a] = IF edit[a].authorized THEN "clear" ELSE "invalidate"
    BY <1>5 DEF AGoto, AdminType, AdminPCs, OnlyAdmin
  <2> QED
    BY <1>1, <1>2, <1>3, <1>5, <2>1
<1> QED
  BY <1>4, <1>5

\* What follows after new credentials.
LEMMA AdminEndFacts ==
  ASSUME TypeOK, NEW a \in Admins, ClearError(a) \/ AdminInvalidateToken(a)
  PROVE  /\ AdminType' /\ OnlyAdmin(a)
         /\ \/ /\ apc[a] = "clear" /\ apc'[a] = "invalidate" /\ edit' = edit
               /\ status' = "active" /\ cached' = cached
            \/ /\ apc[a] = "invalidate" /\ apc'[a] = "idle" /\ edit'[a] = NoEdit
               /\ status' = status /\ cached' = NoToken
<1>1. CASE ClearError(a)
  BY <1>1, Parts DEF ClearError, AGoto, AdminType, AdminPCs, OnlyAdmin
<1>2. CASE AdminInvalidateToken(a)
  BY <1>2, Parts, ALeaveFacts DEF AdminInvalidateToken, AdminType, account
<1> QED
  BY <1>1, <1>2

\* The administrator leaves the workers, the mutex and the lock alone.
AdminMove(a) ==
  /\ UNCHANGED <<deployment, revoked, aging, lock, pc, job, versions, faults>>
  /\ SharedType' /\ AdminType' /\ OnlyAdmin(a) /\ AdminFacts(apc'[a], edit'[a])
  /\ mishaps \subseteq mishaps'

\* Such a step preserves EInv.
LEMMA AdminMoveEInv ==
  ASSUME EInv, NEW a \in Admins, AdminMove(a)
  PROVE  EInv'
<1> USE Parts DEF EInv, AdminMove
<1>1. TypeOK'
  BY PartsNext DEF JobType, deployment
<1>2. Positions'
  BY DEF Positions, OnlyAdmin
<1>3. Exclusion' /\ Alone'
  BY DEF Exclusion, Alone, Clean, deployment
<1> QED
  BY <1>1, <1>2, <1>3

\* Every action of the administrator is an AdminMove.
LEMMA AdminMoves ==
  ASSUME EInv, NEW a \in Admins, AdminStep(a)
  PROVE  AdminMove(a)
<1> USE Parts DEF EInv, AdminElse
<1>0. SharedType /\ edit[a] \in Edits /\ AdminFacts(apc[a], edit[a])
  BY DEF AdminType, Positions
<1>a. ASSUME UNCHANGED <<lock, versions, faults, reused>>,
             live' \in [Families -> 0..(MaxNumber + 1)],
             stored' \in Credentials, stored'.token \in Tokens,
             status' \in {"active", "error"},
             cached' \in Tokens \cup {NoToken},
             mishaps' \subseteq mishaps \cup {"overwrite"}
      PROVE  SharedType'
  BY <1>0, <1>a DEF SharedType, Mishaps
<1>1. CASE EditAccount(a) \/ ManualRefresh(a)
  <2>1. UNCHANGED <<deployment, revoked, aging, lock, pc, job, versions, faults,
                    live, stored, status, cached, mishaps, reused>>
    BY <1>1 DEF EditAccount, ManualRefresh, account, ghost
  <2>2. SharedType'
    BY <1>0, <1>a, <2>1 DEF SharedType
  <2>3. /\ AdminType' /\ OnlyAdmin(a) /\ apc'[a] \in {"load", "refresh"}
        /\ edit'[a].new = NoCredentials
        /\ apc'[a] = "refresh" => edit'[a].loaded = stored /\ ~edit'[a].authorized
    BY <1>1, EditFacts, ManualFacts
  <2> QED
    BY <1>0, <2>1, <2>2, <2>3 DEF AdminMove, AdminFacts, SharedType
<1>2. CASE ApplyOAuthCredentials(a)
  <2>1. UNCHANGED <<deployment, revoked, aging, lock, pc, job, versions, faults,
                    stored, status, cached, mishaps, reused>>
    BY <1>2 DEF ApplyOAuthCredentials, account, ghost
  <2>2. /\ AdminType' /\ OnlyAdmin(a) /\ apc'[a] = "load"
        /\ edit'[a].new.token \in Tokens
        /\ live' = [live EXCEPT ![edit'[a].new.token.family] = 1]
    BY <1>2, ApplyFacts
  <2>3. live' \in [Families -> 0..(MaxNumber + 1)]
    <3>1. 1 \in 0..(MaxNumber + 1)
      BY OAuthAssumption
    <3> QED
      BY <1>0, <2>2, <3>1 DEF SharedType
  <2>4. SharedType'
    BY <1>0, <1>a, <2>1, <2>3 DEF SharedType
  <2> QED
    BY <2>1, <2>2, <2>4 DEF AdminMove, AdminFacts
<1>3. CASE RefreshSingleAccount(a)
  <2>1. UNCHANGED <<deployment, revoked, aging, lock, pc, job, versions, faults,
                    stored, status, cached, reused>>
    BY <1>3 DEF RefreshSingleAccount, account
  <2>2. /\ AdminType' /\ OnlyAdmin(a)
        /\ live' \in [Families -> 0..(MaxNumber + 1)]
        /\ mishaps \subseteq mishaps' /\ mishaps' \subseteq mishaps \cup {"overwrite"}
        /\ \/ apc'[a] = "load" /\ edit'[a].new.token \in Tokens
           \/ apc'[a] = "idle" /\ edit'[a] = NoEdit
    BY <1>3, RefreshSingleFacts
  <2>3. SharedType'
    BY <1>0, <1>a, <2>1, <2>2 DEF SharedType
  <2>4. AdminFacts(apc'[a], edit'[a])
    BY <2>2 DEF AdminFacts, NoEdit
  <2> QED
    BY <2>1, <2>2, <2>3, <2>4 DEF AdminMove
<1>4. CASE LoadAccount(a)
  <2>1. UNCHANGED <<deployment, revoked, aging, lock, pc, job, versions, faults,
                    live, stored, status, cached, mishaps, reused>>
    BY <1>4 DEF LoadAccount, account, ghost
  <2>2. SharedType'
    BY <1>0, <1>a, <2>1 DEF SharedType
  <2>3. /\ AdminType' /\ OnlyAdmin(a) /\ apc'[a] = "save"
        /\ edit'[a].new = edit[a].new /\ edit'[a].loaded = stored
    BY <1>4, LoadFacts
  <2> QED
    BY <1>0, <2>1, <2>2, <2>3 DEF AdminMove, AdminFacts, SharedType
<1>5. CASE UpdateAccount(a)
  <2>1. UNCHANGED <<deployment, revoked, aging, lock, pc, job, versions, faults,
                    live, cached, reused>>
    BY <1>5 DEF UpdateAccount
  <2>2. /\ AdminType' /\ OnlyAdmin(a)
        /\ stored' \in Credentials /\ stored'.token \in Tokens
        /\ status' \in {"active", "error"}
        /\ mishaps \subseteq mishaps' /\ mishaps' \subseteq mishaps \cup {"overwrite"}
        /\ \/ apc'[a] = "idle" /\ edit'[a] = NoEdit
           \/ apc'[a] \in {"clear", "invalidate"} /\ edit'[a] = edit[a]
    BY <1>5, UpdateFacts
  <2>3. SharedType'
    BY <1>0, <1>a, <2>1, <2>2 DEF SharedType
  <2>4. AdminFacts(apc'[a], edit'[a])
    BY <1>0, <2>2 DEF AdminFacts, NoEdit
  <2> QED
    BY <2>1, <2>2, <2>3, <2>4 DEF AdminMove
<1>6. CASE ClearError(a) \/ AdminInvalidateToken(a)
  <2>1. UNCHANGED <<deployment, revoked, aging, lock, pc, job, versions, faults,
                    live, stored, mishaps, reused>>
    BY <1>6 DEF ClearError, AdminInvalidateToken, account, ghost
  <2>2. /\ AdminType' /\ OnlyAdmin(a)
        /\ status' \in {"active", status} /\ cached' \in {cached, NoToken}
        /\ \/ apc'[a] = "idle" /\ edit'[a] = NoEdit
           \/ apc'[a] = "invalidate" /\ edit'[a] = edit[a]
    BY <1>6, AdminEndFacts
  <2>3. SharedType'
    BY <1>0, <1>a, <2>1, <2>2 DEF SharedType
  <2>4. AdminFacts(apc'[a], edit'[a])
    BY <1>0, <2>2 DEF AdminFacts, NoEdit
  <2> QED
    BY <2>1, <2>2, <2>3, <2>4 DEF AdminMove
<1> QED
  BY <1>1, <1>2, <1>3, <1>4, <1>5, <1>6 DEF AdminStep

\* The user, the cache and the TTL of the lock.
LEMMA OutsideEInv ==
  ASSUME EInv, Age \/ Revoke \/ LockExpires \/ LockLapses \/ CacheExpires
  PROVE  EInv'
<1> USE Parts DEF EInv
<1>1. UNCHANGED <<deployment, account, live, pc, job, admin, versions, ghost>>
  BY DEF Age, Revoke, LockExpires, LockLapses, CacheExpires, EndOfTTL, provider
<1>2. /\ MaxFaults \in Nat /\ faults \in 0..MaxFaults
      /\ stored.token \in Tokens /\ lock \in Workers \cup {NoOne}
  BY OAuthAssumption DEF SharedType
<1>3. /\ revoked' \subseteq Families
      /\ aging' \subseteq aging \cup {stored.token}
      /\ aging' # aging => stored.token.number <= MaxNumber
      /\ cached' \in {cached, NoToken} /\ lock' \in {lock, NoOne}
  BY <1>2 DEF Age, Revoke, LockExpires, LockLapses, CacheExpires, EndOfTTL, provider,
     Tokens
<1>4. /\ faults' = faults \/ (faults < MaxFaults /\ faults' = faults + 1)
      /\ lock' # lock => ~Held \/ faults' = faults + 1
  BY DEF Age, Revoke, LockExpires, LockLapses, CacheExpires, EndOfTTL, Fault
<1>5. faults' \in 0..MaxFaults /\ faults <= faults'
  BY <1>2, <1>4
<1>6. TypeOK'
  <2>1. SharedType' /\ JobType' /\ AdminType'
    BY <1>1, <1>3, <1>5 DEF SharedType, JobType, AdminType, account, admin, ghost
  <2>2. aging' \subseteq Tokens /\ grok' = grok /\ together' = together
    BY <1>1, <1>2, <1>3 DEF deployment
  <2> QED
    BY <1>3, <2>1, <2>2, PartsNext
<1>7. Positions'
  BY <1>1, <1>3 DEF Positions, admin
<1>8. Exclusion'
  <2>1. faults' = 0 => lock' = lock
           \/ \A w \in Workers : ~(pc[w] \in Critical /\ lock = w /\ job[w].locked)
    BY <1>2, <1>3, <1>4, OAuthAssumption DEF Held
  <2>2. faults' = 0 => faults = 0
    BY <1>2, <1>4
  <2> QED
    BY <1>1, <2>1, <2>2 DEF Exclusion, deployment
<1>9. Alone'
  BY <1>1 DEF Alone, Clean, ghost
<1> QED
  BY <1>6, <1>7, <1>8, <1>9

\* After a crash the workers that died do nothing.
CrashFacts(w) ==
  /\ UNCHANGED <<deployment, revoked, aging, admin, live, account, lock, cached,
                 versions, reused>>
  /\ JobType' /\ faults' = faults + 1 /\ faults' \in 0..MaxFaults
  /\ mishaps \subseteq mishaps' /\ mishaps' \subseteq mishaps \cup {"race"}
  /\ \A v \in Workers :
       \/ pc'[v] = pc[v] /\ job'[v] = job[v]
       \/ pc'[v] = "idle" /\ (pc[v] = "persist" => "race" \in mishaps')

\* Crash is as described.
LEMMA Crashes ==
  ASSUME TypeOK, NEW w \in Workers, Crash(w)
  PROVE  CrashFacts(w)
<1> USE Parts
<1> DEFINE died == {v \in Workers : SameProcess(v, w)}
<1>1. /\ MaxFaults \in Nat /\ faults \in 0..MaxFaults
      /\ faults < MaxFaults /\ faults' = faults + 1
  BY OAuthAssumption DEF SharedType, Crash, Fault
<1>2. /\ pc' = [v \in Workers |-> IF v \in died THEN "idle" ELSE pc[v]]
      /\ job' = [v \in Workers |-> IF v \in died THEN NoJob ELSE job[v]]
      /\ Remember("race", \E v \in died : pc[v] = "persist")
      /\ UNCHANGED <<deployment, revoked, aging, admin, live, account, lock,
                     cached, versions, reused>>
  BY DEF Crash, Else
<1>3. "idle" \in PCs
  BY DEF PCs
<1> HIDE DEF died
<1>4. JobType'
  BY <1>2, <1>3, Empty DEF JobType
<1>5. /\ mishaps \subseteq mishaps' /\ mishaps' \subseteq mishaps \cup {"race"}
      /\ \A v \in Workers :
           \/ pc'[v] = pc[v] /\ job'[v] = job[v]
           \/ pc'[v] = "idle" /\ (pc[v] = "persist" => "race" \in mishaps')
  BY <1>2 DEF Remember
<1> QED
  BY <1>1, <1>2, <1>4, <1>5 DEF CrashFacts

\* It preserves EInv: the lock stays, and is nobody's.
LEMMA CrashEInv ==
  ASSUME EInv, NEW w \in Workers, Crash(w)
  PROVE  EInv'
<1> USE Parts DEF EInv
<1>1. CrashFacts(w)
  BY Crashes
<1>2. TypeOK'
  <2>1. SharedType' /\ AdminType'
    BY <1>1 DEF CrashFacts, SharedType, AdminType, account, admin, Mishaps
  <2> QED
    BY <1>1, <2>1, PartsNext DEF CrashFacts, deployment
<1>3. Positions'
  BY <1>1 DEF CrashFacts, Positions, WorkerFacts, HasAccount, Workers, admin
<1>4. Exclusion' /\ Alone'
  <2>1. faults' # 0
    BY <1>1 DEF CrashFacts, SharedType
  <2> QED
    BY <1>1, <2>1 DEF CrashFacts, Exclusion, Alone, Clean, deployment, Critical
<1> QED
  BY <1>2, <1>3, <1>4

\* Initially nobody refreshes.
LEMMA InitEInv == Init => EInv
<1> SUFFICES ASSUME Init PROVE EInv
  OBVIOUS
<1>1. /\ MaxFamilies \in Nat \ {0} /\ MaxNumber \in Nat \ {0}
      /\ MaxEdits \in Nat /\ MaxFaults \in Nat
  BY OAuthAssumption
<1>2. FirstToken \in Tokens
  BY <1>1 DEF FirstToken, Tokens, Families
<1>3. /\ stored = [token |-> FirstToken, version |-> 0]
      /\ live = [f \in Families |-> IF f = 1 THEN 1 ELSE 0]
      /\ status = "active" /\ lock = NoOne /\ cached = NoToken
      /\ versions = 0 /\ faults = 0 /\ mishaps = {} /\ edits = 0
  BY DEF Init
<1>4. reused \in BOOLEAN /\ grok \in BOOLEAN /\ together \in BOOLEAN
  BY Zenon DEF Init
<1>5. SharedType
  BY <1>1, <1>2, <1>3, <1>4 DEF SharedType, Credentials
<1>6. JobType /\ AdminType
  BY <1>1, Empty DEF Init, JobType, AdminType, PCs, AdminPCs
<1>7. TypeOK
  BY <1>4, <1>5, <1>6, Parts DEF Init
<1>8. Positions
  BY DEF Init, Positions, WorkerFacts, AdminFacts, NoEdit, HasAccount, Workers
<1>9. Exclusion /\ Alone
  BY DEF Init, Exclusion, Alone, Critical
<1> QED
  BY <1>7, <1>8, <1>9 DEF EInv

\* Every step preserves EInv.
LEMMA NextEInv ==
  ASSUME EInv, [Next]_vars
  PROVE  EInv'
<1>1. CASE UNCHANGED vars
  <2>1. TypeOK'
    BY <1>1 DEF EInv, TypeOK, vars, deployment, provider, account, admin, ghost
  <2>2. Positions' /\ Exclusion' /\ Alone'
    BY <1>1 DEF EInv, Positions, Exclusion, Alone, Clean, vars, deployment,
       provider, account, admin, ghost
  <2> QED
    BY <2>1, <2>2 DEF EInv
<1>2. ASSUME NEW w \in Workers,
             BeginRefresh(w) \/ GetAccessToken(w) \/ LockMutex(w) \/ Proceed(w)
               \/ BackfillProject(w) \/ WorkerFails(w)
      PROVE  EInv'
  BY <1>2, WorkerSteps, AccountsKept, WorkerStepEInv, CrashEInv DEF WorkerFails
<1>3. ASSUME NEW a \in Admins, AdminStep(a) PROVE EInv'
  BY <1>3, AdminMoves, AdminMoveEInv
<1> QED
  BY <1>1, <1>2, <1>3, OutsideEInv DEF Next

\* EInv holds in every state that the workers, the administrator, the user and
\* faults reach.
THEOREM ExclusionInvariant == Spec => []EInv
<1>1. Init => EInv
  BY InitEInv
<1>2. EInv /\ [Next]_vars => EInv'
  BY NextEInv
<1> QED
  BY <1>1, <1>2, PTL DEF Spec

\* The account, the provider's tokens, the workers and the administrator's
\* requests stay within their types: no token is made that could not exist.
THEOREM TypeCorrect == Spec => []TypeOK
<1>1. EInv => TypeOK
  BY DEF EInv
<1> QED
  BY <1>1, ExclusionInvariant, PTL

\* Two workers refresh at the same time only in different processes, and only
\* after a fault.
THEOREM RefreshersExclude == Spec => []OneRefresher
<1>1. EInv => OneRefresher
  <2> SUFFICES ASSUME EInv, NEW v \in Workers, NEW w \in Workers, v # w,
                      pc[v] \in Critical, pc[w] \in Critical
               PROVE  ~SameProcess(v, w) /\ faults > 0
    BY DEF OneRefresher
  <2>1. ~together /\ faults # 0
    BY DEF EInv, Exclusion
  <2>2. faults \in Nat
    BY Parts DEF EInv, SharedType
  <2> QED
    BY <2>1, <2>2 DEF SameProcess
<1> QED
  BY <1>1, ExclusionInvariant, PTL

-----------------------------------------------------------------------------
(* Tokens *)

TInv == StoredFacts /\ UsedLive /\ NewFacts /\ UsesLiveToken /\ ErrorFacts

\* The numbers and families, as the prover uses them.
LEMMA TokenTypes ==
  ASSUME TypeOK
  PROVE  /\ MaxNumber \in Nat
         /\ \A t \in Tokens : t.family \in Families /\ t.number \in Nat
         /\ \A t, u \in Tokens :
              t.family = u.family /\ t.number = u.number => t = u
         /\ \A f \in Families : live[f] \in Nat
         /\ stored.token \in Tokens
<1>1. MaxNumber \in Nat
  BY OAuthAssumption
<1>2. \A t \in Tokens : t.family \in Families /\ t.number \in Nat
  BY <1>1 DEF Tokens
<1>3. \A t, u \in Tokens : t.family = u.family /\ t.number = u.number => t = u
  BY DEF Tokens
<1>4. stored.token \in Tokens /\ \A f \in Families : live[f] \in Nat
  BY <1>1, Parts DEF SharedType
<1> QED
  BY <1>1, <1>2, <1>3, <1>4

\* A step of one worker that changes no token, and after which it uses the one
\* that is stored or the one it used before.
QuietStep(w) ==
  /\ UNCHANGED <<grok, live, revoked, stored, status, admin>> /\ Only(w)
  /\ mishaps \subseteq mishaps'
  /\ Clean' => /\ UsedFacts(pc'[w], job'[w]) /\ (reused' => reused)
               /\ pc[w] = "persist" => stored # job[w].used
  /\ pc'[w] \in Using =>
       \/ job'[w].used = stored
       \/ pc[w] \in Using /\ job'[w].used = job[w].used

\* A quiet step preserves TInv.
LEMMA QuietStepTInv ==
  ASSUME EInv, TInv, NEW w \in Workers, QuietStep(w)
  PROVE  TInv'
<1> USE DEF TInv, QuietStep
<1>0. Clean' => Clean
  BY DEF Clean
<1>1. StoredFacts'
  <2>1. ASSUME Clean', NEW v \in Workers, pc[v] = "persist", stored = job[v].used
        PROVE  pc'[v] = "persist" /\ stored = job'[v].used
    BY <2>1 DEF Only
  <2> QED
    BY <1>0, <2>1 DEF StoredFacts
<1>2. UsedLive'
  BY <1>0 DEF UsedLive, UsedFacts, Only
<1>3. NewFacts'
  BY <1>0 DEF NewFacts, Pending, NewFamily, admin, Only
<1>4. UsesLiveToken'
  BY <1>0 DEF UsesLiveToken, Clean
<1>5. ErrorFacts'
  BY <1>0 DEF ErrorFacts, admin
<1> QED
  BY <1>1, <1>2, <1>3, <1>4, <1>5

\* The steps of a worker that change neither the provider nor the account.
LEMMA QuietSteps ==
  ASSUME EInv, TInv, NEW w \in Workers,
         \/ BeginRefresh(w) \/ GetAccessToken(w) \/ LockMutex(w)
         \/ AcquireRefreshLock(w) \/ AcquireFails(w) \/ Reread(w)
         \/ TryRecoverFromRefreshRace(w) \/ DeleteAccessToken(w) \/ Release(w)
         \/ InvalidateToken(w) \/ CheckTokenVersion(w) \/ SetAccessToken(w)
         \/ WaitForCache(w) \/ WaitForRefreshedToken(w) \/ BackfillFails(w)
  PROVE  TInv'
<1> USE DEF EInv, Else
<1>0. WorkerStep(w)
  BY WorkerSteps DEF Proceed
<1>1. /\ UNCHANGED <<grok, live, revoked, stored, status, admin>>
      /\ reused' = reused /\ Only(w) /\ mishaps \subseteq mishaps'
  BY <1>0 DEF WorkerStep, BeginRefresh, GetAccessToken, LockMutex,
     AcquireRefreshLock, AcquireFails, Reread, TryRecoverFromRefreshRace,
     DeleteAccessToken, Release, InvalidateToken, CheckTokenVersion,
     SetAccessToken, WaitForCache, WaitForRefreshedToken, BackfillFails, account,
     ghost, deployment
<1>2. Clean' => Clean
  BY <1>1 DEF Clean
<1>3. ASSUME pc[w] # "persist", pc'[w] \notin Using \cup {"setError"},
             pc'[w] = "release" /\ Clean' /\ job'[w].outcome = "invalid" =>
               job'[w].used.token.family \in revoked
      PROVE  QuietStep(w)
  BY <1>1, <1>3 DEF QuietStep, UsedFacts, Using
<1>4. CASE \/ BeginRefresh(w) \/ GetAccessToken(w) \/ LockMutex(w)
           \/ AcquireRefreshLock(w) \/ AcquireFails(w)
  <2>1. /\ pc[w] # "persist"
        /\ pc'[w] \in {"mutex", "check", "lock", "read", "idle", "wait"}
    BY <1>4, BeginFacts, LockMutexFacts, AcquireFacts
  <2> QED
    BY <1>3, <2>1, QuietStepTInv DEF Using
<1>5. CASE Reread(w)
  <2>1. /\ pc[w] = "read"
        /\ \/ pc'[w] = "refresh" /\ job'[w].used = stored
           \/ pc'[w] = "release" /\ job'[w].outcome = "skip"
    BY <1>5, RereadFacts
  <2>2. CASE pc'[w] = "release" /\ job'[w].outcome = "skip"
    BY <1>3, <2>1, <2>2, QuietStepTInv DEF Using
  <2>3. CASE pc'[w] = "refresh" /\ job'[w].used = stored
    <3>1. Clean => \A v \in Workers : pc[v] # "persist"
      BY <2>1 DEF Alone, Critical
    <3>2. Clean => /\ live[stored.token.family] # 0
                   /\ stored.token.number = live[stored.token.family]
      BY <3>1 DEF TInv, StoredFacts
    <3>3. stored.token \in Tokens
      BY TokenTypes
    <3>4. QuietStep(w)
      BY <1>1, <1>2, <2>1, <2>3, <3>2, <3>3 DEF QuietStep, UsedFacts, Using
    <3> QED
      BY <3>4, QuietStepTInv
  <2> QED
    BY <2>1, <2>2, <2>3
<1>6. CASE TryRecoverFromRefreshRace(w)
  <2>1. /\ pc[w] = "recover" /\ pc'[w] = "release"
        /\ job'[w].used = job[w].used
    BY <1>6, RecoverFacts
  <2>2. Clean' => job'[w].used.token.family \in revoked
    BY <1>2, <2>1 DEF TInv, UsedLive, UsedFacts
  <2> QED
    BY <1>3, <2>1, <2>2, QuietStepTInv DEF Using
<1>7. CASE DeleteAccessToken(w)
  <2>1. /\ pc[w] = "delete" /\ pc'[w] = "release"
        /\ job'[w].outcome = job[w].outcome
    BY <1>7, DeleteFacts
  <2>2. job[w].outcome = "refreshed"
    BY <2>1 DEF Positions, WorkerFacts
  <2> QED
    BY <1>3, <2>1, <2>2, QuietStepTInv DEF Using
<1>8. CASE Release(w)
  <2>1. /\ pc[w] = "release"
        /\ pc'[w] \in {"idle", "invalidate", "setError", "check"}
        /\ pc'[w] = "setError" => job[w].outcome = "invalid"
                                  /\ job'[w].used = job[w].used
    BY <1>8, ReleaseFacts
  <2>2. Clean' /\ pc'[w] = "setError" => job'[w].used.token.family \in revoked
    BY <1>2, <2>1 DEF TInv, UsedLive, UsedFacts
  <2>3. QuietStep(w)
    BY <1>1, <2>1, <2>2 DEF QuietStep, UsedFacts, Using
  <2> QED
    BY <2>3, QuietStepTInv
<1>9. CASE InvalidateToken(w) \/ CheckTokenVersion(w) \/ SetAccessToken(w)
  <2>1. /\ pc[w] \in {"invalidate", "check", "filled", "set"}
        /\ pc'[w] \in {"idle", "set"}
    BY <1>9, CacheStepFacts
  <2> QED
    BY <1>3, <2>1, QuietStepTInv DEF Using
<1>10. CASE WaitForCache(w) \/ WaitForRefreshedToken(w) \/ BackfillFails(w)
  <2>1. /\ pc[w] \in {"wait", "reread", "check"}
        /\ pc'[w] \in {"wait", "reread", "idle", "set", "filled"}
    BY <1>10, WaitFacts, BackfillFacts
  <2> QED
    BY <1>3, <2>1, QuietStepTInv DEF Using
<1> QED
  BY <1>4, <1>5, <1>6, <1>7, <1>8, <1>9, <1>10

\* The credentials that a request writes back are those that are stored, or it
\* is a mishap.
LEMMA BackfillTInv ==
  ASSUME EInv, TInv, NEW w \in Workers, BackfillProject(w)
  PROVE  TInv'
<1> USE DEF EInv, Else
<1>1. UNCHANGED <<grok, live, revoked, status, admin, reused>>
  BY DEF BackfillProject, deployment
<1>2. /\ Only(w) /\ pc[w] = "check" /\ pc'[w] \in {"filled", "idle"}
      /\ mishaps \subseteq mishaps'
      /\ "overwrite" \in mishaps' \/ stored' = stored
  BY BackfillFacts
<1>3. CASE "overwrite" \in mishaps'
  <2>1. ~Clean'
    BY <1>3 DEF Clean
  <2> QED
    BY <1>3, <2>1 DEF TInv, StoredFacts, UsedLive, NewFacts, UsesLiveToken,
       ErrorFacts
<1>4. CASE stored' = stored
  <2>1. QuietStep(w)
    BY <1>1, <1>2, <1>4 DEF QuietStep, UsedFacts, Using
  <2> QED
    BY <2>1, QuietStepTInv
<1> QED
  BY <1>2, <1>3, <1>4

\* The provider's answer: the token is rotated, or the authorization withdrawn.
LEMMA RefreshTInv ==
  ASSUME EInv, TInv, NEW w \in Workers, Refresh(w)
  PROVE  TInv'
<1> USE DEF EInv, Else
<1> DEFINE t == job[w].used.token
<1>0. /\ UNCHANGED <<grok, revoked, stored, status, admin, mishaps>>
      /\ WorkerFacts(pc[w], job[w])
  BY DEF Refresh, account, deployment, Positions
<1>1. /\ Only(w) /\ pc[w] = "refresh" /\ job'[w].used = job[w].used
      /\ \/ /\ pc'[w] = "persist" /\ Accepted(t) /\ Rotate(t)
            /\ reused' = reused
         \/ /\ pc'[w] = "recover" /\ ~Accepted(t) /\ live' = live
            /\ reused' = (reused \/ t.number < live[t.family])
  BY <1>0, RefreshFacts
<1>2. Clean' = Clean
  BY <1>0 DEF Clean
<1>3. /\ t \in Tokens
      /\ Clean => /\ live[t.family] # 0 /\ t.number = live[t.family]
                  /\ stored.token = t => stored = job[w].used
  BY <1>0, <1>1 DEF WorkerFacts, TInv, UsedLive, UsedFacts, Using
<1>4. t.number \in Nat /\ t.family \in Families /\ live[t.family] \in Nat
  BY <1>3, TokenTypes
<1> HIDE DEF t
<1>5. CASE pc'[w] = "recover"
  <2>1. Clean => t.family \in revoked /\ (reused' => reused)
    <3>1. Clean => ~(t.number < live[t.family])
      BY <1>3, <1>4
    <3>2. Clean => t.family \in revoked
      BY <1>1, <1>3, <1>5 DEF Accepted
    <3>3. reused' = (reused \/ t.number < live[t.family])
      BY <1>1, <1>5
    <3>4. Clean => (reused' => reused)
      BY <3>1, <3>3, Zenon
    <3> QED
      BY <3>2, <3>4
  <2>2. job'[w].used.token = t /\ live' = live
    BY <1>1, <1>5 DEF t
  <2>3. QuietStep(w)
    BY <1>0, <1>1, <1>2, <1>3, <1>5, <2>1, <2>2 DEF QuietStep, UsedFacts, Using
  <2> QED
    BY <2>3, QuietStepTInv
<1>6. CASE pc'[w] = "persist"
  <2>1. /\ live' = [live EXCEPT ![t.family] = t.number + 1]
        /\ reused' = reused /\ job'[w].used.token = t
    BY <1>1, <1>6 DEF Rotate, t
  <2>2. live'[t.family] = t.number + 1
        /\ \A f \in Families \ {t.family} : live'[f] = live[f]
    BY <1>4, <2>1, Parts DEF SharedType
  <2>3. Clean => \A v \in Workers \ {w} : pc'[v] \notin Using /\ pc[v] \notin Using
    BY <1>1 DEF Alone, Critical, Using, Only
  <2>4. StoredFacts'
    <3>0. Clean => \A f \in revoked' : live'[f] # 0
      <4>1. revoked \subseteq Families /\ t.number + 1 # 0
        BY <1>4 DEF TypeOK
      <4> QED
        BY <1>0, <2>2, <4>1 DEF TInv, StoredFacts
    <3>1. Clean => /\ live[stored.token.family] # 0
                   /\ stored.token.number = live[stored.token.family]
      BY <1>1, <2>3 DEF TInv, StoredFacts, Using
    <3>2. CASE stored.token.family = t.family
      <4>1. Clean => stored.token = t
        BY <1>3, <3>1, <3>2, TokenTypes
      <4>2. Clean => stored = job'[w].used
        BY <1>1, <1>3, <4>1
      <4> QED
        BY <1>0, <1>2, <1>4, <1>6, <2>2, <3>0, <3>2, <4>2 DEF StoredFacts
    <3>3. CASE stored.token.family # t.family
      <4>1. live'[stored.token.family] = live[stored.token.family]
        BY <2>2, <3>3, TokenTypes
      <4> QED
        BY <1>0, <1>2, <3>0, <3>1, <4>1 DEF StoredFacts
    <3> QED
      BY <3>2, <3>3
  <2>5. UsedLive'
    <3>1. Clean => (stored.token = t => stored = job'[w].used)
      BY <1>1, <1>3
    <3>2. ASSUME Clean PROVE UsedFacts(pc[w], job[w])'
      BY <1>0, <1>3, <1>4, <1>6, <2>1, <2>2, <3>1, <3>2 DEF UsedFacts, Using
    <3>3. ASSUME Clean, NEW v \in Workers \ {w} PROVE UsedFacts(pc[v], job[v])'
      BY <1>0, <1>1, <2>3, <3>3 DEF UsedFacts, Using, TInv, UsedLive, Only
    <3> QED
      BY <1>2, <3>2, <3>3 DEF UsedLive
  <2>6. NewFacts'
    <3>1. ASSUME Clean, NEW a \in Admins, Pending(a)
          PROVE  live'[NewFamily(a)] = live[NewFamily(a)]
      <4>1. NewFamily(a) # t.family
        BY <1>1, <3>1 DEF TInv, NewFacts, Using, t
      <4>2. NewFamily(a) \in Families
        BY <3>1, TokenTypes DEF Positions, AdminFacts, Pending, NewFamily
      <4> QED
        BY <2>2, <4>1, <4>2
    <3> QED
      BY <1>0, <1>1, <1>2, <1>6, <2>1, <3>1 DEF TInv, NewFacts, Pending, NewFamily,
         admin, Only, Using
  <2>7. UsesLiveToken'
    BY <1>0, <2>1 DEF TInv, UsesLiveToken
  <2>8. ErrorFacts'
    <3>1. Clean => \A f \in Families : live[f] # 0 => live'[f] # 0
      BY <1>3, <1>4, <2>2
    <3> QED
      BY <1>0, <1>2, <3>1 DEF TInv, ErrorFacts, admin
  <2> QED
    BY <2>4, <2>5, <2>6, <2>7, <2>8 DEF TInv
<1> QED
  BY <1>1, <1>5, <1>6

\* A refresh that fails, or whose result is lost.
LEMMA LostTInv ==
  ASSUME EInv, TInv, NEW w \in Workers, RefreshFails(w) \/ PersistFails(w)
  PROVE  TInv'
<1> USE DEF EInv, Else
<1>0. /\ UNCHANGED <<grok, revoked, stored, status, admin, reused>>
  BY DEF RefreshFails, PersistFails, account, deployment
<1>1. /\ Only(w) /\ pc[w] \in {"refresh", "persist"} /\ pc'[w] = "release"
      /\ job'[w].outcome = "failed"
      /\ \/ live' = live /\ mishaps' = mishaps /\ pc[w] = "refresh"
         \/ mishaps' = mishaps \cup {"race"}
  BY RefreshFailsFacts, PersistFailsFacts
<1>2. CASE live' = live /\ mishaps' = mishaps /\ pc[w] = "refresh"
  <2>1. QuietStep(w)
    BY <1>0, <1>1, <1>2 DEF QuietStep, UsedFacts, Using
  <2> QED
    BY <2>1, QuietStepTInv
<1>3. CASE mishaps' = mishaps \cup {"race"}
  <2>1. ~Clean'
    BY <1>3 DEF Clean
  <2> QED
    BY <1>3, <2>1 DEF TInv, StoredFacts, UsedLive, NewFacts, UsesLiveToken,
       ErrorFacts
<1> QED
  BY <1>1, <1>2, <1>3

\* The new token is stored, or, for a Grok account, not the one it was made from.
LEMMA PersistTInv ==
  ASSUME EInv, TInv, NEW w \in Workers, Persist(w)
  PROVE  TInv'
<1> USE DEF EInv, Else
<1> DEFINE t == job[w].used.token
<1>0. /\ UNCHANGED <<grok, revoked, live, status, admin, mishaps, reused>>
      /\ WorkerFacts(pc[w], job[w])
  BY DEF Persist, ghost, deployment, Positions
<1>1. /\ Only(w) /\ pc[w] = "persist" /\ pc'[w] \in {"delete", "release"}
      /\ \/ /\ grok => stored = job[w].used
            /\ stored'.token = job[w].new /\ job'[w].outcome = "refreshed"
         \/ /\ stored # job[w].used /\ stored' = stored
            /\ job'[w].outcome = "skip"
  BY <1>0, PersistFacts
<1>2. Clean' = Clean
  BY <1>0 DEF Clean
<1>3. /\ t \in Tokens /\ job[w].new = Rotated(t)
      /\ Clean => live[t.family] # 0 /\ live[t.family] = t.number + 1
  BY <1>0, <1>1 DEF WorkerFacts, TInv, UsedLive, UsedFacts, Using
<1>4. CASE stored # job[w].used /\ stored' = stored /\ job'[w].outcome = "skip"
  <2>1. QuietStep(w)
    BY <1>0, <1>1, <1>4 DEF QuietStep, UsedFacts, Using
  <2> QED
    BY <2>1, QuietStepTInv
<1>5. CASE /\ grok => stored = job[w].used
           /\ stored'.token = job[w].new /\ job'[w].outcome = "refreshed"
  <2>1. stored'.token.family = t.family /\ stored'.token.number = t.number + 1
    BY <1>3, <1>5 DEF Rotated, Tokens
  <2>2. Clean => \A v \in Workers \ {w} : pc[v] \notin Using
    BY <1>1 DEF Alone, Critical, Using
  <2>3. StoredFacts'
    BY <1>0, <1>2, <1>3, <2>1 DEF TInv, StoredFacts
  <2>4. UsedLive'
    BY <1>0, <1>1, <1>2, <1>5, <2>2 DEF UsedFacts, Using, TInv, UsedLive, Only
  <2>5. NewFacts'
    <3>1. Clean => \A a \in Admins : Pending(a) => NewFamily(a) # t.family
      BY <1>1 DEF TInv, NewFacts, Using
    <3> QED
      BY <1>0, <1>1, <1>2, <2>1, <3>1 DEF TInv, NewFacts, Pending, NewFamily, admin,
         Only, Using
  <2>6. UsesLiveToken'
    BY <1>0 DEF TInv, UsesLiveToken
  <2>7. ErrorFacts'
    <3> SUFFICES ASSUME status = "error", Clean,
                        \A a \in Admins : apc[a] # "clear",
                        grok \/ \A f \in Families : live[f] # 0 => f = 1
                 PROVE  stored'.token.family = stored.token.family
      BY <1>0, <1>2 DEF TInv, ErrorFacts, admin
    <3>1. CASE grok
      BY <1>5, <2>1, <3>1
    <3>2. CASE \A f \in Families : live[f] # 0 => f = 1
      <4>1. live[stored.token.family] # 0
        BY DEF TInv, StoredFacts
      <4> QED
        BY <1>3, <2>1, <3>2, <4>1, TokenTypes
    <3> QED
      BY <3>1, <3>2
  <2> QED
    BY <2>3, <2>4, <2>5, <2>6, <2>7 DEF TInv
<1> QED
  BY <1>1, <1>4, <1>5

\* The account is disabled because of the credentials it has.
LEMMA SetErrorTInv ==
  ASSUME EInv, TInv, NEW w \in Workers, SetError(w)
  PROVE  TInv'
<1> USE DEF EInv, Else
<1>0. UNCHANGED <<grok, revoked, live, stored, admin, mishaps, reused>>
  BY DEF SetError, ghost, deployment
<1>1. /\ Only(w) /\ pc[w] = "setError" /\ pc'[w] \in {"idle", "invalidate"}
      /\ \/ (grok => stored = job[w].used) /\ status' = "error"
         \/ status' = status
  BY SetErrorFacts
<1>2. Clean' = Clean
  BY <1>0 DEF Clean
<1>3. StoredFacts'
  BY <1>0, <1>1, <1>2 DEF TInv, StoredFacts, Only
<1>4. UsedLive'
  BY <1>0, <1>1, <1>2 DEF TInv, UsedLive, UsedFacts, Using, Only
<1>5. NewFacts'
  BY <1>0, <1>1, <1>2 DEF TInv, NewFacts, Pending, NewFamily, admin, Only, Using
<1>6. UsesLiveToken'
  BY <1>0 DEF TInv, UsesLiveToken
<1>7. ErrorFacts'
  <2>1. CASE status' = status
    BY <1>0, <1>2, <2>1 DEF TInv, ErrorFacts, admin
  <2>2. CASE (grok => stored = job[w].used) /\ status' = "error"
    <3> SUFFICES ASSUME Clean, grok \/ \A f \in Families : live[f] # 0 => f = 1
                 PROVE  stored.token.family \in revoked
      BY <1>0, <1>2 DEF ErrorFacts
    <3>1. job[w].used.token.family \in revoked
      BY <1>1 DEF TInv, UsedLive, UsedFacts
    <3>2. CASE grok
      BY <2>2, <3>1, <3>2
    <3>3. CASE \A f \in Families : live[f] # 0 => f = 1
      <4>1. live[stored.token.family] # 0 /\ stored.token.family \in Families
        BY TokenTypes DEF TInv, StoredFacts
      <4>2. job[w].used.token.family = 1
        BY <3>1, <3>3 DEF TInv, StoredFacts, TypeOK
      <4> QED
        BY <3>1, <3>3, <4>1, <4>2
    <3> QED
      BY <3>2, <3>3
  <2> QED
    BY <1>1, <2>1, <2>2
<1> QED
  BY <1>3, <1>4, <1>5, <1>6, <1>7 DEF TInv

\* A request of the administrator that changes no credentials.
QuietAdmin(a) ==
  /\ UNCHANGED <<grok, live, revoked, stored, pc, job, mishaps, reused>>
  /\ status' \in {"active", status} /\ OnlyAdmin(a)
  /\ apc'[a] \in {"load", "save"} /\ edit'[a].new # NoCredentials =>
       /\ Pending(a) /\ edit'[a].new = edit[a].new
       /\ edit'[a].authorized = edit[a].authorized
  /\ apc[a] = "clear" => status' = "active"

\* Such a step preserves TInv.
LEMMA QuietAdminTInv ==
  ASSUME TInv, NEW a \in Admins, QuietAdmin(a)
  PROVE  TInv'
<1> USE DEF TInv, QuietAdmin
<1>0. Clean' = Clean
  BY DEF Clean
<1>1. StoredFacts' /\ UsedLive' /\ UsesLiveToken'
  BY <1>0 DEF StoredFacts, UsedLive, UsedFacts, UsesLiveToken
<1>2. NewFacts'
  <2>1. \A b \in Admins : Pending(b)' =>
          /\ Pending(b) /\ edit'[b].new = edit[b].new
          /\ edit'[b].authorized = edit[b].authorized
    BY DEF Pending, OnlyAdmin
  <2> QED
    BY <1>0, <2>1 DEF NewFacts, NewFamily
<1>3. ErrorFacts'
  BY <1>0 DEF ErrorFacts, OnlyAdmin
<1> QED
  BY <1>1, <1>2, <1>3

\* The administrator's steps preserve TInv: what he does by hand is a mishap,
\* and a new authorization is one that nobody uses yet.
LEMMA AdminTInv ==
  ASSUME EInv, TInv, NEW a \in Admins, AdminStep(a)
  PROVE  TInv'
<1> USE DEF EInv, AdminElse
<1>0. UNCHANGED <<grok, revoked, pc, job>>
  BY DEF AdminStep, EditAccount, ApplyOAuthCredentials, ManualRefresh,
     RefreshSingleAccount, LoadAccount, UpdateAccount, ClearError,
     AdminInvalidateToken, deployment
<1>1. ASSUME ~Clean', reused' = reused PROVE TInv'
  BY <1>1 DEF TInv, StoredFacts, UsedLive, NewFacts, UsesLiveToken, ErrorFacts, Clean
<1>2. CASE EditAccount(a) \/ ManualRefresh(a) \/ LoadAccount(a)
  <2>1. UNCHANGED <<live, stored, status, mishaps, reused>>
    BY <1>2 DEF EditAccount, ManualRefresh, LoadAccount, account, ghost
  <2>2. /\ OnlyAdmin(a) /\ apc[a] \in {"idle", "load"}
        /\ \/ edit'[a].new = NoCredentials
           \/ /\ apc[a] = "load" /\ edit'[a].new = edit[a].new
              /\ edit'[a].authorized = edit[a].authorized
    BY <1>2, EditFacts, ManualFacts, LoadFacts
  <2>3. QuietAdmin(a)
    BY <1>0, <2>1, <2>2 DEF QuietAdmin, Pending
  <2> QED
    BY <2>3, QuietAdminTInv
<1>3. CASE ClearError(a) \/ AdminInvalidateToken(a)
  <2>1. UNCHANGED <<live, stored, mishaps, reused>>
    BY <1>3 DEF ClearError, AdminInvalidateToken, account, ghost
  <2>2. /\ OnlyAdmin(a) /\ apc'[a] \in {"idle", "invalidate"}
        /\ \/ status' = "active"
           \/ apc[a] = "invalidate" /\ status' = status
    BY <1>3, AdminEndFacts
  <2>3. QuietAdmin(a)
    BY <1>0, <2>1, <2>2 DEF QuietAdmin
  <2> QED
    BY <2>3, QuietAdminTInv
<1>4. CASE RefreshSingleAccount(a)
  <2>1. UNCHANGED <<stored, status, reused>>
    BY <1>4 DEF RefreshSingleAccount, account
  <2>2. /\ OnlyAdmin(a) /\ apc[a] = "refresh"
        /\ \/ mishaps' = mishaps \cup {"overwrite"}
           \/ apc'[a] = "idle" /\ live' = live /\ mishaps' = mishaps
    BY <1>4, RefreshSingleFacts
  <2>3. CASE mishaps' = mishaps \cup {"overwrite"}
    <3>1. ~Clean'
      BY <2>3 DEF Clean
    <3> QED
      BY <1>1, <2>1, <3>1
  <2>4. CASE apc'[a] = "idle" /\ live' = live /\ mishaps' = mishaps
    <3>1. QuietAdmin(a)
      BY <1>0, <2>1, <2>2, <2>4 DEF QuietAdmin
    <3> QED
      BY <3>1, QuietAdminTInv
  <2> QED
    BY <2>2, <2>3, <2>4
<1>5. CASE ApplyOAuthCredentials(a)
  <2> DEFINE f == edit'[a].new.token.family
  <2>1. UNCHANGED <<stored, status, mishaps, reused>>
    BY <1>5 DEF ApplyOAuthCredentials, account, ghost
  <2>2. /\ OnlyAdmin(a) /\ apc[a] = "idle" /\ apc'[a] = "load"
        /\ edit'[a].authorized /\ edit'[a].new.token \in Tokens
        /\ edit'[a].new.token.number = 1
        /\ live[f] = 0 /\ live' = [live EXCEPT ![f] = 1]
    BY <1>5, ApplyFacts
  <2>3. f \in Families
    BY <2>2, TokenTypes
  <2>4. live'[f] = 1 /\ \A g \in Families \ {f} : live'[g] = live[g]
    BY <2>2, <2>3, Parts DEF SharedType
  <2>5. Clean' = Clean
    BY <2>1 DEF Clean
  <2>6. \A g \in Families : live[g] # 0 => g # f /\ live'[g] = live[g]
    BY <2>2, <2>4
  <2> HIDE DEF f
  <2>7. StoredFacts'
    <3>1. stored.token.family \in Families /\ revoked \subseteq Families
      BY TokenTypes DEF TypeOK
    <3> QED
      BY <1>0, <2>1, <2>5, <2>6, <3>1 DEF TInv, StoredFacts
  <2>8. UsedLive'
    <3>1. ASSUME Clean, NEW w \in Workers, pc[w] \in Using
          PROVE  live'[job[w].used.token.family] = live[job[w].used.token.family]
      <4>1. /\ job[w].used.token.family \in Families
            /\ live[job[w].used.token.family] # 0
        BY <3>1, TokenTypes DEF TInv, UsedLive, UsedFacts
      <4> QED
        BY <2>6, <4>1
    <3> QED
      BY <1>0, <2>1, <2>5, <3>1 DEF TInv, UsedLive, UsedFacts, Using
  <2>9. NewFacts'
    <3>1. ASSUME Clean, NEW b \in Admins \ {a}, Pending(b)
          PROVE  live'[NewFamily(b)] = 1 /\ NewFamily(b) # f
      <4>1. NewFamily(b) \in Families
        BY <3>1, TokenTypes DEF Positions, AdminFacts, Pending, NewFamily
      <4>2. live[NewFamily(b)] = 1
        BY <3>1 DEF TInv, NewFacts
      <4> QED
        BY <2>6, <4>1, <4>2
    <3>2. Clean => f # stored.token.family
      BY <2>2 DEF TInv, StoredFacts
    <3>3. Clean => \A w \in Workers :
                     pc[w] \in Using => job[w].used.token.family # f
      BY <2>2 DEF TInv, UsedLive, UsedFacts
    <3>4. /\ ~Pending(a) /\ NewFamily(a)' = f
          /\ \A b \in Admins \ {a} :
               (Pending(b)' <=> Pending(b)) /\ edit'[b] = edit[b]
                 /\ NewFamily(b)' = NewFamily(b)
      BY <2>2 DEF Pending, NewFamily, OnlyAdmin, f
    <3>5. ASSUME Clean, NEW b \in Admins, Pending(b)'
          PROVE  /\ edit'[b].authorized
                 /\ edit'[b].new.token.number = 1 /\ live'[NewFamily(b)'] = 1
                 /\ NewFamily(b)' # stored.token.family
                 /\ \A w \in Workers :
                      pc[w] \in Using => job[w].used.token.family # NewFamily(b)'
                 /\ \A c \in Admins \ {b} :
                      Pending(c)' => NewFamily(c)' # NewFamily(b)'
      <4>1. CASE b = a
        BY <2>2, <2>4, <3>1, <3>2, <3>3, <3>4, <3>5, <4>1
      <4>2. CASE b # a
        BY <3>1, <3>4, <3>5, <4>2 DEF TInv, NewFacts
      <4> QED
        BY <4>1, <4>2
    <3> QED
      BY <1>0, <2>1, <2>5, <3>5 DEF NewFacts, NewFamily
  <2>10. UsesLiveToken'
    BY <2>1 DEF TInv, UsesLiveToken
  <2>11. ErrorFacts'
    <3>1. ASSUME Clean, \A g \in Families : live'[g] # 0 => g = 1 PROVE FALSE
      <4>1. f = 1
        BY <2>3, <2>4, <3>1
      <4>2. stored.token.family \in Families /\ live[stored.token.family] # 0
        BY <3>1, TokenTypes DEF TInv, StoredFacts
      <4> QED
        BY <2>6, <3>1, <4>1, <4>2
    <3>2. \A b \in Admins : apc'[b] = "clear" <=> apc[b] = "clear"
      BY <2>2 DEF OnlyAdmin
    <3> QED
      BY <1>0, <2>1, <2>5, <3>1, <3>2 DEF TInv, ErrorFacts
  <2> QED
    BY <2>7, <2>8, <2>9, <2>10, <2>11 DEF TInv
<1>6. CASE UpdateAccount(a)
  <2>1. UNCHANGED <<live, reused>>
    BY <1>6 DEF UpdateAccount
  <2>2. /\ OnlyAdmin(a) /\ apc[a] = "save" /\ mishaps \subseteq mishaps'
        /\ mishaps' \subseteq mishaps \cup {"overwrite"}
        /\ "overwrite" \notin mishaps' =>
             stored = edit[a].loaded /\ status = edit[a].status
        /\ status' = edit[a].status
        /\ \/ /\ edit[a].new = NoCredentials /\ stored' = edit[a].loaded
              /\ apc'[a] = "idle"
           \/ /\ edit[a].new # NoCredentials /\ stored' = edit[a].new
              /\ edit'[a] = edit[a]
              /\ apc'[a] = IF edit[a].authorized THEN "clear" ELSE "invalidate"
    BY <1>6, UpdateFacts
  <2>3. CASE ~Clean'
    BY <1>1, <2>1, <2>3
  <2>4. CASE Clean'
    <3>1. /\ Clean /\ mishaps' = mishaps /\ stored = edit[a].loaded
          /\ status' = status
      BY <2>2, <2>4 DEF Clean
    <3>2. CASE edit[a].new = NoCredentials
      <4>1. QuietAdmin(a)
        BY <1>0, <2>1, <2>2, <3>1, <3>2 DEF QuietAdmin
      <4> QED
        BY <4>1, QuietAdminTInv
    <3>3. CASE edit[a].new # NoCredentials
      <4>1. /\ Pending(a) /\ edit[a].authorized
            /\ stored'.token.number = 1 /\ live[stored'.token.family] = 1
            /\ stored'.token.family = NewFamily(a)
            /\ \A w \in Workers :
                 pc[w] \in Using => job[w].used.token.family # stored'.token.family
        BY <2>2, <3>1, <3>3 DEF Pending, NewFamily, TInv, NewFacts
      <4>2. apc'[a] = "clear" /\ ~Pending(a)'
        BY <2>2, <3>3, <4>1 DEF Pending
      <4>3. StoredFacts'
        BY <1>0, <2>1, <3>1, <4>1 DEF TInv, StoredFacts
      <4>4. UsedLive'
        BY <1>0, <2>1, <3>1, <4>1 DEF TInv, UsedLive, UsedFacts
      <4>5. NewFacts'
        <5>1. \A b \in Admins : Pending(b)' =>
                b # a /\ Pending(b) /\ edit'[b] = edit[b]
          BY <2>2, <4>2 DEF Pending, OnlyAdmin
        <5> QED
          BY <1>0, <2>1, <3>1, <4>1, <5>1 DEF TInv, NewFacts, NewFamily
      <4>6. UsesLiveToken'
        BY <2>1, <3>1 DEF TInv, UsesLiveToken
      <4>7. ErrorFacts'
        BY <4>2 DEF ErrorFacts
      <4> QED
        BY <4>3, <4>4, <4>5, <4>6, <4>7 DEF TInv
    <3> QED
      BY <3>2, <3>3
  <2> QED
    BY <2>3, <2>4
<1> QED
  BY <1>2, <1>3, <1>4, <1>5, <1>6 DEF AdminStep

\* The user, the cache and the TTL of the lock change no token.
LEMMA OutsideTInv ==
  ASSUME EInv, TInv, Age \/ Revoke \/ LockExpires \/ LockLapses \/ CacheExpires
  PROVE  TInv'
<1>1. UNCHANGED <<grok, stored, status, live, pc, job, apc, edit, mishaps, reused>>
  BY DEF Age, Revoke, LockExpires, LockLapses, CacheExpires, EndOfTTL, provider,
     deployment, account, admin, ghost
<1>2. /\ revoked \subseteq revoked'
      /\ revoked' \subseteq revoked \cup {stored.token.family}
  BY DEF Age, Revoke, LockExpires, LockLapses, CacheExpires, EndOfTTL, provider
<1>3. StoredFacts' /\ UsedLive' /\ NewFacts'
  BY <1>1, <1>2 DEF TInv, StoredFacts, UsedLive, UsedFacts, NewFacts, Pending,
     NewFamily, Clean
<1>4. UsesLiveToken' /\ ErrorFacts'
  BY <1>1, <1>2 DEF TInv, UsesLiveToken, ErrorFacts, Clean
<1> QED
  BY <1>3, <1>4 DEF TInv

\* A crash loses a rotation, or changes nothing that matters.
LEMMA CrashTInv ==
  ASSUME EInv, TInv, NEW w \in Workers, Crash(w)
  PROVE  TInv'
<1>1. CrashFacts(w)
  BY Crashes DEF EInv
<1>2. UNCHANGED <<grok, revoked, live, stored, status, apc, edit, reused>>
  BY <1>1 DEF CrashFacts, deployment, admin, account
<1>3. Clean' => Clean /\ "race" \notin mishaps'
  BY <1>1 DEF CrashFacts, Clean
<1>4. StoredFacts'
  <2>1. ASSUME Clean', NEW v \in Workers, pc[v] = "persist", stored = job[v].used
        PROVE  pc'[v] = "persist" /\ stored = job'[v].used
    BY <1>1, <1>3, <2>1 DEF CrashFacts
  <2> QED
    BY <1>2, <1>3, <2>1 DEF TInv, StoredFacts
<1>5. UsedLive' /\ NewFacts'
  BY <1>1, <1>2, <1>3 DEF TInv, UsedLive, UsedFacts, NewFacts, Pending, NewFamily,
     CrashFacts, Using
<1>6. UsesLiveToken' /\ ErrorFacts'
  BY <1>1, <1>2, <1>3 DEF TInv, UsesLiveToken, ErrorFacts, CrashFacts
<1> QED
  BY <1>4, <1>5, <1>6 DEF TInv

\* Initially the stored token is the live one.
LEMMA InitTInv == Init => TInv
<1> SUFFICES ASSUME Init PROVE TInv
  OBVIOUS
<1>1. 1 \in Families /\ stored.token.family = 1 /\ stored.token.number = 1
  BY OAuthAssumption DEF Init, FirstToken, Families
<1>2. live[1] = 1 /\ revoked = {}
  BY <1>1 DEF Init
<1>3. StoredFacts
  BY <1>1, <1>2 DEF StoredFacts
<1>4. UsedLive /\ NewFacts /\ UsesLiveToken /\ ErrorFacts
  BY DEF Init, UsedLive, UsedFacts, Using, NewFacts, Pending, UsesLiveToken,
     ErrorFacts
<1> QED
  BY <1>3, <1>4 DEF TInv

\* Every step preserves TInv.
LEMMA NextTInv ==
  ASSUME EInv, TInv, [Next]_vars
  PROVE  TInv'
<1>1. CASE UNCHANGED vars
  <2>1. UNCHANGED <<grok, stored, status, live, revoked, pc, job, apc, edit,
                    mishaps, reused>>
    BY <1>1 DEF vars, deployment, provider, account, admin, ghost
  <2> QED
    BY <2>1 DEF TInv, StoredFacts, UsedLive, UsedFacts, NewFacts, Pending, NewFamily,
       UsesLiveToken, ErrorFacts, Clean
<1>2. ASSUME NEW w \in Workers,
             BeginRefresh(w) \/ GetAccessToken(w) \/ LockMutex(w) \/ Proceed(w)
               \/ BackfillProject(w) \/ WorkerFails(w)
      PROVE  TInv'
  BY <1>2, QuietSteps, RefreshTInv, LostTInv, PersistTInv, SetErrorTInv,
     BackfillTInv, CrashTInv DEF Proceed, WorkerFails
<1>3. ASSUME NEW a \in Admins, AdminStep(a) PROVE TInv'
  BY <1>3, AdminTInv
<1> QED
  BY <1>1, <1>2, <1>3, OutsideTInv DEF Next

\* TInv holds in every state that is reached.
THEOREM TokenInvariant == Spec => []TInv
<1>1. Init => TInv
  BY InitTInv
<1>2. EInv /\ TInv /\ [Next]_vars => TInv'
  BY NextTInv
<1> QED
  BY <1>1, <1>2, ExclusionInvariant, PTL DEF Spec

\* A worker is never refused because of a token used before, unless refreshes
\* overlapped, a rotation was not stored, the administrator refreshed by hand,
\* or somebody wrote back credentials that had changed.
THEOREM TokensUsedOnce == Spec => []UsesLiveToken
<1>1. TInv => UsesLiveToken
  BY DEF TInv
<1> QED
  BY <1>1, TokenInvariant, PTL

\* A disabled account has credentials that the provider refuses.
THEOREM ErrorsAreDeserved == Spec => []ErrorIsDeserved
<1>1. TInv => ErrorIsDeserved
  BY DEF TInv, ErrorFacts, ErrorIsDeserved, Accepted, Clean
<1> QED
  BY <1>1, TokenInvariant, PTL

-----------------------------------------------------------------------------
(* The cache, and the authorization that is stored *)

\* The authorization that a request is about to store is one that the user gave
\* it, unless the administrator refreshed by hand.
Authorized ==
  "overwrite" \notin mishaps =>
    \A a \in Admins : Pending(a) => edit[a].authorized

CInv == CacheFacts /\ Authorized

\* A worker that leaves the credentials and the cache alone passes its charge on
\* to nobody.
LEMMA CacheKept ==
  ASSUME CacheFacts, NEW w \in Workers, Only(w), pc'[w] # "set",
         UNCHANGED <<stored, cached, apc>>, mishaps \subseteq mishaps',
         faults \in Nat, faults' \in Nat, faults <= faults',
         \/ faults' # 0
         \/ ~InCharge(w)
         \/ InCharge(w)'
  PROVE  CacheFacts'
<1>1. faults' = 0 => faults = 0
  OBVIOUS
<1>2. \A v \in Workers \ {w} : InCharge(v) => InCharge(v)'
  BY DEF InCharge, Only
<1>3. "cache" \notin mishaps' => \A v \in Workers :
        pc'[v] = "set" => job'[v].used.token = job'[v].account.token
  BY DEF CacheFacts, Only
<1>4. ASSUME faults' = 0, mishaps' \cap {"cache", "overwrite"} = {}
      PROVE  \/ cached' \in {NoToken, stored'.token}
             \/ \E v \in Workers : InCharge(v)'
             \/ \E a \in Admins : apc'[a] \in {"clear", "invalidate"}
  BY <1>1, <1>2, <1>4 DEF CacheFacts
<1> QED
  BY <1>3, <1>4 DEF CacheFacts, InCharge

\* A step after which the cache holds the stored token, or the worker itself is
\* in charge.
LEMMA CacheDealtWith ==
  ASSUME CacheFacts, NEW w \in Workers, Only(w), mishaps \subseteq mishaps',
         pc'[w] # "set",
         \/ mishaps' \cap {"cache", "overwrite"} # {}
         \/ cached' \in {NoToken, stored'.token}
         \/ InCharge(w)'
  PROVE  CacheFacts'
<1>1. "cache" \notin mishaps' => \A v \in Workers :
        pc'[v] = "set" => job'[v].used.token = job'[v].account.token
  BY DEF CacheFacts, Only
<1> QED
  BY <1>1 DEF CacheFacts, InCharge

\* A worker deals with the cache until it holds the stored token, or none.
LEMMA WorkerCache ==
  ASSUME EInv, CacheFacts, NEW w \in Workers,
         \/ BeginRefresh(w) \/ GetAccessToken(w) \/ LockMutex(w) \/ Proceed(w)
         \/ AcquireFails(w) \/ RefreshFails(w) \/ PersistFails(w)
         \/ BackfillProject(w) \/ BackfillFails(w)
  PROVE  CacheFacts'
<1> USE DEF EInv, Else
<1>0. /\ UNCHANGED apc /\ Only(w) /\ mishaps \subseteq mishaps'
      /\ faults \in Nat /\ faults' \in Nat /\ faults <= faults'
      /\ WorkerFacts(pc[w], job[w])
  BY WorkerSteps, Parts DEF WorkerStep, SharedType, admin, Positions
<1>1. CASE BeginRefresh(w) \/ GetAccessToken(w) \/ LockMutex(w)
  <2>1. UNCHANGED <<stored, cached>>
    BY <1>1 DEF BeginRefresh, GetAccessToken, LockMutex, account
  <2>2. pc[w] \in {"idle", "mutex"} /\ pc'[w] # "set"
    BY <1>1, BeginFacts, LockMutexFacts
  <2> QED
    BY <1>0, <2>1, <2>2, CacheKept DEF InCharge
<1>2. CASE AcquireRefreshLock(w) \/ AcquireFails(w)
  <2>1. UNCHANGED <<stored, cached>>
    BY <1>2 DEF AcquireRefreshLock, AcquireFails, account
  <2>2. pc[w] = "lock" /\ pc'[w] # "set"
    BY <1>2, AcquireFacts
  <2> QED
    BY <1>0, <2>1, <2>2, CacheKept DEF InCharge
<1>3. CASE Reread(w) \/ Refresh(w) \/ RefreshFails(w)
           \/ TryRecoverFromRefreshRace(w) \/ PersistFails(w)
  <2>1. UNCHANGED <<stored, cached>>
    BY <1>3 DEF Reread, Refresh, RefreshFails, TryRecoverFromRefreshRace,
       PersistFails, account
  <2>2. /\ pc[w] \in {"read", "refresh", "recover", "persist"}
        /\ pc'[w] # "set"
    BY <1>0, <1>3, RereadFacts, RefreshFacts, RefreshFailsFacts, RecoverFacts,
       PersistFailsFacts
  <2> QED
    BY <1>0, <2>1, <2>2, CacheKept DEF InCharge
<1>4. CASE Persist(w)
  <2>1. UNCHANGED cached
    BY <1>4 DEF Persist
  <2>2. /\ pc[w] = "persist" /\ pc'[w] # "set"
        /\ \/ /\ job'[w].account = stored' /\ job'[w].outcome = "refreshed"
              /\ pc'[w] \in {"delete", "release"}
           \/ stored' = stored
    BY <1>0, <1>4, PersistFacts
  <2>3. CASE /\ job'[w].account = stored' /\ job'[w].outcome = "refreshed"
             /\ pc'[w] \in {"delete", "release"}
    <3>1. InCharge(w)'
      BY <2>3 DEF InCharge
    <3> QED
      BY <1>0, <2>2, <3>1, CacheDealtWith
  <2>4. CASE stored' = stored
    BY <1>0, <2>1, <2>2, <2>4, CacheKept DEF InCharge
  <2> QED
    BY <2>2, <2>3, <2>4
<1>5. CASE DeleteAccessToken(w)
  BY <1>0, <1>5, DeleteFacts, CacheDealtWith
<1>6. CASE Release(w)
  <2>1. UNCHANGED <<stored, cached>>
    BY <1>6 DEF Release, account
  <2>2. /\ pc[w] = "release" /\ pc'[w] # "set"
        /\ job[w].outcome = "refreshed" =>
             IF w \in Background THEN pc'[w] = "invalidate"
             ELSE pc'[w] = "check" /\ job'[w].account = job[w].account
    BY <1>6, ReleaseFacts
  <2>3. InCharge(w) => InCharge(w)'
    BY <2>1, <2>2 DEF InCharge
  <2> QED
    BY <1>0, <2>1, <2>2, <2>3, CacheKept
<1>7. CASE SetError(w)
  <2>1. UNCHANGED <<stored, cached>>
    BY <1>7 DEF SetError
  <2>2. pc[w] = "setError" /\ pc'[w] # "set"
    BY <1>7, SetErrorFacts
  <2> QED
    BY <1>0, <2>1, <2>2, CacheKept DEF InCharge
<1>8. CASE InvalidateToken(w) \/ CheckTokenVersion(w) \/ SetAccessToken(w)
  <2>1. UNCHANGED <<stored, faults>>
    BY <1>8 DEF InvalidateToken, CheckTokenVersion, SetAccessToken, account
  <2>2. \/ /\ pc[w] = "invalidate" /\ pc'[w] = "idle" /\ cached' = NoToken
        \/ /\ pc'[w] = "idle" /\ cached' = cached
           /\ pc[w] \in {"check", "filled"} /\ job[w].account # stored
        \/ /\ pc[w] \in {"check", "filled"} /\ pc'[w] = "set" /\ cached' = cached
           /\ job'[w].used = stored /\ job'[w].account = job[w].account
           /\ "cache" \notin mishaps' => stored.token = job[w].account.token
        \/ /\ pc[w] = "set" /\ pc'[w] = "idle"
           /\ cached' = job[w].account.token
           /\ "cache" \notin mishaps' => stored = job[w].used
    BY <1>8, CacheStepFacts
  <2>3. CASE pc[w] = "invalidate" /\ pc'[w] = "idle" /\ cached' = NoToken
    BY <1>0, <2>3, CacheDealtWith
  <2>4. CASE /\ pc'[w] = "idle" /\ cached' = cached
             /\ pc[w] \in {"check", "filled"} /\ job[w].account # stored
    BY <1>0, <2>1, <2>4, CacheKept DEF InCharge
  <2>5. CASE /\ pc[w] \in {"check", "filled"}
             /\ pc'[w] = "set" /\ cached' = cached
             /\ job'[w].used = stored /\ job'[w].account = job[w].account
             /\ "cache" \notin mishaps' => stored.token = job[w].account.token
    <3>1. InCharge(w) => InCharge(w)'
      BY <2>1, <2>5 DEF InCharge
    <3>2. \A v \in Workers \ {w} : InCharge(v) => InCharge(v)'
      BY <1>0, <2>1 DEF InCharge, Only
    <3>3. "cache" \notin mishaps' => \A v \in Workers :
            pc'[v] = "set" => job'[v].used.token = job'[v].account.token
      BY <1>0, <2>5 DEF CacheFacts, Only
    <3>4. ASSUME faults' = 0, mishaps' \cap {"cache", "overwrite"} = {}
          PROVE  \/ cached' \in {NoToken, stored'.token}
                 \/ \E v \in Workers : InCharge(v)'
                 \/ \E a \in Admins : apc'[a] \in {"clear", "invalidate"}
      BY <1>0, <2>1, <2>5, <3>1, <3>2, <3>4 DEF CacheFacts
    <3> QED
      BY <3>3, <3>4 DEF CacheFacts, InCharge
  <2>6. CASE /\ pc[w] = "set" /\ pc'[w] = "idle"
             /\ cached' = job[w].account.token
             /\ "cache" \notin mishaps' => stored = job[w].used
    <3>1. "cache" \notin mishaps' => cached' = stored'.token
      BY <1>0, <2>1, <2>6 DEF CacheFacts
    <3> QED
      BY <1>0, <2>6, <3>1, CacheDealtWith
  <2> QED
    BY <2>2, <2>3, <2>4, <2>5, <2>6
<1>9. CASE WaitForCache(w) \/ WaitForRefreshedToken(w)
  <2>1. UNCHANGED <<stored, cached, mishaps, faults>>
    BY <1>9 DEF WaitForCache, WaitForRefreshedToken, account, ghost
  <2>2. /\ pc[w] \in {"wait", "reread"}
        /\ pc'[w] = "set" => job'[w].account = stored /\ job'[w].used = stored
    BY <1>9, WaitFacts
  <2>3. \A v \in Workers : InCharge(v) => InCharge(v)'
    BY <1>0, <2>1, <2>2 DEF InCharge, Only
  <2>4. "cache" \notin mishaps' => \A v \in Workers :
          pc'[v] = "set" => job'[v].used.token = job'[v].account.token
    BY <1>0, <2>1, <2>2 DEF CacheFacts, Only
  <2>5. ASSUME faults' = 0, mishaps' \cap {"cache", "overwrite"} = {}
        PROVE  \/ cached' \in {NoToken, stored'.token}
               \/ \E v \in Workers : InCharge(v)'
               \/ \E a \in Admins : apc'[a] \in {"clear", "invalidate"}
    BY <1>0, <2>1, <2>3, <2>5 DEF CacheFacts
  <2> QED
    BY <2>4, <2>5 DEF CacheFacts, InCharge
<1>10. CASE BackfillProject(w) \/ BackfillFails(w)
  <2>1. UNCHANGED cached
    BY <1>10 DEF BackfillProject, BackfillFails
  <2>2. /\ pc[w] = "check" /\ pc'[w] \in {"filled", "idle"}
        /\ \/ /\ pc'[w] = "filled" /\ job'[w] = job[w]
              /\ "overwrite" \in mishaps' \/ stored' = stored
           \/ stored' = stored /\ faults' = faults + 1
    BY <1>10, BackfillFacts
  <2>3. CASE "overwrite" \in mishaps'
    BY <1>0, <2>2, <2>3, CacheDealtWith
  <2>4. CASE stored' = stored
    <3>1. faults' # 0 \/ (InCharge(w) => InCharge(w)')
      BY <1>0, <2>2, <2>4 DEF InCharge
    <3> QED
      BY <1>0, <2>1, <2>2, <2>4, <3>1, CacheKept
  <2> QED
    BY <2>2, <2>3, <2>4
<1> QED
  BY <1>1, <1>2, <1>3, <1>4, <1>5, <1>6, <1>7, <1>8, <1>9, <1>10 DEF Proceed

\* Whoever stores other credentials by hand invalidates the cache afterwards.
LEMMA AdminCache ==
  ASSUME EInv, CacheFacts, NEW a \in Admins, AdminStep(a)
  PROVE  CacheFacts'
<1> USE DEF EInv, AdminElse
<1>0. UNCHANGED <<pc, job, faults>> /\ OnlyAdmin(a) /\ mishaps \subseteq mishaps'
  BY AdminMoves DEF AdminMove
<1>1. ASSUME UNCHANGED stored, cached' \in {cached, NoToken},
             apc[a] = "clear" => apc'[a] = "invalidate",
             apc[a] = "invalidate" => cached' = NoToken
      PROVE  CacheFacts'
  BY <1>0, <1>1 DEF CacheFacts, InCharge, OnlyAdmin
<1>2. CASE EditAccount(a) \/ ApplyOAuthCredentials(a) \/ ManualRefresh(a)
           \/ RefreshSingleAccount(a) \/ LoadAccount(a)
  <2>1. UNCHANGED <<stored, cached>>
    BY <1>2 DEF EditAccount, ApplyOAuthCredentials, ManualRefresh,
       RefreshSingleAccount, LoadAccount, account
  <2>2. apc[a] \in {"idle", "refresh", "load"}
    BY <1>2, EditFacts, ApplyFacts, ManualFacts, RefreshSingleFacts, LoadFacts
  <2> QED
    BY <1>1, <2>1, <2>2
<1>3. CASE UpdateAccount(a)
  <2>1. UNCHANGED cached
    BY <1>3 DEF UpdateAccount
  <2>2. /\ apc[a] = "save"
        /\ "overwrite" \notin mishaps' => stored = edit[a].loaded
        /\ \/ stored' = edit[a].loaded
           \/ apc'[a] \in {"clear", "invalidate"}
    BY <1>3, UpdateFacts
  <2>3. CASE "overwrite" \in mishaps' \/ apc'[a] \in {"clear", "invalidate"}
    BY <1>0, <2>3 DEF CacheFacts
  <2>4. CASE stored' = stored
    BY <1>1, <2>1, <2>2, <2>4
  <2> QED
    BY <2>2, <2>3, <2>4
<1>4. CASE ClearError(a) \/ AdminInvalidateToken(a)
  <2>1. UNCHANGED stored
    BY <1>4 DEF ClearError, AdminInvalidateToken, account
  <2> QED
    BY <1>1, <1>4, <2>1, AdminEndFacts
<1> QED
  BY <1>2, <1>3, <1>4 DEF AdminStep

\* Only a request of the administrator changes what is about to be stored.
LEMMA AdminAuthorized ==
  ASSUME EInv, Authorized, NEW a \in Admins, AdminStep(a)
  PROVE  Authorized'
<1> USE DEF EInv
<1>0. OnlyAdmin(a) /\ mishaps \subseteq mishaps'
  BY AdminMoves DEF AdminMove
<1>1. \/ "overwrite" \in mishaps'
      \/ apc'[a] \notin {"load", "save"}
      \/ edit'[a].new = NoCredentials
      \/ edit'[a].authorized
      \/ Pending(a) /\ edit'[a].authorized = edit[a].authorized
  <2>1. CASE EditAccount(a) \/ ApplyOAuthCredentials(a) \/ ManualRefresh(a)
    BY <2>1, EditFacts, ApplyFacts, ManualFacts
  <2>2. CASE LoadAccount(a)
    BY <2>2, LoadFacts DEF Pending
  <2>3. CASE RefreshSingleAccount(a)
    BY <2>3, RefreshSingleFacts
  <2>4. CASE UpdateAccount(a)
    BY <2>4, UpdateFacts
  <2>5. CASE ClearError(a) \/ AdminInvalidateToken(a)
    BY <2>5, AdminEndFacts
  <2> QED
    BY <2>1, <2>2, <2>3, <2>4, <2>5 DEF AdminStep
<1> QED
  BY <1>0, <1>1 DEF Authorized, Pending, OnlyAdmin

\* No other step touches the administrator's requests.
LEMMA OthersAuthorized ==
  ASSUME Authorized, UNCHANGED <<apc, edit>>, mishaps \subseteq mishaps'
  PROVE  Authorized'
  BY DEF Authorized, Pending

\* Initially nothing is cached.
LEMMA InitCInv == Init => CInv
  BY DEF Init, CInv, CacheFacts, Authorized, Pending

\* Every step preserves CInv.
LEMMA NextCInv ==
  ASSUME EInv, CInv, [Next]_vars
  PROVE  CInv'
<1> USE DEF CInv
<1>1. CASE UNCHANGED vars
  BY <1>1 DEF vars, account, admin, ghost, CacheFacts, InCharge, Authorized, Pending
<1>2. ASSUME NEW w \in Workers,
             \/ BeginRefresh(w) \/ GetAccessToken(w) \/ LockMutex(w) \/ Proceed(w)
             \/ AcquireFails(w) \/ RefreshFails(w) \/ PersistFails(w)
             \/ BackfillProject(w) \/ BackfillFails(w)
      PROVE  CInv'
  <2>1. UNCHANGED <<apc, edit>> /\ mishaps \subseteq mishaps'
    BY <1>2, WorkerSteps DEF WorkerStep, admin
  <2> QED
    BY <1>2, <2>1, WorkerCache, OthersAuthorized
<1>3. ASSUME NEW w \in Workers, Crash(w) PROVE CInv'
  <2>1. CrashFacts(w)
    BY <1>3, Crashes DEF EInv
  <2>2. UNCHANGED <<apc, edit>> /\ mishaps \subseteq mishaps' /\ faults' # 0
    BY <2>1, Parts DEF EInv, CrashFacts, admin, SharedType
  <2>3. CacheFacts'
    BY <2>1, <2>2 DEF CacheFacts, CrashFacts
  <2> QED
    BY <2>2, <2>3, OthersAuthorized
<1>4. ASSUME NEW a \in Admins, AdminStep(a) PROVE CInv'
  BY <1>4, AdminCache, AdminAuthorized
<1>5. CASE Age \/ Revoke \/ LockExpires \/ LockLapses \/ CacheExpires
  <2>1. UNCHANGED <<stored, pc, job, apc, edit, mishaps>>
        /\ cached' \in {cached, NoToken}
    BY <1>5 DEF Age, Revoke, LockExpires, LockLapses, CacheExpires, EndOfTTL,
       account, admin, ghost
  <2>2. faults' = 0 => faults = 0
    BY <1>5, Parts DEF Age, Revoke, LockExpires, LockLapses, CacheExpires, Fault,
       EInv, SharedType
  <2> QED
    BY <2>1, <2>2, OthersAuthorized DEF CacheFacts, InCharge
<1> QED
  BY <1>1, <1>2, <1>3, <1>4, <1>5 DEF Next, WorkerFails

\* CInv holds in every state that is reached.
THEOREM CacheInvariant == Spec => []CInv
<1>1. Init => CInv
  BY InitCInv
<1>2. EInv /\ CInv /\ [Next]_vars => CInv'
  BY NextCInv
<1> QED
  BY <1>1, <1>2, ExclusionInvariant, PTL DEF Spec

\* Without faults, a token cached unseen or a write of the administrator or of a
\* request over what had changed, the cache holds no other token than the stored
\* one as soon as whoever changed the credentials is done.
THEOREM CacheStaysCurrent == Spec => []CachedIsCurrent
<1>1. CInv => CachedIsCurrent
  BY DEF CInv, CacheFacts, CachedIsCurrent, InCharge
<1> QED
  BY <1>1, CacheInvariant, PTL

\* A late refresh of a Grok account does not bring back an authorization that
\* was replaced in the meantime.
THEOREM AuthorizationsAreKept == Spec => AuthorizationIsKept
<1>1. ASSUME EInv, CInv, [Next]_vars, grok, "overwrite" \notin mishaps'
      PROVE  \/ stored'.token.family = stored.token.family
             \/ \E a \in Admins : apc[a] = "save" /\ edit[a].authorized
                                  /\ stored' = edit[a].new
  <2>1. CASE UNCHANGED vars
    BY <2>1 DEF vars, account
  <2>2. ASSUME NEW w \in Workers, Persist(w)
        PROVE  stored'.token.family = stored.token.family
    <3>1. WorkerFacts(pc[w], job[w])
      BY <1>1 DEF EInv, Positions
    <3>2. /\ pc[w] = "persist"
          /\ \/ stored = job[w].used /\ stored'.token = job[w].new
             \/ stored' = stored
      BY <1>1, <2>2, <3>1, PersistFacts DEF EInv
    <3>3. job[w].new.family = job[w].used.token.family
      BY <3>1, <3>2 DEF WorkerFacts, Rotated, Tokens
    <3> QED
      BY <3>2, <3>3
  <2>3. ASSUME NEW a \in Admins, UpdateAccount(a)
        PROVE  \/ stored' = stored
               \/ apc[a] = "save" /\ edit[a].authorized /\ stored' = edit[a].new
    <3>1. /\ apc[a] = "save" /\ stored = edit[a].loaded
          /\ "overwrite" \notin mishaps
          /\ \/ stored' = edit[a].loaded
             \/ edit[a].new # NoCredentials /\ stored' = edit[a].new
      BY <1>1, <2>3, UpdateFacts DEF EInv
    <3> QED
      BY <1>1, <3>1 DEF CInv, Authorized, Pending
  <2>4. ASSUME NEW w \in Workers,
               \/ BeginRefresh(w) \/ GetAccessToken(w) \/ LockMutex(w)
               \/ AcquireRefreshLock(w) \/ Reread(w) \/ Refresh(w)
               \/ TryRecoverFromRefreshRace(w) \/ DeleteAccessToken(w)
               \/ Release(w) \/ SetError(w) \/ InvalidateToken(w)
               \/ CheckTokenVersion(w) \/ SetAccessToken(w) \/ WaitForCache(w)
               \/ WaitForRefreshedToken(w) \/ BackfillProject(w) \/ WorkerFails(w)
        PROVE  stored' = stored
    BY <1>1, <2>4 DEF BeginRefresh, GetAccessToken, LockMutex, AcquireRefreshLock,
       Reread, Refresh, TryRecoverFromRefreshRace, DeleteAccessToken, Release,
       SetError, InvalidateToken, CheckTokenVersion, SetAccessToken, WaitForCache,
       WaitForRefreshedToken, BackfillProject, WorkerFails, AcquireFails,
       RefreshFails, PersistFails, BackfillFails, Crash, account
  <2>5. ASSUME NEW a \in Admins,
               \/ EditAccount(a) \/ ApplyOAuthCredentials(a) \/ ManualRefresh(a)
               \/ RefreshSingleAccount(a) \/ LoadAccount(a) \/ ClearError(a)
               \/ AdminInvalidateToken(a)
        PROVE  stored' = stored
    BY <2>5 DEF EditAccount, ApplyOAuthCredentials, ManualRefresh,
       RefreshSingleAccount, LoadAccount, ClearError, AdminInvalidateToken, account
  <2>6. CASE Age \/ Revoke \/ LockExpires \/ LockLapses \/ CacheExpires
    BY <2>6 DEF Age, Revoke, LockExpires, LockLapses, CacheExpires, EndOfTTL,
       account
  <2> QED
    BY <1>1, <2>1, <2>2, <2>3, <2>4, <2>5, <2>6 DEF Next, Proceed, AdminStep
<1>2. EInv /\ CInv /\ [Next]_vars =>
        [ grok /\ "overwrite" \notin mishaps'
          => \/ stored'.token.family = stored.token.family
             \/ \E a \in Admins : apc[a] = "save" /\ edit[a].authorized
                                  /\ stored' = edit[a].new ]_vars
  BY <1>1
<1> QED
  BY <1>2, ExclusionInvariant, CacheInvariant, PTL DEF Spec, AuthorizationIsKept
=============================================================================
