------------------------------ MODULE AutoReset ------------------------------
(***************************************************************************)
(* The automatic reset worker of auto_reset.go: it scans Sub2API for       *)
(* accounts, keeps for each underlying OpenAI account one plan "spend the  *)
(* credit that expires at e, autoResetLeadTime before", and when a plan is *)
(* due confirms account and quota and resets. Around it: the quota cache   *)
(* it shares with the pages, handlers that reset by hand, and Sub2API.     *)
(*                                                                         *)
(* The reset guard appears as what ResetGuard shows of it (one reset at a  *)
(* time and DedupWindow between two, per identity), the cache as its       *)
(* entries: a request and its answer are one step, but time may pass and   *)
(* others may act between any two steps. 0 is Go's zero time.Time.         *)
(***************************************************************************)
EXTENDS Integers, FiniteSets, FiniteSetsExt

CONSTANTS
    Account,        \* Sub2API account IDs, numbers
    IdentityOf,     \* autoResetAccountIdentity of each account
    Credit,         \* reset credits
    OwnerOf,        \* the identity each credit belongs to
    Expiries,       \* when credits may expire; 0: no readable expires_at
    None,           \* absent from a map, nobody
    Concurrency,    \* autoResetDueConcurrency
    Lead,           \* autoResetLeadTime
    ScanInterval,   \* autoResetAccountScanInterval
    ScanRetry,      \* autoResetAccountScanRetry
    Spacing,        \* autoResetInitialQuerySpacing
    RefreshInterval,\* autoResetQuotaRefreshInterval
    QuotaRetry,     \* autoResetQuotaRetryInterval
    VerifyRetry,    \* autoResetVerificationRetry
    PostReset,      \* autoResetPostResetCheck
    DedupWindow,    \* accountResetDedupWindow
    TTL,            \* accountQuotaCacheTTL
    ErrTTL,         \* accountQuotaErrorCacheTTL
    FaultKinds,     \* which requests may fail
    MaxFaults,      \* bound on failed requests
    OutsideKinds,   \* what others may do
    MaxOutside,     \* bound on what others do
    MaxSlow,        \* bound on the clock's steps during the worker's
    MaxClock        \* bound on the clock

\* What the quota cache keeps, a fingerprint of credits, and an
\* autoResetAccountState.
Entry == [credits : {None} \cup SUBSET Credit, until : Nat]
Fingerprints == [count : Nat, times : [Expiries -> Nat]]
Plan == [check : Nat, resetAt : Nat, expiresAt : Expiries \cup {0}, tried : Fingerprints \cup {None}]

ASSUME AutoResetAssumption ==
    /\ Account \subseteq Nat \ {0}
    /\ Expiries \subseteq Nat
    /\ {Lead, ScanInterval, ScanRetry, RefreshInterval, QuotaRetry,
        VerifyRetry, PostReset, TTL, ErrTTL, Concurrency} \subseteq Nat \ {0}
    /\ {Spacing, DedupWindow, MaxFaults, MaxOutside, MaxSlow, MaxClock} \subseteq Nat
    /\ IsFiniteSet(Credit)
    /\ None \notin Account \cup Plan \cup Fingerprints \cup {"auto", "manual", "outside"}
    /\ \A S \in SUBSET Credit : S # None

VARIABLES
    clock,
    eligible,   \* accounts that Sub2API shows as active OAuth parents
    expiry,     \* expires_at of each credit
    spender,    \* who used a credit: "auto", "manual", "outside" or None
    cache,      \* quotaCache.entries: None or [credits, until]
    lastAttempt,\* the guard's stamp of each identity
    manual,     \* the accounts handlers are resetting
    accounts,   \* worker.accounts: None or an autoResetAccountState
    discovery,  \* worker.nextDiscovery
    pc,         \* asleep, scanning, consuming, refreshing or exited
    stepNow,    \* the step's now
    wake,       \* what step returned
    task,       \* consumeExpiringCredit of each account
    due,        \* accounts of dueRefreshes still to do
    published,  \* autoResetPlans
    stopping,   \* workerContext is cancelled
    posted,     \* history: <<account, fingerprint>> of the worker's resets
    known,      \* history: credits the worker has made a plan for
    checked,    \* history: credits with a confirmation within their Lead
    faults, outside, slow   \* used up of MaxFaults, MaxOutside, MaxSlow

sub2api == <<eligible, expiry, spender>>
workerVars == <<accounts, discovery, pc, stepNow, wake, task, due, published>>
history == <<posted, known, checked>>
vars == <<clock, eligible, expiry, spender, cache, lastAttempt, manual, accounts,
          discovery, pc, stepNow, wake, task, due, published, stopping,
          posted, known, checked, faults, outside, slow>>

Identity == {IdentityOf[a] : a \in Account}
NoTask == [at |-> "none", checkedAt |-> 0, expiresAt |-> 0]

\* A plan that is set ends before its credit expires.
PlanOK(s) == s.resetAt # 0 => s.resetAt < s.expiresAt

TypeOK ==
    /\ clock \in Nat \ {0}
    /\ eligible \subseteq Account
    /\ expiry \in [Credit -> Expiries]
    /\ spender \in [Credit -> {None, "auto", "manual", "outside"}]
    /\ cache \in [Account -> Entry \cup {None}]
    /\ lastAttempt \in [Identity -> Nat]
    /\ manual \subseteq Account
    /\ accounts \in [Account -> Plan \cup {None}]
    /\ \A a \in Account : accounts[a] # None => PlanOK(accounts[a])
    /\ pc \in {"asleep", "scanning", "consuming", "refreshing", "exited"}
    /\ {discovery, stepNow, wake} \subseteq Nat
    /\ task \in [Account -> [at : {"none", "queued", "verified", "posting"},
                             checkedAt : Nat, expiresAt : Expiries \cup {0}]]
    /\ due \subseteq Account
    /\ published \subseteq [account : Account, resetAt : Nat, expiresAt : Expiries \cup {0}]
    /\ stopping \in BOOLEAN
    /\ posted \subseteq Account \X Fingerprints
    /\ known \cup checked \subseteq Credit

Init ==
    /\ clock = 1
    /\ eligible = Account
    /\ expiry \in [Credit -> Expiries]
    /\ spender = [k \in Credit |-> None]
    /\ cache = [a \in Account |-> None]
    /\ lastAttempt = [i \in Identity |-> 0]
    /\ manual = {}
    /\ accounts = [a \in Account |-> None]
    /\ discovery = 0
    /\ pc = "asleep"
    /\ stepNow = 0
    /\ wake = 0
    /\ task = [a \in Account |-> NoTask]
    /\ due = {}
    /\ published = {}
    /\ stopping = FALSE
    /\ posted = {} /\ known = {} /\ checked = {}
    /\ faults = 0 /\ outside = 0 /\ slow = 0

-----------------------------------------------------------------------------
(* Sub2API and the network.                                                *)

\* Credits of identity i that Sub2API lists now.
Usable(i) ==
    {k \in Credit : OwnerOf[k] = i /\ spender[k] = None /\ (expiry[k] = 0 \/ clock < expiry[k])}

\* A reset uses up a credit that expires first.
FirstToExpire(i) ==
    {k \in Usable(i) : \A j \in Usable(i) :
        expiry[j] = 0 \/ (expiry[k] # 0 /\ expiry[k] <= expiry[j])}

\* A request fails because of the network or Sub2API (counted) or because
\* its context is cancelled. It succeeds only with a live context: the
\* worker's is cancelled by stopping, a handler's is its own.
Fails(kind, cancelled) ==
    \/ cancelled /\ UNCHANGED faults
    \/ /\ kind \in FaultKinds /\ faults < MaxFaults
       /\ faults' = faults + 1
Succeeds(cancelled) == ~cancelled /\ UNCHANGED faults

Live(a) == cache[a] # None /\ clock < cache[a].until
Kept(credits, ttl) == [credits |-> credits, until |-> clock + ttl]

\* What a quota query for account a can return: credits, or None if it fails.
Results(a) ==
    {None, Usable(IdentityOf[a])} \cup (IF Live(a) THEN {cache[a].credits} ELSE {})

\* queryOpenAIQuota(Fresh) for account a returns S.
QuotaQuery(a, fresh, kind, cancelled, S) ==
    \/ /\ ~fresh /\ Live(a)
       /\ S = cache[a].credits
       /\ UNCHANGED <<cache, faults>>
    \/ /\ fresh \/ ~Live(a)
       /\ S = Usable(IdentityOf[a])
       /\ Succeeds(cancelled)
       /\ cache' = [cache EXCEPT ![a] = Kept(S, TTL)]
    \/ /\ fresh \/ ~Live(a)
       /\ S = None
       /\ Fails(kind, cancelled)
       /\ cache' = [cache EXCEPT ![a] = Kept(None, ErrTTL)]

-----------------------------------------------------------------------------
(* The worker's state and its arithmetic.                                  *)

Tracked == {a \in Account : accounts[a] # None}

\* earliestFutureCreditExpiry of the credits S; 0: does not exist.
EarliestFuture(S, now) ==
    LET E == {expiry[k] : k \in {j \in S : expiry[j] > now}}
    IN IF E = {} THEN 0 ELSE Min(E)

\* resetCreditSnapshotFingerprint: the count and the sorted future expiries.
Fingerprint(S, now) ==
    [count |-> Cardinality(S),
     times |-> [e \in Expiries |-> Cardinality({k \in S : expiry[k] = e /\ e > now})]]

\* Mutants: the target is cleared by half; the snapshot is cleared as well.
ClearHalf(s, check) == [s EXCEPT !.expiresAt = 0, !.check = check]
ClearForgetting(s, check) ==
    [s EXCEPT !.resetAt = 0, !.expiresAt = 0, !.check = check, !.tried = None]

\* clearAutoResetTarget, and the next ordinary query.
Clear(s, check) == [s EXCEPT !.resetAt = 0, !.expiresAt = 0, !.check = check]

\* Mutant: without a credit the next query is not put off.
ScheduledKeeping(s, S, now) ==
    LET e == EarliestFuture(S, now)
    IN IF e = 0 THEN Clear(s, s.check)
       ELSE [s EXCEPT !.check = now + RefreshInterval, !.expiresAt = e,
                      !.resetAt = Max({now, e - Lead})]

\* applyQuotaSchedule.
Scheduled(s, S, now) ==
    LET e == EarliestFuture(S, now)
        check == now + RefreshInterval
    IN IF e = 0 THEN Clear(s, check)
       ELSE [s EXCEPT !.check = check, !.expiresAt = e,
                      !.resetAt = Max({now, e - Lead})]

PlannedFor(S, e) == {k \in S : e # 0 /\ expiry[k] = e}

\* Mutant: a failed confirmation waits for the next ordinary query.
RetriedLate(s, now) == Clear(s, now + QuotaRetry)

\* scheduleVerificationRetry.
Retried(s, now) ==
    IF s.expiresAt > now + VerifyRetry
    THEN [s EXCEPT !.resetAt = now + VerifyRetry, !.check = now + RefreshInterval]
    ELSE Clear(s, now + QuotaRetry)

ResetDue(s, now) == s.resetAt # 0 /\ now >= s.resetAt
CheckDue(s, now) == s.check = 0 \/ now >= s.check

\* Mutant: plans are not looked at.
NextWakeChecks(acc) == Min(({discovery} \cup {acc[a].check : a \in Tracked}) \ {0})

\* nextWake over the accounts acc.
NextWake(acc) ==
    LET times == {discovery} \cup UNION {{acc[a].check, acc[a].resetAt} : a \in Tracked}
    IN IF times \ {0} = {} THEN stepNow + ScanRetry ELSE Min(times \ {0})

\* The tail of step after the scan: acc is split into what is due.
Dispatch(acc, now) ==
    LET known2 == {a \in Account : acc[a] # None} IN
    /\ accounts' = acc
    /\ task' = [a \in Account |->
          IF a \in known2 /\ ResetDue(acc[a], now) THEN [NoTask EXCEPT !.at = "queued"]
          ELSE NoTask]
    /\ due' = {a \in known2 : ~ResetDue(acc[a], now) /\ CheckDue(acc[a], now)}
    /\ pc' = "consuming"

-----------------------------------------------------------------------------
(* The timer fires and step begins; a scan is due or not.                  *)
Wake ==
    /\ pc = "asleep"
    /\ clock >= wake
    /\ stepNow' = clock
    /\ IF discovery = 0 \/ clock >= discovery
       THEN pc' = "scanning" /\ UNCHANGED <<accounts, task, due>>
       ELSE Dispatch(accounts, clock)
    /\ UNCHANGED <<clock, sub2api, cache, lastAttempt, manual, discovery, wake,
                   published, stopping, history, faults, outside, slow>>

\* One account per identity: the first in the list, which is sorted by ID.
Representatives ==
    {a \in eligible : \A b \in eligible : IdentityOf[b] = IdentityOf[a] => a <= b}

\* Mutant: accounts that are gone from the list are kept.
DiscoveredKeeping ==
    [a \in Account |->
        IF a \in Representatives /\ a \notin Tracked
        THEN [check |-> stepNow, resetAt |-> 0, expiresAt |-> 0, tried |-> None]
        ELSE accounts[a]]

\* discoverAccounts: representatives stay or enter, everybody else leaves.
\* New ones get their first query in batches of Concurrency.
Discovered ==
    LET new == Representatives \ Tracked
        batch(a) == Cardinality({b \in new : b < a}) \div Concurrency
    IN [a \in Account |->
          IF a \notin Representatives THEN None
          ELSE IF a \in new
               THEN [check |-> stepNow + batch(a) * Spacing,
                     resetAt |-> 0, expiresAt |-> 0, tried |-> None]
               ELSE accounts[a]]

(* discoverAccounts with a complete list.                                  *)
ScanOk ==
    /\ pc = "scanning"
    /\ Succeeds(stopping)
    /\ Dispatch(Discovered, stepNow)
    /\ discovery' = stepNow + ScanInterval
    /\ posted' = {p \in posted : p[1] \in Representatives}
    /\ UNCHANGED <<clock, sub2api, cache, lastAttempt, manual, stepNow, wake,
                   published, stopping, known, checked, outside, slow>>

(* discoverAccounts with a failed request: the old accounts stay.          *)
ScanFail ==
    /\ pc = "scanning"
    /\ Fails("scan", stopping)
    /\ Dispatch(accounts, stepNow)
    /\ discovery' = stepNow + ScanRetry
    /\ UNCHANGED <<clock, sub2api, cache, lastAttempt, manual, stepNow, wake,
                   published, stopping, history, outside, slow>>

-----------------------------------------------------------------------------
(* consumeExpiringCredit. What the worker itself does not touch:           *)
Working ==
    UNCHANGED <<clock, sub2api, manual, discovery, pc, stepNow, wake, due,
                published, stopping, outside, slow>>

Active == {a \in Account : task[a].at \in {"verified", "posting"}}

\* The task of a ends with state s.
Done(a, s) ==
    /\ accounts' = [accounts EXCEPT ![a] = s]
    /\ task' = [task EXCEPT ![a] = NoTask]

\* Credits of a that are within Lead of their expiry.
Expiring(a) == {k \in Usable(IdentityOf[a]) : expiry[k] # 0 /\ expiry[k] <= clock + Lead}

(* The semaphore, then the account is loaded: an error, not the account    *)
(* the worker wants any more, or on to the confirmation.                   *)
VerifyAccount(a) ==
    /\ task[a].at = "queued"
    /\ Cardinality(Active) < Concurrency
    /\ \/ /\ Fails("verify", stopping)
          /\ Done(a, Retried(accounts[a], clock))
       \/ /\ Succeeds(stopping)
          /\ a \notin eligible
          /\ Done(a, Clear(accounts[a], clock + RefreshInterval))
       \/ /\ Succeeds(stopping)
          /\ a \in eligible
          /\ task' = [task EXCEPT ![a].at = "verified"]
          /\ UNCHANGED accounts
    /\ checked' = checked \cup Expiring(a)
    /\ UNCHANGED <<cache, lastAttempt, posted, known>>
    /\ Working

\* The guard's lock of identity i is free; a stamp is recent.
Unlocked(i) ==
    /\ \A a \in manual : IdentityOf[a] # i
    /\ \A a \in Account : task[a].at = "posting" => IdentityOf[a] # i
TooRecent(i) == lastAttempt[i] # 0 /\ clock - lastAttempt[i] < DedupWindow

\* What the worker does with the credits S it reads under the lock.
Decide(a, S) ==
    LET s == accounts[a]
        i == IdentityOf[a]
        e == EarliestFuture(S, clock)
        print == Fingerprint(S, clock)
    IN
    \/ /\ S = None
       /\ Done(a, Retried(s, clock))
       /\ UNCHANGED <<lastAttempt, history>>
    \/ /\ S # None
       /\ e = 0 \/ e > clock + Lead
       /\ Done(a, Scheduled(s, S, clock))
       /\ known' = known \cup PlannedFor(S, e)
       /\ UNCHANGED <<lastAttempt, posted, checked>>
    \/ /\ S # None
       /\ e # 0 /\ e <= clock + Lead
       /\ s.tried = print \/ TooRecent(i)
       /\ Done(a, Clear(s, clock + PostReset))
       /\ UNCHANGED <<lastAttempt, history>>
    \/ /\ S # None
       /\ e # 0 /\ e <= clock + Lead
       /\ s.tried # print /\ ~TooRecent(i)
       /\ lastAttempt' = [lastAttempt EXCEPT ![i] = clock]
       /\ accounts' = [accounts EXCEPT ![a].tried = print]
       /\ task' = [task EXCEPT ![a] = [at |-> "posting", checkedAt |-> clock, expiresAt |-> e]]
       /\ posted' = posted \cup {<<a, print>>}
       /\ UNCHANGED <<known, checked>>

\* Mutant: the confirmation is served from the cache.
ConfirmCached(a) ==
    /\ task[a].at = "verified"
    /\ Unlocked(IdentityOf[a])
    /\ \E S \in Results(a) : QuotaQuery(a, FALSE, "verify", stopping, S) /\ Decide(a, S)
    /\ Working

(* Under the lock: queryOpenAIQuotaFresh and the decision, up to the POST. *)
Confirm(a) ==
    /\ task[a].at = "verified"
    /\ Unlocked(IdentityOf[a])
    /\ \E S \in Results(a) : QuotaQuery(a, TRUE, "verify", stopping, S) /\ Decide(a, S)
    /\ Working

\* A POST for identity i by who: it may reach Sub2API and its answer may
\* come back; it fails if there is nothing to use.
Post(i, who, came, cancelled) ==
    \/ /\ IF came THEN Succeeds(cancelled) ELSE Fails("post", cancelled)
       /\ \E k \in FirstToExpire(i) : spender' = [spender EXCEPT ![k] = who]
    \/ /\ ~came
       /\ Fails("post", cancelled) \/ (Usable(i) = {} /\ Succeeds(cancelled))
       /\ UNCHANGED spender

Invalidated(a, came) == IF came THEN [cache EXCEPT ![a] = None] ELSE cache

(* performOpenAIQuotaReset and finishAttempt; the task ends either way.    *)
AutoPost(a) ==
    LET i == IdentityOf[a] IN
    /\ task[a].at = "posting"
    /\ \E came \in BOOLEAN :
          /\ Post(i, "auto", came, stopping)
          /\ cache' = Invalidated(a, came)
    /\ lastAttempt' = [lastAttempt EXCEPT ![i] = clock]
    /\ Done(a, Clear(accounts[a], task[a].checkedAt + PostReset))
    /\ UNCHANGED <<clock, eligible, expiry, manual, discovery, pc, stepNow, wake, due,
                   published, stopping, history, outside, slow>>

(* A task that waits for the semaphore returns when the context is done.   *)
Abandon(a) ==
    /\ task[a].at = "queued"
    /\ pc = "consuming"
    /\ stopping
    /\ task' = [task EXCEPT ![a] = NoTask]
    /\ UNCHANGED <<accounts, cache, lastAttempt, history, faults>>
    /\ Working

Idle == \A a \in Account : task[a] = NoTask

(* waitGroup.Wait() returns; with a cancelled context there will be no     *)
(* refresh.                                                                *)
ConsumingEnds ==
    /\ pc = "consuming"
    /\ Idle
    /\ pc' = "refreshing"
    /\ due' = IF stopping THEN {} ELSE due
    /\ UNCHANGED <<clock, sub2api, cache, lastAttempt, manual, accounts, discovery,
                   stepNow, wake, task, published, stopping, history,
                   faults, outside, slow>>

(* refreshQuota of the next account in order, followed by                  *)
(* consumeExpiringCredit if the plan it made is due already. A query that  *)
(* was under way when the context was cancelled fails and is the last.     *)
Refresh(a) ==
    /\ pc = "refreshing"
    /\ Idle
    /\ a \in due /\ \A b \in due : a <= b
    /\ due' = IF stopping THEN {} ELSE due \ {a}
    /\ \E S \in Results(a) :
       /\ stopping => S = None
       /\ LET s == IF S = None
                   THEN [accounts[a] EXCEPT !.resetAt = 0, !.check = clock + QuotaRetry]
                   ELSE Scheduled(accounts[a], S, clock)
          IN /\ QuotaQuery(a, FALSE, "refresh", stopping, S)
             /\ accounts' = [accounts EXCEPT ![a] = s]
             /\ task' = IF ResetDue(s, clock)
                        THEN [task EXCEPT ![a].at = "queued"] ELSE task
             /\ known' = IF S = None THEN known
                         ELSE known \cup PlannedFor(S, s.expiresAt)
    /\ UNCHANGED <<clock, sub2api, lastAttempt, manual, discovery, pc, stepNow, wake,
                   published, stopping, posted, checked, outside, slow>>

(* The loop ends, publishSchedule and nextWake; a wake in the past is due  *)
(* at once.                                                                *)
StepEnds ==
    /\ pc = "refreshing"
    /\ Idle
    /\ due = {} \/ stopping
    /\ due' = {}
    /\ published' = {[account |-> a, resetAt |-> accounts[a].resetAt,
                      expiresAt |-> accounts[a].expiresAt] :
                        a \in {b \in Tracked : accounts[b].resetAt # 0}}
    /\ wake' = NextWake(accounts)
    /\ pc' = "asleep"
    /\ UNCHANGED <<clock, sub2api, cache, lastAttempt, manual, accounts, discovery,
                   stepNow, task, stopping, history, faults, outside, slow>>

\* Mutant: the context is only looked at when the timer fires.
ExitOnTimer ==
    /\ pc = "asleep"
    /\ stopping /\ clock >= wake
    /\ pc' = "exited"
    /\ published' = {}
    /\ UNCHANGED <<clock, sub2api, cache, lastAttempt, manual, accounts, discovery,
                   stepNow, wake, task, due, stopping, history, faults, outside, slow>>

(* runAutoResetCredits returns; the deferred replace(nil).                 *)
Exit ==
    /\ pc = "asleep"
    /\ stopping
    /\ pc' = "exited"
    /\ published' = {}
    /\ UNCHANGED <<clock, sub2api, cache, lastAttempt, manual, accounts, discovery,
                   stepNow, wake, task, due, stopping, history, faults, outside, slow>>

-----------------------------------------------------------------------------
(* Everybody else.                                                         *)
Outside(kind) ==
    /\ kind \in OutsideKinds
    /\ outside < MaxOutside
    /\ outside' = outside + 1
    /\ UNCHANGED <<clock, workerVars, history, slow>>

(* A handler's resetOpenAIQuota passes the guard; its POST is on its way,  *)
(* one for each identity at a time.                                        *)
ManualBegin(a) ==
    LET i == IdentityOf[a] IN
    /\ Unlocked(i)
    /\ ~TooRecent(i)
    /\ manual' = manual \cup {a}
    /\ lastAttempt' = [lastAttempt EXCEPT ![i] = clock]
    /\ Outside("manual")
    /\ UNCHANGED <<sub2api, cache, stopping, faults>>

\* Mutant: the lock is not released.
ManualEndHolding(a) ==
    /\ a \in manual
    /\ Post(IdentityOf[a], "manual", TRUE, FALSE)
    /\ cache' = Invalidated(a, TRUE)
    /\ lastAttempt' = [lastAttempt EXCEPT ![IdentityOf[a]] = clock]
    /\ UNCHANGED <<clock, eligible, expiry, manual, workerVars, stopping, history, outside, slow>>

(* The handler's POST ends.                                                *)
ManualEnd(a) ==
    LET i == IdentityOf[a] IN
    /\ a \in manual
    /\ \E came \in BOOLEAN :
          /\ Post(i, "manual", came, FALSE)
          /\ cache' = Invalidated(a, came)
    /\ lastAttempt' = [lastAttempt EXCEPT ![i] = clock]
    /\ manual' = manual \ {a}
    /\ UNCHANGED <<clock, eligible, expiry, workerVars, stopping, history, outside, slow>>

(* A page asks for the quota of a through the shared cache.                *)
PageQuery(a) ==
    /\ ~Live(a)
    /\ \E S \in Results(a) : QuotaQuery(a, FALSE, "page", FALSE, S)
    /\ Outside("page")
    /\ UNCHANGED <<sub2api, lastAttempt, manual, stopping>>

(* An administrator uses a credit in Sub2API itself.                       *)
AdminUse(i) ==
    /\ \E k \in FirstToExpire(i) : spender' = [spender EXCEPT ![k] = "outside"]
    /\ Outside("use")
    /\ UNCHANGED <<eligible, expiry, cache, lastAttempt, manual, stopping, faults>>

(* An administrator disables or enables an account.                        *)
Toggle(a) ==
    /\ eligible' = IF a \in eligible THEN eligible \ {a} ELSE eligible \cup {a}
    /\ Outside("toggle")
    /\ UNCHANGED <<expiry, spender, cache, lastAttempt, manual, stopping, faults>>

(* stopWorkers(). While a refresh's reset is in hand, no further refresh   *)
(* will begin; a query may be under way otherwise.                         *)
Stop ==
    /\ "stop" \in OutsideKinds
    /\ outside < MaxOutside
    /\ outside' = outside + 1
    /\ ~stopping
    /\ stopping' = TRUE
    /\ due' = IF Idle THEN due ELSE {}
    /\ UNCHANGED <<clock, sub2api, cache, lastAttempt, manual, accounts, discovery, pc,
                   stepNow, wake, task, published, history, faults, slow>>

(* Time passes. The timer is on time; a step takes no time but MaxSlow.    *)
Tick ==
    /\ clock < MaxClock
    /\ clock' = clock + 1
    /\ \/ pc = "exited" /\ UNCHANGED slow
       \/ pc = "asleep" /\ clock < wake /\ UNCHANGED slow
       \/ pc \notin {"exited", "asleep"} /\ slow < MaxSlow /\ slow' = slow + 1
    /\ UNCHANGED <<sub2api, cache, lastAttempt, manual, workerVars, stopping,
                   history, faults, outside>>

Worker ==
    \/ Wake \/ ScanOk \/ ScanFail \/ ConsumingEnds \/ StepEnds \/ Exit
    \/ \E a \in Account :
          VerifyAccount(a) \/ Confirm(a) \/ AutoPost(a) \/ Abandon(a) \/ Refresh(a)

Environment ==
    \/ \E a \in Account : ManualBegin(a) \/ ManualEnd(a) \/ PageQuery(a) \/ Toggle(a)
    \/ Stop \/ Tick
    \/ \E i \in Identity : AdminUse(i)

Next == Worker \/ Environment

Spec == Init /\ [][Next]_vars

(* The runtime runs the worker's goroutines, requests end by               *)
(* client.Timeout, handlers too; nobody is obliged to act from outside.    *)
(* The timer sleeps a second at least, so a cancelled context is what the  *)
(* loop's select sees first, sooner or later.                              *)
Fairness ==
    /\ WF_vars(Worker)
    /\ \A a \in Account : WF_vars(ManualEnd(a))
    /\ SF_vars(Exit)

FairSpec == Spec /\ Fairness

-----------------------------------------------------------------------------
(* An automatic reset uses up a credit that was within Lead of its expiry  *)
(* when the worker confirmed it; anything else takes an administrator, or  *)
(* the confirmed credit's own expiry, between confirmation and POST        *)
(* (README: only confirmed, soon expiring credits are consumed; the one    *)
(* window left is the administrator's).                                    *)
SpendsOnlyExpiring ==
    [][\A a \in Account, k \in Credit :
          (/\ task[a].at = "posting"
           /\ OwnerOf[k] = IdentityOf[a]
           /\ spender[k] = None /\ spender'[k] = "auto")
             => \/ expiry[k] # 0 /\ expiry[k] <= task[a].checkedAt + Lead
                \/ clock >= task[a].expiresAt
                \/ \E j \in Credit :
                      /\ OwnerOf[j] = OwnerOf[k]
                      /\ expiry[j] = task[a].expiresAt
                      /\ spender[j] = "outside"]_vars

(* While an account is scheduled, the worker never sends a second reset    *)
(* for a snapshot of its credits it has already sent one for, whatever     *)
(* became of the first (README: no resubmission of the same reset).        *)
OneAttemptPerSnapshot ==
    [][\A a \in Account :
          task[a].at # "posting" /\ task'[a].at = "posting" => posted' # posted]_vars

(* Two accounts of one underlying OpenAI account are never both scheduled, *)
(* also not when the one that was goes away and comes back (README: only   *)
(* one of them is scheduled).                                              *)
OneTrackedPerIdentity ==
    \A a, b \in Tracked : IdentityOf[a] = IdentityOf[b] => a = b

(* As long as the worker sleeps, every plan the pages show is still ahead  *)
(* and ends before its credit expires.                                     *)
PlansAreLive ==
    pc = "asleep" /\ clock < wake =>
        \A p \in published : clock < p.resetAt /\ p.resetAt < p.expiresAt

(* A step takes care of everything that was due when it began: it never    *)
(* asks to be called again for that moment or an earlier one.              *)
NoSpinning == pc = "asleep" /\ stepNow # 0 /\ ~stopping => wake > stepNow

\* What the pages' handlers and the worker show of an identity's resets:
\* one is on its way (-2), none has been yet (-1), or when the last ended.
LastReset == [i \in Identity |->
    IF ~Unlocked(i) THEN -2 ELSE lastAttempt[i] - 1]

Guard == INSTANCE SpacedResets WITH
    Window <- DedupWindow, Never <- -1, Busy <- -2, MaxClock <- MaxClock - 1,
    clock <- clock - 1, account <- LastReset

(* Handlers and worker together keep what the guard promises: one reset of *)
(* an identity at a time and DedupWindow between two of them.              *)
ResetsSpaced == Guard!Spec

OwnedBy(i) == {k \in Credit : OwnerOf[k] = i}

\* When Lead is enough. Answers come in time and only confirmations fail;
\* the worker runs, accounts stay as they are; after the first query of an
\* account there is time for Lead; and Lead covers the pauses between the
\* resets of all credits of an identity and every retried confirmation.
Timely ==
    /\ MaxSlow = 0
    /\ FaultKinds \subseteq {"verify"}
    /\ OutsideKinds \subseteq {"manual", "page", "use"}
    /\ IsFiniteSet(Account)
    /\ \A k \in Credit : OwnerOf[k] \in Identity
    /\ DedupWindow <= PostReset /\ VerifyRetry <= RefreshInterval
    /\ \A e \in Expiries \ {0} : Cardinality(Account) * Spacing + Lead < e
    /\ \A i \in Identity :
          (Cardinality(OwnedBy(i)) - 1) * PostReset + MaxFaults * VerifyRetry < Lead

(* No credit expires unused: when everything is Timely, Lead is enough for *)
(* failed confirmations, for resets by others and for several credits with *)
(* one expiry.                                                             *)
NoCreditLapses ==
    \A k \in Credit : expiry[k] # 0 /\ clock >= expiry[k] => spender[k] # None

(* Every step of the worker comes to an end, whoever holds the guard's     *)
(* lock and whatever fails.                                                *)
StepsEnd == pc # "asleep" ~> pc \in {"asleep", "exited"}

(* Once its context is cancelled the worker returns.                       *)
WorkerStops == stopping ~> pc = "exited"

(* README.md: 10 minutes before a credit that the worker has read expires, *)
(* account and quota are confirmed.                                        *)
KnownExpiryIsConfirmed ==
    \A k \in known : clock >= expiry[k] /\ spender[k] = None => k \in checked

=============================================================================
