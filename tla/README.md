# Verification of sub2api-accountinfo

sub2api-accountinfo is a small Go service beside Sub2API. It shows users the
OpenAI accounts of their subscription groups, lets some of them reset an
account's rate limit by spending a reset credit, and can spend credits by
itself shortly before they expire. This directory holds TLA+ models of its
concurrent core, TLC configurations that check them on small instances, and
TLAPS proofs of what holds for every instance.

## 1. Inventory

| Part | State | Operations | Talks to |
|---|---|---|---|
| Reset guard (`reset_guard.go`) | map identity -> state object; per object a mutex and `lastAttempt` | `withIdentity`, `beginAttempt`, `finishAttempt` | called by handlers and worker tasks; holds its lock over Sub2API requests |
| Quota cache (`quota_cache.go`) | per account an entry, a flight, a version | `load`, `invalidate`, `queryOpenAIQuota(Fresh)`, `resetOpenAIQuota` | called by handlers and worker; asks Sub2API |
| Reset worker (`auto_reset.go`) | per account `nextQuotaCheck`, `resetAt`, `expiresAt`, `lastAttemptFingerprint`; `nextDiscovery`; published plans | `step`: scan, due resets (8 at once), refreshes one by one, publish, next wake-up | guard, cache, Sub2API; plans are read by the dashboard |
| Usage statistics cache (`user_usage_stats_cache.go`) | per key an entry and a flight, flights may be forced | `load` | dashboard requests |
| Usage windows (`usage_window_stats.go`) | none (pure) | window arithmetic, page sizes, boundary search, sums of usage records | Sub2API's paged usage log |
| Sub2API client, dashboard (`sub2api.go`) | none of its own; four goroutines at a time per dashboard request | authentication, groups, accounts, usage of each account, rights | Sub2API |
| HTTP server (`server.go`) | none | dashboard, quota, reset | all of the above |
| Page (`web/app.js`) | token, dashboard data, per account buttons and pending requests | load, refresh, query quota, confirm, reset | the server, by overlapping `fetch` calls |
| Life cycle (`main.go`) | worker context, server | start, signal, `Shutdown` | worker, server |
| Configuration (`config.go`) | constants | read once | everybody |

How they interact. Handlers and the worker share the guard (by OpenAI
identity: several account IDs can be one OpenAI account) and the quota cache
(by account ID). A reset invalidates the cache of the ID it went through. The
worker confirms a due plan with a fresh, cache-bypassing query while it holds
the guard, and posts under the same lock. Plans are published for the
dashboard at the end of each step.

What is hard: callers of one identity racing through a map, a lock and two time
stamps; shared requests that end after what they read was invalidated; the
worker's deadlines (a ten minute lead, retries of 2, 5 and 30 minutes, 6 hour
refreshes, a scan every 15 minutes) under failures and under interference by
handlers, pages and administrators; answers that are lost after Sub2API has
acted; stops in the middle of a step. `PROJECT.json` lists each hazard at its
line with the property that covers it or the reason none does yet.

What makes the parts correct:

- guard: one reset per identity at a time, a minute between the end of one and
  the start of the next, nobody blocked for good;
- cache: an answer is never older than the last invalidation before the
  question; one request per account and version; everybody is woken;
- worker: spends only credits it has just confirmed to be about to expire,
  tries no snapshot twice, schedules one account per identity, lets no credit
  lapse when Sub2API answers, shows only plans that lie ahead, ends its steps
  and stops;
- usage caches and windows: forced loads are forced, sums count every record in
  the window once and are refused rather than wrong;
- account API: a credit is spent only for somebody who was entitled to it since
  the request came, nobody entitled is turned away, every request is answered;
- dashboard: every account is shown with its usage or an error, and goroutines
  that wait for one another's statistics never wait in a circle;
- page: two confirmations for every reset, never an older dashboard over a newer
  one, the outcome of a reset is shown; life cycle: requests in progress are
  finished.

## 2. Modules

| Module | Models | Remarks |
|---|---|---|
| `SpacedResets` | what the guard promises | abstract specification |
| `ResetGuard` | `reset_guard.go` and its callers | refines `SpacedResets` |
| `ResetGuardProofs` | | theorems of `ResetGuard` |
| `FreshAnswers` | what the quota cache promises | abstract specification |
| `QuotaCache` | `quota_cache.go` and its callers | refines `FreshAnswers` |
| `QuotaCacheProofs` | | theorems of `QuotaCache` |
| `RecentLoads` | what the usage statistics cache promises | abstract specification |
| `UserUsageCache` | `user_usage_stats_cache.go` and its caller | refines `RecentLoads` |
| `UserUsageCacheProofs` | | theorems of `UserUsageCache` |
| `UsageSums` | additions, subtraction, aggregate and share of `usage_window_stats.go` | operators only |
| `UsageWindow` | window, aggregate, boundary and paging of `usage_window_stats.go` | one request against a growing log; combines with `UsageSums` |
| `UsageWindowProofs` | | theorems of `UsageWindow` and `UsageSums` |
| `AccountRequest` | `handleAccountAPI` (`server.go`) with authentication, groups, account lists and rights (`sub2api.go`) and the guard | check, wait, act |
| `AccountRequestProofs` | | theorems of `AccountRequest` |
| `Dashboard` | `loadDashboard`, `loadAccountUsage` (`sub2api.go`), `enrichAccountUsageForUser` and the flights of `user_usage_stats_cache.go` | composition: goroutines of several requests |
| `DashboardProofs` | | theorems of `Dashboard` |
| `Page` | `web/app.js` | overlapping callbacks |
| `PageProofs` | | theorems of `Page` |
| `LifeCycle` | `main.go` | signal, `Shutdown`, exit |
| `AutoReset` | `auto_reset.go` with the guard, the cache, handlers, pages and Sub2API around it | composition; its guard refines `SpacedResets` |
| `AutoResetProofs` | | theorems of `AutoReset` |
| `MC*` | | instances for TLC; `MCAutoResetDeadline` is `MCAutoReset` with constants that must be `Timely` |

**ResetGuard.** A caller resolves an identity, looks the state object up (under
`coordinator.mutex`, hence one step), queues for the object's mutex, and inside
is refused (`RejectAttempt`), leaves (`Decline`, the worker only) or stamps and
posts (`BeginAttempt`, `FinishAttempt`). Pointers are kept: `stateOf` is the
map, `ref` what a caller works on. `Lock` waits in any order.

**QuotaCache.** `load` is cut where it releases `cache.mutex`: `Hit`, `Join`
or `Lead`, then `Fetch` (the request), then `Publish`; followers `Wake` or
`GiveUp`. `invalidate` is `Drop`; a fresh query drops and then loads like any
other, two steps with room for others in between. Quotas are abstracted to a
number that grows with every change at Sub2API, which is all that "stale"
means. `floor`, `since` and `begun` are history variables.

**AutoReset.** `Wake` starts a step, `ScanOk`/`ScanFail` are
`discoverAccounts`, `Dispatch` (part of these actions) splits accounts into due
resets and due refreshes; a task goes through `VerifyAccount`, `Confirm` and
`AutoPost`; `Refresh` is `refreshQuota` and starts a task when the plan it made
is due at once; `StepEnds` publishes and computes the wake-up. A request and
its answer are one step, but time, handlers (`ManualBegin`, `ManualEnd`), pages
(`PageQuery`), administrators (`AdminUse`, `Toggle`) and `Stop` may come
between any two steps. `manual` holds the accounts whose handlers have a POST under way,
one for each identity at a time, as the guard allows. After a `Stop` a query of
`refreshQuota` that is under way fails and no further refresh begins. The guard appears as mutual exclusion and the dedup
window per identity, which is what `ResetGuardProofs` establishes: both modules
implement `SpacedResets` (`GuardKept`, section 4); the cache as its entries. A POST has
three outcomes: done, done but the answer is lost, not done. Sub2API itself is external: it is assumed to spend a credit that expires
first. `posted`, `known` and `checked` are history variables.

**UserUsageCache.** `load` again: `Join`, `Hit` or `Lead` (each sweeps out every
expired entry first, `Kept`), the loader, `Publish`; `Wake` sends a forced
follower of an ordinary flight back to the start. An answer is the number of
the load it comes from, so "never older" and "forced" can be said of it;
`loads`, `since` and `at` are history. `RecentLoads` has no entries or flights:
loads come one after the other, and `Answers` says which may answer what and, from
the two lifetimes themselves, for how long.

**UsageWindow.** `Resolve` is `resolveAccountUsageWindows` and the choice in
`fetchUserWindowStats`: start of day (`exact`), short `prefix` to subtract,
short `suffix` to add. `Aggregate` is the request for whole days, `ReadPage`
one page of the log: `RetrySmaller`, `ReadItems` or a failure. A record is its
creation time and the log a set of times, so `Items` is a page by rank.
Between any two requests a record may be logged (`Use`), which shifts the
pages of a descending reading; an ordinary aggregate may be an older one. The
number of requests stands for all statistics, and is combined with the checked
`Plus` and `Minus` of `UsageSums`.

**UsageSums.** `Accumulate`, `Add`, `Subtract`, `FromAggregate` and `Share` are
the functions of those names, with a largest integer and a largest amount; a sum
that does not fit is `Failed`, and so is a difference that would be negative
(for costs, by more than the tolerance).

**AccountRequest.** A handler goes through `Receive` (path, method, token
header), `Authenticate`, `LoadSubscribedGroups`, `ReadPage` (one page of one
group's list, to the last page as `Last` sees it), `LoadDefinitions` and
`LoadValues` (only when `ALLOW_RESET` does not grant the right to all),
`LoadAccount`, `Begin` (the guard's lock, refusal or stamp), `Send`,
and `Return`. Each is one answer of Sub2API; `Change` stands for what
administrators do between any two of them: `ToggleToken`,
`ToggleSubscription`, `ToggleAttribute`, `ToggleGrant`, `JoinGroup`,
`LeaveGroup`. A list changes under the offset of its reader. `ever` and
`always` record which facts held at some, and at every, moment since the
request came; `shifted` records lists that moved under their reader.

**Dashboard.** `Prepare` stands for what precedes the loading and ends with the
visible accounts. Each of them gets a goroutine: `Acquire` or `Abandon` at the
semaphore, `QueryUsage`, then window by window `Hit`, `Join` or `Lead` of
`UserUsageCache`, `Load` or `Wake`, and `Complete`. Clients may go away
(`Disconnect`): the handler's goroutines then fail or give up, and a leader
that goes away fails its followers as well. The detail of the cache (lifetimes,
sweeps, versions) is in `UserUsageCache`; here it is a flight and an entry that
may expire.

**Page.** A step is a callback up to its next `await`. `Refresh` and
`LoadEnds` are `loadDashboard`, `Query` and `QueryEnds` the quota button,
`ClickReset`, `Accept`, `Cancel` and `PostEnds` the reset button through its
two dialogs. Replacing the dashboard replaces its cards; callbacks that still
run for an old card (`orphans`, `attached`) change nothing visible.

**LifeCycle.** Two goroutines: `MainReturns` follows the closing of the
listener; `Signal`, `StopWorkers`, `Shutdown`, `ShutdownReturns` are the
other's. When main returns everything else ends.

Operators marked "Mutant" are plausible bugs. Nothing uses them; each replaces
one definition to see that a property notices.

## 3. Runs

| Run | Shows |
|---|---|
| `guard` | type invariant, `OneResetInFlight`, `ConfirmedUndisturbed`, the refinement `ResetsSpaced`, and `CallersReturn` (no path keeps the lock), for two handlers, one worker task, two identities |
| `cache` | type invariant, `CacheSinceInvalidation`, `OneFetchPerVersion`, the refinement `AnswersFresh`, and `QueriesAnswered` (followers are always woken), for two readers |
| `user_usage_cache` | type invariant, `OneLoadPerKey`, the refinement `AnswersRecent`, and `StatsAnswered`, for two readers |
| `usage_window` | `WindowCoversRequest`, `NothingMissed`, `ExcessBounded`, `FetchEnds`; the type invariant includes that statistics are in range. Its instance also evaluates `AddSubtract` and `SharesInRange` on sample sums |
| `account_request` | `ResetsAuthorized`, `RefusalsJustified`, `RequestsEnd` for two tabs of one user, two groups, two accounts of one identity |
| `dashboard` | `FlightsLed` (nobody waits for a flight that has no leader), `AnswersComplete`, `DashboardsAnswered` for two requests of one user with two accounts each; the type invariant includes that semaphores count exactly the goroutines at work |
| `page` | `ResetsConfirmed`, `ShownNeverOlder`, `OutcomesShown` for two accounts and two clicks on reset buttons |
| `worker_deadline` | `NoCreditLapses`, `PlansAreLive`, `NoSpinning` with one failed confirmation and two interferences; the instance also evaluates `Timely`, the hypothesis of the theorem `NoLapse` |
| `worker_sharing` | `SpendsOnlyExpiring`, `OneAttemptPerSnapshot`, `OneTrackedPerIdentity` for two accounts of one identity |
| `worker_liveness` | `StepsEnd`, `WorkerStops` |
| `worker_refresh_failure` | expected violation, see section 6 |
| `shutdown_drain` | expected violation, see section 6 |

Bounds. *Guard*: with three callers two can contend while the third works for
the other identity; `Window = 2` and a clock up to 4 let a window close and
another open. *Cache*: a flight goes stale when another reader invalidates and
leads the next one; two readers suffice for an old and a new flight with
different answers, and the proofs cover any number; `TTL = 2`, `ErrTTL = 1` and a
clock up to 2 let both kinds of entry live and die. One account is enough
because no operation touches two. *Worker*: a tick is 2.5 minutes; `MCAutoReset` gives the
scaled intervals, in the order of the real ones; `RefreshInterval` is cut to 16
ticks, still the longest. `Concurrency = 1` makes two due tasks wait for each other
and gives each new account a batch of its own. Credits expire at ticks just
beyond the first lead (7, 8), so that planning, waiting, confirmation and a
second credit of the same expiry all happen, or have no readable `expires_at`
(0). `MaxFaults`, `MaxOutside` and `MaxSlow` bound failed requests, other
people's actions, and clock steps during the worker's own steps. In
`worker_sharing` the clock goes beyond the third scan (13), so an account can
leave, be replaced and come back.

*Usage cache*: with three loads a forced reader can meet an ordinary load, wake,
meet another one (a failed load expires after one tick) and then load itself;
the proofs cover more readers and keys. *Usage window*: a day of 6 ticks and a
window of 10 put the window's start at every position of a day, in three
days; six old records and up to three new ones against page sizes 4, 2, 1 and
a limit of 3 records let pages shift, shrink and run into the limit; with
`MaxInt = 9` and nine records only a faulty sum goes beyond it. Two records
never have the same time.

*Account request*: `PageSize = 1` puts the wanted account on the second page of
one group and makes it absent from the other, so that a list can shift under
its reader; one upset (`MaxUpsets`: a change at Sub2API, a failed request of a
client that waits, or a client that goes away) at any moment is enough for every
refusal to be right or wrong, and two tabs for one to wait behind the other.
*Dashboard*: `Concurrency = 1` is the strictest semaphore: a goroutine that
waits for the other request keeps the only place; with two requests and two
accounts a circle of waiting could close. One window per account is enough, for a
goroutine deals with one at a time and takes nothing of it along; two upsets
let a leader fail and a client go away. Requests come once. *Page*: three loads
let a second and a third one overlap clicks, dialogs and reloads. Accounts and
clicks are interchangeable, and the symmetry is sound because the run checks
safety only. *Life cycle*: two requests and a grace of two ticks; the violation
needs one of each.

`CHECK_DEADLOCK FALSE` is set for `user_usage_cache` and `page`, where nobody asks
any more once `MaxLoads` is reached (that questions end is `StatsAnswered`), for
`dashboard`, whose requests come once (`DashboardsAnswered`), for `shutdown_drain`,
where the process exits, and for the worker, because it may stop for good
(`Exit`); that it does not block elsewhere is `StepsEnd`. The other runs check
deadlock.

Fairness. Guard and caches: every goroutine keeps running and every request
ends, because `http.Client` has a timeout; `Lock` is strongly fair because
`sync.Mutex` hands the lock to a waiter it has starved. `GiveUp` is not fair:
followers must be woken without their own deadline. Worker: weak fairness of
its steps and of the return of each handler's POST; strong fairness of `Exit` because the
loop sleeps at least a second and so finds the cancelled context ready first.
The requests of `UsageWindow` and `AccountRequest` end by the client's timeout;
a handler's `Begin` is strongly fair like the guard's `Lock`. `Dashboard`: each
goroutine keeps running; `Abandon` and `GiveUp` are not fair, because a client
need not go away. Requests come once there because nothing in the code keeps
an endless stream of ordinary loads from overtaking a forced follower again and
again. Nothing is assumed of time, pages or administrators.

## 4. Proofs

`ResetGuardProofs`, for any sets of callers, identities and objects, any window
and clock bound, from `GuardAssumption` (markers are distinct from objects,
callers and numbers). `OneResetInFlight` is not inductive: it needs that a
mutex is held by exactly the caller that is inside with it (`HolderInside`),
that no object stands for two identities (`ObjectsDistinct`), and that whoever
has looked its identity up works on the object the map holds now
(`RefCurrent`). From their conjunction with `TypeOK` follow `Exclusion`,
`Undisturbed` (an action property) and `Spacing`, the step simulation of
`SpacedResets`: `BeginAttempt` maps to `Start`, `FinishAttempt` to `Finish`,
the clock to the clock, everything else to a stutter.

`QuotaCacheProofs`, from `CacheAssumption` (lifetimes and bounds are natural
numbers, `ErrTTL <= TTL`, markers are distinct from data). The invariant says
that a flight of the present version began at the present floor and an older
one earlier (`FlightsSound`), that a reader's flight began after its question
(`RefsSound`), and that the leader of a present flight leads the one in
`inflight` (`LeadersCurrent`). One lemma per action; then `CacheFresh`,
`Coalescing` and `Freshness`, the step simulation of `FreshAnswers`.

`UserUsageCacheProofs`, from `UsageCacheAssumption`: `OneLoadPerKey` needs that a
leader's flight is the one in `inflight` (`RefsSound`); that a follower's answer
is newer than its question follows because the flight it joined was open and
loads only end once (`FlightsSound`), and a hit is the last load within its
lifetime (`EntriesLatest`). `Publish` is the step that disturbs all of them and
has the long proof. `Recency` maps it to `Load`, `Hit` and `Wake` to `Share`, and
a forced follower's second start to a stutter.

`UsageWindowProofs`, from `UsageAssumption`: an accepted reset time lies ahead by
at most the window's length, also when it is rounded up from remaining seconds
(`ActiveResetAhead`); so every window that gets statistics covers its request.
That a reading of the log misses nothing (`NothingMissed`) and exceeds the window by
no more than what has come since (`ExcessBounded`) is proved for any log, length of
day, page sizes and retries. `ReadingShrinks` bounds the requests of a reading: each
ends it or lowers `RequestsLeft`, at first below
`FirstPageSize * (MaxRecords + 1)`; that a reading also ends is `FetchEnds`. The invariant `IInv` was checked with TLC before it was
proved. Beside what the steps of a request establish for the next ones (`Requested`:
a window ends at the clock at the latest, the log holds nothing later) it says

- how many have been counted (`PagesCounted`): all boundary records on the pages
  read so far, and beyond these at most the records that have come later that day,
  which only a list that begins with the newest can show twice;
- how the aggregate and the boundary make up the window (`PartsFit`), which neither
  a tick nor a new record disturbs.

A list is ordered by `Place`, the number of records up to one. A new record shifts
every place by one at most, so it drives at most one record past the pages read
(`FirstShrinks`); what a page adds to the count are exactly the records on its
places (`PageCounts`); no place before a taken one is empty (`NextPlace`), so an
empty page, or a last one, means that nothing is left (`CompleteMeansRead`).
From `SumsAssumption` it also proves that the arithmetic is exact or refused, for
every largest integer and amount: `AddExact` (statistics within their range that
are not `Failed` are the sums of their parts and stay in range),
`AccumulateExact` (so for one more record, with its four kinds of tokens) and
`SubtractExact` (a difference is never negative, and costs are off by at most the
tolerance). They rest on `PlusExact`: a refused or too large addition fails and
stays failed through the chain.

`AutoResetProofs`, for any accounts, identities and credits, any intervals,
faults and interference, from `AutoResetAssumption` (lengths of time are
positive, credits are finitely many, markers are distinct from data). The
invariant `IInv` was checked with TLC before it was proved. Its parts, and what
each is needed for:

- tasks and due queries are those of scheduled accounts (`TasksTracked`), without
  which a task that ends would bring a dropped account back. With it `TypeOK` is
  inductive, and so is `OneTrackedPerIdentity`: only a scan schedules accounts,
  one for each identity (`Unique`);
- during a step everything due is a task, a due query, or later than the step's
  `now` (`NothingLeft`); so when the step ends every plan lies ahead of the
  wake-up it computes, and `NoSpin` follows (that wake-up is later than the
  step's own `now`, which is what the code compares with);
- the worker wakes before any published plan (`PublishedAhead`), hence `PlansLive`;
- the lock of an identity has one holder (`OneHolder`), a task or a handler, so between confirmation
  and answer only an administrator can take the credit the POST is for
  (`PostsConfirmed`). Sub2API spends a credit that expires first: `SpendsOnly`;
- of every fingerprint sent for a scheduled account, the worker still has it as
  `tried`, or there are fewer credits than then (`SnapshotsGone`). Credits only
  disappear, so no later snapshot has it again: `OneAttempt`. That a fingerprint
  identifies the number and the times of the credits, not the credits, is why
  the proof goes through counting.

`GuardKept` says that handlers and worker together implement `SpacedResets` for every
identity, an identity being `Busy` while its lock is held and otherwise free since
`lastAttempt` (the clock of `AutoReset` begins at 1, hence the shifts by one).
`Confirm` and `ManualBegin` map to `Start` when they stamp, `AutoPost` and `ManualEnd`
to `Finish`; a confirmation that is declined is one step under the lock, and a
stutter (`LockTaken`, `LockReleased`). It needs `OneHolder`, without which a lock that
one holder has released would still be held, and that no task outlives its step
(`AtRest`), for a new step would forget the lock. So the worker's abstraction of the
guard and the detailed `ResetGuard` are held to the same promise.

`NoLapse` is the race of the intervals: `ASSUME Timely PROVE Spec => []NoCreditLapses`.
`Timely` names when ten minutes of lead are enough:

- steps take no time and only confirmations fail, no handler's POST either (`MaxSlow = 0`,
  `FaultKinds`); the worker runs and nobody disables or enables an account
  (`OutsideKinds`), while handlers reset, pages query and administrators use credits
  at any moment;
- the guard's pause is within the 2 minutes after a POST, a retried confirmation comes
  before the next refresh;
- no credit expires before every account can have had its first query and a lead
  after it (accounts are queried `Spacing` apart when the worker starts);
- for every identity with `n` credits, `(n - 1) * PostReset + MaxFaults * VerifyRetry < Lead`.

With the real 600, 120 and 300 seconds the last one allows three credits of an
identity with one failed confirmation and five with none. It is tight: with three
credits of one identity in the constants of `worker_deadline`, where both sides are 4,
TLC finds a credit that lapses. Section 6 says what a failed POST or a slow step can do.

The invariant `TimelyInv` extends `IInv`. `Load` counts the resets an identity still
needs, and one more while the guard would refuse because of the last one; `Need` is
the time from the first of them to the last with every failure still to come.
`Look(s)` is when the worker deals with an account again. Then

- `AllInTime`: for each scheduled account whose identity has credits left, `Look` has
  not passed and lies at least `Need` before every `Deadline`: of a credit that is
  left, of one that the cache still shows, of the plan. A POST lowers `Load` by one as
  it moves `Look` by `PostReset`, a failure lowers the rest of `Need` by the
  `VerifyRetry` it costs; a reset by a handler lowers the number of credits and
  brings a pause instead, so `Load` does not grow;
- `CacheFits`: the cache never shows fewer credits than there are, so that a plan made
  from it is not too late for any;
- `Stamped`: a pause was paid for with a credit, which is why `Load` never exceeds the
  credits an identity started with, and the first `Lead` covers it;
- `InHandDue`, `Punctual`: what is in hand is due now, and between steps the worker
  sleeps no longer than to the first `Look`. The clock cannot pass it, for a step takes
  no time;
- `Unlapsed`: a credit that nobody has used has not expired, the property with a
  strict bound. It follows from `AllInTime`, but is needed to know that a credit
  which is left has an expiry that planning does not drop.

TLC finds `TimelyInv` true in every state of `worker_deadline`, too (with `e` in a finite
range in `AllInTime`).

`AccountRequestProofs`, for any groups, accounts, page size, number of requests
and changes at Sub2API, from `AccountRequestAssumption`. `KnowsOf` says what a
request has seen to be true at each place on its way, `CurrentOf` that the
history of facts is kept up to date; `Authorized` follows. For `Refusals`,
`NotMissedOf` says that a group which has been good throughout and whose list
has not shifted is still to be read, or the account's rank in the list that is
being read is not before the next page. This rests on paging by rank: a page of
`Items` holds exactly the members whose rank falls in it (`ItemsIs`), an empty
or last page ends the list (`EndOfList`), and a list that does not shift only
lets ranks grow behind the reader (`RankGrows`). The attempt to prove
`Authorized` showed that two arms of a CASE in `Permitted` overlapped, which
leaves the choice to the checker; the definition is now the code's chain of
conditions.

`DashboardProofs`, for any requests, accounts, windows and number of places, from
`DashboardAssumption`. `TypeOK` contains the semaphore's count, `slots` being the
number of goroutines at work, and needs finite sets (`Places`). `FlightsLed`
needs that a goroutine that leads has its flight in the air for the window it
deals with (`LeadersFly`); `AnswersComplete` that a goroutine returns with a
result unless the client has gone (`Reported`), and that goroutines start after
the preparation and have returned before the answer (`Stages`). A step of one
goroutine is an instance of `Moves`, for which `MoveIInv` is proved once.

`PageProofs`, for any accounts, clicks, credits and loads, from
`PageAssumption`. `ResetsConfirmed` needs that the dialog a click waits in counts
its acceptances (`DialogsCounted`); `ShownNeverOlder` that there is one load at
most, the last one asked for (`OneLoad`, the code's `state.loading`);
`OutcomesShown` that a click whose card is displayed has an account
(`AttachedToAccounts`) and that the load it waits for was asked for after its
POST (`ReloadsNewer`).

Only model-checked: liveness (`CallersReturn`, `QueriesAnswered`, `StatsAnswered`,
`FetchEnds`, `StepsEnd`, `WorkerStops`, `RequestsEnd`, `DashboardsAnswered`), which
rests on fairness and is beyond the prover. Every invariant and every action
property that a passing run checks is stated by a theorem. `ResetsSpaced` of
`AutoReset` is only proved, no run has it: TLC checks the same promise on
`ResetGuard`.

## 5. Not modelled

Configuration (`config.go`), static files, headers, JSON, client addresses,
logging and rendering keep no state that the properties could be about. The
account list is read page by page in `AccountRequest` and in one answer in
`AutoReset`. `forAccounts`, which copies the published plans for the dashboard, is a
plain read. The identity of an account is fixed in `AutoReset` and `AccountRequest`
(in `ResetGuard` every load may yield another one). A restart loses the guard's stamps
and the plans; two replicas share nothing; both are documented as unsupported or
accepted. `UsageSums` leaves out the rounding of floating-point numbers.
`UsageWindow` leaves out records with equal times and records that are logged late
under an older time. A server that cannot listen ends at once.

## 6. Disagreements

`worker_refresh_failure` checks what the repository's README says of every
known expiry: ten minutes before, account and quota are confirmed. When the six-hourly query of an
account fails, `refreshQuota` (`auto_reset.go:289`) clears `resetAt` and asks
again 30 minutes later. A credit that was known to expire within that time is
not confirmed and lapses. A failure that a page's query left in the shared cache has
the same effect.

`shutdown_drain` checks what the ten seconds given to `Shutdown` (`main.go:38`) and
its message "graceful shutdown failed" are there for. `ListenAndServe` returns as
soon as `Shutdown` has closed the listener, `main` returns with it (`main.go:46`), and
a request in progress is cut at once.

`NoCreditLapses` holds for one failed *confirmation*. It does not for a failed
POST (the same snapshot is not tried again, as documented) nor, with two
credits of one expiry, for a failed confirmation followed by a confirmation that
takes minutes; both are listed as hazards.

What the models made visible and nothing contradicts: the notice of a
successful reset is cleared at once by the reload that follows it
(`app.js:670`), except when another load is under way; then the reload is
swallowed and the notice stays, which is what `OutcomesShown` relies on. A quota
query that ends during a POST enables the reset button again (`app.js:645`), and the
POST that follows the two dialogs does not look at the quota again; each click still has its own two
confirmations. When the client that leads a shared load goes away, its cancelled
context becomes the error of followers that are still there (`user_usage_stats_cache.go:89`);
they show an error for that account, as `AnswersComplete` allows. An account that
is skipped because its list shifted under the reader is answered as forbidden,
the exception in `RefusalsJustified`.

## 7. Plan

1. Done: guard, quota cache, usage statistics cache, usage window, sums, worker,
   account API, dashboard, page, life cycle; the proofs of section 4.
2. Done: the timing behind `NoCreditLapses`; the guard of `AutoReset` against
   `SpacedResets`.
3. Open: an abstract specification of the worker as a whole (credits that are about
   to expire are used, one by one) that `AutoReset` implements; `NoLapse` for steps
   that take time, with a bound on the number of accounts that fall due together;
   the cache of `AutoReset` against `FreshAnswers`.
