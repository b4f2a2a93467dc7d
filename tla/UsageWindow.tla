---------------------------- MODULE UsageWindow ----------------------------
(***************************************************************************)
(* One user's statistics in one usage window of an account, as             *)
(* usage_window_stats.go computes them: the window is derived from the     *)
(* provider's reset time; Sub2API's aggregate counts whole UTC days, so    *)
(* the part of the first day that does not belong to the window (or the    *)
(* part that does) is read page by page from the usage log. Meanwhile the  *)
(* log grows, pages shift, answers are too large or fail, and the          *)
(* aggregate may come from Sub2API's own cache.                            *)
(*                                                                         *)
(* The statistics are abstracted to their number of requests; tokens and   *)
(* costs are summed up along with it as UsageSums says. A record is its    *)
(* creation time. None also stands for nil and for no result yet.          *)
(***************************************************************************)
EXTENDS UsageSums, FiniteSets

CONSTANTS
    Day,            \* ticks in a UTC day
    Duration,       \* usageWindowDefinition.duration
    FirstPageSize,  \* initialUsageLogPageSize
    MaxRecords,     \* maxUsageBoundaryRecords
    Progress,       \* what the provider may say about the window
    FirstTimes,     \* when the request may come
    OldRecords,     \* creation times of records before the request
    MaxClock,       \* bound on the clock
    NoWindow        \* no statistics: the window is not known

\* resets_at, or None if it does not parse, and remaining_seconds in half ticks.
ASSUME UsageAssumption ==
    /\ {Day, Duration, FirstPageSize, MaxRecords} \subseteq Nat \ {0}
    /\ MaxClock \in Nat
    /\ FirstTimes \cup OldRecords \subseteq 0..MaxClock
    /\ Progress \subseteq [resetsAt : Nat \cup {None}, remaining : Int \cup {None}]
    /\ NoWindow \notin Int

VARIABLES
    clock,
    log,        \* Sub2API: the user's records of the account
    progress,   \* the window in the provider's answer
    force,      \* the page's refresh
    pc,
    window,     \* startAt and endAt of the request
    branch,     \* the way the first day is counted
    total,      \* the aggregate
    pageSize, page, count,  \* fetchUserUsageBoundaryWithPageSize
    result

sub2api == <<clock, log, progress, force>>
request == <<pc, window, branch, total, pageSize, page, count, result>>
vars == <<sub2api, request>>

TypeOK ==
    /\ clock \in 0..MaxClock
    /\ log \subseteq 0..MaxClock
    /\ progress \in Progress
    /\ force \in BOOLEAN
    /\ pc \in {"resolve", "aggregate", "paging", "done"}
    /\ window \in [startAt : Int, endAt : Nat] \cup {None}
    /\ branch \in {"exact", "prefix", "suffix"}
    /\ {total, count} \subseteq Nat
    /\ pageSize \in 1..FirstPageSize
    /\ page \in 1..MaxRecords
    /\ result \in Nat \cup {None, NoWindow, Failed}

Init ==
    /\ clock \in FirstTimes
    /\ log \in {L \in SUBSET OldRecords : \A t \in L : t <= clock}
    /\ progress \in Progress
    /\ force \in BOOLEAN
    /\ pc = "resolve"
    /\ window = None
    /\ branch = "exact"
    /\ total = 0
    /\ pageSize = FirstPageSize
    /\ page = 1
    /\ count = 0
    /\ result = None

-----------------------------------------------------------------------------
(* Time passes; the user's next request is logged.                         *)
Tick ==
    /\ clock < MaxClock
    /\ clock' = clock + 1
    /\ UNCHANGED <<log, progress, force, request>>

Use ==
    /\ log' = log \cup {clock}
    /\ UNCHANGED <<clock, progress, force, request>>

-----------------------------------------------------------------------------
\* Mutant: a reset time further away than the window is long is believed.
AnyFutureReset(p, now) ==
    IF p.resetsAt # None /\ p.resetsAt > now THEN p.resetsAt
    ELSE IF p.remaining # None /\ 0 < p.remaining /\ p.remaining <= 2 * Duration
    THEN now + (p.remaining + 1) \div 2
    ELSE None

\* activeUsageWindowReset; (n + 1) \div 2 is math.Ceil of half ticks.
ActiveReset(p, now) ==
    IF p.resetsAt # None /\ p.resetsAt > now /\ p.resetsAt - Duration <= now
    THEN p.resetsAt
    ELSE IF p.remaining # None /\ 0 < p.remaining /\ p.remaining <= 2 * Duration
    THEN now + (p.remaining + 1) \div 2
    ELSE None

DayOf(t) == t \div Day
NextDay(t) == (DayOf(t) + 1) * Day

\* The end of the first partial day.
BoundaryEnd(w) == IF w.endAt < NextDay(w.startAt) THEN w.endAt ELSE NextDay(w.startAt)

\* How fetchUserWindowStats counts the first day.
Branch(w) ==
    LET prefix == w.startAt - DayOf(w.startAt) * Day
        suffix == BoundaryEnd(w) - w.startAt
    IN  IF prefix = 0 THEN "exact" ELSE IF prefix <= suffix THEN "prefix" ELSE "suffix"

Finish(x) == pc' = "done" /\ result' = x

(* resolveAccountUsageWindows and the first part of fetchUserWindowStats.  *)
(* Without a reset time the window is provisional and has no statistics;   *)
(* an empty window has none to fetch; a suffix that ends with the request  *)
(* needs no aggregate.                                                     *)
Resolve ==
    LET reset == ActiveReset(progress, clock)
        w == [startAt |-> reset - Duration, endAt |-> clock]
    IN
    /\ pc = "resolve"
    /\ IF reset = None
       THEN /\ Finish(NoWindow)
            /\ UNCHANGED <<window, branch>>
       ELSE /\ window' = w
            /\ branch' = Branch(w)
            /\ IF w.endAt <= w.startAt
               THEN Finish(0)
               ELSE /\ pc' = IF Branch(w) = "suffix" /\ w.endAt <= NextDay(w.startAt)
                             THEN "paging" ELSE "aggregate"
                    /\ UNCHANGED result
    /\ UNCHANGED <<sub2api, total, pageSize, page, count>>

\* The first day fetchAggregatedUserUsageStats asks for.
FirstDay == DayOf(window.startAt) + IF branch = "suffix" THEN 1 ELSE 0

\* Its last day, the one of the nanosecond before endAt.
LastDay == DayOf(window.endAt - 1)

(* GET /admin/usage/stats for whole days; only a forced request asks for   *)
(* an answer that is not cached. An "exact" window ends here.              *)
Aggregate ==
    /\ pc = "aggregate"
    /\ \/ /\ Finish(Failed)
          /\ UNCHANGED total
       \/ \E asOf \in {clock} \cup IF force THEN {} ELSE 0..clock :
             /\ total' = Cardinality({t \in log : t <= asOf /\ DayOf(t) \in FirstDay..LastDay})
             /\ IF branch = "exact" THEN Finish(total') ELSE pc' = "paging" /\ UNCHANGED result
    /\ UNCHANGED <<sub2api, window, branch, pageSize, page, count>>

From == IF branch = "prefix" THEN DayOf(window.startAt) * Day ELSE window.startAt
To == IF branch = "prefix" THEN window.startAt ELSE BoundaryEnd(window)

Today == {t \in log : DayOf(t) = DayOf(From)}

\* The records before and up to t in the order asked for: "asc" for a
\* prefix, "desc" for a suffix.
UpTo(t) == {u \in Today : IF branch = "prefix" THEN u <= t ELSE u >= t}

\* GET /admin/usage as Sub2API answers it now.
Items == {t \in Today : Cardinality(UpTo(t)) \in (page - 1) * pageSize + 1 .. page * pageSize}
Pages == (Cardinality(Today) + pageSize - 1) \div pageSize

\* An item outside the boundary on the far side ends the reading.
PastBoundary == \E t \in Items : IF branch = "prefix" THEN t >= To ELSE t < From

\* Mutant: the aggregate is believed to hold the prefix.
Unchecked(n) == IF branch = "suffix" THEN total + n ELSE total - n

\* addUserWindowStats, or subtractUserWindowStats with its check.
Combined(n) ==
    IF branch = "suffix" THEN Plus(total, n) ELSE Minus(total, n)

MaxPages == (MaxRecords + pageSize - 1) \div pageSize

\* Mutant: with page size 1 there is still a smaller one to try.
RetryForever ==
    /\ Items # {}
    /\ pageSize' = IF pageSize \div 2 < 1 THEN 1 ELSE pageSize \div 2
    /\ page' = 1
    /\ count' = 0
    /\ UNCHANGED <<pc, result>>

\* Mutant: the next attempt keeps its place.
RetryFromHere ==
    /\ Items # {}
    /\ IF pageSize = 1
       THEN Finish(Failed) /\ UNCHANGED <<pageSize, page, count>>
       ELSE pageSize' = pageSize \div 2 /\ UNCHANGED <<pc, result, page, count>>

\* The answer is too large (records differ in size): start over with
\* smaller pages.
RetrySmaller ==
    /\ Items # {}
    /\ IF pageSize = 1
       THEN Finish(Failed) /\ UNCHANGED <<pageSize, page, count>>
       ELSE /\ pageSize' = pageSize \div 2
            /\ page' = 1
            /\ count' = 0
            /\ UNCHANGED <<pc, result>>

Counted == count + Cardinality({t \in Items : From <= t /\ t < To})

\* Mutant: pages are counted from zero.
LastPageSkipped == PastBoundary \/ Pages <= page + 1 \/ Items = {}

\* fetchUserUsageBoundaryWithPageSize needs no further page.
Complete == PastBoundary \/ Pages <= page \/ Items = {}

\* The items of the page that lie within the boundary are counted.
ReadItems ==
    /\ count' = Counted
    /\ IF Complete THEN Finish(Combined(count')) /\ UNCHANGED page
       ELSE IF page = MaxPages THEN Finish(Failed) /\ UNCHANGED page
       ELSE page' = page + 1 /\ UNCHANGED <<pc, result>>
    /\ UNCHANGED pageSize

(* One round of fetchUserUsageBoundaryWithPageSize and, when the answer is *)
(* too large, of fetchUserUsageBoundary. A request fails, and so does a    *)
(* record that does not make sense.                                        *)
ReadPage ==
    /\ pc = "paging"
    /\ \/ RetrySmaller
       \/ ReadItems
       \/ Finish(Failed) /\ UNCHANGED <<pageSize, page, count>>
    /\ UNCHANGED <<sub2api, window, branch, total>>

Next == Tick \/ Use \/ Resolve \/ Aggregate \/ ReadPage

Spec == Init /\ [][Next]_vars

(* Every request ends by client.Timeout.                                   *)
FairSpec == Spec /\ WF_vars(Resolve) /\ WF_vars(Aggregate) /\ WF_vars(ReadPage)

-----------------------------------------------------------------------------
InWindow == {t \in log : window.startAt <= t /\ t < window.endAt}
SinceRequest == {t \in log : t >= window.endAt}

(* Whatever the provider says of its reset, a window that gets statistics  *)
(* has begun and has not ended when it is resolved (activeUsageWindowReset *)
(* rejects stale and impossible reset times).                              *)
WindowCoversRequest ==
    window # None =>
        window.startAt <= window.endAt /\ window.endAt < window.startAt + Duration

(* A refresh that succeeds misses none of the window's records, whichever  *)
(* side of the first day is read, however often the pages have shifted or  *)
(* become smaller meanwhile.                                               *)
NothingMissed ==
    force /\ result \in Int /\ window # None => result >= Cardinality(InWindow)

(* Statistics exceed the window's records by no more than the records that *)
(* have come since the request: these may be in the aggregate, or shift a  *)
(* page by one so that a record is read twice.                             *)
ExcessBounded ==
    result \in Int /\ window # None =>
        result <= Cardinality(InWindow) + Cardinality(SinceRequest)

(* Reading the log ends, however fast it grows and however often answers  *)
(* are too large.                                                          *)
FetchEnds == <>(pc = "done")

=============================================================================
