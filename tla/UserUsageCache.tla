--------------------------- MODULE UserUsageCache ---------------------------
(***************************************************************************)
(* userUsageStatsCache of user_usage_stats_cache.go: the statistics of one *)
(* user, account and usage window, kept for a while and loaded by one      *)
(* goroutine at a time. The page's refresh button asks with force: such a  *)
(* caller waits for an ordinary load that is under way and then loads      *)
(* again.                                                                  *)
(*                                                                         *)
(* load is cut where it gives cache.mutex up: Hit, Join or Lead, then the  *)
(* loader, then Publish. What the statistics say does not matter here: an  *)
(* answer is the number of the load it comes from. loads, since and at are *)
(* history.                                                                *)
(***************************************************************************)
EXTENDS Naturals, Sequences, FiniteSets

CONSTANTS
    Reader,     \* goroutines of loadAccountUsage
    Key,        \* userUsageStatsCacheKey values
    Flight,     \* userUsageStatsFlight objects that can be allocated
    None,       \* nil pointer, absent key, zero value
    GaveUp,     \* the error of a follower whose context is done
    TTL,        \* userUsageStatsCacheTTL
    ErrTTL,     \* userUsageStatsErrorCacheTTL
    MaxClock,   \* bound on the clock
    MaxLoads    \* bound on the loads of a key

Load == [ended : 0..MaxClock, forced : BOOLEAN, failed : BOOLEAN]
Question == [key : Key, force : BOOLEAN, since : Nat, at : 0..MaxClock]
Entry == [load : Nat, expiresAt : 0..(MaxClock + TTL)]
FlightObject == [key : Key, force : BOOLEAN, load : Nat]  \* 0: done is open

ASSUME UsageCacheAssumption ==
    /\ {TTL, ErrTTL, MaxClock, MaxLoads} \subseteq Nat
    /\ ErrTTL <= TTL
    /\ None \notin Nat \cup {GaveUp} \cup Flight \cup Question \cup Entry \cup FlightObject
    /\ GaveUp \notin Nat

VARIABLES
    clock,      \* cache.now()
    loads,      \* loads[k]: the loads of k that have ended
    entries,    \* cache.entries
    inflight,   \* cache.inflight
    flight,     \* the flight objects
    pc,         \* where each reader is in load
    question,   \* what it asks, and the loads and time when it asked
    ref,        \* the flight it leads or waits for
    answer      \* what load returns

vars == <<clock, loads, entries, inflight, flight, pc, question, ref, answer>>

TypeOK ==
    /\ clock \in 0..MaxClock
    /\ loads \in [Key -> Seq(Load)]
    /\ entries \in [Key -> Entry \cup {None}]
    /\ inflight \in [Key -> Flight \cup {None}]
    /\ flight \in [Flight -> FlightObject \cup {None}]
    /\ pc \in [Reader -> {"idle", "loading", "waiting", "fetching", "answered"}]
    /\ question \in [Reader -> Question \cup {None}]
    /\ ref \in [Reader -> Flight \cup {None}]
    /\ answer \in [Reader -> Nat \cup {GaveUp, None}]

Init ==
    /\ clock = 0
    /\ loads = [k \in Key |-> << >>]
    /\ entries = [k \in Key |-> None]
    /\ inflight = [k \in Key |-> None]
    /\ flight = [f \in Flight |-> None]
    /\ pc = [r \in Reader |-> "idle"]
    /\ question = [r \in Reader |-> None]
    /\ ref = [r \in Reader |-> None]
    /\ answer = [r \in Reader |-> None]

-----------------------------------------------------------------------------
\* Readers that may yet load k: each loads at most once.
Asking(k) == {r \in Reader : question[r] # None /\ question[r].key = k}

(* enrichAccountUsageForUser asks for a window; force is the page's        *)
(* refresh. MaxLoads leaves every reader room for its load.                *)
Ask(r, k, force) ==
    /\ pc[r] = "idle"
    /\ Len(loads[k]) + Cardinality(Asking(k)) < MaxLoads
    /\ pc' = [pc EXCEPT ![r] = "loading"]
    /\ question' = [question EXCEPT ![r] =
          [key |-> k, force |-> force, since |-> Len(loads[k]), at |-> clock]]
    /\ UNCHANGED <<clock, loads, entries, inflight, flight, ref, answer>>

\* The entries left when load has swept out the expired ones.
Kept ==
    [k \in Key |-> IF entries[k] # None /\ clock >= entries[k].expiresAt
                   THEN None ELSE entries[k]]

\* The first part of load, up to where it gives the mutex up.
Enter(r) == pc[r] = "loading" /\ entries' = Kept

(* load finds a flight, forced or not, and waits for it.                   *)
Join(r) ==
    LET k == question[r].key IN
    /\ Enter(r)
    /\ inflight[k] # None
    /\ ref' = [ref EXCEPT ![r] = inflight[k]]
    /\ pc' = [pc EXCEPT ![r] = "waiting"]
    /\ UNCHANGED <<clock, loads, inflight, flight, question, answer>>

(* load finds a live entry and need not refresh it.                        *)
Hit(r) ==
    LET k == question[r].key IN
    /\ Enter(r)
    /\ inflight[k] = None
    /\ ~question[r].force
    /\ Kept[k] # None
    /\ answer' = [answer EXCEPT ![r] = Kept[k].load]
    /\ pc' = [pc EXCEPT ![r] = "answered"]
    /\ UNCHANGED <<clock, loads, inflight, flight, question, ref>>

\* Objects nobody points to.
Unreferenced ==
    {f \in Flight : (\A k \in Key : inflight[k] # f) /\ (\A r \in Reader : ref[r] # f)}

\* r's own flight is the key's.
Start(r, k) ==
    /\ \E f \in Unreferenced :
          /\ flight' = [flight EXCEPT ![f] =
                [key |-> k, force |-> question[r].force, load |-> 0]]
          /\ inflight' = [inflight EXCEPT ![k] = f]
          /\ ref' = [ref EXCEPT ![r] = f]
    /\ pc' = [pc EXCEPT ![r] = "fetching"]
    /\ UNCHANGED <<clock, loads, question, answer>>

\* Mutant: a forced caller does not wait for the load under way.
LeadAtOnce(r) ==
    LET k == question[r].key IN
    /\ Enter(r)
    /\ question[r].force \/ (inflight[k] = None /\ Kept[k] = None)
    /\ Start(r, k)

(* load starts a flight: nothing usable is kept, or it is not wanted.      *)
Lead(r) ==
    LET k == question[r].key IN
    /\ Enter(r)
    /\ inflight[k] = None
    /\ question[r].force \/ Kept[k] = None
    /\ Start(r, k)

\* Mutant: the error lifetime is added to the default one.
LifetimeAdded(failed) == IF failed THEN TTL + ErrTTL ELSE TTL

Lifetime(failed) == IF failed THEN ErrTTL ELSE TTL

\* The leader's load ends: everything Publish does but withdraw the flight.
Record(r, failed) ==
    LET k == question[r].key
        n == Len(loads[k]) + 1
    IN
    /\ pc[r] = "fetching"
    /\ loads' = [loads EXCEPT ![k] =
          Append(@, [ended |-> clock, forced |-> question[r].force, failed |-> failed])]
    /\ entries' = [entries EXCEPT ![k] =
          [load |-> n, expiresAt |-> clock + Lifetime(failed)]]
    /\ flight' = [flight EXCEPT ![ref[r]].load = n]
    /\ answer' = [answer EXCEPT ![r] = n]
    /\ ref' = [ref EXCEPT ![r] = None]
    /\ pc' = [pc EXCEPT ![r] = "answered"]
    /\ UNCHANGED <<clock, question>>

\* Mutant: the flight stays in the map.
PublishKeeping(r) == (\E failed \in BOOLEAN : Record(r, failed)) /\ UNCHANGED inflight

(* The loader has answered or failed: keep the result, withdraw the        *)
(* flight, wake its followers, return.                                     *)
Publish(r) ==
    /\ \E failed \in BOOLEAN : Record(r, failed)
    /\ inflight' = [inflight EXCEPT ![question[r].key] = None]

\* Mutant: whoever waits takes the result.
WakeAny(r) ==
    /\ pc[r] = "waiting"
    /\ flight[ref[r]].load # 0
    /\ answer' = [answer EXCEPT ![r] = flight[ref[r]].load]
    /\ pc' = [pc EXCEPT ![r] = "answered"]
    /\ ref' = [ref EXCEPT ![r] = None]
    /\ UNCHANGED <<clock, loads, entries, inflight, flight, question>>

(* The follower's select: the flight is done. A forced caller starts over  *)
(* if the flight was not forced.                                           *)
Wake(r) ==
    LET done == flight[ref[r]] IN
    /\ pc[r] = "waiting"
    /\ done.load # 0
    /\ \/ /\ question[r].force /\ ~done.force
          /\ pc' = [pc EXCEPT ![r] = "loading"]
          /\ UNCHANGED answer
       \/ /\ ~question[r].force \/ done.force
          /\ answer' = [answer EXCEPT ![r] = done.load]
          /\ pc' = [pc EXCEPT ![r] = "answered"]
    /\ ref' = [ref EXCEPT ![r] = None]
    /\ UNCHANGED <<clock, loads, entries, inflight, flight, question>>

(* The follower's select: its own context is done.                         *)
GiveUp(r) ==
    /\ pc[r] = "waiting"
    /\ answer' = [answer EXCEPT ![r] = GaveUp]
    /\ pc' = [pc EXCEPT ![r] = "answered"]
    /\ ref' = [ref EXCEPT ![r] = None]
    /\ UNCHANGED <<clock, loads, entries, inflight, flight, question>>

(* load returns to enrichAccountUsageForUser.                              *)
Return(r) ==
    /\ pc[r] = "answered"
    /\ pc' = [pc EXCEPT ![r] = "idle"]
    /\ question' = [question EXCEPT ![r] = None]
    /\ answer' = [answer EXCEPT ![r] = None]
    /\ UNCHANGED <<clock, loads, entries, inflight, flight, ref>>

Tick ==
    /\ clock < MaxClock
    /\ clock' = clock + 1
    /\ UNCHANGED <<loads, entries, inflight, flight, pc, question, ref, answer>>

Next ==
    \/ \E r \in Reader, k \in Key, force \in BOOLEAN : Ask(r, k, force)
    \/ \E r \in Reader :
          \/ Join(r) \/ Hit(r) \/ Lead(r) \/ Publish(r)
          \/ Wake(r) \/ GiveUp(r) \/ Return(r)
    \/ Tick

Spec == Init /\ [][Next]_vars

(* Goroutines keep running and every load ends by client.Timeout. GiveUp   *)
(* is not assumed: followers must not need it.                             *)
Fairness ==
    \A r \in Reader :
        /\ WF_vars(Join(r) \/ Hit(r) \/ Lead(r))
        /\ WF_vars(Publish(r))
        /\ WF_vars(Wake(r))
        /\ WF_vars(Return(r))

FairSpec == Spec /\ Fairness

-----------------------------------------------------------------------------
(* Loads of one key never overlap, forced or not (user_usage_stats_cache.go*)
(* keeps one flight per key): a slow older load cannot end after a newer   *)
(* one and replace it, and Sub2API's usage log is read once for everybody. *)
OneLoadPerKey ==
    \A r, t \in Reader :
        (/\ pc[r] = "fetching" /\ pc[t] = "fetching"
         /\ question[r].key = question[t].key) => r = t

(* The cache implements RecentLoads: forced refreshes get a forced load    *)
(* that ended after they were asked for, ordinary ones never anything      *)
(* older than the last load before them or past its lifetime, which is     *)
(* shorter for failures.                                                   *)
Promise == INSTANCE RecentLoads

AnswersRecent == Promise!Spec

(* Every question is answered without the help of its own deadline, a      *)
(* forced one also when it has to load again after a flight it joined.     *)
StatsAnswered == \A r \in Reader : pc[r] = "loading" ~> pc[r] = "idle"

=============================================================================
