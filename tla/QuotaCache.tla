----------------------------- MODULE QuotaCache -----------------------------
(***************************************************************************)
(* accountQuotaCache of quota_cache.go: entries with a lifetime, one       *)
(* upstream request ("flight") shared by everybody who asks meanwhile, and *)
(* a version per account that invalidate bumps so that a request that is   *)
(* already on its way cannot bring back what was invalidated.              *)
(*                                                                         *)
(* cache.mutex covers exactly Hit, Join, Lead, Publish and Invalidate, so  *)
(* each is one step. The quota itself is a reading number: what matters is *)
(* how old an answer is. floor, since and begun are history: they say      *)
(* which reading was current when an account was invalidated, and the      *)
(* floor a question or a flight started from.                              *)
(***************************************************************************)
EXTENDS Naturals

CONSTANTS
    Reader,     \* goroutines that query quotas (handlers, worker tasks)
    Account,    \* Sub2API account IDs
    Flight,     \* accountQuotaFlight objects that can be allocated
    None,       \* nil pointer, absent key, zero value
    Failed,     \* an *upstreamAPIError
    TTL,        \* accountQuotaCacheTTL
    ErrTTL,     \* accountQuotaErrorCacheTTL
    MaxClock,   \* bound on the clock
    MaxVersion, \* bound on the invalidations of an account
    MaxReading  \* bound on the changes of an account's quota

Reading == 0..MaxReading
Question == [account : Account, since : Reading]
Entry == [result : Reading \cup {Failed}, expiresAt : 0..(MaxClock + TTL)]
FlightObject ==
    [account : Account, version : 0..MaxVersion, begun : Reading,
     result : Reading \cup {Failed, None}]   \* None until done is closed

ASSUME CacheAssumption ==
    /\ {TTL, ErrTTL, MaxClock, MaxVersion, MaxReading} \subseteq Nat
    /\ ErrTTL <= TTL
    /\ None \notin Nat \cup {Failed} \cup Flight \cup Question \cup Entry \cup FlightObject
    /\ Failed \notin Nat

VARIABLES
    clock,      \* cache.now()
    quota,      \* quota[a]: the reading Sub2API would return now
    floor,      \* floor[a]: the reading when a was last invalidated
    entries,    \* cache.entries
    inflight,   \* cache.inflight
    versions,   \* cache.versions
    flight,     \* the flight objects
    pc,         \* where each reader is in load
    question,   \* the account a reader asks about, and floor when it asked
    ref,        \* the flight it leads or waits for
    answer      \* the loader's result, later load's result

envVars == <<clock, quota>>
cacheVars == <<floor, entries, inflight, versions>>
vars == <<clock, quota, floor, entries, inflight, versions,
          flight, pc, question, ref, answer>>

TypeOK ==
    /\ clock \in 0..MaxClock
    /\ quota \in [Account -> Reading]
    /\ floor \in [Account -> Reading]
    /\ entries \in [Account -> Entry \cup {None}]
    /\ inflight \in [Account -> Flight \cup {None}]
    /\ versions \in [Account -> 0..MaxVersion]
    /\ flight \in [Flight -> FlightObject \cup {None}]
    /\ pc \in [Reader -> {"idle", "loading", "waiting", "fetching", "fetched", "answered"}]
    /\ question \in [Reader -> Question \cup {None}]
    /\ ref \in [Reader -> Flight \cup {None}]
    /\ answer \in [Reader -> Reading \cup {Failed, None}]

Init ==
    /\ clock = 0
    /\ quota = [a \in Account |-> 0]
    /\ floor = [a \in Account |-> 0]
    /\ entries = [a \in Account |-> None]
    /\ inflight = [a \in Account |-> None]
    /\ versions = [a \in Account |-> 0]
    /\ flight = [f \in Flight |-> None]
    /\ pc = [r \in Reader |-> "idle"]
    /\ question = [r \in Reader |-> None]
    /\ ref = [r \in Reader |-> None]
    /\ answer = [r \in Reader |-> None]

-----------------------------------------------------------------------------
(* The account's quota changes on Sub2API: use, a reset, another replica.  *)
Change(a) ==
    /\ quota[a] < MaxReading
    /\ quota' = [quota EXCEPT ![a] = @ + 1]
    /\ UNCHANGED <<clock, cacheVars, flight, pc, question, ref, answer>>

\* The body of invalidate.
Drop(a) ==
    /\ versions[a] < MaxVersion
    /\ versions' = [versions EXCEPT ![a] = @ + 1]
    /\ entries' = [entries EXCEPT ![a] = None]
    /\ floor' = [floor EXCEPT ![a] = quota[a]]
    /\ UNCHANGED inflight

(* invalidate, called by performOpenAIQuotaReset after a successful POST.  *)
Invalidate(a) ==
    /\ Drop(a)
    /\ UNCHANGED <<envVars, flight, pc, question, ref, answer>>

\* r is about to call load for account a.
Ask(r, a, since) ==
    /\ pc[r] = "idle"
    /\ pc' = [pc EXCEPT ![r] = "loading"]
    /\ question' = [question EXCEPT ![r] = [account |-> a, since |-> since]]
    /\ UNCHANGED <<envVars, flight, ref, answer>>

(* queryOpenAIQuota.                                                       *)
Query(r, a) ==
    /\ Ask(r, a, floor[a])
    /\ UNCHANGED cacheVars

(* queryOpenAIQuotaFresh: invalidate first; load takes the mutex again.    *)
QueryFresh(r, a) ==
    /\ Ask(r, a, quota[a])
    /\ Drop(a)

Live(a) == entries[a] # None /\ clock < entries[a].expiresAt

\* Mutant: whatever flight is under way is joined.
SharedAnyVersion(a) == inflight[a] # None

\* The flight that is under way for the account's present version.
Shared(a) == inflight[a] # None /\ flight[inflight[a]].version = versions[a]

(* load finds a live entry.                                                *)
Hit(r) ==
    LET a == question[r].account IN
    /\ pc[r] = "loading"
    /\ Live(a)
    /\ answer' = [answer EXCEPT ![r] = entries[a].result]
    /\ pc' = [pc EXCEPT ![r] = "answered"]
    /\ UNCHANGED <<envVars, cacheVars, flight, question, ref>>

(* load finds a flight of the same version and waits for it.               *)
Join(r) ==
    LET a == question[r].account IN
    /\ pc[r] = "loading"
    /\ ~Live(a)
    /\ Shared(a)
    /\ ref' = [ref EXCEPT ![r] = inflight[a]]
    /\ pc' = [pc EXCEPT ![r] = "waiting"]
    /\ UNCHANGED <<envVars, cacheVars, flight, question, answer>>

\* Objects nobody points to.
Unreferenced ==
    {f \in Flight : (\A a \in Account : inflight[a] # f) /\ (\A r \in Reader : ref[r] # f)}

(* load starts a flight of its own.                                        *)
Lead(r) ==
    LET a == question[r].account IN
    /\ pc[r] = "loading"
    /\ ~Live(a)
    /\ ~Shared(a)
    /\ \E f \in Unreferenced :
          /\ flight' = [flight EXCEPT ![f] =
                [account |-> a, version |-> versions[a], begun |-> floor[a], result |-> None]]
          /\ inflight' = [inflight EXCEPT ![a] = f]
          /\ ref' = [ref EXCEPT ![r] = f]
    /\ pc' = [pc EXCEPT ![r] = "fetching"]
    /\ UNCHANGED <<envVars, floor, entries, versions, question, answer>>

(* The loader: GET .../quota answers, or fails (an error status, a timeout *)
(* or the leader's own context being cancelled).                           *)
Fetch(r) ==
    /\ pc[r] = "fetching"
    /\ \E x \in {Failed, quota[question[r].account]} : answer' = [answer EXCEPT ![r] = x]
    /\ pc' = [pc EXCEPT ![r] = "fetched"]
    /\ UNCHANGED <<envVars, cacheVars, flight, question, ref>>

\* Mutant: the error lifetime is added to the default one.
LifetimeAdded(x) == IF x = Failed THEN TTL + ErrTTL ELSE TTL

Lifetime(x) == IF x = Failed THEN ErrTTL ELSE TTL

\* The flight's result, and close(flight.done); the leader returns.
Deliver(r) ==
    /\ flight' = [flight EXCEPT ![ref[r]].result = answer[r]]
    /\ pc' = [pc EXCEPT ![r] = "answered"]
    /\ ref' = [ref EXCEPT ![r] = None]
    /\ UNCHANGED <<envVars, floor, versions, question, answer>>

\* Mutant: the result is kept without looking at the version.
PublishAnyVersion(r) ==
    LET a == question[r].account IN
    /\ pc[r] = "fetched"
    /\ entries' = [entries EXCEPT ![a] =
          [result |-> answer[r], expiresAt |-> clock + Lifetime(answer[r])]]
    /\ inflight' = IF inflight[a] = ref[r] THEN [inflight EXCEPT ![a] = None] ELSE inflight
    /\ Deliver(r)

\* Mutant: the account's flight is withdrawn even if it is another one.
PublishWithdrawing(r) ==
    LET a == question[r].account IN
    /\ pc[r] = "fetched"
    /\ entries' = IF versions[a] = flight[ref[r]].version
                  THEN [entries EXCEPT ![a] =
                          [result |-> answer[r], expiresAt |-> clock + Lifetime(answer[r])]]
                  ELSE entries
    /\ inflight' = [inflight EXCEPT ![a] = None]
    /\ Deliver(r)

\* Mutant: a stale flight returns early and is never closed.
PublishOnlyCurrent(r) ==
    LET a == question[r].account IN
    /\ pc[r] = "fetched"
    /\ IF versions[a] = flight[ref[r]].version
       THEN /\ entries' = [entries EXCEPT ![a] =
                  [result |-> answer[r], expiresAt |-> clock + Lifetime(answer[r])]]
            /\ inflight' = IF inflight[a] = ref[r] THEN [inflight EXCEPT ![a] = None] ELSE inflight
            /\ Deliver(r)
       ELSE /\ pc' = [pc EXCEPT ![r] = "answered"]
            /\ ref' = [ref EXCEPT ![r] = None]
            /\ UNCHANGED <<envVars, cacheVars, flight, question, answer>>

(* load after the loader: keep the result if the account was not           *)
(* invalidated meanwhile, and withdraw the flight if it is still the       *)
(* account's.                                                              *)
Publish(r) ==
    LET a == question[r].account IN
    /\ pc[r] = "fetched"
    /\ entries' = IF versions[a] = flight[ref[r]].version
                  THEN [entries EXCEPT ![a] =
                          [result |-> answer[r], expiresAt |-> clock + Lifetime(answer[r])]]
                  ELSE entries
    /\ inflight' = IF inflight[a] = ref[r] THEN [inflight EXCEPT ![a] = None] ELSE inflight
    /\ Deliver(r)

(* The follower's select: the flight is done.                              *)
Wake(r) ==
    /\ pc[r] = "waiting"
    /\ flight[ref[r]].result # None
    /\ answer' = [answer EXCEPT ![r] = flight[ref[r]].result]
    /\ pc' = [pc EXCEPT ![r] = "answered"]
    /\ ref' = [ref EXCEPT ![r] = None]
    /\ UNCHANGED <<envVars, cacheVars, flight, question>>

(* The follower's select: its own context is done.                         *)
GiveUp(r) ==
    /\ pc[r] = "waiting"
    /\ answer' = [answer EXCEPT ![r] = Failed]
    /\ pc' = [pc EXCEPT ![r] = "answered"]
    /\ ref' = [ref EXCEPT ![r] = None]
    /\ UNCHANGED <<envVars, cacheVars, flight, question>>

(* load returns to its caller.                                             *)
Return(r) ==
    /\ pc[r] = "answered"
    /\ pc' = [pc EXCEPT ![r] = "idle"]
    /\ question' = [question EXCEPT ![r] = None]
    /\ answer' = [answer EXCEPT ![r] = None]
    /\ UNCHANGED <<envVars, cacheVars, flight, ref>>

Tick ==
    /\ clock < MaxClock
    /\ clock' = clock + 1
    /\ UNCHANGED <<quota, cacheVars, flight, pc, question, ref, answer>>

Next ==
    \/ \E a \in Account : Change(a) \/ Invalidate(a)
    \/ \E r \in Reader, a \in Account : Query(r, a) \/ QueryFresh(r, a)
    \/ \E r \in Reader :
          \/ Hit(r) \/ Join(r) \/ Lead(r) \/ Fetch(r)
          \/ Publish(r) \/ Wake(r) \/ GiveUp(r) \/ Return(r)
    \/ Tick

Spec == Init /\ [][Next]_vars

(* Goroutines keep running and every upstream request ends by              *)
(* client.Timeout. GiveUp is not assumed: followers must not need it.      *)
Fairness ==
    \A r \in Reader :
        /\ WF_vars(Hit(r) \/ Join(r) \/ Lead(r))
        /\ WF_vars(Fetch(r) \/ Publish(r))
        /\ WF_vars(Wake(r))
        /\ WF_vars(Return(r))

FairSpec == Spec /\ Fairness

-----------------------------------------------------------------------------
(* What the cache holds for an account was read after the account was last *)
(* invalidated: a reset is never undone by an older request that ends      *)
(* late.                                                                   *)
CacheSinceInvalidation ==
    \A a \in Account :
        entries[a] # None /\ entries[a].result # Failed =>
            entries[a].result \in floor[a]..quota[a]

Fetching(r) == pc[r] \in {"fetching", "fetched"}

(* Everybody who asks about one account between two invalidations shares   *)
(* one upstream request (README: the page and the worker share the cache). *)
OneFetchPerVersion ==
    \A r, t \in Reader :
        (/\ Fetching(r) /\ Fetching(t)
         /\ question[r].account = question[t].account
         /\ flight[ref[r]].version = flight[ref[t]].version)
           => r = t

(* The cache implements FreshAnswers: no answer is older than the last     *)
(* invalidation before its question, whichever of hit, shared flight or    *)
(* own request it came from.                                               *)
Reply == [r \in Reader |-> IF pc[r] = "answered" THEN answer[r] ELSE None]

Promise == INSTANCE FreshAnswers WITH answer <- Reply

AnswersFresh == Promise!Spec

(* Every query ends without the help of its own deadline: a flight's       *)
(* followers are woken whether or not the flight went stale, was replaced  *)
(* or failed.                                                              *)
QueriesAnswered == \A r \in Reader : pc[r] = "loading" ~> pc[r] = "idle"

=============================================================================
