-------------------------- MODULE QuotaCacheProofs --------------------------
(* The safety properties of QuotaCache, proved for any number of readers,  *)
(* accounts and flights, any lifetimes and any bounds.                     *)
EXTENDS QuotaCache, TLAPS

\* An invalidation is in the past.
FloorsReached == \A a \in Account : floor[a] <= quota[a]

\* A reading the program may show for something that began at reading b.
Good(x, b, a) == x \in {None, Failed} \/ (b <= x /\ x <= quota[a])

\* A flight of the present version began at the present floor; an older one
\* began earlier, and its result is no older than its beginning.
FlightsSound ==
    \A f \in Flight : flight[f] # None =>
        LET a == flight[f].account IN
        /\ flight[f].version <= versions[a]
        /\ flight[f].begun <= floor[a]
        /\ flight[f].version = versions[a] => flight[f].begun = floor[a]
        /\ Good(flight[f].result, flight[f].begun, a)

\* inflight[a] is a flight for a.
InflightOwn ==
    \A a \in Account : inflight[a] # None =>
        flight[inflight[a]] # None /\ flight[inflight[a]].account = a

\* A reader outside load has no question; one inside has one that is not
\* from the future, and holds an answer that is good for it.
ReadersSound ==
    \A r \in Reader :
        /\ pc[r] = "idle" <=> question[r] = None
        /\ pc[r] # "idle" => question[r].since <= floor[question[r].account]
        /\ pc[r] = "answered" =>
              answer[r] # None /\ Good(answer[r], question[r].since, question[r].account)

\* A reader that leads or waits refers to a flight for its account that
\* began after its question.
RefsSound ==
    \A r \in Reader :
        /\ pc[r] \in {"waiting", "fetching", "fetched"} <=> ref[r] # None
        /\ ref[r] # None =>
              /\ flight[ref[r]] # None
              /\ flight[ref[r]].account = question[r].account
              /\ question[r].since <= flight[ref[r]].begun
        /\ pc[r] = "fetched" =>
              answer[r] # None /\ Good(answer[r], flight[ref[r]].begun, question[r].account)

\* The leader of a flight of the present version leads inflight's flight.
LeadersCurrent ==
    \A r \in Reader :
        Fetching(r) /\ flight[ref[r]].version = versions[question[r].account]
            => inflight[question[r].account] = ref[r]

IInv ==
    /\ TypeOK
    /\ FloorsReached
    /\ CacheSinceInvalidation
    /\ FlightsSound
    /\ InflightOwn
    /\ ReadersSound
    /\ RefsSound
    /\ LeadersCurrent
    /\ OneFetchPerVersion

-----------------------------------------------------------------------------
(* The strengthened invariant holds at the start.                          *)
LEMMA InitIInv == Init => IInv
BY CacheAssumption
   DEF Init, IInv, TypeOK, Reading, Entry, FlightObject, FloorsReached,
       CacheSinceInvalidation, FlightsSound, InflightOwn, ReadersSound, RefsSound,
       LeadersCurrent, OneFetchPerVersion, Fetching

(* A change at Sub2API only raises the quota readings. *)
LEMMA ChangeIInv ==
    ASSUME IInv, NEW a \in Account, Change(a)
    PROVE  IInv'
<1> USE CacheAssumption DEF IInv, TypeOK, Change, envVars, cacheVars, Good, Fetching
<1>1. TypeOK'
  BY DEF Reading
<1>2. FloorsReached'
  BY DEF FloorsReached, Reading
<1>3. CacheSinceInvalidation'
  BY DEF CacheSinceInvalidation, Reading
<1>4. FlightsSound'
  BY DEF FlightsSound, Reading, FlightObject
<1>5. ReadersSound'
  BY DEF ReadersSound, Reading
<1>6. RefsSound'
  BY DEF RefsSound, Reading
<1>7. InflightOwn' /\ LeadersCurrent' /\ OneFetchPerVersion'
  BY DEF InflightOwn, LeadersCurrent, OneFetchPerVersion
<1>8. QED
  BY <1>1, <1>2, <1>3, <1>4, <1>5, <1>6, <1>7

(* Invalidating raises the floor and the version together, so every flight
   of the account becomes an older one. *)
LEMMA InvalidateIInv ==
    ASSUME IInv, NEW a \in Account, Invalidate(a)
    PROVE  IInv'
<1> USE CacheAssumption DEF IInv, TypeOK, Invalidate, Drop, envVars, cacheVars, Good, Fetching
<1>1. FloorsReached'
  BY DEF FloorsReached, Reading
<1>2. FlightsSound'
  BY DEF FlightsSound, FloorsReached, Reading, FlightObject
<1>3. ReadersSound'
  BY DEF ReadersSound, FloorsReached, Question, Reading
<1>4. LeadersCurrent'
  BY DEF LeadersCurrent, RefsSound, FlightsSound
<1>5. /\ TypeOK'
       /\ CacheSinceInvalidation'
       /\ InflightOwn'
       /\ RefsSound'
       /\ OneFetchPerVersion'
  BY DEF CacheSinceInvalidation, InflightOwn, RefsSound, OneFetchPerVersion
<1>6. QED
  BY <1>1, <1>2, <1>3, <1>4, <1>5

(* Asking sets since to the present floor. *)
LEMMA QueryIInv ==
    ASSUME IInv, NEW r \in Reader, NEW a \in Account, Query(r, a)
    PROVE  IInv'
<1> USE CacheAssumption DEF IInv, TypeOK, Query, Ask, envVars, cacheVars, Good, Fetching
<1>1. TypeOK'
  BY DEF Question
<1>2. ReadersSound'
  BY DEF ReadersSound, Question, Reading
<1>3. /\ FloorsReached'
       /\ CacheSinceInvalidation'
       /\ FlightsSound'
       /\ InflightOwn'
       /\ RefsSound'
       /\ LeadersCurrent'
       /\ OneFetchPerVersion'
  BY DEF FloorsReached, CacheSinceInvalidation, FlightsSound, InflightOwn, RefsSound, LeadersCurrent, OneFetchPerVersion
<1>4. QED
  BY <1>1, <1>2, <1>3

(* Asking afresh invalidates and sets since to the new floor. *)
LEMMA QueryFreshIInv ==
    ASSUME IInv, NEW r \in Reader, NEW a \in Account, QueryFresh(r, a)
    PROVE  IInv'
<1> USE CacheAssumption DEF IInv, TypeOK, QueryFresh, Ask, Drop, envVars, cacheVars, Good, Fetching
<1>1. TypeOK'
  BY DEF Question
<1>2. FloorsReached'
  BY DEF FloorsReached, Reading
<1>3. FlightsSound'
  BY DEF FlightsSound, FloorsReached, Reading, FlightObject
<1>4. ReadersSound'
  BY DEF ReadersSound, FloorsReached, Question, Reading
<1>5. LeadersCurrent'
  BY DEF LeadersCurrent, RefsSound, FlightsSound
<1>6. CacheSinceInvalidation' /\ InflightOwn' /\ RefsSound' /\ OneFetchPerVersion'
  BY DEF CacheSinceInvalidation, InflightOwn, RefsSound, OneFetchPerVersion
<1>7. QED
  BY <1>1, <1>2, <1>3, <1>4, <1>5, <1>6

(* A hit answers with an entry that is no older than the floor. *)
LEMMA HitIInv ==
    ASSUME IInv, NEW r \in Reader, Hit(r)
    PROVE  IInv'
<1> USE CacheAssumption DEF IInv, TypeOK, Hit, Live, envVars, cacheVars, Good, Fetching
<1>1. TypeOK'
  BY DEF ReadersSound, Question, Entry
<1>2. ReadersSound'
  BY DEF ReadersSound, CacheSinceInvalidation, Question, Reading
<1>3. /\ FloorsReached'
       /\ CacheSinceInvalidation'
       /\ FlightsSound'
       /\ InflightOwn'
       /\ RefsSound'
       /\ LeadersCurrent'
       /\ OneFetchPerVersion'
  BY DEF FloorsReached, CacheSinceInvalidation, FlightsSound, InflightOwn, RefsSound, LeadersCurrent, OneFetchPerVersion
<1>4. QED
  BY <1>1, <1>2, <1>3

(* A follower's flight has the present version, so it began at the present
   floor, which is no older than the question. *)
LEMMA JoinIInv ==
    ASSUME IInv, NEW r \in Reader, Join(r)
    PROVE  IInv'
<1> USE CacheAssumption DEF IInv, TypeOK, Join, Shared, envVars, cacheVars, Good, Fetching
<1>1. TypeOK'
  BY DEF ReadersSound, Question
<1>2. RefsSound'
  BY DEF RefsSound, ReadersSound, FlightsSound, InflightOwn, Question
<1>3. FloorsReached' /\ CacheSinceInvalidation' /\ FlightsSound' /\ InflightOwn'
  BY DEF FloorsReached, CacheSinceInvalidation, FlightsSound, InflightOwn
<1>4. ReadersSound'
  BY DEF ReadersSound
<1>5. LeadersCurrent'
  BY DEF LeadersCurrent
<1>6. OneFetchPerVersion'
  BY DEF OneFetchPerVersion
<1>7. QED
  BY <1>1, <1>2, <1>3, <1>4, <1>5, <1>6

(* A new flight begins at the present floor; no flight of the present
   version was under way. *)
LEMMA LeadIInv ==
    ASSUME IInv, NEW r \in Reader, Lead(r)
    PROVE  IInv'
<1> USE CacheAssumption DEF IInv, TypeOK, Lead, Shared, Unreferenced, envVars, cacheVars, Good, Fetching
<1>1. TypeOK'
  <2>1. question[r] \in Question
    BY DEF ReadersSound
  <2>2. PICK account \in Account : account = question[r].account
    BY <2>1 DEF Question
  <2>3. PICK object \in FlightObject :
          object = [account |-> account, version |-> versions[account],
                    begun |-> floor[account], result |-> None]
    BY <2>2 DEF FlightObject
  <2>4. PICK f \in Flight : /\ flight' = [flight EXCEPT ![f] = object]
                           /\ inflight' = [inflight EXCEPT ![account] = f]
                           /\ ref' = [ref EXCEPT ![r] = f]
    BY <2>2, <2>3
  <2>5. flight' \in [Flight -> FlightObject \cup {None}]
    BY <2>3, <2>4
  <2>6. QED
    BY <2>2, <2>4, <2>5
<1>2. FlightsSound'
  BY DEF FlightsSound, ReadersSound, Reading, Question
<1>3. InflightOwn'
  BY DEF InflightOwn, FlightObject
<1>4. RefsSound'
  BY DEF RefsSound, ReadersSound, Question, FlightObject
<1>5. LeadersCurrent'
  BY DEF LeadersCurrent, RefsSound, ReadersSound, Question
<1>6. OneFetchPerVersion'
  BY DEF OneFetchPerVersion, RefsSound, LeadersCurrent
<1>7. FloorsReached' /\ CacheSinceInvalidation' /\ ReadersSound'
  BY DEF FloorsReached, CacheSinceInvalidation, ReadersSound
<1>8. QED
  BY <1>1, <1>2, <1>3, <1>4, <1>5, <1>6, <1>7

(* The loader returns the present reading, which is no older than the floor. *)
LEMMA FetchIInv ==
    ASSUME IInv, NEW r \in Reader, Fetch(r)
    PROVE  IInv'
<1> USE CacheAssumption DEF IInv, TypeOK, Fetch, envVars, cacheVars, Good, Fetching
<1>1. TypeOK'
  BY DEF RefsSound, FlightObject
<1>2. RefsSound'
  BY DEF RefsSound, FloorsReached, FlightsSound, Reading, FlightObject
<1>3. /\ FloorsReached'
       /\ CacheSinceInvalidation'
       /\ FlightsSound'
       /\ InflightOwn'
       /\ ReadersSound'
       /\ LeadersCurrent'
       /\ OneFetchPerVersion'
  BY DEF FloorsReached, CacheSinceInvalidation, FlightsSound, InflightOwn, ReadersSound, LeadersCurrent, OneFetchPerVersion
<1>4. QED
  BY <1>1, <1>2, <1>3

(* What is kept comes from a flight of the present version; a flight that
   is withdrawn is the one its leader led. *)
LEMMA PublishIInv ==
    ASSUME IInv, NEW r \in Reader, Publish(r)
    PROVE  IInv'
<1> USE CacheAssumption DEF IInv, TypeOK, Publish, Deliver, Lifetime, envVars, cacheVars, Good, Fetching
<1>1. TypeOK'
  <2>1. question[r] \in Question /\ ref[r] \in Flight /\ flight[ref[r]] \in FlightObject
    BY DEF RefsSound, ReadersSound
  <2>2. answer[r] \in Reading \cup {Failed}
    BY DEF RefsSound, ReadersSound
  <2>3. PICK account \in Account : account = question[r].account
    BY <2>1 DEF Question
  <2>4. PICK entry \in Entry :
          entry = [result |-> answer[r], expiresAt |-> clock + Lifetime(answer[r])]
    BY <2>2 DEF Entry
  <2>5. entries' \in [Account -> Entry \cup {None}]
    BY <2>3, <2>4
  <2>6. PICK object \in FlightObject : object = [flight[ref[r]] EXCEPT !.result = answer[r]]
    BY <2>1, <2>2 DEF FlightObject
  <2>7. flight' = [flight EXCEPT ![ref[r]] = object]
    BY <2>1, <2>6
  <2>8. flight' \in [Flight -> FlightObject \cup {None}]
    BY <2>6, <2>7
  <2>9. inflight' \in [Account -> Flight \cup {None}]
    BY <2>3
  <2>10. QED
    BY <2>5, <2>8, <2>9
<1>2. CacheSinceInvalidation'
  BY DEF CacheSinceInvalidation, FlightsSound, RefsSound, Reading
<1>3. FlightsSound'
  BY DEF FlightsSound, RefsSound
<1>4. InflightOwn'
  <2>1. \A account \in Account : inflight'[account] # None => inflight'[account] = inflight[account]
    OBVIOUS
  <2>2. \A f \in Flight : flight[f] # None =>
          flight'[f] # None /\ flight'[f].account = flight[f].account
    BY DEF FlightObject
  <2>3. QED
    BY <2>1, <2>2 DEF InflightOwn
<1>5. ReadersSound'
  BY DEF ReadersSound, RefsSound, Question, Reading, FlightObject
<1>6. RefsSound'
  BY DEF RefsSound, FlightObject
<1>7. LeadersCurrent'
  BY DEF LeadersCurrent, OneFetchPerVersion
<1>8. FloorsReached' /\ OneFetchPerVersion'
  BY DEF FloorsReached, OneFetchPerVersion
<1>9. QED
  BY <1>1, <1>2, <1>3, <1>4, <1>5, <1>6, <1>7, <1>8

(* A follower's answer is its flight's result. *)
LEMMA WakeIInv ==
    ASSUME IInv, NEW r \in Reader, Wake(r)
    PROVE  IInv'
<1> USE CacheAssumption DEF IInv, TypeOK, Wake, envVars, cacheVars, Good, Fetching
<1>1. TypeOK'
  BY DEF RefsSound, FlightObject
<1>2. ReadersSound'
  BY DEF ReadersSound, RefsSound, FlightsSound, Question, Reading, FlightObject
<1>3. /\ FloorsReached'
       /\ CacheSinceInvalidation'
       /\ FlightsSound'
       /\ InflightOwn'
       /\ RefsSound'
       /\ LeadersCurrent'
       /\ OneFetchPerVersion'
  BY DEF FloorsReached, CacheSinceInvalidation, FlightsSound, InflightOwn, RefsSound, LeadersCurrent, OneFetchPerVersion
<1>4. QED
  BY <1>1, <1>2, <1>3

(* A follower that gives up answers with an error. *)
LEMMA GiveUpIInv ==
    ASSUME IInv, NEW r \in Reader, GiveUp(r)
    PROVE  IInv'
<1> USE CacheAssumption DEF IInv, TypeOK, GiveUp, envVars, cacheVars, Good, Fetching
<1>1. /\ TypeOK'
       /\ FloorsReached'
       /\ CacheSinceInvalidation'
       /\ FlightsSound'
       /\ InflightOwn'
       /\ ReadersSound'
       /\ RefsSound'
       /\ LeadersCurrent'
       /\ OneFetchPerVersion'
  BY DEF FloorsReached, CacheSinceInvalidation, FlightsSound, InflightOwn, ReadersSound, RefsSound, LeadersCurrent, OneFetchPerVersion
<1>2. QED
  BY <1>1

(* Leaving load forgets the question. *)
LEMMA ReturnIInv ==
    ASSUME IInv, NEW r \in Reader, Return(r)
    PROVE  IInv'
<1> USE CacheAssumption DEF IInv, TypeOK, Return, envVars, cacheVars, Good, Fetching
<1>1. /\ TypeOK'
       /\ FloorsReached'
       /\ CacheSinceInvalidation'
       /\ FlightsSound'
       /\ InflightOwn'
       /\ ReadersSound'
       /\ RefsSound'
       /\ LeadersCurrent'
       /\ OneFetchPerVersion'
  BY DEF FloorsReached, CacheSinceInvalidation, FlightsSound, InflightOwn, ReadersSound, RefsSound, LeadersCurrent, OneFetchPerVersion
<1>2. QED
  BY <1>1

(* Time passes. *)
LEMMA TickIInv ==
    ASSUME IInv, Tick
    PROVE  IInv'
<1> USE CacheAssumption DEF IInv, TypeOK, Tick, envVars, cacheVars, Good, Fetching
<1>1. /\ TypeOK'
       /\ FloorsReached'
       /\ CacheSinceInvalidation'
       /\ FlightsSound'
       /\ InflightOwn'
       /\ ReadersSound'
       /\ RefsSound'
       /\ LeadersCurrent'
       /\ OneFetchPerVersion'
  BY DEF FloorsReached, CacheSinceInvalidation, FlightsSound, InflightOwn, ReadersSound, RefsSound, LeadersCurrent, OneFetchPerVersion
<1>2. QED
  BY <1>1

-----------------------------------------------------------------------------
(* Every step keeps the strengthened invariant.                            *)
LEMMA NextIInv == IInv /\ [Next]_vars => IInv'
<1> SUFFICES ASSUME IInv, [Next]_vars PROVE IInv'
  OBVIOUS
<1>1. CASE \E a \in Account : Change(a) \/ Invalidate(a)
  BY <1>1, ChangeIInv, InvalidateIInv
<1>2. CASE \E r \in Reader, a \in Account : Query(r, a) \/ QueryFresh(r, a)
  BY <1>2, QueryIInv, QueryFreshIInv
<1>3. ASSUME NEW r \in Reader,
             \/ Hit(r) \/ Join(r) \/ Lead(r) \/ Fetch(r)
             \/ Publish(r) \/ Wake(r) \/ GiveUp(r) \/ Return(r)
      PROVE  IInv'
  BY <1>3, HitIInv, JoinIInv, LeadIInv, FetchIInv, PublishIInv, WakeIInv, GiveUpIInv, ReturnIInv
<1>4. CASE Tick
  BY <1>4, TickIInv
<1>5. CASE UNCHANGED vars
  BY <1>5 DEF vars, IInv, TypeOK, FloorsReached, CacheSinceInvalidation, Good, FlightsSound,
     InflightOwn, ReadersSound, RefsSound, LeadersCurrent, OneFetchPerVersion, Fetching
<1>6. QED
  BY <1>1, <1>2, <1>3, <1>4, <1>5 DEF Next

(* The strengthened invariant holds in every reachable state.              *)
THEOREM Inductive == Spec => []IInv
BY InitIInv, NextIInv, PTL DEF Spec

(* Type correctness of the cache, its flights and its callers.             *)
THEOREM TypeCorrect == Spec => []TypeOK
BY Inductive, PTL DEF IInv

(* The cache never holds a reading from before the last invalidation.      *)
THEOREM CacheFresh == Spec => []CacheSinceInvalidation
BY Inductive, PTL DEF IInv

(* Between two invalidations an account is fetched by one reader at most.  *)
THEOREM Coalescing == Spec => []OneFetchPerVersion
BY Inductive, PTL DEF IInv

-----------------------------------------------------------------------------
(* A step that turns a question into a reply that is good for it is an     *)
(* Answer of FreshAnswers.                                                 *)
LEMMA RepliesAnswer ==
    ASSUME IInv, IInv', NEW r \in Reader, pc[r] # "idle", pc[r] # "answered",
           pc' = [pc EXCEPT ![r] = "answered"],
           \A t \in Reader \ {r} : answer'[t] = answer[t],
           UNCHANGED <<quota, floor, question>>
    PROVE  Promise!Answer(r)
<1> DEFINE x == answer'[r]
<1>1. pc'[r] = "answered"
  BY DEF IInv, TypeOK
<1>2. question[r] \in Question /\ Reply[r] = None
  BY DEF IInv, TypeOK, ReadersSound, Reply
<1>3. x \in {Failed} \cup (question[r].since .. quota[question[r].account])
  BY <1>1, <1>2, CacheAssumption DEF IInv, TypeOK, ReadersSound, Good, Question, Reading
<1>4. Reply' = [Reply EXCEPT ![r] = x]
  BY <1>1 DEF Reply, IInv, TypeOK
<1>5. QED
  BY <1>2, <1>3, <1>4, CacheAssumption DEF Promise!Answer, Question

(* No answer is older than the last invalidation before its question: the  *)
(* cache implements FreshAnswers.                                          *)
THEOREM Freshness == Spec => AnswersFresh
<1>1. Init => Promise!Init
  BY DEF Init, Promise!Init, Reply
<1>2. ASSUME IInv, IInv', [Next]_vars PROVE [Promise!Next]_(Promise!vars)
  <2> USE <1>2 DEF envVars, cacheVars
  <2>1. ASSUME NEW a \in Account, Change(a) PROVE Promise!Change(a)
    BY <2>1 DEF Change, Promise!Change, Reply
  <2>2. ASSUME NEW a \in Account, Invalidate(a) PROVE Promise!Forget(a)
    BY <2>2 DEF Invalidate, Drop, Promise!Forget, Reply
  <2>3. ASSUME NEW r \in Reader, NEW a \in Account, Query(r, a) PROVE Promise!Ask(r, a)
    <3>1. question[r] = None
      BY <2>3 DEF Query, Ask, IInv, ReadersSound
    <3>2. Reply' = Reply
      BY <2>3 DEF Query, Ask, Reply, IInv, TypeOK
    <3>3. QED
      BY <2>3, <3>1, <3>2 DEF Query, Ask, Promise!Ask
  <2>4. ASSUME NEW r \in Reader, NEW a \in Account, QueryFresh(r, a) PROVE Promise!AskAfresh(r, a)
    <3>1. question[r] = None
      BY <2>4 DEF QueryFresh, Ask, IInv, ReadersSound
    <3>2. Reply' = Reply
      BY <2>4 DEF QueryFresh, Ask, Reply, IInv, TypeOK
    <3>3. QED
      BY <2>4, <3>1, <3>2 DEF QueryFresh, Ask, Drop, Promise!AskAfresh
  <2>5. ASSUME NEW r \in Reader, Hit(r) \/ Wake(r) \/ GiveUp(r) \/ Publish(r)
        PROVE  Promise!Answer(r)
    <3>1. pc[r] # "idle" /\ pc[r] # "answered" /\ pc' = [pc EXCEPT ![r] = "answered"]
      BY <2>5 DEF Hit, Wake, GiveUp, Publish, Deliver
    <3>2. \A t \in Reader \ {r} : answer'[t] = answer[t]
      BY <2>5 DEF Hit, Wake, GiveUp, Publish, Deliver, IInv, TypeOK
    <3>3. UNCHANGED <<quota, floor, question>>
      BY <2>5 DEF Hit, Wake, GiveUp, Publish, Deliver
    <3>4. QED
      BY <3>1, <3>2, <3>3, RepliesAnswer
  <2>6. ASSUME NEW r \in Reader, Return(r) PROVE Promise!Leave(r)
    <3>1. Reply[r] # None
      BY <2>6 DEF Return, Reply, IInv, ReadersSound
    <3>2. Reply' = [Reply EXCEPT ![r] = None]
      BY <2>6 DEF Return, Reply, IInv, TypeOK
    <3>3. QED
      BY <2>6, <3>1, <3>2 DEF Return, Promise!Leave
  <2>7. ASSUME NEW r \in Reader, Join(r) \/ Lead(r) \/ Fetch(r) PROVE UNCHANGED Promise!vars
    <3>1. Reply' = Reply
      BY <2>7 DEF Join, Lead, Fetch, Reply, IInv, TypeOK
    <3>2. QED
      BY <2>7, <3>1 DEF Join, Lead, Fetch, Promise!vars
  <2>8. ASSUME Tick \/ UNCHANGED vars PROVE UNCHANGED Promise!vars
    BY <2>8 DEF Tick, vars, Reply, Promise!vars
  <2>9. QED
    BY <2>1, <2>2, <2>3, <2>4, <2>5, <2>6, <2>7, <2>8 DEF Next, Promise!Next
<1>3. QED
  BY <1>1, <1>2, Inductive, PTL DEF Spec, AnswersFresh, Promise!Spec

=============================================================================
