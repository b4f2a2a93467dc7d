------------------------ MODULE UserUsageCacheProofs ------------------------
(* The safety properties of UserUsageCache, proved for any number of       *)
(* readers, keys and flights, any lifetimes and any bounds.                *)
EXTENDS UserUsageCache, TLAPS

\* A reader outside load asks nothing; one inside asks something that is not
\* from the future, and has an answer only when load is about to return.
QuestionsSound ==
    \A r \in Reader :
        /\ pc[r] = "idle" <=> question[r] = None
        /\ pc[r] # "idle" =>
              /\ question[r].since <= Len(loads[question[r].key])
              /\ question[r].at <= clock
        /\ pc[r] = "answered" <=> answer[r] # None

\* A flight that is done stands for a load of its key and kind.
FlightsSound ==
    \A f \in Flight : flight[f] # None /\ flight[f].load # 0 =>
        /\ flight[f].load <= Len(loads[flight[f].key])
        /\ loads[flight[f].key][flight[f].load].forced = flight[f].force

\* inflight[k] is a flight for k that is not done.
InflightOpen ==
    \A k \in Key : inflight[k] # None =>
        /\ flight[inflight[k]] # None
        /\ flight[inflight[k]].key = k
        /\ flight[inflight[k]].load = 0

\* A reader that leads or waits refers to a flight for its key that is not
\* done or was done after the question; a leader leads its key's flight.
RefsSound ==
    \A r \in Reader :
        /\ pc[r] \in {"waiting", "fetching"} <=> ref[r] # None
        /\ ref[r] # None =>
              /\ flight[ref[r]] # None
              /\ flight[ref[r]].key = question[r].key
              /\ flight[ref[r]].load = 0 \/ flight[ref[r]].load > question[r].since
        /\ pc[r] = "fetching" =>
              /\ inflight[question[r].key] = ref[r]
              /\ flight[ref[r]].force = question[r].force

\* What is kept for a key is its last load, for that load's lifetime.
EntriesLatest ==
    \A k \in Key : entries[k] # None =>
        LET n == entries[k].load IN
        /\ n = Len(loads[k]) /\ n # 0
        /\ entries[k].expiresAt = loads[k][n].ended + Lifetime(loads[k][n].failed)

IInv ==
    /\ TypeOK
    /\ QuestionsSound
    /\ FlightsSound
    /\ InflightOpen
    /\ RefsSound
    /\ EntriesLatest
    /\ OneLoadPerKey

-----------------------------------------------------------------------------
(* The strengthened invariant holds at the start.                          *)
LEMMA InitIInv == Init => IInv
BY UsageCacheAssumption
   DEF Init, IInv, TypeOK, QuestionsSound, FlightsSound, InflightOpen, RefsSound,
       EntriesLatest, OneLoadPerKey

(* Sweeping out expired entries leaves entries of the same kind.           *)
LEMMA KeptSound ==
    ASSUME IInv
    PROVE  /\ Kept \in [Key -> Entry \cup {None}]
           /\ \A k \in Key : Kept[k] # None =>
                 Kept[k] = entries[k] /\ clock < entries[k].expiresAt
BY UsageCacheAssumption DEF IInv, TypeOK, Kept, Entry

(* A question starts with the loads there are and at the present time.     *)
LEMMA AskIInv ==
    ASSUME IInv, NEW r \in Reader, NEW k \in Key, NEW force \in BOOLEAN, Ask(r, k, force)
    PROVE  IInv'
<1> USE UsageCacheAssumption DEF IInv, TypeOK, Ask
<1>1. TypeOK'
  BY DEF Question
<1>2. QuestionsSound'
  BY DEF QuestionsSound, Question
<1>3. /\ FlightsSound' /\ InflightOpen' /\ RefsSound'
      /\ EntriesLatest' /\ OneLoadPerKey'
  BY DEF FlightsSound, InflightOpen, RefsSound, EntriesLatest, OneLoadPerKey
<1>4. QED
  BY <1>1, <1>2, <1>3

(* A follower's flight is not done yet.                                    *)
LEMMA JoinIInv ==
    ASSUME IInv, NEW r \in Reader, Join(r)
    PROVE  IInv'
<1> USE UsageCacheAssumption, KeptSound DEF IInv, TypeOK, Join, Enter
<1>1. TypeOK'
  BY DEF QuestionsSound, Question
<1>2. RefsSound'
  BY DEF RefsSound, QuestionsSound, InflightOpen, Question
<1>3. EntriesLatest'
  BY DEF EntriesLatest
<1>4. QuestionsSound' /\ FlightsSound' /\ InflightOpen' /\ OneLoadPerKey'
  BY DEF QuestionsSound, FlightsSound, InflightOpen, OneLoadPerKey
<1>5. QED
  BY <1>1, <1>2, <1>3, <1>4

(* A hit takes the number of an entry.                                     *)
LEMMA HitIInv ==
    ASSUME IInv, NEW r \in Reader, Hit(r)
    PROVE  IInv'
<1> USE DEF IInv, TypeOK
<1>1. /\ pc[r] = "loading"
      /\ pc' = [pc EXCEPT ![r] = "answered"]
      /\ entries' = Kept
      /\ UNCHANGED <<clock, loads, inflight, flight, question, ref>>
  BY DEF Hit, Enter
<1>2. question[r] \in Question
  BY <1>1 DEF QuestionsSound
<1>3. PICK k \in Key : k = question[r].key
  BY <1>2 DEF Question
<1>4. Kept[k] # None /\ answer' = [answer EXCEPT ![r] = Kept[k].load]
  BY <1>3 DEF Hit
<1>5. Kept[k] \in Entry
  BY <1>4, KeptSound
<1>6. Kept[k].load \in Nat /\ None \notin Nat
  BY <1>5, UsageCacheAssumption DEF Entry
<1>7. TypeOK' /\ answer'[r] # None
  BY <1>1, <1>4, <1>6, KeptSound
<1>8. QuestionsSound'
  BY <1>1, <1>4, <1>7 DEF QuestionsSound
<1>9. EntriesLatest'
  BY <1>1, KeptSound DEF EntriesLatest
<1>10. FlightsSound' /\ InflightOpen' /\ RefsSound' /\ OneLoadPerKey'
  BY <1>1 DEF FlightsSound, InflightOpen, RefsSound, OneLoadPerKey
<1>11. QED
  BY <1>7, <1>8, <1>9, <1>10

(* A leader starts when no flight is under way for the key.                *)
LEMMA LeadIInv ==
    ASSUME IInv, NEW r \in Reader, Lead(r)
    PROVE  IInv'
<1> USE DEF IInv, TypeOK
<1>1. /\ pc[r] = "loading"
      /\ pc' = [pc EXCEPT ![r] = "fetching"]
      /\ entries' = Kept
      /\ UNCHANGED <<clock, loads, question, answer>>
  BY DEF Lead, Start, Enter
<1>2. question[r] \in Question
  BY <1>1 DEF QuestionsSound
<1>3. PICK k \in Key : k = question[r].key
  BY <1>2 DEF Question
<1>4. PICK object \in FlightObject :
        object = [key |-> k, force |-> question[r].force, load |-> 0]
  BY <1>2, <1>3 DEF Question, FlightObject
<1>5. PICK f \in Flight : /\ f \in Unreferenced
                         /\ flight' = [flight EXCEPT ![f] = object]
                         /\ inflight' = [inflight EXCEPT ![k] = f]
                         /\ ref' = [ref EXCEPT ![r] = f]
  BY <1>3, <1>4 DEF Lead, Start, Unreferenced
<1>6. /\ \A j \in Key : inflight[j] # f
      /\ \A t \in Reader : ref[t] # f
      /\ inflight[k] = None
  BY <1>3, <1>5 DEF Unreferenced, Lead
<1>7. object # None /\ f # None
  BY UsageCacheAssumption
<1>8. TypeOK'
  BY <1>1, <1>4, <1>5, KeptSound
<1>9. QuestionsSound'
  BY <1>1 DEF QuestionsSound
<1>10. FlightsSound'
  BY <1>1, <1>4, <1>5 DEF FlightsSound
<1>11. InflightOpen'
  BY <1>4, <1>5, <1>6, <1>7 DEF InflightOpen
<1>12. RefsSound'
  BY <1>1, <1>3, <1>4, <1>5, <1>6, <1>7 DEF RefsSound
<1>13. EntriesLatest'
  BY <1>1, KeptSound DEF EntriesLatest
<1>14. OneLoadPerKey'
  BY <1>1, <1>3, <1>6 DEF OneLoadPerKey, RefsSound
<1>15. QED
  BY <1>8, <1>9, <1>10, <1>11, <1>12, <1>13, <1>14

(* The load that ends becomes the key's last one.                          *)
LEMMA PublishIInv ==
    ASSUME IInv, NEW r \in Reader, Publish(r)
    PROVE  IInv'
<1> USE UsageCacheAssumption DEF IInv, TypeOK
<1>1. PICK failed \in BOOLEAN : Record(r, failed)
  BY DEF Publish
<1>2. question[r] \in Question /\ ref[r] \in Flight /\ flight[ref[r]] \in FlightObject
  BY <1>1 DEF Record, QuestionsSound, RefsSound
<1>3. PICK k \in Key : k = question[r].key
  BY <1>2 DEF Question
<1>4. PICK load \in Load :
        load = [ended |-> clock, forced |-> question[r].force, failed |-> failed]
  BY <1>2 DEF Question, Load
<1>5. PICK n \in Nat \ {0} : n = Len(loads[k]) + 1
  BY <1>3
<1>6. /\ Len(loads'[k]) = n
      /\ loads'[k][n] = load
      /\ \A m \in 1..Len(loads[k]) : loads'[k][m] = loads[k][m]
      /\ \A j \in Key \ {k} : loads'[j] = loads[j]
      /\ loads' \in [Key -> Seq(Load)]
  <2>1. loads' = [loads EXCEPT ![k] = Append(loads[k], load)] /\ loads[k] \in Seq(Load)
    BY <1>1, <1>3, <1>4 DEF Record
  <2>2. QED
    BY <2>1, <1>5
<1>7. \A j \in Key :
        /\ Len(loads[j]) \in Nat /\ Len(loads[j]) <= Len(loads'[j])
        /\ \A m \in Nat \ {0} : m <= Len(loads[j]) => loads'[j][m] = loads[j][m]
  <2> SUFFICES ASSUME NEW j \in Key
               PROVE  /\ Len(loads[j]) \in Nat /\ Len(loads[j]) <= Len(loads'[j])
                      /\ \A m \in Nat \ {0} : m <= Len(loads[j]) => loads'[j][m] = loads[j][m]
    OBVIOUS
  <2>1. loads[j] \in Seq(Load)
    OBVIOUS
  <2>2. Len(loads[j]) \in Nat
    BY <2>1
  <2>3. CASE j = k
    BY <2>2, <2>3, <1>5, <1>6
  <2>4. CASE j # k
    BY <2>2, <2>4, <1>6
  <2>5. QED
    BY <2>3, <2>4
<1>8. /\ \A f \in Flight \ {ref[r]} : flight'[f] = flight[f]
      /\ flight'[ref[r]] # None
      /\ flight'[ref[r]] = [key |-> k, force |-> question[r].force, load |-> n]
      /\ flight' \in [Flight -> FlightObject \cup {None}]
  <2>1. flight' = [flight EXCEPT ![ref[r]].load = n]
    BY <1>1, <1>3, <1>5 DEF Record
  <2>2. flight[ref[r]].key = k /\ flight[ref[r]].force = question[r].force
    BY <1>1, <1>3 DEF Record, RefsSound
  <2>3. \E x \in Key, y \in BOOLEAN, z \in Nat : flight[ref[r]] = [key |-> x, force |-> y, load |-> z]
    BY <1>2 DEF FlightObject
  <2>4. flight'[ref[r]] = [key |-> k, force |-> question[r].force, load |-> n]
    BY <1>2, <2>1, <2>2, <2>3
  <2>5. flight'[ref[r]] \in FlightObject
    BY <1>2, <1>3, <1>5, <2>4 DEF FlightObject, Question
  <2>6. QED
    BY <1>2, <2>1, <2>4, <2>5
<1>9. /\ entries' = [entries EXCEPT ![k] = [load |-> n, expiresAt |-> clock + Lifetime(failed)]]
      /\ inflight' = [inflight EXCEPT ![k] = None]
      /\ answer' = [answer EXCEPT ![r] = n]
      /\ ref' = [ref EXCEPT ![r] = None]
      /\ pc' = [pc EXCEPT ![r] = "answered"]
      /\ UNCHANGED <<clock, question>>
      /\ pc[r] = "fetching"
  BY <1>1, <1>3, <1>5 DEF Record, Publish
<1>10. TypeOK'
  <2>1. entries' \in [Key -> Entry \cup {None}]
    BY <1>9, <1>5 DEF Lifetime, Entry
  <2>2. QED
    BY <1>5, <1>6, <1>8, <1>9, <2>1
<1>11. QuestionsSound'
  <2>1. \A j \in Key : Len(loads[j]) \in Nat /\ Len(loads[j]) <= Len(loads'[j])
    BY <1>7
  <2>2. ASSUME NEW t \in Reader, pc[t] # "idle" PROVE question[t].since <= Len(loads'[question[t].key])
    <3>1. question[t] \in Question
      BY <2>2 DEF QuestionsSound
    <3>2. question[t].key \in Key /\ question[t].since \in Nat
      BY <3>1 DEF Question
    <3>3. question[t].since <= Len(loads[question[t].key])
      BY <2>2 DEF QuestionsSound
    <3>4. /\ Len(loads[question[t].key]) <= Len(loads'[question[t].key])
          /\ Len(loads[question[t].key]) \in Nat /\ Len(loads'[question[t].key]) \in Nat
      BY <2>1, <3>2, <1>6
    <3>5. QED
      BY <3>2, <3>3, <3>4
  <2>3. \A t \in Reader : pc[t] = "idle" <=> pc'[t] = "idle"
    BY <1>9
  <2>4. n # None
    BY <1>5
  <2>5. QED
    BY <1>9, <2>2, <2>3, <2>4 DEF QuestionsSound
<1>12. FlightsSound'
  <2> SUFFICES ASSUME NEW f \in Flight, flight'[f] # None, flight'[f].load # 0
               PROVE  /\ flight'[f].load <= Len(loads'[flight'[f].key])
                      /\ loads'[flight'[f].key][flight'[f].load].forced = flight'[f].force
    BY DEF FlightsSound
  <2>1. CASE f = ref[r]
    BY <2>1, <1>4, <1>5, <1>6, <1>8
  <2>2. CASE f # ref[r]
    <3>1. flight'[f] = flight[f] /\ flight[f].key \in Key /\ flight[f].load \in Nat
      BY <2>2, <1>8 DEF FlightObject
    <3>2. /\ flight[f].load <= Len(loads[flight[f].key])
          /\ loads[flight[f].key][flight[f].load].forced = flight[f].force
      BY <3>1 DEF FlightsSound
    <3>3. PICK j \in Key, m \in Nat \ {0} : j = flight[f].key /\ m = flight[f].load
      BY <3>1
    <3>4. /\ m <= Len(loads[j]) /\ Len(loads[j]) <= Len(loads'[j])
          /\ loads'[j][m] = loads[j][m] /\ loads[j][m].forced = flight[f].force
          /\ Len(loads[j]) \in Nat /\ Len(loads'[j]) \in Nat
      BY <3>2, <3>3, <1>6, <1>7
    <3>5. QED
      BY <3>1, <3>3, <3>4
  <2>3. QED
    BY <2>1, <2>2
<1>13. inflight[k] = ref[r]
  BY <1>3, <1>9 DEF RefsSound
<1>14. InflightOpen'
  <2> SUFFICES ASSUME NEW j \in Key, inflight'[j] # None
               PROVE  /\ flight'[inflight'[j]] # None
                      /\ flight'[inflight'[j]].key = j
                      /\ flight'[inflight'[j]].load = 0
    BY DEF InflightOpen
  <2>1. j # k /\ inflight'[j] = inflight[j] /\ inflight[j] \in Flight
    BY <1>9
  <2>2. inflight[j] # ref[r]
    <3>1. inflight[j] # None /\ inflight[k] # None
      BY <2>1, <1>2, <1>13
    <3>2. flight[inflight[j]].key = j /\ flight[inflight[k]].key = k
      BY <3>1 DEF InflightOpen
    <3>3. QED
      BY <2>1, <3>2, <1>13
  <2>3. QED
    BY <2>1, <2>2, <1>8 DEF InflightOpen
<1>15. RefsSound'
  <2>1. ASSUME NEW t \in Reader, t # r, ref[t] # None, ref[t] = ref[r]
        PROVE  pc[t] # "fetching" /\ n > question[t].since
    <3>1. question[t].key = k /\ pc[t] # "idle"
      BY <2>1, <1>3, <1>9 DEF RefsSound
    <3>2. question[t].since <= Len(loads[k]) /\ question[t].since \in Nat
      BY <3>1 DEF QuestionsSound, Question
    <3>3. pc[t] # "fetching"
      BY <2>1, <3>1, <1>3, <1>9 DEF OneLoadPerKey
    <3>4. QED
      BY <3>2, <3>3, <1>5
  <2>2. ASSUME NEW t \in Reader, t # r, pc[t] = "fetching"
        PROVE  question[t].key # k
    BY <2>2, <1>3, <1>9 DEF OneLoadPerKey
  <2>3. ASSUME NEW t \in Reader, t # r, ref[t] # None, ref[t] = ref[r]
        PROVE  /\ flight'[ref[t]] # None
               /\ flight'[ref[t]].key = question[t].key
               /\ flight'[ref[t]].load > question[t].since
    <3>1. question[t].key = k
      BY <2>3, <1>3, <1>9 DEF RefsSound
    <3>2. QED
      BY <2>1, <2>3, <3>1, <1>8
  <2>4. ASSUME NEW t \in Reader, t # r, ref[t] # None, ref[t] # ref[r]
        PROVE  flight'[ref[t]] = flight[ref[t]]
    BY <2>4, <1>8
  <2>5. \A t \in Reader \ {r} : pc'[t] = pc[t] /\ ref'[t] = ref[t] /\ question'[t] = question[t]
    BY <1>9
  <2>6. pc'[r] = "answered" /\ ref'[r] = None
    BY <1>9
  <2>7. ASSUME NEW t \in Reader, t # r, pc[t] = "fetching"
        PROVE  inflight'[question[t].key] = ref[t] /\ ref[t] # ref[r]
    BY <2>1, <2>2, <2>7, <1>9 DEF RefsSound
  <2>8. QED
    BY <2>3, <2>4, <2>5, <2>6, <2>7 DEF RefsSound
<1>16. EntriesLatest'
  BY <1>4, <1>5, <1>6, <1>9 DEF EntriesLatest, Lifetime, Entry
<1>17. OneLoadPerKey'
  BY <1>9 DEF OneLoadPerKey
<1>18. QED
  BY <1>10, <1>11, <1>12, <1>14, <1>15, <1>16, <1>17

(* A follower answers with its flight's load or starts over.               *)
LEMMA WakeIInv ==
    ASSUME IInv, NEW r \in Reader, Wake(r)
    PROVE  IInv'
<1> USE UsageCacheAssumption DEF IInv, TypeOK
<1>1. flight[ref[r]].load \in Nat /\ pc[r] = "waiting" /\ answer[r] = None /\ question[r] # None
  BY DEF Wake, RefsSound, FlightObject, QuestionsSound
<1>2. /\ ref' = [ref EXCEPT ![r] = None]
      /\ UNCHANGED <<clock, loads, entries, inflight, flight, question>>
  BY DEF Wake
<1>3. \/ pc' = [pc EXCEPT ![r] = "loading"] /\ answer' = answer
      \/ pc' = [pc EXCEPT ![r] = "answered"] /\ answer' = [answer EXCEPT ![r] = flight[ref[r]].load]
  BY DEF Wake
<1>4. TypeOK'
  BY <1>1, <1>2, <1>3
<1>5. QuestionsSound'
  BY <1>1, <1>2, <1>3 DEF QuestionsSound
<1>6. RefsSound'
  BY <1>2, <1>3 DEF RefsSound
<1>7. FlightsSound' /\ InflightOpen' /\ EntriesLatest' /\ OneLoadPerKey'
  BY <1>2, <1>3 DEF FlightsSound, InflightOpen, EntriesLatest, OneLoadPerKey
<1>8. QED
  BY <1>4, <1>5, <1>6, <1>7

(* A follower that gives up, a return and the clock disturb nothing.       *)
LEMMA QuietIInv ==
    ASSUME IInv, (\E r \in Reader : GiveUp(r) \/ Return(r)) \/ Tick
    PROVE  IInv'
<1> USE UsageCacheAssumption DEF IInv, TypeOK
<1>1. ASSUME NEW r \in Reader, GiveUp(r) PROVE IInv'
  BY <1>1 DEF GiveUp, QuestionsSound, FlightsSound, InflightOpen, RefsSound, EntriesLatest, OneLoadPerKey
<1>2. ASSUME NEW r \in Reader, Return(r) PROVE IInv'
  BY <1>2 DEF Return, QuestionsSound, FlightsSound, InflightOpen, RefsSound, EntriesLatest, OneLoadPerKey
<1>3. ASSUME Tick PROVE IInv'
  <2>1. TypeOK'
    BY <1>3 DEF Tick
  <2>2. QuestionsSound'
    BY <1>3 DEF Tick, QuestionsSound, Question
  <2>3. QED
    BY <1>3, <2>1, <2>2 DEF Tick, FlightsSound, InflightOpen, RefsSound, EntriesLatest, OneLoadPerKey
<1>4. QED
  BY <1>1, <1>2, <1>3

-----------------------------------------------------------------------------
(* Every step keeps the strengthened invariant.                            *)
LEMMA NextIInv == IInv /\ [Next]_vars => IInv'
<1> SUFFICES ASSUME IInv, [Next]_vars PROVE IInv'
  OBVIOUS
<1>1. ASSUME NEW r \in Reader, NEW k \in Key, NEW force \in BOOLEAN, Ask(r, k, force)
      PROVE  IInv'
  BY <1>1, AskIInv
<1>2. ASSUME NEW r \in Reader, Join(r) \/ Hit(r) \/ Lead(r) \/ Publish(r) \/ Wake(r)
      PROVE  IInv'
  BY <1>2, JoinIInv, HitIInv, LeadIInv, PublishIInv, WakeIInv
<1>3. CASE UNCHANGED vars
  BY <1>3 DEF vars, IInv, TypeOK, QuestionsSound, FlightsSound, InflightOpen, RefsSound,
     EntriesLatest, OneLoadPerKey
<1>4. QED
  BY <1>1, <1>2, <1>3, QuietIInv DEF Next

(* The strengthened invariant holds in every reachable state.              *)
THEOREM Inductive == Spec => []IInv
BY InitIInv, NextIInv, PTL DEF Spec

(* Type correctness of the cache, its flights and its callers.             *)
THEOREM TypeCorrect == Spec => []TypeOK
BY Inductive, PTL DEF IInv

(* Loads of one key never overlap.                                         *)
THEOREM Serialized == Spec => []OneLoadPerKey
BY Inductive, PTL DEF IInv

-----------------------------------------------------------------------------
(* An answer that is a load is one that may answer the question.           *)
LEMMA SharedAnswers ==
    ASSUME IInv, NEW r \in Reader, Hit(r) \/ (Wake(r) /\ pc'[r] = "answered")
    PROVE  Promise!Share(r)
<1> USE UsageCacheAssumption DEF IInv, TypeOK
<1>1. pc[r] \in {"loading", "waiting"}
  BY DEF Hit, Wake, Enter
<1>2. question[r] \in Question /\ question[r] # None /\ answer[r] = None
  BY <1>1 DEF QuestionsSound
<1>3. PICK k \in Key : k = question[r].key
  BY <1>2 DEF Question
<1>4. question[r].since \in Nat /\ question[r].since <= Len(loads[k]) /\ question[r].at <= clock
  BY <1>1, <1>2, <1>3 DEF QuestionsSound, Question
<1>5. PICK n : /\ answer' = [answer EXCEPT ![r] = n]
               /\ n \in 1..Len(loads[k])
               /\ IF question[r].force
                  THEN n > question[r].since /\ loads[k][n].forced
                  ELSE \/ n > question[r].since
                       \/ /\ n = question[r].since
                          /\ question[r].at < loads[k][n].ended + Lifetime(loads[k][n].failed)
  <2>1. CASE Hit(r)
    <3>1. /\ entries[k] # None /\ clock < entries[k].expiresAt /\ ~question[r].force
          /\ answer' = [answer EXCEPT ![r] = entries[k].load]
      BY <2>1, <1>3, KeptSound DEF Hit
    <3>2. /\ entries[k].load = Len(loads[k]) /\ entries[k].load # 0
          /\ entries[k].expiresAt =
               loads[k][entries[k].load].ended + Lifetime(loads[k][entries[k].load].failed)
      BY <3>1 DEF EntriesLatest
    <3>3. entries[k].load \in Nat /\ entries[k].expiresAt \in Nat
      BY <3>1 DEF Entry
    <3>4. question[r].at < entries[k].expiresAt
      BY <1>2, <1>4, <3>1, <3>3 DEF Question
    <3>5. entries[k].load \in 1..Len(loads[k])
      BY <3>2, <3>3
    <3>6. entries[k].load > question[r].since \/ entries[k].load = question[r].since
      BY <1>4, <3>2, <3>3
    <3>7. QED
      BY <3>1, <3>2, <3>4, <3>5, <3>6
  <2>2. CASE Wake(r) /\ pc'[r] = "answered"
    <3>1. /\ pc[r] = "waiting" /\ flight[ref[r]].load # 0
          /\ ~question[r].force \/ flight[ref[r]].force
          /\ answer' = [answer EXCEPT ![r] = flight[ref[r]].load]
      BY <2>2 DEF Wake
    <3>2. /\ ref[r] \in Flight /\ flight[ref[r]] # None
          /\ flight[ref[r]].key = k /\ flight[ref[r]].load > question[r].since
      BY <3>1, <1>3 DEF RefsSound
    <3>3. /\ flight[ref[r]].load <= Len(loads[k])
          /\ loads[k][flight[ref[r]].load].forced = flight[ref[r]].force
          /\ flight[ref[r]].load \in Nat
      BY <3>1, <3>2 DEF FlightsSound, FlightObject
    <3>4. flight[ref[r]].load \in 1..Len(loads[k])
      BY <3>1, <3>3
    <3>5. QED
      BY <3>1, <3>2, <3>3, <3>4
  <2>3. QED
    BY <2>1, <2>2
<1>6. UNCHANGED <<clock, loads, question>>
  BY DEF Hit, Wake
<1>7. Promise!Answers(n, question[r])
  BY <1>3, <1>5 DEF Promise!Answers, Promise!ReuseFor, Lifetime
<1>8. QED
  BY <1>2, <1>3, <1>5, <1>6, <1>7 DEF Promise!Share, Promise!Open

(* Forced answers are forced loads that ended after the question, others   *)
(* are no older than the last load before it nor past its lifetime: the    *)
(* cache implements RecentLoads.                                           *)
THEOREM Recency == Spec => AnswersRecent
<1>1. Init => Promise!Init
  BY DEF Init, Promise!Init
<1>2. ASSUME IInv, IInv', [Next]_vars PROVE [Promise!Next]_(Promise!vars)
  <2> USE <1>2 DEF IInv
  <2>1. ASSUME NEW r \in Reader, NEW k \in Key, NEW force \in BOOLEAN, Ask(r, k, force)
        PROVE  Promise!Ask(r, k, force)
    BY <2>1 DEF Ask, Promise!Ask, QuestionsSound
  <2>2. ASSUME NEW r \in Reader, Publish(r)
        PROVE  \E failed \in BOOLEAN : Promise!Load(r, failed)
    BY <2>2 DEF Publish, Record, Promise!Load, Promise!Open, QuestionsSound
  <2>3. ASSUME NEW r \in Reader, GiveUp(r) PROVE Promise!GiveUp(r)
    BY <2>3 DEF GiveUp, Promise!GiveUp, Promise!Open, QuestionsSound
  <2>4. ASSUME NEW r \in Reader, Return(r) PROVE Promise!Leave(r)
    BY <2>4 DEF Return, Promise!Leave, QuestionsSound
  <2>5. ASSUME NEW r \in Reader, Wake(r), pc'[r] # "answered" PROVE UNCHANGED Promise!vars
    BY <2>5 DEF Wake, Promise!vars, TypeOK
  <2>6. ASSUME NEW r \in Reader, Join(r) \/ Lead(r) PROVE UNCHANGED Promise!vars
    BY <2>6 DEF Join, Lead, Start, Promise!vars
  <2>7. ASSUME Tick PROVE Promise!Tick
    BY <2>7 DEF Tick, Promise!Tick
  <2>8. ASSUME UNCHANGED vars PROVE UNCHANGED Promise!vars
    BY <2>8 DEF vars, Promise!vars
  <2>9. ASSUME NEW r \in Reader,
               \/ Join(r) \/ Hit(r) \/ Lead(r) \/ Publish(r)
               \/ Wake(r) \/ GiveUp(r) \/ Return(r)
        PROVE  [Promise!Next]_(Promise!vars)
    BY <2>9, <2>2, <2>3, <2>4, <2>5, <2>6, SharedAnswers DEF Promise!Next
  <2>10. QED
    BY <2>1, <2>7, <2>8, <2>9 DEF Next, Promise!Next
<1>3. QED
  BY <1>1, <1>2, Inductive, PTL DEF Spec, AnswersRecent, Promise!Spec

=============================================================================
