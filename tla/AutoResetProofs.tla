--------------------------- MODULE AutoResetProofs ---------------------------
(* The safety properties of AutoReset, proved for any accounts, identities *)
(* and credits, any intervals and any faults and interference; that no     *)
(* credit lapses needs intervals, faults and interference that are Timely. *)
EXTENDS AutoReset, FiniteSetTheorems, WellFoundedInduction, TLAPS

\* Tasks and due queries are those of scheduled accounts.
TasksTracked ==
    /\ \A a \in Account : task[a].at # "none" => a \in Tracked
    /\ due \subseteq Tracked

\* Nothing about s was due when the step began.
Later(s) == s.check > stepNow /\ (s.resetAt = 0 \/ s.resetAt > stepNow)

\* During a step, what is due is in somebody's hands.
NothingLeft ==
    /\ stepNow <= clock
    /\ pc \in {"consuming", "refreshing"} /\ ~stopping =>
          /\ discovery > stepNow
          /\ \A a \in Tracked : task[a].at # "none" \/ a \in due \/ Later(accounts[a])
          /\ \A a \in Account : task[a].at = "posting" => task[a].checkedAt >= stepNow
    /\ NoSpinning

\* The worker wakes before any plan that is shown.
PublishedAhead ==
    pc = "asleep" => \A p \in published : wake <= p.resetAt /\ p.resetAt < p.expiresAt

\* The guard's lock of an identity has one holder.
OneHolder ==
    /\ \A a \in Account : task[a].at = "posting" =>
          /\ \A m \in manual : IdentityOf[m] # IdentityOf[a]
          /\ \A b \in Account :
                task[b].at = "posting" /\ IdentityOf[b] = IdentityOf[a] => a = b
    /\ \A m, n \in manual : IdentityOf[m] = IdentityOf[n] => m = n

\* A task that posts has seen a credit about to expire, which only an
\* administrator can have used up since.
PostsConfirmed ==
    \A a \in Account : task[a].at = "posting" =>
        /\ task[a].expiresAt # 0
        /\ task[a].expiresAt <= task[a].checkedAt + Lead
        /\ \E j \in Credit :
              /\ OwnerOf[j] = IdentityOf[a]
              /\ expiry[j] = task[a].expiresAt
              /\ spender[j] \in {None, "outside"}

\* p is the fingerprint of S, the credits there were when it was sent for
\* a; there are fewer by now, or the worker still remembers p.
Snapshot(a, p, S) ==
    /\ Usable(IdentityOf[a]) \subseteq S
    /\ p = Fingerprint(S, 0)
    /\ accounts[a].tried = p \/ Usable(IdentityOf[a]) # S

SnapshotsGone ==
    \A q \in posted :
        q[1] \in Tracked /\ \E S \in SUBSET Credit : Snapshot(q[1], q[2], S)

IInv ==
    /\ TypeOK
    /\ OneTrackedPerIdentity
    /\ TasksTracked
    /\ NothingLeft
    /\ PublishedAhead
    /\ OneHolder
    /\ PostsConfirmed
    /\ SnapshotsGone

-----------------------------------------------------------------------------
(* Numbers.                                                                *)
Below == {p \in Nat \X Nat : p[1] < p[2]}

(* A set of natural numbers has a least one.                               *)
LEMMA Least ==
    ASSUME NEW S \in SUBSET Nat, S # {}
    PROVE  Min(S) \in S /\ \A y \in S : Min(S) <= y
<1>1. IsWellFoundedOn(Below, Nat)
  BY NatLessThanWellFounded, Zenon DEF OpToRel, Below
<1>2. PICK x \in S : \A y \in S : ~(<<y, x>> \in Below)
  BY <1>1, WFMin
<1>3. ASSUME NEW y \in S PROVE x <= y
  <2>1. ~(y < x)
    BY <1>2, Zenon DEF Below
  <2>2. QED
    BY <2>1
<1>4. QED
  BY <1>3 DEF Min

(* The later of two times.                                                 *)
LEMMA Later2 ==
    ASSUME NEW x \in Int, NEW y \in Int
    PROVE  /\ Max({x, y}) \in {x, y}
           /\ Max({x, y}) >= x /\ Max({x, y}) >= y
BY DEF Max

-----------------------------------------------------------------------------
(* Credits and plans.                                                      *)

(* What earliestFutureCreditExpiry returns is the expiry of one of the     *)
(* credits and lies ahead, or nothing does.                                *)
LEMMA EarliestSound ==
    ASSUME TypeOK, NEW S \in SUBSET Credit, NEW now \in Nat,
           NEW e, e = EarliestFuture(S, now)
    PROVE  /\ e \in Expiries \cup {0}
           /\ e \in Nat
           /\ e # 0 => e > now /\ \E k \in S : expiry[k] = e
<1>1. PICK E : E = {expiry[k] : k \in {j \in S : expiry[j] > now}}
  OBVIOUS
<1>2. /\ E \subseteq Nat /\ E \subseteq Expiries
      /\ \A x \in E : x > now /\ \E k \in S : expiry[k] = x
  <2>1. \A k \in S : expiry[k] \in Expiries
    BY DEF TypeOK
  <2>2. E \subseteq Expiries
    BY <1>1, <2>1
  <2>3. \A x \in E : x > now /\ \E k \in S : expiry[k] = x
    BY <1>1
  <2>4. QED
    BY <2>2, <2>3, AutoResetAssumption
<1>3. e = IF E = {} THEN 0 ELSE Min(E)
  BY <1>1 DEF EarliestFuture
<1>4. CASE E = {}
  BY <1>3, <1>4
<1>5. CASE E # {}
  <2>1. e \in E
    BY <1>2, <1>3, <1>5, Least
  <2>2. QED
    BY <1>2, <2>1
<1>6. QED
  BY <1>4, <1>5

(* The intervals are numbers.                                              *)
LEMMA Intervals ==
    /\ {Lead, ScanInterval, ScanRetry, RefreshInterval, QuotaRetry, VerifyRetry,
        PostReset, TTL, ErrTTL, Concurrency} \subseteq Nat \ {0}
    /\ Spacing \in Nat /\ DedupWindow \in Nat
    /\ Expiries \subseteq Nat /\ Account \subseteq Nat
    /\ None \notin Plan
BY AutoResetAssumption

(* A cleared plan is a plan.                                               *)
LEMMA ClearSound ==
    ASSUME NEW s \in Plan, NEW c \in Nat, NEW t, t = Clear(s, c)
    PROVE  /\ t \in Plan /\ PlanOK(t) /\ t.check = c /\ t.resetAt = 0 /\ t.tried = s.tried
BY Intervals DEF Clear, Plan, PlanOK

(* applyQuotaSchedule plans for the earliest credit, Lead before its end   *)
(* or at once.                                                             *)
LEMMA ScheduledSound ==
    ASSUME TypeOK, NEW s \in Plan, NEW S \in SUBSET Credit, NEW now \in Nat \ {0},
           NEW t, t = Scheduled(s, S, now)
    PROVE  /\ t \in Plan /\ PlanOK(t) /\ t.tried = s.tried
           /\ t.check = now + RefreshInterval
           /\ t.expiresAt = EarliestFuture(S, now)
           /\ EarliestFuture(S, now) = 0 => t.resetAt = 0
           /\ EarliestFuture(S, now) > now + Lead => t.resetAt > now
<1>1. PICK e : e = EarliestFuture(S, now)
  OBVIOUS
<1>2. /\ e \in Expiries \cup {0} /\ e \in Nat
      /\ e # 0 => e > now
  BY <1>1, EarliestSound
<1>3. now + RefreshInterval \in Nat /\ Lead \in Nat \ {0}
  BY Intervals
<1>4. CASE e = 0
  <2>1. t = Clear(s, now + RefreshInterval)
    BY <1>1, <1>4 DEF Scheduled
  <2>2. t.expiresAt = 0
    BY <2>1 DEF Clear, Plan
  <2>3. QED
    BY <1>1, <1>3, <1>4, <2>1, <2>2, ClearSound
<1>5. CASE e # 0
  <2>1. PICK m : m = Max({now, e - Lead})
    OBVIOUS
  <2>2. m \in {now, e - Lead} /\ m >= now /\ m >= e - Lead
    <3>1. PICK l : l = e - Lead
      OBVIOUS
    <3>2. l \in Int /\ now \in Int /\ m = Max({now, l})
      BY <1>2, <1>3, <2>1, <3>1
    <3>3. m \in {now, l} /\ m >= now /\ m >= l
      BY <3>2, Later2
    <3>4. QED
      BY <3>1, <3>3
  <2>3. t = [s EXCEPT !.check = now + RefreshInterval, !.expiresAt = e, !.resetAt = m]
    BY <1>1, <1>5, <2>1 DEF Scheduled
  <2>4. m \in Nat /\ m < e
    BY <1>2, <1>3, <1>5, <2>2
  <2>5. t \in Plan /\ t.tried = s.tried /\ t.check = now + RefreshInterval
        /\ t.expiresAt = e /\ t.resetAt = m
    BY <1>2, <1>3, <2>3, <2>4 DEF Plan
  <2>6. QED
    BY <1>1, <1>2, <1>3, <1>5, <2>2, <2>4, <2>5 DEF PlanOK
<1>6. QED
  BY <1>4, <1>5

(* A failed confirmation is tried again before the credit expires, or the  *)
(* plan is given up.                                                       *)
LEMMA RetriedSound ==
    ASSUME NEW s \in Plan, NEW now \in Nat, NEW t, t = Retried(s, now)
    PROVE  /\ t \in Plan /\ PlanOK(t) /\ t.tried = s.tried
           /\ t.check > now
           /\ t.resetAt = 0 \/ t.resetAt > now
<1>1. /\ now + VerifyRetry \in Nat /\ now + VerifyRetry > now
      /\ now + RefreshInterval \in Nat /\ now + RefreshInterval > now
      /\ now + QuotaRetry \in Nat /\ now + QuotaRetry > now
  BY Intervals
<1>2. CASE s.expiresAt > now + VerifyRetry
  <2>1. t = [s EXCEPT !.resetAt = now + VerifyRetry, !.check = now + RefreshInterval]
    BY <1>2 DEF Retried
  <2>2. QED
    BY <1>1, <1>2, <2>1 DEF Plan, PlanOK
<1>3. CASE ~(s.expiresAt > now + VerifyRetry)
  <2>1. PICK c : c = now + QuotaRetry
    OBVIOUS
  <2>2. t = Clear(s, c) /\ c \in Nat /\ c > now
    BY <1>1, <1>3, <2>1 DEF Retried
  <2>3. QED
    BY <2>2, ClearSound
<1>4. QED
  BY <1>2, <1>3

(* A fingerprint counts credits.                                           *)
LEMMA FingerprintTyped ==
    ASSUME NEW S \in SUBSET Credit, NEW now
    PROVE  Fingerprint(S, now) \in Fingerprints
<1>1. \A T \in SUBSET S : Cardinality(T) \in Nat
  BY FS_Subset, FS_CardinalityType, AutoResetAssumption
<1>2. \A e \in Expiries : Cardinality({k \in S : expiry[k] = e /\ e > now}) \in Nat
  BY <1>1
<1>3. QED
  BY <1>1, <1>2 DEF Fingerprint, Fingerprints

LEMMA UsableCredits == \A i : Usable(i) \subseteq Credit
BY DEF Usable

(* A quota query returns credits or fails.                                 *)
LEMMA QuerySound ==
    ASSUME TypeOK, NEW a \in Account, NEW fresh, NEW kind, NEW cancelled, NEW S,
           QuotaQuery(a, fresh, kind, cancelled, S)
    PROVE  /\ S # None => S \in SUBSET Credit
           /\ cache' \in [Account -> Entry \cup {None}]
<1>1. /\ cache \in [Account -> Entry \cup {None}] /\ clock \in Nat
      /\ clock + TTL \in Nat /\ clock + ErrTTL \in Nat
  BY Intervals DEF TypeOK
<1>2. CASE /\ ~fresh /\ Live(a)
           /\ S = cache[a].credits
           /\ UNCHANGED <<cache, faults>>
  BY <1>1, <1>2 DEF Live, Entry
<1>3. CASE /\ S = Usable(IdentityOf[a])
           /\ cache' = [cache EXCEPT ![a] = Kept(S, TTL)]
  BY <1>1, <1>3, UsableCredits DEF Kept, Entry
<1>4. CASE /\ S = None
           /\ cache' = [cache EXCEPT ![a] = Kept(None, ErrTTL)]
  BY <1>1, <1>4 DEF Kept, Entry
<1>5. QED
  BY <1>2, <1>3, <1>4 DEF QuotaQuery

(* After a scan exactly one account of each identity is scheduled; those   *)
(* that were keep their plans, new ones have none.                         *)
LEMMA DiscoveredSound ==
    ASSUME TypeOK
    PROVE  /\ Discovered \in [Account -> Plan \cup {None}]
           /\ \A a \in Account :
                 /\ Discovered[a] # None <=> a \in Representatives
                 /\ a \in Representatives /\ accounts[a] # None =>
                       Discovered[a] = accounts[a]
                 /\ a \in Representatives /\ accounts[a] = None =>
                       Discovered[a].resetAt = 0
                 /\ Discovered[a] # None => PlanOK(Discovered[a])
<1>1. PICK new : new = Representatives \ Tracked
  OBVIOUS
<1>2. \A a \in Account : a \in new <=> a \in Representatives /\ accounts[a] = None
  BY <1>1 DEF Tracked
<1>3. ASSUME NEW a \in Account
      PROVE  stepNow + (Cardinality({b \in new : b < a}) \div Concurrency) * Spacing \in Nat
  <2>1. new \subseteq Nat /\ a \in Nat
    BY <1>1, Intervals DEF Representatives, TypeOK
  <2>2. PICK E : E = {b \in new : b < a}
    OBVIOUS
  <2>3. E \in SUBSET Nat /\ \A b \in E : b <= a
    <3>1. \A b \in E : b \in Nat /\ b < a
      BY <2>1, <2>2
    <3>2. QED
      BY <2>1, <3>1
  <2>4. IsFiniteSet(E)
    BY <2>1, <2>3, FS_BoundedSetOfNaturals
  <2>5. Cardinality(E) \in Nat
    BY <2>4, FS_CardinalityType
  <2>6. PICK n : n = Cardinality(E) \div Concurrency
    OBVIOUS
  <2>7. n \in Nat
    BY <2>5, <2>6, Intervals
  <2>8. n * Spacing \in Nat
    BY <2>7, Intervals
  <2>9. QED
    BY <2>2, <2>6, <2>8 DEF TypeOK
<1>4. DEFINE first(a) == [check |-> stepNow + (Cardinality({b \in new : b < a}) \div Concurrency)
                                      * Spacing,
                          resetAt |-> 0, expiresAt |-> 0, tried |-> None]
<1>5. \A a \in Account : first(a) \in Plan /\ PlanOK(first(a)) /\ first(a).resetAt = 0
                         /\ first(a) # None
  BY <1>3, Intervals DEF Plan, PlanOK
<1>6. Discovered = [a \in Account |-> IF a \notin Representatives THEN None
                                      ELSE IF a \in new THEN first(a) ELSE accounts[a]]
  BY <1>1 DEF Discovered
<1>7. ASSUME NEW a \in Account
      PROVE  Discovered[a] = IF a \notin Representatives THEN None
                             ELSE IF accounts[a] = None THEN first(a) ELSE accounts[a]
  BY <1>2, <1>6, <1>7
<1>8. accounts \in [Account -> Plan \cup {None}]
      /\ \A a \in Account : accounts[a] # None => PlanOK(accounts[a])
  BY DEF TypeOK
<1> HIDE DEF first
<1>9. Discovered \in [Account -> Plan \cup {None}]
  BY <1>5, <1>6, <1>8
<1>10. QED
  BY <1>5, <1>7, <1>8, <1>9

-----------------------------------------------------------------------------
(* Tasks.                                                                  *)
Typed == TypeOK /\ TasksTracked

\* The task of a ends with a plan for which nothing is due at t.
Ends(a, t) ==
    \E s \in Plan :
        /\ PlanOK(s) /\ s.tried = accounts[a].tried
        /\ s.check > t /\ (s.resetAt = 0 \/ s.resetAt > t)
        /\ Done(a, s)

\* The task of a goes on to the POST, for a credit that expires at e.
Posts(a, e, print) ==
    LET i == IdentityOf[a] IN
    /\ e = EarliestFuture(Usable(i), clock)
    /\ e # 0 /\ e <= clock + Lead
    /\ print = Fingerprint(Usable(i), clock)
    /\ accounts[a].tried # print
    /\ lastAttempt' = [lastAttempt EXCEPT ![i] = clock]
    /\ accounts' = [accounts EXCEPT ![a].tried = print]
    /\ task' = [task EXCEPT ![a] = [at |-> "posting", checkedAt |-> clock, expiresAt |-> e]]
    /\ posted' = posted \cup {<<a, print>>}
    /\ UNCHANGED <<known, checked>>

(* The account of a task is scheduled.                                     *)
LEMMA TaskPlan ==
    ASSUME Typed, NEW a \in Account, task[a].at # "none"
    PROVE  /\ accounts[a] \in Plan /\ PlanOK(accounts[a])
           /\ accounts[a] # None
           /\ clock \in Nat \ {0}
BY DEF Typed, TypeOK, TasksTracked, Tracked

LEMMA VerifyCases ==
    ASSUME Typed, NEW a \in Account, VerifyAccount(a)
    PROVE  \/ Ends(a, clock)
           \/ task[a].at = "queued" /\ task' = [task EXCEPT ![a].at = "verified"]
              /\ UNCHANGED accounts
<1>1. task[a].at # "none"
  BY DEF VerifyAccount
<1>2. PICK s : s = accounts[a]
  OBVIOUS
<1>3. s \in Plan /\ clock \in Nat
  BY <1>1, <1>2, TaskPlan
<1>4. CASE Done(a, Retried(accounts[a], clock))
  <2>1. PICK t : t = Retried(s, clock)
    OBVIOUS
  <2>2. t \in Plan /\ PlanOK(t) /\ t.tried = s.tried /\ t.check > clock
        /\ (t.resetAt = 0 \/ t.resetAt > clock)
    BY <1>3, <2>1, RetriedSound
  <2>3. QED
    BY <1>2, <1>4, <2>1, <2>2 DEF Ends
<1>5. CASE Done(a, Clear(accounts[a], clock + RefreshInterval))
  <2>1. PICK c : c = clock + RefreshInterval
    OBVIOUS
  <2>2. c \in Nat /\ c > clock
    BY <1>3, <2>1, Intervals
  <2>3. PICK t : t = Clear(s, c)
    OBVIOUS
  <2>4. t \in Plan /\ PlanOK(t) /\ t.tried = s.tried /\ t.check = c /\ t.resetAt = 0
    BY <1>3, <2>2, <2>3, ClearSound
  <2>5. QED
    BY <1>2, <1>5, <2>1, <2>2, <2>3, <2>4 DEF Ends
<1>6. QED
  BY <1>4, <1>5 DEF VerifyAccount

(* A confirmation ends the task or goes on to the POST for what it has     *)
(* read under the lock.                                                    *)
LEMMA ConfirmCases ==
    ASSUME Typed, NEW a \in Account, Confirm(a)
    PROVE  /\ cache' \in [Account -> Entry \cup {None}]
           /\ \/ Ends(a, clock) /\ UNCHANGED <<lastAttempt, posted, checked>>
                 /\ known' \subseteq Credit
              \/ \E e, print : Posts(a, e, print)
<1>1. task[a].at # "none"
  BY DEF Confirm
<1>2. PICK s : s = accounts[a]
  OBVIOUS
<1>3. s \in Plan /\ clock \in Nat \ {0} /\ TypeOK /\ known \subseteq Credit
  BY <1>1, <1>2, TaskPlan DEF Typed, TypeOK
<1>4. PICK S : QuotaQuery(a, TRUE, "verify", stopping, S) /\ Decide(a, S)
  BY DEF Confirm
<1>5. /\ cache' \in [Account -> Entry \cup {None}]
      /\ S # None => S = Usable(IdentityOf[a]) /\ S \in SUBSET Credit
  <2>1. TypeOK /\ QuotaQuery(a, TRUE, "verify", stopping, S)
    BY <1>3, <1>4
  <2>2. cache' \in [Account -> Entry \cup {None}]
    BY <2>1, QuerySound, Zenon
  <2>3. S # None => S \in SUBSET Credit
    BY <2>1, QuerySound, Zenon
  <2>4. S # None => S = Usable(IdentityOf[a])
    BY <2>1 DEF QuotaQuery
  <2>5. QED
    BY <2>2, <2>3, <2>4
<1>6. PICK e : e = EarliestFuture(S, clock)
  OBVIOUS
<1>7. PICK print : print = Fingerprint(S, clock)
  OBVIOUS
<1>8. CASE /\ S = None
           /\ Done(a, Retried(accounts[a], clock))
           /\ UNCHANGED <<lastAttempt, history>>
  <2>1. PICK t : t = Retried(s, clock)
    OBVIOUS
  <2>2. t \in Plan /\ PlanOK(t) /\ t.tried = s.tried /\ t.check > clock
        /\ (t.resetAt = 0 \/ t.resetAt > clock)
    BY <1>3, <2>1, RetriedSound
  <2>3. Ends(a, clock)
    BY <1>2, <1>8, <2>1, <2>2 DEF Ends
  <2>4. QED
    BY <1>3, <1>5, <1>8, <2>3 DEF history
<1>9. CASE /\ S # None
           /\ e = 0 \/ e > clock + Lead
           /\ Done(a, Scheduled(accounts[a], S, clock))
           /\ known' = known \cup PlannedFor(S, e)
           /\ UNCHANGED <<lastAttempt, posted, checked>>
  <2>1. PICK t : t = Scheduled(s, S, clock)
    OBVIOUS
  <2>2. /\ t \in Plan /\ PlanOK(t) /\ t.tried = s.tried
        /\ t.check = clock + RefreshInterval
        /\ t.resetAt = 0 \/ t.resetAt > clock
    BY <1>3, <1>5, <1>6, <1>9, <2>1, ScheduledSound
  <2>3. clock + RefreshInterval > clock
    BY <1>3, Intervals
  <2>4. Ends(a, clock)
    BY <1>2, <1>9, <2>1, <2>2, <2>3 DEF Ends
  <2>5. QED
    BY <1>3, <1>5, <1>9, <2>4 DEF PlannedFor
<1>10. CASE /\ Done(a, Clear(accounts[a], clock + PostReset))
            /\ UNCHANGED <<lastAttempt, history>>
  <2>1. PICK c : c = clock + PostReset
    OBVIOUS
  <2>2. c \in Nat /\ c > clock
    BY <1>3, <2>1, Intervals
  <2>3. PICK t : t = Clear(s, c)
    OBVIOUS
  <2>4. t \in Plan /\ PlanOK(t) /\ t.tried = s.tried /\ t.check = c /\ t.resetAt = 0
    BY <1>3, <2>2, <2>3, ClearSound
  <2>5. Ends(a, clock)
    BY <1>2, <1>10, <2>1, <2>2, <2>3, <2>4 DEF Ends
  <2>6. QED
    BY <1>3, <1>5, <1>10, <2>5 DEF history
<1>11. CASE /\ S # None
            /\ e # 0 /\ e <= clock + Lead
            /\ accounts[a].tried # print
            /\ lastAttempt' = [lastAttempt EXCEPT ![IdentityOf[a]] = clock]
            /\ accounts' = [accounts EXCEPT ![a].tried = print]
            /\ task' = [task EXCEPT ![a] = [at |-> "posting", checkedAt |-> clock,
                                            expiresAt |-> e]]
            /\ posted' = posted \cup {<<a, print>>}
            /\ UNCHANGED <<known, checked>>
  <2>1. Posts(a, e, print)
    BY <1>5, <1>6, <1>7, <1>11 DEF Posts
  <2>2. QED
    BY <1>5, <2>1
<1>12. QED
  BY <1>4, <1>6, <1>7, <1>8, <1>9, <1>10, <1>11 DEF Decide

(* A POST uses up a credit that expires first, or none.                    *)
LEMMA PostSound ==
    ASSUME TypeOK, NEW i, NEW who \in {"auto", "manual"}, NEW came, NEW cancelled,
           Post(i, who, came, cancelled)
    PROVE  /\ spender' \in [Credit -> {None, "auto", "manual", "outside"}]
           /\ \/ spender' = spender
              \/ \E k \in FirstToExpire(i) : spender' = [spender EXCEPT ![k] = who]
<1>1. spender' = spender \/ \E k \in FirstToExpire(i) : spender' = [spender EXCEPT ![k] = who]
  BY DEF Post
<1>2. spender \in [Credit -> {None, "auto", "manual", "outside"}]
  BY DEF TypeOK
<1>3. QED
  BY <1>1, <1>2

LEMMA AutoPostCases ==
    ASSUME Typed, NEW a \in Account, AutoPost(a)
    PROVE  /\ Ends(a, task[a].checkedAt)
           /\ cache' \in [Account -> Entry \cup {None}]
           /\ spender' \in [Credit -> {None, "auto", "manual", "outside"}]
           /\ \/ spender' = spender
              \/ \E k \in FirstToExpire(IdentityOf[a]) : spender' = [spender EXCEPT ![k] = "auto"]
<1>1. /\ task[a].at # "none"
      /\ Done(a, Clear(accounts[a], task[a].checkedAt + PostReset))
  BY DEF AutoPost
<1>2. PICK s : s = accounts[a]
  OBVIOUS
<1>3. /\ s \in Plan /\ TypeOK /\ task[a].checkedAt \in Nat
      /\ cache \in [Account -> Entry \cup {None}]
  BY <1>1, <1>2, TaskPlan DEF Typed, TypeOK
<1>4. PICK c : c = task[a].checkedAt + PostReset
  OBVIOUS
<1>5. c \in Nat /\ c > task[a].checkedAt
  BY <1>3, <1>4, Intervals
<1>6. PICK t : t = Clear(s, c)
  OBVIOUS
<1>7. t \in Plan /\ PlanOK(t) /\ t.tried = s.tried /\ t.check = c /\ t.resetAt = 0
  BY <1>3, <1>5, <1>6, ClearSound
<1>8. Ends(a, task[a].checkedAt)
  BY <1>1, <1>2, <1>4, <1>5, <1>6, <1>7 DEF Ends
<1>9. PICK came \in BOOLEAN :
          Post(IdentityOf[a], "auto", came, stopping) /\ cache' = Invalidated(a, came)
  BY DEF AutoPost
<1>10. cache' \in [Account -> Entry \cup {None}]
  BY <1>3, <1>9 DEF Invalidated
<1>11. /\ spender' \in [Credit -> {None, "auto", "manual", "outside"}]
       /\ \/ spender' = spender
          \/ \E k \in FirstToExpire(IdentityOf[a]) : spender' = [spender EXCEPT ![k] = "auto"]
  BY <1>3, <1>9, PostSound
<1>12. QED
  BY <1>8, <1>10, <1>11

(* A refresh makes a new plan; a task takes it when it is due at once.     *)
LEMMA RefreshCases ==
    ASSUME Typed, NEW a \in Account, Refresh(a)
    PROVE  /\ cache' \in [Account -> Entry \cup {None}]
           /\ known' \subseteq Credit
           /\ accounts[a] # None
           /\ \E s \in Plan :
                 /\ PlanOK(s) /\ s.tried = accounts[a].tried /\ s.check > clock
                 /\ accounts' = [accounts EXCEPT ![a] = s]
                 /\ task' = IF ResetDue(s, clock)
                            THEN [task EXCEPT ![a].at = "queued"] ELSE task
<1>1. PICK r : r = accounts[a]
  OBVIOUS
<1>2. /\ r \in Plan /\ r # None /\ TypeOK
      /\ clock \in Nat \ {0} /\ known \subseteq Credit
  BY <1>1 DEF Refresh, Typed, TypeOK, TasksTracked, Tracked
<1>3. PICK S :
          LET s == IF S = None
                   THEN [accounts[a] EXCEPT !.resetAt = 0, !.check = clock + QuotaRetry]
                   ELSE Scheduled(accounts[a], S, clock)
          IN /\ QuotaQuery(a, FALSE, "refresh", stopping, S)
             /\ accounts' = [accounts EXCEPT ![a] = s]
             /\ task' = IF ResetDue(s, clock)
                        THEN [task EXCEPT ![a].at = "queued"] ELSE task
             /\ known' = IF S = None THEN known
                         ELSE known \cup PlannedFor(S, s.expiresAt)
  BY DEF Refresh
<1>4. cache' \in [Account -> Entry \cup {None}]
  BY <1>2, <1>3, QuerySound, Zenon
<1>5. S # None => S \in SUBSET Credit
  BY <1>2, <1>3, QuerySound, Zenon
<1>6. PICK s : s = IF S = None
                   THEN [r EXCEPT !.resetAt = 0, !.check = clock + QuotaRetry]
                   ELSE Scheduled(r, S, clock)
  OBVIOUS
<1>7. /\ accounts' = [accounts EXCEPT ![a] = s]
      /\ task' = IF ResetDue(s, clock) THEN [task EXCEPT ![a].at = "queued"] ELSE task
      /\ known' = IF S = None THEN known ELSE known \cup PlannedFor(S, s.expiresAt)
  BY <1>1, <1>3, <1>6
<1>8. known' \subseteq Credit
  BY <1>2, <1>5, <1>7 DEF PlannedFor
<1>9. s \in Plan /\ PlanOK(s) /\ s.tried = r.tried /\ s.check > clock
  <2>1. /\ clock + QuotaRetry \in Nat /\ clock + QuotaRetry > clock
        /\ clock + RefreshInterval > clock
    BY <1>2, Intervals
  <2>2. CASE S = None
    BY <1>2, <1>6, <2>1, <2>2 DEF Plan, PlanOK
  <2>3. CASE S # None
    BY <1>2, <1>5, <1>6, <2>1, <2>3, ScheduledSound
  <2>4. QED
    BY <2>2, <2>3
<1>10. QED
  BY <1>1, <1>2, <1>4, <1>7, <1>8, <1>9

(* The split of the accounts into due resets and due queries.              *)
LEMMA DispatchTyped ==
    ASSUME TypeOK, NEW acc \in [Account -> Plan \cup {None}], NEW now, Dispatch(acc, now),
           \A a \in Account : acc[a] # None => PlanOK(acc[a])
    PROVE  /\ accounts' \in [Account -> Plan \cup {None}]
           /\ \A a \in Account : accounts'[a] # None => PlanOK(accounts'[a])
           /\ task' \in [Account -> [at : {"none", "queued", "verified", "posting"},
                                     checkedAt : Nat, expiresAt : Expiries \cup {0}]]
           /\ due' \subseteq Account
           /\ pc' = "consuming"
           /\ TasksTracked'
<1>1. /\ accounts' = acc /\ pc' = "consuming" /\ due' \subseteq Account
  BY DEF Dispatch
<1>2. NoTask \in [at : {"none", "queued", "verified", "posting"},
                  checkedAt : Nat, expiresAt : Expiries \cup {0}]
  BY DEF NoTask
<1>3. task' \in [Account -> [at : {"none", "queued", "verified", "posting"},
                             checkedAt : Nat, expiresAt : Expiries \cup {0}]]
  BY <1>2 DEF Dispatch
<1>4. TasksTracked'
  BY DEF Dispatch, TasksTracked, Tracked, NoTask
<1>5. QED
  BY <1>1, <1>3, <1>4

(* A task that ends leaves a plan behind.                                  *)
LEMMA EndsTyped ==
    ASSUME Typed, NEW a \in Account, NEW t, Ends(a, t), due' = due
    PROVE  /\ accounts' \in [Account -> Plan \cup {None}]
           /\ \A b \in Account : accounts'[b] # None => PlanOK(accounts'[b])
           /\ task' \in [Account -> [at : {"none", "queued", "verified", "posting"},
                                     checkedAt : Nat, expiresAt : Expiries \cup {0}]]
           /\ TasksTracked'
<1>1. PICK s \in Plan : PlanOK(s) /\ accounts' = [accounts EXCEPT ![a] = s]
                        /\ task' = [task EXCEPT ![a] = NoTask]
  BY DEF Ends, Done
<1>2. NoTask \in [at : {"none", "queued", "verified", "posting"},
                  checkedAt : Nat, expiresAt : Expiries \cup {0}]
  BY DEF NoTask
<1>3. s # None
  BY Intervals
<1>4. /\ accounts \in [Account -> Plan \cup {None}]
      /\ \A b \in Account : accounts[b] # None => PlanOK(accounts[b])
      /\ task \in [Account -> [at : {"none", "queued", "verified", "posting"},
                               checkedAt : Nat, expiresAt : Expiries \cup {0}]]
  BY DEF Typed, TypeOK
<1>5. TasksTracked'
  BY <1>1, <1>3, <1>4 DEF Typed, TasksTracked, Tracked, NoTask
<1>6. QED
  BY <1>1, <1>2, <1>4, <1>5

-----------------------------------------------------------------------------
(* Typed is inductive.                                                     *)
LEMMA TypedInit == Init => Typed
<1> SUFFICES ASSUME Init PROVE Typed
  OBVIOUS
<1>1. \A a \in Account : accounts[a] = None
  BY DEF Init
<1>2. NoTask \in [at : {"none", "queued", "verified", "posting"},
                  checkedAt : Nat, expiresAt : Expiries \cup {0}]
  BY DEF NoTask
<1>3. TypeOK
  <2>1. /\ accounts \in [Account -> Plan \cup {None}]
        /\ \A a \in Account : accounts[a] # None => PlanOK(accounts[a])
    BY <1>1 DEF Init
  <2>2. task \in [Account -> [at : {"none", "queued", "verified", "posting"},
                             checkedAt : Nat, expiresAt : Expiries \cup {0}]]
    BY <1>2 DEF Init
  <2>3. /\ spender \in [Credit -> {None, "auto", "manual", "outside"}]
        /\ cache \in [Account -> Entry \cup {None}]
        /\ lastAttempt \in [Identity -> Nat]
        /\ expiry \in [Credit -> Expiries]
    BY DEF Init
  <2>4. /\ manual \subseteq Account
        /\ {discovery, stepNow, wake} \subseteq Nat
        /\ clock \in Nat \ {0}
        /\ pc = "asleep" /\ stopping = FALSE /\ eligible = Account
        /\ due = {} /\ published = {} /\ posted = {} /\ known = {} /\ checked = {}
    BY DEF Init
  <2>5. QED
    BY <2>1, <2>2, <2>3, <2>4 DEF TypeOK
<1>4. TasksTracked
  BY DEF Init, TasksTracked, NoTask
<1>5. QED
  BY <1>3, <1>4 DEF Typed

(* publishSchedule and nextWake.                                           *)
LEMMA StepEndsTyped ==
    ASSUME TypeOK, StepEnds
    PROVE  /\ published' \subseteq [account : Account, resetAt : Nat,
                                    expiresAt : Expiries \cup {0}]
           /\ wake' \in Nat
<1>1. /\ \A a \in Tracked : a \in Account /\ accounts[a] \in Plan
      /\ discovery \in Nat /\ stepNow + ScanRetry \in Nat
  BY Intervals DEF TypeOK, Tracked
<1>2. published' \subseteq [account : Account, resetAt : Nat, expiresAt : Expiries \cup {0}]
  BY <1>1 DEF StepEnds, Plan
<1>3. PICK T : T = ({discovery} \cup UNION {{accounts[a].check, accounts[a].resetAt} :
                                            a \in Tracked}) \ {0}
  OBVIOUS
<1>4. T \in SUBSET Nat
  BY <1>1, <1>3 DEF Plan
<1>5. wake' = IF T = {} THEN stepNow + ScanRetry ELSE Min(T)
  BY <1>3 DEF StepEnds, NextWake
<1>6. T # {} => Min(T) \in Nat
  BY <1>4, Least
<1>7. QED
  BY <1>1, <1>2, <1>5, <1>6

LEMMA TypedStep ==
    ASSUME Typed, [Next]_vars
    PROVE  Typed'
<1> USE DEF Typed
<1>1. CASE UNCHANGED vars
  BY <1>1 DEF vars, TypeOK, TasksTracked, Tracked
<1>2. CASE Wake
  <2>1. CASE pc' = "scanning" /\ UNCHANGED <<accounts, task, due>>
    BY <1>2, <2>1 DEF Wake, TypeOK, TasksTracked, Tracked, sub2api, history
  <2>2. CASE Dispatch(accounts, clock)
    <3>1. /\ accounts' \in [Account -> Plan \cup {None}]
          /\ \A a \in Account : accounts'[a] # None => PlanOK(accounts'[a])
          /\ task' \in [Account -> [at : {"none", "queued", "verified", "posting"},
                                    checkedAt : Nat, expiresAt : Expiries \cup {0}]]
          /\ due' \subseteq Account /\ pc' = "consuming" /\ TasksTracked'
      BY <2>2, DispatchTyped DEF TypeOK
    <3>2. QED
      BY <1>2, <3>1 DEF Wake, TypeOK, sub2api, history
  <2>3. QED
    BY <1>2, <2>1, <2>2 DEF Wake
<1>3. CASE ScanOk
  <2>1. PICK acc : acc = Discovered
    OBVIOUS
  <2>2. /\ acc \in [Account -> Plan \cup {None}]
        /\ \A a \in Account : acc[a] # None => PlanOK(acc[a])
        /\ Dispatch(acc, stepNow)
    BY <1>3, <2>1, DiscoveredSound DEF ScanOk
  <2>3. /\ accounts' \in [Account -> Plan \cup {None}]
        /\ \A a \in Account : accounts'[a] # None => PlanOK(accounts'[a])
        /\ task' \in [Account -> [at : {"none", "queued", "verified", "posting"},
                                  checkedAt : Nat, expiresAt : Expiries \cup {0}]]
        /\ due' \subseteq Account /\ pc' = "consuming" /\ TasksTracked'
    BY <2>2, DispatchTyped
  <2>4. discovery' \in Nat
    BY <1>3, Intervals DEF ScanOk, TypeOK
  <2>5. QED
    BY <1>3, <2>3, <2>4 DEF ScanOk, TypeOK, sub2api
<1>4. CASE ScanFail
  <2>1. /\ accounts' \in [Account -> Plan \cup {None}]
        /\ \A a \in Account : accounts'[a] # None => PlanOK(accounts'[a])
        /\ task' \in [Account -> [at : {"none", "queued", "verified", "posting"},
                                  checkedAt : Nat, expiresAt : Expiries \cup {0}]]
        /\ due' \subseteq Account /\ pc' = "consuming" /\ TasksTracked'
    BY <1>4, DispatchTyped DEF ScanFail, TypeOK
  <2>2. discovery' \in Nat
    BY <1>4, Intervals DEF ScanFail, TypeOK
  <2>3. QED
    BY <1>4, <2>1, <2>2 DEF ScanFail, TypeOK, sub2api, history
<1>5. CASE ConsumingEnds
  BY <1>5 DEF ConsumingEnds, TypeOK, TasksTracked, Tracked, sub2api, history
<1>6. CASE StepEnds
  <2>1. /\ published' \subseteq [account : Account, resetAt : Nat, expiresAt : Expiries \cup {0}]
        /\ wake' \in Nat
    BY <1>6, StepEndsTyped
  <2>2. QED
    BY <1>6, <2>1 DEF StepEnds, TypeOK, TasksTracked, Tracked, sub2api, history
<1>7. CASE Exit
  BY <1>7 DEF Exit, TypeOK, TasksTracked, Tracked, sub2api, history
<1>8. ASSUME NEW a \in Account, VerifyAccount(a)
      PROVE  Typed'
  <2>1. checked' \subseteq Credit
    BY <1>8, UsableCredits DEF VerifyAccount, Expiring, TypeOK
  <2>2. due' = due
    BY <1>8 DEF VerifyAccount, Working
  <2>3. CASE Ends(a, clock)
    <3>1. /\ accounts' \in [Account -> Plan \cup {None}]
          /\ \A b \in Account : accounts'[b] # None => PlanOK(accounts'[b])
          /\ task' \in [Account -> [at : {"none", "queued", "verified", "posting"},
                                    checkedAt : Nat, expiresAt : Expiries \cup {0}]]
          /\ TasksTracked'
      BY <1>8, <2>2, <2>3, EndsTyped
    <3>2. QED
      BY <1>8, <2>1, <3>1 DEF VerifyAccount, Working, TypeOK, sub2api
  <2>4. CASE task[a].at = "queued" /\ task' = [task EXCEPT ![a].at = "verified"]
             /\ UNCHANGED accounts
    <3>1. /\ task' \in [Account -> [at : {"none", "queued", "verified", "posting"},
                                    checkedAt : Nat, expiresAt : Expiries \cup {0}]]
          /\ TasksTracked'
      BY <2>2, <2>4 DEF TypeOK, TasksTracked, Tracked
    <3>2. QED
      BY <1>8, <2>1, <2>4, <3>1 DEF VerifyAccount, Working, TypeOK, sub2api
  <2>5. QED
    BY <1>8, <2>3, <2>4, VerifyCases
<1>9. ASSUME NEW a \in Account, Confirm(a)
      PROVE  Typed'
  <2>1. due' = due /\ Working
    BY <1>9 DEF Confirm, Working
  <2>2. cache' \in [Account -> Entry \cup {None}]
    BY <1>9, ConfirmCases
  <2>3. CASE Ends(a, clock) /\ UNCHANGED <<lastAttempt, posted, checked>>
             /\ known' \subseteq Credit
    <3>1. /\ accounts' \in [Account -> Plan \cup {None}]
          /\ \A b \in Account : accounts'[b] # None => PlanOK(accounts'[b])
          /\ task' \in [Account -> [at : {"none", "queued", "verified", "posting"},
                                    checkedAt : Nat, expiresAt : Expiries \cup {0}]]
          /\ TasksTracked'
      BY <1>9, <2>1, <2>3, EndsTyped
    <3>2. QED
      BY <2>1, <2>2, <2>3, <3>1 DEF Working, TypeOK, sub2api
  <2>4. ASSUME NEW e, NEW print, Posts(a, e, print)
        PROVE  Typed'
    <3>1. print \in Fingerprints
      BY <2>4, UsableCredits, FingerprintTyped DEF Posts
    <3>2. e \in Expiries \cup {0}
      <4>1. PICK S : S = Usable(IdentityOf[a])
        OBVIOUS
      <4>2. S \in SUBSET Credit /\ clock \in Nat /\ e = EarliestFuture(S, clock)
        BY <2>4, <4>1, UsableCredits DEF Posts, TypeOK
      <4>3. QED
        BY <4>2, EarliestSound
    <3>3. task[a].at # "none"
      BY <1>9 DEF Confirm
    <3>4. /\ lastAttempt' \in [Identity -> Nat]
          /\ posted' \subseteq Account \X Fingerprints
          /\ known' \cup checked' \subseteq Credit
      <4>1. /\ lastAttempt' = [lastAttempt EXCEPT ![IdentityOf[a]] = clock]
            /\ posted' = posted \cup {<<a, print>>}
            /\ UNCHANGED <<known, checked>>
        BY <2>4 DEF Posts
      <4>2. /\ lastAttempt \in [Identity -> Nat] /\ clock \in Nat
            /\ posted \subseteq Account \X Fingerprints
            /\ known \cup checked \subseteq Credit
        BY DEF TypeOK
      <4>3. lastAttempt' \in [Identity -> Nat]
        BY <4>1, <4>2
      <4>4. <<a, print>> \in Account \X Fingerprints
        BY <3>1, Zenon
      <4>5. posted' \subseteq Account \X Fingerprints
        BY <4>1, <4>2, <4>4, Zenon
      <4>6. QED
        BY <4>1, <4>2, <4>3, <4>5
    <3>5. /\ accounts[a] \in Plan /\ accounts[a] # None /\ PlanOK(accounts[a])
      BY <3>3, TaskPlan
    <3>6. PICK s : s = [accounts[a] EXCEPT !.tried = print]
      OBVIOUS
    <3>7. s \in Plan /\ s # None /\ PlanOK(s)
      BY <3>1, <3>5, <3>6, Intervals DEF Plan, PlanOK
    <3>8. accounts' = [accounts EXCEPT ![a] = s]
      BY <2>4, <3>6 DEF Posts
    <3>9. /\ accounts' \in [Account -> Plan \cup {None}]
          /\ \A b \in Account : accounts'[b] # None => PlanOK(accounts'[b])
      BY <3>7, <3>8 DEF TypeOK
    <3>10. PICK t : t = [at |-> "posting", checkedAt |-> clock, expiresAt |-> e]
      OBVIOUS
    <3>11. t \in [at : {"none", "queued", "verified", "posting"},
                  checkedAt : Nat, expiresAt : Expiries \cup {0}]
           /\ task' = [task EXCEPT ![a] = t]
      BY <2>4, <3>2, <3>10 DEF Posts, TypeOK
    <3>12. task' \in [Account -> [at : {"none", "queued", "verified", "posting"},
                                  checkedAt : Nat, expiresAt : Expiries \cup {0}]]
      BY <3>11 DEF TypeOK
    <3>13. TasksTracked'
      BY <2>1, <3>3, <3>7, <3>8, <3>11 DEF TypeOK, TasksTracked, Tracked
    <3>14. QED
      BY <2>1, <2>2, <3>4, <3>9, <3>12, <3>13 DEF Working, TypeOK, sub2api
  <2>5. QED
    BY <1>9, <2>3, <2>4, ConfirmCases
<1>10. ASSUME NEW a \in Account, AutoPost(a)
       PROVE  Typed'
  <2>1. /\ Ends(a, task[a].checkedAt)
        /\ cache' \in [Account -> Entry \cup {None}]
        /\ spender' \in [Credit -> {None, "auto", "manual", "outside"}]
    BY <1>10, AutoPostCases
  <2>2. due' = due
    BY <1>10 DEF AutoPost
  <2>3. /\ accounts' \in [Account -> Plan \cup {None}]
        /\ \A b \in Account : accounts'[b] # None => PlanOK(accounts'[b])
        /\ task' \in [Account -> [at : {"none", "queued", "verified", "posting"},
                                  checkedAt : Nat, expiresAt : Expiries \cup {0}]]
        /\ TasksTracked'
    BY <2>1, <2>2, EndsTyped
  <2>4. lastAttempt' \in [Identity -> Nat]
    BY <1>10 DEF AutoPost, TypeOK
  <2>5. QED
    BY <1>10, <2>1, <2>3, <2>4 DEF AutoPost, TypeOK, history
<1>11. ASSUME NEW a \in Account, Abandon(a)
       PROVE  Typed'
  <2>1. NoTask \in [at : {"none", "queued", "verified", "posting"},
                    checkedAt : Nat, expiresAt : Expiries \cup {0}] /\ NoTask.at = "none"
    BY DEF NoTask
  <2>2. /\ task' \in [Account -> [at : {"none", "queued", "verified", "posting"},
                                  checkedAt : Nat, expiresAt : Expiries \cup {0}]]
        /\ TasksTracked'
    BY <1>11, <2>1 DEF Abandon, Working, TypeOK, TasksTracked, Tracked
  <2>3. QED
    BY <1>11, <2>2 DEF Abandon, Working, TypeOK, sub2api, history
<1>12. ASSUME NEW a \in Account, Refresh(a)
       PROVE  Typed'
  <2>1. PICK s \in Plan :
          /\ PlanOK(s) /\ s.tried = accounts[a].tried /\ s.check > clock
          /\ accounts' = [accounts EXCEPT ![a] = s]
          /\ task' = IF ResetDue(s, clock) THEN [task EXCEPT ![a].at = "queued"] ELSE task
    BY <1>12, RefreshCases
  <2>2. cache' \in [Account -> Entry \cup {None}] /\ known' \subseteq Credit
    BY <1>12, RefreshCases
  <2>3. s # None
    BY Intervals
  <2>4. /\ accounts' \in [Account -> Plan \cup {None}]
        /\ \A b \in Account : accounts'[b] # None => PlanOK(accounts'[b])
        /\ task' \in [Account -> [at : {"none", "queued", "verified", "posting"},
                                  checkedAt : Nat, expiresAt : Expiries \cup {0}]]
    BY <2>1 DEF TypeOK
  <2>5. due' \subseteq due \ {a}
    BY <1>12 DEF Refresh
  <2>6. TasksTracked'
    BY <2>1, <2>3, <2>5 DEF TypeOK, TasksTracked, Tracked
  <2>7. QED
    BY <1>12, <2>2, <2>4, <2>5, <2>6 DEF Refresh, TypeOK, sub2api
<1>13. ASSUME NEW a \in Account, ManualBegin(a)
       PROVE  Typed'
  BY <1>13 DEF ManualBegin, Outside, TypeOK, TasksTracked, Tracked, workerVars, history, sub2api
<1>14. ASSUME NEW a \in Account, ManualEnd(a)
       PROVE  Typed'
  <2>1. PICK came \in BOOLEAN : Post(IdentityOf[a], "manual", came, FALSE)
                                /\ cache' = Invalidated(a, came)
    BY <1>14 DEF ManualEnd
  <2>2. spender' \in [Credit -> {None, "auto", "manual", "outside"}]
    BY <2>1, PostSound, Zenon
  <2>3. cache' \in [Account -> Entry \cup {None}]
    BY <2>1 DEF Invalidated, TypeOK
  <2>4. lastAttempt' \in [Identity -> Nat]
    BY <1>14 DEF ManualEnd, TypeOK
  <2>5. QED
    BY <1>14, <2>2, <2>3, <2>4 DEF ManualEnd, TypeOK, TasksTracked, Tracked, workerVars, history
<1>15. ASSUME NEW a \in Account, PageQuery(a)
       PROVE  Typed'
  <2>1. PICK S : QuotaQuery(a, FALSE, "page", FALSE, S)
    BY <1>15 DEF PageQuery
  <2>2. cache' \in [Account -> Entry \cup {None}]
    BY <2>1, QuerySound, Zenon
  <2>3. QED
    BY <1>15, <2>2 DEF PageQuery, Outside, TypeOK, TasksTracked, Tracked, workerVars, history,
                       sub2api
<1>16. ASSUME NEW a \in Account, Toggle(a)
       PROVE  Typed'
  BY <1>16 DEF Toggle, Outside, TypeOK, TasksTracked, Tracked, workerVars, history
<1>17. ASSUME NEW i \in Identity, AdminUse(i)
       PROVE  Typed'
  BY <1>17 DEF AdminUse, Outside, TypeOK, TasksTracked, Tracked, workerVars, history
<1>18. CASE Stop
  BY <1>18 DEF Stop, Outside, TypeOK, TasksTracked, Tracked, workerVars, history, sub2api
<1>19. CASE Tick
  BY <1>19 DEF Tick, TypeOK, TasksTracked, Tracked, workerVars, history, sub2api
<1>20. QED
  BY <1>1, <1>2, <1>3, <1>4, <1>5, <1>6, <1>7, <1>8, <1>9, <1>10, <1>11, <1>12, <1>13,
     <1>14, <1>15, <1>16, <1>17, <1>18, <1>19 DEF Next, Worker, Environment

(* The worker's state has the type it is declared with.                    *)
THEOREM TypeCorrect == Spec => []TypeOK
<1>1. Typed /\ [Next]_vars => Typed'
  BY TypedStep
<1>2. Typed => TypeOK
  BY DEF Typed
<1>3. QED
  BY TypedInit, <1>1, <1>2, PTL DEF Spec

-----------------------------------------------------------------------------
(* What a step does to the plans and to the POSTs under way.               *)

\* A step other than a scan or the beginning of a POST.
Quiet ==
    /\ Tracked' = Tracked
    /\ \A b \in Tracked : accounts'[b].tried = accounts[b].tried
    /\ posted' = posted
    /\ \A b \in Account : task'[b].at = "posting" => task'[b] = task[b]

(* After the split of a step's work nothing is on its way.                 *)
LEMMA DispatchQuiet ==
    ASSUME NEW acc, NEW now, Dispatch(acc, now)
    PROVE  \A b \in Account : task'[b].at # "posting"
BY DEF Dispatch, NoTask

LEMMA EndsQuiet ==
    ASSUME Typed, NEW a \in Account, NEW t, Ends(a, t), task[a].at # "none", posted' = posted
    PROVE  Quiet
<1>1. PICK s \in Plan : s.tried = accounts[a].tried /\ accounts' = [accounts EXCEPT ![a] = s]
                        /\ task' = [task EXCEPT ![a] = NoTask]
  BY DEF Ends, Done
<1>2. s # None /\ accounts[a] # None /\ NoTask.at = "none"
  BY Intervals, TaskPlan DEF NoTask
<1>3. /\ accounts \in [Account -> Plan \cup {None}]
      /\ DOMAIN task = Account
  BY DEF Typed, TypeOK
<1>4. Tracked' = Tracked
  BY <1>1, <1>2, <1>3 DEF Tracked
<1>5. \A b \in Tracked : accounts'[b].tried = accounts[b].tried
  BY <1>1, <1>3 DEF Tracked
<1>6. \A b \in Account : task'[b].at = "posting" => task'[b] = task[b]
  BY <1>1, <1>2, <1>3
<1>7. QED
  BY <1>4, <1>5, <1>6 DEF Quiet

LEMMA StepCases ==
    ASSUME Typed, [Next]_vars
    PROVE  \/ ScanOk
           \/ \E a \in Account : \E e, print : Confirm(a) /\ Posts(a, e, print)
           \/ Quiet
<1>1. CASE UNCHANGED <<accounts, task, posted>>
  BY <1>1 DEF Quiet, Tracked
<1>2. CASE Wake
  <2>1. CASE UNCHANGED <<accounts, task, due>>
    BY <1>1, <1>2, <2>1 DEF Wake, history
  <2>2. CASE Dispatch(accounts, clock)
    BY <1>2, <2>2, DispatchQuiet DEF Wake, Quiet, Tracked, Dispatch, history
  <2>3. QED
    BY <1>2, <2>1, <2>2 DEF Wake
<1>3. CASE ScanFail
  BY <1>3, DispatchQuiet DEF ScanFail, Quiet, Tracked, Dispatch, history
<1>4. ASSUME NEW a \in Account, VerifyAccount(a)
      PROVE  Quiet
  <2>1. posted' = posted /\ task[a].at # "none"
    BY <1>4 DEF VerifyAccount
  <2>2. CASE Ends(a, clock)
    BY <2>1, <2>2, EndsQuiet
  <2>3. CASE task[a].at = "queued" /\ task' = [task EXCEPT ![a].at = "verified"]
             /\ UNCHANGED accounts
    BY <2>1, <2>3 DEF Quiet, Tracked, Typed, TypeOK
  <2>4. QED
    BY <1>4, <2>2, <2>3, VerifyCases
<1>5. ASSUME NEW a \in Account, Confirm(a)
      PROVE  Quiet \/ \E e, print : Posts(a, e, print)
  <2>1. task[a].at # "none"
    BY <1>5 DEF Confirm
  <2>2. CASE Ends(a, clock) /\ UNCHANGED <<lastAttempt, posted, checked>>
    BY <2>1, <2>2, EndsQuiet
  <2>3. QED
    BY <1>5, <2>2, ConfirmCases
<1>6. ASSUME NEW a \in Account, AutoPost(a)
      PROVE  Quiet
  <2>1. posted' = posted /\ task[a].at # "none"
    BY <1>6 DEF AutoPost, history
  <2>2. Ends(a, task[a].checkedAt)
    BY <1>6, AutoPostCases
  <2>3. QED
    BY <2>1, <2>2, EndsQuiet
<1>7. ASSUME NEW a \in Account, Abandon(a)
      PROVE  Quiet
  BY <1>7 DEF Abandon, Working, Quiet, Tracked, NoTask, Typed, TypeOK, history
<1>8. ASSUME NEW a \in Account, Refresh(a)
      PROVE  Quiet
  <2>1. PICK s \in Plan :
          /\ s.tried = accounts[a].tried
          /\ accounts' = [accounts EXCEPT ![a] = s]
          /\ task' = IF ResetDue(s, clock) THEN [task EXCEPT ![a].at = "queued"] ELSE task
    BY <1>8, RefreshCases
  <2>2. s # None /\ accounts[a] # None /\ posted' = posted
    BY <1>8, Intervals, RefreshCases DEF Refresh
  <2>3. accounts \in [Account -> Plan \cup {None}] /\ DOMAIN task = Account
    BY DEF Typed, TypeOK
  <2>4. Tracked' = Tracked /\ \A b \in Tracked : accounts'[b].tried = accounts[b].tried
    BY <2>1, <2>2, <2>3 DEF Tracked
  <2>5. \A b \in Account : task'[b].at = "posting" => task'[b] = task[b]
    <3>1. \A b \in Account : task[b] = NoTask
      BY <1>8 DEF Refresh, Idle
    <3>2. QED
      BY <2>1, <2>3, <3>1 DEF NoTask
  <2>6. QED
    BY <2>2, <2>4, <2>5 DEF Quiet
<1>9. CASE ConsumingEnds \/ StepEnds \/ Exit
  BY <1>1, <1>9 DEF ConsumingEnds, StepEnds, Exit, history
<1>10. CASE Environment
  BY <1>1, <1>10 DEF Environment, ManualBegin, PageQuery, Toggle, ManualEnd, Stop, Tick,
                    AdminUse, Outside, workerVars, history
<1>11. CASE UNCHANGED vars
  BY <1>1, <1>11 DEF vars
<1>12. QED
  BY <1>2, <1>3, <1>4, <1>5, <1>6, <1>7, <1>8, <1>9, <1>10, <1>11 DEF Next, Worker

(* A POST that begins leaves everybody scheduled.                          *)
LEMMA PostsPlan ==
    ASSUME Typed, NEW a \in Account, NEW e, NEW print, Confirm(a), Posts(a, e, print)
    PROVE  /\ a \in Tracked
           /\ Tracked' = Tracked
           /\ accounts'[a].tried = print
           /\ \A b \in Account : b # a => accounts'[b] = accounts[b] /\ task'[b] = task[b]
           /\ task'[a] = [at |-> "posting", checkedAt |-> clock, expiresAt |-> e]
<1>1. task[a].at # "none"
  BY DEF Confirm
<1>2. accounts[a] \in Plan /\ accounts[a] # None
  BY <1>1, TaskPlan
<1>3. accounts \in [Account -> Plan \cup {None}] /\ DOMAIN task = Account
  BY DEF Typed, TypeOK
<1>4. PICK s : s = [accounts[a] EXCEPT !.tried = print]
  OBVIOUS
<1>5. s.tried = print
  BY <1>2, <1>4 DEF Plan
<1>6. print \in Fingerprints
  BY UsableCredits, FingerprintTyped DEF Posts
<1>7. s \in Plan /\ s # None
  BY <1>2, <1>4, <1>6, Intervals DEF Plan
<1>8. /\ accounts' = [accounts EXCEPT ![a] = s]
      /\ task' = [task EXCEPT ![a] = [at |-> "posting", checkedAt |-> clock, expiresAt |-> e]]
  BY <1>4 DEF Posts
<1>9. QED
  BY <1>2, <1>3, <1>5, <1>7, <1>8 DEF Tracked

(* Time does not go back and a credit that is used up stays so.            *)
LEMMA SpenderCases ==
    ASSUME Typed, [Next]_vars
    PROVE  /\ expiry' = expiry
           /\ clock' \in Nat /\ clock' >= clock
           /\ \/ spender' = spender
              \/ \E a \in Account :
                    /\ AutoPost(a)
                    /\ \E k \in FirstToExpire(IdentityOf[a]) :
                          spender' = [spender EXCEPT ![k] = "auto"]
              \/ \E a \in Account :
                    /\ a \in manual
                    /\ \E k \in FirstToExpire(IdentityOf[a]) :
                          spender' = [spender EXCEPT ![k] = "manual"]
              \/ \E i \in Identity : \E k \in FirstToExpire(i) :
                    spender' = [spender EXCEPT ![k] = "outside"]
<1>1. CASE UNCHANGED <<clock, expiry, spender>>
  BY <1>1 DEF Typed, TypeOK
<1>2. CASE Wake \/ ScanOk \/ ScanFail \/ ConsumingEnds \/ StepEnds \/ Exit
  BY <1>1, <1>2 DEF Wake, ScanOk, ScanFail, ConsumingEnds, StepEnds, Exit, sub2api
<1>3. ASSUME NEW a \in Account, VerifyAccount(a) \/ Confirm(a) \/ Abandon(a) \/ Refresh(a)
      PROVE  UNCHANGED <<clock, expiry, spender>>
  BY <1>3 DEF VerifyAccount, Confirm, Abandon, Refresh, Working, sub2api
<1>4. ASSUME NEW a \in Account, AutoPost(a)
      PROVE  /\ UNCHANGED <<clock, expiry>>
             /\ \/ spender' = spender
                \/ \E k \in FirstToExpire(IdentityOf[a]) :
                       spender' = [spender EXCEPT ![k] = "auto"]
  BY <1>4, AutoPostCases DEF AutoPost
<1>5. ASSUME NEW a \in Account, ManualBegin(a) \/ PageQuery(a) \/ Toggle(a)
      PROVE  UNCHANGED <<clock, expiry, spender>>
  BY <1>5 DEF ManualBegin, PageQuery, Toggle, Outside, sub2api
<1>6. ASSUME NEW a \in Account, ManualEnd(a)
      PROVE  /\ UNCHANGED <<clock, expiry>> /\ a \in manual
             /\ \/ spender' = spender
                \/ \E k \in FirstToExpire(IdentityOf[a]) :
                       spender' = [spender EXCEPT ![k] = "manual"]
  <2>1. PICK came : Post(IdentityOf[a], "manual", came, FALSE)
    BY <1>6 DEF ManualEnd
  <2>2. PICK i : i = IdentityOf[a]
    OBVIOUS
  <2>3. spender' = spender
        \/ \E k \in FirstToExpire(i) : spender' = [spender EXCEPT ![k] = "manual"]
    BY <2>1, <2>2 DEF Post
  <2>4. UNCHANGED <<clock, expiry>> /\ a \in manual
    BY <1>6 DEF ManualEnd
  <2>5. QED
    BY <2>2, <2>3, <2>4
<1>7. CASE Stop
  BY <1>1, <1>7 DEF Stop, Outside, sub2api
<1>8. CASE Tick
  BY <1>8 DEF Tick, sub2api, Typed, TypeOK
<1>9. ASSUME NEW i \in Identity, AdminUse(i)
      PROVE  /\ UNCHANGED <<clock, expiry>>
             /\ \E k \in FirstToExpire(i) : spender' = [spender EXCEPT ![k] = "outside"]
  BY <1>9 DEF AdminUse, Outside
<1>10. CASE UNCHANGED vars
  BY <1>1, <1>10 DEF vars
<1>11. clock \in Nat
  BY DEF Typed, TypeOK
<1>12. CASE \E a \in Account : AutoPost(a)
  BY <1>4, <1>11, <1>12
<1>13. CASE \E i \in Identity : AdminUse(i)
  BY <1>9, <1>11, <1>13
<1>14. CASE \E a \in Account : ManualEnd(a)
  BY <1>6, <1>11, <1>14
<1>15. QED
  BY <1>1, <1>2, <1>3, <1>5, <1>7, <1>8, <1>10, <1>12, <1>13, <1>14 DEF Next, Worker, Environment

-----------------------------------------------------------------------------
(* One scheduled account of an identity.                                   *)
LEMMA OneTrackedStep ==
    ASSUME Typed, OneTrackedPerIdentity, [Next]_vars
    PROVE  OneTrackedPerIdentity'
<1>1. CASE Tracked' = Tracked
  BY <1>1 DEF OneTrackedPerIdentity
<1>2. CASE ScanOk
  <2>1. accounts' = Discovered
    BY <1>2 DEF ScanOk, Dispatch
  <2>2. Tracked' \subseteq Representatives
    BY <2>1, DiscoveredSound DEF Tracked, Typed
  <2>3. \A a, b \in Representatives : IdentityOf[a] = IdentityOf[b] => a = b
    <3>1. \A a \in Representatives : a \in Nat
      BY Intervals DEF Representatives, Typed, TypeOK
    <3>2. \A a, b \in Representatives : IdentityOf[a] = IdentityOf[b] => a <= b /\ b <= a
      BY DEF Representatives
    <3>3. QED
      BY <3>1, <3>2
  <2>4. QED
    BY <2>2, <2>3 DEF OneTrackedPerIdentity
<1>3. CASE \E a \in Account : \E e, print : Confirm(a) /\ Posts(a, e, print)
  BY <1>1, <1>3, PostsPlan
<1>4. QED
  BY <1>1, <1>2, <1>3, StepCases DEF Quiet

(* Two accounts of one underlying OpenAI account are never both scheduled. *)
THEOREM Unique == Spec => []OneTrackedPerIdentity
<1>1. Init => Typed /\ OneTrackedPerIdentity
  BY TypedInit DEF Init, OneTrackedPerIdentity, Tracked
<1>2. Typed /\ OneTrackedPerIdentity /\ [Next]_vars => (Typed /\ OneTrackedPerIdentity)'
  BY TypedStep, OneTrackedStep
<1>3. QED
  BY <1>1, <1>2, PTL DEF Spec

-----------------------------------------------------------------------------
(* The guard's lock, and what a reset spends.                              *)

(* Whoever takes the lock of an identity finds it free.                    *)
LEMMA OneHolderStep ==
    ASSUME Typed, OneHolder, [Next]_vars
    PROVE  OneHolder'
<1>1. CASE \E a \in Account : \E e, print : Confirm(a) /\ Posts(a, e, print)
  <2>1. PICK a \in Account : \E e, print : Confirm(a) /\ Posts(a, e, print)
    BY <1>1
  <2>2. \A b \in Account : b # a => task'[b] = task[b]
    BY <2>1, PostsPlan
  <2>3. Unlocked(IdentityOf[a]) /\ manual' = manual
    BY <2>1 DEF Confirm, Working
  <2>4. QED
    BY <2>2, <2>3 DEF OneHolder, Unlocked
<1>2. CASE ScanOk
  <2>1. \A b \in Account : task'[b].at # "posting"
    BY <1>2, DispatchQuiet DEF ScanOk
  <2>2. manual' = manual
    BY <1>2 DEF ScanOk
  <2>3. QED
    BY <2>1, <2>2 DEF OneHolder
<1>3. CASE Quiet
  <2>1. \A b \in Account : task'[b].at = "posting" => task[b].at = "posting"
    BY <1>3 DEF Quiet
  <2>2. CASE manual' \subseteq manual
    BY <2>1, <2>2 DEF OneHolder
  <2>3. ASSUME NEW c \in Account, ManualBegin(c)
        PROVE  OneHolder'
    <3>1. Unlocked(IdentityOf[c]) /\ manual' = manual \cup {c}
      BY <2>3 DEF ManualBegin
    <3>2. QED
      BY <2>1, <3>1 DEF OneHolder, Unlocked
  <2>4. manual' \subseteq manual \/ \E c \in Account : ManualBegin(c)
    BY DEF Next, vars, Worker, Environment, Wake, ScanOk, ScanFail, ConsumingEnds, StepEnds,
           Exit, VerifyAccount, Confirm, AutoPost, Abandon, Refresh, Working, PageQuery, Toggle,
           ManualEnd, Stop, Tick, AdminUse
  <2>5. QED
    BY <2>2, <2>3, <2>4
<1>4. QED
  BY <1>1, <1>2, <1>3, StepCases

(* What the lock protects from each other.                                 *)
LEMMA OthersPost ==
    ASSUME OneHolder, NEW a \in Account, task[a].at = "posting",
           NEW i, NEW k \in FirstToExpire(i),
           \/ \E m \in manual : i = IdentityOf[m]
           \/ \E b \in Account : b # a /\ task[b].at = "posting" /\ i = IdentityOf[b]
    PROVE  OwnerOf[k] # IdentityOf[a]
<1>1. OwnerOf[k] = i
  BY DEF FirstToExpire, Usable
<1>2. QED
  BY <1>1 DEF OneHolder

(* Only an administrator takes the confirmed credit from a task that posts.*)
LEMMA PostsConfirmedStep ==
    ASSUME Typed, OneHolder, PostsConfirmed, [Next]_vars
    PROVE  PostsConfirmed'
<1> SUFFICES ASSUME NEW a \in Account, task'[a].at = "posting"
             PROVE  /\ task'[a].expiresAt # 0
                    /\ task'[a].expiresAt <= task'[a].checkedAt + Lead
                    /\ \E j \in Credit :
                          /\ OwnerOf[j] = IdentityOf[a]
                          /\ expiry'[j] = task'[a].expiresAt
                          /\ spender'[j] \in {None, "outside"}
  BY DEF PostsConfirmed
<1>1. /\ expiry' = expiry
      /\ spender \in [Credit -> {None, "auto", "manual", "outside"}]
  BY SpenderCases DEF Typed, TypeOK
<1>2. CASE task'[a] = task[a]
  <2>1. PICK j \in Credit :
          /\ OwnerOf[j] = IdentityOf[a]
          /\ expiry[j] = task[a].expiresAt
          /\ spender[j] \in {None, "outside"}
    BY <1>2 DEF PostsConfirmed
  <2>2. task[a].at = "posting"
    BY <1>2
  <2>3. spender'[j] \in {None, "outside"}
    <3>1. CASE spender' = spender
      BY <2>1, <3>1
    <3>2. ASSUME NEW b \in Account, AutoPost(b),
                 NEW k \in FirstToExpire(IdentityOf[b]), spender' = [spender EXCEPT ![k] = "auto"]
          PROVE  spender'[j] = spender[j]
      <4>1. task[b].at = "posting" /\ task'[b].at # "posting"
        BY <3>2 DEF AutoPost, Done, NoTask, Typed, TypeOK
      <4>2. b # a
        BY <4>1
      <4>3. PICK i : i = IdentityOf[b]
        OBVIOUS
      <4>4. OwnerOf[k] # IdentityOf[a]
        BY <2>2, <3>2, <4>1, <4>2, <4>3, OthersPost
      <4>5. QED
        BY <1>1, <2>1, <3>2, <4>4
    <3>3. ASSUME NEW m \in manual, NEW k \in FirstToExpire(IdentityOf[m]),
                 spender' = [spender EXCEPT ![k] = "manual"]
          PROVE  spender'[j] = spender[j]
      <4>1. PICK i : i = IdentityOf[m]
        OBVIOUS
      <4>2. OwnerOf[k] # IdentityOf[a]
        BY <2>2, <3>3, <4>1, OthersPost
      <4>3. QED
        BY <1>1, <2>1, <3>3, <4>2
    <3>4. ASSUME NEW i, NEW k \in FirstToExpire(i), spender' = [spender EXCEPT ![k] = "outside"]
          PROVE  spender'[j] \in {None, "outside"}
      BY <1>1, <2>1, <3>4
    <3>5. QED
      BY <2>1, <3>1, <3>2, <3>3, <3>4, SpenderCases
  <2>4. QED
    BY <1>1, <1>2, <2>1, <2>2, <2>3 DEF PostsConfirmed
<1>3. ASSUME NEW b \in Account, NEW e, NEW print, Confirm(b), Posts(b, e, print), b = a
      PROVE  /\ task'[a].expiresAt # 0
             /\ task'[a].expiresAt <= task'[a].checkedAt + Lead
             /\ \E j \in Credit :
                   /\ OwnerOf[j] = IdentityOf[a]
                   /\ expiry'[j] = task'[a].expiresAt
                   /\ spender'[j] \in {None, "outside"}
  <2>1. task'[a] = [at |-> "posting", checkedAt |-> clock, expiresAt |-> e]
    BY <1>3, PostsPlan
  <2>2. PICK S : S = Usable(IdentityOf[a])
    OBVIOUS
  <2>3. /\ S \in SUBSET Credit /\ clock \in Nat
        /\ e # 0 /\ e <= clock + Lead
        /\ e = EarliestFuture(S, clock)
    BY <1>3, <2>2, UsableCredits DEF Posts, Typed, TypeOK
  <2>4. \E k \in S : expiry[k] = e
    BY <2>3, EarliestSound DEF Typed
  <2>5. spender' = spender
    BY <1>3 DEF Confirm, Working, sub2api
  <2>6. \A k \in S : k \in Credit /\ OwnerOf[k] = IdentityOf[a] /\ spender[k] = None
    BY <2>2 DEF Usable
  <2>7. QED
    BY <1>1, <2>1, <2>3, <2>4, <2>5, <2>6
<1>4. CASE \E b \in Account : \E e, print : Confirm(b) /\ Posts(b, e, print)
  <2>1. PICK b \in Account : \E e, print : Confirm(b) /\ Posts(b, e, print)
    BY <1>4
  <2>2. CASE b = a
    BY <1>3, <2>1, <2>2
  <2>3. CASE b # a
    BY <1>2, <2>1, <2>3, PostsPlan
  <2>4. QED
    BY <2>2, <2>3
<1>5. CASE ScanOk
  BY <1>5, DispatchQuiet DEF ScanOk
<1>6. CASE Quiet
  BY <1>2, <1>6 DEF Quiet
<1>7. QED
  BY <1>4, <1>5, <1>6, StepCases

(* The credit a reset of the worker uses up.                               *)
LEMMA SpendsStep ==
    ASSUME Typed, OneHolder, PostsConfirmed, [Next]_vars,
           NEW a \in Account, NEW k \in Credit,
           task[a].at = "posting",
           OwnerOf[k] = IdentityOf[a],
           spender[k] = None, spender'[k] = "auto"
    PROVE  \/ expiry[k] # 0 /\ expiry[k] <= task[a].checkedAt + Lead
           \/ clock >= task[a].expiresAt
           \/ \E j \in Credit :
                 /\ OwnerOf[j] = OwnerOf[k]
                 /\ expiry[j] = task[a].expiresAt
                 /\ spender[j] = "outside"
<1>1. /\ spender \in [Credit -> {None, "auto", "manual", "outside"}]
      /\ expiry \in [Credit -> Nat] /\ clock \in Nat
      /\ task[a].checkedAt \in Nat /\ Lead \in Nat /\ task[a].expiresAt \in Nat
  <2>1. /\ expiry \in [Credit -> Expiries] /\ clock \in Nat
        /\ task[a].expiresAt \in Expiries \cup {0}
        /\ task[a].checkedAt \in Nat
        /\ spender \in [Credit -> {None, "auto", "manual", "outside"}]
    BY DEF Typed, TypeOK
  <2>2. Expiries \subseteq Nat /\ Lead \in Nat
    BY AutoResetAssumption
  <2>3. expiry \in [Credit -> Nat]
    BY <2>1, <2>2
  <2>4. task[a].expiresAt \in Nat
    <3>1. Expiries \cup {0} \subseteq Nat
      BY <2>2
    <3>2. QED
      BY <2>1, <3>1, Zenon
  <2>5. QED
    BY <2>1, <2>2, <2>3, <2>4
<1>2. None # "auto"
  BY AutoResetAssumption
<1>3. PICK b \in Account :
          /\ AutoPost(b)
          /\ \E m \in FirstToExpire(IdentityOf[b]) : spender' = [spender EXCEPT ![m] = "auto"]
  BY <1>1, <1>2, SpenderCases
<1>4. k \in FirstToExpire(IdentityOf[b])
  BY <1>1, <1>2, <1>3
<1>5. task[b].at = "posting" /\ OwnerOf[k] = IdentityOf[b]
  BY <1>3, <1>4 DEF AutoPost, FirstToExpire, Usable
<1>6. IdentityOf[b] = IdentityOf[a]
  BY <1>5
<1>7. PICK j \in Credit :
          /\ OwnerOf[j] = IdentityOf[a]
          /\ expiry[j] = task[a].expiresAt
          /\ spender[j] \in {None, "outside"}
  BY DEF PostsConfirmed
<1>8. task[a].expiresAt # 0 /\ task[a].expiresAt <= task[a].checkedAt + Lead
  BY DEF PostsConfirmed
<1>9. CASE spender[j] = None /\ clock < task[a].expiresAt
  <2>1. j \in Usable(IdentityOf[b])
    BY <1>6, <1>7, <1>9 DEF Usable
  <2>2. expiry[k] # 0 /\ expiry[k] <= expiry[j]
    BY <1>4, <1>7, <1>8, <2>1 DEF FirstToExpire
  <2>3. expiry[k] <= task[a].checkedAt + Lead
    BY <1>1, <1>7, <1>8, <2>2
  <2>4. QED
    BY <2>2, <2>3
<1>10. QED
  BY <1>1, <1>7, <1>9

LEMMA HoldersInductive ==
    /\ Init => Typed /\ OneHolder /\ PostsConfirmed
    /\ Typed /\ OneHolder /\ PostsConfirmed /\ [Next]_vars =>
          (Typed /\ OneHolder /\ PostsConfirmed)'
<1>1. Init => manual = {} /\ \A a \in Account : task[a].at # "posting"
  BY DEF Init, NoTask
<1>2. Init => Typed /\ OneHolder /\ PostsConfirmed
  BY <1>1, TypedInit DEF OneHolder, PostsConfirmed
<1>3. QED
  BY <1>2, TypedStep, OneHolderStep, PostsConfirmedStep

(* An automatic reset uses up a credit within Lead of its expiry when it   *)
(* was confirmed, or the confirmed credit is gone, by an administrator or  *)
(* by its own expiry.                                                      *)
THEOREM SpendsOnly == Spec => SpendsOnlyExpiring
<1>1. Typed /\ OneHolder /\ PostsConfirmed /\ [Next]_vars =>
        \A a \in Account, k \in Credit :
          (/\ task[a].at = "posting"
           /\ OwnerOf[k] = IdentityOf[a]
           /\ spender[k] = None /\ spender'[k] = "auto")
             => \/ expiry[k] # 0 /\ expiry[k] <= task[a].checkedAt + Lead
                \/ clock >= task[a].expiresAt
                \/ \E j \in Credit :
                      /\ OwnerOf[j] = OwnerOf[k]
                      /\ expiry[j] = task[a].expiresAt
                      /\ spender[j] = "outside"
  BY SpendsStep
<1>2. QED
  BY <1>1, HoldersInductive, PTL DEF Spec, SpendsOnlyExpiring

-----------------------------------------------------------------------------
(* The snapshots a reset was sent for.                                     *)

(* Credits only go.                                                        *)
LEMMA UsableShrinks ==
    ASSUME Typed, [Next]_vars, NEW i
    PROVE  Usable(i)' \subseteq Usable(i)
<1>1. /\ expiry' = expiry /\ clock' \in Nat /\ clock' >= clock /\ clock \in Nat
      /\ spender \in [Credit -> {None, "auto", "manual", "outside"}]
      /\ expiry \in [Credit -> Nat]
  <2>1. clock \in Nat /\ spender \in [Credit -> {None, "auto", "manual", "outside"}]
        /\ expiry \in [Credit -> Expiries]
    BY DEF Typed, TypeOK
  <2>2. Expiries \subseteq Nat
    BY AutoResetAssumption
  <2>3. expiry \in [Credit -> Nat]
    BY <2>1, <2>2
  <2>4. expiry' = expiry /\ clock' \in Nat /\ clock' >= clock
    BY SpenderCases
  <2>5. QED
    BY <2>1, <2>3, <2>4
<1>2. None \notin {"auto", "manual", "outside"}
  BY AutoResetAssumption
<1>3. \A k \in Credit : spender'[k] = None => spender[k] = None
  <2>1. CASE spender' = spender
    BY <2>1
  <2>2. ASSUME NEW who \in {"auto", "manual", "outside"}, NEW m,
               spender' = [spender EXCEPT ![m] = who]
        PROVE  \A k \in Credit : spender'[k] = None => spender[k] = None
    BY <1>1, <1>2, <2>2
  <2>3. \/ spender' = spender
        \/ \E who \in {"auto", "manual", "outside"} : \E m : spender' = [spender EXCEPT ![m] = who]
    BY SpenderCases
  <2>4. QED
    BY <2>1, <2>2, <2>3
<1>4. QED
  BY <1>1, <1>3 DEF Usable

(* A usable credit's expiry lies ahead, if it is known, so the fingerprint *)
(* does not depend on the clock.                                           *)
LEMMA FingerprintTimeless ==
    ASSUME Typed, NEW i, NEW S, S = Usable(i)
    PROVE  Fingerprint(S, clock) = Fingerprint(S, 0)
<1>1. /\ clock \in Nat
      /\ \A k \in S : expiry[k] \in Nat /\ (expiry[k] = 0 \/ clock < expiry[k])
  <2>1. clock \in Nat /\ \A k \in S : expiry[k] \in Expiries /\ (expiry[k] = 0 \/ clock < expiry[k])
    BY DEF Usable, Typed, TypeOK
  <2>2. Expiries \subseteq Nat
    BY AutoResetAssumption
  <2>3. QED
    BY <2>1, <2>2
<1>2. ASSUME NEW e \in Expiries
      PROVE  {k \in S : expiry[k] = e /\ e > clock} = {k \in S : expiry[k] = e /\ e > 0}
  <2>1. e \in Nat
    BY AutoResetAssumption
  <2>2. \A k \in S : (expiry[k] = e /\ e > clock) <=> (expiry[k] = e /\ e > 0)
    BY <1>1, <2>1
  <2>3. QED
    BY <2>2
<1>3. [e \in Expiries |-> Cardinality({k \in S : expiry[k] = e /\ e > clock})]
      = [e \in Expiries |-> Cardinality({k \in S : expiry[k] = e /\ e > 0})]
  BY <1>2
<1>4. QED
  BY <1>3, Zenon DEF Fingerprint

(* Of two snapshots, one contained in the other, equal fingerprints mean   *)
(* equal credits.                                                          *)
LEMMA FingerprintTells ==
    ASSUME NEW S \in SUBSET Credit, NEW T \in SUBSET S, Fingerprint(S, 0) = Fingerprint(T, 0)
    PROVE  S = T
<1>1. IsFiniteSet(S)
  BY FS_Subset, AutoResetAssumption
<1>2. Cardinality(S) = Cardinality(T)
  BY DEF Fingerprint
<1>3. QED
  BY <1>1, <1>2, FS_Subset

(* A POST that begins is for a snapshot the worker has not sent one for.   *)
LEMMA PostsNew ==
    ASSUME Typed, SnapshotsGone, NEW a \in Account, NEW e, NEW print, Posts(a, e, print)
    PROVE  <<a, print>> \notin posted
<1> SUFFICES ASSUME <<a, print>> \in posted PROVE FALSE
  OBVIOUS
<1>1. PICK q : q = <<a, print>>
  OBVIOUS
<1>2. q[1] = a /\ q[2] = print /\ q \in posted
  BY <1>1
<1>3. PICK S \in SUBSET Credit : Snapshot(q[1], q[2], S)
  BY <1>2 DEF SnapshotsGone
<1>4. Snapshot(a, print, S)
  BY <1>2, <1>3
<1>5. PICK U : U = Usable(IdentityOf[a])
  OBVIOUS
<1>6. /\ U \in SUBSET S
      /\ print = Fingerprint(S, 0)
      /\ accounts[a].tried = print \/ U # S
  BY <1>4, <1>5 DEF Snapshot
<1>7. /\ print = Fingerprint(U, clock)
      /\ accounts[a].tried # print
  BY <1>5 DEF Posts
<1>8. Fingerprint(U, clock) = Fingerprint(U, 0)
  BY <1>5, FingerprintTimeless
<1>9. U = S
  BY <1>6, <1>7, <1>8, FingerprintTells
<1>10. QED
  BY <1>6, <1>7, <1>9

LEMMA SnapshotsStep ==
    ASSUME Typed, SnapshotsGone, [Next]_vars
    PROVE  SnapshotsGone'
<1> SUFFICES ASSUME NEW q \in posted'
             PROVE  q[1] \in Tracked' /\ \E S \in SUBSET Credit : Snapshot(q[1], q[2], S)'
  BY DEF SnapshotsGone
<1>0. /\ expiry' = expiry
      /\ Usable(IdentityOf[q[1]])' \subseteq Usable(IdentityOf[q[1]])
  BY SpenderCases, UsableShrinks
<1>1. ASSUME NEW S \in SUBSET Credit, Snapshot(q[1], q[2], S),
             \/ accounts'[q[1]].tried = accounts[q[1]].tried
             \/ Usable(IdentityOf[q[1]]) # S
      PROVE  Snapshot(q[1], q[2], S)'
  <2>1. Fingerprint(S, 0)' = Fingerprint(S, 0)
    BY <1>0 DEF Fingerprint
  <2>2. QED
    BY <1>0, <1>1, <2>1 DEF Snapshot
<1>2. CASE Quiet
  <2>1. q \in posted /\ q[1] \in Tracked /\ q[1] \in Tracked'
    BY <1>2 DEF Quiet, SnapshotsGone
  <2>2. accounts'[q[1]].tried = accounts[q[1]].tried
    BY <1>2, <2>1 DEF Quiet
  <2>3. PICK S \in SUBSET Credit : Snapshot(q[1], q[2], S)
    BY <2>1 DEF SnapshotsGone
  <2>4. QED
    BY <1>1, <2>1, <2>2, <2>3
<1>3. CASE ScanOk
  <2>1. q \in posted /\ q[1] \in Representatives /\ accounts' = Discovered
    BY <1>3 DEF ScanOk, Dispatch
  <2>2. q[1] \in Tracked
    BY <2>1 DEF SnapshotsGone
  <2>3. q[1] \in Account /\ accounts[q[1]] # None
    BY <2>2 DEF Tracked
  <2>4. accounts'[q[1]] = accounts[q[1]]
    BY <2>1, <2>3, DiscoveredSound DEF Typed
  <2>5. q[1] \in Tracked'
    BY <2>3, <2>4 DEF Tracked
  <2>6. PICK S \in SUBSET Credit : Snapshot(q[1], q[2], S)
    BY <2>1 DEF SnapshotsGone
  <2>7. QED
    BY <1>1, <2>4, <2>5, <2>6
<1>4. ASSUME NEW a \in Account, NEW e, NEW print, Confirm(a), Posts(a, e, print)
      PROVE  q[1] \in Tracked' /\ \E S \in SUBSET Credit : Snapshot(q[1], q[2], S)'
  <2>1. /\ a \in Tracked /\ Tracked' = Tracked
        /\ accounts'[a].tried = print
        /\ \A b \in Account : b # a => accounts'[b] = accounts[b]
    BY <1>4, PostsPlan
  <2>2. posted' = posted \cup {<<a, print>>}
    BY <1>4 DEF Posts
  <2>3. CASE q = <<a, print>>
    <3>1. q[1] = a /\ q[2] = print
      BY <2>3
    <3>2. PICK S : S = Usable(IdentityOf[a])
      OBVIOUS
    <3>3. S \in SUBSET Credit /\ print = Fingerprint(S, clock)
      BY <1>4, <3>2, UsableCredits DEF Posts
    <3>4. Fingerprint(S, clock) = Fingerprint(S, 0)
      BY <3>2, FingerprintTimeless
    <3>5. Fingerprint(S, 0)' = Fingerprint(S, 0)
      BY <1>0 DEF Fingerprint
    <3>6. Usable(IdentityOf[a])' \subseteq S
      BY <1>0, <3>1, <3>2
    <3>7. Snapshot(a, print, S)'
      BY <2>1, <3>3, <3>4, <3>5, <3>6 DEF Snapshot
    <3>8. QED
      BY <2>1, <3>1, <3>3, <3>7
  <2>4. CASE q # <<a, print>>
    <3>1. q \in posted /\ q[1] \in Tracked /\ q[1] \in Account
      BY <2>2, <2>4 DEF SnapshotsGone, Tracked
    <3>2. PICK S \in SUBSET Credit : Snapshot(q[1], q[2], S)
      BY <3>1 DEF SnapshotsGone
    <3>3. CASE q[1] # a
      <4>1. accounts'[q[1]] = accounts[q[1]]
        BY <2>1, <3>1, <3>3
      <4>2. QED
        BY <1>1, <2>1, <3>1, <3>2, <4>1
    <3>4. CASE q[1] = a
      <4>1. PICK U : U = Usable(IdentityOf[a])
        OBVIOUS
      <4>2. U \in SUBSET S /\ q[2] = Fingerprint(S, 0)
            /\ (accounts[a].tried = q[2] \/ U # S)
        BY <3>2, <3>4, <4>1 DEF Snapshot
      <4>3. U # S
        <5>1. print = Fingerprint(U, clock) /\ accounts[a].tried # print
          BY <1>4, <4>1 DEF Posts
        <5>2. Fingerprint(U, clock) = Fingerprint(U, 0)
          BY <4>1, FingerprintTimeless
        <5>3. QED
          BY <4>2, <5>1, <5>2
      <4>4. QED
        BY <1>1, <2>1, <3>1, <3>2, <3>4, <4>1, <4>3
    <3>5. QED
      BY <3>3, <3>4
  <2>5. QED
    BY <2>3, <2>4
<1>5. QED
  BY <1>2, <1>3, <1>4, StepCases

LEMMA SnapshotsInductive ==
    /\ Init => Typed /\ SnapshotsGone
    /\ Typed /\ SnapshotsGone /\ [Next]_vars => (Typed /\ SnapshotsGone)'
BY TypedInit, TypedStep, SnapshotsStep DEF Init, SnapshotsGone

(* While an account is scheduled the worker sends one reset at most for a  *)
(* snapshot of its credits.                                                *)
THEOREM OneAttempt == Spec => OneAttemptPerSnapshot
<1>1. ASSUME Typed, SnapshotsGone, [Next]_vars,
             NEW a \in Account, task[a].at # "posting", task'[a].at = "posting"
      PROVE  posted' # posted
  <2>1. CASE Quiet
    BY <1>1, <2>1 DEF Quiet
  <2>2. CASE ScanOk
    BY <1>1, <2>2, DispatchQuiet DEF ScanOk
  <2>3. ASSUME NEW b \in Account, NEW e, NEW print, Confirm(b), Posts(b, e, print)
        PROVE  posted' # posted
    <3>1. <<b, print>> \notin posted
      BY <1>1, <2>3, PostsNew
    <3>2. QED
      BY <2>3, <3>1 DEF Posts
  <2>4. QED
    BY <1>1, <2>1, <2>2, <2>3, StepCases
<1>2. Typed /\ SnapshotsGone /\ [Next]_vars =>
        \A a \in Account :
          task[a].at # "posting" /\ task'[a].at = "posting" => posted' # posted
  BY <1>1
<1>3. QED
  BY <1>2, SnapshotsInductive, PTL DEF Spec, OneAttemptPerSnapshot

-----------------------------------------------------------------------------
(* What is due when a step begins.                                         *)

(* The split puts everything that is due into a task or a query.           *)
LEMMA DispatchLater ==
    ASSUME NEW acc \in [Account -> Plan \cup {None}], NEW now \in Nat,
           Dispatch(acc, now), stepNow' = now
    PROVE  /\ \A b \in Tracked' : task'[b].at # "none" \/ b \in due' \/ Later(accounts[b])'
           /\ \A b \in Account : task'[b].at # "posting"
           /\ pc' = "consuming"
<1> SUFFICES ASSUME NEW b \in Tracked'
             PROVE  task'[b].at # "none" \/ b \in due' \/ Later(accounts[b])'
  BY DispatchQuiet DEF Dispatch
<1>1. b \in Account /\ acc[b] # None /\ accounts' = acc
  BY DEF Dispatch, Tracked
<1>2. acc[b] \in Plan
  BY <1>1
<1>3. CASE ResetDue(acc[b], now)
  BY <1>1, <1>3 DEF Dispatch, NoTask
<1>4. CASE ~ResetDue(acc[b], now) /\ CheckDue(acc[b], now)
  BY <1>1, <1>4 DEF Dispatch
<1>5. CASE ~ResetDue(acc[b], now) /\ ~CheckDue(acc[b], now)
  <2>1. acc[b].check > now /\ (acc[b].resetAt = 0 \/ acc[b].resetAt > now)
    BY <1>2, <1>5 DEF ResetDue, CheckDue, Plan
  <2>2. QED
    BY <1>1, <2>1 DEF Later
<1>6. QED
  BY <1>3, <1>4, <1>5

\* The part of NothingLeft about a step under way.
InHand ==
    pc \in {"consuming", "refreshing"} /\ ~stopping =>
        /\ discovery > stepNow
        /\ \A a \in Tracked : task[a].at # "none" \/ a \in due \/ Later(accounts[a])
        /\ \A a \in Account : task[a].at = "posting" => task[a].checkedAt >= stepNow

(* A task that ends leaves a plan for later.                               *)
LEMMA EndsInHand ==
    ASSUME Typed, InHand, NEW a \in Account, NEW t \in Nat, Ends(a, t),
           ~stopping /\ pc \in {"consuming", "refreshing"} => t >= stepNow,
           task[a].at # "none",
           UNCHANGED <<pc, stopping, discovery, stepNow, due>>
    PROVE  InHand'
<1> SUFFICES ASSUME pc \in {"consuming", "refreshing"}, ~stopping
             PROVE  InHand'
  BY DEF InHand
<1>1. PICK s \in Plan : s.check > t /\ (s.resetAt = 0 \/ s.resetAt > t)
                        /\ accounts' = [accounts EXCEPT ![a] = s]
                        /\ task' = [task EXCEPT ![a] = NoTask]
  BY DEF Ends, Done
<1>2. /\ accounts \in [Account -> Plan \cup {None}] /\ DOMAIN task = Account
      /\ stepNow \in Nat /\ a \in Tracked
  BY DEF Typed, TypeOK, TasksTracked
<1>3. Later(s)
  BY <1>1, <1>2 DEF Later, Plan
<1>4. \A b \in Tracked' : task'[b].at # "none" \/ b \in due' \/ Later(accounts[b])'
  <2>1. ASSUME NEW b \in Tracked', b # a
        PROVE  b \in Tracked /\ accounts'[b] = accounts[b] /\ task'[b] = task[b]
    BY <1>1, <1>2, <2>1 DEF Tracked
  <2>2. \A b \in Tracked : task[b].at # "none" \/ b \in due \/ Later(accounts[b])
    BY DEF InHand
  <2>3. accounts'[a] = s
    BY <1>1, <1>2
  <2>4. QED
    BY <1>3, <2>1, <2>2, <2>3 DEF Later
<1>5. \A b \in Account : task'[b].at = "posting" => task'[b] = task[b]
  BY <1>1, <1>2 DEF NoTask
<1>6. QED
  BY <1>4, <1>5 DEF InHand

(* The worker wakes for the earliest of what is left.                      *)
LEMMA StepEndsWake ==
    ASSUME Typed, InHand, StepEnds
    PROVE  /\ ~stopping => wake' > stepNow
           /\ \A p \in published' : wake' <= p.resetAt /\ p.resetAt < p.expiresAt
<1>1. /\ \A a \in Tracked : a \in Account /\ accounts[a] \in Plan /\ PlanOK(accounts[a])
      /\ discovery \in Nat /\ stepNow \in Nat
  BY DEF Typed, TypeOK, Tracked
<1>2. PICK T : T = ({discovery} \cup UNION {{accounts[a].check, accounts[a].resetAt} :
                                            a \in Tracked}) \ {0}
  OBVIOUS
<1>3. T \in SUBSET Nat
  BY <1>1, <1>2 DEF Plan
<1>4. wake' = IF T = {} THEN stepNow + ScanRetry ELSE Min(T)
  BY <1>2 DEF StepEnds, NextWake
<1>5. T # {} => wake' \in T /\ \A y \in T : wake' <= y
  BY <1>3, <1>4, Least
<1>6. ASSUME ~stopping
      PROVE  wake' > stepNow
  <2>1. discovery > stepNow /\ \A a \in Tracked : Later(accounts[a])
    BY <1>6 DEF StepEnds, InHand, Idle, NoTask, Tracked
  <2>2. discovery \in T
    BY <1>1, <1>2, <2>1
  <2>3. \A y \in T : y > stepNow
    BY <1>1, <1>2, <2>1 DEF Later
  <2>4. QED
    BY <1>5, <2>2, <2>3
<1>7. ASSUME NEW p \in published'
      PROVE  wake' <= p.resetAt /\ p.resetAt < p.expiresAt
  <2>1. PICK a \in Tracked : accounts[a].resetAt # 0 /\ p.resetAt = accounts[a].resetAt
                             /\ p.expiresAt = accounts[a].expiresAt
    BY <1>7 DEF StepEnds
  <2>2. p.resetAt \in T
    BY <1>2, <2>1
  <2>3. QED
    BY <1>1, <1>5, <2>1, <2>2 DEF PlanOK
<1>8. QED
  BY <1>6, <1>7

LEMMA InHandStep ==
    ASSUME Typed, InHand, stepNow <= clock, [Next]_vars
    PROVE  InHand' /\ (stepNow <= clock)'
<1>0. clock \in Nat /\ stepNow \in Nat /\ accounts \in [Account -> Plan \cup {None}]
      /\ discovery \in Nat
  BY DEF Typed, TypeOK
<1>1. CASE UNCHANGED <<pc, discovery, stepNow, task, due, accounts, stopping>>
  <2>1. InHand'
    BY <1>1 DEF InHand, Tracked, Later
  <2>2. clock' \in Nat /\ clock' >= clock
    BY SpenderCases
  <2>3. QED
    BY <1>0, <1>1, <2>1, <2>2
<1>2. CASE Wake
  <2>1. CASE pc' = "scanning"
    BY <1>0, <1>2, <2>1 DEF Wake, InHand
  <2>2. CASE /\ ~(discovery = 0 \/ clock >= discovery)
             /\ Dispatch(accounts, clock)
    <3>1. /\ \A b \in Tracked' : task'[b].at # "none" \/ b \in due' \/ Later(accounts[b])'
          /\ \A b \in Account : task'[b].at # "posting"
      BY <1>0, <1>2, <2>2, DispatchLater DEF Wake
    <3>2. QED
      BY <1>0, <1>2, <2>2, <3>1 DEF Wake, InHand
  <2>3. QED
    BY <1>2, <2>1, <2>2 DEF Wake
<1>3. CASE ScanOk
  <2>1. PICK acc : acc = Discovered
    OBVIOUS
  <2>2. acc \in [Account -> Plan \cup {None}] /\ Dispatch(acc, stepNow) /\ stepNow' = stepNow
    BY <1>3, <2>1, DiscoveredSound DEF ScanOk, Typed
  <2>3. /\ \A b \in Tracked' : task'[b].at # "none" \/ b \in due' \/ Later(accounts[b])'
        /\ \A b \in Account : task'[b].at # "posting"
    BY <1>0, <2>2, DispatchLater
  <2>4. discovery' > stepNow
    BY <1>0, <1>3, Intervals DEF ScanOk
  <2>5. QED
    BY <1>3, <2>3, <2>4 DEF ScanOk, InHand
<1>4. CASE ScanFail
  <2>1. /\ \A b \in Tracked' : task'[b].at # "none" \/ b \in due' \/ Later(accounts[b])'
        /\ \A b \in Account : task'[b].at # "posting"
    BY <1>0, <1>4, DispatchLater DEF ScanFail
  <2>2. discovery' > stepNow
    BY <1>0, <1>4, Intervals DEF ScanFail
  <2>3. QED
    BY <1>4, <2>1, <2>2 DEF ScanFail, InHand
<1>5. CASE ConsumingEnds
  BY <1>5 DEF ConsumingEnds, InHand, Tracked, Later
<1>6. CASE StepEnds \/ Exit
  BY <1>6 DEF StepEnds, Exit, InHand
<1>7. ASSUME NEW a \in Account, VerifyAccount(a)
      PROVE  InHand' /\ UNCHANGED <<stepNow, clock>>
  <2>1. UNCHANGED <<pc, stopping, discovery, stepNow, due, clock>> /\ task[a].at # "none"
    BY <1>7 DEF VerifyAccount, Working
  <2>2. CASE Ends(a, clock)
    BY <1>0, <2>1, <2>2, EndsInHand
  <2>3. CASE task' = [task EXCEPT ![a].at = "verified"] /\ UNCHANGED accounts
    <3>1. \A b \in Account : \/ task'[b] = task[b]
                             \/ task'[b].at = "verified" /\ task[b].at # "none"
      BY <2>1, <2>3 DEF Typed, TypeOK
    <3>2. QED
      BY <2>1, <2>3, <3>1 DEF InHand, Tracked, Later
  <2>4. QED
    BY <1>7, <2>1, <2>2, <2>3, VerifyCases
<1>8. ASSUME NEW a \in Account, Confirm(a)
      PROVE  InHand' /\ UNCHANGED <<stepNow, clock>>
  <2>1. UNCHANGED <<pc, stopping, discovery, stepNow, due, clock>> /\ task[a].at # "none"
    BY <1>8 DEF Confirm, Working
  <2>2. CASE Ends(a, clock)
    BY <1>0, <2>1, <2>2, EndsInHand
  <2>3. ASSUME NEW e, NEW print, Posts(a, e, print)
        PROVE  InHand'
    <3>1. /\ Tracked' = Tracked
          /\ \A b \in Account : b # a => accounts'[b] = accounts[b] /\ task'[b] = task[b]
          /\ task'[a] = [at |-> "posting", checkedAt |-> clock, expiresAt |-> e]
      BY <1>8, <2>3, PostsPlan
    <3>2. QED
      BY <1>0, <2>1, <3>1 DEF InHand, Tracked, Later
  <2>4. QED
    BY <1>8, <2>1, <2>2, <2>3, ConfirmCases
<1>9. ASSUME NEW a \in Account, AutoPost(a)
      PROVE  InHand' /\ UNCHANGED <<stepNow, clock>>
  <2>1. UNCHANGED <<pc, stopping, discovery, stepNow, due, clock>> /\ task[a].at = "posting"
    BY <1>9 DEF AutoPost
  <2>2. task[a].checkedAt \in Nat
    BY DEF Typed, TypeOK
  <2>3. ~stopping /\ pc \in {"consuming", "refreshing"} => task[a].checkedAt >= stepNow
    BY <2>1 DEF InHand
  <2>4. Ends(a, task[a].checkedAt)
    BY <1>9, AutoPostCases
  <2>5. QED
    BY <2>1, <2>2, <2>3, <2>4, EndsInHand
<1>10. ASSUME NEW a \in Account, Abandon(a)
       PROVE  InHand' /\ UNCHANGED <<stepNow, clock>>
  BY <1>10 DEF Abandon, Working, InHand
<1>11. ASSUME NEW a \in Account, Refresh(a)
       PROVE  InHand' /\ UNCHANGED <<stepNow, clock>>
  <2>1. PICK s \in Plan :
          /\ s.check > clock
          /\ accounts' = [accounts EXCEPT ![a] = s]
          /\ task' = IF ResetDue(s, clock) THEN [task EXCEPT ![a].at = "queued"] ELSE task
    BY <1>11, RefreshCases
  <2>2. /\ UNCHANGED <<pc, stopping, discovery, stepNow, clock>>
        /\ (~stopping => due' = due \ {a}) /\ pc = "refreshing"
        /\ \A b \in Account : task[b] = NoTask
    BY <1>11 DEF Refresh, Idle
  <2>3. DOMAIN task = Account
    BY DEF Typed, TypeOK
  <2>4. task'[a].at # "none" \/ Later(s)
    <3>1. CASE ResetDue(s, clock)
      BY <2>1, <2>2, <2>3, <3>1 DEF NoTask
    <3>2. CASE ~ResetDue(s, clock)
      BY <1>0, <2>1, <3>2 DEF ResetDue, Later, Plan
    <3>3. QED
      BY <3>1, <3>2
  <2>5. ASSUME ~stopping, NEW b \in Tracked'
        PROVE  task'[b].at # "none" \/ b \in due' \/ Later(accounts[b])'
    <3>1. CASE b = a
      BY <1>0, <2>1, <2>2, <2>4, <3>1 DEF Later
    <3>2. CASE b # a
      <4>1. b \in Account /\ b \in Tracked /\ accounts'[b] = accounts[b]
        BY <1>0, <2>1, <2>5, <3>2 DEF Tracked
      <4>2. task[b].at # "none" \/ b \in due \/ Later(accounts[b])
        BY <2>2, <2>5, <4>1 DEF InHand
      <4>3. task'[b] = task[b]
        BY <2>1, <2>3, <3>2, <4>1
      <4>4. QED
        BY <2>2, <2>5, <3>2, <4>1, <4>2, <4>3 DEF Later
    <3>3. QED
      BY <3>1, <3>2
  <2>6. \A b \in Account : task'[b].at # "posting"
    BY <2>1, <2>2, <2>3 DEF NoTask
  <2>7. ~stopping => discovery > stepNow
    BY <2>2 DEF InHand
  <2>8. QED
    BY <2>2, <2>5, <2>6, <2>7 DEF InHand
<1>12. CASE Stop
  BY <1>0, <1>12 DEF Stop, Outside, InHand, workerVars
<1>13. CASE Environment /\ ~Stop
  BY <1>1, <1>13 DEF Environment, ManualBegin, PageQuery, Toggle, ManualEnd, Tick,
                     AdminUse, Outside, workerVars
<1>14. CASE UNCHANGED vars
  BY <1>1, <1>14 DEF vars
<1>15. CASE StepEnds \/ Exit \/ ConsumingEnds
  BY <1>0, <1>5, <1>6, <1>15 DEF StepEnds, Exit, ConsumingEnds
<1>16. QED
  BY <1>0, <1>2, <1>3, <1>4, <1>7, <1>8, <1>9, <1>10, <1>11, <1>12, <1>13, <1>14, <1>15
  DEF Next, Worker

LEMMA NoSpinningStep ==
    ASSUME Typed, InHand, NoSpinning, [Next]_vars
    PROVE  NoSpinning'
<1>1. CASE StepEnds
  BY <1>1, StepEndsWake DEF StepEnds, NoSpinning
<1>2. CASE UNCHANGED <<pc, stepNow, wake>> /\ (stopping => stopping')
  BY <1>2 DEF NoSpinning
<1>3. CASE pc' # "asleep"
  BY <1>3 DEF NoSpinning
<1>4. CASE Environment
  BY <1>2, <1>4 DEF Environment, ManualBegin, PageQuery, Toggle, ManualEnd, Stop, Tick,
                    AdminUse, Outside, workerVars
<1>5. CASE Wake \/ ScanOk \/ ScanFail \/ ConsumingEnds \/ Exit
  BY <1>3, <1>5 DEF Wake, ScanOk, ScanFail, ConsumingEnds, Exit, Dispatch
<1>6. ASSUME NEW a \in Account,
             VerifyAccount(a) \/ Confirm(a) \/ AutoPost(a) \/ Abandon(a) \/ Refresh(a)
      PROVE  NoSpinning'
  BY <1>2, <1>6 DEF VerifyAccount, Confirm, AutoPost, Abandon, Refresh, Working
<1>7. CASE UNCHANGED vars
  BY <1>2, <1>7 DEF vars
<1>8. QED
  BY <1>1, <1>4, <1>5, <1>6, <1>7 DEF Next, Worker

LEMMA PublishedStep ==
    ASSUME Typed, InHand, PublishedAhead, [Next]_vars
    PROVE  PublishedAhead'
<1>1. CASE StepEnds
  BY <1>1, StepEndsWake DEF PublishedAhead
<1>2. CASE UNCHANGED <<pc, published, wake>>
  BY <1>2 DEF PublishedAhead
<1>3. CASE pc' # "asleep"
  BY <1>3 DEF PublishedAhead
<1>4. CASE Environment
  BY <1>2, <1>4 DEF Environment, ManualBegin, PageQuery, Toggle, ManualEnd, Stop, Tick,
                    AdminUse, Outside, workerVars
<1>5. CASE Wake \/ ScanOk \/ ScanFail \/ ConsumingEnds \/ Exit
  BY <1>3, <1>5 DEF Wake, ScanOk, ScanFail, ConsumingEnds, Exit, Dispatch
<1>6. ASSUME NEW a \in Account,
             VerifyAccount(a) \/ Confirm(a) \/ AutoPost(a) \/ Abandon(a) \/ Refresh(a)
      PROVE  PublishedAhead'
  BY <1>2, <1>6 DEF VerifyAccount, Confirm, AutoPost, Abandon, Refresh, Working
<1>7. CASE UNCHANGED vars
  BY <1>2, <1>7 DEF vars
<1>8. QED
  BY <1>1, <1>4, <1>5, <1>6, <1>7 DEF Next, Worker

-----------------------------------------------------------------------------
LEMMA IInvInductive ==
    /\ Init => IInv
    /\ IInv /\ [Next]_vars => IInv'
<1>1. NothingLeft <=> stepNow <= clock /\ InHand /\ NoSpinning
  BY DEF NothingLeft, InHand
<1>2. NothingLeft' <=> (stepNow <= clock)' /\ InHand' /\ NoSpinning'
  BY DEF NothingLeft, InHand
<1>3. Init => stepNow <= clock /\ InHand /\ NoSpinning /\ PublishedAhead
              /\ OneTrackedPerIdentity
  BY DEF Init, InHand, NoSpinning, PublishedAhead, OneTrackedPerIdentity, Tracked
<1>4. Init => IInv
  BY <1>1, <1>3, TypedInit, HoldersInductive, SnapshotsInductive DEF IInv, Typed
<1>5. ASSUME IInv, [Next]_vars
      PROVE  IInv'
  <2>1. Typed /\ InHand /\ stepNow <= clock /\ NoSpinning
    BY <1>1, <1>5 DEF IInv, Typed
  <2>2. Typed' /\ OneTrackedPerIdentity'
    BY <1>5, <2>1, TypedStep, OneTrackedStep DEF IInv
  <2>3. NothingLeft'
    BY <1>2, <1>5, <2>1, InHandStep, NoSpinningStep
  <2>4. PublishedAhead'
    BY <1>5, <2>1, PublishedStep DEF IInv
  <2>5. OneHolder' /\ PostsConfirmed' /\ SnapshotsGone'
    BY <1>5, <2>1, HoldersInductive, SnapshotsInductive DEF IInv
  <2>6. QED
    BY <2>2, <2>3, <2>4, <2>5 DEF IInv, Typed
<1>6. QED
  BY <1>4, <1>5

(* The inductive invariant.                                                *)
THEOREM Inductive == Spec => []IInv
BY IInvInductive, PTL DEF Spec

(* As long as the worker sleeps every plan the pages show is still ahead   *)
(* and ends before its credit does.                                        *)
THEOREM PlansLive == Spec => []PlansAreLive
<1>1. IInv => PlansAreLive
  <2> SUFFICES ASSUME IInv, pc = "asleep", clock < wake, NEW p \in published
               PROVE  clock < p.resetAt /\ p.resetAt < p.expiresAt
    BY DEF PlansAreLive
  <2>1. clock \in Nat /\ wake \in Nat /\ p.resetAt \in Nat
    BY DEF IInv, TypeOK
  <2>2. wake <= p.resetAt /\ p.resetAt < p.expiresAt
    BY DEF IInv, PublishedAhead
  <2>3. QED
    BY <2>1, <2>2
<1>2. QED
  BY <1>1, Inductive, PTL

(* A step never asks to be called again for the moment it began at or an   *)
(* earlier one.                                                            *)
THEOREM NoSpin == Spec => []NoSpinning
<1>1. IInv => NoSpinning
  BY DEF IInv, NothingLeft
<1>2. QED
  BY <1>1, Inductive, PTL

-----------------------------------------------------------------------------
(* What the guard promises.                                                *)

\* Nothing is in hand between two steps.
AtRest == pc \in {"asleep", "scanning", "exited"} => Idle

LEMMA AtRestStep ==
    ASSUME Typed, AtRest, [Next]_vars
    PROVE  AtRest'
<1>1. CASE pc' \notin {"asleep", "scanning", "exited"}
  BY <1>1 DEF AtRest
<1>2. CASE UNCHANGED <<pc, task>>
  BY <1>2 DEF AtRest, Idle
<1>3. CASE Idle /\ UNCHANGED task
  BY <1>3 DEF AtRest, Idle
<1>4. CASE Wake
  BY <1>1, <1>3, <1>4 DEF Wake, Dispatch, AtRest
<1>5. CASE ScanOk \/ ScanFail
  BY <1>1, <1>5 DEF ScanOk, ScanFail, Dispatch
<1>6. CASE ConsumingEnds \/ StepEnds \/ Exit
  BY <1>3, <1>6 DEF ConsumingEnds, StepEnds, Exit, AtRest
<1>7. ASSUME NEW a \in Account,
             VerifyAccount(a) \/ Confirm(a) \/ AutoPost(a) \/ Abandon(a) \/ Refresh(a)
      PROVE  AtRest'
  <2>1. pc' = pc
    BY <1>7 DEF VerifyAccount, Confirm, AutoPost, Abandon, Refresh, Working
  <2>2. task[a].at # "none" \/ pc = "refreshing"
    BY <1>7 DEF VerifyAccount, Confirm, AutoPost, Abandon, Refresh
  <2>3. QED
    BY <1>1, <2>1, <2>2 DEF AtRest, Idle, NoTask
<1>8. CASE Environment \/ UNCHANGED vars
  BY <1>2, <1>8 DEF Environment, vars, ManualBegin, PageQuery, Toggle, ManualEnd, Stop, Tick,
                    AdminUse, Outside, workerVars
<1>9. QED
  BY <1>4, <1>5, <1>6, <1>7, <1>8 DEF Next, Worker

(* Steps that take or release no lock and no time stutter.                 *)
LEMMA LocksKept ==
    ASSUME UNCHANGED <<clock, manual, lastAttempt>>,
           \A a \in Account : task'[a].at = "posting" <=> task[a].at = "posting"
    PROVE  UNCHANGED Guard!vars
<1>1. \A i \in Identity : Unlocked(i)' <=> Unlocked(i)
  BY DEF Unlocked
<1>2. LastReset' = LastReset
  BY <1>1 DEF LastReset
<1>3. QED
  BY <1>2 DEF Guard!vars

(* A reset of i starts when its lock is taken, is on its way while the     *)
(* lock is held and ends when it is released.                              *)
LEMMA LockTaken ==
    ASSUME TypeOK, NEW i \in Identity, Unlocked(i), ~TooRecent(i), ~Unlocked(i)',
           lastAttempt' = [lastAttempt EXCEPT ![i] = clock], clock' = clock,
           \A j \in Identity \ {i} : Unlocked(j)' <=> Unlocked(j)
    PROVE  Guard!Start(i)
<1>1. lastAttempt \in [Identity -> Nat] /\ clock \in Nat \ {0} /\ DedupWindow \in Nat
  BY Intervals DEF TypeOK
<1>2. LastReset[i] = lastAttempt[i] - 1
  BY DEF LastReset
<1>3. LastReset[i] # -2
      /\ (LastReset[i] # -1 => (clock - 1) - LastReset[i] >= DedupWindow)
  BY <1>1, <1>2 DEF TooRecent
<1>4. \A j \in Identity : j # i => LastReset'[j] = LastReset[j]
  BY <1>1 DEF LastReset
<1>5. LastReset' = [LastReset EXCEPT ![i] = -2]
  BY <1>4 DEF LastReset
<1>6. QED
  BY <1>3, <1>5 DEF Guard!Start

LEMMA LockReleased ==
    ASSUME TypeOK, NEW i \in Identity, ~Unlocked(i), Unlocked(i)',
           lastAttempt' = [lastAttempt EXCEPT ![i] = clock], clock' = clock,
           \A j \in Identity \ {i} : Unlocked(j)' <=> Unlocked(j)
    PROVE  Guard!Finish(i)
<1>1. lastAttempt \in [Identity -> Nat] /\ clock \in Nat \ {0}
  BY DEF TypeOK
<1>2. LastReset[i] = -2
  BY DEF LastReset
<1>3. \A j \in Identity : j # i => LastReset'[j] = LastReset[j]
  BY <1>1 DEF LastReset
<1>4. LastReset' = [LastReset EXCEPT ![i] = clock - 1]
  BY <1>1, <1>3 DEF LastReset
<1>5. QED
  BY <1>2, <1>4 DEF Guard!Finish

LEMMA GuardStep ==
    ASSUME Typed, OneHolder, AtRest, [Next]_vars
    PROVE  [Guard!Next]_(Guard!vars)
<1>0. /\ TypeOK /\ DOMAIN task = Account /\ manual \subseteq Account
      /\ \A a \in Account : IdentityOf[a] \in Identity
  BY AutoResetAssumption DEF Typed, TypeOK, Identity
<1>1. ASSUME UNCHANGED <<clock, manual, lastAttempt, task>>
      PROVE  UNCHANGED Guard!vars
  BY <1>1, LocksKept
<1>2. CASE Wake \/ ScanOk \/ ScanFail
  <2>1. UNCHANGED <<clock, manual, lastAttempt>>
    BY <1>2 DEF Wake, ScanOk, ScanFail
  <2>2. \A a \in Account : task[a].at # "posting"
    BY <1>2 DEF Wake, ScanOk, ScanFail, AtRest, Idle, NoTask
  <2>3. task' = task \/ \A a \in Account : task'[a].at # "posting"
    BY <1>2, DispatchQuiet DEF Wake, ScanOk, ScanFail
  <2>4. QED
    BY <2>1, <2>2, <2>3, LocksKept
<1>3. CASE ConsumingEnds \/ StepEnds \/ Exit \/ UNCHANGED vars
  BY <1>1, <1>3 DEF ConsumingEnds, StepEnds, Exit, vars
<1>4. ASSUME NEW a \in Account, VerifyAccount(a) \/ Abandon(a)
      PROVE  UNCHANGED Guard!vars
  <2>1. UNCHANGED <<clock, manual, lastAttempt>> /\ task[a].at = "queued"
    BY <1>4 DEF VerifyAccount, Abandon, Working
  <2>2. task' = [task EXCEPT ![a].at = "verified"] \/ task' = [task EXCEPT ![a] = NoTask]
    BY <1>4 DEF VerifyAccount, Abandon, Done
  <2>3. task'[a].at # "posting" /\ \A b \in Account : b # a => task'[b] = task[b]
    BY <1>0, <2>2 DEF NoTask, TypeOK
  <2>4. QED
    BY <2>1, <2>3, LocksKept
<1>5. ASSUME NEW a \in Account, Refresh(a)
      PROVE  UNCHANGED Guard!vars
  <2>1. UNCHANGED <<clock, manual, lastAttempt>> /\ task[a] = NoTask
    BY <1>5 DEF Refresh, Idle
  <2>2. task' = task \/ task' = [task EXCEPT ![a].at = "queued"]
    BY <1>5 DEF Refresh
  <2>3. task'[a].at # "posting" /\ \A b \in Account : b # a => task'[b] = task[b]
    BY <1>0, <2>1, <2>2 DEF NoTask
  <2>4. QED
    BY <2>1, <2>3, LocksKept DEF NoTask
<1>6. ASSUME NEW a \in Account, Confirm(a)
      PROVE  [Guard!Next]_(Guard!vars)
  <2>1. UNCHANGED <<clock, manual>> /\ task[a].at = "verified"
    BY <1>6 DEF Confirm, Working
  <2>2. ASSUME Ends(a, clock), UNCHANGED lastAttempt
        PROVE  UNCHANGED Guard!vars
    <3>1. task'[a].at # "posting" /\ \A b \in Account : b # a => task'[b] = task[b]
      BY <1>0, <2>2 DEF Ends, Done, NoTask
    <3>2. QED
      BY <2>1, <2>2, <3>1, LocksKept
  <2>3. ASSUME NEW e, NEW print, Posts(a, e, print)
        PROVE  Guard!Next
    <3>1. PICK i \in Identity : i = IdentityOf[a]
      BY <1>0
    <3>2. /\ task'[a].at = "posting" /\ \A b \in Account : b # a => task'[b] = task[b]
          /\ lastAttempt' = [lastAttempt EXCEPT ![i] = clock]
      BY <1>0, <2>3, <3>1 DEF Posts
    <3>3. Unlocked(i)
      BY <1>6, <3>1 DEF Confirm
    <3>4. ~TooRecent(i)
      <4>1. PICK S : Decide(a, S)
        BY <1>6 DEF Confirm
      <4>2. ASSUME NEW s, Done(a, s)
            PROVE  FALSE
        BY <1>0, <3>2, <4>2 DEF Done, NoTask
      <4>3. QED
        BY <3>1, <4>1, <4>2 DEF Decide
    <3>5. ~Unlocked(i)' /\ \A j \in Identity \ {i} : Unlocked(j)' <=> Unlocked(j)
      BY <2>1, <3>1, <3>2 DEF Unlocked
    <3>6. Guard!Start(i)
      BY <1>0, <2>1, <3>2, <3>3, <3>4, <3>5, LockTaken
    <3>7. QED
      BY <3>6 DEF Guard!Next
  <2>4. QED
    BY <1>6, <2>2, <2>3, ConfirmCases
<1>7. ASSUME NEW a \in Account, AutoPost(a)
      PROVE  Guard!Next
  <2>1. PICK i \in Identity : i = IdentityOf[a]
    BY <1>0
  <2>2. /\ task[a].at = "posting" /\ task'[a].at # "posting"
        /\ \A b \in Account : b # a => task'[b] = task[b]
        /\ lastAttempt' = [lastAttempt EXCEPT ![i] = clock]
        /\ UNCHANGED <<clock, manual>>
    BY <1>0, <1>7, <2>1 DEF AutoPost, Done, NoTask
  <2>3. ~Unlocked(i) /\ Unlocked(i)'
    BY <1>0, <2>1, <2>2 DEF Unlocked, OneHolder
  <2>4. \A j \in Identity \ {i} : Unlocked(j)' <=> Unlocked(j)
    BY <2>1, <2>2 DEF Unlocked
  <2>5. Guard!Finish(i)
    BY <1>0, <2>2, <2>3, <2>4, LockReleased
  <2>6. QED
    BY <2>5 DEF Guard!Next
<1>8. ASSUME NEW a \in Account, ManualBegin(a)
      PROVE  Guard!Next
  <2>1. PICK i \in Identity : i = IdentityOf[a]
    BY <1>0
  <2>2. /\ manual' = manual \cup {a} /\ Unlocked(i) /\ ~TooRecent(i)
        /\ lastAttempt' = [lastAttempt EXCEPT ![i] = clock]
        /\ UNCHANGED <<clock, task>>
    BY <1>8, <2>1 DEF ManualBegin, Outside, workerVars
  <2>3. ~Unlocked(i)' /\ \A j \in Identity \ {i} : Unlocked(j)' <=> Unlocked(j)
    BY <1>0, <2>1, <2>2 DEF Unlocked
  <2>4. Guard!Start(i)
    BY <1>0, <2>2, <2>3, LockTaken
  <2>5. QED
    BY <2>4 DEF Guard!Next
<1>9. ASSUME NEW a \in Account, ManualEnd(a)
      PROVE  Guard!Next
  <2>1. a \in manual
    BY <1>9 DEF ManualEnd
  <2>2. PICK i \in Identity : i = IdentityOf[a]
    BY <1>0
  <2>3. /\ manual' = manual \ {a} /\ UNCHANGED <<clock, task>>
        /\ lastAttempt' = [lastAttempt EXCEPT ![i] = clock]
    BY <1>9, <2>2 DEF ManualEnd, workerVars
  <2>4. ~Unlocked(i) /\ Unlocked(i)'
    BY <1>0, <2>1, <2>2, <2>3 DEF Unlocked, OneHolder
  <2>5. \A j \in Identity \ {i} : Unlocked(j)' <=> Unlocked(j)
    BY <2>1, <2>2, <2>3 DEF Unlocked
  <2>6. Guard!Finish(i)
    BY <1>0, <2>3, <2>4, <2>5, LockReleased
  <2>7. QED
    BY <2>6 DEF Guard!Next
<1>10. CASE \/ \E a \in Account : PageQuery(a) \/ Toggle(a)
            \/ Stop \/ \E i \in Identity : AdminUse(i)
  BY <1>1, <1>10 DEF PageQuery, Toggle, Stop, AdminUse, Outside, workerVars
<1>11. CASE Tick
  <2>1. /\ clock < MaxClock /\ clock' = clock + 1
        /\ UNCHANGED <<lastAttempt, manual, task>>
    BY <1>11 DEF Tick, workerVars
  <2>2. LastReset' = LastReset
    BY <2>1 DEF LastReset, Unlocked
  <2>3. clock \in Nat /\ MaxClock \in Nat
    BY <1>0, AutoResetAssumption DEF TypeOK
  <2>4. clock - 1 < MaxClock - 1 /\ clock' - 1 = (clock - 1) + 1
    BY <2>1, <2>3
  <2>5. QED
    BY <2>2, <2>4 DEF Guard!Next, Guard!Tick
<1>12. QED
  BY <1>2, <1>3, <1>4, <1>5, <1>6, <1>7, <1>8, <1>9, <1>10, <1>11
  DEF Next, Worker, Environment

(* Pages and worker together keep what the guard promises: the resets of   *)
(* an identity come one at a time, DedupWindow apart.                      *)
THEOREM GuardKept == Spec => ResetsSpaced
<1>1. Init => Guard!Init
  BY DEF Init, Guard!Init, LastReset, Unlocked, NoTask
<1>2. Init => AtRest
  BY DEF Init, AtRest, Idle
<1>3. Typed /\ AtRest /\ [Next]_vars => AtRest'
  BY AtRestStep
<1>4. Typed /\ OneHolder /\ AtRest /\ [Next]_vars => [Guard!Next]_(Guard!vars)
  BY GuardStep
<1>5. Spec => [](Typed /\ OneHolder /\ AtRest)
  BY <1>2, <1>3, HoldersInductive, PTL DEF Spec
<1>6. QED
  BY <1>1, <1>4, <1>5, PTL DEF Spec, ResetsSpaced, Guard!Spec

-----------------------------------------------------------------------------
(* No credit lapses.                                                       *)

\* The credits of identity i that nobody has used.
Left(i) == {k \in OwnedBy(i) : spender[k] = None}

\* The guard would refuse a reset of i at t because of the last one.
Delayed(i, t) == Unlocked(i) /\ lastAttempt[i] # 0 /\ t - lastAttempt[i] < DedupWindow

\* Resets still to come, counting the pause after the last one, and the
\* time from the first of them to the last if l come and f requests have
\* failed.
Load(i, t) == Cardinality(Left(i)) + IF Delayed(i, t) THEN 1 ELSE 0
Need(l, f) == (l - 1) * PostReset + (MaxFaults - f) * VerifyRetry

\* An account of i that is dealt with at t is done before e.
Enough(i, t, e) == t + Need(Load(i, t), faults) < e

\* When the worker deals with a plan again.
Look(s) == IF s.resetAt # 0 /\ s.resetAt <= s.check THEN s.resetAt ELSE s.check

\* Credits the cache shows for a.
Cached(a) ==
    IF cache[a] = None THEN {}
    ELSE IF cache[a].credits = None THEN {} ELSE cache[a].credits

\* Expiries the worker may have to meet for a: of a credit that is left, of
\* one it may believe to be left, of its plan.
Deadline(a, e) ==
    \/ \E k \in Left(IdentityOf[a]) : e = expiry[k] /\ e # 0
    \/ \E k \in Cached(a) : e = expiry[k] /\ e > clock
    \/ accounts[a].resetAt # 0 /\ e = accounts[a].expiresAt

\* The worker deals with a early enough; an error in the cache is not what
\* it will read; the snapshot it has tried is gone.
InTime(a) ==
    LET i == IdentityOf[a]
        s == accounts[a]
    IN
    Left(i) # {} =>
        /\ clock <= Look(s)
        /\ \A e \in Nat : Deadline(a, e) => Enough(i, Look(s), e)
        /\ cache[a] # None /\ cache[a].credits = None => s.resetAt # 0 /\ s.resetAt <= s.check
        /\ s.tried # None =>
              Cardinality(Left(i)) < s.tried.count + IF task[a].at = "posting" THEN 1 ELSE 0

AllInTime == \A a \in Tracked : InTime(a)

\* The cache never shows less than what is left, and an error only to the
\* worker that has met it.
CacheFits ==
    \A a \in Account : cache[a] # None =>
        IF cache[a].credits = None THEN a \in Tracked
        ELSE Left(IdentityOf[a]) \subseteq cache[a].credits

\* A stamp that pauses the resets of an identity was paid for with a credit.
Stamped ==
    \A i \in Identity :
        /\ lastAttempt[i] <= clock
        /\ lastAttempt[i] # 0 /\ Unlocked(i) => Left(i) = {} \/ Left(i) # OwnedBy(i)

\* What is in hand is due now.
InHandDue ==
    \A a \in Account :
        /\ task[a].at # "none" => accounts[a].resetAt # 0 /\ accounts[a].resetAt <= clock
        /\ task[a].at = "posting" => task[a].checkedAt = clock
        /\ a \in due => /\ accounts[a].check <= clock
                        /\ accounts[a].resetAt = 0 \/ accounts[a].resetAt > clock

\* The worker runs, takes no time for a step and wakes when it has to.
Punctual ==
    /\ ~stopping /\ pc # "exited" /\ eligible = Account
    /\ faults \in 0..MaxFaults /\ slow = 0
    /\ pc # "asleep" => stepNow = clock
    /\ pc \in {"asleep", "scanning"} => due = {} /\ Idle
    /\ discovery = 0 =>
          clock = 1 /\ wake = 0 /\ pc \in {"asleep", "scanning"} /\ Tracked = {}
    /\ discovery # 0 => Tracked = Representatives
    /\ \A a \in Tracked : accounts[a].check # 0
    /\ discovery # 0 /\ pc = "asleep" =>
          clock <= wake /\ \A a \in Tracked : wake <= Look(accounts[a])

Unlapsed == \A k \in Credit : spender[k] = None => expiry[k] = 0 \/ clock < expiry[k]

TimelyInv ==
    /\ IInv
    /\ Punctual
    /\ InHandDue
    /\ Stamped
    /\ CacheFits
    /\ Unlapsed
    /\ AllInTime

(* The time that Load resets need.                                         *)
LEMMA NeedArithmetic ==
    ASSUME NEW l \in Nat, NEW f \in 0..MaxFaults
    PROVE  /\ Need(l, f) \in Int
           /\ l > 0 => Need(l, f) >= 0
           /\ Need(l + 1, f) = Need(l, f) + PostReset
           /\ f < MaxFaults => Need(l, f) = Need(l, f + 1) + VerifyRetry
<1>1. PostReset \in Nat /\ VerifyRetry \in Nat /\ MaxFaults \in Nat
  BY AutoResetAssumption
<1>2. PICK r : r = MaxFaults - f
  OBVIOUS
<1>3. r \in Nat /\ r * VerifyRetry \in Nat
  BY <1>1, <1>2
<1>4. (l - 1) * PostReset \in Int /\ (l > 0 => (l - 1) * PostReset >= 0)
  BY <1>1
<1>5. (l + 1 - 1) * PostReset = (l - 1) * PostReset + PostReset
  BY <1>1
<1>6. f < MaxFaults => r * VerifyRetry = (MaxFaults - (f + 1)) * VerifyRetry + VerifyRetry
  BY <1>1, <1>2
<1>7. (MaxFaults - (f + 1)) * VerifyRetry \in Int
  BY <1>1
<1>8. QED
  BY <1>1, <1>2, <1>3, <1>4, <1>5, <1>6, <1>7 DEF Need

LEMMA NeedLess ==
    ASSUME NEW l \in Nat, NEW m \in Nat, m <= l,
           NEW f \in 0..MaxFaults, NEW g \in 0..MaxFaults, f <= g
    PROVE  Need(m, g) <= Need(l, f)
<1>1. PostReset \in Nat /\ VerifyRetry \in Nat /\ MaxFaults \in Nat
  BY AutoResetAssumption
<1>2. \A x, y \in Int, c \in Nat : x <= y => x * c <= y * c
  OBVIOUS
<1>3. (m - 1) * PostReset <= (l - 1) * PostReset
  BY <1>1, <1>2
<1>4. (MaxFaults - g) * VerifyRetry <= (MaxFaults - f) * VerifyRetry
  BY <1>1, <1>2
<1>5. (m - 1) * PostReset \in Int /\ (l - 1) * PostReset \in Int
      /\ (MaxFaults - g) * VerifyRetry \in Int /\ (MaxFaults - f) * VerifyRetry \in Int
  BY <1>1
<1>6. QED
  BY <1>3, <1>4, <1>5 DEF Need

(* Credits are finitely many.                                              *)
LEMMA LeftFinite ==
    ASSUME NEW i
    PROVE  /\ OwnedBy(i) \subseteq Credit /\ Left(i) \subseteq OwnedBy(i)
           /\ IsFiniteSet(Left(i))
           /\ Cardinality(Left(i)) \in Nat /\ Cardinality(OwnedBy(i)) \in Nat
           /\ Left(i) # {} => Cardinality(Left(i)) >= 1
           /\ Cardinality(Left(i)) <= Cardinality(OwnedBy(i))
           /\ Left(i) # OwnedBy(i) => Cardinality(Left(i)) + 1 <= Cardinality(OwnedBy(i))
<1>1. OwnedBy(i) \subseteq Credit /\ Left(i) \subseteq OwnedBy(i)
  BY DEF OwnedBy, Left
<1>2. IsFiniteSet(OwnedBy(i)) /\ IsFiniteSet(Left(i))
  BY <1>1, FS_Subset, AutoResetAssumption
<1>3. Cardinality(Left(i)) \in Nat /\ Cardinality(OwnedBy(i)) \in Nat
  BY <1>2, FS_CardinalityType
<1>4. Left(i) # {} => Cardinality(Left(i)) # 0
  BY <1>2, FS_EmptySet
<1>5. /\ Cardinality(Left(i)) <= Cardinality(OwnedBy(i))
      /\ Cardinality(Left(i)) = Cardinality(OwnedBy(i)) => Left(i) = OwnedBy(i)
  BY <1>1, <1>2, FS_Subset
<1>6. QED
  BY <1>1, <1>2, <1>3, <1>4, <1>5

LEMMA LoadTyped ==
    ASSUME NEW i, NEW t
    PROVE  /\ Load(i, t) \in Nat
           /\ Left(i) # {} => Load(i, t) >= 1
           /\ Cardinality(Left(i)) <= Load(i, t)
BY LeftFinite DEF Load

(* What is left can still be used.                                         *)
LEMMA LeftUsable ==
    ASSUME Unlapsed, NEW i
    PROVE  Left(i) = Usable(i)
BY DEF Unlapsed, Left, OwnedBy, Usable

(* At t there is enough time for everything that expires Lead later.       *)
LEMMA EnoughEarly ==
    ASSUME Timely, Punctual, Stamped, NEW i \in Identity, Left(i) # {},
           NEW t \in Nat, NEW e \in Nat, t + Lead <= e
    PROVE  Enough(i, t, e)
<1>1. PICK n : n = Cardinality(OwnedBy(i))
  OBVIOUS
<1>2. n \in Nat /\ Load(i, t) \in Nat
  BY <1>1, LeftFinite, LoadTyped
<1>3. Load(i, t) <= n
  <2>1. CASE Delayed(i, t)
    BY <1>1, <2>1, LeftFinite DEF Load, Delayed, Stamped
  <2>2. CASE ~Delayed(i, t)
    BY <1>1, <2>2, LeftFinite DEF Load
  <2>3. QED
    BY <2>1, <2>2
<1>4. 0 \in 0..MaxFaults /\ faults \in 0..MaxFaults /\ 0 <= faults
  BY AutoResetAssumption DEF Punctual
<1>5. Need(Load(i, t), faults) <= Need(n, 0)
  BY <1>2, <1>3, <1>4, NeedLess
<1>6. Need(n, 0) < Lead
  BY <1>1, AutoResetAssumption DEF Timely, Need
<1>7. Need(n, 0) \in Int /\ Need(Load(i, t), faults) \in Int /\ Lead \in Nat
  BY <1>2, <1>4, NeedArithmetic, AutoResetAssumption
<1>8. QED
  BY <1>5, <1>6, <1>7 DEF Enough

(* There is more time the earlier the worker looks and the less is left.   *)
LEMMA EnoughTime ==
    ASSUME Punctual, NEW i, Left(i) # {}, NEW t \in Nat, NEW e \in Nat, Enough(i, t, e)
    PROVE  t < e
<1>1. Load(i, t) \in Nat /\ Load(i, t) >= 1 /\ faults \in 0..MaxFaults
  BY LoadTyped DEF Punctual
<1>2. Need(Load(i, t), faults) \in Int /\ Need(Load(i, t), faults) >= 0
  BY <1>1, NeedArithmetic
<1>3. QED
  BY <1>2 DEF Enough

(* What can happen when everything is Timely.                              *)
\* The worker's steps and the others' that are left.
WorkerStep ==
    \/ Wake \/ ScanOk \/ ConsumingEnds \/ StepEnds
    \/ \E a \in Account : VerifyAccount(a) \/ Confirm(a) \/ AutoPost(a) \/ Refresh(a)

OthersStep ==
    \/ \E a \in Account : ManualBegin(a) \/ ManualEnd(a) \/ PageQuery(a)
    \/ \E i \in Identity : AdminUse(i)

LEMMA TimelySteps ==
    ASSUME Timely, TimelyInv, [Next]_vars
    PROVE  WorkerStep \/ OthersStep \/ Tick \/ UNCHANGED vars
<1>1. stopping = FALSE
  BY DEF TimelyInv, IInv, TypeOK, Punctual
<1>2. ~ScanFail
  BY <1>1 DEF ScanFail, Fails, Timely
<1>3. ~Exit /\ \A a \in Account : ~Abandon(a)
  BY <1>1 DEF Exit, Abandon
<1>4. ~Stop /\ \A a \in Account : ~Toggle(a)
  BY DEF Timely, Stop, Toggle, Outside
<1>5. QED
  BY <1>2, <1>3, <1>4 DEF Next, Worker, Environment, WorkerStep, OthersStep

(* A step of the clock ends before the worker has to wake.                 *)
LEMMA TickAsleep ==
    ASSUME Timely, TimelyInv, Tick
    PROVE  /\ pc = "asleep" /\ discovery # 0
           /\ clock' = clock + 1 /\ clock' <= wake
           /\ UNCHANGED <<sub2api, cache, lastAttempt, manual, workerVars, stopping,
                          history, faults, outside, slow>>
<1>1. /\ clock \in Nat /\ wake \in Nat /\ slow = 0 /\ MaxSlow = 0
      /\ pc # "exited" /\ (discovery = 0 => clock = 1 /\ wake = 0)
  BY DEF TimelyInv, IInv, TypeOK, Punctual, Timely
<1>2. pc = "asleep" /\ clock < wake /\ UNCHANGED slow
  BY <1>1 DEF Tick
<1>3. QED
  BY <1>1, <1>2 DEF Tick

(* Requests that fail are counted; nothing else changes the conditions.    *)
LEMMA ConditionsKept ==
    ASSUME Timely, TimelyInv, [Next]_vars
    PROVE  /\ faults' \in 0..MaxFaults /\ faults' >= faults
           /\ slow' = 0 /\ stopping' = FALSE /\ eligible' = Account
<1>1. /\ stopping = FALSE /\ faults \in 0..MaxFaults /\ slow = 0 /\ eligible = Account
      /\ MaxFaults \in Nat
  BY AutoResetAssumption DEF TimelyInv, IInv, TypeOK, Punctual
<1>2. ASSUME UNCHANGED faults \/ \E kind : Fails(kind, FALSE)
      PROVE  faults' \in 0..MaxFaults /\ faults' >= faults
  BY <1>1, <1>2 DEF Fails
<1>3. UNCHANGED <<slow, stopping, eligible>>
  <2>1. CASE Tick
    BY <2>1, TickAsleep DEF sub2api
  <2>2. CASE WorkerStep
    BY <2>2 DEF WorkerStep, Wake, ScanOk, ConsumingEnds, StepEnds, VerifyAccount, Confirm,
                AutoPost, Refresh, Working, sub2api
  <2>3. CASE OthersStep
    BY <2>3 DEF OthersStep, ManualBegin, ManualEnd, PageQuery, AdminUse, Outside, sub2api
  <2>4. CASE UNCHANGED vars
    BY <2>4 DEF vars
  <2>5. QED
    BY <2>1, <2>2, <2>3, <2>4, TimelySteps
<1>4. UNCHANGED faults \/ \E kind : Fails(kind, FALSE)
  <2>1. CASE Tick \/ UNCHANGED vars
    BY <2>1, TickAsleep DEF vars
  <2>2. CASE Wake \/ ScanOk \/ ConsumingEnds \/ StepEnds
    BY <2>2 DEF Wake, ScanOk, ConsumingEnds, StepEnds, Succeeds
  <2>3. ASSUME NEW a \in Account, VerifyAccount(a)
        PROVE  UNCHANGED faults \/ Fails("verify", FALSE)
    BY <1>1, <2>3 DEF VerifyAccount, Succeeds
  <2>4. ASSUME NEW a, NEW fresh, NEW kind, NEW S, QuotaQuery(a, fresh, kind, FALSE, S)
        PROVE  UNCHANGED faults \/ Fails(kind, FALSE)
    BY <2>4 DEF QuotaQuery, Succeeds
  <2>5. ASSUME NEW a \in Account, Confirm(a) \/ Refresh(a) \/ PageQuery(a)
        PROVE  UNCHANGED faults \/ \E kind : Fails(kind, FALSE)
    <3>1. CASE Confirm(a)
      BY <1>1, <2>4, <3>1 DEF Confirm
    <3>2. CASE Refresh(a)
      BY <1>1, <2>4, <3>2 DEF Refresh
    <3>3. CASE PageQuery(a)
      BY <1>1, <2>4, <3>3 DEF PageQuery
    <3>4. QED
      BY <2>5, <3>1, <3>2, <3>3
  <2>6. ASSUME NEW i, NEW who, NEW came, Post(i, who, came, FALSE)
        PROVE  UNCHANGED faults \/ Fails("post", FALSE)
    BY <2>6 DEF Post, Succeeds
  <2>7. ASSUME NEW a \in Account, AutoPost(a)
        PROVE  UNCHANGED faults \/ Fails("post", FALSE)
    BY <1>1, <2>6, <2>7 DEF AutoPost
  <2>8. ASSUME NEW a \in Account, ManualEnd(a)
        PROVE  UNCHANGED faults \/ Fails("post", FALSE)
    BY <2>6, <2>8 DEF ManualEnd
  <2>9. CASE \/ \E a \in Account : ManualBegin(a)
             \/ \E i \in Identity : AdminUse(i)
    BY <2>9 DEF ManualBegin, AdminUse
  <2>10. QED
    BY <2>1, <2>2, <2>3, <2>5, <2>7, <2>8, <2>9, TimelySteps DEF WorkerStep, OthersStep
<1>5. QED
  BY <1>1, <1>2, <1>3, <1>4

(* After the first scan every identity has an account that is scheduled.   *)
LEMMA SomebodyTracked ==
    ASSUME TimelyInv, discovery # 0, NEW i \in Identity
    PROVE  \E a \in Tracked : IdentityOf[a] = i
<1>1. PICK A : A = {a \in Account : IdentityOf[a] = i}
  OBVIOUS
<1>2. A \in SUBSET Nat /\ A # {}
  BY <1>1, Intervals DEF Identity
<1>3. Min(A) \in A /\ \A b \in A : Min(A) <= b
  BY <1>2, Least
<1>4. Tracked = Representatives /\ eligible = Account
  BY DEF TimelyInv, Punctual
<1>5. Min(A) \in Representatives
  BY <1>1, <1>3, <1>4 DEF Representatives
<1>6. QED
  BY <1>1, <1>3, <1>4, <1>5

(* A request that gets through uses up one of the credits left; without    *)
(* faults it only fails when there are none.                               *)
LEMMA PostSpends ==
    ASSUME Timely, Unlapsed, TypeOK, NEW i \in Identity, NEW who \in {"auto", "manual"},
           NEW came \in BOOLEAN, Post(i, who, came, FALSE)
    PROVE  \/ Left(i) = {} /\ spender' = spender /\ ~came
           \/ /\ came
              /\ \E k \in Left(i) : spender' = [spender EXCEPT ![k] = who]
<1>1. ~Fails("post", FALSE)
  BY DEF Timely, Fails
<1>2. Left(i) = Usable(i)
  BY LeftUsable
<1>3. FirstToExpire(i) \subseteq Usable(i)
  BY DEF FirstToExpire
<1>4. CASE ~came
  BY <1>1, <1>2, <1>4 DEF Post
<1>5. CASE came
  BY <1>1, <1>2, <1>3, <1>5 DEF Post
<1>6. QED
  BY <1>4, <1>5

(* What using up a credit leaves.                                          *)
LEMMA SpentLeft ==
    ASSUME TypeOK, NEW i, NEW k \in Left(i), NEW who, who # None,
           spender' = [spender EXCEPT ![k] = who]
    PROVE  /\ \A j : j # i => Left(j)' = Left(j)
           /\ Left(i)' = Left(i) \ {k}
           /\ Left(i)' # OwnedBy(i)
           /\ Cardinality(Left(i)') = Cardinality(Left(i)) - 1
<1>1. /\ \A j : \A m \in OwnedBy(j) : m \in Credit /\ OwnerOf[m] = j
      /\ k \in Credit /\ OwnerOf[k] = i /\ k \in OwnedBy(i)
      /\ DOMAIN spender = Credit
  BY DEF OwnedBy, Left, TypeOK
<1>2. \A m \in Credit : spender'[m] = IF m = k THEN who ELSE spender[m]
  BY <1>1
<1>3. \A j : j # i => Left(j)' = Left(j)
  BY <1>1, <1>2 DEF Left
<1>4. Left(i)' = Left(i) \ {k}
  BY <1>1, <1>2 DEF Left
<1>5. Cardinality(Left(i) \ {k}) = Cardinality(Left(i)) - 1
  BY LeftFinite, FS_RemoveElement
<1>6. QED
  BY <1>1, <1>3, <1>4, <1>5

(* No credit comes back.                                                   *)
LEMMA LeftShrinks ==
    ASSUME Typed, [Next]_vars, NEW i
    PROVE  /\ Left(i)' \subseteq Left(i)
           /\ Cardinality(Left(i)') \in Nat
           /\ Cardinality(Left(i)') <= Cardinality(Left(i))
<1>1. /\ spender \in [Credit -> {None, "auto", "manual", "outside"}]
      /\ None \notin {"auto", "manual", "outside"}
  BY AutoResetAssumption DEF Typed, TypeOK
<1>2. \A k \in Credit : spender'[k] = None => spender[k] = None
  <2>1. CASE spender' = spender
    BY <2>1
  <2>2. ASSUME NEW who \in {"auto", "manual", "outside"}, NEW m,
               spender' = [spender EXCEPT ![m] = who]
        PROVE  \A k \in Credit : spender'[k] = None => spender[k] = None
    BY <1>1, <2>2
  <2>3. \/ spender' = spender
        \/ \E who \in {"auto", "manual", "outside"} : \E m : spender' = [spender EXCEPT ![m] = who]
    BY SpenderCases
  <2>4. QED
    BY <2>1, <2>2, <2>3
<1>3. Left(i)' \subseteq Left(i)
  BY <1>2 DEF Left, OwnedBy
<1>4. QED
  BY <1>3, LeftFinite, FS_Subset, FS_CardinalityType

(* What a step does to the guard of an identity: nothing, or it takes the  *)
(* lock, or a reset ends that has used up a credit or found none.          *)
LEMMA GuardCases ==
    ASSUME Timely, TimelyInv, [Next]_vars, NEW i \in Identity
    PROVE  /\ lastAttempt'[i] \in {lastAttempt[i], clock}
           /\ \/ Unlocked(i)' => Unlocked(i) /\ lastAttempt'[i] = lastAttempt[i]
              \/ Left(i)' = {}
              \/ /\ Left(i)' # OwnedBy(i)
                 /\ Cardinality(Left(i)') = Cardinality(Left(i)) - 1
<1> DEFINE Goal ==
       /\ lastAttempt'[i] \in {lastAttempt[i], clock}
       /\ \/ Unlocked(i)' => Unlocked(i) /\ lastAttempt'[i] = lastAttempt[i]
          \/ Left(i)' = {}
          \/ /\ Left(i)' # OwnedBy(i)
             /\ Cardinality(Left(i)') = Cardinality(Left(i)) - 1
<1>0. /\ Typed /\ Unlapsed /\ Punctual /\ OneHolder /\ TypeOK /\ stopping = FALSE
      /\ lastAttempt \in [Identity -> Nat]
      /\ \A a \in Account : IdentityOf[a] \in Identity
      /\ DOMAIN task = Account
  BY AutoResetAssumption DEF TimelyInv, IInv, Typed, TypeOK, Punctual, Identity
<1>8. ASSUME /\ manual \subseteq manual'
             /\ \A a \in Account : task[a].at = "posting" => task'[a].at = "posting"
             /\ lastAttempt'[i] \in {lastAttempt[i], clock}
             /\ Unlocked(i)' => lastAttempt'[i] = lastAttempt[i]
      PROVE  Goal
  <2>1. Unlocked(i)' => Unlocked(i)
    BY <1>8 DEF Unlocked
  <2>2. QED
    BY <1>8, <2>1
<1>9. CASE Wake \/ ScanOk \/ ConsumingEnds \/ StepEnds \/ UNCHANGED vars
  <2>1. manual' = manual /\ lastAttempt' = lastAttempt
    BY <1>9 DEF Wake, ScanOk, ConsumingEnds, StepEnds, vars
  <2>2. \A a \in Account : task[a].at = "posting" => task'[a] = task[a]
    BY <1>0, <1>9 DEF Punctual, Idle, NoTask, Wake, ScanOk, ConsumingEnds, StepEnds, vars
  <2>3. QED
    BY <1>8, <2>1, <2>2
<1>10. CASE Tick
  BY <1>8, <1>10, TickAsleep DEF workerVars
<1>11. ASSUME NEW a \in Account, VerifyAccount(a) \/ Refresh(a)
       PROVE  Goal
  <2>1. UNCHANGED <<manual, lastAttempt>>
    BY <1>11 DEF VerifyAccount, Refresh, Working
  <2>2. \A b \in Account : task[b].at = "posting" => task'[b].at = "posting"
    <3>1. CASE VerifyAccount(a)
      <4>1. task[a].at = "queued" /\ \A b \in Account : b # a => task'[b] = task[b]
        BY <1>0, <3>1 DEF VerifyAccount, Done
      <4>2. QED
        BY <4>1
    <3>2. CASE Refresh(a)
      BY <3>2 DEF Refresh, Idle, NoTask
    <3>3. QED
      BY <1>11, <3>1, <3>2
  <2>3. QED
    BY <1>8, <2>1, <2>2
<1>12. ASSUME NEW a \in Account, Confirm(a)
       PROVE  Goal
  <2>1. task[a].at = "verified" /\ manual' = manual
    BY <1>12 DEF Confirm, Working
  <2>2. CASE Ends(a, clock) /\ UNCHANGED <<lastAttempt, posted, checked>>
    BY <1>0, <1>8, <2>1, <2>2 DEF Ends, Done
  <2>3. ASSUME NEW e, NEW print, Posts(a, e, print)
        PROVE  Goal
    <3>1. task'[a].at = "posting"
          /\ \A b \in Account : task[b].at = "posting" => task'[b].at = "posting"
      BY <1>0, <2>1, <2>3 DEF Posts
    <3>2. lastAttempt' = [lastAttempt EXCEPT ![IdentityOf[a]] = clock]
      BY <2>3 DEF Posts
    <3>3. Unlocked(i)' => i # IdentityOf[a]
      BY <3>1 DEF Unlocked
    <3>4. QED
      BY <1>0, <1>8, <2>1, <3>1, <3>2, <3>3
  <2>4. QED
    BY <1>0, <1>12, <2>2, <2>3, ConfirmCases
<1>13. ASSUME NEW a \in Account, PageQuery(a)
       PROVE  Goal
  BY <1>8, <1>13 DEF PageQuery, Outside, workerVars
<1>14. ASSUME NEW a \in Account, ManualBegin(a)
       PROVE  Goal
  <2>1. /\ manual' = manual \cup {a} /\ task' = task
        /\ lastAttempt' = [lastAttempt EXCEPT ![IdentityOf[a]] = clock]
    BY <1>14 DEF ManualBegin, Outside, workerVars
  <2>2. Unlocked(i)' => i # IdentityOf[a]
    BY <1>0, <2>1 DEF Unlocked
  <2>3. QED
    BY <1>0, <1>8, <2>1, <2>2
<1>15. ASSUME NEW j \in Identity, AdminUse(j)
       PROVE  Goal
  BY <1>8, <1>15 DEF AdminUse, Outside, workerVars
<1>16. ASSUME NEW j \in Identity, NEW who \in {"auto", "manual"}, NEW came \in BOOLEAN,
              Post(j, who, came, FALSE),
              lastAttempt' = [lastAttempt EXCEPT ![j] = clock],
              i # j => (Unlocked(i)' => Unlocked(i))
       PROVE  Goal
  <2>1. lastAttempt'[i] = IF i = j THEN clock ELSE lastAttempt[i]
    BY <1>0, <1>16
  <2>2. CASE i # j
    BY <1>16, <2>1, <2>2
  <2>3. CASE i = j /\ spender' = spender /\ Left(j) = {}
    BY <2>1, <2>3 DEF Left
  <2>4. ASSUME i = j, NEW k \in Left(j), spender' = [spender EXCEPT ![k] = who]
        PROVE  Goal
    <3>1. who # None
      BY AutoResetAssumption
    <3>2. QED
      BY <1>0, <2>1, <2>4, <3>1, SpentLeft
  <2>5. QED
    BY <1>0, <1>16, <2>2, <2>3, <2>4, PostSpends
<1>17. ASSUME NEW a \in Account, AutoPost(a)
       PROVE  Goal
  <2>1. PICK came \in BOOLEAN : Post(IdentityOf[a], "auto", came, stopping)
    BY <1>17 DEF AutoPost
  <2>2. PICK j : j = IdentityOf[a]
    OBVIOUS
  <2>3. Post(j, "auto", came, FALSE)
    BY <1>0, <2>1, <2>2 DEF Post, Succeeds, Fails
  <2>4. /\ lastAttempt' = [lastAttempt EXCEPT ![j] = clock]
        /\ manual' = manual
        /\ \A b \in Account : b # a => task'[b] = task[b]
    BY <1>0, <1>17, <2>2 DEF AutoPost, Done
  <2>5. i # j => (Unlocked(i)' => Unlocked(i))
    BY <2>2, <2>4 DEF Unlocked
  <2>6. j \in Identity
    BY <1>0, <2>2
  <2>7. QED
    BY <1>16, <2>3, <2>4, <2>5, <2>6
<1>18. ASSUME NEW a \in Account, ManualEnd(a)
       PROVE  Goal
  <2>1. PICK came \in BOOLEAN : Post(IdentityOf[a], "manual", came, FALSE)
    BY <1>18 DEF ManualEnd
  <2>2. PICK j : j = IdentityOf[a]
    OBVIOUS
  <2>3. Post(j, "manual", came, FALSE) /\ j \in Identity
    BY <1>0, <1>18, <2>1, <2>2 DEF Post, ManualEnd
  <2>4. lastAttempt' = [lastAttempt EXCEPT ![j] = clock] /\ manual' = manual \ {a} /\ task' = task
    BY <1>18, <2>2 DEF ManualEnd, workerVars
  <2>5. i # j => (Unlocked(i)' => Unlocked(i))
    BY <2>2, <2>4 DEF Unlocked
  <2>6. QED
    BY <1>16, <2>3, <2>4, <2>5
<1>19. QED
  BY <1>9, <1>10, <1>11, <1>12, <1>13, <1>14, <1>15, <1>17, <1>18, TimelySteps
  DEF WorkerStep, OthersStep

(* Nothing delays the next reset that did not before, unless a reset has   *)
(* used up a credit; then there is one less to come.                       *)
LEMMA LoadShrinks ==
    ASSUME Timely, TimelyInv, [Next]_vars, NEW i \in Identity, NEW t
    PROVE  Left(i)' = {} \/ Load(i, t)' <= Load(i, t)
<1>1. PICK n : n = Cardinality(Left(i))
  OBVIOUS
<1>2. PICK m : m = Cardinality(Left(i)')
  OBVIOUS
<1>3. n \in Nat /\ m \in Nat /\ m <= n
  BY <1>1, <1>2, LeftFinite, LeftShrinks DEF TimelyInv, IInv, Typed
<1>4. /\ Load(i, t) = n + IF Delayed(i, t) THEN 1 ELSE 0
      /\ Load(i, t)' = m + IF Delayed(i, t)' THEN 1 ELSE 0
  BY <1>1, <1>2 DEF Load
<1>5. CASE Delayed(i, t)' => Delayed(i, t)
  BY <1>3, <1>4, <1>5
<1>6. CASE m = n - 1
  BY <1>3, <1>4, <1>6
<1>7. CASE Unlocked(i)' => Unlocked(i) /\ lastAttempt'[i] = lastAttempt[i]
  BY <1>5, <1>7 DEF Delayed
<1>8. QED
  BY <1>1, <1>2, <1>6, <1>7, GuardCases

(* So what was enough stays enough.                                        *)
LEMMA EnoughStays ==
    ASSUME Timely, TimelyInv, [Next]_vars, NEW i \in Identity, Left(i)' # {},
           NEW t \in Nat, NEW e \in Nat, Enough(i, t, e)
    PROVE  Enough(i, t, e)'
<1>1. PICK l : l = Load(i, t)
  OBVIOUS
<1>2. PICK m : m = Load(i, t)'
  OBVIOUS
<1>3. l \in Nat /\ m <= l
  BY <1>1, <1>2, LoadShrinks, LoadTyped
<1>4. m \in Nat
  <2>1. Cardinality(Left(i)') \in Nat
    BY LeftShrinks DEF TimelyInv, IInv, Typed
  <2>2. QED
    BY <1>2, <2>1 DEF Load
<1>5. faults \in 0..MaxFaults /\ faults' \in 0..MaxFaults /\ faults <= faults'
  BY ConditionsKept DEF TimelyInv, Punctual
<1>6. Need(m, faults') <= Need(l, faults)
  BY <1>3, <1>4, <1>5, NeedLess
<1>7. Need(m, faults') \in Int /\ Need(l, faults) \in Int
  BY <1>3, <1>4, <1>5, NeedArithmetic
<1>8. t + Need(l, faults) < e
  BY <1>1 DEF Enough
<1>9. t + Need(m, faults') < e
  BY <1>6, <1>7, <1>8
<1>10. QED
  BY <1>2, <1>9 DEF Enough, Need

-----------------------------------------------------------------------------
(* What is left is never too late.                                         *)

(* A credit that is left has a deadline.                                   *)
LEMMA LeftDeadline ==
    ASSUME NEW a, NEW k \in Left(IdentityOf[a]), expiry[k] # 0
    PROVE  Deadline(a, expiry[k])
BY DEF Deadline

(* A worker that looks in time looks before anything that is left expires. *)
LEMMA LookBefore ==
    ASSUME TimelyInv, NEW a \in Tracked, NEW k \in Left(IdentityOf[a]), expiry[k] # 0
    PROVE  Look(accounts[a]) < expiry[k]
<1>1. k \in Credit /\ expiry[k] \in Nat
  BY Intervals DEF Left, OwnedBy, TimelyInv, IInv, TypeOK
<1>2. Left(IdentityOf[a]) # {} /\ InTime(a)
  BY DEF TimelyInv, AllInTime
<1>3. Enough(IdentityOf[a], Look(accounts[a]), expiry[k])
  BY <1>1, <1>2, LeftDeadline DEF InTime
<1>4. accounts[a] \in Plan
  BY DEF Tracked, TimelyInv, IInv, TypeOK
<1>5. Look(accounts[a]) \in Nat
  BY <1>4 DEF Plan, Look
<1>6. QED
  BY <1>1, <1>2, <1>3, <1>5, EnoughTime DEF TimelyInv

LEMMA UnlapsedStep ==
    ASSUME Timely, TimelyInv, [Next]_vars
    PROVE  Unlapsed'
<1>1. /\ Typed /\ Unlapsed /\ expiry' = expiry /\ expiry \in [Credit -> Nat]
      /\ clock' \in Nat /\ clock \in Nat
  BY SpenderCases, Intervals DEF TimelyInv, IInv, Typed, TypeOK
<1>2. SUFFICES ASSUME NEW k \in Credit, spender'[k] = None, expiry[k] # 0
               PROVE  clock' < expiry[k]
  BY <1>1 DEF Unlapsed
<1>3. PICK i : i = OwnerOf[k]
  OBVIOUS
<1>4. i \in Identity
  BY <1>3 DEF Timely
<1>5. k \in Left(i)
  BY <1>1, <1>2, <1>3, LeftShrinks DEF Left, OwnedBy
<1>6. clock < expiry[k]
  BY <1>1, <1>2, <1>5 DEF Unlapsed, Left
<1>7. CASE Tick
  <2>1. discovery # 0 /\ pc = "asleep" /\ clock' <= wake
    BY <1>7, TickAsleep
  <2>2. PICK a \in Tracked : IdentityOf[a] = i
    BY <1>4, <2>1, SomebodyTracked
  <2>3. Look(accounts[a]) < expiry[k]
    BY <1>2, <1>5, <2>2, LookBefore
  <2>4. wake <= Look(accounts[a])
    BY <2>1 DEF TimelyInv, Punctual
  <2>5. wake \in Nat /\ accounts[a] \in Plan
    BY DEF TimelyInv, IInv, TypeOK, Tracked
  <2>6. Look(accounts[a]) \in Nat
    BY <2>5 DEF Plan, Look
  <2>7. QED
    BY <1>1, <2>1, <2>3, <2>4, <2>5, <2>6
<1>8. CASE ~Tick
  <2>1. clock' = clock
    BY <1>8, TimelySteps
    DEF WorkerStep, OthersStep, vars, Wake, ScanOk, ConsumingEnds, StepEnds, VerifyAccount,
        Confirm, AutoPost, Refresh, Working, ManualBegin, ManualEnd, PageQuery, AdminUse, Outside
  <2>2. QED
    BY <1>6, <2>1
<1>9. QED
  BY <1>7, <1>8

(* What is in hand stays due.                                              *)
LEMMA DispatchDue ==
    ASSUME NEW acc \in [Account -> Plan \cup {None}], NEW now \in Nat, Dispatch(acc, now)
    PROVE  \A a \in Account :
              /\ task'[a].at # "none" => accounts'[a].resetAt # 0 /\ accounts'[a].resetAt <= now
              /\ task'[a].at # "posting"
              /\ a \in due' => /\ accounts'[a].check <= now
                               /\ accounts'[a].resetAt = 0 \/ accounts'[a].resetAt > now
<1>1. /\ accounts' = acc
      /\ \A a \in Account : task'[a].at # "none" => acc[a] # None /\ ResetDue(acc[a], now)
      /\ \A a \in Account : task'[a].at # "posting"
      /\ \A a \in due' : acc[a] # None /\ ~ResetDue(acc[a], now) /\ CheckDue(acc[a], now)
  BY DEF Dispatch, NoTask
<1>2. \A a \in Account : acc[a] # None => acc[a].resetAt \in Nat /\ acc[a].check \in Nat
  BY DEF Plan
<1>3. QED
  BY <1>1, <1>2 DEF ResetDue, CheckDue

LEMMA InHandDueStep ==
    ASSUME Timely, TimelyInv, [Next]_vars
    PROVE  InHandDue'
<1>0. /\ Typed /\ InHandDue /\ Punctual
      /\ accounts \in [Account -> Plan \cup {None}]
      /\ task \in [Account -> [at : {"none", "queued", "verified", "posting"},
                               checkedAt : Nat, expiresAt : Expiries \cup {0}]]
      /\ clock \in Nat /\ None \notin Plan
  BY Intervals DEF TimelyInv, IInv, Typed, TypeOK
<1>1. ASSUME UNCHANGED <<clock, accounts, task>>, due' \subseteq due
      PROVE  InHandDue'
  BY <1>0, <1>1 DEF InHandDue
<1>2. ASSUME Idle, UNCHANGED task, due' = {}
      PROVE  InHandDue'
  BY <1>2 DEF Idle, NoTask, InHandDue
<1>3. ASSUME NEW acc \in [Account -> Plan \cup {None}], Dispatch(acc, clock), clock' = clock
      PROVE  InHandDue'
  BY <1>0, <1>3, DispatchDue DEF InHandDue
<1>4. ASSUME NEW a \in Account, NEW t, Ends(a, t), UNCHANGED <<clock, due>>,
             task[a].at # "none"
      PROVE  InHandDue'
  <2>1. PICK s \in Plan : accounts' = [accounts EXCEPT ![a] = s]
                          /\ task' = [task EXCEPT ![a] = NoTask]
    BY <1>4 DEF Ends, Done
  <2>2. /\ \A b \in Account : b # a => accounts'[b] = accounts[b] /\ task'[b] = task[b]
        /\ task'[a] = NoTask
    BY <1>0, <2>1
  <2>3. a \notin due
    <3>1. accounts[a].resetAt # 0 /\ accounts[a].resetAt <= clock
      BY <1>0, <1>4 DEF InHandDue
    <3>2. accounts[a].resetAt \in Nat
      BY <1>0, <1>4, TaskPlan DEF Plan
    <3>3. QED
      BY <1>0, <3>1, <3>2 DEF InHandDue
  <2>4. QED
    BY <1>0, <1>4, <2>2, <2>3 DEF InHandDue, NoTask
<1>5. CASE UNCHANGED vars
  BY <1>1, <1>5 DEF vars
<1>6. CASE Tick
  <2>1. pc = "asleep" /\ UNCHANGED <<task, due>>
    BY <1>6, TickAsleep DEF workerVars
  <2>2. QED
    BY <1>0, <1>2, <2>1 DEF Punctual
<1>7. CASE Wake
  <2>1. CASE UNCHANGED <<accounts, task, due>>
    BY <1>1, <1>7, <2>1 DEF Wake
  <2>2. CASE Dispatch(accounts, clock)
    BY <1>0, <1>3, <1>7, <2>2 DEF Wake
  <2>3. QED
    BY <1>7, <2>1, <2>2 DEF Wake
<1>8. CASE ScanOk
  <2>1. Dispatch(Discovered, stepNow) /\ stepNow = clock /\ clock' = clock
    BY <1>0, <1>8 DEF ScanOk, Punctual
  <2>2. Discovered \in [Account -> Plan \cup {None}]
    BY <1>0, DiscoveredSound DEF Typed
  <2>3. PICK acc : acc = Discovered
    OBVIOUS
  <2>4. Dispatch(acc, clock)
    BY <2>1, <2>3 DEF Dispatch
  <2>5. QED
    BY <1>3, <2>1, <2>2, <2>3, <2>4
<1>9. CASE ConsumingEnds
  BY <1>1, <1>9 DEF ConsumingEnds
<1>10. CASE StepEnds
  BY <1>2, <1>10 DEF StepEnds
<1>11. ASSUME NEW a \in Account, VerifyAccount(a)
       PROVE  InHandDue'
  <2>1. task[a].at = "queued" /\ UNCHANGED <<clock, due>>
    BY <1>11 DEF VerifyAccount, Working
  <2>2. CASE Ends(a, clock)
    BY <1>4, <2>1, <2>2
  <2>3. CASE task' = [task EXCEPT ![a].at = "verified"] /\ UNCHANGED accounts
    BY <1>0, <2>1, <2>3 DEF InHandDue
  <2>4. QED
    BY <1>0, <1>11, <2>2, <2>3, VerifyCases
<1>12. ASSUME NEW a \in Account, Confirm(a)
       PROVE  InHandDue'
  <2>1. task[a].at = "verified" /\ UNCHANGED <<clock, due>>
    BY <1>12 DEF Confirm, Working
  <2>2. CASE Ends(a, clock)
    BY <1>4, <2>1, <2>2
  <2>3. ASSUME NEW e, NEW print, Posts(a, e, print)
        PROVE  InHandDue'
    <3>1. /\ \A b \in Account : b # a => accounts'[b] = accounts[b] /\ task'[b] = task[b]
          /\ task'[a] = [at |-> "posting", checkedAt |-> clock, expiresAt |-> e]
      BY <1>0, <1>12, <2>3, PostsPlan
    <3>2. /\ accounts'[a].resetAt = accounts[a].resetAt
          /\ accounts'[a].check = accounts[a].check
      BY <1>0, <2>3 DEF Posts
    <3>3. QED
      BY <1>0, <2>1, <3>1, <3>2 DEF InHandDue
  <2>4. QED
    BY <1>0, <1>12, <2>2, <2>3, ConfirmCases
<1>13. ASSUME NEW a \in Account, AutoPost(a)
       PROVE  InHandDue'
  <2>1. task[a].at = "posting" /\ UNCHANGED <<clock, due>>
    BY <1>13 DEF AutoPost
  <2>2. Ends(a, task[a].checkedAt)
    BY <1>0, <1>13, AutoPostCases
  <2>3. QED
    BY <1>4, <2>1, <2>2
<1>14. ASSUME NEW a \in Account, Refresh(a)
       PROVE  InHandDue'
  <2>1. /\ Idle /\ clock' = clock /\ due' \subseteq due \ {a}
    BY <1>14 DEF Refresh
  <2>2. PICK s \in Plan :
           /\ accounts' = [accounts EXCEPT ![a] = s]
           /\ task' = IF ResetDue(s, clock) THEN [task EXCEPT ![a].at = "queued"] ELSE task
    BY <1>0, <1>14, RefreshCases
  <2>3. \A b \in Account : task[b].at = "none"
    BY <2>1 DEF Idle, NoTask
  <2>4. \A b \in Account : b # a => accounts'[b] = accounts[b] /\ task'[b] = task[b]
    BY <1>0, <2>2
  <2>5. accounts'[a] = s /\ task'[a].at # "posting"
        /\ (task'[a].at # "none" => s.resetAt # 0 /\ s.resetAt <= clock)
    BY <1>0, <2>2, <2>3 DEF ResetDue, Plan
  <2>6. QED
    BY <1>0, <2>1, <2>3, <2>4, <2>5 DEF InHandDue
<1>15. CASE OthersStep
  BY <1>1, <1>15 DEF OthersStep, ManualBegin, ManualEnd, PageQuery, AdminUse, Outside, workerVars
<1>16. QED
  BY <1>5, <1>6, <1>7, <1>8, <1>9, <1>10, <1>11, <1>12, <1>13, <1>14, <1>15, TimelySteps
  DEF WorkerStep

(* A stamp that does not belong to a lock was paid for.                    *)
LEMMA StampedStep ==
    ASSUME Timely, TimelyInv, [Next]_vars
    PROVE  Stamped'
<1>1. /\ Typed /\ Stamped /\ clock \in Nat /\ clock' \in Nat /\ clock' >= clock
      /\ lastAttempt \in [Identity -> Nat]
  BY SpenderCases DEF TimelyInv, IInv, Typed, TypeOK
<1>2. ASSUME NEW i \in Identity
      PROVE  /\ lastAttempt'[i] <= clock'
             /\ lastAttempt'[i] # 0 /\ Unlocked(i)' => Left(i)' = {} \/ Left(i)' # OwnedBy(i)
  <2>1. lastAttempt'[i] \in {lastAttempt[i], clock} /\ lastAttempt[i] \in Nat
    BY <1>1, <1>2, GuardCases
  <2>2. lastAttempt'[i] <= clock'
    BY <1>1, <1>2, <2>1 DEF Stamped
  <2>3. Left(i)' \subseteq Left(i) /\ Left(i) \subseteq OwnedBy(i)
    BY <1>1, LeftShrinks, LeftFinite
  <2>4. CASE Unlocked(i)' => Unlocked(i) /\ lastAttempt'[i] = lastAttempt[i]
    BY <1>1, <1>2, <2>2, <2>3, <2>4 DEF Stamped
  <2>5. QED
    BY <1>2, <2>2, <2>4, GuardCases
<1>3. QED
  BY <1>2 DEF Stamped, OwnedBy

(* What a quota query leaves in the cache when only confirmations fail.    *)
LEMMA QueryFits ==
    ASSUME Timely, TypeOK, Unlapsed, CacheFits, NEW a \in Account, NEW fresh, NEW kind, NEW S,
           QuotaQuery(a, fresh, kind, FALSE, S)
    PROVE  \/ /\ S = None /\ kind = "verify" /\ faults < MaxFaults /\ faults' = faults + 1
              /\ cache' = [cache EXCEPT ![a] = Kept(None, ErrTTL)]
           \/ /\ S = Left(IdentityOf[a]) /\ S # None /\ faults' = faults
              /\ cache' = [cache EXCEPT ![a] = Kept(S, TTL)]
           \/ /\ ~fresh /\ cache[a] # None /\ S = cache[a].credits
              /\ S # None => Left(IdentityOf[a]) \subseteq S
              /\ cache' = cache /\ faults' = faults
<1>1. Left(IdentityOf[a]) = Usable(IdentityOf[a])
  BY LeftUsable
<1>2. Left(IdentityOf[a]) # None
  BY AutoResetAssumption DEF Left, OwnedBy
<1>3. CASE ~fresh /\ Live(a) /\ S = cache[a].credits /\ UNCHANGED <<cache, faults>>
  BY <1>3 DEF CacheFits, Live
<1>4. CASE /\ S = Usable(IdentityOf[a]) /\ Succeeds(FALSE)
           /\ cache' = [cache EXCEPT ![a] = Kept(S, TTL)]
  BY <1>1, <1>2, <1>4 DEF Succeeds
<1>5. CASE S = None /\ Fails(kind, FALSE) /\ cache' = [cache EXCEPT ![a] = Kept(None, ErrTTL)]
  BY <1>5 DEF Fails, Timely
<1>6. QED
  BY <1>3, <1>4, <1>5 DEF QuotaQuery

LEMMA TrackedGrows ==
    ASSUME Timely, TimelyInv, [Next]_vars
    PROVE  /\ ~ScanOk => Tracked' = Tracked
           /\ ScanOk => Tracked' = Representatives
           /\ Tracked \subseteq Tracked'
<1>1. Typed /\ Punctual /\ TypeOK
  BY DEF TimelyInv, IInv, Typed
<1>2. CASE ScanOk
  <2>1. Tracked' = Representatives
    <3>1. accounts' = Discovered
      BY <1>2 DEF ScanOk, Dispatch
    <3>2. \A a \in Account : Discovered[a] # None <=> a \in Representatives
      BY <1>1, DiscoveredSound
    <3>3. QED
      BY <1>1, <3>1, <3>2 DEF Tracked, Representatives, TypeOK
  <2>2. Tracked \subseteq Representatives
    BY <1>1 DEF Punctual
  <2>3. QED
    BY <1>2, <2>1, <2>2
<1>3. CASE ~ScanOk
  <2>1. ASSUME NEW a \in Account, NEW e, NEW print, Confirm(a), Posts(a, e, print)
        PROVE  Tracked' = Tracked
    BY <1>1, <2>1, PostsPlan
  <2>2. QED
    BY <1>1, <1>3, <2>1, StepCases DEF Quiet
<1>4. QED
  BY <1>2, <1>3

(* What a step does to the cache's entry of an account.                    *)
LEMMA CacheCases ==
    ASSUME Timely, TimelyInv, [Next]_vars, NEW b \in Account
    PROVE  \/ cache'[b] = cache[b]
           \/ cache'[b] = None
           \/ cache'[b] # None /\ cache'[b].credits = Left(IdentityOf[b])
           \/ Confirm(b) /\ b \in Tracked
           \/ Refresh(b)
<1> DEFINE Goal ==
       \/ cache'[b] = cache[b]
       \/ cache'[b] = None
       \/ cache'[b] # None /\ cache'[b].credits = Left(IdentityOf[b])
       \/ Confirm(b) /\ b \in Tracked
       \/ Refresh(b)
<1>1. /\ Typed /\ TypeOK /\ Unlapsed /\ CacheFits /\ stopping = FALSE
      /\ cache \in [Account -> Entry \cup {None}]
      /\ DOMAIN cache = Account
  BY DEF TimelyInv, IInv, Typed, TypeOK, Punctual
<1>2. CASE UNCHANGED cache
  BY <1>2
<1>3. ASSUME NEW a \in Account, NEW came, cache' = Invalidated(a, came)
      PROVE  Goal
  BY <1>1, <1>3 DEF Invalidated
<1>4. ASSUME NEW a \in Account, NEW x, a # b, cache' = cache \/ cache' = [cache EXCEPT ![a] = x]
      PROVE  Goal
  BY <1>1, <1>4
<1>5. ASSUME NEW a \in Account, NEW fresh, NEW kind, NEW S, QuotaQuery(a, fresh, kind, FALSE, S)
      PROVE  \E x : cache' = cache \/ cache' = [cache EXCEPT ![a] = x]
  BY <1>5 DEF QuotaQuery
<1>6. ASSUME NEW a \in Account, Confirm(a)
      PROVE  Goal
  <2>1. PICK S : QuotaQuery(a, TRUE, "verify", FALSE, S)
    BY <1>1, <1>6 DEF Confirm
  <2>2. a \in Tracked
    BY <1>1, <1>6 DEF Confirm, Typed, TasksTracked
  <2>3. QED
    BY <1>4, <1>5, <1>6, <2>1, <2>2
<1>7. ASSUME NEW a \in Account, Refresh(a)
      PROVE  Goal
  <2>1. PICK S : QuotaQuery(a, FALSE, "refresh", FALSE, S)
    BY <1>1, <1>7 DEF Refresh
  <2>2. QED
    BY <1>4, <1>5, <1>7, <2>1
<1>8. ASSUME NEW a \in Account, PageQuery(a)
      PROVE  Goal
  <2>1. PICK S : QuotaQuery(a, FALSE, "page", FALSE, S)
    BY <1>8 DEF PageQuery
  <2>2. CASE a # b
    BY <1>4, <1>5, <2>1, <2>2
  <2>3. CASE a = b
    <3>1. CASE cache' = cache
      BY <3>1
    <3>2. CASE S = Left(IdentityOf[a]) /\ cache' = [cache EXCEPT ![a] = Kept(S, TTL)]
      <4>1. cache'[b] = Kept(S, TTL)
        BY <1>1, <2>3, <3>2
      <4>2. cache'[b].credits = S
        BY <4>1 DEF Kept
      <4>3. QED
        BY <2>3, <3>2, <4>2
    <3>3. QED
      BY <1>1, <2>1, <3>1, <3>2, QueryFits
  <2>4. QED
    BY <2>2, <2>3
<1>9. ASSUME NEW a \in Account, AutoPost(a)
      PROVE  Goal
  BY <1>3, <1>9 DEF AutoPost
<1>10. ASSUME NEW a \in Account, ManualEnd(a)
       PROVE  Goal
  BY <1>1, <1>3, <1>10 DEF ManualEnd
<1>11. CASE \/ Tick \/ UNCHANGED vars \/ Wake \/ ScanOk \/ ConsumingEnds \/ StepEnds
            \/ \E a \in Account : VerifyAccount(a) \/ ManualBegin(a)
            \/ \E i \in Identity : AdminUse(i)
  BY <1>2, <1>11 DEF Tick, vars, Wake, ScanOk, ConsumingEnds, StepEnds, VerifyAccount,
                     ManualBegin, AdminUse
<1>12. QED
  BY <1>6, <1>7, <1>8, <1>9, <1>10, <1>11, TimelySteps DEF WorkerStep, OthersStep

LEMMA CacheFitsStep ==
    ASSUME Timely, TimelyInv, [Next]_vars
    PROVE  CacheFits'
<1>1. /\ Typed /\ TypeOK /\ Unlapsed /\ CacheFits /\ stopping = FALSE
      /\ DOMAIN cache = Account
      /\ Tracked \subseteq Tracked'
      /\ \A i : Left(i)' \subseteq Left(i)
  BY TrackedGrows, LeftShrinks DEF TimelyInv, IInv, Typed, TypeOK, Punctual
<1>2. SUFFICES ASSUME NEW b \in Account, cache'[b] # None
               PROVE  IF cache'[b].credits = None THEN b \in Tracked'
                      ELSE Left(IdentityOf[b])' \subseteq cache'[b].credits
  BY DEF CacheFits, OwnedBy
<1>3. PICK i : i = IdentityOf[b]
  OBVIOUS
<1>4. Left(i)' \subseteq Left(i)
  BY <1>1
<1>5. CASE cache'[b] = cache[b]
  BY <1>1, <1>2, <1>3, <1>4, <1>5 DEF CacheFits
<1>6. CASE cache'[b].credits = Left(IdentityOf[b])
  <2>1. cache'[b].credits # None
    BY <1>6, AutoResetAssumption DEF Left, OwnedBy
  <2>2. QED
    BY <1>3, <1>4, <1>6, <2>1
<1>7. ASSUME NEW fresh, NEW kind, NEW S, QuotaQuery(b, fresh, kind, FALSE, S), b \in Tracked
      PROVE  IF cache'[b].credits = None THEN b \in Tracked'
             ELSE Left(IdentityOf[b])' \subseteq cache'[b].credits
  <2>1. CASE cache' = cache
    BY <1>5, <2>1
  <2>2. CASE S = Left(IdentityOf[b]) /\ cache' = [cache EXCEPT ![b] = Kept(S, TTL)]
    BY <1>1, <1>6, <2>2 DEF Kept
  <2>3. CASE cache' = [cache EXCEPT ![b] = Kept(None, ErrTTL)]
    BY <1>1, <1>7, <2>3 DEF Kept
  <2>4. QED
    BY <1>1, <1>7, <2>1, <2>2, <2>3, QueryFits
<1>8. CASE Confirm(b) /\ b \in Tracked
  <2>1. PICK S : QuotaQuery(b, TRUE, "verify", FALSE, S)
    BY <1>1, <1>8 DEF Confirm
  <2>2. QED
    BY <1>7, <1>8, <2>1
<1>9. CASE Refresh(b)
  <2>1. PICK S : QuotaQuery(b, FALSE, "refresh", FALSE, S)
    BY <1>1, <1>9 DEF Refresh
  <2>2. b \in Tracked
    BY <1>1, <1>9 DEF Refresh, Typed, TasksTracked
  <2>3. QED
    BY <1>7, <2>1, <2>2
<1>10. QED
  BY <1>2, <1>5, <1>6, <1>8, <1>9, CacheCases

(* The first query of a new account comes soon.                            *)
LEMMA NewCheck ==
    ASSUME Timely, TypeOK, NEW a \in Account, a \in Representatives, accounts[a] = None
    PROVE  \E n \in Nat :
              /\ n <= Cardinality(Account)
              /\ Discovered[a] = [check |-> stepNow + n * Spacing,
                                  resetAt |-> 0, expiresAt |-> 0, tried |-> None]
<1>1. PICK B : B = {b \in Representatives \ Tracked : b < a}
  OBVIOUS
<1>2. B \in SUBSET Account /\ IsFiniteSet(Account)
  BY <1>1 DEF Timely, Representatives, TypeOK
<1>3. IsFiniteSet(B) /\ Cardinality(B) \in Nat /\ Cardinality(Account) \in Nat
      /\ Cardinality(B) <= Cardinality(Account)
  BY <1>2, FS_Subset, FS_CardinalityType
<1>4. PICK n : n = Cardinality(B) \div Concurrency
  OBVIOUS
<1>5. Concurrency \in Nat \ {0}
  BY Intervals
<1>6. n \in Nat /\ n <= Cardinality(B)
  <2>1. \A x \in Nat, c \in Nat \ {0} : x \div c \in Nat /\ x \div c <= x
    OBVIOUS
  <2>2. QED
    BY <1>3, <1>4, <1>5, <2>1
<1>7. a \in Representatives \ Tracked
  BY DEF Tracked
<1>8. Discovered[a] = [check |-> stepNow + n * Spacing,
                       resetAt |-> 0, expiresAt |-> 0, tried |-> None]
  BY <1>1, <1>4, <1>7 DEF Discovered
<1>9. QED
  BY <1>3, <1>6, <1>8

(* The plans of scheduled accounts have a next query.                      *)
LEMMA ChecksSet ==
    ASSUME Timely, TimelyInv, [Next]_vars
    PROVE  \A a \in Tracked' : accounts'[a].check # 0
<1>0. /\ Typed /\ TypeOK /\ Typed' /\ Punctual
      /\ accounts \in [Account -> Plan \cup {None}]
      /\ clock \in Nat \ {0} /\ stepNow \in Nat /\ None \notin Plan
      /\ Tracked \subseteq Account /\ Tracked' \subseteq Account
  BY TypedStep, Intervals DEF TimelyInv, IInv, Typed, TypeOK, Tracked
<1>1. ASSUME NEW a \in Account, NEW s \in Plan, s.check # 0, ~ScanOk,
             accounts' = [accounts EXCEPT ![a] = s]
      PROVE  \A b \in Tracked' : accounts'[b].check # 0
  <2>1. Tracked' = Tracked
    BY <1>1, TrackedGrows
  <2>2. QED
    BY <1>0, <1>1, <2>1 DEF Punctual
<1>2. CASE ScanOk
  <2>1. stepNow = clock /\ accounts' = Discovered /\ Tracked' = Representatives
    BY <1>0, <1>2, TrackedGrows DEF Punctual, ScanOk, Dispatch
  <2>2. ASSUME NEW a \in Representatives
        PROVE  Discovered[a].check # 0
    <3>1. a \in Account
      BY <1>0, <2>1, <2>2
    <3>2. CASE accounts[a] # None
      <4>1. a \in Tracked /\ Discovered[a] = accounts[a]
        BY <1>0, <2>2, <3>1, <3>2, DiscoveredSound DEF Tracked
      <4>2. QED
        BY <1>0, <4>1 DEF Punctual
    <3>3. CASE accounts[a] = None
      <4>0. PICK n \in Nat :
               Discovered[a] = [check |-> stepNow + n * Spacing,
                                resetAt |-> 0, expiresAt |-> 0, tried |-> None]
        BY <1>0, <2>2, <3>1, <3>3, NewCheck
      <4>1. Discovered[a].check = stepNow + n * Spacing
        BY <4>0
      <4>2. n * Spacing \in Nat
        BY Intervals
      <4>3. QED
        BY <1>0, <2>1, <4>1, <4>2
    <3>4. QED
      BY <3>2, <3>3
  <2>3. QED
    BY <2>1, <2>2
<1>3. CASE ~ScanOk
  <2>1. Tracked' = Tracked
    BY <1>3, TrackedGrows
  <2>2. CASE UNCHANGED accounts
    BY <1>0, <2>1, <2>2 DEF Punctual
  <2>3. ASSUME NEW a \in Account, NEW t \in Nat, Ends(a, t)
        PROVE  \A b \in Tracked' : accounts'[b].check # 0
    <3>1. PICK s \in Plan : s.check > t /\ accounts' = [accounts EXCEPT ![a] = s]
      BY <2>3 DEF Ends, Done
    <3>2. s.check # 0
      BY <2>3, <3>1
    <3>3. QED
      BY <1>1, <1>3, <3>1, <3>2
  <2>4. ASSUME NEW a \in Account, Refresh(a)
        PROVE  \A b \in Tracked' : accounts'[b].check # 0
    <3>1. PICK s \in Plan : s.check > clock /\ accounts' = [accounts EXCEPT ![a] = s]
      BY <1>0, <2>4, RefreshCases
    <3>2. s.check # 0
      BY <1>0, <3>1
    <3>3. QED
      BY <1>1, <1>3, <3>1, <3>2
  <2>5. ASSUME NEW a \in Account, Confirm(a)
        PROVE  \A b \in Tracked' : accounts'[b].check # 0
    <3>1. CASE Ends(a, clock)
      BY <1>0, <2>3, <3>1
    <3>2. ASSUME NEW e, NEW print, Posts(a, e, print)
          PROVE  \A b \in Account : accounts'[b].check = accounts[b].check
      BY <1>0, <3>2 DEF Posts
    <3>3. QED
      BY <1>0, <2>1, <2>5, <3>1, <3>2, ConfirmCases DEF Punctual
  <2>6. ASSUME NEW a \in Account, VerifyAccount(a) \/ AutoPost(a)
        PROVE  \A b \in Tracked' : accounts'[b].check # 0
    <3>1. task[a].checkedAt \in Nat
      BY <1>0 DEF TypeOK
    <3>2. QED
      BY <1>0, <2>2, <2>3, <2>6, <3>1, VerifyCases, AutoPostCases
  <2>7. CASE \/ Tick \/ UNCHANGED vars \/ Wake \/ ConsumingEnds \/ StepEnds \/ OthersStep
    BY <2>2, <2>7
    DEF Tick, workerVars, vars, Wake, Dispatch, ConsumingEnds, StepEnds, OthersStep,
        ManualBegin, ManualEnd, PageQuery, AdminUse, Outside
  <2>8. QED
    BY <1>3, <2>4, <2>5, <2>6, <2>7, TimelySteps DEF WorkerStep
<1>4. QED
  BY <1>2, <1>3

(* The timer is set for the first account the worker has to look at.       *)
LEMMA WakesForLook ==
    ASSUME TimelyInv, StepEnds, discovery # 0
    PROVE  clock <= wake' /\ \A a \in Tracked : wake' <= Look(accounts[a])
<1>1. /\ \A a \in Tracked : accounts[a] \in Plan /\ accounts[a].check # 0
      /\ discovery \in Nat /\ stepNow = clock /\ clock \in Nat /\ ~stopping
      /\ Typed /\ InHand
  BY DEF TimelyInv, Punctual, IInv, Typed, TypeOK, Tracked, StepEnds, NothingLeft, InHand
<1>2. PICK T : T = ({discovery} \cup UNION {{accounts[a].check, accounts[a].resetAt} :
                                            a \in Tracked}) \ {0}
  OBVIOUS
<1>3. T \in SUBSET Nat
  BY <1>1, <1>2 DEF Plan
<1>4. discovery \in T
  BY <1>2
<1>5. wake' = Min(T)
  BY <1>2, <1>4 DEF StepEnds, NextWake
<1>6. wake' \in Nat /\ \A y \in T : wake' <= y
  BY <1>3, <1>4, <1>5, Least
<1>7. wake' > stepNow
  BY <1>1, StepEndsWake
<1>8. \A a \in Tracked : Look(accounts[a]) \in T
  BY <1>1, <1>2 DEF Look
<1>9. QED
  BY <1>1, <1>6, <1>7, <1>8

LEMMA PunctualStep ==
    ASSUME Timely, TimelyInv, [Next]_vars
    PROVE  Punctual'
<1>0. /\ Typed /\ TypeOK /\ Punctual /\ stopping = FALSE /\ eligible = Account
      /\ {clock, stepNow, discovery, wake} \subseteq Nat /\ clock # 0
      /\ DOMAIN task = Account
      /\ {ScanInterval, ScanRetry} \subseteq Nat \ {0}
  BY Intervals DEF TimelyInv, IInv, Typed, TypeOK, Punctual
<1>1. /\ stopping' = FALSE /\ eligible' = Account
      /\ faults' \in 0..MaxFaults /\ slow' = 0
  BY ConditionsKept
<1>2. \A a \in Tracked' : accounts'[a].check # 0
  BY ChecksSet
<1>3. Representatives' = Representatives
  BY <1>0, <1>1 DEF Representatives
<1> DEFINE Rest ==
       /\ pc' # "exited"
       /\ pc' # "asleep" => stepNow' = clock'
       /\ pc' \in {"asleep", "scanning"} => due' = {} /\ Idle'
       /\ discovery' = 0 =>
             clock' = 1 /\ wake' = 0 /\ pc' \in {"asleep", "scanning"} /\ Tracked' = {}
       /\ discovery' # 0 => Tracked' = Representatives
       /\ discovery' # 0 /\ pc' = "asleep" =>
             clock' <= wake' /\ \A a \in Tracked' : wake' <= Look(accounts[a])'
<1>4. SUFFICES Rest
  BY <1>1, <1>2, <1>3 DEF Punctual
<1>5. ASSUME UNCHANGED <<clock, accounts, discovery, pc, stepNow, wake, due, task>>
      PROVE  Rest
  <2>1. Tracked' = Tracked
    BY <1>5 DEF Tracked
  <2>2. QED
    BY <1>0, <1>5, <2>1 DEF Punctual, Idle
<1>6. CASE UNCHANGED vars
  BY <1>5, <1>6 DEF vars
<1>7. CASE OthersStep
  BY <1>5, <1>7 DEF OthersStep, ManualBegin, ManualEnd, PageQuery, AdminUse, Outside, workerVars
<1>8. CASE Tick
  <2>1. /\ pc = "asleep" /\ discovery # 0 /\ clock' <= wake
        /\ UNCHANGED <<accounts, discovery, pc, stepNow, wake, due, task>>
    BY <1>8, TickAsleep DEF workerVars
  <2>2. Tracked' = Tracked
    BY <2>1 DEF Tracked
  <2>3. QED
    BY <1>0, <2>1, <2>2 DEF Punctual, Idle
<1>9. CASE Wake
  <2>1. /\ pc = "asleep" /\ clock >= wake /\ stepNow' = clock
        /\ UNCHANGED <<clock, accounts, discovery, wake>>
    BY <1>9 DEF Wake, Dispatch
  <2>2. Tracked' = Tracked
    BY <2>1 DEF Tracked
  <2>3. CASE discovery = 0 \/ clock >= discovery
    BY <1>0, <1>9, <2>1, <2>2, <2>3 DEF Wake, Punctual, Idle
  <2>4. CASE ~(discovery = 0 \/ clock >= discovery)
    BY <1>0, <1>9, <2>1, <2>2, <2>4 DEF Wake, Dispatch, Punctual
  <2>5. QED
    BY <2>3, <2>4
<1>10. CASE ScanOk
  <2>1. /\ pc = "scanning" /\ pc' = "consuming" /\ clock' = clock /\ stepNow' = stepNow
        /\ discovery' = stepNow + ScanInterval
    BY <1>10 DEF ScanOk, Dispatch
  <2>2. Tracked' = Representatives
    BY <1>10, TrackedGrows
  <2>3. QED
    BY <1>0, <2>1, <2>2 DEF Punctual
<1>11. CASE StepEnds
  <2>1. /\ pc = "refreshing" /\ pc' = "asleep" /\ Idle /\ due' = {}
        /\ UNCHANGED <<clock, accounts, discovery, task>>
    BY <1>11 DEF StepEnds
  <2>2. discovery # 0 /\ Tracked' = Tracked
    BY <1>0, <2>1 DEF Punctual, Tracked
  <2>3. clock <= wake' /\ \A a \in Tracked : wake' <= Look(accounts[a])
    BY <1>11, <2>2, WakesForLook
  <2>4. QED
    BY <1>0, <2>1, <2>2, <2>3 DEF Punctual, Idle
<1>12. ASSUME pc \in {"consuming", "refreshing"}, pc' \in {"consuming", "refreshing"},
              UNCHANGED <<clock, discovery, stepNow>>, Tracked' = Tracked
       PROVE  Rest
  BY <1>0, <1>12 DEF Punctual
<1>13. CASE ConsumingEnds
  BY <1>12, <1>13 DEF ConsumingEnds, Tracked
<1>14. ASSUME NEW a \in Account, VerifyAccount(a) \/ Confirm(a) \/ AutoPost(a) \/ Refresh(a)
       PROVE  Rest
  <2>1. UNCHANGED <<clock, discovery, stepNow, pc>>
    BY <1>14 DEF VerifyAccount, Confirm, AutoPost, Refresh, Working
  <2>2. pc = "refreshing" \/ task[a].at # "none"
    BY <1>14 DEF VerifyAccount, Confirm, AutoPost, Refresh
  <2>3. pc \in {"consuming", "refreshing"}
    BY <1>0, <2>2 DEF Punctual, Idle, NoTask, TypeOK
  <2>4. ~ScanOk
    BY <2>1, <2>3 DEF ScanOk
  <2>5. Tracked' = Tracked
    BY <2>4, TrackedGrows
  <2>6. QED
    BY <1>12, <2>1, <2>3, <2>5
<1>15. QED
  BY <1>6, <1>7, <1>8, <1>9, <1>10, <1>11, <1>13, <1>14, TimelySteps DEF WorkerStep

-----------------------------------------------------------------------------
(* Every account is dealt with in time.                                    *)

(* Deadlines do not come from nowhere.                                     *)
LEMMA DeadlineKept ==
    ASSUME Typed, [Next]_vars, NEW a \in Account, NEW e \in Nat, Deadline(a, e)',
           cache'[a] = cache[a] \/ Cached(a)' \subseteq Left(IdentityOf[a]),
           accounts'[a].resetAt # 0 => Deadline(a, accounts'[a].expiresAt)
    PROVE  Deadline(a, e)
<1>1. expiry' = expiry /\ clock' \in Nat /\ clock' >= clock /\ clock \in Nat
  BY SpenderCases DEF Typed, TypeOK
<1>2. PICK i : i = IdentityOf[a]
  OBVIOUS
<1>3. Left(i)' \subseteq Left(i)
  BY LeftShrinks
<1>4. CASE \E k \in Left(IdentityOf[a])' : e = expiry'[k] /\ e # 0
  BY <1>1, <1>2, <1>3, <1>4 DEF Deadline
<1>5. CASE \E k \in Cached(a)' : e = expiry'[k] /\ e > clock'
  <2>1. CASE cache'[a] = cache[a]
    BY <1>1, <1>5, <2>1 DEF Deadline, Cached
  <2>2. CASE Cached(a)' \subseteq Left(IdentityOf[a])
    BY <1>1, <1>5, <2>2 DEF Deadline
  <2>3. QED
    BY <2>1, <2>2
<1>6. CASE accounts'[a].resetAt # 0 /\ e = accounts'[a].expiresAt
  BY <1>6
<1>7. QED
  BY <1>4, <1>5, <1>6 DEF Deadline

(* A step that leaves the plan of an account alone leaves it in time.      *)
LEMMA KeptInTime ==
    ASSUME Timely, TimelyInv, [Next]_vars, NEW a \in Tracked,
           accounts'[a] = accounts[a],
           clock' = clock \/ clock' <= Look(accounts[a]),
           \/ cache'[a] = cache[a]
           \/ cache'[a] = None
           \/ cache'[a] # None /\ cache'[a].credits = Left(IdentityOf[a]),
           task'[a].at = "posting" <=> task[a].at = "posting"
    PROVE  InTime(a)'
<1>1. /\ Typed /\ InTime(a) /\ a \in Account /\ IdentityOf[a] \in Identity
      /\ accounts[a] \in Plan
  BY DEF TimelyInv, IInv, Typed, TypeOK, AllInTime, Tracked, Identity
<1>2. PICK i : i = IdentityOf[a]
  OBVIOUS
<1>3. PICK s : s = accounts[a]
  OBVIOUS
<1>4. s \in Plan /\ Look(s) \in Nat
  BY <1>1, <1>3 DEF Plan, Look
<1>5. SUFFICES ASSUME Left(i)' # {}
               PROVE  /\ clock' <= Look(s)
                      /\ \A e \in Nat : Deadline(a, e)' => Enough(i, Look(s), e)'
                      /\ cache'[a] # None /\ cache'[a].credits = None =>
                            s.resetAt # 0 /\ s.resetAt <= s.check
                      /\ s.tried # None =>
                            Cardinality(Left(i)') < s.tried.count
                                + IF task'[a].at = "posting" THEN 1 ELSE 0
  BY <1>2, <1>3 DEF InTime
<1>6. /\ Left(i) # {} /\ Cardinality(Left(i)') \in Nat /\ Cardinality(Left(i)) \in Nat
      /\ Cardinality(Left(i)') <= Cardinality(Left(i))
  BY <1>1, <1>5, LeftShrinks, LeftFinite
<1>7. clock' <= Look(s)
  BY <1>1, <1>2, <1>3, <1>6 DEF InTime
<1>8. Left(i) # None
  BY AutoResetAssumption DEF Left, OwnedBy
<1>9. ASSUME NEW e \in Nat, Deadline(a, e)'
      PROVE  Enough(i, Look(s), e)'
  <2>1. cache'[a] = cache[a] \/ Cached(a)' \subseteq Left(IdentityOf[a])
    BY DEF Cached
  <2>2. accounts'[a].resetAt # 0 => Deadline(a, accounts'[a].expiresAt)
    BY DEF Deadline
  <2>3. Deadline(a, e)
    BY <1>1, <1>9, <2>1, <2>2, DeadlineKept
  <2>4. Enough(i, Look(s), e)
    BY <1>1, <1>2, <1>3, <1>6, <1>9, <2>3 DEF InTime
  <2>5. PICK t \in Nat : t = Look(s)
    BY <1>4
  <2>6. Enough(i, t, e)'
    BY <1>1, <1>2, <1>5, <1>9, <2>4, <2>5, EnoughStays
  <2>7. QED
    BY <2>5, <2>6
<1>10. cache'[a] # None /\ cache'[a].credits = None => s.resetAt # 0 /\ s.resetAt <= s.check
  BY <1>1, <1>2, <1>3, <1>6, <1>8 DEF InTime
<1>11. s.tried # None =>
          Cardinality(Left(i)') < s.tried.count + IF task'[a].at = "posting" THEN 1 ELSE 0
  <2>1. s.tried # None => s.tried.count \in Nat
    BY <1>4 DEF Plan, Fingerprints
  <2>2. s.tried # None =>
          Cardinality(Left(i)) < s.tried.count + IF task[a].at = "posting" THEN 1 ELSE 0
    BY <1>1, <1>2, <1>3, <1>6 DEF InTime
  <2>3. QED
    BY <1>6, <2>1, <2>2
<1>12. QED
  BY <1>7, <1>9, <1>10, <1>11

(* What is in hand has to be dealt with now.                               *)
LEMMA LooksNow ==
    ASSUME TimelyInv, NEW a \in Tracked, Left(IdentityOf[a]) # {}
    PROVE  /\ accounts[a] \in Plan /\ clock \in Nat \ {0} /\ InTime(a)
           /\ Look(accounts[a]) \in Nat
           /\ task[a].at # "none" =>
                 /\ Look(accounts[a]) = clock
                 /\ accounts[a].resetAt = clock /\ accounts[a].resetAt <= accounts[a].check
           /\ a \in due =>
                 /\ Look(accounts[a]) = clock
                 /\ ~(accounts[a].resetAt # 0 /\ accounts[a].resetAt <= accounts[a].check)
<1>1. /\ accounts[a] \in Plan /\ clock \in Nat \ {0} /\ InTime(a) /\ InHandDue /\ a \in Account
  BY DEF TimelyInv, IInv, TypeOK, AllInTime, Tracked
<1>2. accounts[a].resetAt \in Nat /\ accounts[a].check \in Nat
  BY <1>1 DEF Plan
<1>3. clock <= Look(accounts[a]) /\ Look(accounts[a]) \in Nat
  BY <1>1, <1>2 DEF InTime, Look
<1>4. QED
  BY <1>1, <1>2, <1>3 DEF InHandDue, Look

(* The next reset is not further delayed later.                            *)
LEMMA LoadLater ==
    ASSUME Typed, NEW i \in Identity, NEW t \in Nat, NEW u \in Nat, t <= u
    PROVE  Load(i, u) <= Load(i, t)
<1>1. lastAttempt[i] \in Nat /\ DedupWindow \in Nat
  BY Intervals DEF Typed, TypeOK
<1>2. Delayed(i, u) => Delayed(i, t)
  BY <1>1 DEF Delayed
<1>3. Cardinality(Left(i)) \in Nat
  BY LeftFinite
<1>4. QED
  BY <1>2, <1>3 DEF Load

(* No credit expires before the one the worker plans for.                  *)
LEMMA EarliestLeast ==
    ASSUME TypeOK, NEW S \in SUBSET Credit, NEW now \in Nat,
           NEW e, e = EarliestFuture(S, now), NEW k \in S, expiry[k] > now
    PROVE  e # 0 /\ e <= expiry[k]
<1>1. \A j \in Credit : expiry[j] \in Nat
  BY Intervals DEF TypeOK
<1>2. PICK E : E = {expiry[j] : j \in {m \in S : expiry[m] > now}}
  OBVIOUS
<1>3. E \in SUBSET Nat /\ expiry[k] \in E /\ \A x \in E : x \in Nat /\ x > now
  BY <1>1, <1>2
<1>4. e = Min(E)
  BY <1>2, <1>3 DEF EarliestFuture
<1>5. e \in E /\ \A y \in E : e <= y
  BY <1>3, <1>4, Least
<1>6. e \in Nat /\ e > now
  BY <1>3, <1>5
<1>7. e <= expiry[k]
  BY <1>3, <1>5
<1>8. QED
  BY <1>6, <1>7

(* A failed confirmation is repeated in time.                              *)
LEMMA RetryInTime ==
    ASSUME Timely, TimelyInv, [Next]_vars, NEW a \in Tracked,
           task[a].at \in {"queued", "verified"}, task'[a].at # "posting",
           accounts'[a] = Retried(accounts[a], clock), clock' = clock,
           faults < MaxFaults, faults' = faults + 1,
           cache'[a] = cache[a] \/ Cached(a)' = {}
    PROVE  InTime(a)'
<1>1. SUFFICES ASSUME Left(IdentityOf[a])' # {} PROVE InTime(a)'
  BY DEF InTime
<1>2. PICK i : i = IdentityOf[a]
  OBVIOUS
<1>3. PICK s : s = accounts[a]
  OBVIOUS
<1>4. /\ Typed /\ a \in Account /\ i \in Identity /\ faults \in 0..MaxFaults
      /\ VerifyRetry \in Nat \ {0} /\ RefreshInterval \in Nat /\ VerifyRetry <= RefreshInterval
      /\ MaxFaults \in Nat
  BY <1>2, Intervals, AutoResetAssumption
  DEF TimelyInv, IInv, Typed, Punctual, Tracked, Identity, Timely
<1>5. Left(i) # {} /\ Left(i)' # {} /\ Cardinality(Left(i)') \in Nat
      /\ Cardinality(Left(i)) \in Nat /\ Cardinality(Left(i)') <= Cardinality(Left(i))
  BY <1>1, <1>2, <1>4, LeftShrinks, LeftFinite
<1>6. /\ s \in Plan /\ clock \in Nat \ {0} /\ Look(s) = clock /\ s.resetAt # 0
      /\ InTime(a)
  BY <1>2, <1>3, <1>5, LooksNow
<1>7. PICK l : l = Load(i, clock)
  OBVIOUS
<1>8. l \in Nat /\ l >= 1
  BY <1>5, <1>7, LoadTyped
<1>9. PICK c : c = Need(l, faults + 1)
  OBVIOUS
<1>10. c \in Int /\ c >= 0 /\ Need(l, faults) = c + VerifyRetry
  <2>1. faults + 1 \in 0..MaxFaults
    BY <1>4
  <2>2. QED
    BY <1>4, <1>8, <1>9, <2>1, NeedArithmetic
<1>11. \A e \in Nat : Deadline(a, e) => clock + VerifyRetry + c < e
  <2>1. \A e \in Nat : Deadline(a, e) => Enough(i, clock, e)
    BY <1>2, <1>3, <1>5, <1>6 DEF InTime
  <2>2. QED
    BY <1>4, <1>6, <1>7, <1>10, <2>1 DEF Enough
<1>12. s.expiresAt \in Nat
  <2>1. s.expiresAt \in Expiries \cup {0}
    BY <1>6 DEF Plan
  <2>2. \A x \in Expiries \cup {0} : x \in Nat
    BY Intervals
  <2>3. QED
    BY <2>1, <2>2
<1>13. s.expiresAt > clock + VerifyRetry
  <2>1. Deadline(a, s.expiresAt)
    BY <1>3, <1>6 DEF Deadline
  <2>2. QED
    BY <1>4, <1>6, <1>10, <1>11, <1>12, <2>1
<1>14. PICK t \in Nat : t = clock + VerifyRetry
  BY <1>4, <1>6
<1>15. /\ accounts'[a] = [s EXCEPT !.resetAt = t, !.check = clock + RefreshInterval]
       /\ t # 0 /\ t <= clock + RefreshInterval /\ clock <= t
  BY <1>3, <1>4, <1>6, <1>13, <1>14 DEF Retried
<1>16. /\ accounts'[a].resetAt = t /\ accounts'[a].check = clock + RefreshInterval
       /\ accounts'[a].expiresAt = s.expiresAt /\ accounts'[a].tried = s.tried
  BY <1>6, <1>15 DEF Plan
<1>17. Look(accounts'[a]) = t
  BY <1>15, <1>16 DEF Look
<1>18. Load(i, t)' \in Nat /\ Load(i, t)' <= l
  <2>1. Load(i, t)' <= Load(i, t)
    BY <1>4, <1>5, LoadShrinks
  <2>2. Load(i, t) <= l /\ Load(i, t) \in Nat
    BY <1>4, <1>6, <1>7, <1>15, LoadLater, LoadTyped
  <2>3. Load(i, t)' \in Nat
    BY <1>5 DEF Load
  <2>4. QED
    BY <1>8, <2>1, <2>2, <2>3
<1>19. ASSUME NEW e \in Nat, Deadline(a, e)'
       PROVE  Enough(i, t, e)'
  <2>1. cache'[a] = cache[a] \/ Cached(a)' \subseteq Left(IdentityOf[a])
    OBVIOUS
  <2>2. accounts'[a].resetAt # 0 => Deadline(a, accounts'[a].expiresAt)
    BY <1>3, <1>6, <1>16 DEF Deadline
  <2>3. Deadline(a, e)
    BY <1>4, <1>19, <2>1, <2>2, DeadlineKept
  <2>4. t + c < e
    BY <1>11, <1>14, <1>19, <2>3
  <2>5. PICK m : m = Load(i, t)'
    OBVIOUS
  <2>6. Need(m, faults') <= c /\ Need(m, faults') \in Int
    <3>1. faults' \in 0..MaxFaults /\ faults' <= faults' /\ m \in Nat /\ m <= l
      BY <1>4, <1>18, <2>5
    <3>2. Need(m, faults') <= Need(l, faults')
      BY <1>8, <3>1, NeedLess
    <3>3. QED
      BY <1>9, <3>1, <3>2, NeedArithmetic
  <2>7. t + Need(m, faults') < e
    BY <1>10, <2>4, <2>6
  <2>8. QED
    BY <2>5, <2>7 DEF Enough, Need
<1>20. s.tried # None =>
          Cardinality(Left(i)') < s.tried.count + IF task'[a].at = "posting" THEN 1 ELSE 0
  <2>1. s.tried # None => s.tried.count \in Nat
    BY <1>6 DEF Plan, Fingerprints
  <2>2. s.tried # None => Cardinality(Left(i)) < s.tried.count + 0
    BY <1>2, <1>3, <1>5, <1>6 DEF InTime
  <2>3. QED
    BY <1>5, <2>1, <2>2
<1>21. QED
  BY <1>2, <1>15, <1>16, <1>17, <1>19, <1>20 DEF InTime

(* A cleared plan comes back when the next reset is no longer refused.     *)
LEMMA PausedInTime ==
    ASSUME Timely, TimelyInv, [Next]_vars, NEW a \in Tracked,
           task[a].at # "none", task'[a].at # "posting", clock' = clock,
           accounts'[a] = Clear(accounts[a], clock + PostReset),
           cache'[a] = None \/ cache'[a].credits = Left(IdentityOf[a]),
           Left(IdentityOf[a])' # {} =>
              /\ Load(IdentityOf[a], clock + PostReset)' + 1 <= Load(IdentityOf[a], clock)
              /\ accounts[a].tried # None =>
                    Cardinality(Left(IdentityOf[a])') < accounts[a].tried.count
    PROVE  InTime(a)'
<1>1. SUFFICES ASSUME Left(IdentityOf[a])' # {} PROVE InTime(a)'
  BY DEF InTime
<1>2. PICK i : i = IdentityOf[a]
  OBVIOUS
<1>3. PICK s : s = accounts[a]
  OBVIOUS
<1>4. /\ Typed /\ a \in Account /\ i \in Identity /\ faults \in 0..MaxFaults
      /\ PostReset \in Nat \ {0}
  BY <1>2, Intervals DEF TimelyInv, IInv, Typed, Punctual, Tracked, Identity
<1>5. Left(i) # {} /\ Left(i)' # {} /\ Cardinality(Left(i)') \in Nat
  BY <1>1, <1>2, <1>4, LeftShrinks
<1>6. s \in Plan /\ clock \in Nat \ {0} /\ Look(s) = clock /\ InTime(a)
  BY <1>2, <1>3, <1>5, LooksNow
<1>7. PICK t \in Nat : t = clock + PostReset
  BY <1>4, <1>6
<1>8. PICK l : l = Load(i, clock)
  OBVIOUS
<1>9. PICK m : m = Load(i, t)'
  OBVIOUS
<1>10. l \in Nat /\ m \in Nat /\ m + 1 <= l
  BY <1>1, <1>2, <1>5, <1>7, <1>8, <1>9, LoadTyped DEF Load
<1>11. /\ accounts'[a].resetAt = 0 /\ accounts'[a].check = t /\ accounts'[a].tried = s.tried
  BY <1>3, <1>6, <1>7 DEF Plan, Clear
<1>12. Look(accounts'[a]) = t
  BY <1>11 DEF Look
<1>13. Left(i) # None
  BY AutoResetAssumption DEF Left, OwnedBy
<1>14. Cached(a)' \subseteq Left(i)
  BY <1>2, <1>13 DEF Cached
<1>15. PICK f : f = faults /\ f \in 0..MaxFaults
  BY <1>4
<1>16. PICK g : g = faults' /\ g \in 0..MaxFaults /\ f <= g
  BY <1>15, ConditionsKept
<1>17. ASSUME NEW e \in Nat, Deadline(a, e)'
       PROVE  Enough(i, t, e)'
  <2>1. Deadline(a, e)
    BY <1>2, <1>4, <1>11, <1>14, <1>17, DeadlineKept
  <2>2. clock + Need(l, f) < e
    <3>1. Enough(i, clock, e)
      BY <1>2, <1>3, <1>5, <1>6, <1>17, <2>1 DEF InTime
    <3>2. QED
      BY <1>8, <1>15, <3>1 DEF Enough
  <2>3. Need(m, g) + PostReset <= Need(l, f) /\ Need(m, g) \in Int /\ Need(l, f) \in Int
    <3>1. Need(m + 1, g) <= Need(l, f)
      BY <1>10, <1>15, <1>16, NeedLess
    <3>2. Need(m + 1, g) = Need(m, g) + PostReset /\ Need(m, g) \in Int /\ Need(l, f) \in Int
      BY <1>10, <1>15, <1>16, NeedArithmetic
    <3>3. QED
      BY <3>1, <3>2
  <2>4. t + Need(m, g) < e
    BY <1>4, <1>6, <1>7, <2>2, <2>3
  <2>5. QED
    BY <1>9, <1>16, <2>4 DEF Enough, Need
<1>18. s.tried # None =>
          Cardinality(Left(i)') < s.tried.count + IF task'[a].at = "posting" THEN 1 ELSE 0
  <2>1. s.tried # None => s.tried.count \in Nat
    BY <1>6 DEF Plan, Fingerprints
  <2>2. QED
    BY <1>1, <1>2, <1>3, <2>1
<1>19. cache'[a] # None => cache'[a].credits # None
  BY <1>2, <1>13
<1>20. clock' <= t
  BY <1>4, <1>6, <1>7
<1>21. QED
  BY <1>2, <1>11, <1>12, <1>17, <1>18, <1>19, <1>20 DEF InTime

(* A plan for the earliest credit is made in time.                         *)
LEMMA ScheduledInTime ==
    ASSUME Timely, TimelyInv, [Next]_vars, NEW a \in Tracked,
           NEW S \in SUBSET Credit, Left(IdentityOf[a]) \subseteq S,
           task[a].at # "posting", task'[a].at # "posting", clock' = clock,
           accounts'[a] = Scheduled(accounts[a], S, clock),
           cache'[a] = None \/ cache'[a].credits = S,
           \A k \in S : expiry[k] > clock =>
              \/ EarliestFuture(S, clock) > clock + Lead
              \/ Enough(IdentityOf[a], clock, expiry[k])
    PROVE  InTime(a)'
<1>1. SUFFICES ASSUME Left(IdentityOf[a])' # {} PROVE InTime(a)'
  BY DEF InTime
<1>2. PICK i : i = IdentityOf[a]
  OBVIOUS
<1>3. PICK s : s = accounts[a]
  OBVIOUS
<1>4. /\ Typed /\ TypeOK /\ Punctual /\ Stamped /\ a \in Account /\ i \in Identity
      /\ RefreshInterval \in Nat \ {0} /\ Lead \in Nat /\ Unlapsed
      /\ clock \in Nat \ {0}
  BY <1>2, Intervals DEF TimelyInv, IInv, Typed, TypeOK, Tracked, Identity
<1>5. /\ Left(i) # {} /\ Left(i)' # {} /\ Left(i)' \subseteq Left(i)
      /\ Cardinality(Left(i)') \in Nat /\ Cardinality(Left(i)) \in Nat
      /\ Cardinality(Left(i)') <= Cardinality(Left(i))
  BY <1>1, <1>2, <1>4, LeftShrinks, LeftFinite
<1>6. s \in Plan /\ InTime(a)
  BY <1>2, <1>3, <1>5, LooksNow
<1>7. PICK e : e = EarliestFuture(S, clock)
  OBVIOUS
<1>8. PICK p : p = Scheduled(s, S, clock)
  OBVIOUS
<1>9. /\ p \in Plan /\ p.tried = s.tried /\ p.check = clock + RefreshInterval
      /\ p.expiresAt = e /\ accounts'[a] = p
      /\ p.check \in Nat /\ p.resetAt \in Nat /\ e \in Nat
      /\ e # 0 => \E k \in S : expiry[k] = e
      /\ e = 0 => p.resetAt = 0
      /\ e # 0 => e > clock
  BY <1>3, <1>4, <1>6, <1>7, <1>8, ScheduledSound, EarliestSound DEF Plan
<1>10. e # 0 => /\ p.resetAt = clock \/ p.resetAt = e - Lead
                /\ p.resetAt >= clock /\ p.resetAt >= e - Lead
  <2>1. e # 0 => p.resetAt = Max({clock, e - Lead})
    BY <1>6, <1>7, <1>8 DEF Scheduled, Plan
  <2>2. PICK x \in Int : x = e - Lead
    BY <1>4, <1>9
  <2>3. PICK y \in Int : y = clock
    BY <1>4
  <2>4. PICK z : z = Max({y, x})
    OBVIOUS
  <2>5. (z = y \/ z = x) /\ z >= y /\ z >= x
    BY <2>4, Later2
  <2>6. e # 0 => p.resetAt = z
    BY <2>1, <2>2, <2>3, <2>4
  <2>7. QED
    BY <2>2, <2>3, <2>5, <2>6
<1>11. PICK t \in Nat : t = Look(p)
  BY <1>9 DEF Look
<1>12. clock <= t
  BY <1>4, <1>9, <1>10, <1>11 DEF Look
<1>13. S # None
  BY AutoResetAssumption
<1>14. Cached(a)' \subseteq S
  BY <1>13 DEF Cached
<1>15. \A k \in Credit : expiry'[k] = expiry[k] /\ expiry[k] \in Nat
  BY <1>4, SpenderCases, Intervals DEF TypeOK
<1>16. ASSUME NEW d \in Nat, Deadline(a, d)'
       PROVE  \E k \in S : d = expiry[k] /\ expiry[k] > clock
  <2>1. CASE \E k \in Left(IdentityOf[a])' : d = expiry'[k] /\ d # 0
    <3>1. PICK k \in Left(i)' : d = expiry'[k] /\ d # 0
      BY <1>2, <2>1
    <3>2. k \in Left(i) /\ k \in S /\ k \in Credit /\ spender[k] = None
      BY <1>2, <1>5, <3>1 DEF Left, OwnedBy
    <3>3. QED
      BY <1>4, <1>15, <3>1, <3>2 DEF Unlapsed
  <2>2. CASE \E k \in Cached(a)' : d = expiry'[k] /\ d > clock'
    BY <1>14, <1>15, <2>2
  <2>3. CASE accounts'[a].resetAt # 0 /\ d = accounts'[a].expiresAt
    BY <1>9, <2>3
  <2>4. QED
    BY <1>16, <2>1, <2>2, <2>3 DEF Deadline
<1>17. ASSUME NEW d \in Nat, Deadline(a, d)'
       PROVE  Enough(i, t, d)'
  <2>1. PICK k \in S : d = expiry[k] /\ expiry[k] > clock
    BY <1>16, <1>17
  <2>2. e # 0 /\ e <= d
    BY <1>4, <1>7, <2>1, EarliestLeast
  <2>3. p.resetAt # 0
    BY <1>4, <1>9, <1>10, <2>2
  <2>4. t <= p.resetAt
    BY <1>9, <1>11, <2>3 DEF Look
  <2>5. CASE e - Lead > clock \/ t + Lead <= d
    <3>1. t + Lead <= d
      BY <1>4, <1>9, <1>10, <2>2, <2>4, <2>5
    <3>2. Enough(i, t, d)
      BY <1>4, <1>5, <1>17, <3>1, EnoughEarly
    <3>3. QED
      BY <1>4, <1>5, <1>17, <3>2, EnoughStays
  <2>6. CASE e - Lead <= clock
    <3>1. p.resetAt = clock
      BY <1>4, <1>9, <1>10, <2>2, <2>6
    <3>2. t = clock
      BY <1>4, <1>9, <1>11, <1>12, <2>4, <3>1
    <3>3. e <= clock + Lead
      BY <1>4, <1>9, <2>6
    <3>4. Enough(i, clock, d)
      BY <1>2, <1>4, <1>7, <1>9, <2>1, <3>3
    <3>5. PICK u \in Nat : u = clock
      BY <1>4
    <3>6. Enough(i, u, d)'
      BY <1>4, <1>5, <1>17, <3>4, <3>5, EnoughStays
    <3>7. QED
      BY <3>2, <3>5, <3>6
  <2>7. QED
    BY <1>4, <1>9, <2>5, <2>6
<1>18. s.tried # None =>
          Cardinality(Left(i)') < s.tried.count + IF task'[a].at = "posting" THEN 1 ELSE 0
  <2>1. s.tried # None => s.tried.count \in Nat
    BY <1>6 DEF Plan, Fingerprints
  <2>2. s.tried # None => Cardinality(Left(i)) < s.tried.count + 0
    BY <1>2, <1>3, <1>5, <1>6 DEF InTime
  <2>3. QED
    BY <1>5, <2>1, <2>2
<1>19. cache'[a] # None => cache'[a].credits # None
  BY <1>13
<1>20. QED
  BY <1>2, <1>9, <1>11, <1>12, <1>17, <1>18, <1>19 DEF InTime

LEMMA VerifyInTime ==
    ASSUME Timely, TimelyInv, [Next]_vars, NEW a \in Account, VerifyAccount(a)
    PROVE  InTime(a)'
<1>1. /\ Typed /\ a \in Tracked /\ stopping = FALSE /\ eligible = Account
      /\ DOMAIN accounts = Account /\ DOMAIN task = Account
      /\ task[a].at = "queued"
  BY DEF TimelyInv, IInv, Typed, TypeOK, Punctual, TasksTracked, VerifyAccount
<1>2. clock' = clock /\ cache' = cache
  BY DEF VerifyAccount, Working
<1>3. CASE Fails("verify", stopping) /\ Done(a, Retried(accounts[a], clock))
  <2>1. faults < MaxFaults /\ faults' = faults + 1
    BY <1>1, <1>3 DEF Fails
  <2>2. accounts'[a] = Retried(accounts[a], clock) /\ task'[a].at # "posting"
    BY <1>1, <1>3 DEF Done, NoTask
  <2>3. QED
    BY <1>1, <1>2, <2>1, <2>2, RetryInTime
<1>4. CASE task' = [task EXCEPT ![a].at = "verified"] /\ UNCHANGED accounts
  <2>1. task'[a].at = "verified"
    BY <1>1, <1>4
  <2>2. QED
    BY <1>1, <1>2, <1>4, <2>1, KeptInTime
<1>5. QED
  BY <1>1, <1>3, <1>4 DEF VerifyAccount

(* A confirmation that is answered has read what is left.                  *)
LEMMA ConfirmInTime ==
    ASSUME Timely, TimelyInv, [Next]_vars, NEW a \in Account, Confirm(a)
    PROVE  InTime(a)'
<1>1. /\ Typed /\ TypeOK /\ a \in Tracked /\ stopping = FALSE /\ Unlapsed /\ CacheFits
      /\ DOMAIN accounts = Account /\ DOMAIN task = Account /\ DOMAIN cache = Account
      /\ task[a].at = "verified" /\ clock' = clock /\ clock \in Nat \ {0}
      /\ IdentityOf[a] \in Identity
      /\ accounts[a] \in Plan /\ Stamped /\ lastAttempt \in [Identity -> Nat]
  BY DEF TimelyInv, IInv, Typed, TypeOK, Punctual, TasksTracked, Tracked, Confirm, Working,
         Identity
<1>2. PICK S : QuotaQuery(a, TRUE, "verify", FALSE, S) /\ Decide(a, S)
  BY <1>1 DEF Confirm
<1>3. Unlocked(IdentityOf[a]) /\ spender' = spender
  BY DEF Confirm, Working, sub2api
<1>4. PICK i : i = IdentityOf[a]
  OBVIOUS
<1>5. PICK s : s = accounts[a]
  OBVIOUS
<1>6. Left(i)' = Left(i) /\ Left(i) \in SUBSET Credit /\ Left(i) # None
  BY <1>3, AutoResetAssumption DEF Left, OwnedBy
<1>7. CASE /\ S = None /\ faults < MaxFaults /\ faults' = faults + 1
           /\ cache' = [cache EXCEPT ![a] = Kept(None, ErrTTL)]
  <2>1. Done(a, Retried(accounts[a], clock))
    BY <1>2, <1>7 DEF Decide
  <2>2. accounts'[a] = Retried(accounts[a], clock) /\ task'[a].at # "posting"
    BY <1>1, <2>1 DEF Done, NoTask
  <2>3. Cached(a)' = {}
    BY <1>1, <1>7 DEF Cached, Kept
  <2>4. QED
    BY <1>1, <1>7, <2>2, <2>3, RetryInTime
<1>8. CASE S = Left(i) /\ cache' = [cache EXCEPT ![a] = Kept(S, TTL)]
  <2>1. cache'[a].credits = S
    BY <1>1, <1>8 DEF Kept
  <2>2. S # None /\ S \in SUBSET Credit
    BY <1>6, <1>8
  <2>3. PICK e : e = EarliestFuture(S, clock)
    OBVIOUS
  <2>4. PICK print : print = Fingerprint(S, clock)
    OBVIOUS
  <2>5. print.count = Cardinality(S)
    BY <2>4 DEF Fingerprint
  <2>6. e \in Nat /\ Lead \in Nat /\ PostReset \in Nat /\ DedupWindow \in Nat
        /\ DedupWindow <= PostReset
    BY <1>1, <2>2, <2>3, EarliestSound, Intervals DEF Timely
  <2>7. CASE Done(a, Scheduled(s, S, clock)) /\ (e = 0 \/ e > clock + Lead)
    <3>1. accounts'[a] = Scheduled(s, S, clock) /\ task'[a].at # "posting"
      BY <1>1, <2>7 DEF Done, NoTask
    <3>2. \A k \in S : expiry[k] > clock => EarliestFuture(S, clock) > clock + Lead
      BY <1>1, <2>2, <2>3, <2>7, EarliestLeast
    <3>3. QED
      BY <1>1, <1>4, <1>5, <1>8, <2>1, <2>2, <3>1, <3>2, ScheduledInTime
  <2>8. CASE Done(a, Clear(s, clock + PostReset)) /\ (s.tried = print \/ TooRecent(i))
             /\ UNCHANGED lastAttempt
    <3>1. accounts'[a] = Clear(s, clock + PostReset) /\ task'[a].at # "posting"
      BY <1>1, <2>8 DEF Done, NoTask
    <3>2. SUFFICES ASSUME Left(i)' # {}
                   PROVE  /\ Load(i, clock + PostReset)' + 1 <= Load(i, clock)
                          /\ s.tried # None => Cardinality(Left(i)') < s.tried.count
      BY <1>1, <1>4, <1>5, <1>8, <2>1, <3>1, PausedInTime
    <3>3. InTime(a) /\ Cardinality(Left(i)) \in Nat
      BY <1>1, <1>4, <1>6, <3>2, LooksNow, LeftFinite
    <3>4. s.tried # None => Cardinality(Left(i)) < s.tried.count
      <4>1. s.tried # None => s.tried.count \in Nat
        BY <1>1, <1>5 DEF Plan, Fingerprints
      <4>2. s.tried # None => Cardinality(Left(i)) < s.tried.count + 0
        BY <1>1, <1>4, <1>5, <1>6, <3>2, <3>3 DEF InTime
      <4>3. QED
        BY <4>1, <4>2
    <3>5. print # None
      <4>1. Fingerprint(S, clock) \in Fingerprints
        BY <2>2, FingerprintTyped
      <4>2. QED
        BY <2>4, <4>1, AutoResetAssumption
    <3>6. s.tried # print
      BY <1>8, <2>5, <3>3, <3>4, <3>5
    <3>7. PICK n \in Nat : n = Cardinality(Left(i))
      BY <3>3
    <3>8. PICK l \in Nat : l = lastAttempt[i]
      BY <1>1, <1>4
    <3>9. l <= clock /\ l # 0 /\ clock - l < DedupWindow
      BY <1>1, <1>4, <2>8, <3>6, <3>8 DEF Stamped, TooRecent
    <3>10. Load(i, clock) = n + 1
      BY <1>3, <1>4, <3>7, <3>8, <3>9 DEF Load, Delayed
    <3>11. PICK t \in Nat : t = clock + PostReset
      BY <1>1, <2>6
    <3>12. ~(t - l < DedupWindow)
      BY <1>1, <2>6, <3>9, <3>11
    <3>13. Load(i, t)' = n
      <4>1. ~Delayed(i, t)'
        BY <2>8, <3>8, <3>12 DEF Delayed
      <4>2. QED
        BY <1>6, <3>7, <4>1 DEF Load
    <3>14. Load(i, clock + PostReset)' + 1 <= Load(i, clock)
      BY <1>1, <2>6, <3>10, <3>11, <3>13 DEF Load, Delayed
    <3>15. QED
      BY <1>6, <3>4, <3>14
  <2>9. CASE /\ accounts' = [accounts EXCEPT ![a].tried = print]
             /\ task' = [task EXCEPT ![a] = [at |-> "posting", checkedAt |-> clock, expiresAt |-> e]]
    <3>1. SUFFICES ASSUME Left(i)' # {} PROVE InTime(a)'
      BY <1>4 DEF InTime
    <3>2. Left(i) # {} /\ Cardinality(Left(i)) \in Nat
      BY <1>6, <3>1, LeftFinite
    <3>3. /\ InTime(a) /\ Look(s) = clock /\ s.resetAt # 0
      BY <1>1, <1>4, <1>5, <3>2, LooksNow
    <3>4. /\ accounts'[a].resetAt = s.resetAt /\ accounts'[a].check = s.check
          /\ accounts'[a].expiresAt = s.expiresAt /\ accounts'[a].tried = print
          /\ task'[a].at = "posting"
      BY <1>1, <1>5, <2>9 DEF Plan
    <3>5. PICK t \in Nat : t = clock
      BY <1>1
    <3>6. Look(accounts'[a]) = t
      BY <3>3, <3>4, <3>5 DEF Look
    <3>7. Cached(a)' \subseteq Left(IdentityOf[a])
      BY <1>4, <1>8, <2>1 DEF Cached
    <3>8. accounts'[a].resetAt # 0 => Deadline(a, accounts'[a].expiresAt)
      BY <1>5, <3>4 DEF Deadline
    <3>9. ASSUME NEW d \in Nat, Deadline(a, d)'
          PROVE  Enough(i, t, d)'
      <4>1. Deadline(a, d)
        BY <1>1, <3>7, <3>8, <3>9, DeadlineKept
      <4>2. Enough(i, t, d)
        BY <1>4, <1>5, <3>2, <3>3, <3>5, <3>9, <4>1 DEF InTime
      <4>3. QED
        BY <1>1, <1>4, <3>1, <3>9, <4>2, EnoughStays
    <3>10. cache'[a].credits # None
      BY <2>1, <2>2
    <3>11. Cardinality(Left(i)') < print.count + 1
      BY <1>6, <1>8, <2>5, <3>2
    <3>12. QED
      BY <1>1, <1>4, <3>4, <3>5, <3>6, <3>9, <3>10, <3>11 DEF InTime
  <2>10. QED
    BY <1>2, <1>4, <1>5, <2>2, <2>3, <2>4, <2>7, <2>8, <2>9 DEF Decide
<1>9. QED
  BY <1>1, <1>2, <1>4, <1>7, <1>8, QueryFits

(* After a reset there is one less to come.                                *)
LEMMA AutoPostInTime ==
    ASSUME Timely, TimelyInv, [Next]_vars, NEW a \in Account, AutoPost(a)
    PROVE  InTime(a)'
<1>1. /\ Typed /\ TypeOK /\ Unlapsed /\ a \in Tracked /\ stopping = FALSE
      /\ DOMAIN accounts = Account /\ DOMAIN task = Account /\ DOMAIN cache = Account
      /\ DOMAIN lastAttempt = Identity
      /\ task[a].at = "posting" /\ task[a].checkedAt = clock /\ clock' = clock
      /\ clock \in Nat \ {0} /\ IdentityOf[a] \in Identity /\ accounts[a] \in Plan
  BY DEF TimelyInv, IInv, Typed, TypeOK, Punctual, TasksTracked, Tracked, AutoPost, InHandDue,
         Identity
<1>2. PICK i : i = IdentityOf[a]
  OBVIOUS
<1>3. PICK s : s = accounts[a]
  OBVIOUS
<1>4. PICK came \in BOOLEAN : Post(IdentityOf[a], "auto", came, stopping)
                              /\ cache' = Invalidated(a, came)
  BY DEF AutoPost
<1>5. Post(i, "auto", came, FALSE)
  BY <1>1, <1>2, <1>4 DEF Post, Succeeds, Fails
<1>6. SUFFICES ASSUME Left(i)' # {} PROVE InTime(a)'
  BY <1>2 DEF InTime
<1>7. Left(i) # {} /\ Cardinality(Left(i)) \in Nat
  BY <1>1, <1>6, LeftShrinks, LeftFinite
<1>8. came /\ \E k \in Left(i) : spender' = [spender EXCEPT ![k] = "auto"]
  BY <1>1, <1>2, <1>5, <1>7, PostSpends
<1>9. cache'[a] = None
  BY <1>1, <1>4, <1>8 DEF Invalidated
<1>10. Cardinality(Left(i)') = Cardinality(Left(i)) - 1
  <2>1. "auto" # None
    BY AutoResetAssumption
  <2>2. QED
    BY <1>1, <1>8, <2>1, SpentLeft
<1>11. accounts'[a] = Clear(accounts[a], clock + PostReset) /\ task'[a].at # "posting"
  BY <1>1 DEF AutoPost, Done, NoTask
<1>12. lastAttempt'[i] = clock
  BY <1>1, <1>2 DEF AutoPost
<1>13. PostReset \in Nat /\ DedupWindow \in Nat /\ DedupWindow <= PostReset
  BY Intervals DEF Timely
<1>14. PICK n \in Nat : n = Cardinality(Left(i))
  BY <1>7
<1>15. Load(i, clock) \in Nat /\ n <= Load(i, clock)
  BY <1>14, LoadTyped
<1>16. Load(i, clock + PostReset)' = n - 1
  <2>1. PICK t \in Nat : t = clock + PostReset
    BY <1>1, <1>13
  <2>2. ~(t - clock < DedupWindow)
    BY <1>1, <1>13, <2>1
  <2>3. ~Delayed(i, t)'
    BY <1>12, <2>2 DEF Delayed
  <2>4. Load(i, t)' = n - 1
    BY <1>10, <1>14, <2>3 DEF Load
  <2>5. QED
    BY <1>1, <1>13, <2>1, <2>4 DEF Load, Delayed
<1>17. s.tried # None => Cardinality(Left(i)') < s.tried.count
  <2>1. s.tried # None => s.tried.count \in Nat
    BY <1>1, <1>3 DEF Plan, Fingerprints
  <2>2. s.tried # None => Cardinality(Left(i)) < s.tried.count + 1
    BY <1>1, <1>2, <1>3, <1>7, LooksNow DEF InTime
  <2>3. QED
    BY <1>7, <1>10, <2>1, <2>2
<1>18. QED
  BY <1>1, <1>2, <1>3, <1>9, <1>11, <1>14, <1>15, <1>16, <1>17, PausedInTime

(* A query that is due reads what is left, or what the cache shows.        *)
LEMMA RefreshInTime ==
    ASSUME Timely, TimelyInv, [Next]_vars, NEW a \in Account, Refresh(a)
    PROVE  InTime(a)'
<1>1. /\ Typed /\ TypeOK /\ Unlapsed /\ CacheFits /\ a \in Tracked /\ stopping = FALSE
      /\ DOMAIN accounts = Account /\ DOMAIN task = Account /\ DOMAIN cache = Account
      /\ cache \in [Account -> Entry \cup {None}]
      /\ a \in due /\ Idle /\ clock' = clock
      /\ clock \in Nat \ {0} /\ IdentityOf[a] \in Identity /\ accounts[a] \in Plan
  BY DEF TimelyInv, IInv, Typed, TypeOK, Punctual, TasksTracked, Tracked, Refresh, Identity
<1>2. PICK i : i = IdentityOf[a]
  OBVIOUS
<1>3. SUFFICES ASSUME Left(i)' # {} PROVE InTime(a)'
  BY <1>2 DEF InTime
<1>4. PICK S :
         LET s == IF S = None
                  THEN [accounts[a] EXCEPT !.resetAt = 0, !.check = clock + QuotaRetry]
                  ELSE Scheduled(accounts[a], S, clock)
         IN /\ QuotaQuery(a, FALSE, "refresh", FALSE, S)
            /\ accounts' = [accounts EXCEPT ![a] = s]
            /\ task' = IF ResetDue(s, clock)
                       THEN [task EXCEPT ![a].at = "queued"] ELSE task
  BY <1>1 DEF Refresh
<1>5. Left(i) # {} /\ spender' = spender
  BY <1>1, <1>3, LeftShrinks DEF Refresh, sub2api
<1>6. /\ InTime(a) /\ Look(accounts[a]) = clock
      /\ ~(accounts[a].resetAt # 0 /\ accounts[a].resetAt <= accounts[a].check)
  BY <1>1, <1>2, <1>5, LooksNow
<1>7. cache[a] # None => cache[a].credits # None
  BY <1>2, <1>5, <1>6 DEF InTime
<1>8. Left(i) # None /\ Left(i) \in SUBSET Credit
  BY AutoResetAssumption DEF Left, OwnedBy
<1>9. /\ S # None /\ S \in SUBSET Credit /\ Left(i) \subseteq S
      /\ cache'[a] = None \/ cache'[a].credits = S
      /\ \A k \in S : k \in Left(i) \/ k \in Cached(a)
  <2>1. CASE S = None /\ "refresh" = "verify"
    BY <2>1
  <2>2. CASE S = Left(i) /\ cache' = [cache EXCEPT ![a] = Kept(S, TTL)]
    <3>1. cache'[a].credits = S
      BY <1>1, <2>2 DEF Kept
    <3>2. QED
      BY <1>8, <2>2, <3>1
  <2>3. CASE cache[a] # None /\ S = cache[a].credits /\ cache' = cache
             /\ (S # None => Left(i) \subseteq S)
    <3>1. S # None /\ cache[a] \in Entry
      BY <1>1, <1>7, <2>3
    <3>2. S \in SUBSET Credit
      BY <2>3, <3>1 DEF Entry
    <3>3. QED
      BY <2>3, <3>1, <3>2 DEF Cached
  <2>4. QED
    BY <1>1, <1>2, <1>4, <2>1, <2>2, <2>3, QueryFits
<1>10. accounts'[a] = Scheduled(accounts[a], S, clock)
  BY <1>1, <1>4, <1>9
<1>11. task[a].at # "posting" /\ task'[a].at # "posting"
  <2>1. task[a] = NoTask
    BY <1>1 DEF Idle
  <2>2. task' = task \/ task' = [task EXCEPT ![a].at = "queued"]
    BY <1>4
  <2>3. QED
    BY <1>1, <2>1, <2>2 DEF NoTask
<1>12. ASSUME NEW k \in S, expiry[k] > clock
       PROVE  Enough(IdentityOf[a], clock, expiry[k])
  <2>1. expiry[k] \in Nat
    BY <1>1, <1>9, Intervals DEF TypeOK
  <2>2. Deadline(a, expiry[k])
    BY <1>1, <1>2, <1>9, <1>12, <2>1 DEF Deadline
  <2>3. QED
    BY <1>2, <1>5, <1>6, <2>1, <2>2 DEF InTime
<1>13. QED
  BY <1>1, <1>2, <1>9, <1>10, <1>11, <1>12, ScheduledInTime

(* A new account is queried in time.                                       *)
LEMMA ScanInTime ==
    ASSUME Timely, TimelyInv, [Next]_vars, ScanOk, NEW a \in Tracked', a \notin Tracked
    PROVE  InTime(a)'
<1>1. /\ Typed /\ TypeOK /\ Punctual /\ Stamped /\ CacheFits /\ stepNow = clock /\ clock' = clock
      /\ a \in Account /\ clock = 1 /\ accounts[a] = None
      /\ cache' = cache /\ spender' = spender /\ expiry' = expiry
      /\ IdentityOf[a] \in Identity /\ a \in Representatives
      /\ accounts' = Discovered
  BY TrackedGrows
  DEF TimelyInv, IInv, Typed, TypeOK, Punctual, Tracked, ScanOk, sub2api, Identity,
      Representatives, Dispatch
<1>2. PICK i : i = IdentityOf[a]
  OBVIOUS
<1>3. SUFFICES ASSUME Left(i)' # {} PROVE InTime(a)'
  BY <1>2 DEF InTime
<1>4. PICK n \in Nat :
         /\ n <= Cardinality(Account)
         /\ Discovered[a] = [check |-> stepNow + n * Spacing,
                             resetAt |-> 0, expiresAt |-> 0, tried |-> None]
  BY <1>1, NewCheck
<1>5. /\ Spacing \in Nat /\ Lead \in Nat /\ n * Spacing \in Nat
      /\ Cardinality(Account) \in Nat /\ Cardinality(Account) * Spacing \in Nat
      /\ n * Spacing <= Cardinality(Account) * Spacing
  <2>1. \A x, y, c \in Nat : x <= y => x * c <= y * c /\ x * c \in Nat /\ y * c \in Nat
    OBVIOUS
  <2>2. Spacing \in Nat /\ Lead \in Nat /\ Cardinality(Account) \in Nat
    BY Intervals, FS_CardinalityType DEF Timely
  <2>3. QED
    BY <1>4, <2>1, <2>2
<1>6. PICK t \in Nat : t = clock + n * Spacing
  BY <1>1, <1>5
<1>7. /\ accounts'[a].check = t /\ accounts'[a].resetAt = 0 /\ accounts'[a].tried = None
      /\ Look(accounts'[a]) = t
  BY <1>1, <1>4, <1>6 DEF Look
<1>8. Left(i)' = Left(i)
  BY <1>1 DEF Left
<1>9. ASSUME NEW e \in Nat, Deadline(a, e)'
      PROVE  Enough(i, t, e)'
  <2>1. e \in Expiries \ {0}
    <3>1. \A k \in Credit : expiry[k] \in Expiries
      BY <1>1 DEF TypeOK
    <3>2. Left(IdentityOf[a])' \subseteq Credit
      BY DEF Left, OwnedBy
    <3>3. Cached(a)' \subseteq Credit
      BY <1>1 DEF Cached, TypeOK, Entry
    <3>4. QED
      BY <1>1, <1>7, <1>9, <3>1, <3>2, <3>3 DEF Deadline
  <2>2. Cardinality(Account) * Spacing + Lead < e
    BY <2>1 DEF Timely
  <2>3. t + Lead <= e
    BY <1>1, <1>5, <1>6, <2>2
  <2>4. Enough(i, t, e)
    BY <1>1, <1>2, <1>3, <1>8, <1>9, <2>3, EnoughEarly
  <2>5. QED
    BY <1>1, <1>2, <1>3, <1>9, <2>4, EnoughStays
<1>10. cache'[a] # None => cache'[a].credits # None
  BY <1>1 DEF CacheFits
<1>11. clock' <= t
  BY <1>1, <1>5, <1>6
<1>12. QED
  BY <1>2, <1>7, <1>9, <1>10, <1>11 DEF InTime

LEMMA AllInTimeStep ==
    ASSUME Timely, TimelyInv, [Next]_vars
    PROVE  AllInTime'
<1>0. /\ Typed /\ Punctual /\ DOMAIN task = Account /\ DOMAIN accounts = Account
      /\ Tracked \subseteq Account /\ Tracked' \subseteq Account
      /\ TypeOK
  BY DEF TimelyInv, IInv, Typed, TypeOK, Tracked
<1>1. SUFFICES ASSUME NEW a \in Tracked' PROVE InTime(a)'
  BY DEF AllInTime
<1>2. CASE VerifyAccount(a)
  BY <1>0, <1>2, VerifyInTime
<1>3. CASE Confirm(a)
  BY <1>0, <1>3, ConfirmInTime
<1>4. CASE AutoPost(a)
  BY <1>0, <1>4, AutoPostInTime
<1>5. CASE Refresh(a)
  BY <1>0, <1>5, RefreshInTime
<1>6. CASE a \notin Tracked
  BY <1>6, ScanInTime, TrackedGrows
<1>7. CASE a \in Tracked /\ ~(VerifyAccount(a) \/ Confirm(a) \/ AutoPost(a) \/ Refresh(a))
  <2>1. a \in Account
    BY <1>0
  <2>2. \/ cache'[a] = cache[a]
        \/ cache'[a] = None
        \/ cache'[a] # None /\ cache'[a].credits = Left(IdentityOf[a])
    BY <1>7, <2>1, CacheCases
  <2> DEFINE Same == /\ accounts'[a] = accounts[a]
                     /\ clock' = clock \/ clock' <= Look(accounts[a])
                     /\ task'[a].at = "posting" <=> task[a].at = "posting"
  <2>3. ASSUME pc \in {"asleep", "scanning"}
        PROVE  task[a].at # "posting"
    BY <1>0, <2>1, <2>3 DEF Punctual, Idle, NoTask
  <2>4. CASE Tick
    <3>1. /\ pc = "asleep" /\ discovery # 0 /\ clock' <= wake /\ clock' = clock + 1
          /\ accounts' = accounts /\ task' = task
      BY <2>4, TickAsleep DEF workerVars
    <3>2. wake <= Look(accounts[a])
      BY <1>0, <1>7, <3>1 DEF Punctual
    <3>3. Look(accounts[a]) \in Nat /\ wake \in Nat /\ clock \in Nat
      <4>1. accounts[a] \in Plan /\ wake \in Nat /\ clock \in Nat
        BY <1>0, <1>7, <2>1 DEF TypeOK, Tracked
      <4>2. QED
        BY <4>1 DEF Plan, Look
    <3>4. Same
      BY <3>1, <3>2, <3>3
    <3>5. QED
      BY <1>7, <2>2, <3>4, KeptInTime
  <2>5. CASE Wake
    <3>1. /\ pc = "asleep" /\ clock' = clock /\ accounts' = accounts
          /\ task'[a].at # "posting" \/ task' = task
      BY <2>1, <2>5, DispatchQuiet DEF Wake, Dispatch
    <3>2. Same
      BY <2>3, <3>1
    <3>3. QED
      BY <1>7, <2>2, <3>2, KeptInTime
  <2>6. CASE ScanOk
    <3>1. pc = "scanning" /\ clock' = clock /\ accounts' = Discovered
      BY <2>6 DEF ScanOk, Dispatch
    <3>2. task'[a].at # "posting"
      BY <2>1, <2>6, DispatchQuiet DEF ScanOk
    <3>3. a \in Representatives
      BY <1>1, <2>6, TrackedGrows
    <3>4. accounts'[a] = accounts[a]
      BY <1>0, <1>7, <2>1, <3>1, <3>3, DiscoveredSound DEF Tracked
    <3>5. Same
      BY <2>3, <3>1, <3>2, <3>4
    <3>6. QED
      BY <1>7, <2>2, <3>5, KeptInTime
  <2>7. CASE ConsumingEnds \/ StepEnds \/ OthersStep \/ UNCHANGED vars
    <3>1. UNCHANGED <<clock, accounts, task>>
      BY <2>7 DEF ConsumingEnds, StepEnds, OthersStep, ManualBegin, ManualEnd, PageQuery,
                  AdminUse, Outside, workerVars, vars
    <3>2. QED
      BY <1>7, <2>2, <3>1, KeptInTime
  <2>8. ASSUME NEW b \in Account, VerifyAccount(b) \/ Confirm(b) \/ AutoPost(b) \/ Refresh(b)
        PROVE  InTime(a)'
    <3>1. a # b
      BY <1>7, <2>8
    <3>2. clock' = clock
      BY <2>8 DEF VerifyAccount, Confirm, AutoPost, Refresh, Working
    <3>3. ASSUME NEW t, Ends(b, t)
          PROVE  Same
      BY <1>0, <2>1, <3>1, <3>2, <3>3 DEF Ends, Done
    <3>4. CASE VerifyAccount(b)
      BY <1>0, <2>1, <3>1, <3>2, <3>3, <3>4, VerifyCases, KeptInTime, <1>7, <2>2
    <3>5. CASE Confirm(b)
      <4>1. ASSUME NEW e, NEW print, Posts(b, e, print)
            PROVE  Same
        BY <1>0, <2>1, <3>1, <3>2, <3>5, <4>1, PostsPlan
      <4>2. Same
        BY <1>0, <3>3, <3>5, <4>1, ConfirmCases
      <4>3. QED
        BY <1>7, <2>2, <4>2, KeptInTime
    <3>6. CASE AutoPost(b)
      <4>1. Same
        BY <1>0, <3>3, <3>6, AutoPostCases
      <4>2. QED
        BY <1>7, <2>2, <4>1, KeptInTime
    <3>7. CASE Refresh(b)
      <4>1. Same
        <5>1. PICK s \in Plan :
                 /\ accounts' = [accounts EXCEPT ![b] = s]
                 /\ task' = IF ResetDue(s, clock)
                            THEN [task EXCEPT ![b].at = "queued"] ELSE task
          BY <1>0, <3>7, RefreshCases
        <5>2. QED
          BY <1>0, <2>1, <3>1, <3>2, <5>1
      <4>2. QED
        BY <1>7, <2>2, <4>1, KeptInTime
    <3>8. QED
      BY <2>8, <3>4, <3>5, <3>6, <3>7
  <2>9. QED
    BY <2>4, <2>5, <2>6, <2>7, <2>8, TimelySteps DEF WorkerStep
<1>8. QED
  BY <1>2, <1>3, <1>4, <1>5, <1>6, <1>7

LEMMA TimelyInit ==
    ASSUME Timely, Init
    PROVE  TimelyInv
<1>1. IInv
  BY IInvInductive
<1>2. /\ Tracked = {} /\ clock = 1 /\ MaxFaults \in Nat /\ expiry \in [Credit -> Expiries]
      /\ Lead \in Nat /\ Spacing \in Nat /\ Expiries \subseteq Nat
  BY Intervals, AutoResetAssumption DEF Init, Tracked
<1>3. Punctual
  BY <1>2 DEF Init, Punctual, Idle
<1>4. InHandDue
  BY DEF Init, InHandDue, NoTask
<1>5. Stamped
  BY DEF Init, Stamped
<1>6. CacheFits /\ AllInTime
  BY <1>2 DEF Init, CacheFits, AllInTime
<1>7. Unlapsed
  <2>1. Cardinality(Account) * Spacing \in Nat
    BY <1>2, FS_CardinalityType DEF Timely
  <2>2. \A e \in Expiries \ {0} : 1 < e
    <3>1. SUFFICES ASSUME NEW e \in Expiries \ {0} PROVE 1 < e
      OBVIOUS
    <3>2. Cardinality(Account) * Spacing + Lead < e /\ e \in Nat
      BY <1>2 DEF Timely
    <3>3. Lead >= 1
      BY Intervals
    <3>4. QED
      BY <1>2, <2>1, <3>2, <3>3
  <2>3. QED
    BY <1>2, <2>2 DEF Unlapsed
<1>8. QED
  BY <1>1, <1>3, <1>4, <1>5, <1>6, <1>7 DEF TimelyInv

LEMMA TimelyInductive ==
    /\ Timely => (Init => TimelyInv)
    /\ Timely => (TimelyInv /\ [Next]_vars => TimelyInv')
<1>1. ASSUME Timely, TimelyInv, [Next]_vars
      PROVE  TimelyInv'
  <2>1. IInv'
    BY <1>1, IInvInductive DEF TimelyInv
  <2>2. QED
    BY <1>1, <2>1, PunctualStep, InHandDueStep, StampedStep, CacheFitsStep, UnlapsedStep,
       AllInTimeStep DEF TimelyInv
<1>2. QED
  BY <1>1, TimelyInit

(* No credit expires unused, for any accounts and credits, when everything *)
(* is Timely: handlers' resets, pages and administrators who use credits   *)
(* may come at any moment, but accounts stay enabled and no POST fails.    *)
THEOREM NoLapse ==
    ASSUME Timely
    PROVE  Spec => []NoCreditLapses
<1>1. TimelyInv => NoCreditLapses
  <2>1. ASSUME TimelyInv, NEW k \in Credit, expiry[k] # 0, clock >= expiry[k], spender[k] = None
        PROVE  FALSE
    <3>1. clock < expiry[k] /\ clock \in Nat /\ expiry[k] \in Nat
      BY <2>1, Intervals DEF TimelyInv, Unlapsed, IInv, TypeOK
    <3>2. QED
      BY <2>1, <3>1
  <2>2. QED
    BY <2>1 DEF NoCreditLapses
<1>2. Init => TimelyInv
  BY TimelyInductive
<1>3. TimelyInv /\ [Next]_vars => TimelyInv'
  BY TimelyInductive
<1>4. QED
  BY <1>1, <1>2, <1>3, PTL DEF Spec

=============================================================================
