------------------------- MODULE UsageWindowProofs -------------------------
(* What activeUsageWindowReset accepts, for every window length and every  *)
(* answer of the provider; that reading a log page by page while it grows  *)
(* misses nothing and counts too much only by what has come since, for any *)
(* log, day length and page sizes; and what the sums of UsageSums give, for *)
(* every size of numbers.                                                  *)
EXTENDS UsageWindow, FiniteSetTheorems, WellFoundedInduction, TLAPS

(* A reset time that is accepted lies ahead, by at most a window's length, *)
(* whether it was given or derived from the remaining seconds.             *)
LEMMA ActiveResetAhead ==
    ASSUME NEW p \in Progress, NEW now \in Nat, ActiveReset(p, now) # None
    PROVE  /\ ActiveReset(p, now) \in Nat
           /\ now < ActiveReset(p, now)
           /\ ActiveReset(p, now) - Duration <= now
<1> DEFINE half == (p.remaining + 1) \div 2
<1>1. Duration \in Nat \ {0} /\ None \notin Int
  BY UsageAssumption, SumsAssumption
<1>2. p.resetsAt \in Nat \cup {None} /\ p.remaining \in Int \cup {None}
  BY UsageAssumption
<1>3. CASE p.resetsAt # None /\ p.resetsAt > now /\ p.resetsAt - Duration <= now
  BY <1>2, <1>3 DEF ActiveReset
<1>4. CASE /\ ~(p.resetsAt # None /\ p.resetsAt > now /\ p.resetsAt - Duration <= now)
           /\ p.remaining # None /\ 0 < p.remaining /\ p.remaining <= 2 * Duration
  <2>1. ActiveReset(p, now) = now + half
    BY <1>4 DEF ActiveReset
  <2>2. p.remaining \in Int
    BY <1>2, <1>4
  <2>3. half \in Nat /\ 1 <= half /\ half <= Duration
    BY <1>1, <1>4, <2>2
  <2> HIDE DEF half
  <2>4. QED
    BY <1>1, <2>1, <2>3
<1>5. QED
  BY <1>3, <1>4 DEF ActiveReset

\* The clock only moves within the horizon.
ClockOK == clock \in 0..MaxClock

\* The window is what was resolved.
WindowOK == window # None => window \in [startAt : Int, endAt : Nat]

Covered == ClockOK /\ progress \in Progress /\ WindowOK /\ WindowCoversRequest

(* Only Resolve touches the window, and it is given a reset time ahead.    *)
LEMMA NextCovered == Covered /\ [Next]_vars => Covered'
<1> SUFFICES ASSUME Covered, [Next]_vars PROVE Covered'
  OBVIOUS
<1> USE UsageAssumption, SumsAssumption DEF Covered, ClockOK, WindowOK, WindowCoversRequest
<1>1. CASE Tick \/ Use
  BY <1>1 DEF Tick, Use, request
<1>2. CASE Aggregate \/ ReadPage
  BY <1>2 DEF Aggregate, ReadPage, sub2api
<1>3. CASE Resolve
  <2>1. clock \in Nat /\ Duration \in Nat \ {0} /\ progress \in Progress
    OBVIOUS
  <2>2. /\ UNCHANGED <<clock, progress>>
        /\ \/ window' = window
           \/ /\ ActiveReset(progress, clock) # None
              /\ window' = [startAt |-> ActiveReset(progress, clock) - Duration, endAt |-> clock]
    BY <1>3 DEF Resolve, sub2api
  <2>3. CASE window' = window
    BY <2>2, <2>3
  <2>4. CASE /\ ActiveReset(progress, clock) # None
             /\ window' = [startAt |-> ActiveReset(progress, clock) - Duration, endAt |-> clock]
    <3>1. PICK reset \in Nat : /\ reset = ActiveReset(progress, clock)
                               /\ clock < reset /\ reset - Duration <= clock
      BY <2>1, <2>4, ActiveResetAhead
    <3>2. window'.startAt = reset - Duration /\ window'.endAt = clock
      BY <2>4, <3>1
    <3>3. window' \in [startAt : Int, endAt : Nat]
      BY <2>1, <2>4, <3>1
    <3>4. QED
      BY <2>1, <2>2, <3>1, <3>2, <3>3
  <2>5. QED
    BY <2>2, <2>3, <2>4
<1>4. CASE UNCHANGED vars
  BY <1>4 DEF vars, sub2api, request
<1>5. QED
  BY <1>1, <1>2, <1>3, <1>4 DEF Next

(* Statistics are only fetched for a window that has begun and has not     *)
(* ended when the request resolves it.                                     *)
THEOREM CoversRequest == Spec => []WindowCoversRequest
<1>1. Init => Covered
  BY UsageAssumption DEF Init, Covered, ClockOK, WindowOK, WindowCoversRequest
<1>2. Covered => WindowCoversRequest
  BY DEF Covered
<1>3. QED
  BY <1>1, <1>2, NextCovered, PTL DEF Spec

-----------------------------------------------------------------------------
(* An addition of counters is exact or refused, and it is refused only for *)
(* what is negative, failed before, or does not fit into an int64.         *)
LEMMA PlusExact ==
    ASSUME NEW x \in 0..MaxInt \cup {Failed}, NEW y \in Int \cup {Failed}
    PROVE  \/ /\ x # Failed /\ y # Failed /\ 0 <= y /\ x + y <= MaxInt
              /\ Plus(x, y) = x + y /\ Plus(x, y) \in 0..MaxInt
           \/ /\ x = Failed \/ y = Failed \/ y < 0 \/ x + y > MaxInt
              /\ Plus(x, y) = Failed
<1> USE SumsAssumption
<1>1. CASE x = Failed \/ y = Failed
  BY <1>1 DEF Plus
<1>2. CASE x # Failed /\ y # Failed
  <2>1. x \in 0..MaxInt /\ y \in Int /\ MaxInt \in Nat
    BY <1>2
  <2>2. CASE y < 0 \/ x > MaxInt - y
    BY <1>2, <2>1, <2>2 DEF Plus
  <2>3. CASE ~(y < 0 \/ x > MaxInt - y)
    BY <1>2, <2>1, <2>3 DEF Plus
  <2>4. QED
    BY <2>2, <2>3
<1>3. QED
  BY <1>1, <1>2

LEMMA FailedNoCount == Failed \notin 0..MaxInt /\ Failed \notin Int
BY SumsAssumption

(* The four kinds of tokens of a record are added without overflow.        *)
LEMMA TokensExact ==
    ASSUME NEW e \in Entry, TokensOf(e) # Failed
    PROVE  /\ TokensOf(e) \in 0..MaxInt
           /\ TokensOf(e) = e.tokens[1] + e.tokens[2] + e.tokens[3] + e.tokens[4]
<1>1. \A k \in 1..4 : e.tokens[k] \in Int
  BY DEF Entry
<1>2. 0 \in 0..MaxInt
  BY SumsAssumption
<1>3. PICK t1 : t1 = Plus(0, e.tokens[1])
  OBVIOUS
<1>4. PICK t2 : t2 = Plus(t1, e.tokens[2])
  OBVIOUS
<1>5. PICK t3 : t3 = Plus(t2, e.tokens[3])
  OBVIOUS
<1>6. PICK t4 : t4 = Plus(t3, e.tokens[4])
  OBVIOUS
<1>7. t4 = TokensOf(e)
  BY <1>3, <1>4, <1>5, <1>6 DEF TokensOf
<1>8. /\ t1 \in 0..MaxInt \cup {Failed}
      /\ t1 # Failed => t1 = e.tokens[1]
  BY <1>1, <1>2, <1>3, PlusExact, FailedNoCount
<1>9. /\ t2 \in 0..MaxInt \cup {Failed}
      /\ t2 # Failed => t1 # Failed /\ t2 = t1 + e.tokens[2]
  BY <1>1, <1>4, <1>8, PlusExact, FailedNoCount
<1>10. /\ t3 \in 0..MaxInt \cup {Failed}
       /\ t3 # Failed => t2 # Failed /\ t3 = t2 + e.tokens[3]
  BY <1>1, <1>5, <1>9, PlusExact, FailedNoCount
<1>11. /\ t4 \in 0..MaxInt \cup {Failed}
       /\ t4 # Failed => t3 # Failed /\ t4 = t3 + e.tokens[4]
  BY <1>1, <1>6, <1>10, PlusExact, FailedNoCount
<1>12. QED
  BY <1>7, <1>8, <1>9, <1>10, <1>11

(* The statistics of two parts of a window are added exactly or refused.   *)
THEOREM AddExact ==
    ASSUME NEW left \in Stats, NEW right \in Stats, Add(left, right) # Failed
    PROVE  /\ Add(left, right) \in Stats
           /\ Add(left, right).requests = left.requests + right.requests
           /\ Add(left, right).tokens = left.tokens + right.tokens
           /\ Add(left, right).cost = left.cost + right.cost
           /\ Add(left, right).quotaCost = left.quotaCost + right.quotaCost
<1>1. /\ left.requests \in 0..MaxInt /\ right.requests \in 0..MaxInt
      /\ left.tokens \in 0..MaxInt /\ right.tokens \in 0..MaxInt
      /\ left.cost \in Int /\ right.cost \in Int
      /\ left.quotaCost \in Int /\ right.quotaCost \in Int
  BY DEF Stats
<1>2. PICK requests : requests = Plus(left.requests, right.requests)
  OBVIOUS
<1>3. PICK tokens : tokens = Plus(left.tokens, right.tokens)
  OBVIOUS
<1>4. PICK sum : sum = [requests |-> requests, tokens |-> tokens,
                        cost |-> left.cost + right.cost,
                        quotaCost |-> left.quotaCost + right.quotaCost]
  OBVIOUS
<1>5. Add(left, right) = sum /\ Accepted(sum)
  BY <1>2, <1>3, <1>4 DEF Add
<1>6. requests # Failed /\ tokens # Failed
  BY <1>4, <1>5 DEF Accepted
<1>7. requests \in 0..MaxInt /\ requests = left.requests + right.requests
  BY <1>1, <1>2, <1>6, PlusExact
<1>8. tokens \in 0..MaxInt /\ tokens = left.tokens + right.tokens
  BY <1>1, <1>3, <1>6, PlusExact
<1>9. /\ left.cost + right.cost \in 0..MaxAmount
      /\ left.quotaCost + right.quotaCost \in 0..MaxAmount
  BY <1>1, <1>4, <1>5, SumsAssumption DEF Accepted, Finite
<1>10. QED
  BY <1>4, <1>5, <1>7, <1>8, <1>9 DEF Stats

(* A record is counted with exactly its tokens and costs, and as one more  *)
(* request; otherwise nothing of it is counted.                            *)
THEOREM AccumulateExact ==
    ASSUME NEW stats \in Stats, NEW e \in Entry, Accumulate(stats, e) # Failed
    PROVE  /\ Accumulate(stats, e) \in Stats
           /\ Accumulate(stats, e).requests = stats.requests + 1
           /\ Accumulate(stats, e).tokens = stats.tokens + e.tokens[1] + e.tokens[2]
                                                + e.tokens[3] + e.tokens[4]
           /\ Accumulate(stats, e).cost = stats.cost + e.actualCost
           /\ Accumulate(stats, e).cost >= stats.cost
           /\ Accumulate(stats, e).quotaCost >= stats.quotaCost
<1>1. /\ stats.requests \in 0..MaxInt /\ stats.tokens \in 0..MaxInt
      /\ stats.cost \in Int /\ stats.quotaCost \in Int
      /\ e.actualCost \in Int /\ \A k \in 1..4 : e.tokens[k] \in Int
  BY DEF Stats, Entry
<1>2. PICK requests : requests = Plus(stats.requests, 1)
  OBVIOUS
<1>3. PICK counted : counted = TokensOf(e)
  OBVIOUS
<1>4. PICK tokens : tokens = Plus(stats.tokens, counted)
  OBVIOUS
<1>5. PICK quota : quota = AccountCost(e) * Multiplier(e)
  OBVIOUS
<1>6. PICK sum : sum = [requests |-> requests, tokens |-> tokens,
                        cost |-> stats.cost + e.actualCost,
                        quotaCost |-> stats.quotaCost + quota]
  OBVIOUS
<1>7. /\ Accumulate(stats, e) = sum /\ Accepted(sum)
      /\ Finite(e.actualCost) /\ Finite(quota)
  BY <1>2, <1>3, <1>4, <1>5, <1>6 DEF Accumulate
<1>8. requests # Failed /\ tokens # Failed
  BY <1>6, <1>7 DEF Accepted
<1>9. requests \in 0..MaxInt /\ requests = stats.requests + 1
  BY <1>1, <1>2, <1>8, PlusExact
<1>10. counted # Failed
  BY <1>4, <1>8 DEF Plus
<1>11. /\ counted \in 0..MaxInt
       /\ counted = e.tokens[1] + e.tokens[2] + e.tokens[3] + e.tokens[4]
  BY <1>3, <1>10, TokensExact
<1>12. tokens \in 0..MaxInt /\ tokens = stats.tokens + counted
  BY <1>1, <1>4, <1>8, <1>11, PlusExact
<1>13. quota \in Int
  <2>1. AccountCost(e) \in Int /\ Multiplier(e) \in Int
    BY DEF Entry, AccountCost, Multiplier
  <2>2. QED
    BY <1>5, <2>1
<1>14. /\ stats.cost + e.actualCost \in 0..MaxAmount /\ e.actualCost >= 0
       /\ stats.quotaCost + quota \in 0..MaxAmount /\ quota >= 0
  BY <1>1, <1>6, <1>7, <1>13, SumsAssumption DEF Accepted, Finite
<1>15. QED
  <2>1. sum \in Stats
    BY <1>6, <1>9, <1>12, <1>14 DEF Stats
  <2>2. /\ sum.requests = stats.requests + 1 /\ sum.cost = stats.cost + e.actualCost
        /\ sum.cost >= stats.cost /\ sum.quotaCost >= stats.quotaCost
    BY <1>1, <1>6, <1>9, <1>13, <1>14
  <2>3. sum.tokens = stats.tokens + e.tokens[1] + e.tokens[2] + e.tokens[3] + e.tokens[4]
    BY <1>1, <1>6, <1>11, <1>12
  <2>4. QED
    BY <1>7, <2>1, <2>2, <2>3

(* What is left of an aggregate without its first hours is never negative: *)
(* requests and tokens are the exact difference, costs are off by the      *)
(* tolerance at most.                                                      *)
THEOREM SubtractExact ==
    ASSUME NEW whole \in Stats, NEW excluded \in Stats, Subtract(whole, excluded) # Failed
    PROVE  LET rest == Subtract(whole, excluded) IN
           /\ rest \in Stats
           /\ rest.requests = whole.requests - excluded.requests
           /\ rest.tokens = whole.tokens - excluded.tokens
           /\ rest.cost - (whole.cost - excluded.cost) \in 0..Tolerance
           /\ rest.quotaCost - (whole.quotaCost - excluded.quotaCost) \in 0..Tolerance
<1>1. /\ whole.requests \in 0..MaxInt /\ excluded.requests \in 0..MaxInt
      /\ whole.tokens \in 0..MaxInt /\ excluded.tokens \in 0..MaxInt
      /\ whole.cost \in 0..MaxAmount /\ excluded.cost \in 0..MaxAmount
      /\ whole.quotaCost \in 0..MaxAmount /\ excluded.quotaCost \in 0..MaxAmount
  BY DEF Stats
<1>2. PICK rest : rest = [requests |-> Minus(whole.requests, excluded.requests),
                          tokens |-> Minus(whole.tokens, excluded.tokens),
                          cost |-> CostMinus(whole.cost, excluded.cost),
                          quotaCost |-> CostMinus(whole.quotaCost, excluded.quotaCost)]
  OBVIOUS
<1>3. /\ Subtract(whole, excluded) = rest
      /\ Failed \notin {rest.requests, rest.tokens, rest.cost, rest.quotaCost}
  BY <1>2 DEF Subtract
<1>4. \A x, y \in 0..MaxInt :
          Minus(x, y) # Failed => Minus(x, y) = x - y /\ Minus(x, y) \in 0..MaxInt
  BY SumsAssumption DEF Minus
<1>5. \A x, y \in 0..MaxAmount : CostMinus(x, y) # Failed =>
          CostMinus(x, y) \in 0..MaxAmount /\ CostMinus(x, y) - (x - y) \in 0..Tolerance
  BY SumsAssumption DEF CostMinus
<1>6. /\ rest.requests \in 0..MaxInt /\ rest.requests = whole.requests - excluded.requests
      /\ rest.tokens \in 0..MaxInt /\ rest.tokens = whole.tokens - excluded.tokens
  BY <1>1, <1>2, <1>3, <1>4
<1>7. /\ rest.cost \in 0..MaxAmount
      /\ rest.cost - (whole.cost - excluded.cost) \in 0..Tolerance
  BY <1>1, <1>2, <1>3, <1>5
<1>8. /\ rest.quotaCost \in 0..MaxAmount
      /\ rest.quotaCost - (whole.quotaCost - excluded.quotaCost) \in 0..Tolerance
  BY <1>1, <1>2, <1>3, <1>5
<1>9. rest \in Stats
  BY <1>2, <1>6, <1>7, <1>8 DEF Stats
<1>10. QED
  BY <1>3, <1>6, <1>7, <1>8, <1>9

-----------------------------------------------------------------------------
(* The counting of fetchUserWindowStats.                                   *)

\* The records of the boundary, and those of its day that came later.
Bound == {t \in log : From <= t /\ t < To}
Late == {t \in Today : t >= window.endAt}

\* The records of S up to t, in the order of branch b; the place of t.
Before(S, b, t) == {u \in S : IF b = "prefix" THEN u <= t ELSE u >= t}
Place(S, b, t) == Cardinality(Before(S, b, t))

\* Those of B that lie on the first k places; the records of the boundary
\* that do.
Within(S, B, b, k) == {t \in B : Place(S, b, t) <= k}
First(k) == Within(Today, Bound, branch, k)

\* What the steps of a request establish for the next ones.
Requested ==
    /\ log \subseteq 0..clock
    /\ page <= MaxPages
    /\ pc # "done" => result = None
    /\ pc = "resolve" => window = None /\ total = 0
    /\ pc \in {"resolve", "aggregate"} => page = 1 /\ count = 0
    /\ window # None => window.endAt <= clock
    /\ pc \in {"aggregate", "paging"} =>
          /\ window \in [startAt : Int, endAt : Nat]
          /\ window.startAt < window.endAt
          /\ branch = Branch(window)
    /\ pc = "aggregate" /\ branch = "suffix" => NextDay(window.startAt) < window.endAt
    /\ pc = "paging" => branch # "exact"

\* The pages read so far have been counted; a record is counted again only
\* if another one came in before it.
PagesCounted ==
    pc = "paging" =>
        /\ Cardinality(First((page - 1) * pageSize)) <= count
        /\ count <= Cardinality(First((page - 1) * pageSize))
                        + IF branch = "suffix" THEN Cardinality(Late) ELSE 0

\* The aggregate and the boundary make up the window, and what came later.
PartsFit ==
    pc = "paging" =>
        LET bound == Cardinality(Bound)
            inside == Cardinality(InWindow)
            since == Cardinality(SinceRequest)
        IN  /\ branch = "prefix" =>
                  /\ force => inside + bound <= total
                  /\ total <= inside + since + bound
            /\ branch = "suffix" =>
                  /\ force => inside <= total + bound
                  /\ total + bound + Cardinality(Late) <= inside + since

IInv ==
    /\ TypeOK
    /\ WindowCoversRequest
    /\ Requested
    /\ PagesCounted
    /\ PartsFit
    /\ NothingMissed
    /\ ExcessBounded

-----------------------------------------------------------------------------
(* The places of records in a list.                                        *)
Below == {p \in Nat \X Nat : p[1] < p[2]}

(* A set of natural numbers has a least one.                               *)
LEMMA Least ==
    ASSUME NEW S \in SUBSET Nat, S # {}
    PROVE  \E x \in S : \A y \in S : x <= y
<1>1. IsWellFoundedOn(Below, Nat)
  BY NatLessThanWellFounded, Zenon DEF OpToRel, Below
<1>2. PICK x \in S : \A y \in S : ~(<<y, x>> \in Below)
  BY <1>1, WFMin
<1>3. ASSUME NEW y \in S PROVE x <= y
  <2>1. ~(y < x)
    BY <1>2, Zenon DEF Below
  <2>2. QED
    BY <2>1
<1>4. QED
  BY <1>3

(* Places are counted from one.                                            *)
LEMMA PlaceType ==
    ASSUME NEW S \in SUBSET Nat, IsFiniteSet(S), NEW b, NEW t \in S
    PROVE  /\ Place(S, b, t) \in Nat /\ Cardinality(S) \in Nat
           /\ 1 <= Place(S, b, t) /\ Place(S, b, t) <= Cardinality(S)
<1>1. PICK T : T = Before(S, b, t)
  OBVIOUS
<1>2. T \subseteq S /\ t \in T
  BY <1>1 DEF Before
<1>3. /\ IsFiniteSet(T) /\ Cardinality(T) \in Nat /\ Cardinality(S) \in Nat
      /\ Cardinality(T) <= Cardinality(S)
  BY <1>2, FS_Subset, FS_CardinalityType
<1>4. Cardinality(T) # 0
  BY <1>2, <1>3, FS_EmptySet
<1>5. QED
  BY <1>1, <1>3, <1>4 DEF Place

(* Of two records, one comes first and has the smaller place.              *)
LEMMA PlaceOrder ==
    ASSUME NEW S \in SUBSET Nat, IsFiniteSet(S), NEW b, NEW t \in S, NEW u \in S, t # u
    PROVE  /\ u \in Before(S, b, t) \/ t \in Before(S, b, u)
           /\ u \in Before(S, b, t) => Place(S, b, u) < Place(S, b, t)
           /\ Place(S, b, t) # Place(S, b, u)
<1>1. u \in Before(S, b, t) \/ t \in Before(S, b, u)
  BY DEF Before
<1>2. ASSUME NEW v \in S, NEW w \in S, v # w, v \in Before(S, b, w)
      PROVE  Place(S, b, v) < Place(S, b, w)
  <2>1. PICK T : T = Before(S, b, w)
    OBVIOUS
  <2>2. PICK U : U = Before(S, b, v)
    OBVIOUS
  <2>3. T \subseteq S /\ U \subseteq T /\ w \in T /\ w \notin U
    <3>1. v \in Nat /\ w \in Nat /\ v # w /\ \A x \in S : x \in Nat
      BY <1>2
    <3>2. CASE b = "prefix"
      <4>1. T = {x \in S : x <= w} /\ U = {x \in S : x <= v} /\ v <= w
        BY <1>2, <2>1, <2>2, <3>2 DEF Before
      <4>2. \A x \in U : x \in S /\ x <= w
        BY <3>1, <4>1
      <4>3. w \notin U /\ w \in S /\ w <= w
        BY <3>1, <4>1
      <4>4. U \subseteq T
        BY <4>1, <4>2, Zenon
      <4>5. T \subseteq S /\ w \in T
        BY <4>1, <4>3, Zenon
      <4>6. QED
        BY <4>3, <4>4, <4>5
    <3>3. CASE b # "prefix"
      <4>1. T = {x \in S : x >= w} /\ U = {x \in S : x >= v} /\ v >= w
        BY <1>2, <2>1, <2>2, <3>3 DEF Before
      <4>2. \A x \in U : x \in S /\ x >= w
        BY <3>1, <4>1
      <4>3. w \notin U /\ w \in S /\ w >= w
        BY <3>1, <4>1
      <4>4. U \subseteq T
        BY <4>1, <4>2, Zenon
      <4>5. T \subseteq S /\ w \in T
        BY <4>1, <4>3, Zenon
      <4>6. QED
        BY <4>3, <4>4, <4>5
    <3>4. QED
      BY <3>2, <3>3
  <2>4. IsFiniteSet(T) /\ IsFiniteSet(U) /\ Cardinality(T) \in Nat /\ Cardinality(U) \in Nat
    BY <2>3, FS_Subset, FS_CardinalityType
  <2>5. Cardinality(U) <= Cardinality(T) /\ (Cardinality(T) = Cardinality(U) => T = U)
    BY <2>3, <2>4, FS_Subset
  <2>6. QED
    BY <2>1, <2>2, <2>3, <2>4, <2>5 DEF Place
<1>3. Place(S, b, t) \in Nat /\ Place(S, b, u) \in Nat
  BY PlaceType
<1>4. QED
  BY <1>1, <1>2, <1>3

(* No place is empty before a record's.                                    *)
LEMMA NextPlace ==
    ASSUME NEW S \in SUBSET Nat, IsFiniteSet(S), NEW b, NEW k \in Nat,
           NEW t \in S, k < Place(S, b, t)
    PROVE  \E u \in S : Place(S, b, u) = k + 1
<1>1. PICK R : R = {Place(S, b, u) : u \in {v \in S : k < Place(S, b, v)}}
  OBVIOUS
<1>2. R \in SUBSET Nat /\ R # {}
  BY <1>1, PlaceType
<1>3. PICK r \in R : \A q \in R : r <= q
  BY <1>2, Least
<1>4. PICK m \in S : r = Place(S, b, m) /\ k < r
  BY <1>1, <1>3
<1>5. \A u \in S : k < Place(S, b, u) => r <= Place(S, b, u)
  BY <1>1, <1>3
<1>6. r \in Nat
  BY <1>2, <1>3
<1>7. PICK T : T = Before(S, b, m)
  OBVIOUS
<1>8. /\ T \subseteq S /\ m \in T /\ IsFiniteSet(T) /\ r = Cardinality(T)
      /\ IsFiniteSet(T \ {m}) /\ Cardinality(T \ {m}) = r - 1
  <2>1. T \subseteq S /\ m \in T
    BY <1>4, <1>7 DEF Before
  <2>2. r = Cardinality(T)
    BY <1>4, <1>7 DEF Place
  <2>3. IsFiniteSet(T)
    BY <2>1, FS_Subset
  <2>4. QED
    BY <2>1, <2>2, <2>3, FS_RemoveElement
<1>9. PICK f : f = [u \in T \ {m} |-> Place(S, b, u)]
  OBVIOUS
<1>10. \A u \in T \ {m} : Place(S, b, u) \in 1..k
  <2>1. ASSUME NEW u \in T \ {m}
        PROVE  Place(S, b, u) \in 1..k
    <3>1. u \in S /\ u # m /\ Place(S, b, u) < r
      BY <1>4, <1>7, <1>8, PlaceOrder
    <3>2. Place(S, b, u) \in Nat /\ 1 <= Place(S, b, u)
      BY <3>1, PlaceType
    <3>3. QED
      BY <1>5, <1>6, <3>1, <3>2
  <2>2. QED
    BY <2>1
<1>11. \A u, v \in T \ {m} : Place(S, b, u) = Place(S, b, v) => u = v
  BY <1>8, PlaceOrder
<1>12. f \in Injection(T \ {m}, 1..k)
  BY <1>9, <1>10, <1>11 DEF Injection, IsInjective
<1>13. IsFiniteSet(1..k) /\ Cardinality(1..k) = k
  BY FS_Interval
<1>14. Cardinality(T \ {m}) <= k
  BY <1>12, <1>13, FS_Injection
<1>15. r = k + 1
  <2>1. r - 1 <= k
    BY <1>8, <1>14
  <2>2. QED
    BY <1>4, <1>6, <2>1
<1>16. QED
  BY <1>4, <1>15

(* Another record puts a place back by one at most, and not at all if it   *)
(* comes later in the list.                                                *)
LEMMA PlaceShifts ==
    ASSUME NEW S \in SUBSET Nat, IsFiniteSet(S), NEW b, NEW t \in S, NEW x \in Nat
    PROVE  /\ Place(S, b, t) <= Place(S \cup {x}, b, t)
           /\ Place(S \cup {x}, b, t) <= Place(S, b, t) + 1
           /\ b = "prefix" /\ t < x => Place(S \cup {x}, b, t) = Place(S, b, t)
<1>1. PICK T : T = Before(S, b, t)
  OBVIOUS
<1>2. IsFiniteSet(T) /\ Cardinality(T) \in Nat /\ Place(S, b, t) = Cardinality(T)
  BY <1>1, FS_Subset, FS_CardinalityType DEF Before, Place
<1>3. PICK U : U = Before(S \cup {x}, b, t)
  OBVIOUS
<1>4. U = T \/ U = T \cup {x}
  BY <1>1, <1>3 DEF Before
<1>5. b = "prefix" /\ t < x => U = T
  BY <1>1, <1>3 DEF Before
<1>6. Place(S \cup {x}, b, t) = Cardinality(U)
  BY <1>3 DEF Place
<1>7. \/ Cardinality(U) = Cardinality(T)
      \/ Cardinality(U) = Cardinality(T) + 1
  BY <1>2, <1>4, FS_AddElement
<1>8. b = "prefix" /\ t < x => Cardinality(U) = Cardinality(T)
  BY <1>5
<1>9. QED
  BY <1>2, <1>6, <1>7, <1>8

(* So of the records on the first k places it drives one out at most.      *)
LEMMA FirstShrinks ==
    ASSUME NEW S \in SUBSET Nat, IsFiniteSet(S), NEW B \in SUBSET S, NEW b, NEW k \in Nat,
           NEW x \in Nat
    PROVE  LET F == Within(S, B, b, k)
               G == Within(S \cup {x}, B, b, k)
           IN  /\ Cardinality(F) \in Nat /\ Cardinality(G) \in Nat
               /\ Cardinality(G) <= Cardinality(F)
               /\ Cardinality(F) <= Cardinality(G) + 1
               /\ b = "prefix" /\ (\A t \in B : t < x) => F = G
<1>1. PICK F : F = Within(S, B, b, k)
  OBVIOUS
<1>2. PICK G : G = Within(S \cup {x}, B, b, k)
  OBVIOUS
<1>3. F = {t \in B : Place(S, b, t) <= k} /\ G = {t \in B : Place(S \cup {x}, b, t) <= k}
  BY <1>1, <1>2 DEF Within
<1>4. /\ IsFiniteSet(B) /\ IsFiniteSet(F) /\ IsFiniteSet(G)
      /\ Cardinality(F) \in Nat /\ Cardinality(G) \in Nat
  BY <1>3, FS_Subset, FS_CardinalityType
<1>5. \A t \in B : /\ Place(S, b, t) \in Nat /\ Place(S \cup {x}, b, t) \in Nat
                   /\ Place(S, b, t) <= Place(S \cup {x}, b, t)
                   /\ Place(S \cup {x}, b, t) <= Place(S, b, t) + 1
                   /\ b = "prefix" /\ t < x => Place(S \cup {x}, b, t) = Place(S, b, t)
  <2>1. IsFiniteSet(S \cup {x}) /\ S \cup {x} \in SUBSET Nat
    BY FS_AddElement
  <2>2. QED
    BY <2>1, PlaceType, PlaceShifts
<1>6. G \subseteq F
  <2>1. ASSUME NEW t \in G
        PROVE  t \in F
    <3>1. t \in B /\ Place(S \cup {x}, b, t) <= k
      BY <1>3
    <3>2. Place(S, b, t) <= k
      BY <1>5, <3>1
    <3>3. QED
      BY <1>3, <3>1, <3>2
  <2>2. QED
    BY <2>1
<1>7. \A t \in F \ G : t \in B /\ Place(S, b, t) = k
  <2>1. ASSUME NEW t \in F \ G
        PROVE  t \in B /\ Place(S, b, t) = k
    <3>1. t \in B /\ Place(S, b, t) <= k /\ ~(Place(S \cup {x}, b, t) <= k)
      BY <1>3
    <3>2. QED
      BY <1>5, <3>1
  <2>2. QED
    BY <2>1
<1>8. \A t, u \in F \ G : t = u
  <2>1. ASSUME NEW t \in F \ G, NEW u \in F \ G, t # u
        PROVE  FALSE
    <3>1. t \in S /\ u \in S /\ Place(S, b, t) = Place(S, b, u)
      BY <1>7
    <3>2. QED
      BY <2>1, <3>1, PlaceOrder
  <2>2. QED
    BY <2>1
<1>9. F = G \/ \E t \in F \ G : F = G \cup {t}
  <2>1. CASE F \ G = {}
    BY <1>6, <2>1
  <2>2. CASE F \ G # {}
    <3>1. PICK t : t \in F \ G
      BY <2>2
    <3>2. \A u \in F \ G : t = u
      BY <1>8, <3>1
    <3>3. F = G \cup {t}
      BY <1>6, <3>1, <3>2
    <3>4. QED
      BY <3>1, <3>3
  <2>3. QED
    BY <2>1, <2>2
<1>10. Cardinality(F) <= Cardinality(G) + 1
  <2>1. CASE F = G
    <3>1. Cardinality(F) = Cardinality(G)
      BY <2>1
    <3>2. QED
      BY <1>4, <3>1
  <2>2. CASE \E t \in F \ G : F = G \cup {t}
    <3>1. PICK t \in F \ G : F = G \cup {t}
      BY <2>2
    <3>2. Cardinality(G \cup {t}) = Cardinality(G) + 1
      BY <1>4, FS_AddElement
    <3>3. QED
      BY <1>4, <3>1, <3>2
  <2>3. QED
    BY <1>9, <2>1, <2>2
<1>11. Cardinality(G) <= Cardinality(F)
  BY <1>4, <1>6, FS_Subset
<1>12. ASSUME b = "prefix", \A t \in B : t < x
      PROVE  F = G
  BY <1>5, <1>12, <1>3
<1>13. QED
  BY <1>4, <1>10, <1>11, <1>12, <1>1, <1>2

-----------------------------------------------------------------------------
(* Days and pages.                                                         *)
LEMMA Quotient ==
    ASSUME NEW n \in Int, NEW d \in Nat \ {0}
    PROVE  n \div d \in Int /\ d * (n \div d) <= n /\ n < d * (n \div d) + d
OBVIOUS

(* A day is a half-open stretch of the clock.                              *)
LEMMA DayFacts ==
    ASSUME NEW t \in Int
    PROVE  /\ DayOf(t) \in Int /\ DayOf(t) * Day \in Int
           /\ DayOf(t) * Day <= t /\ t < DayOf(t) * Day + Day
           /\ NextDay(t) = DayOf(t) * Day + Day /\ NextDay(t) \in Int
<1>1. Day \in Nat \ {0}
  BY UsageAssumption
<1>2. PICK q \in Int : q = t \div Day /\ Day * q <= t /\ t < Day * q + Day
  BY <1>1, Quotient
<1>3. Day * q = q * Day /\ q * Day \in Int /\ (q + 1) * Day = q * Day + Day
  BY <1>1
<1>4. QED
  BY <1>1, <1>2, <1>3 DEF DayOf, NextDay

LEMMA DayAtLeast ==
    ASSUME NEW t \in Int, NEW q \in Int
    PROVE  /\ q <= DayOf(t) <=> q * Day <= t
           /\ DayOf(t) = q <=> q * Day <= t /\ t < q * Day + Day
<1>1. Day \in Nat \ {0}
  BY UsageAssumption
<1>2. PICK d \in Int : d = DayOf(t)
  BY DayFacts
<1>3. d * Day \in Int /\ d * Day <= t /\ t < d * Day + Day
  BY <1>2, DayFacts
<1>4. q * Day \in Int
  BY <1>1
<1>5. ASSUME q <= d PROVE q * Day <= d * Day
  BY <1>1, <1>5
<1>6. ASSUME d < q PROVE d * Day + Day <= q * Day
  <2>1. (d + 1) * Day <= q * Day
    BY <1>1, <1>6
  <2>2. (d + 1) * Day = d * Day + Day
    BY <1>1
  <2>3. QED
    BY <2>1, <2>2
<1>7. ASSUME q < d PROVE q * Day + Day <= d * Day
  <2>1. (q + 1) * Day <= d * Day
    BY <1>1, <1>7
  <2>2. (q + 1) * Day = q * Day + Day
    BY <1>1
  <2>3. QED
    BY <2>1, <2>2
<1>8. q <= d <=> q * Day <= t
  BY <1>1, <1>3, <1>4, <1>5, <1>6
<1>9. d = q <=> q * Day <= t /\ t < q * Day + Day
  BY <1>1, <1>3, <1>4, <1>6, <1>7
<1>10. QED
  BY <1>2, <1>8, <1>9

(* There is at least one page and at most as many as records.              *)
LEMMA PagesInRange ==
    ASSUME NEW n \in Nat \ {0}
    PROVE  (MaxRecords + n - 1) \div n \in 1..MaxRecords
<1>1. MaxRecords \in Nat \ {0}
  BY UsageAssumption
<1>2. PICK x \in Nat : x = MaxRecords + n - 1
  BY <1>1
<1>3. PICK q \in Int : q = x \div n /\ n * q <= x /\ x < n * q + n
  BY Quotient
<1>4. q >= 1
  <2>1. SUFFICES ASSUME q <= 0 PROVE FALSE
    BY <1>3
  <2>2. n * q <= 0
    BY <2>1
  <2>3. QED
    BY <1>1, <1>2, <1>3, <2>2
<1>5. q <= MaxRecords
  <2>1. SUFFICES ASSUME MaxRecords + 1 <= q PROVE FALSE
    BY <1>1, <1>3
  <2>2. n * (MaxRecords + 1) <= n * q
    BY <1>1, <2>1
  <2>3. n * (MaxRecords + 1) = n * MaxRecords + n
    BY <1>1
  <2>4. MaxRecords <= n * MaxRecords
    BY <1>1
  <2>5. n * MaxRecords \in Int /\ n * q \in Int
    BY <1>1
  <2>6. QED
    BY <1>1, <1>2, <1>3, <2>2, <2>3, <2>4, <2>5
<1>6. QED
  BY <1>2, <1>3, <1>4, <1>5

(* A page begins where the one before it ends.                             *)
LEMMA PageEnd ==
    ASSUME NEW p \in Nat \ {0}, NEW n \in Nat
    PROVE  (p - 1) * n \in Nat /\ p * n \in Nat /\ p * n = (p - 1) * n + n
OBVIOUS

(* The last page ends after the last of c records.                         *)
LEMMA LastPageEnd ==
    ASSUME NEW c \in Nat, NEW p \in Nat, NEW n \in Nat \ {0}, (c + n - 1) \div n <= p
    PROVE  c <= p * n
<1>1. PICK x \in Nat : x = c + n - 1
  OBVIOUS
<1>2. PICK q \in Int : q = x \div n /\ n * q <= x /\ x < n * q + n
  BY <1>1, Quotient
<1>3. q <= p
  BY <1>1, <1>2
<1>4. n * q <= n * p
  BY <1>2, <1>3
<1>5. n * q \in Int /\ n * p \in Int /\ n * p = p * n
  OBVIOUS
<1>6. QED
  BY <1>1, <1>2, <1>4, <1>5

-----------------------------------------------------------------------------
(* The boundary of a window.                                               *)

\* The beginning of the window's first day.
DayStart == DayOf(window.startAt) * Day

\* What holds of a request whose window is known.
Known ==
    /\ TypeOK /\ Requested
    /\ window \in [startAt : Int, endAt : Nat]
    /\ window.startAt < window.endAt
    /\ branch = Branch(window)

LEMMA Constants ==
    /\ {Day, Duration, FirstPageSize, MaxRecords} \subseteq Nat \ {0}
    /\ MaxClock \in Nat /\ MaxInt \in Nat
    /\ None \notin Int /\ NoWindow \notin Int /\ Failed \notin Int
BY UsageAssumption, SumsAssumption

(* The log is a finite set of times.                                       *)
LEMMA LogFinite ==
    ASSUME TypeOK, NEW S \in SUBSET log
    PROVE  S \in SUBSET Nat /\ IsFiniteSet(S) /\ Cardinality(S) \in Nat
<1>1. log \subseteq 0..MaxClock /\ MaxClock \in Nat
  BY UsageAssumption DEF TypeOK
<1>2. S \subseteq 0..MaxClock /\ IsFiniteSet(0..MaxClock)
  BY <1>1, FS_Interval
<1>3. IsFiniteSet(S) /\ Cardinality(S) \in Nat
  BY <1>2, FS_Subset, FS_CardinalityType
<1>4. S \in SUBSET Nat
  BY <1>2
<1>5. QED
  BY <1>3, <1>4

(* The window begins in its first day; the boundary is the part of the day *)
(* before it or the part in it, whichever is read.                         *)
LEMMA Boundary ==
    ASSUME Known
    PROVE  /\ DayStart \in Int
           /\ DayStart <= window.startAt /\ window.startAt < DayStart + Day
           /\ NextDay(window.startAt) = DayStart + Day
           /\ branch = "exact" => window.startAt = DayStart
           /\ branch = "prefix" => From = DayStart /\ To = window.startAt
           /\ branch = "suffix" =>
                 /\ From = window.startAt
                 /\ To = IF window.endAt < DayStart + Day THEN window.endAt ELSE DayStart + Day
           /\ branch # "exact" => DayOf(From) = DayOf(window.startAt)
<1>1. window.startAt \in Int /\ window.endAt \in Nat /\ Day \in Nat \ {0}
  BY Constants DEF Known
<1>2. /\ DayStart \in Int
      /\ DayStart <= window.startAt /\ window.startAt < DayStart + Day
      /\ NextDay(window.startAt) = DayStart + Day
  BY <1>1, DayFacts DEF DayStart
<1>3. branch = "exact" => window.startAt = DayStart
  BY <1>1, <1>2 DEF Known, Branch, DayStart
<1>4. branch = "prefix" => From = DayStart /\ To = window.startAt
  BY DEF From, To, DayStart
<1>5. branch = "suffix" =>
          /\ From = window.startAt
          /\ To = IF window.endAt < DayStart + Day THEN window.endAt ELSE DayStart + Day
  BY <1>2 DEF From, To, BoundaryEnd
<1>6. branch # "exact" => DayOf(From) = DayOf(window.startAt)
  <2>1. CASE branch = "prefix"
    <3>1. PICK q \in Int : q = DayOf(window.startAt)
      BY <1>1, DayFacts
    <3>2. PICK t \in Int : t = DayStart
      BY <1>2
    <3>3. t = q * Day /\ q * Day <= t /\ t < q * Day + Day
      BY <1>1, <3>1, <3>2 DEF DayStart
    <3>4. DayOf(t) = q
      BY <3>3, DayAtLeast
    <3>5. QED
      BY <1>4, <2>1, <3>1, <3>2, <3>4
  <2>2. CASE branch # "prefix"
    BY <2>2 DEF From
  <2>3. QED
    BY <2>1, <2>2
<1>7. QED
  BY <1>2, <1>3, <1>4, <1>5, <1>6

(* What is read is the log of the first day, with the boundary in it.      *)
LEMMA TodayIs ==
    ASSUME Known, branch # "exact"
    PROVE  /\ Today = {t \in log : DayStart <= t /\ t < DayStart + Day}
           /\ Bound \subseteq Today /\ Today \subseteq log
           /\ From \in Int /\ To \in Int
           /\ To <= window.endAt
<1>1. window.startAt \in Int /\ window.endAt \in Nat /\ Day \in Nat \ {0}
      /\ window.startAt < window.endAt
      /\ branch \in {"prefix", "suffix"} /\ log \subseteq Nat
  BY Constants, LogFinite DEF Known, TypeOK
<1>2. /\ DayStart \in Int
      /\ DayStart <= window.startAt /\ window.startAt < DayStart + Day
      /\ DayOf(From) = DayOf(window.startAt)
  BY Boundary
<1>3. /\ From \in Int /\ To \in Int /\ To <= window.endAt
      /\ DayStart <= From /\ To <= DayStart + Day
  <2>1. CASE branch = "prefix"
    <3>1. From = DayStart /\ To = window.startAt
      BY <2>1, Boundary
    <3>2. QED
      BY <1>1, <1>2, <3>1
  <2>2. CASE branch = "suffix"
    <3>1. /\ From = window.startAt
          /\ To = IF window.endAt < DayStart + Day THEN window.endAt ELSE DayStart + Day
      BY <2>2, Boundary
    <3>2. QED
      BY <1>1, <1>2, <3>1
  <2>3. QED
    BY <1>1, <2>1, <2>2
<1>4. ASSUME NEW t \in log
      PROVE  DayOf(t) = DayOf(From) <=> DayStart <= t /\ t < DayStart + Day
  <2>1. t \in Int
    BY <1>1
  <2>2. PICK q \in Int : q = DayOf(window.startAt)
    BY <1>1, DayFacts
  <2>3. DayOf(t) = q <=> q * Day <= t /\ t < q * Day + Day
    BY <2>1, DayAtLeast
  <2>4. QED
    BY <1>2, <2>2, <2>3 DEF DayStart
<1>5. Today = {t \in log : DayStart <= t /\ t < DayStart + Day}
  BY <1>4 DEF Today
<1>6. ASSUME NEW t \in Bound
      PROVE  t \in Today
  <2>1. t \in log /\ From <= t /\ t < To /\ t \in Int
    BY <1>1 DEF Bound
  <2>2. DayStart <= t /\ t < DayStart + Day
    BY <1>1, <1>2, <1>3, <2>1
  <2>3. QED
    BY <1>5, <2>1, <2>2
<1>7. QED
  BY <1>3, <1>5, <1>6

-----------------------------------------------------------------------------
(* Reading a page.                                                         *)

\* What holds while the boundary is read.
Reading == Known /\ branch # "exact"

LEMMA TodayFinite ==
    ASSUME Reading
    PROVE  Today \in SUBSET Nat /\ IsFiniteSet(Today) /\ Cardinality(Today) \in Nat
BY TodayIs, LogFinite DEF Reading, Known

(* A page holds the records of its places.                                 *)
LEMMA PageIs ==
    ASSUME Reading
    PROVE  /\ page \in Nat \ {0} /\ pageSize \in Nat \ {0}
           /\ (page - 1) * pageSize \in Nat
           /\ page * pageSize = (page - 1) * pageSize + pageSize
           /\ \A t \in Today : t \in Items <=>
                 /\ (page - 1) * pageSize < Place(Today, branch, t)
                 /\ Place(Today, branch, t) <= page * pageSize
<1>1. page \in Nat \ {0} /\ pageSize \in Nat \ {0}
  BY Constants DEF Reading, Known, TypeOK
<1>2. PICK k \in Nat : k = (page - 1) * pageSize
  BY <1>1, PageEnd
<1>3. PICK m \in Nat : m = page * pageSize /\ m = k + pageSize
  BY <1>1, <1>2, PageEnd
<1>4. \A t \in Today : Place(Today, branch, t) \in Nat
  BY TodayFinite, PlaceType
<1>5. \A t \in Today : Place(Today, branch, t) = Cardinality(UpTo(t))
  BY DEF Place, Before, UpTo
<1>6. \A t \in Today : t \in Items <=> Place(Today, branch, t) \in k + 1 .. m
  BY <1>2, <1>3, <1>5 DEF Items
<1>7. ASSUME NEW t \in Today
      PROVE  t \in Items <=> k < Place(Today, branch, t) /\ Place(Today, branch, t) <= m
  <2>1. PICK n \in Nat : n = Place(Today, branch, t)
    BY <1>4
  <2>2. n \in k + 1 .. m <=> k < n /\ n <= m
    BY <1>2, <1>3, <2>1
  <2>3. QED
    BY <1>6, <2>1, <2>2
<1>8. QED
  BY <1>1, <1>2, <1>3, <1>7

(* What is counted of a page are the records that come to those counted.   *)
LEMMA PageCounts ==
    ASSUME Reading
    PROVE  LET seen == Cardinality(First((page - 1) * pageSize))
               new == Cardinality({t \in Items : From <= t /\ t < To})
           IN  /\ seen \in Nat /\ new \in Nat
               /\ Cardinality(First(page * pageSize)) = seen + new
<1>1. PICK k \in Nat : k = (page - 1) * pageSize
  BY PageIs
<1>2. PICK m \in Nat : m = page * pageSize /\ k <= m
  BY <1>1, PageIs
<1>3. PICK M : M = {t \in Items : From <= t /\ t < To}
  OBVIOUS
<1>4. Bound \subseteq Today /\ Bound \subseteq log /\ Today \subseteq log
  BY TodayIs DEF Reading, Bound
<1>5. \A t \in Bound : Place(Today, branch, t) \in Nat
  BY <1>4, TodayFinite, PlaceType
<1>6. \A t : t \in M <=> /\ t \in Bound /\ k < Place(Today, branch, t)
                         /\ Place(Today, branch, t) <= m
  <2>1. ASSUME NEW t
        PROVE  t \in M <=> t \in Bound /\ t \in Items
    <3>1. Items \subseteq Today
      BY DEF Items
    <3>2. QED
      BY <1>3, <1>4, <3>1 DEF Bound
  <2>2. \A t \in Today : t \in Items <=>
            k < Place(Today, branch, t) /\ Place(Today, branch, t) <= m
    BY <1>1, <1>2, PageIs
  <2>3. QED
    BY <1>4, <2>1, <2>2
<1>7. First(m) = First(k) \cup M /\ First(k) \cap M = {}
  <2>1. \A t : t \in First(m) <=> t \in Bound /\ Place(Today, branch, t) <= m
    BY DEF First, Within
  <2>2. \A t : t \in First(k) <=> t \in Bound /\ Place(Today, branch, t) <= k
    BY DEF First, Within
  <2>3. ASSUME NEW t
        PROVE  /\ t \in First(m) <=> t \in First(k) \/ t \in M
               /\ ~(t \in First(k) /\ t \in M)
    <3>1. CASE t \notin Bound
      BY <1>6, <2>1, <2>2, <3>1
    <3>2. CASE t \in Bound
      <4>1. PICK n \in Nat : n = Place(Today, branch, t)
        BY <1>5, <3>2
      <4>2. /\ t \in First(m) <=> n <= m
            /\ t \in First(k) <=> n <= k
            /\ t \in M <=> k < n /\ n <= m
        BY <1>6, <2>1, <2>2, <3>2, <4>1
      <4>3. QED
        BY <1>1, <1>2, <4>1, <4>2
    <3>3. QED
      BY <3>1, <3>2
  <2>4. QED
    BY <2>3
<1>8. First(k) \in SUBSET log /\ M \in SUBSET log
  BY <1>4, <1>6 DEF First, Within
<1>9. /\ IsFiniteSet(First(k)) /\ IsFiniteSet(M)
      /\ Cardinality(First(k)) \in Nat /\ Cardinality(M) \in Nat
  BY <1>8, LogFinite DEF Reading, Known
<1>10. Cardinality(First(m)) = Cardinality(First(k)) + Cardinality(M)
  <2>1. Cardinality(First(k) \cup M) =
            Cardinality(First(k)) + Cardinality(M) - Cardinality(First(k) \cap M)
    BY <1>9, FS_Union
  <2>2. Cardinality(First(k) \cap M) = 0
    BY <1>7, FS_EmptySet
  <2>3. Cardinality(First(m)) = Cardinality(First(k) \cup M)
    BY <1>7
  <2>4. QED
    BY <1>9, <2>1, <2>2, <2>3
<1>11. QED
  BY <1>1, <1>2, <1>3, <1>9, <1>10

(* When no further page is needed, the whole boundary has been read.       *)
LEMMA CompleteMeansRead ==
    ASSUME Reading, Complete
    PROVE  First(page * pageSize) = Bound
<1>1. PICK k \in Nat : k = (page - 1) * pageSize
  BY PageIs
<1>2. PICK m \in Nat : m = page * pageSize /\ m = k + pageSize /\ k + 1 <= m
  BY <1>1, PageIs
<1>3. Bound \subseteq Today /\ From \in Int /\ To \in Int
  BY TodayIs DEF Reading
<1>4. Today \in SUBSET Nat /\ IsFiniteSet(Today) /\ Cardinality(Today) \in Nat
  BY TodayFinite
<1>5. \A t \in Today : t \in Items <=>
          k < Place(Today, branch, t) /\ Place(Today, branch, t) <= m
  BY <1>1, <1>2, PageIs
<1>6. SUFFICES ASSUME NEW t \in Bound, ~(Place(Today, branch, t) <= m)
               PROVE  FALSE
  BY <1>2 DEF First, Within
<1>7. t \in Today /\ t \in Nat /\ From <= t /\ t < To
  BY <1>3, <1>4 DEF Bound
<1>8. PICK n \in Nat : n = Place(Today, branch, t) /\ n <= Cardinality(Today)
  BY <1>4, <1>7, PlaceType
<1>9. CASE PastBoundary
  <2>1. PICK x \in Items : IF branch = "prefix" THEN x >= To ELSE x < From
    BY <1>9 DEF PastBoundary
  <2>2. x \in Today /\ x \in Nat
    BY <1>4 DEF Items
  <2>3. t # x /\ t \in Before(Today, branch, x)
    BY <1>3, <1>7, <2>1, <2>2 DEF Before
  <2>4. Place(Today, branch, t) < Place(Today, branch, x)
    BY <1>4, <1>7, <2>2, <2>3, PlaceOrder
  <2>5. PICK p \in Nat : p = Place(Today, branch, x) /\ p <= m
    BY <1>4, <1>5, <2>1, <2>2, PlaceType
  <2>6. QED
    BY <1>2, <1>6, <1>8, <2>4, <2>5
<1>10. CASE Pages <= page
  <2>1. page \in Nat /\ pageSize \in Nat \ {0}
    BY PageIs
  <2>2. Cardinality(Today) <= m
    BY <1>2, <1>4, <1>10, <2>1, LastPageEnd DEF Pages
  <2>3. QED
    BY <1>2, <1>4, <1>6, <1>8, <2>2
<1>11. CASE Items = {}
  <2>1. k < Place(Today, branch, t)
    BY <1>1, <1>2, <1>6, <1>8
  <2>2. PICK u \in Today : Place(Today, branch, u) = k + 1
    BY <1>4, <1>7, <2>1, NextPlace
  <2>3. u \in Items
    BY <1>1, <1>2, <1>5, <2>2
  <2>4. QED
    BY <1>11, <2>3
<1>12. QED
  BY <1>9, <1>10, <1>11 DEF Complete

-----------------------------------------------------------------------------
(* The strengthened invariant holds in the beginning, and the clock and    *)
(* the log leave it alone.                                                 *)
LEMMA InitIInv == Init => IInv
<1> SUFFICES ASSUME Init
             PROVE  IInv
  OBVIOUS
<1> USE Constants, UsageAssumption DEF Init
<1>1. TypeOK
  <2>1. clock \in 0..MaxClock /\ log \subseteq 0..MaxClock
    OBVIOUS
  <2>2. pageSize \in 1..FirstPageSize /\ page \in 1..MaxRecords
    OBVIOUS
  <2>3. QED
    BY <2>1, <2>2 DEF TypeOK
<1>2. page <= MaxPages
  <2>1. PICK n \in Nat \ {0} : n = pageSize
    OBVIOUS
  <2>2. PICK m \in Nat : m = MaxPages /\ 1 <= m
    BY <2>1, PagesInRange DEF MaxPages
  <2>3. QED
    BY <2>2
<1>3. Requested
  BY <1>2 DEF Requested
<1>4. QED
  BY <1>1, <1>3 DEF IInv, WindowCoversRequest, PagesCounted, PartsFit, NothingMissed, ExcessBounded

(* What counts the log depends on nothing else.                            *)
LEMMA Stay ==
    ASSUME UNCHANGED <<log, window, branch>>
    PROVE  /\ Bound' = Bound /\ Late' = Late /\ Today' = Today
           /\ InWindow' = InWindow /\ SinceRequest' = SinceRequest
           /\ \A k : First(k)' = First(k)
<1>1. From' = From /\ To' = To
  BY DEF From, To, BoundaryEnd, NextDay, DayOf
<1>2. Today' = Today
  BY <1>1 DEF Today, DayOf
<1>3. Bound' = Bound
  BY <1>1 DEF Bound
<1>4. \A k : First(k)' = First(k)
  BY <1>2, <1>3 DEF First, Within, Place, Before
<1>5. QED
  BY <1>2, <1>3, <1>4 DEF Late, InWindow, SinceRequest

LEMMA TickIInv == ASSUME IInv, Tick PROVE IInv'
<1>1. /\ clock' = clock + 1 /\ clock \in 0..MaxClock /\ clock' \in 0..MaxClock
      /\ UNCHANGED <<log, progress, force, pc, window, branch, total, pageSize, page, count, result>>
  BY Constants DEF IInv, TypeOK, Tick, request
<1>2. TypeOK'
  BY <1>1 DEF IInv, TypeOK
<1>3. Requested'
  <2>1. log' \subseteq 0..clock'
    BY <1>1 DEF IInv, Requested
  <2>2. window' # None => window'.endAt <= clock'
    BY <1>1 DEF IInv, Requested, TypeOK
  <2>3. QED
    BY <1>1, <2>1, <2>2 DEF IInv, Requested, MaxPages, Branch, NextDay, DayOf, BoundaryEnd
<1>4. PagesCounted' /\ PartsFit'
  BY <1>1, Stay DEF IInv, PagesCounted, PartsFit
<1>5. WindowCoversRequest' /\ NothingMissed' /\ ExcessBounded'
  BY <1>1, Stay DEF IInv, WindowCoversRequest, NothingMissed, ExcessBounded
<1>6. QED
  BY <1>2, <1>3, <1>4, <1>5 DEF IInv

\* The log when it is used, once the window is known.
LEMMA UseWindow ==
    ASSUME TypeOK, Requested, Use, clock \notin log, window # None
    PROVE  /\ InWindow' = InWindow
           /\ Cardinality(SinceRequest') = Cardinality(SinceRequest) + 1
           /\ Cardinality(InWindow) \in Nat /\ Cardinality(SinceRequest) \in Nat
<1>1. log' = log \cup {clock} /\ window' = window /\ window.endAt <= clock
      /\ window.endAt \in Nat /\ clock \in Nat
  BY Constants DEF Use, request, Requested, TypeOK
<1>2. InWindow' = InWindow
  BY <1>1 DEF InWindow
<1>3. SinceRequest' = SinceRequest \cup {clock} /\ clock \notin SinceRequest
  BY <1>1 DEF SinceRequest
<1>4. InWindow \in SUBSET log /\ SinceRequest \in SUBSET log
  BY DEF InWindow, SinceRequest
<1>5. IsFiniteSet(SinceRequest) /\ Cardinality(InWindow) \in Nat /\ Cardinality(SinceRequest) \in Nat
  BY <1>4, LogFinite
<1>6. Cardinality(SinceRequest \cup {clock}) = Cardinality(SinceRequest) + 1
  BY <1>3, <1>5, FS_AddElement
<1>7. QED
  BY <1>2, <1>3, <1>5, <1>6

\* While the boundary is read, a record that comes in is not part of it.
LEMMA UseReading ==
    ASSUME Reading, Use, clock \notin log, window # None
    PROVE  /\ Bound' = Bound
           /\ \/ Today' = Today /\ Late' = Late
              \/ /\ Today' = Today \cup {clock}
                 /\ Late' = Late \cup {clock} /\ clock \notin Late
           /\ \A t \in Bound : t < clock
           /\ clock \in Nat
<1>1. /\ log' = log \cup {clock} /\ UNCHANGED <<window, branch>> /\ window.endAt <= clock
      /\ window.endAt \in Nat /\ clock \in Nat
  BY Constants DEF Use, request, Requested, TypeOK, Reading, Known
<1>2. From' = From /\ To' = To
  BY <1>1 DEF From, To, BoundaryEnd, NextDay, DayOf
<1>3. From \in Int /\ To \in Int /\ To <= window.endAt
  BY TodayIs DEF Reading
<1>4. Bound' = Bound
  BY <1>1, <1>2, <1>3 DEF Bound
<1>5. Today' = Today \/ Today' = Today \cup {clock}
  BY <1>1, <1>2 DEF Today, DayOf
<1>6. clock \notin Late /\ (Today' = Today => Late' = Late)
      /\ (Today' = Today \cup {clock} => Late' = Late \cup {clock})
  BY <1>1 DEF Late, Today
<1>7. \A t \in Bound : t < clock
  <2>1. ASSUME NEW t \in Bound PROVE t < clock
    <3>1. t \in Int /\ t < To
      BY LogFinite DEF Bound, Reading, Known
    <3>2. QED
      BY <1>1, <1>3, <3>1
  <2>2. QED
    BY <2>1
<1>8. QED
  BY <1>1, <1>4, <1>5, <1>6, <1>7

LEMMA UseCounted ==
    ASSUME IInv, Use, clock \notin log
    PROVE  PagesCounted'
<1> SUFFICES ASSUME pc = "paging"
             PROVE  PagesCounted'
  BY DEF PagesCounted, Use, request
<1> DEFINE k == (page - 1) * pageSize
<1>1. Reading /\ window # None
  BY Constants DEF IInv, Requested, Reading, Known, TypeOK
<1>2. k \in Nat
  BY <1>1, PageIs
<1>3. /\ Bound' = Bound
      /\ \/ Today' = Today /\ Late' = Late
         \/ /\ Today' = Today \cup {clock}
            /\ Late' = Late \cup {clock} /\ clock \notin Late
      /\ \A t \in Bound : t < clock
      /\ clock \in Nat
  BY <1>1, UseReading
<1>4. UNCHANGED <<pc, branch, page, pageSize, count>> /\ count \in Nat
  BY DEF Use, request, IInv, TypeOK
<1>5. PICK F : F = First(k)
  OBVIOUS
<1>6. PICK G : G = First(k)'
  OBVIOUS
<1>7. F = Within(Today, Bound, branch, k)
  BY <1>5 DEF First
<1>8. G = Within(Today', Bound, branch, k)
  BY <1>3, <1>4, <1>6 DEF First, Within, Place, Before
<1>9. /\ IsFiniteSet(Late) /\ Cardinality(Late) \in Nat
      /\ Bound \in SUBSET Today /\ Today \in SUBSET Nat /\ IsFiniteSet(Today)
  <2>1. Late \in SUBSET log
    BY DEF Late, Today
  <2>2. IsFiniteSet(Late) /\ Cardinality(Late) \in Nat
    BY <2>1, LogFinite DEF IInv
  <2>3. QED
    BY <1>1, <2>2, TodayFinite, TodayIs DEF Reading
<1>10. Cardinality(F) <= count
       /\ count <= Cardinality(F) + IF branch = "suffix" THEN Cardinality(Late) ELSE 0
  BY <1>5 DEF IInv, PagesCounted
<1>11. CASE Today' = Today /\ Late' = Late
  <2>1. G = F
    BY <1>7, <1>8, <1>11
  <2>2. QED
    BY <1>4, <1>6, <1>10, <1>11, <2>1 DEF PagesCounted
<1>12. CASE Today' = Today \cup {clock} /\ Late' = Late \cup {clock} /\ clock \notin Late
  <2>1. G = Within(Today \cup {clock}, Bound, branch, k)
    BY <1>8, <1>12
  <2> HIDE DEF k
  <2>2. /\ Cardinality(F) \in Nat /\ Cardinality(G) \in Nat
        /\ Cardinality(G) <= Cardinality(F)
        /\ Cardinality(F) <= Cardinality(G) + 1
        /\ branch = "prefix" /\ (\A t \in Bound : t < clock) => F = G
    <3>1. PICK S \in SUBSET Nat : S = Today /\ IsFiniteSet(S)
      BY <1>9
    <3>2. PICK B \in SUBSET S : B = Bound
      BY <1>9, <3>1
    <3>3. PICK x \in Nat : x = clock
      BY <1>3
    <3>4. PICK b : b = branch
      OBVIOUS
    <3>5. PICK j \in Nat : j = k
      BY <1>2
    <3>6. F = Within(S, B, b, j)
      BY <1>7, <3>1, <3>2, <3>4, <3>5
    <3>7. G = Within(S \cup {x}, B, b, j)
      BY <2>1, <3>1, <3>2, <3>3, <3>4, <3>5
    <3>8. /\ Cardinality(F) \in Nat /\ Cardinality(G) \in Nat
          /\ Cardinality(G) <= Cardinality(F)
          /\ Cardinality(F) <= Cardinality(G) + 1
          /\ b = "prefix" /\ (\A t \in B : t < x) => F = G
      BY <3>1, <3>6, <3>7, FirstShrinks
    <3>9. QED
      BY <3>2, <3>3, <3>4, <3>8
  <2>3. Cardinality(Late') = Cardinality(Late) + 1
    BY <1>9, <1>12, FS_AddElement
  <2>4. branch \in {"prefix", "suffix"}
    BY <1>1 DEF Reading, Known, TypeOK
  <2>5. Cardinality(G) <= count
        /\ count <= Cardinality(G) + IF branch = "suffix" THEN Cardinality(Late') ELSE 0
    <3>1. CASE branch = "prefix"
      <4>1. Cardinality(F) = Cardinality(G)
        BY <1>3, <2>2, <3>1
      <4>2. QED
        BY <1>10, <3>1, <4>1
    <3>2. CASE branch = "suffix"
      BY <1>4, <1>9, <1>10, <2>2, <2>3, <3>2
    <3>3. QED
      BY <2>4, <3>1, <3>2
  <2>6. k = ((page - 1) * pageSize)'
    BY <1>4 DEF k
  <2>7. QED
    BY <1>4, <1>6, <2>5, <2>6 DEF PagesCounted, k
<1>13. QED
  BY <1>3, <1>11, <1>12

LEMMA UseParts ==
    ASSUME IInv, Use, clock \notin log
    PROVE  PartsFit'
<1> SUFFICES ASSUME pc = "paging"
             PROVE  PartsFit'
  BY DEF PartsFit, Use, request
<1>1. Reading /\ window # None
  BY Constants DEF IInv, Requested, Reading, Known, TypeOK
<1>2. UNCHANGED <<pc, branch, force, total>> /\ total \in Nat
  BY DEF Use, request, IInv, TypeOK
<1>3. /\ InWindow' = InWindow
      /\ Cardinality(SinceRequest') = Cardinality(SinceRequest) + 1
      /\ Cardinality(InWindow) \in Nat /\ Cardinality(SinceRequest) \in Nat
  BY <1>1, UseWindow DEF IInv
<1>4. Bound' = Bound /\ (Late' = Late \/ (Late' = Late \cup {clock} /\ clock \notin Late))
  BY <1>1, UseReading
<1>5. IsFiniteSet(Late) /\ Cardinality(Late) \in Nat /\ Cardinality(Bound) \in Nat
  <2>1. Late \in SUBSET log /\ Bound \in SUBSET log
    BY DEF Late, Today, Bound
  <2>2. QED
    BY <2>1, LogFinite DEF IInv
<1>6. Cardinality(Late') = Cardinality(Late) \/ Cardinality(Late') = Cardinality(Late) + 1
  BY <1>4, <1>5, FS_AddElement
<1>7. Cardinality(InWindow') = Cardinality(InWindow) /\ Cardinality(Bound') = Cardinality(Bound)
  BY <1>3, <1>4
<1>8. PICK w \in Nat : w = Cardinality(InWindow)
  BY <1>3
<1>9. PICK n \in Nat : n = Cardinality(SinceRequest)
  BY <1>3
<1>10. PICK b \in Nat : b = Cardinality(Bound)
  BY <1>5
<1>11. PICK l \in Nat : l = Cardinality(Late)
  BY <1>5
<1>12. /\ branch = "prefix" => (force => w + b <= total) /\ total <= w + n + b
       /\ branch = "suffix" => (force => w <= total + b) /\ total + b + l <= w + n
  BY <1>8, <1>9, <1>10, <1>11 DEF IInv, PartsFit
<1>13. \A m \in {l, l + 1} :
           /\ branch = "prefix" => (force => w + b <= total) /\ total <= w + (n + 1) + b
           /\ branch = "suffix" => (force => w <= total + b) /\ total + b + m <= w + (n + 1)
  BY <1>2, <1>8, <1>9, <1>10, <1>11, <1>12
<1>14. QED
  BY <1>2, <1>3, <1>6, <1>7, <1>8, <1>9, <1>10, <1>11, <1>13 DEF PartsFit

(* The user's next request does not disturb a reading under way.           *)
LEMMA UseIInv == ASSUME IInv, Use PROVE IInv'
<1>1. UNCHANGED <<clock, progress, force, pc, window, branch, total, pageSize, page, count, result>>
  BY DEF Use, request
<1>2. log' = log \cup {clock} /\ clock \in 0..MaxClock
  BY DEF Use, IInv, TypeOK
<1>3. TypeOK'
  BY <1>1, <1>2 DEF IInv, TypeOK
<1>4. Requested'
  <2>1. log' \subseteq 0..clock'
    <3>1. clock \in Nat /\ log \subseteq 0..clock /\ clock \in 0..clock
      BY <1>2, Constants DEF IInv, Requested
    <3>2. QED
      BY <1>1, <1>2, <3>1
  <2>2. QED
    BY <1>1, <2>1 DEF IInv, Requested, MaxPages, Branch, NextDay, DayOf, BoundaryEnd
<1>5. CASE clock \in log
  <2>1. log' = log
    BY <1>2, <1>5
  <2>2. PagesCounted' /\ PartsFit'
    BY <1>1, <2>1, Stay DEF IInv, PagesCounted, PartsFit
  <2>3. WindowCoversRequest' /\ NothingMissed' /\ ExcessBounded'
    BY <1>1, <2>1, Stay DEF IInv, WindowCoversRequest, NothingMissed, ExcessBounded
  <2>4. QED
    BY <1>3, <1>4, <2>2, <2>3 DEF IInv
<1>6. CASE clock \notin log
  <2>1. PagesCounted' /\ PartsFit'
    BY <1>6, UseCounted, UseParts
  <2>2. WindowCoversRequest'
    BY <1>1 DEF IInv, WindowCoversRequest
  <2>3. NothingMissed' /\ ExcessBounded'
    <3>1. CASE window = None
      BY <1>1, <3>1 DEF NothingMissed, ExcessBounded
    <3>2. CASE window # None
      <4>1. /\ InWindow' = InWindow
            /\ Cardinality(SinceRequest') = Cardinality(SinceRequest) + 1
            /\ Cardinality(InWindow) \in Nat /\ Cardinality(SinceRequest) \in Nat
        BY <1>6, <3>2, UseWindow DEF IInv
      <4>2. NothingMissed'
        BY <1>1, <4>1 DEF IInv, NothingMissed
      <4>3. ExcessBounded'
        <5>1. ASSUME result \in Int
              PROVE  result <= Cardinality(InWindow) + (Cardinality(SinceRequest) + 1)
          <6>1. result <= Cardinality(InWindow) + Cardinality(SinceRequest)
            BY <3>2, <5>1 DEF IInv, ExcessBounded
          <6>2. QED
            BY <4>1, <5>1, <6>1
        <5>2. QED
          BY <1>1, <4>1, <5>1 DEF ExcessBounded
      <4>4. QED
        BY <4>2, <4>3
    <3>3. QED
      BY <3>1, <3>2
  <2>4. QED
    BY <1>3, <1>4, <2>1, <2>2, <2>3 DEF IInv
<1>7. QED
  BY <1>5, <1>6

(* Records of a day or later, and of days up to the last one.              *)
LEMMA WholeDays ==
    ASSUME Known, NEW t \in log
    PROVE  LET d == DayOf(window.startAt) IN
           /\ d <= DayOf(t) <=> DayStart <= t
           /\ d + 1 <= DayOf(t) <=> DayStart + Day <= t
           /\ t < window.endAt => DayOf(t) <= LastDay
           /\ LastDay \in Int /\ d \in Int /\ DayOf(t) \in Int /\ t \in Nat
<1>1. t \in Int /\ t \in Nat /\ Day \in Nat \ {0}
      /\ window.startAt \in Int /\ window.endAt \in Int
  BY LogFinite, Constants DEF Known
<1>2. PICK d \in Int : d = DayOf(window.startAt)
  BY <1>1, DayFacts
<1>3. DayStart = d * Day /\ (d + 1) * Day = DayStart + Day
  BY <1>1, <1>2 DEF DayStart
<1>4. d <= DayOf(t) <=> DayStart <= t
  BY <1>1, <1>3, DayAtLeast
<1>5. d + 1 <= DayOf(t) <=> DayStart + Day <= t
  <2>1. PICK e \in Int : e = d + 1
    OBVIOUS
  <2>2. e <= DayOf(t) <=> e * Day <= t
    BY <1>1, DayAtLeast
  <2>3. QED
    BY <1>3, <2>1, <2>2
<1>6. ASSUME t < window.endAt PROVE DayOf(t) <= LastDay
  <2>1. PICK q \in Int : q = DayOf(t)
    BY <1>1, DayFacts
  <2>2. PICK u \in Int : u = window.endAt - 1 /\ t <= u
    BY <1>1, <1>6
  <2>3. q * Day \in Int /\ q * Day <= t
    BY <1>1, <2>1, DayFacts
  <2>4. q <= DayOf(u) <=> q * Day <= u
    BY DayAtLeast
  <2>5. QED
    BY <1>1, <2>1, <2>2, <2>3, <2>4 DEF LastDay
<1>7. LastDay \in Int /\ DayOf(t) \in Int
  <2>1. PICK u \in Int : u = window.endAt - 1
    BY <1>1
  <2>2. QED
    BY <1>1, <2>1, DayFacts DEF LastDay
<1>8. QED
  BY <1>1, <1>2, <1>4, <1>5, <1>6, <1>7

(* Sets that make up another one, for counting.                            *)
LEMMA TwoParts ==
    ASSUME NEW S, NEW T, IsFiniteSet(S), IsFiniteSet(T), S \cap T = {}
    PROVE  /\ IsFiniteSet(S \cup T)
           /\ Cardinality(S) \in Nat /\ Cardinality(T) \in Nat
           /\ Cardinality(S \cup T) = Cardinality(S) + Cardinality(T)
<1>1. /\ IsFiniteSet(S \cup T)
      /\ Cardinality(S \cup T) = Cardinality(S) + Cardinality(T) - Cardinality(S \cap T)
  BY FS_Union
<1>2. Cardinality(S \cap T) = 0
  BY FS_EmptySet
<1>3. Cardinality(S) \in Nat /\ Cardinality(T) \in Nat
  BY FS_CardinalityType
<1>4. QED
  BY <1>1, <1>2, <1>3

\* The part of the first day that precedes the window.
Earlier == {t \in log : DayStart <= t /\ t < window.startAt}

\* What the aggregate that is taken at asOf holds.
Aggregated(asOf) == {t \in log : t <= asOf /\ DayOf(t) \in FirstDay..LastDay}

(* With the first day from its beginning: the window, what precedes it in  *)
(* that day, and perhaps some of what came later.                          *)
LEMMA AggregateWithPrefix ==
    ASSUME Known, branch # "suffix", NEW asOf \in Nat
    PROVE  /\ Cardinality(Aggregated(asOf)) \in Nat
           /\ Cardinality(Aggregated(asOf))
                <= Cardinality(InWindow) + Cardinality(SinceRequest) + Cardinality(Earlier)
           /\ asOf = clock =>
                Cardinality(InWindow) + Cardinality(Earlier) <= Cardinality(Aggregated(asOf))
<1>1. PICK A : A = Aggregated(asOf)
  OBVIOUS
<1>2. PICK P : P = Earlier
  OBVIOUS
<1>3. PICK d \in Int : d = DayOf(window.startAt)
  BY DayFacts DEF Known
<1>4. FirstDay = d
  BY <1>3 DEF FirstDay
<1>5. /\ A \in SUBSET log /\ P \in SUBSET log
      /\ InWindow \in SUBSET log /\ SinceRequest \in SUBSET log
  BY <1>2, <1>1 DEF Aggregated, InWindow, SinceRequest, Earlier
<1>6. /\ IsFiniteSet(A) /\ IsFiniteSet(P) /\ IsFiniteSet(InWindow) /\ IsFiniteSet(SinceRequest)
      /\ Cardinality(A) \in Nat /\ Cardinality(P) \in Nat
      /\ Cardinality(InWindow) \in Nat /\ Cardinality(SinceRequest) \in Nat
  BY <1>5, LogFinite DEF Known
<1>7. /\ window.startAt \in Int /\ window.endAt \in Int /\ window.startAt < window.endAt
      /\ DayStart \in Int /\ DayStart <= window.startAt
  BY Boundary DEF Known
<1>8. \A t \in log : t \in A <=> t <= asOf /\ DayStart <= t /\ DayOf(t) <= LastDay
  <2>1. ASSUME NEW t \in log
        PROVE  t \in A <=> t <= asOf /\ DayStart <= t /\ DayOf(t) <= LastDay
    <3>1. t \in A <=> t <= asOf /\ DayOf(t) \in d..LastDay
      BY <1>1, <1>4 DEF Aggregated
    <3>2. d <= DayOf(t) <=> DayStart <= t
      BY <1>3, WholeDays
    <3>3. DayOf(t) \in Int /\ LastDay \in Int
      BY WholeDays
    <3>4. DayOf(t) \in d..LastDay <=> d <= DayOf(t) /\ DayOf(t) <= LastDay
      BY <1>3, <3>3
    <3>5. QED
      BY <3>1, <3>2, <3>4
  <2>2. QED
    BY <2>1
<1>9. log \subseteq Nat
  BY LogFinite DEF Known
<1>10. A \subseteq (InWindow \cup SinceRequest) \cup P
  <2>1. ASSUME NEW t \in A
        PROVE  t \in InWindow \/ t \in SinceRequest \/ t \in P
    <3>1. t \in log /\ t \in Nat /\ DayStart <= t
      BY <1>5, <1>8, <1>9
    <3>2. QED
      BY <1>2, <1>7, <3>1 DEF InWindow, SinceRequest, Earlier
  <2>2. QED
    BY <2>1
<1>11. InWindow \cap SinceRequest = {} /\ (InWindow \cup SinceRequest) \cap P = {}
  <2>1. ASSUME NEW t \in log
        PROVE  /\ ~(t \in InWindow /\ t \in SinceRequest)
               /\ ~((t \in InWindow \/ t \in SinceRequest) /\ t \in P)
    <3>1. t \in Nat
      BY <1>9
    <3>2. /\ t \in InWindow => window.startAt <= t /\ t < window.endAt
          /\ t \in SinceRequest => window.endAt <= t
          /\ t \in P => t < window.startAt
      BY <1>2, <1>7, <3>1 DEF InWindow, SinceRequest, Earlier
    <3>3. QED
      BY <1>7, <3>1, <3>2
  <2>2. QED
    BY <1>5, <2>1
<1>12. /\ IsFiniteSet((InWindow \cup SinceRequest) \cup P)
       /\ Cardinality((InWindow \cup SinceRequest) \cup P)
            = Cardinality(InWindow) + Cardinality(SinceRequest) + Cardinality(P)
  <2>1. PICK U : U = InWindow \cup SinceRequest
    OBVIOUS
  <2>2. IsFiniteSet(U) /\ Cardinality(U) = Cardinality(InWindow) + Cardinality(SinceRequest)
    BY <1>6, <1>11, <2>1, TwoParts
  <2>3. IsFiniteSet(U \cup P) /\ Cardinality(U \cup P) = Cardinality(U) + Cardinality(P)
    BY <1>6, <1>11, <2>1, <2>2, TwoParts
  <2>4. QED
    BY <2>1, <2>2, <2>3
<1>13. Cardinality(A) <= Cardinality(InWindow) + Cardinality(SinceRequest) + Cardinality(P)
  BY <1>10, <1>12, FS_Subset
<1>14. ASSUME asOf = clock
       PROVE  Cardinality(InWindow) + Cardinality(P) <= Cardinality(A)
  <2>1. InWindow \cup P \subseteq A
    <3>1. ASSUME NEW t \in InWindow \cup P
          PROVE  t \in A
      <4>1. t \in log /\ t \in Nat /\ DayStart <= t /\ t < window.endAt
        BY <1>2, <1>5, <1>7, <1>9 DEF InWindow, Earlier
      <4>2. t <= clock
        BY <4>1, Constants DEF Known, Requested, TypeOK
      <4>3. DayOf(t) <= LastDay
        BY <4>1, WholeDays
      <4>4. QED
        BY <1>8, <1>14, <4>1, <4>2, <4>3
    <3>2. QED
      BY <3>1
  <2>2. Cardinality(InWindow \cup P) = Cardinality(InWindow) + Cardinality(P)
    <3>1. InWindow \cap P = {}
      BY <1>11
    <3>2. QED
      BY <1>6, <3>1, TwoParts
  <2>3. Cardinality(InWindow \cup P) <= Cardinality(A)
    BY <1>6, <2>1, FS_Subset
  <2>4. QED
    BY <2>2, <2>3
<1>15. QED
  BY <1>2, <1>1, <1>6, <1>13, <1>14

(* From the second day on: with the boundary it makes up the window, and   *)
(* perhaps some of what came later; the first day is over.                 *)
LEMMA AggregateWithSuffix ==
    ASSUME Known, branch = "suffix", NextDay(window.startAt) < window.endAt, NEW asOf \in Nat
    PROVE  /\ Cardinality(Aggregated(asOf)) \in Nat
           /\ Cardinality(Aggregated(asOf)) + Cardinality(Bound) + Cardinality(Late)
                <= Cardinality(InWindow) + Cardinality(SinceRequest)
           /\ asOf = clock =>
                Cardinality(InWindow) <= Cardinality(Aggregated(asOf)) + Cardinality(Bound)
<1>1. PICK A : A = Aggregated(asOf)
  OBVIOUS
<1>2. PICK d \in Int : d = DayOf(window.startAt)
  BY DayFacts DEF Known
<1>3. FirstDay = d + 1
  BY <1>2 DEF FirstDay
<1>4. /\ A \in SUBSET log /\ Bound \in SUBSET log
      /\ InWindow \in SUBSET log /\ SinceRequest \in SUBSET log
  BY <1>1 DEF Aggregated, InWindow, SinceRequest, Bound
<1>5. /\ IsFiniteSet(A) /\ IsFiniteSet(Bound) /\ IsFiniteSet(InWindow) /\ IsFiniteSet(SinceRequest)
      /\ Cardinality(A) \in Nat /\ Cardinality(Bound) \in Nat
      /\ Cardinality(InWindow) \in Nat /\ Cardinality(SinceRequest) \in Nat
  BY <1>4, LogFinite DEF Known
<1>6. /\ window.startAt \in Int /\ window.endAt \in Int /\ window.startAt < window.endAt
      /\ DayStart \in Int /\ DayStart <= window.startAt /\ Day \in Nat
      /\ DayStart + Day < window.endAt /\ window.startAt < DayStart + Day
      /\ From = window.startAt /\ To = DayStart + Day
  BY Boundary, Constants DEF Known
<1>7. \A t \in log : t \in A <=> t <= asOf /\ DayStart + Day <= t /\ DayOf(t) <= LastDay
  <2>1. ASSUME NEW t \in log
        PROVE  t \in A <=> t <= asOf /\ DayStart + Day <= t /\ DayOf(t) <= LastDay
    <3>1. t \in A <=> t <= asOf /\ DayOf(t) \in d + 1..LastDay
      BY <1>1, <1>3 DEF Aggregated
    <3>2. d + 1 <= DayOf(t) <=> DayStart + Day <= t
      BY <1>2, WholeDays
    <3>3. DayOf(t) \in Int /\ LastDay \in Int
      BY WholeDays
    <3>4. DayOf(t) \in d + 1..LastDay <=> d + 1 <= DayOf(t) /\ DayOf(t) <= LastDay
      BY <1>2, <3>3
    <3>5. QED
      BY <3>1, <3>2, <3>4
  <2>2. QED
    BY <2>1
<1>8. log \subseteq Nat
  BY LogFinite DEF Known
<1>9. Late = {}
  <2>1. ASSUME NEW t \in Late
        PROVE  FALSE
    <3>1. t \in Today /\ window.endAt <= t /\ branch # "exact"
      BY DEF Late
    <3>2. t \in log /\ t < DayStart + Day
      BY <3>1, TodayIs
    <3>3. t \in Nat
      BY <1>8, <3>2
    <3>4. QED
      BY <1>6, <3>1, <3>2, <3>3
  <2>2. QED
    BY <2>1
<1>10. \A t \in log : t \in Bound <=> window.startAt <= t /\ t < DayStart + Day
  BY <1>6 DEF Bound
<1>11. A \cap Bound = {} /\ InWindow \cap SinceRequest = {}
  <2>1. ASSUME NEW t \in log
        PROVE  /\ ~(t \in A /\ t \in Bound)
               /\ ~(t \in InWindow /\ t \in SinceRequest)
    <3>1. t \in Nat
      BY <1>8
    <3>2. /\ t \in InWindow => t < window.endAt
          /\ t \in SinceRequest => window.endAt <= t
      BY <1>6, <3>1 DEF InWindow, SinceRequest
    <3>3. QED
      BY <1>6, <1>7, <1>10, <3>1, <3>2
  <2>2. QED
    BY <1>4, <2>1
<1>12. A \cup Bound \subseteq InWindow \cup SinceRequest
  <2>1. ASSUME NEW t \in A \cup Bound
        PROVE  t \in InWindow \/ t \in SinceRequest
    <3>1. t \in log /\ t \in Nat /\ window.startAt <= t
      BY <1>4, <1>6, <1>7, <1>8, <1>10
    <3>2. QED
      BY <1>6, <3>1 DEF InWindow, SinceRequest
  <2>2. QED
    BY <2>1
<1>13. /\ Cardinality(A \cup Bound) = Cardinality(A) + Cardinality(Bound)
       /\ IsFiniteSet(A \cup Bound)
       /\ Cardinality(InWindow \cup SinceRequest) = Cardinality(InWindow) + Cardinality(SinceRequest)
       /\ IsFiniteSet(InWindow \cup SinceRequest)
  BY <1>5, <1>11, TwoParts
<1>14. Cardinality(A) + Cardinality(Bound) <= Cardinality(InWindow) + Cardinality(SinceRequest)
  BY <1>12, <1>13, FS_Subset
<1>15. ASSUME asOf = clock
       PROVE  Cardinality(InWindow) <= Cardinality(A) + Cardinality(Bound)
  <2>1. InWindow \subseteq A \cup Bound
    <3>1. ASSUME NEW t \in InWindow, t \notin Bound
          PROVE  t \in A
      <4>1. t \in log /\ t \in Nat /\ window.startAt <= t /\ t < window.endAt
        BY <1>4, <1>8 DEF InWindow
      <4>2. DayStart + Day <= t
        BY <1>6, <1>10, <3>1, <4>1
      <4>3. t <= clock
        BY <4>1, Constants DEF Known, Requested, TypeOK
      <4>4. DayOf(t) <= LastDay
        BY <4>1, WholeDays
      <4>5. QED
        BY <1>7, <1>15, <4>1, <4>2, <4>3, <4>4
    <3>2. QED
      BY <3>1
  <2>2. QED
    BY <1>13, <2>1, FS_Subset
<1>16. Cardinality(Late) = 0
  BY <1>9, FS_EmptySet
<1>17. QED
  BY <1>1, <1>5, <1>14, <1>15, <1>16

-----------------------------------------------------------------------------
(* The steps of the request.                                               *)

(* Nothing lies on the first no places.                                    *)
LEMMA NothingRead ==
    ASSUME Reading
    PROVE  Cardinality(First(0)) = 0 /\ Cardinality(Late) \in Nat
<1>1. \A t \in Bound : Place(Today, branch, t) \in Nat /\ 1 <= Place(Today, branch, t)
  BY TodayIs, TodayFinite, PlaceType DEF Reading
<1>2. First(0) = {}
  BY <1>1 DEF First, Within
<1>3. Late \in SUBSET log
  BY DEF Late, Today
<1>4. QED
  BY <1>2, <1>3, FS_EmptySet, LogFinite DEF Reading, Known

(* A window that ends in its first day is all boundary.                    *)
LEMMA ShortSuffix ==
    Known /\ branch = "suffix" /\ window.endAt <= NextDay(window.startAt)
          /\ page = 1 /\ count = 0 /\ total = 0
        => PagesCounted /\ PartsFit
<1> SUFFICES ASSUME Known, branch = "suffix", window.endAt <= NextDay(window.startAt),
                    page = 1, count = 0, total = 0
             PROVE  PagesCounted /\ PartsFit
  OBVIOUS
<1>1. Reading
  BY DEF Reading
<1>2. (page - 1) * pageSize = 0
  BY <1>1, PageIs
<1>3. PagesCounted
  BY <1>1, <1>2, NothingRead DEF PagesCounted
<1>4. /\ window.startAt \in Int /\ window.endAt \in Int /\ DayStart + Day \in Int
      /\ From = window.startAt /\ To = window.endAt
  <2>1. /\ window.startAt \in Int /\ window.endAt \in Int
        /\ DayStart \in Int /\ Day \in Int /\ window.endAt <= DayStart + Day
        /\ From = window.startAt
        /\ To = IF window.endAt < DayStart + Day THEN window.endAt ELSE DayStart + Day
    BY Boundary, Constants DEF Known
  <2>2. QED
    BY <2>1
<1>5. Bound = InWindow
  BY <1>4 DEF Bound, InWindow
<1>6. Late \subseteq SinceRequest /\ SinceRequest \in SUBSET log /\ InWindow \in SUBSET log
  BY DEF Late, Today, SinceRequest, InWindow
<1>7. /\ IsFiniteSet(SinceRequest) /\ Cardinality(SinceRequest) \in Nat
      /\ Cardinality(InWindow) \in Nat
  BY <1>6, LogFinite DEF Known
<1>8. Cardinality(Late) <= Cardinality(SinceRequest) /\ Cardinality(Late) \in Nat
  BY <1>1, <1>6, <1>7, FS_Subset, NothingRead
<1>9. Cardinality(Bound) = Cardinality(InWindow)
  BY <1>5
<1>10. PartsFit
  BY <1>7, <1>8, <1>9 DEF PartsFit
<1>11. QED
  BY <1>3, <1>10

LEMMA CoveredStays == IInv /\ [Next]_vars => WindowCoversRequest'
<1>1. IInv => Covered
  BY DEF IInv, Covered, ClockOK, WindowOK, TypeOK
<1>2. QED
  BY <1>1, NextCovered DEF Covered

(* Resolving the window.                                                   *)
LEMMA ResolveIInv == ASSUME IInv, Resolve PROVE IInv'
<1> DEFINE reset == ActiveReset(progress, clock)
           w == [startAt |-> reset - Duration, endAt |-> clock]
<1>1. WindowCoversRequest'
  BY CoveredStays DEF Next
<1>2. /\ UNCHANGED <<clock, log, progress, force, total, pageSize, page, count>>
      /\ pc = "resolve" /\ window = None /\ result = None
      /\ total = 0 /\ page = 1 /\ count = 0
      /\ clock \in Nat /\ log \subseteq 0..clock
  BY Constants DEF Resolve, sub2api, IInv, Requested, TypeOK
<1>3. page' <= MaxPages'
  BY <1>2 DEF MaxPages, IInv, Requested
<1>4. CASE reset = None
  <2>1. pc' = "done" /\ result' = NoWindow /\ window' = None /\ branch' = branch
    BY <1>2, <1>4 DEF Resolve, Finish
  <2>2. TypeOK'
    BY <1>2, <2>1 DEF IInv, TypeOK
  <2>3. Requested'
    BY <1>2, <1>3, <2>1 DEF Requested
  <2>4. QED
    BY <1>1, <2>1, <2>2, <2>3 DEF IInv, PagesCounted, PartsFit, NothingMissed, ExcessBounded
<1>5. CASE reset # None
  <2>1. PICK r \in Nat : r = reset
    BY <1>2, <1>5, ActiveResetAhead DEF IInv, TypeOK
  <2>2. window' = w /\ branch' = Branch(w)
    BY <1>5 DEF Resolve
  <2>3. w \in [startAt : Int, endAt : Nat]
    BY <1>2, <2>1, Constants
  <2>4. w.endAt = clock
    OBVIOUS
  <2> HIDE DEF w
  <2>5. branch' \in {"exact", "prefix", "suffix"}
    BY <2>2 DEF Branch
  <2>6. CASE w.endAt <= w.startAt
    <3>1. pc' = "done" /\ result' = 0
      BY <1>5, <2>6 DEF Resolve, Finish, w
    <3>2. TypeOK'
      BY <1>2, <2>2, <2>3, <2>5, <3>1 DEF IInv, TypeOK
    <3>3. Requested'
      BY <1>2, <1>3, <2>2, <2>3, <2>4, <3>1 DEF Requested
    <3>4. InWindow' = {}
      <4>1. ASSUME NEW t \in log
            PROVE  ~(w.startAt <= t /\ t < w.endAt)
        <5>1. t \in Int /\ w.startAt \in Int /\ w.endAt \in Int
          BY <1>2, <2>3
        <5>2. QED
          BY <2>6, <5>1
      <4>2. QED
        BY <1>2, <2>2, <4>1 DEF InWindow
    <3>5. Cardinality(InWindow') = 0
      BY <3>4, FS_EmptySet
    <3>6. Cardinality(SinceRequest') \in Nat
      <4>1. SinceRequest' \in SUBSET log
        BY <1>2 DEF SinceRequest
      <4>2. QED
        BY <4>1, LogFinite DEF IInv
    <3>7. NothingMissed' /\ ExcessBounded'
      BY <3>1, <3>5, <3>6 DEF NothingMissed, ExcessBounded
    <3>8. QED
      BY <1>1, <3>1, <3>2, <3>3, <3>7 DEF IInv, PagesCounted, PartsFit
  <2>7. CASE ~(w.endAt <= w.startAt)
    <3>1. /\ pc' = IF Branch(w) = "suffix" /\ w.endAt <= NextDay(w.startAt)
                   THEN "paging" ELSE "aggregate"
          /\ result' = None
      BY <1>2, <1>5, <2>7 DEF Resolve, w
    <3>2. TypeOK'
      BY <1>2, <2>2, <2>3, <2>5, <3>1 DEF IInv, TypeOK
    <3>3. w.startAt \in Int /\ w.endAt \in Int /\ w.startAt < w.endAt
      BY <2>3, <2>7
    <3>4. branch' = Branch(window)'
      BY <2>2 DEF Branch, NextDay, DayOf, BoundaryEnd
    <3>5. NextDay(window.startAt)' = NextDay(w.startAt) /\ NextDay(w.startAt) \in Int
      BY <2>2, <3>3, DayFacts DEF NextDay, DayOf
    <3>6. Requested'
      BY <1>2, <1>3, <2>2, <2>3, <2>4, <3>1, <3>3, <3>4, <3>5 DEF Requested
    <3>7. NothingMissed' /\ ExcessBounded'
      BY <3>1, Constants DEF NothingMissed, ExcessBounded
    <3>8. CASE pc' = "aggregate"
      BY <1>1, <3>2, <3>6, <3>7, <3>8 DEF IInv, PagesCounted, PartsFit
    <3>9. CASE pc' = "paging"
      <4>1. branch' = "suffix" /\ w.endAt <= NextDay(w.startAt)
        BY <2>2, <3>1, <3>9
      <4>2. Known'
        BY <2>2, <2>3, <3>2, <3>3, <3>4, <3>6 DEF Known
      <4>3. (window.endAt <= NextDay(window.startAt))'
        BY <2>2, <3>5, <4>1
      <4>4. (Known /\ branch = "suffix" /\ window.endAt <= NextDay(window.startAt)
                   /\ page = 1 /\ count = 0 /\ total = 0
                => PagesCounted /\ PartsFit)'
        BY ShortSuffix, PTL
      <4>5. PagesCounted' /\ PartsFit'
        BY <1>2, <4>1, <4>2, <4>3, <4>4
      <4>6. QED
        BY <1>1, <3>2, <3>6, <3>7, <4>5 DEF IInv
    <3>10. QED
      BY <3>1, <3>8, <3>9
  <2>8. QED
    BY <2>6, <2>7
<1>6. QED
  BY <1>4, <1>5

(* The request for whole days.                                             *)
LEMMA AggregateIInv == ASSUME IInv, Aggregate PROVE IInv'
<1>1. WindowCoversRequest'
  BY CoveredStays DEF Next
<1>2. /\ UNCHANGED <<clock, log, progress, force, window, branch, pageSize, page, count>>
      /\ pc = "aggregate" /\ result = None /\ page = 1 /\ count = 0 /\ force \in BOOLEAN
      /\ clock \in Nat
  BY Constants DEF Aggregate, sub2api, IInv, Requested, TypeOK
<1>3. Known
  BY <1>2 DEF IInv, Known, Requested
<1>4. CASE pc' = "done" /\ result' = Failed /\ total' = total
  <2>1. TypeOK'
    BY <1>2, <1>4 DEF IInv, TypeOK
  <2>2. Requested'
    BY <1>2, <1>4 DEF IInv, Requested, MaxPages
  <2>3. QED
    BY <1>1, <1>4, <2>1, <2>2, Constants
       DEF IInv, PagesCounted, PartsFit, NothingMissed, ExcessBounded
<1>5. ASSUME NEW asOf \in Nat, force => asOf = clock,
             total' = Cardinality(Aggregated(asOf)),
             IF branch = "exact" THEN pc' = "done" /\ result' = total'
                                 ELSE pc' = "paging" /\ result' = result
      PROVE  IInv'
  <2>1. total' \in Nat
    <3>1. Aggregated(asOf) \in SUBSET log
      BY DEF Aggregated
    <3>2. QED
      BY <1>3, <1>5, <3>1, LogFinite DEF Known
  <2>2. TypeOK'
    BY <1>2, <1>5, <2>1 DEF IInv, TypeOK
  <2>3. Requested'
    <3>1. UNCHANGED <<MaxPages, Branch(window)>>
      BY <1>2 DEF MaxPages, Branch, BoundaryEnd, NextDay, DayOf
    <3>2. QED
      BY <1>2, <1>5, <3>1 DEF IInv, Requested
  <2>4. /\ Bound' = Bound /\ Late' = Late
        /\ InWindow' = InWindow /\ SinceRequest' = SinceRequest
        /\ \A k : First(k)' = First(k)
    BY <1>2, Stay
  <2>5. PICK a \in Nat : a = total' /\ a = Cardinality(Aggregated(asOf))
    BY <1>5, <2>1
  <2>6. /\ InWindow \in SUBSET log /\ SinceRequest \in SUBSET log
        /\ Bound \in SUBSET log /\ Late \in SUBSET log
    BY DEF InWindow, SinceRequest, Bound, Late, Today
  <2>7. PICK w \in Nat : w = Cardinality(InWindow)
    BY <1>3, <2>6, LogFinite DEF Known
  <2>8. PICK n \in Nat : n = Cardinality(SinceRequest)
    BY <1>3, <2>6, LogFinite DEF Known
  <2>9. PICK b \in Nat : b = Cardinality(Bound)
    BY <1>3, <2>6, LogFinite DEF Known
  <2>10. PICK l \in Nat : l = Cardinality(Late)
    BY <1>3, <2>6, LogFinite DEF Known
  <2>11. CASE branch = "exact"
    <3>1. pc' = "done" /\ result' = a
      BY <1>5, <2>5, <2>11
    <3>2. Earlier = {}
      <4>1. DayStart = window.startAt /\ window.startAt \in Int /\ log \subseteq Nat
        BY <1>3, <2>11, Boundary, LogFinite DEF Known
      <4>2. ASSUME NEW t \in log
            PROVE  ~(DayStart <= t /\ t < window.startAt)
        <5>1. t \in Int
          BY <4>1
        <5>2. QED
          BY <4>1, <5>1
      <4>3. QED
        BY <4>2 DEF Earlier
    <3>3. Cardinality(Earlier) = 0
      BY <3>2, FS_EmptySet
    <3>4. a <= w + n /\ (force => w <= a)
      BY <1>3, <1>5, <2>5, <2>7, <2>8, <2>11, <3>3, AggregateWithPrefix
    <3>5. NothingMissed' /\ ExcessBounded'
      BY <1>2, <2>4, <2>5, <2>7, <2>8, <3>1, <3>4 DEF NothingMissed, ExcessBounded
    <3>6. QED
      BY <1>1, <2>2, <2>3, <3>1, <3>5 DEF IInv, PagesCounted, PartsFit
  <2>12. CASE branch # "exact"
    <3>1. pc' = "paging" /\ result' = None
      BY <1>2, <1>5, <2>12
    <3>2. NothingMissed' /\ ExcessBounded'
      BY <3>1, Constants DEF NothingMissed, ExcessBounded
    <3>3. Reading
      BY <1>3, <2>12 DEF Reading
    <3>4. PagesCounted'
      <4>1. (page - 1) * pageSize = 0
        BY <1>2, <3>3, PageIs
      <4>2. ((page - 1) * pageSize)' = 0
        BY <1>2, <4>1
      <4>3. Cardinality(First(0)) = 0
        BY <3>3, NothingRead
      <4>4. Cardinality(First((page - 1) * pageSize)') = 0
        BY <2>4, <4>2, <4>3 DEF First
      <4>5. Cardinality(Late') = l
        BY <2>4, <2>10
      <4>6. QED
        BY <1>2, <4>4, <4>5 DEF PagesCounted
    <3>5. PartsFit'
      <4>1. CASE branch = "prefix"
        <5>1. Bound = Earlier
          BY <1>3, <4>1, Boundary DEF Bound, Earlier
        <5>2. a <= w + n + b /\ (force => w + b <= a)
          BY <1>3, <1>5, <2>5, <2>7, <2>8, <2>9, <4>1, <5>1, AggregateWithPrefix
        <5>3. QED
          BY <1>2, <2>4, <2>5, <2>7, <2>8, <2>9, <4>1, <5>2 DEF PartsFit
      <4>2. CASE branch = "suffix"
        <5>1. NextDay(window.startAt) < window.endAt
          BY <1>2, <4>2 DEF IInv, Requested
        <5>2. a + b + l <= w + n /\ (force => w <= a + b)
          BY <1>3, <1>5, <2>5, <2>7, <2>8, <2>9, <2>10, <4>2, <5>1, AggregateWithSuffix
        <5>3. QED
          BY <1>2, <2>4, <2>5, <2>7, <2>8, <2>9, <2>10, <4>2, <5>2 DEF PartsFit
      <4>3. QED
        BY <1>3, <2>12, <4>1, <4>2 DEF Known, TypeOK
    <3>6. QED
      BY <1>1, <2>2, <2>3, <3>2, <3>4, <3>5 DEF IInv
  <2>13. QED
    BY <2>11, <2>12
<1>6. QED
  <2>1. CASE Finish(Failed) /\ UNCHANGED total
    BY <1>4, <2>1 DEF Finish
  <2>2. CASE \E asOf \in {clock} \cup IF force THEN {} ELSE 0..clock :
               /\ total' = Cardinality({t \in log : t <= asOf /\ DayOf(t) \in FirstDay..LastDay})
               /\ IF branch = "exact" THEN Finish(total')
                                      ELSE pc' = "paging" /\ UNCHANGED result
    <3>1. PICK asOf \in {clock} \cup IF force THEN {} ELSE 0..clock :
               /\ total' = Cardinality({t \in log : t <= asOf /\ DayOf(t) \in FirstDay..LastDay})
               /\ IF branch = "exact" THEN Finish(total')
                                      ELSE pc' = "paging" /\ UNCHANGED result
      BY <2>2
    <3>2. asOf \in Nat /\ (force => asOf = clock)
      BY <1>2, <3>1
    <3>3. total' = Cardinality(Aggregated(asOf))
      BY <3>1 DEF Aggregated
    <3>4. IF branch = "exact" THEN pc' = "done" /\ result' = total'
                              ELSE pc' = "paging" /\ result' = result
      BY <3>1 DEF Finish
    <3>5. QED
      BY <1>5, <3>2, <3>3, <3>4
  <2>3. QED
    BY <2>1, <2>2 DEF Aggregate

(* The next page, or the first one of another attempt.                     *)
LEMMA ReadIInv == ASSUME IInv, ReadPage PROVE IInv'
<1>1. WindowCoversRequest'
  BY CoveredStays DEF Next
<1>2. /\ UNCHANGED <<clock, log, progress, force, window, branch, total>>
      /\ pc = "paging" /\ result = None /\ total \in Nat /\ count \in Nat
      /\ page \in Nat \ {0} /\ pageSize \in Nat \ {0} /\ pageSize \in 1..FirstPageSize
      /\ FirstPageSize \in Nat /\ force \in BOOLEAN
  BY Constants DEF ReadPage, sub2api, IInv, Requested, TypeOK
<1>3. Known /\ Reading /\ branch \in {"prefix", "suffix"}
  BY <1>2 DEF IInv, Known, Reading, Requested, TypeOK
<1>4. /\ Bound' = Bound /\ Late' = Late
      /\ InWindow' = InWindow /\ SinceRequest' = SinceRequest
      /\ \A k : First(k)' = First(k)
  BY <1>2, Stay
<1>5. UNCHANGED Branch(window)
  BY <1>2 DEF Branch, BoundaryEnd, NextDay, DayOf
<1>6. PICK l \in Nat : l = Cardinality(Late)
  BY <1>3, NothingRead
\* The request ends with x.
<1>7. ASSUME NEW x, Finish(x), pageSize' = pageSize, page' = page, count' \in Nat,
             x \in Nat \cup {Failed},
             x \in Nat => /\ force => Cardinality(InWindow) <= x
                          /\ x <= Cardinality(InWindow) + Cardinality(SinceRequest)
      PROVE  IInv'
  <2>1. pc' = "done" /\ result' = x
    BY <1>7 DEF Finish
  <2>2. TypeOK'
    BY <1>2, <1>7, <2>1 DEF IInv, TypeOK
  <2>3. Requested'
    BY <1>2, <1>7, <2>1 DEF IInv, Requested, MaxPages
  <2>4. x \in Int => x \in Nat
    BY <1>7, Constants
  <2>5. NothingMissed' /\ ExcessBounded'
    BY <1>2, <1>4, <1>7, <2>1, <2>4 DEF NothingMissed, ExcessBounded
  <2>6. QED
    BY <1>1, <2>1, <2>2, <2>3, <2>5 DEF IInv, PagesCounted, PartsFit
\* The reading goes on.
<1>8. ASSUME UNCHANGED <<pc, result>>, pageSize' \in 1..FirstPageSize, count' \in Nat,
             page' \in 1..MaxRecords, page' <= MaxPages', PagesCounted'
      PROVE  IInv'
  <2>1. TypeOK'
    BY <1>2, <1>8 DEF IInv, TypeOK
  <2>2. Requested'
    BY <1>2, <1>5, <1>8 DEF IInv, Requested
  <2>3. PartsFit'
    BY <1>2, <1>4, <1>8 DEF IInv, PartsFit
  <2>4. NothingMissed' /\ ExcessBounded'
    BY <1>2, <1>8, Constants DEF NothingMissed, ExcessBounded
  <2>5. QED
    BY <1>1, <1>8, <2>1, <2>2, <2>3, <2>4 DEF IInv
<1>9. CASE RetrySmaller
  <2>1. CASE pageSize = 1
    BY <1>2, <1>7, <1>9, <2>1, Constants DEF RetrySmaller
  <2>2. CASE pageSize # 1
    <3>1. /\ pageSize' = pageSize \div 2 /\ page' = 1 /\ count' = 0
          /\ UNCHANGED <<pc, result>>
      BY <1>9, <2>2 DEF RetrySmaller
    <3>2. PICK n \in Nat \ {0} : n = pageSize' /\ n <= pageSize
      BY <1>2, <2>2, <3>1
    <3>3. pageSize' \in 1..FirstPageSize
      BY <1>2, <3>2
    <3>4. page' \in 1..MaxRecords /\ page' <= MaxPages'
      <4>1. PICK m \in Nat : m = (MaxRecords + n - 1) \div n /\ 1 <= m /\ m <= MaxRecords
        BY PagesInRange
      <4>2. MaxPages' = m
        BY <3>2, <4>1 DEF MaxPages
      <4>3. QED
        BY <3>1, <4>1, <4>2, Constants
    <3>5. PagesCounted'
      <4>1. ((page - 1) * pageSize)' = 0
        BY <3>1, <3>2
      <4>2. Cardinality(First((page - 1) * pageSize)') = 0
        BY <1>3, <1>4, <4>1, NothingRead DEF First
      <4>3. QED
        BY <1>2, <1>4, <1>6, <3>1, <4>2 DEF PagesCounted
    <3>6. QED
      BY <1>8, <3>1, <3>3, <3>4, <3>5
  <2>3. QED
    BY <2>1, <2>2
<1>10. CASE ReadItems
  <2>1. PICK s \in Nat : s = Cardinality(First((page - 1) * pageSize))
    BY <1>3, PageCounts
  <2>2. PICK M : M = {t \in Items : From <= t /\ t < To}
    OBVIOUS
  <2>3. PICK v \in Nat : v = Cardinality(M)
    BY <1>3, <2>2, PageCounts
  <2>4. PICK c \in Nat : c = count' /\ c = count + v
    <3>1. count' = Counted
      BY <1>10 DEF ReadItems
    <3>2. Counted = count + v
      BY <2>2, <2>3 DEF Counted
    <3>3. QED
      BY <1>2, <2>3, <3>1, <3>2
  <2>5. PICK k \in Nat : k = page * pageSize
    BY <1>3, PageIs
  <2>6. PICK f \in Nat : f = Cardinality(First(k)) /\ f = s + v
    <3>1. Cardinality(First(page * pageSize)) =
              Cardinality(First((page - 1) * pageSize))
                + Cardinality({t \in Items : From <= t /\ t < To})
      BY <1>3, PageCounts
    <3>2. Cardinality(First(k)) = s + v
      BY <2>1, <2>2, <2>3, <2>5, <3>1
    <3>3. QED
      BY <3>2
  <2>7. f <= c /\ c <= f + IF branch = "suffix" THEN l ELSE 0
    <3>1. s <= count /\ count <= s + IF branch = "suffix" THEN l ELSE 0
      BY <1>2, <1>6, <2>1 DEF IInv, PagesCounted
    <3>2. CASE branch = "suffix"
      BY <1>2, <2>3, <2>4, <2>6, <3>1, <3>2
    <3>3. CASE branch # "suffix"
      BY <1>2, <2>3, <2>4, <2>6, <3>1, <3>3
    <3>4. QED
      BY <3>2, <3>3
  <2>8. pageSize' = pageSize
    BY <1>10 DEF ReadItems
  <2>9. CASE Complete
    <3>1. Finish(Combined(c)) /\ page' = page
      BY <1>10, <2>4, <2>9 DEF ReadItems
    <3>2. f = Cardinality(Bound)
      BY <1>3, <2>5, <2>6, <2>9, CompleteMeansRead
    <3>3. InWindow \in SUBSET log /\ SinceRequest \in SUBSET log
      BY DEF InWindow, SinceRequest
    <3>4. PICK w \in Nat : w = Cardinality(InWindow)
      BY <1>3, <3>3, LogFinite DEF Known
    <3>5. PICK n \in Nat : n = Cardinality(SinceRequest)
      BY <1>3, <3>3, LogFinite DEF Known
    <3>6. PICK x : x = Combined(c)
      OBVIOUS
    <3>7. /\ x \in Nat \cup {Failed}
          /\ x \in Nat => (force => w <= x) /\ x <= w + n
      <4>1. CASE branch = "prefix"
        <5>1. c = f
          BY <2>7, <4>1
        <5>2. (force => w + f <= total) /\ total <= w + n + f
          BY <1>2, <3>2, <3>4, <3>5, <4>1 DEF IInv, PartsFit
        <5>3. x = IF c > total THEN Failed ELSE total - c
          BY <3>6, <4>1 DEF Combined, Minus
        <5>4. QED
          BY <1>2, <5>1, <5>2, <5>3, Constants
      <4>2. CASE branch = "suffix"
        <5>1. f <= c /\ c <= f + l
          BY <2>7, <4>2
        <5>2. (force => w <= total + f) /\ total + f + l <= w + n
          BY <1>2, <1>6, <3>2, <3>4, <3>5, <4>2 DEF IInv, PartsFit
        <5>3. x = Failed \/ x = total + c
          BY <3>6, <4>2 DEF Combined, Plus
        <5>4. QED
          BY <1>2, <5>1, <5>2, <5>3, Constants
      <4>3. QED
        BY <1>3, <4>1, <4>2
    <3>8. QED
      BY <1>7, <2>4, <2>8, <3>1, <3>4, <3>5, <3>6, <3>7
  <2>10. CASE ~Complete /\ page = MaxPages
    <3>1. Finish(Failed) /\ page' = page
      BY <1>10, <2>10 DEF ReadItems
    <3>2. QED
      BY <1>7, <2>4, <2>8, <3>1, Constants
  <2>11. CASE ~Complete /\ page # MaxPages
    <3>1. page' = page + 1 /\ UNCHANGED <<pc, result>>
      BY <1>10, <2>11 DEF ReadItems
    <3>2. page' \in 1..MaxRecords /\ page' <= MaxPages'
      <4>1. PICK m \in Nat : m = (MaxRecords + pageSize - 1) \div pageSize /\ m <= MaxRecords
        BY <1>2, PagesInRange
      <4>2. MaxPages' = m /\ MaxPages = m
        BY <2>8, <4>1 DEF MaxPages
      <4>3. page <= m /\ page # m
        BY <2>11, <4>2 DEF IInv, Requested
      <4>4. QED
        BY <1>2, <3>1, <4>1, <4>2, <4>3, Constants
    <3>3. PagesCounted'
      <4>1. ((page - 1) * pageSize)' = k
        BY <1>2, <2>5, <2>8, <3>1
      <4>2. Cardinality(First((page - 1) * pageSize)') = f
        BY <1>4, <2>6, <4>1 DEF First
      <4>3. QED
        BY <1>2, <1>4, <1>6, <2>4, <2>7, <4>2 DEF PagesCounted
    <3>4. QED
      BY <1>2, <1>8, <2>4, <2>8, <3>1, <3>2, <3>3
  <2>12. QED
    BY <2>9, <2>10, <2>11
<1>11. CASE Finish(Failed) /\ UNCHANGED <<pageSize, page, count>>
  BY <1>2, <1>7, <1>11, Constants
<1>12. QED
  BY <1>9, <1>10, <1>11 DEF ReadPage

-----------------------------------------------------------------------------
(* The inductive invariant: how many records have been counted at any time *)
(* of a reading.                                                           *)
THEOREM Inductive == Spec => []IInv
<1>1. IInv /\ [Next]_vars => IInv'
  <2> SUFFICES ASSUME IInv, [Next]_vars PROVE IInv'
    OBVIOUS
  <2>1. CASE UNCHANGED vars
    <3>1. UNCHANGED <<clock, log, progress, force, pc, window, branch, total, pageSize, page,
                      count, result>>
      BY <2>1 DEF vars, sub2api, request
    <3>2. TypeOK' /\ WindowCoversRequest'
      BY <3>1 DEF IInv, TypeOK, WindowCoversRequest
    <3>3. Requested'
      BY <3>1 DEF IInv, Requested, MaxPages, Branch, NextDay, DayOf, BoundaryEnd
    <3>4. PagesCounted' /\ PartsFit' /\ NothingMissed' /\ ExcessBounded'
      BY <3>1, Stay DEF IInv, PagesCounted, PartsFit, NothingMissed, ExcessBounded
    <3>5. QED
      BY <3>2, <3>3, <3>4 DEF IInv
  <2>2. QED
    BY <2>1, TickIInv, UseIInv, ResolveIInv, AggregateIInv, ReadIInv DEF Next
<1>2. QED
  BY <1>1, InitIInv, PTL DEF Spec

(* Statistics are natural numbers or refused; no reading goes beyond the   *)
(* last page or tries a page size below one.                               *)
THEOREM TypeCorrect == Spec => []TypeOK
<1>1. IInv => TypeOK
  BY DEF IInv
<1>2. QED
  BY <1>1, Inductive, PTL

(* A refresh that succeeds misses none of the window's records, whichever  *)
(* side of the first day is read and however often pages shift or shrink.  *)
THEOREM AllCounted == Spec => []NothingMissed
<1>1. IInv => NothingMissed
  BY DEF IInv
<1>2. QED
  BY <1>1, Inductive, PTL

(* Statistics exceed the window's records by no more than the records that *)
(* have come since the request.                                            *)
THEOREM Bounded == Spec => []ExcessBounded
<1>1. IInv => ExcessBounded
  BY DEF IInv
<1>2. QED
  BY <1>1, Inductive, PTL

-----------------------------------------------------------------------------
(* How many requests for pages are still allowed: pages may be as many as  *)
(* records, and every retry has smaller ones.                              *)
RequestsLeft == pageSize * (MaxRecords + 1) - page

\* A step of a reading ends it or leaves fewer requests to make.
Nearer ==
    \/ pc' = "done"
    \/ pc' = "paging" /\ RequestsLeft' \in Nat /\ RequestsLeft' < RequestsLeft

LEMMA SmallerPages ==
    ASSUME NEW M \in Nat, NEW p \in Nat, NEW q \in Nat, 0 < q,
           NEW n \in 1..M, NEW o \in 1..M
    PROVE  /\ q * (M + 1) - o \in Nat
           /\ q < p => q * (M + 1) - o < p * (M + 1) - n
<1>1. PICK m \in Nat : m = M + 1
  OBVIOUS
<1>2. PICK d \in Nat : q = d + 1
  BY q = (q - 1) + 1, q - 1 \in Nat
<1>3. d * m \in Nat /\ q * m = d * m + m
  BY <1>1, <1>2
<1>4. q * m - o \in Nat
  BY <1>1, <1>3
<1>5. ASSUME q < p
      PROVE  q * m - o < p * m - n
  <2>1. PICK e \in Nat : p = q + 1 + e
    BY <1>5, p = q + 1 + (p - q - 1), p - q - 1 \in Nat
  <2>2. e * m \in Nat /\ p * m = q * m + m + e * m
    BY <1>1, <2>1
  <2>3. QED
    BY <1>1, <1>3, <2>2
<1>6. QED
  BY <1>1, <1>4, <1>5

LEMMA FewerLeft ==
    ASSUME TypeOK, TypeOK', ReadPage
    PROVE  Nearer
<1>1. /\ MaxRecords \in Nat \ {0} /\ FirstPageSize \in Nat
      /\ pageSize \in 1..FirstPageSize /\ pageSize' \in 1..FirstPageSize
      /\ page \in 1..MaxRecords /\ page' \in 1..MaxRecords
  BY UsageAssumption DEF TypeOK
<1>2. PICK p, q, n, o : p = pageSize /\ q = pageSize' /\ n = page /\ o = page'
  OBVIOUS
<1>3. /\ p \in Nat /\ q \in Nat /\ 0 < q
      /\ n \in 1..MaxRecords /\ o \in 1..MaxRecords
  BY <1>1, <1>2
<1>4. /\ q * (MaxRecords + 1) - o \in Nat
      /\ q < p => q * (MaxRecords + 1) - o < p * (MaxRecords + 1) - n
  BY <1>1, <1>3, SmallerPages
<1>5. /\ RequestsLeft = p * (MaxRecords + 1) - n
      /\ RequestsLeft' = q * (MaxRecords + 1) - o
  BY <1>2 DEF RequestsLeft
<1>6. RequestsLeft' \in Nat
  BY <1>4, <1>5
<1>7. CASE pc' = pc /\ pageSize' = pageSize \div 2 /\ page' = 1
  <2>1. q < p
    BY <1>2, <1>3, <1>7
  <2>2. QED
    BY <1>4, <1>5, <1>6, <1>7, <2>1 DEF ReadPage, Nearer
<1>8. CASE pc' = pc /\ pageSize' = pageSize /\ page' = page + 1
  <2>1. PICK z \in Int : z = p * (MaxRecords + 1)
    BY <1>1, <1>3
  <2>2. RequestsLeft = z - n /\ RequestsLeft' = z - (n + 1)
    BY <1>2, <1>5, <1>8, <2>1
  <2>3. z - (n + 1) < z - n
    BY <1>3, <2>1
  <2>4. QED
    BY <1>6, <1>8, <2>2, <2>3 DEF ReadPage, Nearer
<1>9. CASE pc' = "done"
  BY <1>9 DEF Nearer
<1>10. QED
  BY <1>7, <1>8, <1>9 DEF ReadPage, RetrySmaller, ReadItems, Finish

(* However fast the log grows and however often answers are too large,     *)
(* every step of a reading ends it or brings it nearer to an end: it makes *)
(* at most FirstPageSize * (MaxRecords + 1) requests. (That it ends, the   *)
(* requests being answered, is FetchEnds.)                                 *)
THEOREM ReadingShrinks == Spec => [][pc = "paging" => UNCHANGED request \/ Nearer]_vars
<1>1. ASSUME TypeOK, TypeOK', [Next]_vars, pc = "paging"
      PROVE  UNCHANGED request \/ Nearer
  BY <1>1, FewerLeft DEF Next, Tick, Use, Resolve, Aggregate, vars
<1>2. TypeOK /\ TypeOK' /\ [Next]_vars => [pc = "paging" => UNCHANGED request \/ Nearer]_vars
  BY <1>1
<1>3. QED
  BY <1>2, TypeCorrect, PTL DEF Spec

=============================================================================
