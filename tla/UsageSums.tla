----------------------------- MODULE UsageSums -----------------------------
(***************************************************************************)
(* The sums of usage_window_stats.go: statistics are counted up record by  *)
(* record, a boundary is added to or subtracted from an aggregate, and     *)
(* whatever does not fit or does not make sense is refused as a whole.     *)
(* Amounts of money are whole numbers of some small unit here, and more    *)
(* than MaxAmount is not finite; rounding is left out.                     *)
(***************************************************************************)
EXTENDS Integers

CONSTANTS
    MaxInt,     \* the largest int64
    MaxAmount,  \* the largest finite float64
    Tolerance,  \* costTolerance
    None,       \* an absent field
    Failed      \* an *upstreamAPIError

ASSUME SumsAssumption ==
    /\ {MaxInt, MaxAmount, Tolerance} \subseteq Nat
    /\ {None, Failed} \cap Int = {}

\* userWindowStats
Stats == [requests : 0..MaxInt, tokens : 0..MaxInt,
          cost : 0..MaxAmount, quotaCost : 0..MaxAmount]
Zero == [requests |-> 0, tokens |-> 0, cost |-> 0, quotaCost |-> 0]

\* usageLogEntry, with four kinds of tokens.
Entry == [tokens : [1..4 -> Int], totalCost : Int, actualCost : Int,
          accountStatsCost : Int \cup {None}, rateMultiplier : Int \cup {None}]

\* isNonNegativeFinite
Finite(x) == 0 <= x /\ x <= MaxAmount

\* One round of addNonNegativeInt64.
Plus(total, value) ==
    IF total = Failed \/ value = Failed THEN Failed
    ELSE IF value < 0 \/ total > MaxInt - value THEN Failed
    ELSE total + value

\* addNonNegativeInt64 of the four kinds.
TokensOf(e) == Plus(Plus(Plus(Plus(0, e.tokens[1]), e.tokens[2]), e.tokens[3]), e.tokens[4])

AccountCost(e) == IF e.accountStatsCost = None THEN e.totalCost ELSE e.accountStatsCost
Multiplier(e) == IF e.rateMultiplier = None THEN 1 ELSE e.rateMultiplier

Accepted(stats) ==
    /\ stats.requests # Failed /\ stats.tokens # Failed
    /\ Finite(stats.cost) /\ Finite(stats.quotaCost)

\* accumulateUserUsage: the new sums, or Failed and nothing is counted.
Accumulate(stats, e) ==
    LET quota == AccountCost(e) * Multiplier(e)
        sum == [requests |-> Plus(stats.requests, 1),
                tokens |-> Plus(stats.tokens, TokensOf(e)),
                cost |-> stats.cost + e.actualCost,
                quotaCost |-> stats.quotaCost + quota]
    IN  IF /\ \A x \in {e.totalCost, e.actualCost, AccountCost(e), Multiplier(e), quota} : Finite(x)
           /\ Accepted(sum)
        THEN sum ELSE Failed

\* addUserWindowStats
Add(left, right) ==
    LET sum == [requests |-> Plus(left.requests, right.requests),
                tokens |-> Plus(left.tokens, right.tokens),
                cost |-> left.cost + right.cost,
                quotaCost |-> left.quotaCost + right.quotaCost]
    IN  IF Accepted(sum) THEN sum ELSE Failed

\* A difference of requests or tokens in subtractUserWindowStats.
Minus(total, excluded) == IF excluded > total THEN Failed ELSE total - excluded

\* A difference of costs: what is negative within the tolerance counts as 0.
CostMinus(total, excluded) ==
    IF excluded > total + Tolerance THEN Failed
    ELSE IF total < excluded THEN 0 ELSE total - excluded

\* subtractUserWindowStats
Subtract(total, excluded) ==
    LET rest == [requests |-> Minus(total.requests, excluded.requests),
                 tokens |-> Minus(total.tokens, excluded.tokens),
                 cost |-> CostMinus(total.cost, excluded.cost),
                 quotaCost |-> CostMinus(total.quotaCost, excluded.quotaCost)]
    IN  IF Failed \in {rest.requests, rest.tokens, rest.cost, rest.quotaCost}
        THEN Failed ELSE rest

\* toUserWindowStats, of an aggregate whose fields may be absent or negative.
FromAggregate(a) ==
    LET fields == {a.requests, a.tokens, a.cost, a.quotaCost}
    IN  IF None \in fields THEN Failed
        ELSE IF (\E x \in fields : x < 0) \/ ~Finite(a.cost) \/ ~Finite(a.quotaCost)
        THEN Failed ELSE a

\* enrichAccountUsageForUser: the user's estimated share of the account's
\* utilization, between 0 and 100, when there are costs to compare.
Share(utilization, accountCost, stats) ==
    LET share == (utilization * stats.quotaCost) \div accountCost
    IN  IF None \in {utilization, accountCost} THEN None
        ELSE IF accountCost <= 0 \/ utilization < 0 THEN None
        ELSE IF share > 100 THEN 100 ELSE share

=============================================================================
