--------------------------- MODULE MCUsageWindow ---------------------------
(* An instance of UsageWindow for TLC: a day is 6 ticks, the window 10; it *)
(* starts in the first, second or third day of the log.                    *)
EXTENDS UsageWindow

MCProgress ==
    [resetsAt : {11, 13, 14, 16, 19, 20, 21, 23, 30}, remaining : {None}]
        \cup [resetsAt : {None, 5}, remaining : {None, 0, 7, 20, 21}]
MCFirstTimes == {11, 12}
MCOldRecords == {1, 3, 4, 5, 9, 10}

SomeStats == [requests : {0, 9}, tokens : {0, 8, 9}, cost : {0, 2, 6}, quotaCost : {1, 5}]
SomeEntries ==
    [tokens : {<<0, 0, 1, 0>>, <<3, 3, 3, 1>>, <<1, 1, -1, 0>>}, totalCost : {-1, 2},
     actualCost : {0, 3, 7}, accountStatsCost : {None, 1}, rateMultiplier : {None, 0, 3}]

(* Records that are counted can be taken off again: what the two ways of   *)
(* counting the first day give agrees (costs up to the tolerance).         *)
ASSUME AddSubtract ==
    \A s \in SomeStats, e \in SomeEntries : LET d == Accumulate(Zero, e) IN
        d # Failed =>
            /\ Accumulate(s, e) = Add(s, d)
            /\ Add(s, d) # Failed => Subtract(Add(s, d), d) = s

(* An aggregate is taken as it is or not at all, and shares are            *)
(* percentages that grow with the user's part of the costs.                *)
ASSUME SharesInRange ==
    /\ \A a \in [requests : {-1, 1, None}, tokens : {0, None}, cost : {-1, 7, 2}, quotaCost : {3, 7}] :
          FromAggregate(a) \in {Failed} \cup (IF a \in Stats THEN {a} ELSE {})
    /\ \A u \in {-1, 0, 50, 120}, c \in {0, 1, 4}, s, t \in SomeStats :
          LET p == Share(u, c, s) IN
              p # None => p \in 0..100 /\ (s.quotaCost <= t.quotaCost => p <= Share(u, c, t))

=============================================================================
