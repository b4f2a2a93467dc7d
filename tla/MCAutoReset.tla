---------------------------- MODULE MCAutoReset -----------------------------
(* Instances of AutoReset for TLC. One tick stands for 2.5 minutes: Lead   *)
(* 10 min is 4, ScanInterval 15 min is 6, VerifyRetry 5 min is 2, the      *)
(* cache lifetimes 15 and 5 min are 6 and 2, ScanRetry and QuotaRetry      *)
(* 30 min are 12; PostReset 2 min and DedupWindow 1 min are rounded up to  *)
(* 1. RefreshInterval 6 h is shortened to 16, still longer than every      *)
(* other interval.                                                         *)
EXTENDS AutoReset

\* Two accounts of different identities, three credits.
TwoAccounts == {1, 2}
Apart == [a \in TwoAccounts |-> IF a = 1 THEN "i1" ELSE "i2"]
ThreeCredits == {"k1", "k2", "k3"}
OwnersApart == [k \in ThreeCredits |-> IF k = "k3" THEN "i2" ELSE "i1"]

\* Two accounts of one identity, two credits.
Together == [a \in TwoAccounts |-> "i1"]
TwoCredits == {"k1", "k2"}
OwnersTogether == [k \in TwoCredits |-> "i1"]

\* One account, one credit.
OneAccount == {1}
Alone == [a \in OneAccount |-> "i1"]
OneCredit == {"k1"}
OwnerAlone == [k \in OneCredit |-> "i1"]

=============================================================================
