---------------------------- MODULE MCQuotaCache ----------------------------
(* An instance of QuotaCache for TLC: two readers of one account.          *)
EXTENDS QuotaCache

CONSTANTS r1, r2, a1, f1, f2

MCReader == {r1, r2}
MCAccount == {a1}
MCFlight == {f1, f2}

=============================================================================
