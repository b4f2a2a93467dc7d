-------------------------- MODULE MCUserUsageCache --------------------------
(* An instance of UserUsageCache for TLC; liveness rules symmetry out.     *)
EXTENDS UserUsageCache

CONSTANTS r1, r2, k1, f1, f2

MCReader == {r1, r2}
MCKey == {k1}
MCFlight == {f1, f2}

=============================================================================
