---------------------------- MODULE MCDashboard ----------------------------
(* An instance of Dashboard for TLC.                                       *)
EXTENDS Dashboard

CONSTANTS d1, d2, a1, a2

MCRequest == {d1, d2}
MCAccount == {a1, a2}

=============================================================================
