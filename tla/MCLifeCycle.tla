---------------------------- MODULE MCLifeCycle ----------------------------
(* An instance of LifeCycle for TLC.                                       *)
EXTENDS LifeCycle

CONSTANTS r1, r2

MCRequest == {r1, r2}

=============================================================================
