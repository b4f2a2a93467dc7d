---------------------------- MODULE MCResetGuard ----------------------------
(* An instance of ResetGuard for TLC: two handlers and one worker task.    *)
EXTENDS ResetGuard

CONSTANTS m1, m2, w1, i1, i2, s1, s2

MCHandler == {m1, m2}
MCTask == {w1}
MCIdentity == {i1, i2}
MCState == {s1, s2}

=============================================================================
