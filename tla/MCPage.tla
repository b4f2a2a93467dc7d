------------------------------- MODULE MCPage -------------------------------
(* An instance of Page for TLC.                                            *)
EXTENDS Page, TLC

CONSTANTS a1, a2, c1, c2

MCAccount == {a1, a2}
MCClick == {c1, c2}
Symmetry == Permutations(MCAccount) \cup Permutations(MCClick)

=============================================================================
