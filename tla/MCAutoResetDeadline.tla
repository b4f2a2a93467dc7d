------------------------- MODULE MCAutoResetDeadline -------------------------
(* The instance in which no credit may lapse: its constants satisfy what   *)
(* the theorem NoLapse of AutoResetProofs asks for.                        *)
EXTENDS MCAutoReset

ASSUME DeadlineAssumption == Timely

=============================================================================
