--------------------------- MODULE MCTimerManager ---------------------------
(* Instances of TimerManager for TLC: the .cfg files give the constants.   *)
EXTENDS TimerManager
=============================================================================
