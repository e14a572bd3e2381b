--------------------------- MODULE MCDelayedEvents ---------------------------
(* Instances of DelayedEvents for TLC.                                     *)
EXTENDS DelayedEvents

CONSTANTS c1, c2
=============================================================================
