--------------------------- MODULE MCEntityMovement ---------------------------
(* Instances of EntityMovement for TLC.                                    *)
EXTENDS EntityMovement

CONSTANTS c1, p1, p2
===============================================================================
