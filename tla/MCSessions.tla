----------------------------- MODULE MCSessions -----------------------------
EXTENDS Sessions
(* Two sessions, the characters of one pairing, bring up the shared list   *)
(* and the order of their updates; the .cfg files give the constants.      *)
=============================================================================
