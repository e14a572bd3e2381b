---------------------------- MODULE MCSharedWorld ---------------------------
EXTENDS SharedWorld
(* Two sessions and at most one other entity; the .cfg files give the      *)
(* constants.                                                              *)
=============================================================================
