--------------------------- MODULE MCReplayBuffer ---------------------------
(* Instances of ReplayBuffer for TLC.                                      *)
EXTENDS ReplayBuffer
=============================================================================
