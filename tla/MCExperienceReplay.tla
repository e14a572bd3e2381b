------------------------- MODULE MCExperienceReplay -------------------------
(* Instances of ExperienceReplay for TLC.  The leaves of the replay buffer *)
(* are alike, but for the leftmost one, where a draw of 0 ends.            *)
EXTENDS ExperienceReplay, TLC

CONSTANTS t1, t2, t3, t4

LeafSymmetry == Permutations({t2, t3, t4})
=============================================================================
