--------------------------- MODULE RelaunchStampMC ---------------------------
(* RelaunchStamp for TLC: pids stand for one another. *)
EXTENDS RelaunchStamp, TLC

MCSymmetry == Permutations(Pids)
==============================================================================
