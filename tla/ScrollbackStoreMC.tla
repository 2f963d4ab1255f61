-------------------------- MODULE ScrollbackStoreMC --------------------------
(* The instance TLC checks: two processes, one per tmux server. *)
EXTENDS ScrollbackStore, TLC

CONSTANTS p1, p2, l1, l2, k1, k2, s1, s2

MCLaneOf == p1 :> l1 @@ p2 :> l2
MCSymmetry == Permutations({s1, s2}) \cup Permutations({k1, k2})
==============================================================================
