----------------------------- MODULE MCPushE2E -----------------------------
(* Instances of PushE2E for TLC. *)
EXTENDS PushE2E, TLC

(* Pushes, platforms and branches are interchangeable. *)
Symmetry == Permutations(Pushes) \cup Permutations(Platforms) \cup Permutations(Branches)
=============================================================================
