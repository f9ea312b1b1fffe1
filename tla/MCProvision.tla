---------------------------- MODULE MCProvision ----------------------------
(* Instances of Provision for TLC. *)
EXTENDS Provision, TLC

(* The platforms are interchangeable. *)
Symmetry == Permutations(Platforms)
=============================================================================
