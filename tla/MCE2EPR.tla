------------------------------ MODULE MCE2EPR ------------------------------
(* Instances of E2EPR for TLC. *)
EXTENDS E2EPR, TLC

(* Requests and platforms are interchangeable. *)
Symmetry == {f @@ g : f \in Permutations(Requests), g \in Permutations(Platforms)}
=============================================================================
