---------------------------- MODULE MCCloudWait ----------------------------
(* Instances of CloudWait for TLC. *)
EXTENDS CloudWait, TLC

(* Waiters, and installations, are interchangeable. *)
Symmetry == Permutations(Waiters) \cup Permutations(Installations)
=============================================================================
