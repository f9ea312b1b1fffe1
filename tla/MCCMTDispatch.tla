--------------------------- MODULE MCCMTDispatch ---------------------------
(* Instances of CMTDispatch for TLC. *)
EXTENDS CMTDispatch, TLC

(* The goroutines are interchangeable. *)
Symmetry == Permutations(Dispatchers)
=============================================================================
