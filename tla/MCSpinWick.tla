---------------------------- MODULE MCSpinWick ----------------------------
(* Every repository, and the two ways of a server pull request.            *)
EXTENDS SpinWick, TLC

MCSetups ==
  {[repo |-> "server", labels |-> {"SpinWick", "SpinWickHA"}],
   [repo |-> "server", labels |-> {"SpinWickWithCWS"}],
   [repo |-> "plugin", labels |-> {"SpinWick"}],
   [repo |-> "cws", labels |-> {"SpinWick"}]}

Symmetry == Permutations(Handlers)
=============================================================================
