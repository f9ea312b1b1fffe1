----------------------------- MODULE MCCMTRun -----------------------------
(* One trigger with a list that has a candidate out of its place, one with *)
(* a duplicate and an empty entry, one with an entry that does not parse;  *)
(* another that competes for the slot.                                     *)
EXTENDS CMTRun
CONSTANTS t1, t2

V(minor, rc) == [ok |-> TRUE, major |-> 11, minor |-> minor, patch |-> 0, rc |-> rc]
Junk(n) == [ok |-> FALSE, major |-> n, minor |-> 0, patch |-> 0, rc |-> 0]

MCTriggers == {t1, t2}
MCLists ==
  [t \in MCTriggers |->
     IF t = t2 THEN {<<V(2, 0)>>}
     ELSE {<<V(2, 1), V(1, 0), V(2, 0)>>, <<V(1, 0), Junk(1)>>, <<V(1, 0), None, V(1, 0)>>}]
=============================================================================
