---------------------------- MODULE MCCMTSelect ----------------------------
(* Every subset of a pool of releases: seven minors, up to four of them    *)
(* with extended support, a patch release, a draft, a candidate of the     *)
(* minor after next, and of the next minor two candidates and the bare     *)
(* tag, as prereleases.                                                    *)
EXTENDS CMTSelect

V(major, minor, patch, rc) ==
  [ok |-> TRUE, major |-> major, minor |-> minor, patch |-> patch, rc |-> rc]
Junk(n) == [ok |-> FALSE, major |-> n, minor |-> 0, patch |-> 0, rc |-> 0]
GA(v, esr) == [v |-> v, draft |-> FALSE, prerelease |-> FALSE, esr |-> esr, published |-> 1, sha |-> 1]
Pre(v, at, sha) == [v |-> v, draft |-> FALSE, prerelease |-> TRUE, esr |-> FALSE, published |-> at, sha |-> sha]

Stable == {GA(V(9, 11, 0, 0), TRUE), GA(V(10, 5, 0, 0), TRUE), GA(V(10, 11, 0, 0), TRUE),
           GA(V(10, 11, 1, 0), FALSE), GA(V(11, 0, 0, 0), FALSE), GA(V(11, 1, 0, 0), FALSE)}
Last == {GA(V(11, 2, 0, 0), esr) : esr \in BOOLEAN}
Other == {Pre(V(11, 3, 0, 1), 2, 2), Pre(V(11, 3, 0, 2), 3, 3), Pre(V(11, 4, 0, 1), 2, 5)}
Bare == {Pre(V(11, 3, 0, 0), at, sha) : at \in {0, 1, 4}, sha \in {3, 4}}
Draft == {[GA(V(11, 4, 0, 0), TRUE) EXCEPT !.draft = TRUE], GA(Junk(2), TRUE)}

MCReleases ==
  {S \cup L \cup P \cup B \cup Draft :
     S \in SUBSET Stable, L \in {{}} \cup {{r} : r \in Last},
     P \in SUBSET Other, B \in {{}} \cup {{b} : b \in Bare}}

MCDefault == <<V(10, 11, 0, 0), V(11, 0, 0, 0)>>
MCConfig ==
  {<<>>, <<Junk(1)>>,
   <<V(11, 2, 0, 0), V(11, 0, 0, 0), V(10, 5, 0, 0), V(11, 1, 0, 0), V(11, 3, 0, 1), V(11, 3, 0, 0)>>,
   <<V(11, 0, 0, 0), Junk(2), V(10, 5, 0, 0), Junk(1), V(11, 1, 0, 0), V(11, 2, 0, 1)>>,
   <<Junk(3), V(11, 0, 0, 0), Junk(2), Junk(1)>>,
   <<Junk(4), Junk(2), Junk(3), Junk(1)>>}
=============================================================================
