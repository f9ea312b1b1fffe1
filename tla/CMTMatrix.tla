----------------------------- MODULE CMTMatrix -----------------------------
(***************************************************************************)
(* The CMT_MATRIX: which servers the workflow tests under which version.   *)
(* src/server/cmt_matrix.go.  A server is a record with its version and    *)
(* its platform ("desktop", or one of the five of the mobile topology); an *)
(* entry of a matrix maps its URL fields to servers.                       *)
(***************************************************************************)
EXTENDS CMTVersions

mobileE2EPlatforms ==
  {"android-site-1", "android-site-2", "ios-site-1", "ios-site-2", "site-3"}

MatrixError == [ok |-> FALSE, server |-> <<>>]

(* buildDesktopCMTMatrixJSON; the three runners are the same in all.       *)
DesktopMatrix(versions, insts) ==
  IF Len(insts) < Len(versions) THEN MatrixError
  ELSE [ok |-> TRUE,
        server |-> [i \in DOMAIN versions |->
                      [version |-> versions[i], latest |-> FALSE,
                       site |-> [f \in {"url"} |-> insts[i]]]]]

(* Mutant: the last entry is taken for the latest. *)
LatestIndexLast(versions) == Len(versions)

LatestIndex(versions) ==
  LET P == {i \in DOMAIN versions : versions[i].ok}
  IN  IF P = {} THEN Len(versions)
      ELSE CHOOSE i \in P :
             /\ \A j \in P : ~Less(versions[i], versions[j])
             /\ \A j \in P : j < i => Less(versions[j], versions[i])

HasFullTopology(block) ==
  /\ Len(block) >= 5
  /\ \A p \in mobileE2EPlatforms : \E i \in 1..5 : block[i].platform = p

(* buildMobileCMTMatrixJSON: the highest version takes the next five if    *)
(* they are a full topology, every other the next one; all must carry the  *)
(* version and none may be left over.                                      *)
MobileMatrix(versions, insts) ==
  LET latest == LatestIndex(versions)
      full == HasFullTopology(SubSeq(insts, latest, Len(insts)))
      start(i) == IF full /\ i > latest THEN i + 4 ELSE i
      end(i) == IF full /\ i >= latest THEN i + 4 ELSE i
      entry(i) ==
        [version |-> versions[i],
         latest |-> full /\ i = latest,
         site |-> [p \in mobileE2EPlatforms |->
                     IF full /\ i = latest
                     THEN insts[CHOOSE k \in start(i)..end(i) : insts[k].platform = p]
                     ELSE insts[start(i)]]]
  IN  IF \/ end(Len(versions)) # Len(insts)
         \/ \E i \in DOMAIN versions : \E k \in start(i)..end(i) :
              insts[k].version # versions[i]
      THEN MatrixError
      ELSE [ok |-> TRUE, server |-> [i \in DOMAIN versions |-> entry(i)]]

Matrix(type, versions, insts) ==
  IF type = "desktop" THEN DesktopMatrix(versions, insts) ELSE MobileMatrix(versions, insts)
=============================================================================
