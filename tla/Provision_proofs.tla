-------------------------- MODULE Provision_proofs --------------------------
(***************************************************************************)
(* Proofs about Provision for any set of platforms and any number of       *)
(* attempts: types, that what is returned is up, and that the workers and  *)
(* the collector together implement ProvisionPromise.                      *)
(***************************************************************************)
EXTENDS Provision, TLAPS

(* The installation of a worker, by where the worker is.                   *)
CurrentInv ==
  \A p \in Platforms :
    /\ pc[p] \in {"check", "create"} => inst[Current(p)] = "none"
    /\ pc[p] \in {"poll", "wait", "delete"} => Live(Current(p))
    /\ pc[p] = "init" => inst[Current(p)] = "up"
    /\ pc[p] = "ok" /\ main \in {"wait", "ok"} => inst[Current(p)] = "up"
    /\ pc[p] = "err" => ~Live(Current(p)) \/ Current(p) \in orphans
    /\ pc[p] # "err" /\ main \in {"wait", "ok"} => Current(p) \notin orphans

(* Earlier attempts have left nothing but orphans, later ones nothing.     *)
OtherInv ==
  \A i \in Ids :
    /\ i[2] < attempt[i[1]] => ~Live(i) \/ i \in orphans
    /\ i[2] > attempt[i[1]] => inst[i] = "none" /\ i \notin orphans

CollectorInv ==
  /\ main # "wait" => AllBack
  /\ main = "ok" => given = Ready /\ \A p \in Platforms : pc[p] = "ok"
  /\ main # "ok" => given = {}
  /\ main \in {"wait", "err"} => todo = {}
  /\ todo \subseteq Ready
  /\ \A i \in todo : Live(i)
  /\ main \in {"destroy", "err"} =>
       \A p \in Platforms :
         pc[p] = "ok" => ~Live(Current(p)) \/ Current(p) \in todo \cup orphans

IInv == TypeOK /\ CurrentInv /\ OtherInv /\ CollectorInv

(* The number of the installation a worker is busy with. *)
LEMMA CurrentId ==
  ASSUME TypeOK, NEW p \in Platforms
  PROVE  /\ Current(p) \in Ids
         /\ Current(p)[1] = p
         /\ Current(p)[2] = attempt[p]
         /\ \A q \in Platforms : Current(q) = Current(p) => q = p
BY DEF TypeOK, Current, Ids

LEMMA NextCases ==
  ASSUME Next
  PROVE  \/ \E p \in Platforms :
              \/ Check(p) \/ Create(p) \/ CreateFails(p)
              \/ PollStable(p) \/ PollAgain(p) \/ PollFails(p)
              \/ WaitOver(p) \/ WaitCancelled(p) \/ Initialise(p)
              \/ DeleteAccepted(p) \/ DeleteRefused(p) \/ DeleteGivenUp(p)
         \/ ReturnsAll \/ SomeFailed \/ DestroyOne \/ ReturnsError
         \/ \E i \in Ids : ComesUp(i)
         \/ Stop
BY DEF Next, Worker, Collector

(* The variables that the end of an attempt changes. *)
LEMMA AttemptType ==
  ASSUME TypeOK, NEW p \in Platforms, AttemptFails(p)
  PROVE  /\ pc' \in [Platforms -> WorkerPCs]
         /\ attempt' \in [Platforms -> 1..Attempts]
         /\ cancelled' \in BOOLEAN
<1> USE AttemptsAssumption DEF TypeOK, WorkerPCs, Goto
<1>1. CASE /\ attempt[p] < Attempts
           /\ attempt' = [attempt EXCEPT ![p] = @ + 1]
           /\ Goto(p, "check")
           /\ UNCHANGED cancelled
  <2>1. attempt[p] + 1 \in 1..Attempts
    BY <1>1
  <2> QED
    BY <1>1, <2>1
<1>2. CASE cancelled' = TRUE /\ Goto(p, "err") /\ UNCHANGED attempt
  <2>1. cancelled' \in BOOLEAN
    BY <1>2
  <2> QED
    BY <1>2, <2>1
<1> QED
  BY <1>1, <1>2 DEF AttemptFails

LEMMA TypeStep == TypeOK /\ [Next]_vars => TypeOK'
<1> SUFFICES ASSUME TypeOK, [Next]_vars PROVE TypeOK'
  OBVIOUS
<1> USE AttemptsAssumption
    DEF TypeOK, WorkerPCs, cloud, workers, coll, Goto
<1>1. ASSUME NEW p \in Platforms, Check(p) \/ PollStable(p) \/ PollAgain(p) PROVE TypeOK'
  BY <1>1 DEF Check, PollStable, PollAgain
<1>2. ASSUME NEW p \in Platforms, Create(p) PROVE TypeOK'
  BY <1>2 DEF Create
<1>3. ASSUME NEW p \in Platforms, CreateFails(p) PROVE TypeOK'
  BY <1>3, AttemptType, CurrentId DEF CreateFails
<1>4. ASSUME NEW p \in Platforms, PollFails(p) \/ WaitOver(p) \/ WaitCancelled(p) PROVE TypeOK'
  BY <1>4 DEF PollFails, WaitOver, WaitCancelled
<1>5. ASSUME NEW p \in Platforms, Initialise(p) PROVE TypeOK'
  BY <1>5 DEF Initialise
<1>6. ASSUME NEW p \in Platforms, DeleteAccepted(p) PROVE TypeOK'
  <2>1. inst' \in [Ids -> {"none", "creating", "up", "gone"}]
    BY <1>6 DEF DeleteAccepted
  <2>2. tries' \in [Platforms -> 0..(DeleteAttempts - 1)]
    BY <1>6 DEF DeleteAccepted
  <2> QED
    BY <1>6, <2>1, <2>2, AttemptType DEF DeleteAccepted
<1>7. ASSUME NEW p \in Platforms, DeleteRefused(p) PROVE TypeOK'
  BY <1>7 DEF DeleteRefused
<1>8. ASSUME NEW p \in Platforms, DeleteGivenUp(p) PROVE TypeOK'
  BY <1>8, AttemptType, CurrentId DEF DeleteGivenUp
<1>9. CASE ReturnsAll \/ SomeFailed \/ ReturnsError
  <2>1. Ready \subseteq Ids
    BY CurrentId DEF Ready
  <2> QED
    BY <1>9, <2>1 DEF ReturnsAll, SomeFailed, ReturnsError
<1>10. CASE DestroyOne
  BY <1>10 DEF DestroyOne
<1>11. ASSUME NEW i \in Ids, ComesUp(i) PROVE TypeOK'
  BY <1>11 DEF ComesUp
<1>12. CASE Stop
  BY <1>12 DEF Stop
<1>13. CASE UNCHANGED vars
  BY <1>13 DEF vars
<1> QED
  BY <1>1, <1>2, <1>3, <1>4, <1>5, <1>6, <1>7, <1>8, <1>9, <1>10, <1>11,
     <1>12, <1>13, NextCases

LEMMA InitInv == Init => IInv
<1> SUFFICES ASSUME Init PROVE IInv
  OBVIOUS
<1> USE DEF Init
<1>1. TypeOK
  <2>1. [p \in Platforms |-> 1] \in [Platforms -> 1..Attempts]
    BY AttemptsAssumption
  <2>2. [p \in Platforms |-> 0] \in [Platforms -> 0..(DeleteAttempts - 1)]
    BY AttemptsAssumption
  <2>3. cancelled \in BOOLEAN
    OBVIOUS
  <2> QED
    BY <2>1, <2>2, <2>3 DEF TypeOK, WorkerPCs
<1>2. CurrentInv
  BY <1>1, CurrentId DEF CurrentInv, Live
<1>3. OtherInv
  BY DEF OtherInv, Ids, Live
<1>4. CollectorInv
  BY DEF CollectorInv
<1> QED
  BY <1>1, <1>2, <1>3, <1>4 DEF IInv
-----------------------------------------------------------------------------
(* The end of an attempt, when its installation is gone, was never made,   *)
(* or has become an orphan.                                                *)
LEMMA AttemptEnds ==
  ASSUME IInv, TypeOK', NEW p \in Platforms, main = "wait",
         pc[p] \in {"create", "delete"}, AttemptFails(p), UNCHANGED coll,
         inst' \in [Ids -> {"none", "creating", "up", "gone"}],
         \A i \in Ids : i # Current(p) =>
           inst'[i] = inst[i] /\ (i \in orphans' <=> i \in orphans),
         inst'[Current(p)] \notin {"creating", "up"} \/ Current(p) \in orphans'
  PROVE  IInv'
<1> DEFINE i0 == Current(p)
<1>1. i0 \in Ids /\ i0[1] = p /\ i0[2] = attempt[p]
  BY CurrentId DEF IInv
<1>2. \A q \in Platforms : q # p =>
        /\ pc'[q] = pc[q] /\ attempt'[q] = attempt[q]
        /\ Current(q)' = Current(q) /\ Current(q) # i0 /\ Current(q) \in Ids
  BY CurrentId DEF IInv, TypeOK, AttemptFails, Goto, Current
<1>3. \A q \in Platforms : q # p =>
        inst'[Current(q)] = inst[Current(q)] /\ (Current(q) \in orphans' <=> Current(q) \in orphans)
  BY <1>2
<1>4. \/ pc'[p] = "check" /\ attempt'[p] = attempt[p] + 1
      \/ pc'[p] = "err" /\ attempt'[p] = attempt[p]
  BY DEF AttemptFails, Goto, IInv, TypeOK
<1>5. Current(p)' \in Ids /\ Current(p)'[1] = p /\ Current(p)'[2] = attempt'[p]
  BY DEF TypeOK, Current, Ids
<1>6. CurrentInv'
  <2>1. ASSUME NEW q \in Platforms, q # p
        PROVE  /\ pc'[q] \in {"check", "create"} => inst'[Current(q)'] = "none"
               /\ pc'[q] \in {"poll", "wait", "delete"} => Live(Current(q))'
               /\ pc'[q] = "init" => inst'[Current(q)'] = "up"
               /\ pc'[q] = "ok" /\ main' \in {"wait", "ok"} => inst'[Current(q)'] = "up"
               /\ pc'[q] = "err" => ~Live(Current(q))' \/ Current(q)' \in orphans'
               /\ pc'[q] # "err" /\ main' \in {"wait", "ok"} => Current(q)' \notin orphans'
    BY <1>2, <1>3, <2>1 DEF IInv, CurrentInv, Live, coll
  <2>2. CASE pc'[p] = "check"
    <3>1. Current(p)' # i0 /\ inst[Current(p)'] = "none" /\ Current(p)' \notin orphans
      BY <1>1, <1>4, <1>5, <2>2 DEF IInv, TypeOK, OtherInv
    <3> QED
      BY <1>5, <2>1, <2>2, <3>1 DEF CurrentInv
  <2>3. CASE pc'[p] = "err"
    <3>1. Current(p)' = i0
      BY <1>4, <2>3 DEF Current
    <3> QED
      BY <2>1, <2>3, <3>1 DEF CurrentInv, Live
  <2> QED
    BY <1>4, <2>2, <2>3
<1>7. OtherInv'
  <2> SUFFICES ASSUME NEW i \in Ids
               PROVE  /\ i[2] < attempt'[i[1]] =>
                           inst'[i] \notin {"creating", "up"} \/ i \in orphans'
                      /\ i[2] > attempt'[i[1]] => inst'[i] = "none" /\ i \notin orphans'
    BY DEF OtherInv, Live
  <2>1. i[1] \in Platforms /\ i[2] \in 1..Attempts /\ i = <<i[1], i[2]>>
    BY DEF Ids
  <2>2. CASE i[1] # p
    BY <1>1, <1>2, <2>1, <2>2 DEF IInv, OtherInv, Live
  <2>3. CASE i[1] = p /\ i[2] = attempt[p]
    <3>1. i = i0
      BY <2>1, <2>3 DEF Current
    <3> QED
      BY <1>4, <2>1, <2>3, <3>1 DEF IInv, TypeOK
  <2>4. CASE i[1] = p /\ i[2] # attempt[p]
    <3>1. i # i0 /\ inst'[i] = inst[i] /\ (i \in orphans' <=> i \in orphans)
      BY <1>1, <2>4
    <3> QED
      BY <1>4, <2>1, <2>4, <3>1, AttemptsAssumption DEF IInv, TypeOK, OtherInv, Live
  <2> QED
    BY <2>2, <2>3, <2>4
<1>8. CollectorInv'
  BY DEF CollectorInv, IInv, coll
<1> QED
  BY <1>6, <1>7, <1>8 DEF IInv

(* A step of a worker in the middle of an attempt.                         *)
LEMMA WorkerMoves ==
  ASSUME IInv, TypeOK', NEW p \in Platforms, main = "wait",
         UNCHANGED <<attempt, orphans, coll>>,
         pc[p] \notin {"ok", "err"},
         \A q \in Platforms : q # p => pc'[q] = pc[q],
         \A i \in Ids : i # Current(p) => inst'[i] = inst[i],
         pc'[p] \in {"check", "create"} => inst'[Current(p)] = "none",
         pc'[p] \in {"poll", "wait", "delete"} => inst'[Current(p)] \in {"creating", "up"},
         pc'[p] \in {"init", "ok"} => inst'[Current(p)] = "up",
         pc'[p] = "err" => inst'[Current(p)] \notin {"creating", "up"}
  PROVE  IInv'
<1>1. \A q \in Platforms : Current(q)' = Current(q) /\ Current(q) \in Ids
  BY CurrentId DEF IInv, Current
<1>2. \A q \in Platforms : q # p => Current(q) # Current(p)
  BY CurrentId DEF IInv
<1>3. CurrentInv'
  BY <1>1, <1>2 DEF IInv, CurrentInv, Live, coll
<1>4. OtherInv'
  <2>1. \A i \in Ids : i[2] # attempt[i[1]] => i # Current(p)
    BY CurrentId DEF IInv
  <2>2. \A i \in Ids : i[1] \in Platforms /\ i[2] \in 1..Attempts
    BY DEF Ids
  <2> QED
    BY <2>1, <2>2, AttemptsAssumption DEF IInv, TypeOK, OtherInv, Live
<1>5. CollectorInv'
  BY DEF IInv, CollectorInv, coll
<1> QED
  BY <1>3, <1>4, <1>5 DEF IInv

(* No worker runs once the collector does.                                 *)
LEMMA WorkerRuns ==
  ASSUME IInv, NEW p \in Platforms, pc[p] \notin {"ok", "err"}
  PROVE  main = "wait"
BY DEF IInv, CollectorInv, AllBack

LEMMA WorkerStep ==
  ASSUME IInv, TypeOK', NEW p \in Platforms, Worker(p)
  PROVE  IInv'
<1>1. Current(p) \in Ids
  BY CurrentId DEF IInv
<1> USE DEF IInv, TypeOK, cloud, workers, Goto
<1>2. CASE Check(p)
  BY <1>1, <1>2, WorkerRuns, WorkerMoves DEF Check, CurrentInv
<1>3. CASE Create(p)
  BY <1>1, <1>3, WorkerRuns, WorkerMoves DEF Create, CurrentInv
<1>4. CASE CreateFails(p)
  <2>1. pc[p] = "create" /\ main = "wait" /\ AttemptFails(p) /\ UNCHANGED coll
    BY <1>4, WorkerRuns DEF CreateFails
  <2>2. /\ \A i \in Ids : i # Current(p) =>
             inst'[i] = inst[i] /\ (i \in orphans' <=> i \in orphans)
        /\ inst'[Current(p)] \notin {"creating", "up"} \/ Current(p) \in orphans'
    BY <1>1, <1>4, <2>1 DEF CreateFails, CurrentInv
  <2> QED
    BY <2>1, <2>2, AttemptEnds
<1>5. CASE PollStable(p) \/ PollAgain(p) \/ PollFails(p)
  BY <1>1, <1>5, WorkerRuns, WorkerMoves
     DEF PollStable, PollAgain, PollFails, CurrentInv, Live
<1>6. CASE WaitOver(p) \/ WaitCancelled(p)
  BY <1>1, <1>6, WorkerRuns, WorkerMoves DEF WaitOver, WaitCancelled, CurrentInv, Live
<1>7. CASE Initialise(p)
  BY <1>1, <1>7, WorkerRuns, WorkerMoves DEF Initialise, CurrentInv
<1>8. CASE DeleteAccepted(p)
  <2>1. pc[p] = "delete" /\ main = "wait" /\ AttemptFails(p) /\ UNCHANGED coll
    BY <1>8, WorkerRuns DEF DeleteAccepted
  <2> QED
    BY <1>1, <1>8, <2>1, AttemptEnds DEF DeleteAccepted
<1>9. CASE DeleteRefused(p)
  BY <1>1, <1>9, WorkerRuns, WorkerMoves DEF DeleteRefused, CurrentInv, Live
<1>10. CASE DeleteGivenUp(p)
  <2>1. pc[p] = "delete" /\ main = "wait" /\ AttemptFails(p) /\ UNCHANGED coll
    BY <1>10, WorkerRuns DEF DeleteGivenUp
  <2> QED
    BY <1>1, <1>10, <2>1, AttemptEnds DEF DeleteGivenUp
<1> QED
  BY <1>2, <1>3, <1>4, <1>5, <1>6, <1>7, <1>8, <1>9, <1>10 DEF Worker
-----------------------------------------------------------------------------
(* Ready in terms of the workers. *)
LEMMA ReadyIds ==
  ASSUME TypeOK
  PROVE  /\ Ready \subseteq Ids
         /\ \A p \in Platforms : pc[p] = "ok" <=> Current(p) \in Ready
         /\ \A i \in Ready : i[1] \in Platforms /\ pc[i[1]] = "ok" /\ i = Current(i[1])
                            /\ i[2] = attempt[i[1]]
<1>1. \A i \in Ready : \E p \in Platforms : pc[p] = "ok" /\ i = Current(p)
  BY DEF Ready
<1>2. \A p \in Platforms : pc[p] = "ok" => Current(p) \in Ready
  BY DEF Ready
<1> QED
  BY <1>1, <1>2, CurrentId

LEMMA CollectorStep ==
  ASSUME IInv, TypeOK', Collector
  PROVE  IInv'
<1> USE DEF IInv, cloud, workers
<1>1. \A p \in Platforms : Current(p) \in Ids
  BY CurrentId
<1>2. Collector => UNCHANGED <<pc, attempt>>
  BY DEF Collector, ReturnsAll, SomeFailed, DestroyOne, ReturnsError
<1>3. Ready' = Ready /\ (AllBack' <=> AllBack) /\ \A p \in Platforms : Current(p)' = Current(p)
  BY <1>2 DEF Ready, AllBack, Current
<1>4. CASE ReturnsAll
  <2>1. CurrentInv' /\ OtherInv'
    BY <1>3, <1>4 DEF ReturnsAll, CurrentInv, OtherInv, Live
  <2>2. CollectorInv'
    BY <1>3, <1>4 DEF ReturnsAll, CollectorInv, AllBack
  <2> QED
    BY <2>1, <2>2
<1>5. CASE SomeFailed
  <2>1. CurrentInv' /\ OtherInv'
    BY <1>3, <1>5 DEF SomeFailed, CurrentInv, OtherInv, Live
  <2>2. \A i \in Ready : Live(i)
    BY <1>5, ReadyIds DEF SomeFailed, CurrentInv, Live
  <2>3. CollectorInv'
    BY <1>3, <1>5, <2>2, ReadyIds DEF SomeFailed, CollectorInv, Live
  <2> QED
    BY <2>1, <2>3
<1>6. CASE DestroyOne
  <2>1. PICK i \in todo :
          /\ \/ inst' = [inst EXCEPT ![i] = "gone"] /\ UNCHANGED orphans
             \/ orphans' = orphans \cup {i} /\ UNCHANGED inst
          /\ todo' = todo \ {i}
    BY <1>6 DEF DestroyOne
  <2>2. main = "destroy" /\ main' = "destroy" /\ given' = given /\ pc' = pc /\ attempt' = attempt
    BY <1>6 DEF DestroyOne
  <2>3. i \in Ready /\ i \in Ids /\ i[2] = attempt[i[1]] /\ pc[i[1]] = "ok"
    BY ReadyIds DEF CollectorInv
  <2>4. \A j \in Ids : j # i => inst'[j] = inst[j] /\ (j \in orphans' <=> j \in orphans)
    BY <2>1 DEF TypeOK
  <2>5. inst'[i] \notin {"creating", "up"} \/ i \in orphans'
    BY <2>1, <2>3 DEF TypeOK
  <2>6. \A p \in Platforms : pc[p] # "ok" => Current(p) # i
    BY <2>3, ReadyIds
  <2>7. CurrentInv'
    BY <1>1, <1>3, <2>2, <2>4, <2>6 DEF CurrentInv, Live
  <2>8. OtherInv'
    BY <2>2, <2>3, <2>4, AttemptsAssumption DEF OtherInv, TypeOK, Ids, Live
  <2>9. CollectorInv'
    BY <1>1, <1>3, <2>1, <2>2, <2>3, <2>4, <2>5, ReadyIds DEF CollectorInv, Live
  <2> QED
    BY <2>7, <2>8, <2>9
<1>7. CASE ReturnsError
  <2>1. CurrentInv' /\ OtherInv'
    BY <1>3, <1>7 DEF ReturnsError, CurrentInv, OtherInv, Live
  <2>2. CollectorInv'
    BY <1>3, <1>7 DEF ReturnsError, CollectorInv, Live
  <2> QED
    BY <2>1, <2>2
<1> QED
  BY <1>4, <1>5, <1>6, <1>7 DEF Collector

LEMMA InvStep == IInv /\ [Next]_vars => IInv'
<1> SUFFICES ASSUME IInv, [Next]_vars PROVE IInv'
  OBVIOUS
<1>1. TypeOK'
  BY TypeStep DEF IInv
<1>2. ASSUME NEW p \in Platforms, Worker(p) PROVE IInv'
  BY <1>1, <1>2, WorkerStep
<1>3. CASE Collector
  BY <1>1, <1>3, CollectorStep
<1>4. ASSUME NEW i \in Ids, ComesUp(i) PROVE IInv'
  <2>1. /\ inst' = [inst EXCEPT ![i] = "up"] /\ inst[i] = "creating"
        /\ UNCHANGED <<orphans, cancelled, pc, attempt, tries, main, todo, given>>
    BY <1>4 DEF ComesUp, workers, coll
  <2>2. /\ \A j \in Ids : (Live(j)' <=> Live(j)) /\ (inst[j] # "creating" => inst'[j] = inst[j])
        /\ \A j \in Ids : inst[j] = "none" => inst'[j] = "none"
        /\ \A j \in Ids : inst[j] = "up" => inst'[j] = "up"
    BY <2>1 DEF Live, IInv, TypeOK
  <2>3. /\ \A p \in Platforms : Current(p) \in Ids /\ Current(p)' = Current(p)
        /\ Ready' = Ready /\ AllBack' = AllBack
    BY <2>1, CurrentId DEF IInv, Current, Ready, AllBack
  <2>4. \A p \in Platforms : Live(Current(p))' <=> Live(Current(p))
    BY <2>2, <2>3 DEF Live
  <2>5. CurrentInv'
    BY <2>1, <2>2, <2>3, <2>4 DEF IInv, CurrentInv
  <2>6. OtherInv'
    BY <2>1, <2>2 DEF IInv, OtherInv
  <2>7. CollectorInv'
    BY <2>1, <2>2, <2>3, <2>4, ReadyIds DEF IInv, CollectorInv
  <2> QED
    BY <1>1, <2>5, <2>6, <2>7 DEF IInv
<1>5. CASE Stop \/ UNCHANGED vars
  <2>1. UNCHANGED <<inst, orphans, pc, attempt, tries, main, todo, given>>
    BY <1>5 DEF Stop, vars, cloud, workers, coll
  <2> QED
    BY <1>1, <2>1
       DEF IInv, CurrentInv, OtherInv, CollectorInv, Live, Current, Ready, AllBack
<1> QED
  BY <1>2, <1>3, <1>4, <1>5 DEF Next

LEMMA InvHolds == Spec => []IInv
BY InitInv, InvStep, PTL DEF Spec
-----------------------------------------------------------------------------
(* Every variable keeps its type in all behaviours. *)
THEOREM TypeCorrect == Spec => []TypeOK
BY InvHolds, PTL DEF IInv

(* The caller only gets servers that came up, and none that was given up   *)
(* on in an earlier attempt.                                               *)
THEOREM GivenAreUpHolds == Spec => []GivenAreUp
<1>1. IInv => GivenAreUp
  BY ReadyIds DEF IInv, CurrentInv, CollectorInv, GivenAreUp
<1> QED
  BY <1>1, InvHolds, PTL
-----------------------------------------------------------------------------
(* Refinement.  A worker's request is Appear, an accepted delete is        *)
(* Disappear, one given up is Orphan, the two returns are Succeed and      *)
(* Fail, and everything else is a stutter.                                 *)
LiveIds == {i \in Ids : Live(i)}

LEMMA PromiseInit == Init => Promise!Init
BY DEF Init, Promise!Init, Live, Outcome

(* What becomes of one installation decides which abstract step it is. *)
LEMMA OneChanges ==
  ASSUME TypeOK, NEW i \in Ids, Outcome = "running", UNCHANGED <<Outcome, given>>,
         inst' \in [Ids -> {"none", "creating", "up", "gone"}],
         \A j \in Ids : j # i => inst'[j] = inst[j],
         \/ ~Live(i) /\ (inst'[i] \in {"creating", "up"}) /\ orphans' \in {orphans, orphans \cup {i}}
         \/ Live(i) /\ (inst'[i] \notin {"creating", "up"}) /\ orphans' = orphans
         \/ Live(i) /\ inst'[i] = inst[i] /\ orphans' = orphans \cup {i}
  PROVE  Promise!Next
<1>1. LiveIds' = {j \in Ids : inst'[j] \in {"creating", "up"}}
  BY DEF LiveIds, Live
<1>2. CASE ~Live(i) /\ (inst'[i] \in {"creating", "up"}) /\ orphans' \in {orphans, orphans \cup {i}}
  <2>1. LiveIds' = LiveIds \cup {i} /\ i \in Ids \ LiveIds
    BY <1>1, <1>2 DEF LiveIds, Live
  <2>2. i \in Promise!Ids \ LiveIds
    BY <2>1 DEF Ids, Promise!Ids
  <2> QED
    BY <1>2, <2>1, <2>2 DEF Promise!Next, Promise!Appear, LiveIds
<1>3. CASE Live(i) /\ (inst'[i] \notin {"creating", "up"}) /\ orphans' = orphans
  <2>1. LiveIds' = LiveIds \ {i} /\ i \in LiveIds
    BY <1>1, <1>3 DEF LiveIds, Live
  <2> QED
    BY <1>3, <2>1 DEF Promise!Next, Promise!Disappear, LiveIds
<1>4. CASE Live(i) /\ inst'[i] = inst[i] /\ orphans' = orphans \cup {i}
  <2>1. LiveIds' = LiveIds /\ i \in LiveIds
    BY <1>1, <1>4 DEF LiveIds, Live
  <2> QED
    BY <1>4, <2>1 DEF Promise!Next, Promise!Orphan, LiveIds
<1> QED
  BY <1>2, <1>3, <1>4

LEMMA PromiseReturnsAll ==
  ASSUME IInv, ReturnsAll
  PROVE  Promise!Succeed
<1>1. main = "wait" /\ main' = "ok" /\ given' = Ready /\ UNCHANGED <<inst, orphans>>
      /\ \A p \in Platforms : pc[p] = "ok"
  BY DEF ReturnsAll, cloud
<1>2. Ready \subseteq LiveIds
  BY <1>1, ReadyIds DEF IInv, CurrentInv, LiveIds, Live
<1>3. \A p \in Platforms : Ready \cap ({p} \X (1..Attempts)) = {Current(p)} /\ Current(p) \in Ready
  <2> SUFFICES ASSUME NEW p \in Platforms
               PROVE  Ready \cap ({p} \X (1..Attempts)) = {Current(p)} /\ Current(p) \in Ready
    OBVIOUS
  <2>1. Current(p) \in Ready /\ Current(p) \in {p} \X (1..Attempts)
    BY <1>1, ReadyIds DEF IInv, TypeOK, Current
  <2>2. \A i \in Ready : i \in {p} \X (1..Attempts) => i = Current(p)
    BY ReadyIds DEF IInv
  <2> QED
    BY <2>1, <2>2
<1>4. LiveIds \ Ready \subseteq orphans
  <2> SUFFICES ASSUME NEW i \in Ids, Live(i), i \notin Ready PROVE i \in orphans
    BY DEF LiveIds
  <2>1. i[1] \in Platforms /\ i[2] \in 1..Attempts /\ i = <<i[1], i[2]>>
    BY DEF Ids
  <2>2. i[2] # attempt[i[1]]
    BY <1>1, <2>1, ReadyIds DEF IInv, Current
  <2>3. i[2] < attempt[i[1]]
    BY <2>1, <2>2, AttemptsAssumption DEF IInv, TypeOK, OtherInv, Live
  <2> QED
    BY <2>3 DEF IInv, OtherInv
<1>5. LiveIds' = LiveIds
  BY <1>1 DEF LiveIds, Live
<1>6. Promise!OnePerPlatform(Ready)
  BY <1>3 DEF Promise!OnePerPlatform
<1>7. Ready \in SUBSET LiveIds
  BY <1>2
<1>8. Outcome = "running" /\ Outcome' = "all"
  BY <1>1 DEF Outcome
<1> QED
  BY <1>1, <1>4, <1>5, <1>6, <1>7, <1>8 DEF Promise!Succeed, LiveIds

LEMMA PromiseReturnsError ==
  ASSUME IInv, ReturnsError
  PROVE  Promise!Fail
<1>1. main = "destroy" /\ todo = {} /\ main' = "err" /\ UNCHANGED <<inst, orphans, given>> /\ AllBack
  BY DEF ReturnsError, cloud, IInv, CollectorInv
<1>2. LiveIds \subseteq orphans
  <2> SUFFICES ASSUME NEW i \in Ids, Live(i) PROVE i \in orphans
    BY DEF LiveIds
  <2>1. i[1] \in Platforms /\ i[2] \in 1..Attempts /\ i = <<i[1], i[2]>>
    BY DEF Ids
  <2>2. CASE i[2] = attempt[i[1]]
    <3>1. i = Current(i[1])
      BY <2>1, <2>2 DEF Current
    <3> QED
      BY <1>1, <2>1, <3>1 DEF IInv, CurrentInv, CollectorInv, AllBack
  <2>3. CASE i[2] # attempt[i[1]]
    <3>1. i[2] < attempt[i[1]]
      BY <2>1, <2>3, AttemptsAssumption DEF IInv, TypeOK, OtherInv, Live
    <3> QED
      BY <3>1 DEF IInv, OtherInv
  <2> QED
    BY <2>2, <2>3
<1>3. LiveIds' = LiveIds
  BY <1>1 DEF LiveIds, Live
<1>4. Outcome = "running" /\ Outcome' = "none"
  BY <1>1 DEF Outcome
<1> QED
  BY <1>1, <1>2, <1>3, <1>4 DEF Promise!Fail, LiveIds

LEMMA PromiseWorker ==
  ASSUME IInv, TypeOK', NEW p \in Platforms, Worker(p)
  PROVE  Promise!Next \/ UNCHANGED <<LiveIds, orphans, Outcome, given>>
<1> DEFINE Goal == Promise!Next \/ UNCHANGED <<LiveIds, orphans, Outcome, given>>
<1>1. Current(p) \in Ids
  BY CurrentId DEF IInv
<1>2. pc[p] \notin {"ok", "err"} /\ UNCHANGED <<main, todo, given>>
  BY DEF Worker, Check, Create, CreateFails, PollStable, PollAgain, PollFails, WaitOver,
         WaitCancelled, Initialise, DeleteAccepted, DeleteRefused, DeleteGivenUp, coll
<1>3. Outcome = "running" /\ UNCHANGED <<Outcome, given>>
  BY <1>2, WorkerRuns DEF Outcome
<1>4. ASSUME UNCHANGED cloud PROVE Goal
  BY <1>3, <1>4 DEF cloud, LiveIds, Live
<1>5. CASE Create(p)
  BY <1>1, <1>3, <1>5, OneChanges DEF IInv, TypeOK, CurrentInv, Create, Live
<1>6. CASE CreateFails(p)
  <2>1. CASE UNCHANGED cloud
    BY <1>4, <2>1
  <2>2. CASE /\ inst' = [inst EXCEPT ![Current(p)] = "creating"]
             /\ orphans' = orphans \cup {Current(p)}
    BY <1>1, <1>3, <1>6, <2>2, OneChanges DEF IInv, TypeOK, CurrentInv, CreateFails, Live
  <2> QED
    BY <1>6, <2>1, <2>2 DEF CreateFails
<1>7. CASE DeleteAccepted(p)
  BY <1>1, <1>3, <1>7, OneChanges DEF IInv, TypeOK, CurrentInv, DeleteAccepted
<1>8. CASE DeleteGivenUp(p)
  BY <1>1, <1>3, <1>8, OneChanges DEF IInv, TypeOK, CurrentInv, DeleteGivenUp
<1>9. CASE \/ Check(p) \/ PollStable(p) \/ PollAgain(p) \/ PollFails(p) \/ WaitOver(p)
           \/ WaitCancelled(p) \/ Initialise(p) \/ DeleteRefused(p)
  BY <1>4, <1>9 DEF Check, PollStable, PollAgain, PollFails, WaitOver, WaitCancelled,
                    Initialise, DeleteRefused
<1> QED
  BY <1>5, <1>6, <1>7, <1>8, <1>9 DEF Worker

LEMMA PromiseStep ==
  ASSUME IInv, IInv', [Next]_vars
  PROVE  Promise!Next \/ UNCHANGED <<LiveIds, orphans, Outcome, given>>
<1> DEFINE Goal == Promise!Next \/ UNCHANGED <<LiveIds, orphans, Outcome, given>>
<1>1. ASSUME NEW p \in Platforms, Worker(p) PROVE Goal
  BY <1>1, PromiseWorker DEF IInv
<1>2. CASE ReturnsAll
  BY <1>2, PromiseReturnsAll DEF Promise!Next
<1>3. CASE ReturnsError
  BY <1>3, PromiseReturnsError DEF Promise!Next
<1>4. CASE DestroyOne
  <2>1. PICK i \in todo :
          \/ inst' = [inst EXCEPT ![i] = "gone"] /\ UNCHANGED orphans
          \/ orphans' = orphans \cup {i} /\ UNCHANGED inst
    BY <1>4 DEF DestroyOne
  <2>2. Live(i) /\ i \in Ids
    BY ReadyIds DEF IInv, CollectorInv
  <2>3. Outcome = "running" /\ UNCHANGED <<Outcome, given>>
    BY <1>4 DEF DestroyOne, Outcome
  <2> QED
    BY <2>1, <2>2, <2>3, OneChanges DEF IInv, TypeOK
<1>5. CASE SomeFailed \/ Stop \/ UNCHANGED vars
  BY <1>5 DEF SomeFailed, Stop, vars, cloud, coll, LiveIds, Live, Outcome
<1>6. ASSUME NEW i \in Ids, ComesUp(i) PROVE Goal
  <2>1. \A j \in Ids : Live(j)' <=> Live(j)
    BY <1>6 DEF ComesUp, Live, IInv, TypeOK
  <2>2. LiveIds' = LiveIds
    BY <2>1 DEF LiveIds
  <2> QED
    BY <1>6, <2>2 DEF ComesUp, coll, Outcome
<1> QED
  BY <1>1, <1>2, <1>3, <1>4, <1>5, <1>6 DEF Next, Collector

(* Every behaviour of the workers and the collector is one that            *)
(* ProvisionPromise allows: one server per platform or none, and nothing   *)
(* else left but orphans.                                                  *)
THEOREM PromiseHolds == Spec => KeepsPromise
<1>1. IInv /\ IInv' /\ [Next]_vars
        => [Promise!Next]_<<LiveIds, orphans, Outcome, given>>
  BY PromiseStep
<1> QED
  BY <1>1, PromiseInit, InvHolds, PTL DEF Spec, KeepsPromise, Promise!Spec, LiveIds
=============================================================================
