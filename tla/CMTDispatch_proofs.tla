------------------------ MODULE CMTDispatch_proofs ------------------------
(***************************************************************************)
(* Proofs about CMTDispatch for any set of dispatchers.  With every fault  *)
(* switched on or off: types, the lock, that a store never overwrites an   *)
(* entry, and that the poll returns only runs newer than the snapshot.  If *)
(* no snapshot or poll fails, no answer is lost and nobody dispatches by   *)
(* hand: a set is tracked under its own run, and is not destroyed under it *)
(* if that run begins LongestRun before the servers reach MaxAge.          *)
(***************************************************************************)
EXTENDS CMTDispatch, FiniteSetTheorems, TLAPS

USE DEF PCs

(* The dispatcher is in the critical section of cmtDispatchLocks. *)
Holding(d) == pc[d] \in {"snapshot", "dispatch", "poll", "pick", "store"}

Mutex == \A d \in Dispatchers : Holding(d) => lock = d

FromGitHub ==
  \A d \in Dispatchers :
    seen[d] \subseteq Runs /\ (pc[d] = "store" => picked[d] \in Runs)

IInv == TypeOK /\ Mutex /\ FromGitHub /\ ClaimIsFree

(* What Next is made of, spelled out once. *)
LEMMA NextCases ==
  ASSUME Next
  PROVE  \/ \E d \in Dispatchers :
              \/ MatrixFails(d) \/ Lock(d) \/ Snapshot(d) \/ SnapshotFails(d)
              \/ Dispatch(d) \/ DispatchFails(d) \/ PollList(d) \/ PollPicks(d)
              \/ PollAgain(d) \/ PollGivesUp(d) \/ Store(d)
              \/ RunAppears(d) \/ StaleScan(d)
         \/ \E k \in Runs : RunCompletes(k) \/ HandleCompletion(k) \/ LoseEvent(k)
         \/ ForeignRun
         \/ Tick
BY DEF Next, DispatcherStep

LEMMA TypeStep == TypeOK /\ [Next]_vars => TypeOK'
<1> SUFFICES ASSUME TypeOK, [Next]_vars PROVE TypeOK'
  OBVIOUS
<1> USE DEF TypeOK, local, memory, github, Goto, Destroy
<1>0. Runs \in SUBSET Nat /\ last + 1 \in Nat
  BY DEF Runs
<1>1. ASSUME NEW d \in Dispatchers, MatrixFails(d) PROVE TypeOK'
  BY <1>1 DEF MatrixFails
<1>2. ASSUME NEW d \in Dispatchers, Lock(d) PROVE TypeOK'
  BY <1>2 DEF Lock
<1>3. ASSUME NEW d \in Dispatchers, Snapshot(d) PROVE TypeOK'
  BY <1>0, <1>3 DEF Snapshot
<1>3a. ASSUME NEW d \in Dispatchers, SnapshotFails(d) PROVE TypeOK'
  BY <1>3a DEF SnapshotFails
<1>4. ASSUME NEW d \in Dispatchers, Dispatch(d) PROVE TypeOK'
  BY <1>4 DEF Dispatch
<1>5. ASSUME NEW d \in Dispatchers, DispatchFails(d) PROVE TypeOK'
  BY <1>5 DEF DispatchFails
<1>6. ASSUME NEW d \in Dispatchers, PollList(d) PROVE TypeOK'
  BY <1>0, <1>6 DEF PollList
<1>6a. ASSUME NEW d \in Dispatchers, PollAgain(d) PROVE TypeOK'
  BY <1>6a DEF PollAgain
<1>7. ASSUME NEW d \in Dispatchers, PollPicks(d) PROVE TypeOK'
  BY <1>7 DEF PollPicks
<1>8. ASSUME NEW d \in Dispatchers, PollGivesUp(d) PROVE TypeOK'
  BY <1>8 DEF PollGivesUp
<1>9. ASSUME NEW d \in Dispatchers, Store(d) PROVE TypeOK'
  BY <1>9 DEF Store
<1>10. ASSUME NEW d \in Dispatchers, RunAppears(d) PROVE TypeOK'
  BY <1>0, <1>10 DEF RunAppears
<1>10a. ASSUME NEW d \in Dispatchers, StaleScan(d) PROVE TypeOK'
  BY <1>10a DEF StaleScan
<1>11. ASSUME NEW k \in Runs, RunCompletes(k) PROVE TypeOK'
  BY <1>0, <1>11 DEF RunCompletes
<1>11a. ASSUME NEW k \in Runs, HandleCompletion(k) PROVE TypeOK'
  BY <1>11a DEF HandleCompletion
<1>11b. ASSUME NEW k \in Runs, LoseEvent(k) PROVE TypeOK'
  BY <1>0, <1>11b DEF LoseEvent
<1>12. CASE ForeignRun
  BY <1>12 DEF ForeignRun
<1>12a. CASE Tick
  BY <1>12a, AgeAssumption DEF Tick
<1>13. CASE UNCHANGED vars
  BY <1>13 DEF vars
<1> QED
  BY <1>1, <1>2, <1>3, <1>3a, <1>4, <1>5, <1>6, <1>6a, <1>7, <1>8, <1>9,
     <1>10, <1>10a, <1>11, <1>11a, <1>11b, <1>12, <1>12a, <1>13, NextCases

LEMMA InitInv == Init => IInv
BY NoOneAssumption, AgeAssumption
   DEF Init, IInv, TypeOK, Mutex, Holding, FromGitHub, Runs, ClaimIsFree

LEMMA InvStep == IInv /\ [Next]_vars => IInv'
<1> SUFFICES ASSUME IInv, [Next]_vars PROVE Mutex' /\ FromGitHub' /\ ClaimIsFree'
  BY TypeStep DEF IInv
<1> USE NoOneAssumption
    DEF IInv, TypeOK, Mutex, Holding, FromGitHub, ClaimIsFree, Claimed, Runs,
        local, memory, github, Goto, Destroy
<1> DEFINE Goal == Mutex' /\ FromGitHub' /\ ClaimIsFree'
<1>1. ASSUME NEW d \in Dispatchers, MatrixFails(d) PROVE Goal
  BY <1>1 DEF MatrixFails
<1>2. ASSUME NEW d \in Dispatchers, Lock(d) PROVE Goal
  BY <1>2 DEF Lock
<1>3. ASSUME NEW d \in Dispatchers, Snapshot(d) PROVE Goal
  BY <1>3 DEF Snapshot
<1>4. ASSUME NEW d \in Dispatchers, Dispatch(d) \/ SnapshotFails(d) PROVE Goal
  BY <1>4 DEF Dispatch, SnapshotFails
<1>5. ASSUME NEW d \in Dispatchers, DispatchFails(d) PROVE Goal
  BY <1>5 DEF DispatchFails
<1>6. ASSUME NEW d \in Dispatchers, PollList(d) PROVE Goal
  BY <1>6 DEF PollList
<1>6a. ASSUME NEW d \in Dispatchers, PollAgain(d) PROVE Goal
  BY <1>6a DEF PollAgain
<1>7. ASSUME NEW d \in Dispatchers, PollPicks(d) PROVE Goal
  <2>1. PICK k \in seen[d] : k \in Candidates(d) /\ picked' = [picked EXCEPT ![d] = k]
    BY <1>7 DEF PollPicks, Newest
  <2>2. k \in Runs /\ k \notin Claimed
    BY <2>1 DEF Candidates
  <2> QED
    BY <1>7, <2>1, <2>2 DEF PollPicks
<1>8. ASSUME NEW d \in Dispatchers, PollGivesUp(d) PROVE Goal
  BY <1>8 DEF PollGivesUp
<1>9. ASSUME NEW d \in Dispatchers, Store(d) PROVE Goal
  BY <1>9 DEF Store
<1>10. ASSUME NEW d \in Dispatchers, RunAppears(d) PROVE Goal
  BY <1>10 DEF RunAppears
<1>11. ASSUME NEW d \in Dispatchers, StaleScan(d) PROVE Goal
  BY <1>11 DEF StaleScan
<1>12. ASSUME NEW k \in Runs, RunCompletes(k) PROVE Goal
  BY <1>12 DEF RunCompletes
<1>13. ASSUME NEW k \in Runs, HandleCompletion(k) PROVE Goal
  BY <1>13 DEF HandleCompletion
<1>13a. ASSUME NEW k \in Runs, LoseEvent(k) PROVE Goal
  BY <1>13a DEF LoseEvent
<1>14. CASE ForeignRun
  BY <1>14 DEF ForeignRun
<1>14a. CASE Tick
  BY <1>14a DEF Tick
<1>15. CASE UNCHANGED vars
  BY <1>15 DEF vars
<1> QED
  BY <1>1, <1>2, <1>3, <1>4, <1>5, <1>6, <1>6a, <1>7, <1>8, <1>9, <1>10,
     <1>11, <1>12, <1>13, <1>13a, <1>14, <1>14a, <1>15, NextCases

LEMMA InvHolds == Spec => []IInv
BY InitInv, InvStep, PTL DEF Spec
-----------------------------------------------------------------------------
(* Every variable keeps its type in all behaviours. *)
THEOREM TypeCorrect == Spec => []TypeOK
BY InvHolds, PTL DEF IInv

(* Only one goroutine is between the snapshot and the store of a repo:     *)
(* the mutex of cmtDispatchLocks is held on every path through it.         *)
THEOREM CriticalSection == Spec => []Mutex
BY InvHolds, PTL DEF IInv

(* Whatever fails, the id about to be stored belongs to no other entry, so *)
(* the map write in dispatchAndTrackCMT never drops a set.                 *)
THEOREM ClaimIsFreeHolds == Spec => []ClaimIsFree
BY InvHolds, PTL DEF IInv
-----------------------------------------------------------------------------
(* From the start on, pre is everything up to before: nothing as long as   *)
(* no snapshot is taken, and if it fails.                                  *)
SnapshotKnown ==
  \A d \in Dispatchers :
    /\ pc[d] # "done" => pre[d] = 1..before[d]
    /\ before[d] <= last

NewRunsInv == IInv /\ SnapshotKnown /\ OnlyNewRuns

LEMMA NewRunsStep ==
  ASSUME NewRunsInv, [Next]_vars
  PROVE  NewRunsInv'
<1>1. IInv'
  BY InvStep DEF NewRunsInv
<1> SUFFICES SnapshotKnown' /\ OnlyNewRuns'
  BY <1>1 DEF NewRunsInv
<1> USE DEF NewRunsInv, IInv, TypeOK, SnapshotKnown, OnlyNewRuns, Runs,
            local, memory, github, Goto
<1> DEFINE Goal == SnapshotKnown' /\ OnlyNewRuns'
<1>2. ASSUME NEW d \in Dispatchers, PollPicks(d) PROVE Goal
  <2>1. PICK k \in seen[d] : k \in Candidates(d) /\ picked' = [picked EXCEPT ![d] = k]
    BY <1>2 DEF PollPicks, Newest
  <2>2. k \in 1..last /\ k \notin 1..before[d]
    BY <2>1, <1>2 DEF Candidates, FromGitHub, PollPicks
  <2>3. k > before[d]
    BY <2>2
  <2> QED
    BY <1>2, <2>1, <2>3 DEF PollPicks
<1>3. ASSUME NEW d \in Dispatchers, Snapshot(d) PROVE Goal
  BY <1>3 DEF Snapshot
<1>4. ASSUME NEW d \in Dispatchers,
             MatrixFails(d) \/ Lock(d) \/ SnapshotFails(d)
      PROVE  Goal
  BY <1>4 DEF MatrixFails, Lock, SnapshotFails
<1>4a. ASSUME NEW d \in Dispatchers, Dispatch(d) \/ DispatchFails(d) PROVE Goal
  BY <1>4a DEF Dispatch, DispatchFails
<1>4b. ASSUME NEW d \in Dispatchers, PollList(d) \/ PollAgain(d) PROVE Goal
  BY <1>4b DEF PollList, PollAgain
<1>4c. ASSUME NEW d \in Dispatchers, PollGivesUp(d) \/ Store(d) PROVE Goal
  BY <1>4c DEF PollGivesUp, Store
<1>4d. ASSUME NEW d \in Dispatchers, RunAppears(d) PROVE Goal
  <2>1. last \in Nat /\ last' = last + 1 /\ UNCHANGED <<local, tracked>>
    BY <1>4d DEF RunAppears
  <2> QED
    BY <2>1
<1>4e. ASSUME NEW d \in Dispatchers, StaleScan(d) PROVE Goal
  BY <1>4e DEF StaleScan
<1>5. ASSUME NEW k \in Runs,
             RunCompletes(k) \/ HandleCompletion(k) \/ LoseEvent(k)
      PROVE  Goal
  BY <1>5 DEF RunCompletes, HandleCompletion, LoseEvent
<1>6. CASE ForeignRun \/ Tick
  BY <1>6 DEF ForeignRun, Tick
<1>7. CASE UNCHANGED vars
  BY <1>7 DEF vars
<1> QED
  BY <1>2, <1>3, <1>4, <1>4a, <1>4b, <1>4c, <1>4d, <1>4e,
     <1>5, <1>6, <1>7, NextCases

(* Whatever fails, the poll never returns a run older than the snapshot    *)
(* that its dispatcher took.                                               *)
THEOREM OnlyNewRunsHolds == Spec => []OnlyNewRuns
<1>1. Init => NewRunsInv
  BY InitInv DEF Init, NewRunsInv, SnapshotKnown, OnlyNewRuns
<1>2. NewRunsInv /\ [Next]_vars => NewRunsInv'
  BY NewRunsStep
<1>3. NewRunsInv => OnlyNewRuns
  BY DEF NewRunsInv
<1> QED
  BY <1>1, <1>2, <1>3, PTL DEF Spec
-----------------------------------------------------------------------------
(* The faults that can make a run appear when nobody waits for it. *)
NoStrayRuns ==
  /\ SnapshotMayFail = FALSE
  /\ PollMayFail = FALSE
  /\ AnswerMayBeLost = FALSE
  /\ MaxForeign = 0

(* While a goroutine is in the section, the only run that can be new is    *)
(* the one it dispatched.                                                  *)
NewRunIsOwn ==
  \A d \in Dispatchers :
    /\ pc[d] \in {"ready", "snapshot", "dispatch"} => runOf[d] = 0
    /\ d \in asked => pc[d] \in {"poll", "pick"} /\ runOf[d] = 0
    /\ pc[d] \in {"dispatch", "poll", "pick", "store"} =>
         \A k \in Runs : k > before[d] => k = runOf[d]
    /\ pc[d] = "store" => picked[d] = runOf[d]

RightRunInv == NewRunsInv /\ foreign = {} /\ NewRunIsOwn /\ RightRun

LEMMA RightRunStep ==
  ASSUME NoStrayRuns, RightRunInv, [Next]_vars
  PROVE  RightRunInv'
<1>1. NewRunsInv'
  BY NewRunsStep DEF NoStrayRuns, RightRunInv
<1> SUFFICES foreign' = {} /\ NewRunIsOwn' /\ RightRun'
  BY <1>1 DEF RightRunInv
<1> USE DEF NoStrayRuns, RightRunInv, NewRunsInv, IInv, TypeOK, NewRunIsOwn,
            RightRun, Runs, local, memory, github, Goto, Destroy
<1> DEFINE Goal == foreign' = {} /\ NewRunIsOwn' /\ RightRun'
<1>2. ASSUME NEW d \in Dispatchers, Lock(d) \/ MatrixFails(d) PROVE Goal
  BY <1>2 DEF Lock, MatrixFails
<1>3. ASSUME NEW d \in Dispatchers, Snapshot(d) PROVE Goal
  <2>1. /\ pc[d] = "snapshot" /\ pc' = [pc EXCEPT ![d] = "dispatch"]
        /\ before' = [before EXCEPT ![d] = last]
        /\ UNCHANGED <<picked, tracked, asked, runOf, last, foreign>>
    BY <1>3 DEF Snapshot
  <2> QED
    BY <2>1
<1>4. ASSUME NEW d \in Dispatchers, Dispatch(d) \/ SnapshotFails(d) PROVE Goal
  BY <1>4 DEF Dispatch, SnapshotFails
<1>5. ASSUME NEW d \in Dispatchers, DispatchFails(d) PROVE Goal
  BY <1>5 DEF DispatchFails
<1>6. ASSUME NEW d \in Dispatchers, PollList(d) \/ PollAgain(d) PROVE Goal
  BY <1>6 DEF PollList, PollAgain
<1>7. ASSUME NEW d \in Dispatchers, PollPicks(d) PROVE Goal
  <2>1. PICK k \in seen[d] : k \in Candidates(d) /\ picked' = [picked EXCEPT ![d] = k]
    BY <1>7 DEF PollPicks, Newest
  <2>2. k \in Runs /\ k > before[d]
    <3>1. k \in 1..last /\ k \notin 1..before[d]
      BY <2>1, <1>7 DEF Candidates, FromGitHub, PollPicks, SnapshotKnown
    <3> QED
      BY <3>1
  <2>3. k = runOf[d] /\ k # 0
    BY <2>2, <1>7 DEF PollPicks
  <2>4. d \notin asked
    BY <2>3
  <2> QED
    BY <1>7, <2>1, <2>3, <2>4 DEF PollPicks
<1>8. ASSUME NEW d \in Dispatchers, PollGivesUp(d) PROVE Goal
  BY <1>8 DEF PollGivesUp
<1>9. ASSUME NEW d \in Dispatchers, Store(d) PROVE Goal
  BY <1>9 DEF Store
<1>10. ASSUME NEW d \in Dispatchers, RunAppears(d) PROVE Goal
  <2>1. pc[d] \in {"poll", "pick"} /\ runOf[d] = 0 /\ tracked[d] = 0
    BY <1>10 DEF RunAppears
  <2>2. \A c \in Dispatchers : Holding(c) => c = d
    BY <2>1 DEF Mutex, Holding
  <2>3. \A k \in Runs : ~(k > before[d])
    BY <2>1
  <2>4. RightRun'
    BY <1>10, <2>1 DEF RunAppears
  <2>5. NewRunIsOwn'
    BY <1>10, <2>1, <2>2, <2>3 DEF RunAppears, Holding
  <2> QED
    BY <1>10, <2>4, <2>5 DEF RunAppears
<1>11. ASSUME NEW d \in Dispatchers, StaleScan(d) PROVE Goal
  BY <1>11 DEF StaleScan
<1>12. ASSUME NEW k \in Runs,
              RunCompletes(k) \/ HandleCompletion(k) \/ LoseEvent(k)
       PROVE  Goal
  BY <1>12 DEF RunCompletes, HandleCompletion, LoseEvent
<1>13. CASE ForeignRun
  BY <1>13, FS_EmptySet DEF ForeignRun
<1>13a. CASE Tick
  BY <1>13a DEF Tick
<1>14. CASE UNCHANGED vars
  BY <1>14 DEF vars
<1> QED
  BY <1>2, <1>3, <1>4, <1>5, <1>6, <1>7, <1>8, <1>9, <1>10, <1>11, <1>12,
     <1>13, <1>13a, <1>14, NextCases

(* With no snapshot or poll failing, no answer lost and nobody dispatching *)
(* by hand, every set is tracked under the run that tests it, for any      *)
(* number of goroutines and however early a run completes.                 *)
THEOREM RightRunHolds ==
  ASSUME NoStrayRuns
  PROVE  Spec => []RightRun
<1>1. Init => RightRunInv
  BY InitInv DEF Init, RightRunInv, NewRunsInv, SnapshotKnown, OnlyNewRuns,
                 NewRunIsOwn, RightRun, Runs
<1>2. RightRunInv /\ [Next]_vars => RightRunInv'
  BY RightRunStep
<1>3. RightRunInv => RightRun
  BY DEF RightRunInv
<1> QED
  BY <1>1, <1>2, <1>3, PTL DEF Spec
-----------------------------------------------------------------------------
(* A goroutine that is not through has no entry, and what has become of   *)
(* its servers before there is a run is the stale scan's doing.            *)
OnlyScanned ==
  \A d \in Dispatchers :
    pc[d] # "done" =>
      /\ tracked[d] = 0
      /\ servers[d] = "gone" /\ runOf[d] = 0 => ~InTime(d)

(* A run that is under way has had LongestRun at most, and GitHub announces*)
(* the end of runs that have ended.                                        *)
RunsBounded ==
  /\ \A d \in Dispatchers : UnderWay(d) => age[d] <= began[d] + LongestRun
  /\ events \subseteq finished
  /\ finished \subseteq Runs

TeardownInv == RightRunInv /\ OnlyScanned /\ RunsBounded /\ NoTeardownUnderTest

LEMMA TeardownStep ==
  ASSUME NoStrayRuns, TeardownInv, [Next]_vars
  PROVE  TeardownInv'
<1>1. RightRunInv'
  BY RightRunStep DEF TeardownInv
<1> SUFFICES OnlyScanned' /\ RunsBounded' /\ NoTeardownUnderTest'
  BY <1>1 DEF TeardownInv
<1> USE AgeAssumption
    DEF NoStrayRuns, TeardownInv, RightRunInv, NewRunsInv, IInv, TypeOK,
        OnlyScanned, RunsBounded, NoTeardownUnderTest, NotUnderTest, UnderWay,
        InTime, Runs, local, memory, github, Goto
<1> DEFINE Goal == OnlyScanned' /\ RunsBounded' /\ NoTeardownUnderTest'
<1>2. ASSUME NEW d \in Dispatchers, MatrixFails(d) \/ DispatchFails(d) PROVE Goal
  <2>1. runOf[d] = 0 /\ d \notin asked /\ asked' = asked
    BY <1>2 DEF MatrixFails, DispatchFails, NewRunIsOwn
  <2> QED
    BY <1>2, <2>1 DEF MatrixFails, DispatchFails, Destroy
<1>3. ASSUME NEW d \in Dispatchers,
             Lock(d) \/ Snapshot(d) \/ SnapshotFails(d) \/ PollList(d)
             \/ PollPicks(d) \/ PollAgain(d) \/ PollGivesUp(d)
      PROVE  Goal
  BY <1>3 DEF Lock, Snapshot, SnapshotFails, PollList, PollPicks, PollAgain, PollGivesUp
<1>4. ASSUME NEW d \in Dispatchers, Dispatch(d) PROVE Goal
  <2>1. runOf[d] = 0
    BY <1>4 DEF Dispatch, NewRunIsOwn
  <2> QED
    BY <1>4, <2>1 DEF Dispatch
<1>5. ASSUME NEW d \in Dispatchers, Store(d) PROVE Goal
  BY <1>5 DEF Store
<1>6. ASSUME NEW d \in Dispatchers, RunAppears(d) PROVE Goal
  <2>1. runOf[d] = 0 /\ pc[d] # "done"
    BY <1>6 DEF RunAppears, NewRunIsOwn
  <2>2. servers[d] = "gone" => ~(age[d] + LongestRun < MaxAge)
    BY <2>1
  <2> QED
    BY <1>6, <2>1, <2>2 DEF RunAppears
<1>7. ASSUME NEW d \in Dispatchers, StaleScan(d) PROVE Goal
  <2>1. UnderWay(d) \/ runOf[d] = 0 => ~InTime(d)
    BY <1>7 DEF StaleScan
  <2>2. d \in asked => runOf[d] = 0
    BY DEF NewRunIsOwn
  <2> QED
    BY <1>7, <2>1, <2>2 DEF StaleScan
<1>8. ASSUME NEW k \in Runs, RunCompletes(k) \/ LoseEvent(k) PROVE Goal
  BY <1>8 DEF RunCompletes, LoseEvent
<1>9. ASSUME NEW k \in Runs, HandleCompletion(k) PROVE Goal
  <2>1. \A d \in Dispatchers :
          tracked[d] = k => runOf[d] \in finished /\ pc[d] = "done" /\ d \notin asked
    BY <1>9 DEF HandleCompletion, RightRun, NewRunIsOwn
  <2> QED
    BY <1>9, <2>1 DEF HandleCompletion
<1>10. CASE ForeignRun
  BY <1>10, FS_EmptySet DEF ForeignRun
<1>11. CASE Tick
  <2>1. \A d \in Dispatchers : age[d] <= age'[d] /\ age'[d] <= age[d] + 1
    BY <1>11 DEF Tick
  <2> QED
    BY <1>11, <2>1 DEF Tick
<1>12. CASE UNCHANGED vars
  BY <1>12 DEF vars
<1> QED
  BY <1>2, <1>3, <1>4, <1>5, <1>6, <1>7, <1>8, <1>9, <1>10, <1>11, <1>12, NextCases

(* In the same circumstances no server goes while a run that began in time *)
(* tests it, or one that may still begin in time is to come: a refused     *)
(* dispatch has no run, the completed event takes the set of the run that  *)
(* is over, and the stale scan, which asks for the age only, comes later   *)
(* than the longest such run can last.                                     *)
THEOREM NoTeardownHolds ==
  ASSUME NoStrayRuns
  PROVE  Spec => []NoTeardownUnderTest
<1>1. Init => TeardownInv
  BY InitInv DEF Init, TeardownInv, RightRunInv, NewRunsInv, SnapshotKnown,
                 OnlyNewRuns, NewRunIsOwn, RightRun, Runs, OnlyScanned,
                 RunsBounded, UnderWay, NoTeardownUnderTest
<1>2. TeardownInv /\ [Next]_vars => TeardownInv'
  BY TeardownStep
<1>3. TeardownInv => NoTeardownUnderTest
  BY DEF TeardownInv
<1> QED
  BY <1>1, <1>2, <1>3, PTL DEF Spec
=============================================================================
