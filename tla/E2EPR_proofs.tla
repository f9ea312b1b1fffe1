---------------------------- MODULE E2EPR_proofs ----------------------------
(***************************************************************************)
(* Safety of the PR server life cycle for any set of requests, cleanups,   *)
(* platforms and test platforms, and any number of restarts.               *)
(***************************************************************************)
EXTENDS E2EPR, TLAPS

USE DEF vars, cloudVars, memVars, reqVars, cleanVars, scanVars, procVars

(* TypeOK holds initially and is kept by the steps of every goroutine.     *)
LEMMA TypeInit == Init => TypeOK
<1> SUFFICES ASSUME Init PROVE TypeOK
  OBVIOUS
<1>1. inst \in [Ids -> InstStates]
  BY DEF Init, InstStates
<1>2. /\ pc \in [Requests -> RequestPCs]
      /\ path \in [Requests -> Paths]
      /\ cpc \in [Cleanups -> CleanupPCs]
  BY DEF Init, RequestPCs, CleanupPCs, Paths
<1>3. /\ gen \in [Requests -> Nat]
      /\ held \in [Requests -> SUBSET Ids]
      /\ todo \in [Requests -> SUBSET Ids]
      /\ ctodo \in [Cleanups -> SUBSET Ids]
      /\ run \in [Requests -> {"none", "running", "over"}]
  BY DEF Init
<1>4. crashes \in 0..MaxCrashes /\ generation \in Nat
  BY MaxCrashesAssumption DEF Init
<1> QED
  BY <1>1, <1>2, <1>3, <1>4 DEF Init, TypeOK

LEMMA TypeRequest ==
  ASSUME TypeOK, NEW r \in Requests, RequestProgress(r)
  PROVE  TypeOK'
<1> USE DEF TypeOK, Goto, InstStates, RequestPCs, CleanupPCs, Paths
<1>1. Own(r) \subseteq Ids
  BY DEF Own, Ids
<1>2. CASE SkipDuplicate(r) \/ LookupMiss(r) \/ TriggerFailsReused(r)
  BY <1>2 DEF SkipDuplicate, LookupMiss, TriggerFailsReused
<1>3. CASE EnterGuard(r)
  BY <1>3 DEF EnterGuard
<1>4. CASE LookupMemory(r)
  BY <1>4 DEF LookupMemory
<1>5. CASE FindInCloud(r)
  BY <1>5 DEF FindInCloud, Reusable
<1>6. CASE NotInCloud(r)
  BY <1>1, <1>6 DEF NotInCloud
<1>7. CASE CancelRunsAndWake(r)
  BY <1>7 DEF CancelRunsAndWake
<1>8. ASSUME NEW i \in Own(r), CreateOne(r, i) PROVE TypeOK'
  BY <1>1, <1>8 DEF CreateOne
<1>9. ASSUME NEW i \in Own(r), WorkerDone(r, i) PROVE TypeOK'
  BY <1>1, <1>9 DEF WorkerDone
<1>10. CASE CreateReturns(r)
  BY <1>1, <1>10 DEF CreateReturns
<1>11. CASE CreatedForClosedPR(r)
  BY <1>1, <1>11 DEF CreatedForClosedPR
<1>12. CASE CreateFails(r)
  BY <1>1, <1>12 DEF CreateFails
<1>13. CASE Store(r)
  BY <1>13 DEF Store
<1>14. CASE Discard(r)
  BY <1>14 DEF Discard
<1>15. CASE Trigger(r)
  BY <1>15 DEF Trigger
<1>16. CASE TriggerFailsFresh(r)
  BY <1>16 DEF TriggerFailsFresh
<1>17. CASE DestroyOne(r)
  BY <1>17 DEF DestroyOne, DeleteAccepted, DeleteRefused
<1>18. CASE Release(r)
  BY <1>18 DEF Release
<1> QED
  BY <1>2, <1>3, <1>4, <1>5, <1>6, <1>7, <1>8, <1>9, <1>10, <1>11, <1>12, <1>13,
     <1>14, <1>15, <1>16, <1>17, <1>18 DEF RequestProgress

LEMMA TypeCleanup ==
  ASSUME TypeOK, NEW c \in Cleanups, CleanupProgress(c) \/ StartCleanup(c)
  PROVE  TypeOK'
<1> USE DEF TypeOK, CleanupPCs
<1>1. CASE StartCleanup(c)
  BY <1>1 DEF StartCleanup
<1>2. CASE Take(c)
  BY <1>2 DEF Take
<1>3. CASE CleanupDeletes(c)
  BY <1>3 DEF CleanupDeletes, DeleteAccepted, DeleteRefused, InstStates
<1>4. CASE QueryOrphans(c)
  BY <1>4 DEF QueryOrphans, LiveIds
<1>5. CASE CleanupEnds(c)
  BY <1>5 DEF CleanupEnds
<1> QED
  BY <1>1, <1>2, <1>3, <1>4, <1>5 DEF CleanupProgress

LEMMA TypeScan ==
  ASSUME TypeOK, ScanStep
  PROVE  TypeOK'
<1> USE DEF TypeOK
<1>1. CASE ScanQuery
  BY <1>1 DEF ScanQuery, LiveIds
<1>2. CASE ScanQueryFails
  BY <1>2 DEF ScanQueryFails
<1>3. ASSUME NEW i \in Ids, ScanDeletes(i) PROVE TypeOK'
  BY <1>3 DEF ScanDeletes, DeleteAccepted, InstStates
<1>4. ASSUME NEW i \in Ids, ScanDeleteFails(i) PROVE TypeOK'
  BY <1>4 DEF ScanDeleteFails, DeleteRefused
<1>5. CASE Evict
  BY <1>5 DEF Evict
<1> QED
  BY <1>1, <1>2, <1>3, <1>4, <1>5 DEF ScanStep

LEMMA TypeEnv ==
  ASSUME TypeOK, EnvStep
  PROVE  TypeOK'
<1> USE DEF TypeOK
<1>1. ASSUME NEW r \in Requests, StartRequest(r) PROVE TypeOK'
  BY <1>1 DEF StartRequest, Goto, RequestPCs
<1>2. ASSUME NEW r \in Requests, Ages(r) PROVE TypeOK'
  BY <1>2 DEF Ages
<1>3. ASSUME NEW r \in Requests, RunEnds(r) PROVE TypeOK'
  BY <1>3 DEF RunEnds
<1>4. ASSUME NEW c \in Cleanups, StartCleanup(c) PROVE TypeOK'
  BY <1>4, TypeCleanup
<1>5. ASSUME NEW i \in Ids, ComesUp(i) PROVE TypeOK'
  BY <1>5 DEF ComesUp, InstStates
<1>6. CASE Crash
  <2>1. /\ pc' \in [Requests -> RequestPCs]
        /\ path' \in [Requests -> Paths]
        /\ cpc' \in [Cleanups -> CleanupPCs]
    BY <1>6 DEF Crash, RequestPCs, CleanupPCs, Paths
  <2>2. /\ gen' \in [Requests -> Nat]
        /\ held' \in [Requests -> SUBSET Ids]
        /\ todo' \in [Requests -> SUBSET Ids]
        /\ ctodo' \in [Cleanups -> SUBSET Ids]
    BY <1>6 DEF Crash
  <2>3. crashes' \in 0..MaxCrashes /\ generation' \in Nat
    BY <1>6, MaxCrashesAssumption DEF Crash
  <2>4. lost' \subseteq Ids
    BY <1>6 DEF Crash, LiveIds
  <2> QED
    BY <1>6, <2>1, <2>2, <2>3, <2>4 DEF Crash
<1> QED
  BY <1>1, <1>2, <1>3, <1>4, <1>5, <1>6 DEF EnvStep

LEMMA TypeStep == TypeOK /\ [Next]_vars => TypeOK'
<1> SUFFICES ASSUME TypeOK, [Next]_vars PROVE TypeOK'
  OBVIOUS
<1>1. CASE UNCHANGED vars
  BY <1>1 DEF TypeOK
<1>2. CASE Next
  BY <1>2, TypeRequest, TypeCleanup, TypeScan, TypeEnv DEF Next
<1> QED
  BY <1>1, <1>2

(* Every reachable state is well typed.                                    *)
THEOREM TypeCorrect == Spec => []TypeOK
BY TypeInit, TypeStep, PTL DEF Spec
-----------------------------------------------------------------------------
(* Single flight.  The flag of every working request is up: that is why    *)
(* the request that finds its platform's flag down is alone on it.         *)
FlagsUp == \A r \in Requests : Working(r) => tp[r] \in inProgress
FlagInv == TypeOK /\ FlagsUp /\ SingleFlight

(* Only EnterGuard makes a request start to work, and only Release and a   *)
(* restart lower flags.                                                    *)
LEMMA NoNewWorker ==
  ASSUME TypeOK, [Next]_vars, ~Crash,
         \A r \in Requests : ~EnterGuard(r) /\ ~Release(r)
  PROVE  /\ tp' = tp
         /\ inProgress' = inProgress
         /\ \A q \in Requests : Working(q)' => Working(q)
<1> USE DEF Working, TypeOK, Goto
<1>1. CASE UNCHANGED <<pc, tp, inProgress>>
  BY <1>1
<1>2. ASSUME NEW r \in Requests, RequestProgress(r), ~EnterGuard(r), ~Release(r)
      PROVE  \/ UNCHANGED <<pc, tp, inProgress>>
             \/ /\ UNCHANGED <<tp, inProgress>>
                /\ \E l \in RequestPCs : pc' = [pc EXCEPT ![r] = l]
                /\ Working(r) \/ ~Working(r)'
  <2>1. CASE SkipDuplicate(r)
    BY <2>1 DEF SkipDuplicate, RequestPCs
  <2>2. CASE LookupMemory(r) \/ LookupMiss(r) \/ FindInCloud(r) \/ NotInCloud(r)
    BY <2>2 DEF LookupMemory, LookupMiss, FindInCloud, NotInCloud, RequestPCs
  <2>3. CASE CancelRunsAndWake(r)
    BY <2>3 DEF CancelRunsAndWake, RequestPCs
  <2>4. ASSUME NEW i \in Own(r), CreateOne(r, i) \/ WorkerDone(r, i)
        PROVE  UNCHANGED <<pc, tp, inProgress>>
    BY <2>4 DEF CreateOne, WorkerDone
  <2>5. CASE CreateReturns(r) \/ CreatedForClosedPR(r) \/ CreateFails(r)
    BY <2>5 DEF CreateReturns, CreatedForClosedPR, CreateFails, RequestPCs
  <2>6. CASE Store(r) \/ Discard(r)
    BY <2>6 DEF Store, Discard, RequestPCs
  <2>7. CASE Trigger(r) \/ TriggerFailsReused(r) \/ TriggerFailsFresh(r)
    BY <2>7 DEF Trigger, TriggerFailsReused, TriggerFailsFresh, RequestPCs
  <2>8. CASE DestroyOne(r)
    BY <2>8 DEF DestroyOne
  <2> QED
    BY <1>2, <2>1, <2>2, <2>3, <2>4, <2>5, <2>6, <2>7, <2>8 DEF RequestProgress
<1>3. ASSUME NEW r \in Requests, StartRequest(r)
      PROVE  /\ UNCHANGED <<tp, inProgress>>
             /\ pc' = [pc EXCEPT ![r] = "guard"]
  BY <1>3 DEF StartRequest
<1>4. ASSUME NEW c \in Cleanups, CleanupProgress(c) \/ StartCleanup(c)
      PROVE  UNCHANGED <<pc, tp, inProgress>>
  BY <1>4 DEF CleanupProgress, StartCleanup, Take, CleanupDeletes, QueryOrphans, CleanupEnds
<1>5. ASSUME ScanStep PROVE UNCHANGED <<pc, tp, inProgress>>
  BY <1>5 DEF ScanStep, ScanQuery, ScanQueryFails, ScanDeletes, ScanDeleteFails, Evict
<1>6. ASSUME NEW r \in Requests, Ages(r) \/ RunEnds(r)
      PROVE  UNCHANGED <<pc, tp, inProgress>>
  BY <1>6 DEF Ages, RunEnds
<1>7. ASSUME NEW i \in Ids, ComesUp(i) PROVE UNCHANGED <<pc, tp, inProgress>>
  BY <1>7 DEF ComesUp
<1>8. CASE \E r \in Requests : RequestProgress(r)
  <2>1. PICK r \in Requests : RequestProgress(r)
    BY <1>8
  <2>2. CASE UNCHANGED <<pc, tp, inProgress>>
    BY <2>2
  <2>3. CASE /\ UNCHANGED <<tp, inProgress>>
             /\ \E l \in RequestPCs : pc' = [pc EXCEPT ![r] = l]
             /\ Working(r) \/ ~Working(r)'
    BY <2>3
  <2> QED
    BY <2>1, <2>2, <2>3, <1>2
<1>9. CASE \E r \in Requests : StartRequest(r)
  BY <1>3, <1>9
<1>10. CASE UNCHANGED vars
  BY <1>10
<1> QED
  BY <1>1, <1>4, <1>5, <1>6, <1>7, <1>8, <1>9, <1>10 DEF Next, EnvStep

LEMMA FlagStep == FlagInv /\ [Next]_vars => FlagInv'
<1> SUFFICES ASSUME FlagInv, [Next]_vars PROVE FlagsUp' /\ SingleFlight'
  BY TypeStep DEF FlagInv
<1> USE DEF FlagInv, FlagsUp, SingleFlight
<1>1. CASE \E r \in Requests : EnterGuard(r)
  <2>1. PICK r \in Requests : EnterGuard(r)
    BY <1>1
  <2>2. /\ tp' = tp
        /\ inProgress' = inProgress \cup {tp[r]}
        /\ tp[r] \notin inProgress
        /\ \A q \in Requests \ {r} : Working(q)' => Working(q)
    BY <2>1 DEF EnterGuard, Goto, Working, TypeOK
  <2> QED
    BY <2>2
<1>2. CASE \E r \in Requests : Release(r)
  <2>1. PICK r \in Requests : Release(r)
    BY <1>2
  <2>2. /\ tp' = tp
        /\ inProgress' = inProgress \ {tp[r]}
        /\ Working(r) /\ ~Working(r)'
        /\ \A q \in Requests \ {r} : Working(q)' => Working(q)
    BY <2>1 DEF Release, Goto, Working, TypeOK
  <2> QED
    BY <2>2
<1>3. CASE Crash
  BY <1>3 DEF Crash, Working
<1>4. CASE ~Crash /\ \A r \in Requests : ~EnterGuard(r) /\ ~Release(r)
  BY <1>4, NoNewWorker
<1> QED
  BY <1>1, <1>2, <1>3, <1>4

(* At most one request of a test platform provisions or dispatches.        *)
THEOREM SingleFlightHolds == Spec => []SingleFlight
<1>1. Init => FlagInv
  BY TypeInit DEF Init, FlagInv, FlagsUp, SingleFlight, Working
<1> QED
  BY <1>1, FlagStep, PTL DEF Spec, FlagInv
-----------------------------------------------------------------------------
(* Resets win.  A request that has not got its set yet holds nothing, so   *)
(* a new snapshot or a new set never overwrites the witness of a nonempty  *)
(* entry; and a bump is followed by a Take of the same cleanup before the  *)
(* entry can be called current again.                                      *)
Unprovisioned == {"idle", "guard", "lookup", "query", "create"}
HeldLater == \A r \in Requests : pc[r] \in Unprovisioned => held[r] = {}
CurrentInv == TypeOK /\ HeldLater /\ TrackedIsCurrent

LEMMA HeldLaterStep == TypeOK /\ HeldLater /\ [Next]_vars => HeldLater'
<1> SUFFICES ASSUME TypeOK, HeldLater, [Next]_vars PROVE HeldLater'
  OBVIOUS
<1> USE DEF TypeOK, HeldLater, Unprovisioned, Goto
<1>1. CASE UNCHANGED <<pc, held>>
  BY <1>1
<1>2. ASSUME NEW r \in Requests, RequestProgress(r) PROVE HeldLater'
  <2>1. CASE SkipDuplicate(r) \/ EnterGuard(r) \/ LookupMiss(r) \/ NotInCloud(r)
    BY <2>1 DEF SkipDuplicate, EnterGuard, LookupMiss, NotInCloud
  <2>2. CASE LookupMemory(r) \/ FindInCloud(r) \/ CreateReturns(r) \/ CreatedForClosedPR(r)
    BY <2>2 DEF LookupMemory, FindInCloud, CreateReturns, CreatedForClosedPR
  <2>3. CASE CancelRunsAndWake(r)
    BY <2>3 DEF CancelRunsAndWake
  <2>4. ASSUME NEW i \in Own(r), CreateOne(r, i) \/ WorkerDone(r, i)
        PROVE  HeldLater'
    BY <2>4 DEF CreateOne, WorkerDone
  <2>5. CASE CreateFails(r) \/ Store(r) \/ Discard(r) \/ DestroyOne(r) \/ Release(r)
    BY <2>5 DEF CreateFails, Store, Discard, DestroyOne, Release
  <2>6. CASE Trigger(r) \/ TriggerFailsReused(r) \/ TriggerFailsFresh(r)
    BY <2>6 DEF Trigger, TriggerFailsReused, TriggerFailsFresh
  <2> QED
    BY <1>2, <2>1, <2>2, <2>3, <2>4, <2>5, <2>6 DEF RequestProgress
<1>3. ASSUME NEW r \in Requests, StartRequest(r) PROVE HeldLater'
  BY <1>3 DEF StartRequest
<1>4. ASSUME NEW c \in Cleanups, CleanupProgress(c) \/ StartCleanup(c)
      PROVE  UNCHANGED <<pc, held>>
  BY <1>4 DEF CleanupProgress, StartCleanup, Take, CleanupDeletes, QueryOrphans, CleanupEnds
<1>5. ASSUME ScanStep PROVE UNCHANGED <<pc, held>>
  BY <1>5 DEF ScanStep, ScanQuery, ScanQueryFails, ScanDeletes, ScanDeleteFails, Evict
<1>6. ASSUME NEW r \in Requests, Ages(r) \/ RunEnds(r) PROVE UNCHANGED <<pc, held>>
  BY <1>6 DEF Ages, RunEnds
<1>7. ASSUME NEW i \in Ids, ComesUp(i) PROVE UNCHANGED <<pc, held>>
  BY <1>7 DEF ComesUp
<1>8. CASE Crash
  BY <1>8 DEF Crash
<1>9. CASE UNCHANGED vars
  BY <1>9
<1> QED
  BY <1>1, <1>2, <1>3, <1>4, <1>5, <1>6, <1>7, <1>8, <1>9 DEF Next, EnvStep

LEMMA CurrentStep == CurrentInv /\ [Next]_vars => CurrentInv'
<1> SUFFICES ASSUME CurrentInv, [Next]_vars PROVE TrackedIsCurrent'
  BY TypeStep, HeldLaterStep DEF CurrentInv
<1> USE DEF CurrentInv, TypeOK, TrackedIsCurrent, Goto
<1>1. CASE UNCHANGED <<tracked, cpc, held, gen, generation>>
  BY <1>1
<1>2. ASSUME NEW r \in Requests, RequestProgress(r) PROVE TrackedIsCurrent'
  <2>1. CASE \/ SkipDuplicate(r) \/ EnterGuard(r) \/ LookupMiss(r) \/ NotInCloud(r)
             \/ CreateFails(r) \/ Discard(r) \/ DestroyOne(r) \/ Release(r)
    BY <2>1, <1>1 DEF SkipDuplicate, EnterGuard, LookupMiss, NotInCloud, CreateFails, Discard,
       DestroyOne, Release
  <2>2. CASE CancelRunsAndWake(r) \/ Trigger(r) \/ TriggerFailsReused(r)
    BY <2>2, <1>1 DEF CancelRunsAndWake, Trigger, TriggerFailsReused
  <2>3. ASSUME NEW i \in Own(r), CreateOne(r, i) \/ WorkerDone(r, i)
        PROVE  TrackedIsCurrent'
    BY <2>3, <1>1 DEF CreateOne, WorkerDone
  <2>4. CASE LookupMemory(r)
    BY <2>4 DEF LookupMemory
  <2>5. CASE FindInCloud(r) \/ CreateReturns(r) \/ CreatedForClosedPR(r)
    <3>1. /\ held[r] = {}
          /\ UNCHANGED <<tracked, cpc, gen, generation>>
          /\ \A q \in Requests \ {r} : held'[q] = held[q]
      BY <2>5 DEF FindInCloud, CreateReturns, CreatedForClosedPR, HeldLater, Unprovisioned
    <3> QED
      BY <3>1
  <2>6. CASE Store(r)
    BY <2>6 DEF Store, IsCurrent
  <2>7. CASE TriggerFailsFresh(r)
    BY <2>7 DEF TriggerFailsFresh
  <2> QED
    BY <1>2, <2>1, <2>2, <2>3, <2>4, <2>5, <2>6, <2>7 DEF RequestProgress
<1>3. ASSUME NEW r \in Requests, StartRequest(r) PROVE TrackedIsCurrent'
  <2>1. /\ held[r] = {}
        /\ UNCHANGED <<tracked, cpc, held, generation>>
        /\ \A q \in Requests \ {r} : gen'[q] = gen[q]
    BY <1>3 DEF StartRequest, HeldLater, Unprovisioned
  <2> QED
    BY <2>1
<1>4. ASSUME NEW c \in Cleanups, StartCleanup(c) PROVE TrackedIsCurrent'
  BY <1>4 DEF StartCleanup
<1>5. ASSUME NEW c \in Cleanups, CleanupProgress(c) PROVE TrackedIsCurrent'
  <2>1. CASE Take(c)
    BY <2>1 DEF Take
  <2>2. CASE CleanupDeletes(c)
    BY <2>2, <1>1 DEF CleanupDeletes
  <2>3. CASE QueryOrphans(c) \/ CleanupEnds(c)
    <3>1. /\ UNCHANGED <<tracked, held, gen, generation>>
          /\ cpc[c] # "take"
          /\ \A d \in Cleanups \ {c} : cpc'[d] = cpc[d]
      BY <2>3 DEF QueryOrphans, CleanupEnds
    <3> QED
      BY <3>1
  <2> QED
    BY <1>5, <2>1, <2>2, <2>3 DEF CleanupProgress
<1>6. CASE ScanStep
  <2>1. CASE Evict
    BY <2>1 DEF Evict
  <2>2. CASE ~Evict
    BY <1>6, <2>2, <1>1 DEF ScanStep, ScanQuery, ScanQueryFails, ScanDeletes, ScanDeleteFails
  <2> QED
    BY <2>1, <2>2
<1>7. ASSUME NEW r \in Requests, Ages(r) \/ RunEnds(r) PROVE TrackedIsCurrent'
  BY <1>7, <1>1 DEF Ages, RunEnds
<1>8. ASSUME NEW i \in Ids, ComesUp(i) PROVE TrackedIsCurrent'
  BY <1>8, <1>1 DEF ComesUp
<1>9. CASE Crash
  BY <1>9 DEF Crash
<1>10. CASE UNCHANGED vars
  BY <1>10, <1>1
<1> QED
  BY <1>2, <1>3, <1>4, <1>5, <1>6, <1>7, <1>8, <1>9, <1>10 DEF Next, EnvStep

(* Once a reset has taken the entry, no set of an older generation comes   *)
(* back into the map.                                                      *)
THEOREM TrackedIsCurrentHolds == Spec => []TrackedIsCurrent
<1>1. Init => CurrentInv
  BY TypeInit DEF Init, CurrentInv, HeldLater, TrackedIsCurrent
<1> QED
  BY <1>1, CurrentStep, PTL DEF Spec, CurrentInv
-----------------------------------------------------------------------------
(* Complete sets.  Whatever a request holds came from the map, from a      *)
(* query that found one server per platform, or from its own workers.      *)
HeldComplete == \A r \in Requests : held[r] = {} \/ OnePerPlatform(held[r])
TrackedComplete == tracked = {} \/ OnePerPlatform(tracked)
CompleteInv == TypeOK /\ HeldComplete /\ TrackedComplete

LEMMA OwnIsComplete ==
  ASSUME NEW r \in Requests
  PROVE  OnePerPlatform(Own(r))
<1> SUFFICES ASSUME NEW p \in Platforms
             PROVE  Own(r) \cap (Requests \X {p}) = {<<r, p>>}
  BY DEF OnePerPlatform, Own
<1> QED
  BY DEF Own

LEMMA CompleteStep == CompleteInv /\ [Next]_vars => CompleteInv'
<1> SUFFICES ASSUME CompleteInv, [Next]_vars PROVE HeldComplete' /\ TrackedComplete'
  BY TypeStep DEF CompleteInv
<1> USE DEF CompleteInv, TypeOK, HeldComplete, TrackedComplete, Goto
<1>1. CASE UNCHANGED <<tracked, held>>
  BY <1>1 DEF OnePerPlatform
<1>2. CASE tracked' = {} /\ UNCHANGED held
  BY <1>2 DEF OnePerPlatform
<1>3. ASSUME NEW r \in Requests, RequestProgress(r) PROVE HeldComplete' /\ TrackedComplete'
  <2>1. CASE \/ SkipDuplicate(r) \/ EnterGuard(r) \/ LookupMiss(r) \/ NotInCloud(r)
             \/ CreateFails(r) \/ Discard(r) \/ DestroyOne(r) \/ Release(r)
    BY <2>1, <1>1 DEF SkipDuplicate, EnterGuard, LookupMiss, NotInCloud, CreateFails, Discard,
       DestroyOne, Release
  <2>2. CASE CancelRunsAndWake(r) \/ Trigger(r) \/ TriggerFailsReused(r)
    BY <2>2, <1>1 DEF CancelRunsAndWake, Trigger, TriggerFailsReused
  <2>3. ASSUME NEW i \in Own(r), CreateOne(r, i) \/ WorkerDone(r, i)
        PROVE  HeldComplete' /\ TrackedComplete'
    BY <2>3, <1>1 DEF CreateOne, WorkerDone
  <2>4. CASE LookupMemory(r)
    BY <2>4 DEF LookupMemory, OnePerPlatform
  <2>5. CASE FindInCloud(r)
    BY <2>5 DEF FindInCloud, IsCompleteSet, OnePerPlatform
  <2>6. CASE CreateReturns(r) \/ CreatedForClosedPR(r)
    <3>1. OnePerPlatform(held'[r])
      BY <2>6, OwnIsComplete DEF CreateReturns, CreatedForClosedPR
    <3>2. /\ tracked' = tracked
          /\ \A q \in Requests \ {r} : held'[q] = held[q]
      BY <2>6 DEF CreateReturns, CreatedForClosedPR
    <3> QED
      BY <3>1, <3>2 DEF OnePerPlatform
  <2>7. CASE Store(r)
    BY <2>7 DEF Store, OnePerPlatform
  <2>8. CASE TriggerFailsFresh(r)
    BY <2>8, <1>2 DEF TriggerFailsFresh
  <2> QED
    BY <1>3, <2>1, <2>2, <2>3, <2>4, <2>5, <2>6, <2>7, <2>8 DEF RequestProgress
<1>4. ASSUME NEW c \in Cleanups, CleanupProgress(c) \/ StartCleanup(c)
      PROVE  HeldComplete' /\ TrackedComplete'
  BY <1>4, <1>1, <1>2
     DEF CleanupProgress, StartCleanup, Take, CleanupDeletes, QueryOrphans, CleanupEnds
<1>5. CASE ScanStep
  BY <1>5, <1>1, <1>2 DEF ScanStep, ScanQuery, ScanQueryFails, ScanDeletes, ScanDeleteFails, Evict
<1>6. ASSUME NEW r \in Requests, StartRequest(r) \/ Ages(r) \/ RunEnds(r)
      PROVE  HeldComplete' /\ TrackedComplete'
  BY <1>6, <1>1 DEF StartRequest, Ages, RunEnds
<1>7. ASSUME NEW i \in Ids, ComesUp(i) PROVE HeldComplete' /\ TrackedComplete'
  BY <1>7, <1>1 DEF ComesUp
<1>8. CASE Crash
  BY <1>8 DEF Crash
<1>9. CASE UNCHANGED vars
  BY <1>9, <1>1
<1> QED
  BY <1>3, <1>4, <1>5, <1>6, <1>7, <1>8, <1>9 DEF Next, EnvStep

(* The map and every dispatched workflow have one server per platform.     *)
THEOREM SetsCompleteHolds == Spec => []SetsComplete
<1>1. Init => CompleteInv
  BY TypeInit DEF Init, CompleteInv, HeldComplete, TrackedComplete
<1>2. CompleteInv => SetsComplete
  BY DEF CompleteInv, HeldComplete, TrackedComplete, SetsComplete
<1> QED
  BY <1>1, <1>2, CompleteStep, PTL DEF Spec
-----------------------------------------------------------------------------
(* Accounting.  Being live, tracked, in hand or lost changes for one       *)
(* installation or one entry at a time; the type invariant is all that the *)
(* induction needs besides.                                                *)
AccountInv == TypeOK /\ EveryServerAccounted

LEMMA AccountRequest ==
  ASSUME AccountInv, NEW r \in Requests, RequestProgress(r)
  PROVE  EveryServerAccounted'
<1> USE DEF AccountInv, TypeOK, EveryServerAccounted, InHand, Live, Goto
<1>1. CASE SkipDuplicate(r) \/ LookupMiss(r) \/ EnterGuard(r)
  BY <1>1 DEF SkipDuplicate, LookupMiss, EnterGuard
<1>2. CASE LookupMemory(r) \/ FindInCloud(r)
  BY <1>2 DEF LookupMemory, FindInCloud
<1>3. CASE NotInCloud(r)
  BY <1>3 DEF NotInCloud
<1>4. CASE CancelRunsAndWake(r)
  BY <1>4 DEF CancelRunsAndWake
<1>5. ASSUME NEW i \in Own(r), CreateOne(r, i) PROVE EveryServerAccounted'
  BY <1>5 DEF CreateOne, Own, Ids
<1>6. ASSUME NEW i \in Own(r), WorkerDone(r, i) PROVE EveryServerAccounted'
  BY <1>6 DEF WorkerDone
<1>7. CASE CreateReturns(r)
  BY <1>7 DEF CreateReturns
<1>8. CASE CreatedForClosedPR(r)
  BY <1>8 DEF CreatedForClosedPR
<1>9. CASE CreateFails(r)
  BY <1>9 DEF CreateFails
<1>10. CASE Store(r)
  BY <1>10 DEF Store
<1>11. CASE Discard(r)
  BY <1>11 DEF Discard
<1>12. CASE Trigger(r) \/ TriggerFailsReused(r)
  BY <1>12 DEF Trigger, TriggerFailsReused
<1>13. CASE TriggerFailsFresh(r)
  BY <1>13 DEF TriggerFailsFresh
<1>14. CASE DestroyOne(r)
  BY <1>14 DEF DestroyOne, DeleteAccepted, DeleteRefused
<1>15. CASE Release(r)
  BY <1>15 DEF Release
<1> QED
  BY <1>1, <1>2, <1>3, <1>4, <1>5, <1>6, <1>7, <1>8, <1>9, <1>10, <1>11, <1>12, <1>13,
     <1>14, <1>15 DEF RequestProgress

LEMMA AccountCleanup ==
  ASSUME AccountInv, NEW c \in Cleanups, CleanupProgress(c) \/ StartCleanup(c)
  PROVE  EveryServerAccounted'
<1> USE DEF AccountInv, TypeOK, EveryServerAccounted, InHand, Live
<1>1. CASE StartCleanup(c)
  BY <1>1 DEF StartCleanup
<1>2. CASE Take(c)
  BY <1>2 DEF Take
<1>3. CASE CleanupDeletes(c)
  BY <1>3 DEF CleanupDeletes, DeleteAccepted, DeleteRefused
<1>4. CASE QueryOrphans(c)
  BY <1>4 DEF QueryOrphans
<1>5. CASE CleanupEnds(c)
  BY <1>5 DEF CleanupEnds
<1> QED
  BY <1>1, <1>2, <1>3, <1>4, <1>5 DEF CleanupProgress

LEMMA AccountScan ==
  ASSUME AccountInv, ScanStep
  PROVE  EveryServerAccounted'
<1> USE DEF AccountInv, TypeOK, EveryServerAccounted, InHand, Live
<1>1. CASE ScanQuery \/ ScanQueryFails
  BY <1>1 DEF ScanQuery, ScanQueryFails
<1>2. ASSUME NEW i \in Ids, ScanDeletes(i) \/ ScanDeleteFails(i)
      PROVE  EveryServerAccounted'
  BY <1>2 DEF ScanDeletes, ScanDeleteFails, DeleteAccepted, DeleteRefused
<1>3. CASE Evict
  BY <1>3 DEF Evict
<1> QED
  BY <1>1, <1>2, <1>3 DEF ScanStep

LEMMA AccountEnv ==
  ASSUME AccountInv, EnvStep
  PROVE  EveryServerAccounted'
<1> USE DEF AccountInv, TypeOK, EveryServerAccounted, InHand, Live
<1>1. ASSUME NEW r \in Requests, StartRequest(r) PROVE EveryServerAccounted'
  BY <1>1 DEF StartRequest, Goto
<1>2. ASSUME NEW r \in Requests, Ages(r) \/ RunEnds(r) PROVE EveryServerAccounted'
  BY <1>2 DEF Ages, RunEnds
<1>3. ASSUME NEW c \in Cleanups, StartCleanup(c) PROVE EveryServerAccounted'
  BY <1>3, AccountCleanup
<1>4. ASSUME NEW i \in Ids, ComesUp(i) PROVE EveryServerAccounted'
  BY <1>4 DEF ComesUp
<1>5. CASE Crash
  BY <1>5 DEF Crash, LiveIds
<1> QED
  BY <1>1, <1>2, <1>3, <1>4, <1>5 DEF EnvStep

LEMMA AccountStep == AccountInv /\ [Next]_vars => AccountInv'
<1> SUFFICES ASSUME AccountInv, [Next]_vars PROVE EveryServerAccounted'
  BY TypeStep DEF AccountInv
<1>1. CASE UNCHANGED vars
  BY <1>1 DEF AccountInv, EveryServerAccounted, InHand, Live
<1>2. CASE Next
  BY <1>2, AccountRequest, AccountCleanup, AccountScan, AccountEnv DEF Next
<1> QED
  BY <1>1, <1>2

(* No live server is forgotten except at the points that lost records.     *)
THEOREM EveryServerAccountedHolds == Spec => []EveryServerAccounted
<1>1. Init => AccountInv
  BY TypeInit DEF Init, AccountInv, EveryServerAccounted, Live
<1> QED
  BY <1>1, AccountStep, PTL DEF Spec, AccountInv
=============================================================================
