--------------------------- MODULE PushE2E_proofs ---------------------------
(***************************************************************************)
(* Proofs about PushE2E for any number of pushes, platforms and branches.  *)
(* The cache has an invariant of its own, and every step of a push or of   *)
(* GitHub either leaves the cache alone or is one of its steps.            *)
(***************************************************************************)
EXTENDS PushE2E, TLAPS

PCs == {"idle", "resolve", "create", "key", "store", "version", "dispatch", "done"}

(* All calls in flight began with the same cache, for while there is one   *)
(* the cache does not get stale: what it holds by now is no less.          *)
CacheInv ==
  /\ cache <= released
  /\ fresh => cache # 0
  /\ \A r \in Resolvers :
       stage[r] = "read" => atStart[r] <= got[r] /\ got[r] # 0 /\ got[r] <= released
  /\ \A r \in Resolvers :
       stage[r] # "out" => atStart[r] <= cache /\ (~fresh => atStart[r] = cache)
  /\ \A r, q \in Resolvers : stage[r] # "out" /\ stage[q] # "out" => atStart[r] = atStart[q]

CacheStep ==
  \/ \E r \in Resolvers : Asks(r) \/ Returns(r)
  \/ Release \/ CacheAges \/ UNCHANGED cacheVars

LEMMA CacheTypeStep ==
  ASSUME CacheTypeOK, CacheStep
  PROVE  CacheTypeOK'
<1> USE ReleasesAssumption DEF CacheTypeOK, Versions
<1>1. ASSUME NEW r \in Resolvers, AskReleases(r) PROVE CacheTypeOK'
  BY <1>1 DEF AskReleases
<1>2. ASSUME NEW r \in Resolvers, ReadReleases(r) PROVE CacheTypeOK'
  BY <1>2 DEF ReadReleases
<1>3. ASSUME NEW r \in Resolvers, ReturnCached(r) PROVE CacheTypeOK'
  BY <1>3 DEF ReturnCached, Return
<1>4. ASSUME NEW r \in Resolvers, FallBack(r) PROVE CacheTypeOK'
  BY <1>4 DEF FallBack, Return
<1>5. ASSUME NEW r \in Resolvers, KeepVersion(r) PROVE CacheTypeOK'
  BY <1>5 DEF KeepVersion, Return
<1>6. CASE Release
  BY <1>6 DEF Release
<1>7. CASE CacheAges
  BY <1>7 DEF CacheAges
<1>8. CASE UNCHANGED cacheVars
  BY <1>8 DEF cacheVars
<1>9. QED
  BY <1>1, <1>2, <1>3, <1>4, <1>5, <1>6, <1>7, <1>8 DEF CacheStep, Asks, Returns

LEMMA CacheInvStep ==
  ASSUME CacheTypeOK, CacheInv, CacheStep
  PROVE  CacheInv'
<1> USE ReleasesAssumption DEF CacheTypeOK, CacheInv, Versions
<1>1. ASSUME NEW r \in Resolvers, AskReleases(r) PROVE CacheInv'
  BY <1>1 DEF AskReleases, Hit
<1>2. ASSUME NEW r \in Resolvers, ReadReleases(r) PROVE CacheInv'
  BY <1>2 DEF ReadReleases
<1>3. ASSUME NEW r \in Resolvers, ReturnCached(r) PROVE CacheInv'
  BY <1>3 DEF ReturnCached, Return
<1>4. ASSUME NEW r \in Resolvers, FallBack(r) PROVE CacheInv'
  BY <1>4 DEF FallBack, Return
<1>5. ASSUME NEW r \in Resolvers, KeepVersion(r) PROVE CacheInv'
  <2>1. \A q \in Resolvers : stage[q] # "out" => atStart[q] <= got[r]
    BY <1>5 DEF KeepVersion
  <2>2. QED
    BY <1>5, <2>1 DEF KeepVersion, Return
<1>6. CASE Release
  BY <1>6 DEF Release
<1>7. CASE CacheAges
  BY <1>7 DEF CacheAges
<1>8. CASE UNCHANGED cacheVars
  BY <1>8 DEF cacheVars
<1>9. QED
  BY <1>1, <1>2, <1>3, <1>4, <1>5, <1>6, <1>7, <1>8 DEF CacheStep, Asks, Returns

(* A step that ends a call returns no less than the cache held when the    *)
(* call began.                                                             *)
LEMMA CacheReturns ==
  ASSUME CacheTypeOK, CacheInv, CacheStep,
         NEW p \in Resolvers, stage[p] # "out", stage'[p] = "out"
  PROVE  version'[p] >= atStart[p]
<1> USE ReleasesAssumption DEF CacheTypeOK, CacheInv, Versions
<1>1. ASSUME NEW r \in Resolvers, Asks(r) PROVE FALSE
  BY <1>1 DEF Asks, AskReleases, ReadReleases
<1>2. ASSUME NEW r \in Resolvers, FallBack(r) PROVE version'[p] >= atStart[p]
  BY <1>2 DEF FallBack, Return
<1>3. ASSUME NEW r \in Resolvers, KeepVersion(r) PROVE version'[p] >= atStart[p]
  BY <1>3 DEF KeepVersion, Return
<1>4. ASSUME NEW r \in Resolvers, ReturnCached(r) PROVE FALSE
  BY <1>4 DEF ReturnCached, Return
<1>5. CASE Release \/ CacheAges \/ UNCHANGED cacheVars
  BY <1>5 DEF Release, CacheAges, cacheVars
<1>6. QED
  BY <1>1, <1>2, <1>3, <1>4, <1>5 DEF CacheStep, Returns
-----------------------------------------------------------------------------
LEMMA NextIsCacheStep == [Next]_vars => CacheStep
<1> SUFFICES ASSUME [Next]_vars PROVE CacheStep
  OBVIOUS
<1>1. ASSUME NEW p \in Pushes, PushStep(p) PROVE CacheStep
  BY <1>1 DEF PushStep, CacheStep, Pushes, Push, Resolve, Created, CreateFails, Key, Store,
       ResolveAgain, Dispatch, DispatchFails, ServerUp, ServerFails
<1>2. ASSUME NEW p \in Pushes, RunCompletes(p) PROVE CacheStep
  BY <1>2 DEF CacheStep, RunCompletes
<1>2a. ASSUME NEW s \in Sets, Ages(s) \/ \E f \in Platforms : StaleScan(s, f)
       PROVE  CacheStep
  BY <1>2a DEF CacheStep, Ages, StaleScan
<1>3. ASSUME NEW e \in events, HandleCompletion(e) PROVE CacheStep
  BY <1>3 DEF CacheStep, HandleCompletion
<1>4. CASE (\E b \in Branches : RunByHand(b)) \/ HandleByHand
  BY <1>4 DEF CacheStep, RunByHand, HandleByHand
<1>5. CASE Release \/ CacheAges
  BY <1>5 DEF CacheStep
<1>6. CASE UNCHANGED vars
  BY <1>6 DEF CacheStep, vars
<1>7. QED
  BY <1>1, <1>2, <1>2a, <1>3, <1>4, <1>5, <1>6 DEF Next

LEMMA CacheInitially == Init => CacheTypeOK /\ CacheInv
<1>1. Init => CacheInit
  BY DEF Init
<1>2. CacheInit => CacheTypeOK
  <2>1. 0 \in Versions
    BY ReleasesAssumption DEF Versions
  <2>2. QED
    BY <2>1 DEF CacheInit, CacheTypeOK
<1>3. CacheInit => CacheInv
  BY ReleasesAssumption DEF CacheInit, CacheInv, Versions
<1>4. QED
  BY <1>1, <1>2, <1>3

(* A call never returns less than the cache held when it began.            *)
(* src/server/version.go:17-117.                                           *)
THEOREM NoVersionLost == Spec => VersionNotLost
<1>1. CacheTypeOK /\ CacheInv /\ [Next]_vars => CacheTypeOK' /\ CacheInv'
  BY NextIsCacheStep, CacheTypeStep, CacheInvStep
<1>2. CacheTypeOK /\ CacheInv /\ [Next]_vars
        => [\A p \in Pushes : stage[p] # "out" /\ stage'[p] = "out" => version'[p] >= atStart[p]]_vars
  BY NextIsCacheStep, CacheReturns DEF Pushes
<1>3. QED
  BY CacheInitially, <1>1, <1>2, PTL DEF Spec, VersionNotLost
-----------------------------------------------------------------------------
USE DEF Pushes, Goto

LEMMA TypeInit == Init => TypeOK
<1> SUFFICES ASSUME Init PROVE TypeOK
  OBVIOUS
<1>1. CacheTypeOK
  BY CacheInitially
<1>2. sha \in [Sets -> 0..MaxCommits] /\ runSha \in [Sets -> 0..MaxCommits]
  BY PushBoundsAssumption DEF Init, Commits
<1>3. run \in [Sets -> {"none", "running", "over"}]
  BY DEF Init
<1>4. up \subseteq Sets \X Platforms /\ tracked \subseteq Sets
  BY DEF Init, Servers, Sets
<1>5. QED
  BY <1>1, <1>2, <1>3, <1>4 DEF Init, TypeOK

LEMMA TypeStep == TypeOK /\ [Next]_vars => TypeOK'
<1> SUFFICES ASSUME TypeOK, [Next]_vars PROVE TypeOK'
  OBVIOUS
<1>c. CacheTypeOK'
  BY NextIsCacheStep, CacheTypeStep DEF TypeOK
<1>0. /\ Commits \subseteq 0..MaxCommits
      /\ Pushes \subseteq Sets
  BY PushBoundsAssumption DEF Commits, Sets
<1> USE <1>c, <1>0 DEF TypeOK
<1>1. ASSUME NEW p \in Pushes, PushStep(p) PROVE TypeOK'
  <2>1. CASE Push(p)
    BY <2>1 DEF Push, runVars
  <2>2. CASE Resolve(p)
    BY <2>2 DEF Resolve, runVars
  <2>3. ASSUME NEW f \in Platforms, ServerUp(p, f) PROVE TypeOK'
    BY <2>3 DEF ServerUp, runVars
  <2>4. ASSUME NEW f \in Platforms, ServerFails(p, f) PROVE TypeOK'
    BY <2>4 DEF ServerFails, runVars
  <2>5. CASE Created(p)
    BY <2>5 DEF Created, runVars
  <2>6. CASE CreateFails(p)
    BY <2>6 DEF CreateFails, Destroy, runVars
  <2>7. CASE Key(p)
    BY <2>7 DEF Key, Then, runVars
  <2>8. CASE Store(p)
    BY <2>8 DEF Store, Then, runVars
  <2>9. CASE ResolveAgain(p)
    BY <2>9 DEF ResolveAgain, Then, runVars
  <2>10. CASE Dispatch(p)
    BY <2>10 DEF Dispatch, Then
  <2>11. CASE DispatchFails(p)
    BY <2>11 DEF DispatchFails, Destroy
  <2>12. QED
    BY <1>1, <2>1, <2>2, <2>3, <2>4, <2>5, <2>6, <2>7, <2>8, <2>9, <2>10, <2>11 DEF PushStep
<1>2. ASSUME NEW p \in Pushes, RunCompletes(p) PROVE TypeOK'
  BY <1>2 DEF RunCompletes, pushVars
<1>3. ASSUME NEW s \in Sets, NEW f \in Platforms, StaleScan(s, f) PROVE TypeOK'
  BY <1>3 DEF StaleScan, Destroy, pushVars, runVars
<1>3a. ASSUME NEW s \in Sets, Ages(s) PROVE TypeOK'
  BY <1>3a DEF Ages, pushVars, runVars
<1>4. ASSUME NEW e \in events, HandleCompletion(e) PROVE TypeOK'
  BY <1>4 DEF HandleCompletion, DestroyByCommit, Destroy, pushVars
<1>5. ASSUME NEW b \in Branches, RunByHand(b) PROVE TypeOK'
  BY <1>5 DEF RunByHand, pushVars
<1>6. CASE HandleByHand
  BY <1>6 DEF HandleByHand, DestroyByCommit, Destroy, pushVars, runVars
<1>7. CASE (Release \/ CacheAges) /\ UNCHANGED <<head, pushVars, up, old, tracked, runVars>>
  BY <1>7 DEF pushVars, runVars
<1>8. CASE UNCHANGED vars
  BY <1>8 DEF vars, pushVars, runVars
<1>9. QED
  BY <1>1, <1>2, <1>3, <1>3a, <1>4, <1>5, <1>6, <1>7, <1>8 DEF Next

(* Every variable keeps its type.  src/server/push_events.go.              *)
THEOREM TypeCorrect == Spec => []TypeOK
  BY TypeInit, TypeStep, PTL DEF Spec
-----------------------------------------------------------------------------
Has(s) == \A f \in Platforms : <<s, f>> \in up

LEMMA ServersOf ==
  ASSUME NEW s
  PROVE  /\ Servers(s) \subseteq up <=> Has(s)
         /\ Servers(s) \cap up = {} <=> \A f \in Platforms : <<s, f>> \notin up
  BY DEF Servers, Has

(* What the control state of a push says about its run and its entry.      *)
Control ==
  /\ \A p \in Pushes :
       /\ pc[p] # "idle" => sha[p] # 0
       /\ creating[p] # {} => pc[p] = "create"
       /\ run[p] # "none" => pc[p] = "done"
       /\ p \in tracked => pc[p] \in {"version", "dispatch", "done"}
  /\ \A e \in events : e[1] \in Pushes /\ run[e[1]] = "over" /\ runSha[e[1]] = e[2]
  /\ \A p \in Pushes : runSha[p] # 0 => run[p] # "none"

(* Once past its key a push keeps its commit: what may clash does so for   *)
(* good.                                                                   *)
NoClash(p) ==
  \A q \in Pushes \ {p} : sha[q] = sha[p] => pc[q] \in {"idle", "resolve", "create", "key"}

(* The servers of a set not torn down, from when they are up and as long   *)
(* as the stale scan lets them be.                                         *)
Standing ==
  /\ run[CMT] = "running" /\ (CMT \notin old => Has(CMT))
  /\ \A p \in Pushes \ old :
       /\ pc[p] = "create" /\ ~failed[p] => \A f \in Platforms \ creating[p] : <<p, f>> \in up
       /\ pc[p] \in {"key", "store"} => Has(p)
       /\ (pc[p] \in {"version", "dispatch"} \/ run[p] = "running") /\ OnlyRun(p) => Has(p)

(* The entry, from when it is stored until the completion has been handled.*)
Waiting ==
  \A p \in Pushes :
    /\ \/ pc[p] \in {"version", "dispatch"}
       \/ (run[p] = "running" \/ <<p, runSha[p]>> \in events) /\ runSha[p] = sha[p]
    /\ OnlyRun(p) /\ NoClash(p)
    => p \in tracked

(* A push without a run has nothing when it is done.                       *)
Nothing ==
  \A p \in Pushes : pc[p] = "done" /\ run[p] = "none" => \A f \in Platforms : <<p, f>> \notin up

LEMMA ControlStep == TypeOK /\ Control /\ [Next]_vars => Control'
<1> SUFFICES ASSUME TypeOK, Control, [Next]_vars PROVE Control'
  OBVIOUS
<1>0. Pushes \subseteq Sets /\ 0 \notin Commits
  BY PushBoundsAssumption DEF Sets, Commits
<1> USE <1>0 DEF TypeOK, Control
<1>1. ASSUME NEW p \in Pushes, PushStep(p) PROVE Control'
  <2>1. CASE Push(p)
    BY <2>1 DEF Push, runVars
  <2>2. CASE Resolve(p)
    BY <2>2 DEF Resolve, runVars
  <2>3. ASSUME NEW f \in Platforms, ServerUp(p, f) PROVE Control'
    BY <2>3 DEF ServerUp, runVars
  <2>4. ASSUME NEW f \in Platforms, ServerFails(p, f) PROVE Control'
    BY <2>4 DEF ServerFails, runVars
  <2>5. CASE Created(p)
    BY <2>5 DEF Created, runVars
  <2>6. CASE CreateFails(p)
    BY <2>6 DEF CreateFails, runVars
  <2>7. CASE Key(p)
    BY <2>7 DEF Key, Then, runVars
  <2>8. CASE Store(p)
    BY <2>8 DEF Store, Then, runVars
  <2>9. CASE ResolveAgain(p)
    BY <2>9 DEF ResolveAgain, Then, runVars
  <2>10. CASE Dispatch(p)
    BY <2>10 DEF Dispatch, Then
  <2>11. CASE DispatchFails(p)
    BY <2>11 DEF DispatchFails
  <2>12. QED
    BY <1>1, <2>1, <2>2, <2>3, <2>4, <2>5, <2>6, <2>7, <2>8, <2>9, <2>10, <2>11 DEF PushStep
<1>2. ASSUME NEW p \in Pushes, RunCompletes(p) PROVE Control'
  BY <1>2 DEF RunCompletes, pushVars
<1>3. ASSUME NEW s \in Sets, NEW f \in Platforms, StaleScan(s, f) PROVE Control'
  BY <1>3 DEF StaleScan, pushVars, runVars
<1>3a. ASSUME NEW s \in Sets, Ages(s) PROVE Control'
  BY <1>3a DEF Ages, pushVars, runVars
<1>4. ASSUME NEW e \in events, HandleCompletion(e) PROVE Control'
  BY <1>4 DEF HandleCompletion, DestroyByCommit, pushVars
<1>5. ASSUME NEW b \in Branches, RunByHand(b) PROVE Control'
  BY <1>5 DEF RunByHand, pushVars
<1>6. CASE HandleByHand
  BY <1>6 DEF HandleByHand, DestroyByCommit, pushVars, runVars
<1>7. CASE (Release \/ CacheAges) /\ UNCHANGED <<head, pushVars, up, old, tracked, runVars>>
  BY <1>7 DEF pushVars, runVars
<1>8. CASE UNCHANGED vars
  BY <1>8 DEF vars, pushVars, runVars
<1>9. QED
  BY <1>1, <1>2, <1>3, <1>3a, <1>4, <1>5, <1>6, <1>7, <1>8 DEF Next

LEMMA OwnServersGo ==
  ASSUME NEW p, Destroy(Servers(p))
  PROVE  \A s : \A f \in Platforms : <<s, f>> \in up' <=> <<s, f>> \in up /\ s # p
  BY DEF Destroy, Servers

LEMMA ScanTakesOne ==
  ASSUME NEW s, NEW f, Destroy({<<s, f>>})
  PROVE  \A q, g : <<q, g>> \in up' <=> <<q, g>> \in up /\ ~(q = s /\ g = f)
  BY DEF Destroy

LEMMA CommitGoes ==
  ASSUME NEW c, DestroyByCommit(c)
  PROVE  /\ \A s : s \in tracked' <=> s \in tracked /\ ~(s # CMT /\ sha[s] = c)
         /\ \A s : \A f \in Platforms :
              <<s, f>> \in up' <=> <<s, f>> \in up /\ ~(s \in tracked /\ s # CMT /\ sha[s] = c)
  BY DEF DestroyByCommit, Destroy, Matches

LEMMA StandingStep == TypeOK /\ Control /\ Standing /\ [Next]_vars => Standing'
<1> SUFFICES ASSUME TypeOK, Control, Standing, [Next]_vars PROVE Standing'
  OBVIOUS
<1>0. Pushes \subseteq Sets /\ CMT \in Sets /\ CMT \notin Pushes /\ 0 \notin Commits
  BY PushBoundsAssumption, CMTAssumption DEF Sets, Commits
<1> USE <1>0 DEF TypeOK, Control, Standing, Has, OnlyRun
<1>1. ASSUME NEW p \in Pushes, PushStep(p) PROVE Standing'
  <2>1. CASE Push(p)
    BY <2>1 DEF Push, runVars
  <2>2. CASE Resolve(p)
    BY <2>2 DEF Resolve, runVars
  <2>3. ASSUME NEW f \in Platforms, ServerUp(p, f) PROVE Standing'
    BY <2>3 DEF ServerUp, runVars
  <2>4. ASSUME NEW f \in Platforms, ServerFails(p, f) PROVE Standing'
    BY <2>4 DEF ServerFails, runVars
  <2>5. CASE Created(p)
    BY <2>5 DEF Created, runVars
  <2>6. CASE CreateFails(p)
    BY <2>6, OwnServersGo DEF CreateFails, runVars
  <2>7. CASE Key(p)
    BY <2>7 DEF Key, Then, runVars
  <2>8. CASE Store(p)
    BY <2>8 DEF Store, Then, SameKey, runVars
  <2>9. CASE ResolveAgain(p)
    BY <2>9 DEF ResolveAgain, Then, runVars
  <2>10. CASE Dispatch(p)
    BY <2>10 DEF Dispatch, Then
  <2>11. CASE DispatchFails(p)
    BY <2>11, OwnServersGo DEF DispatchFails, SameKey
  <2>12. QED
    BY <1>1, <2>1, <2>2, <2>3, <2>4, <2>5, <2>6, <2>7, <2>8, <2>9, <2>10, <2>11 DEF PushStep
<1>2. ASSUME NEW p \in Pushes, RunCompletes(p) PROVE Standing'
  BY <1>2 DEF RunCompletes, pushVars
<1>3. ASSUME NEW s \in Sets, NEW f \in Platforms, StaleScan(s, f) PROVE Standing'
  <2>1. /\ s \in old
        /\ \A q, g : <<q, g>> \in up' <=> <<q, g>> \in up /\ ~(q = s /\ g = f)
    BY <1>3, ScanTakesOne DEF StaleScan
  <2>2. UNCHANGED <<old, pc, sha, creating, failed, run, runSha, byHand>>
    BY <1>3 DEF StaleScan, pushVars, runVars
  <2>3. QED
    BY <2>1, <2>2
<1>3a. ASSUME NEW s \in Sets, Ages(s) PROVE Standing'
  BY <1>3a DEF Ages, pushVars, runVars
<1>4. ASSUME NEW e \in events, HandleCompletion(e) PROVE Standing'
  <2>1. DestroyByCommit(e[2])
    BY <1>4 DEF HandleCompletion
  <2>2. QED
    BY <1>4, <2>1, CommitGoes DEF HandleCompletion, pushVars
<1>5. ASSUME NEW b \in Branches, RunByHand(b) PROVE Standing'
  BY <1>5 DEF RunByHand, pushVars
<1>6. CASE HandleByHand
  <2>1. PICK c \in byHand : DestroyByCommit(c)
    BY <1>6 DEF HandleByHand
  <2>2. QED
    BY <1>6, <2>1, CommitGoes DEF HandleByHand, pushVars, runVars
<1>7. CASE (Release \/ CacheAges) /\ UNCHANGED <<head, pushVars, up, old, tracked, runVars>>
  BY <1>7 DEF pushVars, runVars
<1>8. CASE UNCHANGED vars
  BY <1>8 DEF vars, pushVars, runVars
<1>9. QED
  BY <1>1, <1>2, <1>3, <1>3a, <1>4, <1>5, <1>6, <1>7, <1>8 DEF Next

LEMMA WaitingStep == TypeOK /\ Control /\ Waiting /\ [Next]_vars => Waiting'
<1> SUFFICES ASSUME TypeOK, Control, Waiting, [Next]_vars PROVE Waiting'
  OBVIOUS
<1>0. Pushes \subseteq Sets /\ CMT \in Sets /\ CMT \notin Pushes /\ 0 \notin Commits
  BY PushBoundsAssumption, CMTAssumption DEF Sets, Commits
<1> USE <1>0 DEF TypeOK, Control, Waiting, OnlyRun, NoClash
<1>1. ASSUME NEW p \in Pushes, PushStep(p) PROVE Waiting'
  <2>1. CASE Push(p)
    BY <2>1 DEF Push, runVars
  <2>2. CASE Resolve(p)
    BY <2>2 DEF Resolve, runVars
  <2>3. ASSUME NEW f \in Platforms, ServerUp(p, f) PROVE Waiting'
    BY <2>3 DEF ServerUp, runVars
  <2>4. ASSUME NEW f \in Platforms, ServerFails(p, f) PROVE Waiting'
    BY <2>4 DEF ServerFails, runVars
  <2>5. CASE Created(p)
    BY <2>5 DEF Created, runVars
  <2>6. CASE CreateFails(p)
    BY <2>6, OwnServersGo DEF CreateFails, runVars
  <2>7. CASE Key(p)
    BY <2>7 DEF Key, Then, runVars
  <2>8. CASE Store(p)
    BY <2>8 DEF Store, Then, SameKey, runVars
  <2>9. CASE ResolveAgain(p)
    BY <2>9 DEF ResolveAgain, Then, runVars
  <2>10. CASE Dispatch(p)
    <3> SUFFICES ASSUME NEW q \in Pushes,
                        \/ pc'[q] \in {"version", "dispatch"}
                        \/ run'[q] = "running" \/ <<q, runSha'[q]>> \in events',
                        run'[q] # "none" => runSha'[q] = sha'[q],
                        OnlyRun(q)', NoClash(q)'
                 PROVE  q \in tracked'
      BY <2>10 DEF Dispatch, Then
    <3>1. pc[p] = "dispatch" /\ run[p] = "none" /\ runSha[p] = 0 /\ sha[p] # 0
      BY <2>10 DEF Dispatch
    <3>2. OnlyRun(q) /\ NoClash(q)
      BY <2>10, <3>1 DEF Dispatch, Then
    <3>3. CASE q = p
      BY <2>10, <3>1, <3>2, <3>3 DEF Dispatch, Then
    <3>4. CASE q # p
      BY <2>10, <3>1, <3>2, <3>4 DEF Dispatch, Then
    <3>5. QED
      BY <3>3, <3>4
  <2>11. CASE DispatchFails(p)
    BY <2>11, OwnServersGo DEF DispatchFails, SameKey
  <2>12. QED
    BY <1>1, <2>1, <2>2, <2>3, <2>4, <2>5, <2>6, <2>7, <2>8, <2>9, <2>10, <2>11 DEF PushStep
<1>2. ASSUME NEW p \in Pushes, RunCompletes(p) PROVE Waiting'
  BY <1>2 DEF RunCompletes, pushVars
<1>3. ASSUME NEW s \in Sets, NEW f \in Platforms, StaleScan(s, f) PROVE Waiting'
  BY <1>3 DEF StaleScan, pushVars, runVars
<1>3a. ASSUME NEW s \in Sets, Ages(s) PROVE Waiting'
  BY <1>3a DEF Ages, pushVars, runVars
<1>4. ASSUME NEW e \in events, HandleCompletion(e) PROVE Waiting'
  <2>1. DestroyByCommit(e[2])
    BY <1>4 DEF HandleCompletion
  <2>2. QED
    BY <1>4, <2>1, CommitGoes DEF HandleCompletion, pushVars
<1>5. ASSUME NEW b \in Branches, RunByHand(b) PROVE Waiting'
  BY <1>5 DEF RunByHand, pushVars
<1>6. CASE HandleByHand
  <2>1. PICK c \in byHand : DestroyByCommit(c)
    BY <1>6 DEF HandleByHand
  <2>2. QED
    BY <1>6, <2>1, CommitGoes DEF HandleByHand, pushVars, runVars
<1>7. CASE (Release \/ CacheAges) /\ UNCHANGED <<head, pushVars, up, old, tracked, runVars>>
  BY <1>7 DEF pushVars, runVars
<1>8. CASE UNCHANGED vars
  BY <1>8 DEF vars, pushVars, runVars
<1>9. QED
  BY <1>1, <1>2, <1>3, <1>3a, <1>4, <1>5, <1>6, <1>7, <1>8 DEF Next

LEMMA NothingStep == TypeOK /\ Control /\ Nothing /\ [Next]_vars => Nothing'
<1> SUFFICES ASSUME TypeOK, Control, Nothing, [Next]_vars PROVE Nothing'
  OBVIOUS
<1>0. Pushes \subseteq Sets /\ CMT \in Sets /\ CMT \notin Pushes /\ 0 \notin Commits
  BY PushBoundsAssumption, CMTAssumption DEF Sets, Commits
<1> USE <1>0 DEF TypeOK, Control, Nothing
<1>1. ASSUME NEW p \in Pushes, PushStep(p) PROVE Nothing'
  <2>1. CASE Push(p)
    BY <2>1 DEF Push, runVars
  <2>2. CASE Resolve(p)
    BY <2>2 DEF Resolve, runVars
  <2>3. ASSUME NEW f \in Platforms, ServerUp(p, f) PROVE Nothing'
    BY <2>3 DEF ServerUp, runVars
  <2>4. ASSUME NEW f \in Platforms, ServerFails(p, f) PROVE Nothing'
    BY <2>4 DEF ServerFails, runVars
  <2>5. CASE Created(p)
    BY <2>5 DEF Created, runVars
  <2>6. CASE CreateFails(p)
    BY <2>6, OwnServersGo DEF CreateFails, runVars
  <2>7. CASE Key(p)
    BY <2>7 DEF Key, Then, runVars
  <2>8. CASE Store(p)
    BY <2>8 DEF Store, Then, SameKey, runVars
  <2>9. CASE ResolveAgain(p)
    BY <2>9 DEF ResolveAgain, Then, runVars
  <2>10. CASE Dispatch(p)
    BY <2>10 DEF Dispatch, Then
  <2>11. CASE DispatchFails(p)
    BY <2>11, OwnServersGo DEF DispatchFails, SameKey
  <2>12. QED
    BY <1>1, <2>1, <2>2, <2>3, <2>4, <2>5, <2>6, <2>7, <2>8, <2>9, <2>10, <2>11 DEF PushStep
<1>2. ASSUME NEW p \in Pushes, RunCompletes(p) PROVE Nothing'
  BY <1>2 DEF RunCompletes, pushVars
<1>3. ASSUME NEW s \in Sets, NEW f \in Platforms, StaleScan(s, f) PROVE Nothing'
  BY <1>3, ScanTakesOne DEF StaleScan, pushVars, runVars
<1>3a. ASSUME NEW s \in Sets, Ages(s) PROVE Nothing'
  BY <1>3a DEF Ages, pushVars, runVars
<1>4. ASSUME NEW e \in events, HandleCompletion(e) PROVE Nothing'
  <2>1. DestroyByCommit(e[2])
    BY <1>4 DEF HandleCompletion
  <2>2. QED
    BY <1>4, <2>1, CommitGoes DEF HandleCompletion, pushVars
<1>5. ASSUME NEW b \in Branches, RunByHand(b) PROVE Nothing'
  BY <1>5 DEF RunByHand, pushVars
<1>6. CASE HandleByHand
  <2>1. PICK c \in byHand : DestroyByCommit(c)
    BY <1>6 DEF HandleByHand
  <2>2. QED
    BY <1>6, <2>1, CommitGoes DEF HandleByHand, pushVars, runVars
<1>7. CASE (Release \/ CacheAges) /\ UNCHANGED <<head, pushVars, up, old, tracked, runVars>>
  BY <1>7 DEF pushVars, runVars
<1>8. CASE UNCHANGED vars
  BY <1>8 DEF vars, pushVars, runVars
<1>9. QED
  BY <1>1, <1>2, <1>3, <1>3a, <1>4, <1>5, <1>6, <1>7, <1>8 DEF Next
-----------------------------------------------------------------------------
IInv == TypeOK /\ Control /\ Standing /\ Waiting /\ Nothing

LEMMA IInvInit == Init => IInv
<1> SUFFICES ASSUME Init PROVE IInv
  OBVIOUS
<1>0. CMT \notin Pushes /\ CMT \in Sets /\ Pushes \subseteq Sets
  BY CMTAssumption DEF Sets
<1>1. TypeOK
  BY TypeInit
<1>2. Control
  BY <1>0 DEF Init, Control
<1>3. Standing
  <2>1. Has(CMT) /\ run[CMT] = "running"
    BY <1>0 DEF Init, Has, Servers
  <2>2. QED
    BY <1>0, <2>1 DEF Init, Standing
<1>4. Waiting
  BY <1>0 DEF Init, Waiting
<1>5. Nothing
  BY <1>0 DEF Init, Nothing
<1>6. QED
  BY <1>1, <1>2, <1>3, <1>4, <1>5 DEF IInv

LEMMA IInvStep == IInv /\ [Next]_vars => IInv'
  BY TypeStep, ControlStep, StandingStep, WaitingStep, NothingStep DEF IInv

LEMMA IInvHolds == Spec => []IInv
  BY IInvInit, IInvStep, PTL DEF Spec

(* No server of a set younger than E2EInstanceMaxAge is torn down while    *)
(* its own run is running, as long as no other run has the commit of its   *)
(* key, and none of a CMT run by the completion of a push's run.           *)
(* src/server/workflow_run.go:225-262.                                     *)
THEOREM TeardownScoped == Spec => []NoTeardownUnderTest
<1>1. IInv => NoTeardownUnderTest
  <2> SUFFICES ASSUME IInv, NEW s \in Sets, run[s] = "running", s \notin old,
                      s # CMT => OnlyRun(s)
               PROVE  Servers(s) \subseteq up
    BY DEF NoTeardownUnderTest
  <2>1. Has(s)
    BY DEF IInv, Standing, Sets
  <2>2. QED
    BY <2>1, ServersOf
<1>2. QED
  BY <1>1, IInvHolds, PTL

(* The entry of a push waits for the completion of its run.                *)
(* src/server/push_events.go:128-168.                                      *)
THEOREM EntryIsThere == Spec => []EntryWaits
<1>1. IInv => EntryWaits
  <2> SUFFICES ASSUME IInv, NEW p \in Pushes,
                      run[p] = "running" \/ <<p, runSha[p]>> \in events,
                      runSha[p] = sha[p], OnlyRun(p), OnlyKey(p)
               PROVE  p \in tracked
    BY DEF EntryWaits
  <2>1. NoClash(p)
    BY DEF OnlyKey, NoClash
  <2>2. QED
    BY <2>1 DEF IInv, Waiting
<1>2. QED
  BY <1>1, IInvHolds, PTL

(* A push that ends without a run has asked for the deletion of all it     *)
(* got.  src/server/push_events.go:107-112, 149-166, 227-230.              *)
THEOREM NothingKept == Spec => []KeepsNothing
<1>1. IInv => KeepsNothing
  BY ServersOf DEF IInv, Nothing, KeepsNothing
<1>2. QED
  BY <1>1, IInvHolds, PTL
=============================================================================
