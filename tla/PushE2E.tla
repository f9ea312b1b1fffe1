------------------------------ MODULE PushE2E ------------------------------
(***************************************************************************)
(* E2E tests of a push to master or main: one server per platform, all or  *)
(* none, tracked under the commit that the test run is expected to report  *)
(* and destroyed when a test run of that commit completes.                 *)
(* src/server/push_events.go, workflow_run.go and version.go; the dispatch *)
(* and the scan in e2e_tests.go.                                           *)
(*                                                                         *)
(* One repository.  A set of servers belongs to a push or to a CMT run.    *)
(* CMTDispatch has the life of the latter; here it is under test all the   *)
(* time, of a commit that may be a push's too.                             *)
(***************************************************************************)
EXTENDS VersionCache, FiniteSets

CONSTANTS
  CMT,        \* the server set of the CMT run
  Platforms,
  Branches,   \* the branches that trigger: master and main
  MaxCommits, \* bound
  MaxOld      \* bound: sets that get old

Pushes == Resolvers
Sets == Pushes \cup {CMT}
Commits == 1..MaxCommits

ASSUME CMTAssumption == CMT \notin Pushes
ASSUME PushBoundsAssumption == MaxCommits \in Nat \ {0} /\ MaxOld \in Nat

VARIABLES
  head,      \* GitHub: the commit of each branch
  pc,
  branch,    \* of a push
  sha,       \* commit of the push, then the one its key ends with
  creating,  \* platforms whose goroutine has not returned
  failed,    \* one of the goroutines returned an error
  up,        \* servers whose deletion nobody has asked for, as <<set, platform>>
  old,       \* sets created E2EInstanceMaxAge ago, or longer
  tracked,   \* sets that e2eInstances holds
  run,       \* GitHub, of a set: none, running, over
  runSha,    \* GitHub: the head_sha of the run
  byHand,    \* GitHub: commits with runs that belong to no set
  events     \* completed events, as <<set, commit>>, not handled yet

pushVars == <<pc, branch, sha, creating, failed>>
runVars == <<run, runSha, byHand, events>>
vars == <<cacheVars, head, pushVars, up, old, tracked, runVars>>

Servers(s) == {s} \X Platforms

Init ==
  /\ CacheInit
  /\ head \in [Branches -> Commits]
  /\ pc = [p \in Pushes |-> "idle"]
  /\ branch \in [Pushes -> Branches]
  /\ \E c \in Commits : sha = [s \in Sets |-> IF s = CMT THEN c ELSE 0]
  /\ creating = [p \in Pushes |-> {}]
  /\ failed = [p \in Pushes |-> FALSE]
  /\ up = Servers(CMT)
  /\ old = {}
  /\ tracked = {CMT}
  /\ run = [s \in Sets |-> IF s = CMT THEN "running" ELSE "none"]
  /\ runSha = [s \in Sets |-> IF s = CMT THEN sha[s] ELSE 0]
  /\ byHand = {}
  /\ events = {}

Goto(p, label) == pc' = [pc EXCEPT ![p] = label]

(* destroyE2EInstances asks for the deletion of each; a delete that fails  *)
(* is logged, and only the scan comes back to it.                          *)
Destroy(S) == up' = up \ S
-----------------------------------------------------------------------------
(* handlePushEvent; pushes of tags, other branches and other repositories  *)
(* come to nothing.  A branch moves with the push, or is moved.            *)
Push(p) ==
  /\ pc[p] = "idle"
  /\ \E c \in Commits :
       /\ head' = [head EXCEPT ![branch[p]] = c]
       /\ sha' = [sha EXCEPT ![p] = c]
  /\ Goto(p, "resolve")
  /\ UNCHANGED <<cacheVars, branch, creating, failed, up, old, tracked, runVars>>

(* serverVersionForPushEvent, and the goroutines start.                    *)
Resolve(p) ==
  /\ pc[p] = "resolve"
  /\ \/ Asks(p) /\ UNCHANGED <<pc, creating>>
     \/ Returns(p) /\ Goto(p, "create") /\ creating' = [creating EXCEPT ![p] = Platforms]
  /\ UNCHANGED <<head, branch, sha, failed, up, old, tracked, runVars>>

(* createCloudInstallationWithRetry, which Provision has in detail.        *)
ServerUp(p, f) ==
  /\ f \in creating[p]
  /\ creating' = [creating EXCEPT ![p] = @ \ {f}]
  /\ up' = up \cup {<<p, f>>}
  /\ UNCHANGED <<cacheVars, head, pc, branch, sha, failed, old, tracked, runVars>>

(* An error cancels the others; the attempt deletes what it has made.      *)
ServerFails(p, f) ==
  /\ f \in creating[p]
  /\ creating' = [creating EXCEPT ![p] = @ \ {f}]
  /\ failed' = [failed EXCEPT ![p] = TRUE]
  /\ UNCHANGED <<cacheVars, head, pc, branch, sha, up, old, tracked, runVars>>

Created(p) ==
  /\ pc[p] = "create" /\ creating[p] = {}
  /\ ~failed[p]
  /\ Goto(p, "key")
  /\ UNCHANGED <<cacheVars, head, branch, sha, creating, failed, up, old, tracked, runVars>>

(* Mutant: the servers that did come up are forgotten. *)
CreateFailsForgets(p) ==
  /\ pc[p] = "create" /\ creating[p] = {}
  /\ failed[p]
  /\ Goto(p, "done")
  /\ UNCHANGED <<cacheVars, head, branch, sha, creating, failed, up, old, tracked, runVars>>

CreateFails(p) ==
  /\ pc[p] = "create" /\ creating[p] = {}
  /\ failed[p]
  /\ Destroy(Servers(p))
  /\ Goto(p, "done")
  /\ UNCHANGED <<cacheVars, head, branch, sha, creating, failed, old, tracked, runVars>>

(* Mutant: the servers are tracked when the run has been dispatched. *)
ThenDispatchFirst == [key |-> "version", version |-> "dispatch", dispatch |-> "store", store |-> "done"]

Then == [key |-> "store", store |-> "version", version |-> "dispatch", dispatch |-> "done"]

(* resolveBranchHeadSHA, or the commit of the push if that fails.          *)
Key(p) ==
  /\ pc[p] = "key"
  /\ sha' \in {sha, [sha EXCEPT ![p] = head[branch[p]]]}
  /\ Goto(p, Then.key)
  /\ UNCHANGED <<cacheVars, head, branch, creating, failed, up, old, tracked, runVars>>

SameKey(p) == {q \in Pushes : branch[q] = branch[p] /\ sha[q] = sha[p]}

(* A map write: the entry of another push under this key is lost.          *)
Store(p) ==
  /\ pc[p] = "store"
  /\ tracked' = (tracked \ SameKey(p)) \cup {p}
  /\ Goto(p, Then.store)
  /\ UNCHANGED <<cacheVars, head, branch, sha, creating, failed, up, old, runVars>>

(* dispatchDesktopE2EWorkflow resolves once more and then prefers the      *)
(* version of the servers; what is left of it is the cache.  The mobile    *)
(* dispatch sends no version.                                              *)
ResolveAgain(p) ==
  /\ pc[p] = "version"
  /\ \/ Asks(p) /\ UNCHANGED pc
     \/ Returns(p) /\ Goto(p, Then.version)
     \/ stage[p] = "out" /\ Goto(p, Then.version) /\ UNCHANGED cacheVars
  /\ UNCHANGED <<head, branch, sha, creating, failed, up, old, tracked, runVars>>

(* The run is of the commit the branch has now.                            *)
Dispatch(p) ==
  /\ pc[p] = "dispatch"
  /\ run' = [run EXCEPT ![p] = "running"]
  /\ runSha' = [runSha EXCEPT ![p] = head[branch[p]]]
  /\ Goto(p, Then.dispatch)
  /\ UNCHANGED <<cacheVars, head, branch, sha, creating, failed, up, old, tracked, byHand, events>>

(* The entry under the key goes, whosever it is; GitHub may have started   *)
(* the run all the same.                                                   *)
DispatchFails(p) ==
  /\ pc[p] = "dispatch"
  /\ byHand' \in {byHand, byHand \cup {head[branch[p]]}}
  /\ tracked' = tracked \ SameKey(p)
  /\ Destroy(Servers(p))
  /\ Goto(p, "done")
  /\ UNCHANGED <<cacheVars, head, branch, sha, creating, failed, old, run, runSha, events>>
-----------------------------------------------------------------------------
RunCompletes(p) ==
  /\ run[p] = "running"
  /\ run' = [run EXCEPT ![p] = "over"]
  /\ events' = events \cup {<<p, runSha[p]>>}
  /\ UNCHANGED <<cacheVars, head, pushVars, up, old, tracked, runSha, byHand>>

(* A run of the same workflow that somebody has started on a branch.       *)
RunByHand(b) ==
  /\ byHand' = byHand \cup {head[b]}
  /\ UNCHANGED <<cacheVars, head, pushVars, up, old, tracked, run, runSha, events>>

(* Mutant: the flow of a key is not looked at. *)
MatchesAnyFlow(s, commit) == sha[s] = commit

(* instanceKeyMatchesSHA *)
Matches(s, commit) == s # CMT /\ sha[s] = commit

(* findAndDestroyInstancesBySHA *)
DestroyByCommit(commit) ==
  LET found == {s \in tracked : Matches(s, commit)}
  IN  /\ tracked' = tracked \ found
      /\ Destroy(found \X Platforms)

(* An event that is lost is one that is not handled.                       *)
HandleCompletion(e) ==
  /\ events' = events \ {e}
  /\ DestroyByCommit(e[2])
  /\ UNCHANGED <<cacheVars, head, pushVars, old, run, runSha, byHand>>

HandleByHand ==
  /\ \E c \in byHand : DestroyByCommit(c)
  /\ UNCHANGED <<cacheVars, head, pushVars, old, runVars>>

(* Time passes; how long a run or anything else takes is left open.        *)
Ages(s) ==
  /\ s \notin old /\ Servers(s) \cap up # {}
  /\ Cardinality(old) < MaxOld
  /\ old' = old \cup {s}
  /\ UNCHANGED <<cacheVars, head, pushVars, up, tracked, runVars>>

(* cleanupStaleE2EInstances deletes, server by server, what is too old,    *)
(* whatever its push is doing and whether or not a run tests it; a delete  *)
(* that fails is left to the next scan.  The map stays as it is.           *)
StaleScan(s, f) ==
  /\ s \in old /\ <<s, f>> \in up
  /\ Destroy({<<s, f>>})
  /\ UNCHANGED <<cacheVars, head, pushVars, old, tracked, runVars>>
-----------------------------------------------------------------------------
PushStep(p) ==
  \/ Push(p) \/ Resolve(p) \/ Created(p) \/ CreateFails(p) \/ Key(p) \/ Store(p)
  \/ ResolveAgain(p) \/ Dispatch(p) \/ DispatchFails(p)
  \/ \E f \in Platforms : ServerUp(p, f) \/ ServerFails(p, f)

Next ==
  \/ \E p \in Pushes : PushStep(p) \/ RunCompletes(p)
  \/ \E s \in Sets : Ages(s) \/ \E f \in Platforms : StaleScan(s, f)
  \/ \E e \in events : HandleCompletion(e)
  \/ \E b \in Branches : RunByHand(b)
  \/ HandleByHand
  \/ (Release \/ CacheAges) /\ UNCHANGED <<head, pushVars, up, old, tracked, runVars>>

Spec == Init /\ [][Next]_vars
-----------------------------------------------------------------------------
(* Properties.                                                             *)

(* Every variable keeps its type. *)
TypeOK ==
  /\ CacheTypeOK
  /\ head \in [Branches -> Commits]
  /\ pc \in [Pushes -> {"idle", "resolve", "create", "key", "store", "version", "dispatch", "done"}]
  /\ branch \in [Pushes -> Branches]
  /\ sha \in [Sets -> 0..MaxCommits]
  /\ creating \in [Pushes -> SUBSET Platforms] /\ failed \in [Pushes -> BOOLEAN]
  /\ up \subseteq Sets \X Platforms
  /\ old \subseteq Sets
  /\ tracked \subseteq Sets
  /\ run \in [Sets -> {"none", "running", "over"}]
  /\ runSha \in [Sets -> 0..MaxCommits]
  /\ byHand \subseteq Commits
  /\ events \subseteq Sets \X (0..MaxCommits)

(* No other run has the commit of a push's key; a run that has completes   *)
(* the push's tests too, as far as this program knows.                     *)
OnlyRun(p) ==
  /\ sha[p] \notin byHand
  /\ \A q \in Pushes \ {p} : sha[p] # runSha[q]

(* Nor has the key of another push, whose store or failed dispatch would   *)
(* take the entry away.                                                    *)
OnlyKey(p) == \A q \in Pushes \ {p} : sha[p] # sha[q]

(* No server of a set younger than E2EInstanceMaxAge goes while the run    *)
(* that was dispatched with it is running, as long as no other run has the *)
(* commit of its key; and the completion of such a run never touches the   *)
(* servers of a CMT run, whatever its commit.  An older set the stale scan *)
(* does tear down: whether its run is over by then is for CMTDispatch.     *)
NoTeardownUnderTest ==
  \A s \in Sets :
    run[s] = "running" /\ s \notin old /\ (s # CMT => OnlyRun(s))
      => Servers(s) \subseteq up

(* From the moment there is a run until its completion has been handled,   *)
(* the entry that the completion will look for is there, unless the branch *)
(* has moved between the look at its head and the dispatch: a run that     *)
(* completes at once does not find nothing (push_events.go:141).           *)
EntryWaits ==
  \A p \in Pushes :
    /\ run[p] = "running" \/ <<p, runSha[p]>> \in events
    /\ runSha[p] = sha[p]
    /\ OnlyRun(p) /\ OnlyKey(p)
    => p \in tracked

(* A push that ends without a run, wherever it failed, has asked for the   *)
(* deletion of every server it got.                                        *)
KeepsNothing ==
  \A p \in Pushes : pc[p] = "done" /\ run[p] = "none" => Servers(p) \cap up = {}

(* A call never returns less than the cache held when it began, however    *)
(* many calls fail and overwrite each other: a known version is not lost.  *)
VersionNotLost ==
  [][\A p \in Pushes : stage[p] # "out" /\ stage'[p] = "out" => version'[p] >= atStart[p]]_vars
=============================================================================
