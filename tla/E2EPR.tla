------------------------------- MODULE E2EPR -------------------------------
(***************************************************************************)
(* The life of the E2E test servers of one pull request: the goroutines of *)
(* handleE2ETestRequest (one per E2E/Run label), of handleE2ECleanup (one  *)
(* per reset label or close event), the periodic cleanupStaleE2EInstances  *)
(* scan, the provisioner that keeps the installations, GitHub, and a       *)
(* restart of the process.  src/server/e2e_tests.go, pull_request.go and   *)
(* server.go.                                                              *)
(*                                                                         *)
(* The three maps of Server are specialised to this pull request's key:    *)
(* tracked is e2eInstances[key], generation is e2ePRCleanupGeneration[key] *)
(* and inProgress is the set of test platforms whose "{key}-{platform}"    *)
(* flag is up in e2eInProgress.  A step is what runs under one mutex or    *)
(* one call of the provisioner or of GitHub, so every interleaving of the  *)
(* goroutines at those points is a behaviour.                              *)
(***************************************************************************)
EXTENDS Naturals, FiniteSets

CONSTANTS
  Requests,       \* goroutines that run handleE2ETestRequest
  Cleanups,       \* goroutines that run handleE2ECleanup
  Platforms,      \* servers of one set: linux/macos/windows, or the sites
  TestPlatforms,  \* {all} for desktop, {ios, android, both} for mobile
  MaxCrashes,     \* bound: restarts of the process
  AgesInFlight    \* E2EPRInstanceMaxAge is set below the time a set takes to
                  \* create (a configured 1 hour; the default never is)

ASSUME MaxCrashesAssumption == MaxCrashes \in Nat
ASSUME AgesInFlightAssumption == AgesInFlight \in BOOLEAN

VARIABLES
  inst,        \* the provisioner: state of every installation
  aged,        \* requests whose installations are older than the PR max age
  tracked,     \* e2eInstances[key]
  generation,  \* e2ePRCleanupGeneration[key]
  inProgress,  \* platforms flagged in e2eInProgress
  pc, tp, gen, path, held, todo,    \* locals of the request goroutines
  cpc, ctodo,                       \* locals of the cleanup goroutines
  spc, stodo, reaped,               \* locals of the stale scan
  run,         \* the workflow run that a request dispatched
  listening,   \* the HTTP server accepts webhooks
  crashes,     \* restarts so far
  lost         \* history: installations nobody in the process will delete

cloudVars == <<inst, aged>>
memVars   == <<tracked, generation, inProgress>>
reqVars   == <<pc, tp, gen, path, held, todo>>
cleanVars == <<cpc, ctodo>>
scanVars  == <<spc, stodo, reaped>>
procVars  == <<listening, crashes>>
vars == <<cloudVars, memVars, reqVars, cleanVars, scanVars, run, procVars, lost>>

(* A request creates at most one installation per platform; the name's     *)
(* random suffix makes the sets of two requests disjoint.                  *)
Ids == Requests \X Platforms
Own(r) == {r} \X Platforms

(* "up" is stable or hibernating: every test of the code accepts both.     *)
(* "gone" is every deletion state: no test of the code tells them apart.   *)
InstStates == {"none", "creating", "up", "gone"}
Live(i) == inst[i] \in {"creating", "up"}
LiveIds == {i \in Ids : Live(i)}

RequestPCs == {"idle", "guard", "lookup", "query", "cancel", "create",
               "store", "trigger", "destroy", "release", "done"}
CleanupPCs == {"idle", "take", "destroy", "sweep", "done"}
Paths == {"none", "memory", "cloud", "fresh"}

Init ==
  /\ inst = [i \in Ids |-> "none"]
  /\ aged = {}
  /\ tracked = {}
  /\ generation = 0
  /\ inProgress = {}
  /\ pc = [r \in Requests |-> "idle"]
  /\ tp \in [Requests -> TestPlatforms]
  /\ gen = [r \in Requests |-> 0]
  /\ path = [r \in Requests |-> "none"]
  /\ held = [r \in Requests |-> {}]
  /\ todo = [r \in Requests |-> {}]
  /\ cpc = [c \in Cleanups |-> "idle"]
  /\ ctodo = [c \in Cleanups |-> {}]
  /\ spc = "idle"
  /\ stodo = {}
  /\ reaped = {}
  /\ run = [r \in Requests |-> "none"]
  /\ listening = FALSE
  /\ crashes = 0
  /\ lost = {}
-----------------------------------------------------------------------------
(* A DeleteInstallation call: the provisioner accepts it, or it fails and  *)
(* the caller only logs the error.                                         *)
DeleteAccepted(i) ==
  /\ inst' = [inst EXCEPT ![i] = "gone"]
  /\ lost' = lost \ {i}

DeleteRefused(i) ==
  /\ UNCHANGED inst
  /\ lost' = IF Live(i) THEN lost \cup {i} ELSE lost

Goto(r, label) == pc' = [pc EXCEPT ![r] = label]
-----------------------------------------------------------------------------
(* handleE2ETestRequest *)

(* A labeled event with an E2E label starts the goroutine, which reads     *)
(* startGeneration before anything else.                                   *)
StartRequest(r) ==
  /\ listening
  /\ pc[r] = "idle"
  /\ gen' = [gen EXCEPT ![r] = generation]
  /\ Goto(r, "guard")
  /\ UNCHANGED <<tp, path, held, todo>>
  /\ UNCHANGED <<cloudVars, memVars, cleanVars, scanVars, run, procVars, lost>>

(* Test-and-set of the in-progress flag under e2eInProgressLock. *)
SkipDuplicate(r) ==
  /\ pc[r] = "guard"
  /\ tp[r] \in inProgress
  /\ Goto(r, "done")
  /\ UNCHANGED <<tp, gen, path, held, todo>>
  /\ UNCHANGED <<cloudVars, memVars, cleanVars, scanVars, run, procVars, lost>>

(* Mutant: the flag is set without being tested. *)
EnterGuardUntested(r) ==
  /\ pc[r] = "guard"
  /\ inProgress' = inProgress \cup {tp[r]}
  /\ Goto(r, "lookup")
  /\ UNCHANGED <<tracked, generation, tp, gen, path, held, todo>>
  /\ UNCHANGED <<cloudVars, cleanVars, scanVars, run, procVars, lost>>

EnterGuard(r) ==
  /\ pc[r] = "guard"
  /\ tp[r] \notin inProgress
  /\ inProgress' = inProgress \cup {tp[r]}
  /\ Goto(r, "lookup")
  /\ UNCHANGED <<tracked, generation, tp, gen, path, held, todo>>
  /\ UNCHANGED <<cloudVars, cleanVars, scanVars, run, procVars, lost>>

(* Path 1: the in-memory entry, read under e2eInstancesLock. *)
LookupMemory(r) ==
  /\ pc[r] = "lookup"
  /\ tracked # {}
  /\ held' = [held EXCEPT ![r] = tracked]
  /\ path' = [path EXCEPT ![r] = "memory"]
  /\ Goto(r, "cancel")
  /\ UNCHANGED <<tp, gen, todo>>
  /\ UNCHANGED <<cloudVars, memVars, cleanVars, scanVars, run, procVars, lost>>

LookupMiss(r) ==
  /\ pc[r] = "lookup"
  /\ tracked = {}
  /\ Goto(r, "query")
  /\ UNCHANGED <<tp, gen, path, held, todo>>
  /\ UNCHANGED <<cloudVars, memVars, cleanVars, scanVars, run, procVars, lost>>

(* findExistingE2EInstancesInCloud: the usable installations of this PR,   *)
(* accepted only if every platform has exactly one.                        *)
Reusable == {i \in Ids : inst[i] = "up"}
OnePerPlatform(S) == \A p \in Platforms : \E i \in S : S \cap (Requests \X {p}) = {i}
(* Mutant: a partial set is reused. *)
IsNonemptySet(S) == S # {}
IsCompleteSet(S) == OnePerPlatform(S)

FindInCloud(r) ==
  /\ pc[r] = "query"
  /\ IsCompleteSet(Reusable)
  /\ held' = [held EXCEPT ![r] = Reusable]
  /\ path' = [path EXCEPT ![r] = "cloud"]
  /\ Goto(r, "cancel")
  /\ UNCHANGED <<tp, gen, todo>>
  /\ UNCHANGED <<cloudVars, memVars, cleanVars, scanVars, run, procVars, lost>>

(* The query failed, or found no complete set: path 3. *)
NotInCloud(r) ==
  /\ pc[r] = "query"
  /\ path' = [path EXCEPT ![r] = "fresh"]
  /\ todo' = [todo EXCEPT ![r] = Own(r)]
  /\ Goto(r, "create")
  /\ UNCHANGED <<tp, gen, held>>
  /\ UNCHANGED <<cloudVars, memVars, cleanVars, scanVars, run, procVars, lost>>

(* cancelPRWorkflowRuns and wakeUpHibernatingInstances: the branch's       *)
(* in-progress runs are cancelled (the list or any one cancel may fail),   *)
(* then up to ten minutes pass per hibernating server; failures are logged *)
(* and the request proceeds.                                               *)
CancelRunsAndWake(r) ==
  /\ pc[r] = "cancel"
  /\ \E S \in SUBSET {q \in Requests : run[q] = "running"} :
       run' = [q \in Requests |-> IF q \in S THEN "over" ELSE run[q]]
  /\ Goto(r, IF path[r] = "memory" THEN "trigger" ELSE "store")
  /\ UNCHANGED <<tp, gen, path, held, todo>>
  /\ UNCHANGED <<cloudVars, memVars, cleanVars, scanVars, procVars, lost>>

(* createMultipleE2EInstances: a worker per platform; the installations    *)
(* come up at the provisioner's pace and are visible there all along.      *)
CreateOne(r, i) ==
  /\ pc[r] = "create"
  /\ i \in todo[r]
  /\ inst[i] = "none"
  /\ inst' = [inst EXCEPT ![i] = "creating"]
  /\ UNCHANGED <<aged, memVars, reqVars, cleanVars, scanVars, run, procVars, lost>>

WorkerDone(r, i) ==
  /\ pc[r] = "create"
  /\ i \in todo[r]
  /\ inst[i] = "up"
  /\ todo' = [todo EXCEPT ![r] = @ \ {i}]
  /\ UNCHANGED <<pc, tp, gen, path, held>>
  /\ UNCHANGED <<cloudVars, memVars, cleanVars, scanVars, run, procVars, lost>>

(* All workers succeeded, and GitHub says the PR is open or does not       *)
(* answer: go on to store the set.                                         *)
CreateReturns(r) ==
  /\ pc[r] = "create"
  /\ todo[r] = {}
  /\ held' = [held EXCEPT ![r] = Own(r)]
  /\ Goto(r, "store")
  /\ UNCHANGED <<tp, gen, path, todo>>
  /\ UNCHANGED <<cloudVars, memVars, cleanVars, scanVars, run, procVars, lost>>

(* GitHub says the PR is closed: destroy without tracking.  The PR may be  *)
(* closed at any time, and the webhook that says so may come later or, with*)
(* the process down or over its API rate limit, never.                     *)
CreatedForClosedPR(r) ==
  /\ pc[r] = "create"
  /\ todo[r] = {}
  /\ held' = [held EXCEPT ![r] = Own(r)]
  /\ todo' = [todo EXCEPT ![r] = Own(r)]
  /\ Goto(r, "destroy")
  /\ UNCHANGED <<tp, gen, path>>
  /\ UNCHANGED <<cloudVars, memVars, cleanVars, scanVars, run, procVars, lost>>

(* A worker failed: whatever was created is deleted before returning. *)
CreateFails(r) ==
  /\ pc[r] = "create"
  /\ todo[r] # {}
  /\ todo' = [todo EXCEPT ![r] = {i \in Own(r) : inst[i] # "none"}]
  /\ Goto(r, "destroy")
  /\ UNCHANGED <<tp, gen, path, held>>
  /\ UNCHANGED <<cloudVars, memVars, cleanVars, scanVars, run, procVars, lost>>

(* storeIfCurrent holds both locks: compare the generation and write.      *)
(* Mutant: the generation is not compared. *)
IsAlwaysCurrent(r) == TRUE
IsCurrent(r) == gen[r] = generation

Store(r) ==
  /\ pc[r] = "store"
  /\ IsCurrent(r)
  /\ tracked' = held[r]
  /\ lost' = lost \cup {i \in tracked \ held[r] : Live(i)}
  /\ Goto(r, "trigger")
  /\ UNCHANGED <<generation, inProgress, tp, gen, path, held, todo>>
  /\ UNCHANGED <<cloudVars, cleanVars, scanVars, run, procVars>>

(* Mutant: the refused set is dropped instead of destroyed. *)
DiscardForgets(r) ==
  /\ pc[r] = "store"
  /\ ~IsCurrent(r)
  /\ Goto(r, "release")
  /\ UNCHANGED <<tp, gen, path, held, todo>>
  /\ UNCHANGED <<cloudVars, memVars, cleanVars, scanVars, run, procVars, lost>>

Discard(r) ==
  /\ pc[r] = "store"
  /\ ~IsCurrent(r)
  /\ todo' = [todo EXCEPT ![r] = held[r]]
  /\ Goto(r, "destroy")
  /\ UNCHANGED <<tp, gen, path, held>>
  /\ UNCHANGED <<cloudVars, memVars, cleanVars, scanVars, run, procVars, lost>>

(* triggerE2EWorkflow: GitHub accepts the dispatch ... *)
Trigger(r) ==
  /\ pc[r] = "trigger"
  /\ run' = [run EXCEPT ![r] = "running"]
  /\ Goto(r, "release")
  /\ UNCHANGED <<tp, gen, path, held, todo>>
  /\ UNCHANGED <<cloudVars, memVars, cleanVars, scanVars, procVars, lost>>

(* ... or not: the reuse paths comment on the PR and keep the servers ...  *)
TriggerFailsReused(r) ==
  /\ pc[r] = "trigger"
  /\ path[r] # "fresh"
  /\ Goto(r, "release")
  /\ UNCHANGED <<tp, gen, path, held, todo>>
  /\ UNCHANGED <<cloudVars, memVars, cleanVars, scanVars, run, procVars, lost>>

(* ... and path 3 deletes the entry of its key, whatever that is by now,   *)
(* and goes on to destroy its own set.                                     *)
TriggerFailsFresh(r) ==
  /\ pc[r] = "trigger"
  /\ path[r] = "fresh"
  /\ tracked' = {}
  /\ lost' = lost \cup {i \in tracked \ held[r] : Live(i)}
  /\ todo' = [todo EXCEPT ![r] = held[r]]
  /\ Goto(r, "destroy")
  /\ UNCHANGED <<generation, inProgress, tp, gen, path, held>>
  /\ UNCHANGED <<cloudVars, cleanVars, scanVars, run, procVars>>

(* destroyE2EInstances: one call per server, errors only logged.           *)
DestroyOne(r) ==
  /\ pc[r] = "destroy"
  /\ \E i \in todo[r] :
       /\ DeleteAccepted(i) \/ DeleteRefused(i)
       /\ todo' = [todo EXCEPT ![r] = @ \ {i}]
  /\ UNCHANGED <<aged, pc, tp, gen, path, held>>
  /\ UNCHANGED <<memVars, cleanVars, scanVars, run, procVars>>

(* The deferred delete of the in-progress flag; and the mutant that only   *)
(* runs it on the ways out that destroyed nothing.                         *)
ReleaseUndeferred(r) ==
  /\ \/ pc[r] = "release"
     \/ pc[r] = "destroy" /\ todo[r] = {}
  /\ inProgress' = IF pc[r] = "release" THEN inProgress \ {tp[r]} ELSE inProgress
  /\ Goto(r, "done")
  /\ UNCHANGED <<tracked, generation, tp, gen, path, held, todo>>
  /\ UNCHANGED <<cloudVars, cleanVars, scanVars, run, procVars, lost>>

Release(r) ==
  /\ \/ pc[r] = "release"
     \/ pc[r] = "destroy" /\ todo[r] = {}
  /\ inProgress' = inProgress \ {tp[r]}
  /\ Goto(r, "done")
  /\ UNCHANGED <<tracked, generation, tp, gen, path, held, todo>>
  /\ UNCHANGED <<cloudVars, cleanVars, scanVars, run, procVars, lost>>
-----------------------------------------------------------------------------
(* handleE2ECleanup *)

(* A reset label, or the closed event of the PR, starts the goroutine,     *)
(* which bumps the generation before it touches a server.                  *)
(* Mutant: the generation goes the wrong way. *)
StartCleanupDecrements(c) ==
  /\ listening
  /\ cpc[c] = "idle"
  /\ generation' = generation - 1
  /\ cpc' = [cpc EXCEPT ![c] = "take"]
  /\ UNCHANGED <<tracked, inProgress, ctodo>>
  /\ UNCHANGED <<cloudVars, reqVars, scanVars, run, procVars, lost>>

StartCleanup(c) ==
  /\ listening
  /\ cpc[c] = "idle"
  /\ generation' = generation + 1
  /\ cpc' = [cpc EXCEPT ![c] = "take"]
  /\ UNCHANGED <<tracked, inProgress, ctodo>>
  /\ UNCHANGED <<cloudVars, reqVars, scanVars, run, procVars, lost>>

Take(c) ==
  /\ cpc[c] = "take"
  /\ ctodo' = [ctodo EXCEPT ![c] = tracked]
  /\ tracked' = {}
  /\ cpc' = [cpc EXCEPT ![c] = "destroy"]
  /\ UNCHANGED <<generation, inProgress>>
  /\ UNCHANGED <<cloudVars, reqVars, scanVars, run, procVars, lost>>

(* The loop over the tracked servers, and later the one over the orphans.  *)
CleanupDeletes(c) ==
  /\ cpc[c] \in {"destroy", "sweep"}
  /\ \E i \in ctodo[c] :
       /\ DeleteAccepted(i) \/ DeleteRefused(i)
       /\ ctodo' = [ctodo EXCEPT ![c] = @ \ {i}]
  /\ UNCHANGED <<aged, cpc>>
  /\ UNCHANGED <<memVars, reqVars, scanVars, run, procVars>>

(* cleanupOrphanedE2EInstances: everything under the PR's DNS pattern that *)
(* is not in a deletion state ...                                          *)
QueryOrphans(c) ==
  /\ cpc[c] = "destroy"
  /\ ctodo[c] = {}
  /\ ctodo' = [ctodo EXCEPT ![c] = LiveIds]
  /\ cpc' = [cpc EXCEPT ![c] = "sweep"]
  /\ UNCHANGED <<cloudVars, memVars, reqVars, scanVars, run, procVars, lost>>

(* ... and the cleanup ends when the query fails or the list is done.      *)
CleanupEnds(c) ==
  /\ cpc[c] \in {"destroy", "sweep"}
  /\ ctodo[c] = {}
  /\ cpc' = [cpc EXCEPT ![c] = "done"]
  /\ UNCHANGED ctodo
  /\ UNCHANGED <<cloudVars, memVars, reqVars, scanVars, run, procVars, lost>>
-----------------------------------------------------------------------------
(* cleanupStaleE2EInstances, run once before the router starts and then by *)
(* the ticker; the same goroutine never runs two scans at once.            *)

(* Mutant: only servers that came up are candidates. *)
ScanQueryUpOnly ==
  /\ spc = "idle"
  /\ stodo' = Reusable \cap (aged \X Platforms)
  /\ spc' = "delete"
  /\ UNCHANGED <<reaped, cloudVars, memVars, reqVars, cleanVars, run, procVars, lost>>

ScanQuery ==
  /\ spc = "idle"
  /\ stodo' = LiveIds \cap (aged \X Platforms)
  /\ spc' = "delete"
  /\ UNCHANGED <<reaped, cloudVars, memVars, reqVars, cleanVars, run, procVars, lost>>

(* The provisioner does not answer: nothing is reaped this time.           *)
ScanQueryFails ==
  /\ spc = "idle"
  /\ spc' = "delete"
  /\ UNCHANGED <<stodo, reaped, cloudVars, memVars, reqVars, cleanVars, run, procVars, lost>>

ScanDeletes(i) ==
  /\ spc = "delete"
  /\ i \in stodo
  /\ DeleteAccepted(i)
  /\ stodo' = stodo \ {i}
  /\ reaped' = reaped \cup {i}
  /\ UNCHANGED <<aged, spc>>
  /\ UNCHANGED <<memVars, reqVars, cleanVars, run, procVars>>

ScanDeleteFails(i) ==
  /\ spc = "delete"
  /\ i \in stodo
  /\ DeleteRefused(i)
  /\ stodo' = stodo \ {i}
  /\ UNCHANGED <<aged, spc, reaped>>
  /\ UNCHANGED <<memVars, reqVars, cleanVars, run, procVars>>

(* evictReapedPRInstances, and the end of the scan; the first scan of a    *)
(* process runs before its router is up.                                   *)
Evict ==
  /\ spc = "delete"
  /\ stodo = {}
  /\ tracked' = IF tracked \cap reaped # {} THEN {} ELSE tracked
  /\ lost' = lost \cup {i \in tracked \ tracked' : Live(i)}
  /\ spc' = "idle"
  /\ reaped' = {}
  /\ listening' = TRUE
  /\ UNCHANGED <<generation, inProgress, stodo, crashes>>
  /\ UNCHANGED <<cloudVars, reqVars, cleanVars, run>>
-----------------------------------------------------------------------------
(* The provisioner, GitHub and the process. *)

ComesUp(i) ==
  /\ inst[i] = "creating"
  /\ inst' = [inst EXCEPT ![i] = "up"]
  /\ UNCHANGED aged
  /\ UNCHANGED <<memVars, reqVars, cleanVars, scanVars, run, procVars, lost>>

Ages(r) ==
  /\ r \notin aged
  /\ \E i \in Own(r) : Live(i)
  /\ AgesInFlight \/ pc[r] = "done"
  /\ aged' = aged \cup {r}
  /\ UNCHANGED inst
  /\ UNCHANGED <<memVars, reqVars, cleanVars, scanVars, run, procVars, lost>>

RunEnds(r) ==
  /\ run[r] = "running"
  /\ run' = [run EXCEPT ![r] = "over"]
  /\ UNCHANGED <<cloudVars, memVars, reqVars, cleanVars, scanVars, procVars, lost>>

(* A restart loses every map and every goroutine; nothing is persisted.    *)
Crash ==
  /\ crashes < MaxCrashes
  /\ crashes' = crashes + 1
  /\ listening' = FALSE
  /\ tracked' = {}
  /\ generation' = 0
  /\ inProgress' = {}
  /\ pc' = [r \in Requests |-> IF pc[r] = "idle" THEN "idle" ELSE "done"]
  /\ gen' = [r \in Requests |-> 0]
  /\ path' = [r \in Requests |-> "none"]
  /\ held' = [r \in Requests |-> {}]
  /\ todo' = [r \in Requests |-> {}]
  /\ cpc' = [c \in Cleanups |-> IF cpc[c] = "idle" THEN "idle" ELSE "done"]
  /\ ctodo' = [c \in Cleanups |-> {}]
  /\ spc' = "idle"
  /\ stodo' = {}
  /\ reaped' = {}
  /\ lost' = LiveIds
  /\ UNCHANGED <<tp, cloudVars, run>>
-----------------------------------------------------------------------------
RequestProgress(r) ==
  \/ SkipDuplicate(r) \/ EnterGuard(r)
  \/ LookupMemory(r) \/ LookupMiss(r) \/ FindInCloud(r) \/ NotInCloud(r)
  \/ CancelRunsAndWake(r)
  \/ \E i \in Own(r) : CreateOne(r, i) \/ WorkerDone(r, i)
  \/ CreateReturns(r) \/ CreateFails(r) \/ CreatedForClosedPR(r)
  \/ Store(r) \/ Discard(r)
  \/ Trigger(r) \/ TriggerFailsReused(r) \/ TriggerFailsFresh(r)
  \/ DestroyOne(r) \/ Release(r)

CleanupProgress(c) ==
  Take(c) \/ CleanupDeletes(c) \/ QueryOrphans(c) \/ CleanupEnds(c)

ScanStep ==
  \/ ScanQuery \/ ScanQueryFails
  \/ \E i \in Ids : ScanDeletes(i) \/ ScanDeleteFails(i)
  \/ Evict

EnvStep ==
  \/ \E r \in Requests : StartRequest(r) \/ Ages(r) \/ RunEnds(r)
  \/ \E c \in Cleanups : StartCleanup(c)
  \/ \E i \in Ids : ComesUp(i)
  \/ Crash

Next ==
  \/ \E r \in Requests : RequestProgress(r)
  \/ \E c \in Cleanups : CleanupProgress(c)
  \/ ScanStep
  \/ EnvStep

Spec == Init /\ [][Next]_vars

(* Goroutines that can run do run, the ticker ticks, servers get older.    *)
(* The provisioner may refuse any number of calls but not one call for     *)
(* ever: the scan's list and each of its deletes succeed if they are       *)
(* repeated.  No fairness is asked of GitHub, of users, of a server coming *)
(* up, or of the request picking one branch rather than another.           *)
Fairness ==
  /\ \A r \in Requests : WF_vars(RequestProgress(r)) /\ WF_vars(Ages(r))
  /\ \A c \in Cleanups : WF_vars(CleanupProgress(c))
  /\ WF_vars(ScanStep)
  /\ SF_vars(ScanQuery)
  /\ \A i \in Ids : SF_vars(ScanDeletes(i))

FairSpec == Spec /\ Fairness
-----------------------------------------------------------------------------
(* Properties.                                                             *)

(* Every variable keeps its type. *)
TypeOK ==
  /\ inst \in [Ids -> InstStates]
  /\ aged \subseteq Requests
  /\ tracked \subseteq Ids
  /\ generation \in Nat
  /\ inProgress \subseteq TestPlatforms
  /\ pc \in [Requests -> RequestPCs]
  /\ tp \in [Requests -> TestPlatforms]
  /\ gen \in [Requests -> Nat]
  /\ path \in [Requests -> Paths]
  /\ held \in [Requests -> SUBSET Ids]
  /\ todo \in [Requests -> SUBSET Ids]
  /\ cpc \in [Cleanups -> CleanupPCs]
  /\ ctodo \in [Cleanups -> SUBSET Ids]
  /\ spc \in {"idle", "delete"}
  /\ stodo \subseteq Ids
  /\ reaped \subseteq Ids
  /\ run \in [Requests -> {"none", "running", "over"}]
  /\ listening \in BOOLEAN
  /\ crashes \in 0..MaxCrashes
  /\ lost \subseteq Ids

(* The goroutine is between setting its in-progress flag and clearing it.  *)
Working(r) == pc[r] \notin {"idle", "guard", "done"}

(* Two requests for the same test platform of the PR never provision or    *)
(* dispatch at the same time, whatever webhooks GitHub redelivers: the     *)
(* test-and-set of e2eInProgress and its deferred delete.                  *)
SingleFlight ==
  \A q, r \in Requests : Working(q) /\ Working(r) /\ tp[q] = tp[r] => q = r

(* After a reset or close has bumped the generation and taken the entry,   *)
(* nothing provisioned for the older generation comes back into the map:   *)
(* a tracked set is one that a request of the current generation holds,    *)
(* unless a cleanup that bumped is about to take it.                       *)
TrackedIsCurrent ==
  \/ tracked = {}
  \/ \E c \in Cleanups : cpc[c] = "take"
  \/ \E r \in Requests : tracked = held[r] /\ gen[r] = generation

(* What is tracked, and what a workflow is dispatched with, is one server  *)
(* per platform, whatever the cloud held and whoever shared it: the        *)
(* dispatch indexes the slice by platform.                                 *)
SetsComplete ==
  /\ tracked = {} \/ OnePerPlatform(tracked)
  /\ \A r \in Requests : run[r] = "running" /\ held[r] # {} => OnePerPlatform(held[r])

(* The servers that a goroutine of this process is still going to track,   *)
(* dispatch to or destroy.                                                 *)
InHand(i) ==
  \/ \E r \in Requests :
       \/ pc[r] = "create" /\ i \in Own(r)
       \/ pc[r] = "store" /\ i \in held[r]
       \/ pc[r] = "destroy" /\ i \in todo[r]
  \/ \E c \in Cleanups : cpc[c] \in {"destroy", "sweep"} /\ i \in ctodo[c]

(* No live server is forgotten silently: it is in the map, in the hands of *)
(* a goroutine, or was lost at one of the four places the history variable *)
(* records: a failed delete, a restart, an entry overwritten or removed by *)
(* a request for another platform, an eviction of a partly reaped set.     *)
EveryServerAccounted ==
  \A i \in Ids : Live(i) => i \in tracked \/ InHand(i) \/ i \in lost

(* The deferred delete runs on every way out of handleE2ETestRequest, so a *)
(* platform is never locked out of E2E/Run for good.                       *)
InProgressCleared ==
  \A t \in TestPlatforms : t \in inProgress ~> t \notin inProgress

(* The scan is the backstop for whatever the other paths lose: a failed    *)
(* delete, a restart in the middle of a creation, an overwritten entry.    *)
(* Every installation of the PR is deleted in the end.                     *)
NoServerLivesForever ==
  \A i \in Ids : Live(i) ~> ~Live(i)
-----------------------------------------------------------------------------
(* What a comment of the code says and the code does not do, refuted by a  *)
(* run of its own.                                                         *)

Dispatches(r) == run[r] # "running" /\ run'[r] = "running"

(* e2e_tests.go:738-744, on the generation counter: a reset that advances  *)
(* it keeps a provisioning request from "dispatching a workflow against    *)
(* already-deleted servers".  The counter is compared when the set is      *)
(* stored, not when the workflow is dispatched.                            *)
NoDispatchAfterReset ==
  [][\A r \in Requests :
       Dispatches(r) /\ path[r] = "fresh" /\ gen[r] # generation
         => \A i \in held[r] : Live(i)]_vars
=============================================================================
