---------------------------- MODULE CMTDispatch ----------------------------
(***************************************************************************)
(* Tying a CMT server set to the workflow run that tests it.  GitHub's     *)
(* dispatch call does not return a run id, so dispatchAndTrackCMT holds a  *)
(* lock per repository while it snapshots the ids of the existing runs,    *)
(* dispatches, polls for an id that is new and unclaimed, and stores the   *)
(* servers under it; the completed event of that id destroys them.         *)
(* src/server/cmt_provision.go and workflow_run.go.                        *)
(*                                                                         *)
(* One repository and one branch: the lock and the claimed ids are per     *)
(* repository and the listed runs per branch, so other branches only make  *)
(* lists shorter.  Run ids are the order in which GitHub makes the runs.   *)
(*                                                                         *)
(* The stale scan reads nothing but the age of a server, so time passes    *)
(* here in ticks.  The servers of a set are one unit of one age, that of   *)
(* the oldest; a set that gets here is up already, and as old as creating  *)
(* and initialising its servers has made it.                               *)
(***************************************************************************)
EXTENDS Naturals, FiniteSets

CONSTANTS
  Dispatchers,      \* goroutines in dispatchAndTrackCMT, one server set each
  NoOne,            \* the lock is free
  MaxForeign,       \* bound: runs that somebody dispatches by hand
  SnapshotMayFail,  \* the list of runs before the dispatch may fail
  PollMayFail,      \* the poll may end (list error, 90 s) before the run is listed
  AnswerMayBeLost,  \* the dispatch may be reported failed though GitHub took it
  EarlyCompletion,  \* a run may complete before its set is stored
  MaxAge,           \* E2EInstanceMaxAge, in ticks
  Provisioning,     \* bound: the age of a set that gets here, in ticks
  LongestRun        \* "the longest expected E2E run duration" (config.go)

ASSUME NoOneAssumption == NoOne \notin Dispatchers
ASSUME BoundAssumption == MaxForeign \in Nat
ASSUME AgeAssumption ==
  MaxAge \in Nat /\ Provisioning \in 0..MaxAge /\ LongestRun \in Nat
ASSUME FaultsAssumption ==
  {SnapshotMayFail, PollMayFail, AnswerMayBeLost, EarlyCompletion} \subseteq BOOLEAN

VARIABLES
  lock,      \* cmtDispatchLocks[repo]
  pc,
  pre,       \* preDispatchRunIDs
  seen,      \* the runs of the poll's last list
  picked,    \* the run id the poll returned
  tracked,   \* the run id a set is stored under in e2eInstances, 0 if none
  servers,   \* the provisioner: "up" or "gone", per set
  asked,     \* GitHub: dispatches accepted whose run does not exist yet
  runOf,     \* GitHub: the run of a dispatch, 0 if none yet
  last,      \* GitHub: the newest run id
  foreign,   \* GitHub: runs dispatched by hand
  finished,  \* GitHub: completed runs
  events,    \* completed events not yet handled
  lost,      \* history: runs whose completed event was dropped
  age,       \* ticks since the servers of a set were created, up to MaxAge
  began,     \* history: their age when the run of the set appeared
  before     \* history: the newest run id when the snapshot was taken

local  == <<pc, pre, seen, picked, before>>
memory == <<lock, tracked>>
github == <<asked, runOf, last, foreign, finished, events, lost, began>>
vars == <<local, memory, github, servers, age>>

Runs == 1..last
Claimed == {tracked[d] : d \in Dispatchers} \ {0}
PCs == {"ready", "snapshot", "dispatch", "poll", "pick", "store", "done"}

Init ==
  /\ lock = NoOne
  /\ pc = [d \in Dispatchers |-> "ready"]
  /\ pre = [d \in Dispatchers |-> {}]
  /\ seen = [d \in Dispatchers |-> {}]
  /\ picked = [d \in Dispatchers |-> 0]
  /\ tracked = [d \in Dispatchers |-> 0]
  /\ servers = [d \in Dispatchers |-> "up"]
  /\ asked = {}
  /\ runOf = [d \in Dispatchers |-> 0]
  /\ last = 0
  /\ foreign = {}
  /\ finished = {}
  /\ events = {}
  /\ lost = {}
  /\ age \in [Dispatchers -> 0..Provisioning]
  /\ began = [d \in Dispatchers |-> 0]
  /\ before = [d \in Dispatchers |-> 0]

Goto(d, label) == pc' = [pc EXCEPT ![d] = label]

(* destroyE2EInstances: the servers go, or the delete fails and is logged. *)
Destroy(d) == \E s \in {"up", "gone"} : servers' = [servers EXCEPT ![d] = s]
-----------------------------------------------------------------------------
(* The CMT_MATRIX cannot be built: nothing is dispatched. *)
MatrixFails(d) ==
  /\ pc[d] = "ready"
  /\ Destroy(d)
  /\ Goto(d, "done")
  /\ UNCHANGED <<pre, seen, picked, before, memory, github, age>>

(* Mutant: the section is entered without the lock. *)
LockIgnored(d) ==
  /\ pc[d] = "ready"
  /\ lock' = d
  /\ Goto(d, "snapshot")
  /\ UNCHANGED <<pre, seen, picked, before, tracked, github, servers, age>>

Lock(d) ==
  /\ pc[d] = "ready"
  /\ lock = NoOne
  /\ lock' = d
  /\ Goto(d, "snapshot")
  /\ UNCHANGED <<pre, seen, picked, before, tracked, github, servers, age>>

(* Mutant: the ids in the answer are not recorded. *)
SnapshotUnread(d) ==
  /\ pc[d] = "snapshot"
  /\ before' = [before EXCEPT ![d] = last]
  /\ Goto(d, "dispatch")
  /\ UNCHANGED <<pre, seen, picked, memory, github, servers, age>>

(* listExistingCMTRunIDs; of the ten runs of a list only the new ones      *)
(* matter, and they come first.                                            *)
Snapshot(d) ==
  /\ pc[d] = "snapshot"
  /\ pre' = [pre EXCEPT ![d] = Runs]
  /\ before' = [before EXCEPT ![d] = last]
  /\ Goto(d, "dispatch")
  /\ UNCHANGED <<seen, picked, memory, github, servers, age>>

(* The list failed: a warning, an empty snapshot, and on with the dispatch. *)
SnapshotFails(d) ==
  /\ SnapshotMayFail
  /\ pc[d] = "snapshot"
  /\ Goto(d, "dispatch")
  /\ UNCHANGED <<pre, seen, picked, before, memory, github, servers, age>>

Dispatch(d) ==
  /\ pc[d] = "dispatch"
  /\ asked' = asked \cup {d}
  /\ Goto(d, "poll")
  /\ UNCHANGED <<pre, seen, picked, before, memory, runOf, last, foreign, finished,
                 events, lost, began, servers, age>>

(* No client, or an error from the dispatch, destroys the servers; with    *)
(* AnswerMayBeLost it may be GitHub's answer that missed the 15 s deadline.*)
DispatchFails(d) ==
  /\ \/ pc[d] \in {"snapshot", "dispatch"} /\ UNCHANGED asked
     \/ pc[d] = "dispatch" /\ AnswerMayBeLost /\ asked' = asked \cup {d}
  /\ Destroy(d)
  /\ lock' = NoOne
  /\ Goto(d, "done")
  /\ UNCHANGED <<pre, seen, picked, before, tracked, runOf, last, foreign, finished,
                 events, lost, began, age>>

PollList(d) ==
  /\ pc[d] = "poll"
  /\ seen' = [seen EXCEPT ![d] = Runs]
  /\ Goto(d, "pick")
  /\ UNCHANGED <<pre, picked, before, memory, github, servers, age>>

(* Mutant: the claimed ids are not skipped. *)
CandidatesUnclaimed(d) == seen[d] \ pre[d]
Candidates(d) == seen[d] \ (pre[d] \cup Claimed)
Newest(k, S) == k \in S /\ \A j \in S : j <= k

PollPicks(d) ==
  /\ pc[d] = "pick"
  /\ \E k \in seen[d] :
       Newest(k, Candidates(d)) /\ picked' = [picked EXCEPT ![d] = k]
  /\ Goto(d, "store")
  /\ UNCHANGED <<pre, seen, before, memory, github, servers, age>>

PollAgain(d) ==
  /\ pc[d] = "pick"
  /\ Candidates(d) = {}
  /\ Goto(d, "poll")
  /\ UNCHANGED <<pre, seen, picked, before, memory, github, servers, age>>

(* Run id 0: the servers are left to the stale scan.                       *)
PollGivesUp(d) ==
  /\ PollMayFail
  /\ pc[d] = "poll"
  /\ lock' = NoOne
  /\ Goto(d, "done")
  /\ UNCHANGED <<pre, seen, picked, before, tracked, github, servers, age>>

(* A map write: another set under the same key would lose its entry.       *)
Store(d) ==
  /\ pc[d] = "store"
  /\ tracked' = [c \in Dispatchers |->
                   IF c = d THEN picked[d]
                   ELSE IF tracked[c] = picked[d] THEN 0 ELSE tracked[c]]
  /\ lock' = NoOne
  /\ Goto(d, "done")
  /\ UNCHANGED <<pre, seen, picked, before, github, servers, age>>
-----------------------------------------------------------------------------
(* Mutant: the key is matched by its prefix, which every set has. *)
HandleCompletionByPrefix(k) ==
  /\ k \in events
  /\ events' = events \ {k}
  /\ tracked' = [d \in Dispatchers |-> 0]
  /\ \E D \in SUBSET {d \in Dispatchers : tracked[d] # 0} :
       servers' = [d \in Dispatchers |-> IF d \in D THEN "gone" ELSE servers[d]]
  /\ UNCHANGED <<local, lock, asked, runOf, last, foreign, finished, lost, began, age>>

(* Mutant: the servers go and the entry stays. *)
HandleCompletionKeeps(k) ==
  /\ k \in events
  /\ events' = events \ {k}
  /\ \E D \in SUBSET {d \in Dispatchers : tracked[d] = k} :
       servers' = [d \in Dispatchers |-> IF d \in D THEN "gone" ELSE servers[d]]
  /\ UNCHANGED <<local, memory, asked, runOf, last, foreign, finished, lost, began, age>>

(* findAndDestroyInstancesByRunID: take the entry of the run, destroy it.  *)
HandleCompletion(k) ==
  /\ k \in events
  /\ events' = events \ {k}
  /\ tracked' = [d \in Dispatchers |-> IF tracked[d] = k THEN 0 ELSE tracked[d]]
  /\ \E D \in SUBSET {d \in Dispatchers : tracked[d] = k} :
       servers' = [d \in Dispatchers |-> IF d \in D THEN "gone" ELSE servers[d]]
  /\ UNCHANGED <<local, lock, asked, runOf, last, foreign, finished, lost, began, age>>

(* githubEvent asks for the rate limit first and returns, at the reserve,  *)
(* without having read the event; GitHub does not deliver it again.        *)
LoseEvent(k) ==
  /\ k \in events
  /\ events' = events \ {k}
  /\ lost' = lost \cup {k}
  /\ UNCHANGED <<local, memory, asked, runOf, last, foreign, finished, began, servers, age>>

(* cleanupStaleE2EInstances deletes what is E2EInstanceMaxAge old, wherever *)
(* its dispatcher is and whatever tests it; a delete that fails is left to  *)
(* the scan an hour later.  CMT entries stay in the map.                    *)
StaleScan(d) ==
  /\ servers[d] = "up"
  /\ age[d] >= MaxAge
  /\ servers' = [servers EXCEPT ![d] = "gone"]
  /\ UNCHANGED <<local, memory, github, age>>
-----------------------------------------------------------------------------
(* GitHub: a dispatched run gets its id a while after the call returns.    *)
RunAppears(d) ==
  /\ d \in asked
  /\ asked' = asked \ {d}
  /\ last' = last + 1
  /\ runOf' = [runOf EXCEPT ![d] = last + 1]
  /\ began' = [began EXCEPT ![d] = age[d]]
  /\ UNCHANGED <<local, memory, foreign, finished, events, lost, servers, age>>

ForeignRun ==
  /\ Cardinality(foreign) < MaxForeign
  /\ last' = last + 1
  /\ foreign' = foreign \cup {last + 1}
  /\ UNCHANGED <<local, memory, asked, runOf, finished, events, lost, began, servers, age>>

(* Without EarlyCompletion a run outlasts the poll that looks for it.      *)
RunCompletes(k) ==
  /\ k \in Runs \ finished
  /\ EarlyCompletion \/ \A d \in Dispatchers : runOf[d] = k => pc[d] = "done"
  /\ finished' = finished \cup {k}
  /\ events' = events \cup {k}
  /\ UNCHANGED <<local, memory, asked, runOf, last, foreign, lost, began, servers, age>>

(* A run is being executed for the set. *)
UnderWay(d) == runOf[d] # 0 /\ runOf[d] \notin finished

(* Time goes by, but a run that has had LongestRun ticks ends first.       *)
Tick ==
  /\ \A d \in Dispatchers : UnderWay(d) => age[d] < began[d] + LongestRun
  /\ age' = [d \in Dispatchers |-> IF age[d] < MaxAge THEN age[d] + 1 ELSE MaxAge]
  /\ age' # age
  /\ UNCHANGED <<local, memory, github, servers>>
-----------------------------------------------------------------------------
DispatcherStep(d) ==
  \/ MatrixFails(d) \/ Lock(d) \/ Snapshot(d) \/ SnapshotFails(d)
  \/ Dispatch(d) \/ DispatchFails(d) \/ PollList(d) \/ PollPicks(d)
  \/ PollAgain(d) \/ PollGivesUp(d) \/ Store(d)

Next ==
  \/ \E d \in Dispatchers : DispatcherStep(d) \/ RunAppears(d) \/ StaleScan(d)
  \/ \E k \in Runs : RunCompletes(k) \/ HandleCompletion(k) \/ LoseEvent(k)
  \/ ForeignRun
  \/ Tick

Spec == Init /\ [][Next]_vars

(* Goroutines run, a lock that is free again and again is got, GitHub      *)
(* makes and finishes the runs it accepted.  Of a completed event it is    *)
(* only known that it is handled or dropped; of the scan nothing is asked. *)
Fairness ==
  /\ \A d \in Dispatchers :
       /\ WF_vars(DispatcherStep(d)) /\ SF_vars(Lock(d))
       /\ WF_vars(RunAppears(d))
  /\ \A k \in 1..(Cardinality(Dispatchers) + MaxForeign) :
       WF_vars(RunCompletes(k)) /\ WF_vars(HandleCompletion(k) \/ LoseEvent(k))

FairSpec == Spec /\ Fairness
-----------------------------------------------------------------------------
(* Properties.                                                             *)

(* Every variable keeps its type. *)
TypeOK ==
  /\ lock \in Dispatchers \cup {NoOne}
  /\ pc \in [Dispatchers -> PCs]
  /\ pre \in [Dispatchers -> SUBSET Nat]
  /\ seen \in [Dispatchers -> SUBSET Nat]
  /\ picked \in [Dispatchers -> Nat]
  /\ tracked \in [Dispatchers -> Nat]
  /\ servers \in [Dispatchers -> {"up", "gone"}]
  /\ asked \subseteq Dispatchers
  /\ runOf \in [Dispatchers -> Nat]
  /\ last \in Nat
  /\ foreign \subseteq Nat
  /\ finished \subseteq Nat
  /\ events \subseteq Nat
  /\ lost \subseteq Nat
  /\ age \in [Dispatchers -> 0..MaxAge]
  /\ began \in [Dispatchers -> 0..MaxAge]
  /\ before \in [Dispatchers -> Nat]

(* Whatever fails or comes early, a store never overwrites the entry of    *)
(* another set: the id the poll returned is unclaimed until it is stored,  *)
(* because the lock covers the claim check and the store together.         *)
ClaimIsFree ==
  \A d \in Dispatchers : pc[d] = "store" => picked[d] \notin Claimed

(* A dispatcher that has a snapshot never takes a run that is older, not   *)
(* even one whose entry has been removed and which nobody claims any more: *)
(* every run of the repository passes the poll's test sooner or later but  *)
(* for the snapshot.                                                       *)
OnlyNewRuns ==
  \A d \in Dispatchers : pc[d] = "store" => picked[d] > before[d]

(* A set is tracked under the run that tests it: server.go:49, the lock    *)
(* "serializes dispatch+poll+store per repo to prevent run-id collisions". *)
(* For instances in which the poll finds the run it waits for.             *)
RightRun ==
  \A d \in Dispatchers : tracked[d] # 0 => tracked[d] = runOf[d]

(* No run of the set is under way or to come.                              *)
NotUnderTest(d) == ~UnderWay(d) /\ d \notin asked

(* The run of the set began, or may still begin, early enough to be over   *)
(* before the servers are E2EInstanceMaxAge old.                           *)
InTime(d) ==
  (IF runOf[d] = 0 THEN age[d] ELSE began[d]) + LongestRun < MaxAge

(* No set whose run begins in time is destroyed while that run is testing  *)
(* it, or may come to: not by a completed event of another run, a failed   *)
(* dispatch or the stale scan.  InTime is for whoever sets                 *)
(* E2EInstanceMaxAge: config.go:118 asks only for "the longest expected    *)
(* E2E run duration plus a small buffer", but the age counts from CreateAt,*)
(* and a set that is late is destroyed under its run.                      *)
NoTeardownUnderTest ==
  \A d \in Dispatchers : servers[d] = "gone" /\ InTime(d) => NotUnderTest(d)

(* The completed event of a run removes the entry stored under it, if the  *)
(* entry was there before the run was over and the event is not dropped.   *)
(* Nothing else removes CMT entries, the stale scan only evicts those of   *)
(* pull requests: a dropped event leaves the entry for good.               *)
EntryRemoved ==
  \A d \in Dispatchers :
    tracked[d] # 0 /\ tracked[d] \notin finished
      ~> tracked[d] = 0 \/ tracked[d] \in lost
=============================================================================
