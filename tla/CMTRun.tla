------------------------------- MODULE CMTRun -------------------------------
(***************************************************************************)
(* A compatibility run from the workflow_run event to the dispatch: the    *)
(* versions are resolved and capped, provisioned one after the other (on   *)
(* mobile within a slot of the whole process), the survivors dispatched or *)
(* destroyed, and what was dropped is tried once more five minutes later.  *)
(* src/server/cmt_provision.go, workflow_run.go.                           *)
(*                                                                         *)
(* Provision models the servers of one version, CMTDispatch the dispatch   *)
(* with its lock and run ids; here each is one step with its outcomes.     *)
(***************************************************************************)
EXTENDS CMTMatrix

CONSTANTS
  Triggers,    \* handled events of the trigger workflow
  RepoTypes,   \* of the repositories they may come from
  Lists        \* what cmtServerVersions may return, per trigger

ASSUME TypesAssumption == RepoTypes \subseteq {"desktop", "mobile", "other"}
ASSUME ListsAssumption ==
  \A t \in Triggers : Lists[t] \subseteq Seq(Version) \ {<<>>}

VARIABLES
  type, requested, full,          \* of a trigger: instanceType, requestedVersions, fullSuiteVersion
  sem,                            \* entries in cmtMobileProvisionSem
  stopped,                        \* stopCh is closed
  pc, todo,                       \* of a pass: where it is, versions still to provision
  insts, valid, dropped,          \* what provisionCMTVersions returns
  fate                            \* what becomes of the servers

trigger == <<type, requested, full>>
results == <<insts, valid, dropped>>
vars == <<trigger, sem, stopped, pc, todo, results, fate>>

Primary(t) == <<t, "primary">>
Retry(t) == <<t, "retry">>
Passes == Triggers \X {"primary", "retry"}
PCs == {"off", "delay", "acquire", "provision", "ship", "dispatch", "done"}
Fates == {"none", "dispatched", "destroyed"}

Init ==
  /\ type = [t \in Triggers |-> "other"]
  /\ requested = [t \in Triggers |-> <<>>]
  /\ full = [t \in Triggers |-> None]
  /\ sem = 0
  /\ stopped = FALSE
  /\ pc = [p \in Passes |-> "off"]
  /\ todo = [p \in Passes |-> <<>>]
  /\ insts = [p \in Passes |-> <<>>]
  /\ valid = [p \in Passes |-> <<>>]
  /\ dropped = [p \in Passes |-> <<>>]
  /\ fate = [p \in Passes |-> "none"]

Mobile(t) == type[t] = "mobile"
-----------------------------------------------------------------------------
(* shouldTriggerCMT: by hand, or by its ref a candidate or a release.      *)
TriggerEvents == {"workflow_dispatch", "push"}
Refs == {"rc_tag", "build_release", "release", "feature"}
ShouldTriggerCMT(event, ref) ==
  event = "workflow_dispatch" \/ ref \in {"rc_tag", "build_release", "release"}

Capped(kind, list) ==
  IF kind = "mobile" THEN SpanVersions(list, VersionCap(kind))
  ELSE CapVersions(list, VersionCap(kind))

FirstPlaces(s) == {i \in DOMAIN s : s[i] # None /\ \A j \in 1..(i - 1) : s[j] # s[i]}

(* Every version once, the full suite first; an empty entry is skipped.    *)
Ordered(s, v) ==
  EntriesAt(s, {i \in FirstPlaces(s) : s[i] = v}) \o
  EntriesAt(s, {i \in FirstPlaces(s) : s[i] # v})

(* handleWorkflowRunEventWithInputs, handleCMTTrigger and the first lines  *)
(* of handleCMTWithServerVersions.                                         *)
HandleCMTTrigger(t) ==
  /\ pc[Primary(t)] = "off"
  /\ \E event \in TriggerEvents, ref \in Refs : ShouldTriggerCMT(event, ref)
  /\ \E kind \in RepoTypes \ {"other"}, list \in Lists[t] :
       LET versions == Capped(kind, list)
           suite == IF kind = "mobile" THEN LatestVersion(versions) ELSE None
       IN  /\ type' = [type EXCEPT ![t] = kind]
           /\ requested' = [requested EXCEPT ![t] = versions]
           /\ full' = [full EXCEPT ![t] = suite]
           /\ todo' = [todo EXCEPT ![Primary(t)] = Ordered(versions, suite)]
           /\ pc' = [pc EXCEPT ![Primary(t)] = IF kind = "mobile" THEN "acquire" ELSE "provision"]
  /\ UNCHANGED <<sem, stopped, results, fate>>
-----------------------------------------------------------------------------
(* provisionCMTVersions *)

(* Mutant: the channel has no bound. *)
AcquireAtOnce(t, k) ==
  /\ pc[<<t, k>>] = "acquire"
  /\ sem' = sem + 1
  /\ pc' = [pc EXCEPT ![<<t, k>>] = "provision"]
  /\ UNCHANGED <<trigger, stopped, todo, results, fate>>

(* The send to a channel of capacity one.                                  *)
Acquire(t, k) ==
  /\ pc[<<t, k>>] = "acquire"
  /\ sem < 1
  /\ sem' = sem + 1
  /\ pc' = [pc EXCEPT ![<<t, k>>] = "provision"]
  /\ UNCHANGED <<trigger, stopped, todo, results, fate>>

(* Ten minutes without the slot, or the stop: all versions are dropped.    *)
(* (The code drops them as they were asked for; the retry orders them.)    *)
AcquireFails(t, k) ==
  /\ pc[<<t, k>>] = "acquire"
  /\ dropped' = [dropped EXCEPT ![<<t, k>>] = todo[<<t, k>>]]
  /\ todo' = [todo EXCEPT ![<<t, k>>] = <<>>]
  /\ pc' = [pc EXCEPT ![<<t, k>>] = "ship"]
  /\ UNCHANGED <<trigger, sem, stopped, insts, valid, fate>>

TopologySeq ==
  <<"android-site-1", "android-site-2", "ios-site-1", "ios-site-2", "site-3">>
Topology(t, v) ==
  IF ~Mobile(t) THEN <<"desktop">> ELSE IF v = full[t] THEN TopologySeq ELSE <<"site-3">>
Servers(t, v) ==
  [i \in DOMAIN Topology(t, v) |-> [version |-> v, platform |-> Topology(t, v)[i]]]

(* Mutant: the servers of a version are put before those of the others. *)
ProvisionVersionPrepends(t, k) ==
  LET p == <<t, k>>
      v == Head(todo[p])
  IN  /\ pc[p] = "provision"
      /\ todo[p] # <<>>
      /\ todo' = [todo EXCEPT ![p] = Tail(@)]
      /\ \/ /\ insts' = [insts EXCEPT ![p] = Servers(t, v) \o @]
            /\ valid' = [valid EXCEPT ![p] = Append(@, v)]
            /\ UNCHANGED dropped
         \/ /\ dropped' = [dropped EXCEPT ![p] = Append(@, v)]
            /\ UNCHANGED <<insts, valid>>
      /\ UNCHANGED <<trigger, sem, stopped, pc, fate>>

(* The next version has its servers, all of them, or is dropped.           *)
ProvisionVersion(t, k) ==
  LET p == <<t, k>>
      v == Head(todo[p])
  IN  /\ pc[p] = "provision"
      /\ todo[p] # <<>>
      /\ todo' = [todo EXCEPT ![p] = Tail(@)]
      /\ \/ /\ insts' = [insts EXCEPT ![p] = @ \o Servers(t, v)]
            /\ valid' = [valid EXCEPT ![p] = Append(@, v)]
            /\ UNCHANGED dropped
         \/ /\ dropped' = [dropped EXCEPT ![p] = Append(@, v)]
            /\ UNCHANGED <<insts, valid>>
      /\ UNCHANGED <<trigger, sem, stopped, pc, fate>>

(* Mutant: the slot is kept. *)
ProvisionDoneKeepsSlot(t, k) ==
  /\ pc[<<t, k>>] = "provision"
  /\ todo[<<t, k>>] = <<>>
  /\ pc' = [pc EXCEPT ![<<t, k>>] = "ship"]
  /\ UNCHANGED <<trigger, sem, stopped, todo, results, fate>>

(* The deferred release receives from the channel if there is something.   *)
ProvisionDone(t, k) ==
  /\ pc[<<t, k>>] = "provision"
  /\ todo[<<t, k>>] = <<>>
  /\ sem' = IF Mobile(t) /\ sem > 0 THEN sem - 1 ELSE sem
  /\ pc' = [pc EXCEPT ![<<t, k>>] = "ship"]
  /\ UNCHANGED <<trigger, stopped, todo, results, fate>>
-----------------------------------------------------------------------------
(* The rest of handleCMTWithServerVersions and retryDroppedCMTVersions.    *)
NoSuite(t, k, versions) ==
  /\ Mobile(t) /\ full[t] # None
  /\ full[t] \in Elements(versions)
  /\ full[t] \notin Elements(valid[<<t, k>>])

Ended(p) == IF insts[p] = <<>> THEN "done" ELSE "dispatch"

(* cmtRunDroppedRetry starts a goroutine with a timer and these versions.  *)
Schedule(t, versions, after) ==
  /\ pc' = [pc EXCEPT ![Primary(t)] = after, ![Retry(t)] = "delay"]
  /\ todo' = [todo EXCEPT ![Retry(t)] = versions]

(* Mutant: only what was dropped is tried again. *)
RefusePrimaryRetriesDropped(t) ==
  /\ pc[Primary(t)] = "ship"
  /\ NoSuite(t, "primary", requested[t])
  /\ fate' = [fate EXCEPT ![Primary(t)] = "destroyed"]
  /\ Schedule(t, dropped[Primary(t)], "done")
  /\ UNCHANGED <<trigger, sem, stopped, results>>

(* Mobile without its full suite: what came up is destroyed, and the       *)
(* retry gets every version.                                               *)
RefusePrimary(t) ==
  /\ pc[Primary(t)] = "ship"
  /\ NoSuite(t, "primary", requested[t])
  /\ fate' = [fate EXCEPT ![Primary(t)] = "destroyed"]
  /\ Schedule(t, requested[t], "done")
  /\ UNCHANGED <<trigger, sem, stopped, results>>

(* Mutant: without the check for the full suite. *)
ShipPrimaryAny(t) ==
  LET p == Primary(t)
  IN  /\ pc[p] = "ship"
      /\ IF dropped[p] # <<>> THEN Schedule(t, dropped[p], Ended(p))
         ELSE pc' = [pc EXCEPT ![p] = Ended(p)] /\ UNCHANGED todo
      /\ UNCHANGED <<trigger, sem, stopped, results, fate>>

ShipPrimary(t) ==
  LET p == Primary(t)
  IN  /\ pc[p] = "ship"
      /\ ~NoSuite(t, "primary", requested[t])
      /\ IF dropped[p] # <<>> THEN Schedule(t, dropped[p], Ended(p))
         ELSE pc' = [pc EXCEPT ![p] = Ended(p)] /\ UNCHANGED todo
      /\ UNCHANGED <<trigger, sem, stopped, results, fate>>

(* What the retry provisions; its list is what the primary left in todo.   *)
RetryList(t) == IF NoSuite(t, "primary", requested[t]) THEN requested[t] ELSE dropped[Primary(t)]

(* Mutant: the survivors are forgotten. *)
ShipRetryForgets(t) ==
  /\ pc[Retry(t)] = "ship"
  /\ pc' = [pc EXCEPT ![Retry(t)] =
              IF NoSuite(t, "retry", RetryList(t)) THEN "done" ELSE Ended(Retry(t))]
  /\ UNCHANGED <<trigger, sem, stopped, todo, results, fate>>

(* A retry that was to bring the full suite and did not destroys the rest. *)
ShipRetry(t) ==
  LET p == Retry(t)
      refused == insts[p] # <<>> /\ NoSuite(t, "retry", RetryList(t))
  IN  /\ pc[p] = "ship"
      /\ fate' = [fate EXCEPT ![p] = IF refused THEN "destroyed" ELSE @]
      /\ pc' = [pc EXCEPT ![p] = IF refused THEN "done" ELSE Ended(p)]
      /\ UNCHANGED <<trigger, sem, stopped, todo, results>>

RetryTimer(t) ==
  /\ pc[Retry(t)] = "delay"
  /\ todo' = [todo EXCEPT ![Retry(t)] = Ordered(@, full[t])]
  /\ pc' = [pc EXCEPT ![Retry(t)] = IF Mobile(t) THEN "acquire" ELSE "provision"]
  /\ UNCHANGED <<trigger, sem, stopped, results, fate>>

RetrySkipped(t) ==
  /\ pc[Retry(t)] = "delay"
  /\ stopped
  /\ pc' = [pc EXCEPT ![Retry(t)] = "done"]
  /\ UNCHANGED <<trigger, sem, stopped, todo, results, fate>>

CMTMatrixOf(t, k) == Matrix(type[t], valid[<<t, k>>], insts[<<t, k>>])

(* dispatchAndTrackCMT: a matrix that does not build and a dispatch that   *)
(* fails destroy the servers; otherwise they are tracked, or left to the   *)
(* stale scan when the run's id is not found.                              *)
DispatchAndTrack(t, k) ==
  LET p == <<t, k>>
  IN  /\ pc[p] = "dispatch"
      /\ \E f \in {"dispatched", "destroyed"} :
           /\ f = "dispatched" => CMTMatrixOf(t, k).ok
           /\ fate' = [fate EXCEPT ![p] = f]
      /\ pc' = [pc EXCEPT ![p] = "done"]
      /\ UNCHANGED <<trigger, sem, stopped, todo, results>>

Stop ==
  /\ ~stopped
  /\ stopped' = TRUE
  /\ UNCHANGED <<trigger, sem, pc, todo, results, fate>>
-----------------------------------------------------------------------------
PassStep(t, k) ==
  \/ Acquire(t, k) \/ AcquireFails(t, k) \/ ProvisionVersion(t, k)
  \/ ProvisionDone(t, k) \/ DispatchAndTrack(t, k)

ShipStep(t) ==
  RefusePrimary(t) \/ ShipPrimary(t) \/ ShipRetry(t) \/ RetryTimer(t) \/ RetrySkipped(t)

Next ==
  \/ \E t \in Triggers :
       HandleCMTTrigger(t) \/ ShipStep(t) \/ \E k \in {"primary", "retry"} : PassStep(t, k)
  \/ Stop

Spec == Init /\ [][Next]_vars

(* Goroutines run and timers fire: as long as a pass can go on, some pass  *)
(* does.  Nobody has to trigger anything or to stop the process.           *)
Fairness ==
  WF_vars(\E t \in Triggers : ShipStep(t) \/ \E k \in {"primary", "retry"} : PassStep(t, k))

FairSpec == Spec /\ Fairness
-----------------------------------------------------------------------------
(* Properties.                                                             *)

(* Every variable keeps its type. *)
TypeOK ==
  /\ type \in [Triggers -> {"desktop", "mobile", "other"}]
  /\ sem \in 0..1
  /\ stopped \in BOOLEAN
  /\ pc \in [Passes -> PCs]
  /\ fate \in [Passes -> Fates]

(* Primary and retry passes of any two mobile triggers never create        *)
(* servers at the same time: cmt_provision.go:43-45, "cannot overlap       *)
(* CreateInstallation storms".  The release receives from the channel      *)
(* whoever filled it, so this holds only because nobody releases who has   *)
(* not acquired.                                                           *)
SlotExclusive ==
  \A p, q \in Passes :
    /\ pc[p] = "provision" /\ Mobile(p[1])
    /\ pc[q] = "provision" /\ Mobile(q[1])
    => p = q

(* What is sent tests every version that came up on servers of that very   *)
(* version, all servers provisioned for it and no server for two versions, *)
(* although the order changed between the list and the matrix.             *)
MatrixMatches ==
  \A p \in Passes : fate[p] = "dispatched" =>
    LET E == CMTMatrixOf(p[1], p[2]).server
        tested(i) == {E[i].site[f] : f \in DOMAIN E[i].site}
    IN  /\ {E[i].version : i \in DOMAIN E} = Elements(valid[p])
        /\ \A i \in DOMAIN E : \A s \in tested(i) : s.version = E[i].version
        /\ UNION {tested(i) : i \in DOMAIN E} = Elements(insts[p])

(* A mobile matrix always builds from what the passes hand over, when some *)
(* version of the list parses or there is only one.  With two or more that *)
(* do not parse, the full suite goes first and the builder looks for it    *)
(* last.                                                                   *)
MatrixBuilds ==
  \A t \in Triggers, k \in {"primary", "retry"} :
    LET p == <<t, k>> IN
    pc[p] = "dispatch" /\ ((\E v \in Elements(valid[p]) : v.ok) \/ Len(valid[p]) = 1) =>
      CMTMatrixOf(t, k).ok

(* No smoke-only matrix goes out in the name of the whole list: the first  *)
(* pass of a mobile trigger, and a retry that has the full suite on its    *)
(* list, send the requested highest version with five servers and flagged  *)
(* latest, or nothing.                                                     *)
FullSuiteSent ==
  \A t \in Triggers, k \in {"primary", "retry"} :
    /\ fate[<<t, k>>] = "dispatched" /\ Mobile(t)
    /\ k = "primary" \/ full[t] \in Elements(RetryList(t))
    => LET E == CMTMatrixOf(t, k).server
       IN  \E i \in DOMAIN E : E[i].latest /\ E[i].version = full[t]

(* A pass that is over keeps no servers it has not handed to a run or      *)
(* destroyed, refused, failed or stopped.                                  *)
NoServerKept ==
  \A p \in Passes : pc[p] = "done" /\ insts[p] # <<>> => fate[p] # "none"

(* The two passes share the list out: when a retry is due, every version   *)
(* asked for is up for dispatch in the first pass or is tried again, and   *)
(* none is both, not even when the survivors of the first were destroyed.  *)
RetryComplements ==
  \A t \in Triggers : pc[Retry(t)] = "delay" =>
    LET kept == IF fate[Primary(t)] = "destroyed" /\ NoSuite(t, "primary", requested[t])
                THEN {} ELSE Elements(valid[Primary(t)])
        again == Elements(todo[Retry(t)])
    IN  /\ (kept \cup again) \ {None} = Elements(requested[t]) \ {None}
        /\ kept \cap again = {}

(* The process comes to rest again and again: no pass waits for ever for   *)
(* the slot, which has a deadline, nor keeps it, and a retry is over with  *)
(* its one try.                                                            *)
PassesEnd == []<>(sem = 0 /\ \A p \in Passes : pc[p] \in {"off", "done"})
=============================================================================
