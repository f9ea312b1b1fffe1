----------------------------- MODULE Provision -----------------------------
(***************************************************************************)
(* One set of servers, a worker per platform: createMultipleE2EInstances   *)
(* (pull requests and pushes) and createMobileCMTInstances (CMT), with     *)
(* createCloudInstallationWithRetry, createCloudInstallation and           *)
(* deleteInstallationWithRetry.  The first worker to fail cancels the      *)
(* context that all of them poll; when all are back the collector returns  *)
(* every server or destroys what there is.  src/server/e2e_tests.go and    *)
(* cmt_provision.go.                                                       *)
(***************************************************************************)
EXTENDS Naturals, FiniteSets

CONSTANTS
  Platforms,
  Attempts,        \* createCloudInstallationAttempts
  DeleteAttempts,  \* installationDeleteAttempts
  StopMayCome,     \* the context has a parent that Stop cancels (CMT)
  AnswerMayBeLost  \* CreateInstallation may fail though the provisioner took it

ASSUME AttemptsAssumption == Attempts \in Nat \ {0} /\ DeleteAttempts \in Nat \ {0}
ASSUME SwitchesAssumption == {StopMayCome, AnswerMayBeLost} \subseteq BOOLEAN

VARIABLES
  inst,       \* the provisioner: state of every installation
  orphans,    \* installations whose delete was given up, or whose id is unknown
  cancelled,  \* ctx.Done()
  pc,         \* of the workers
  attempt,    \* of createCloudInstallationWithRetry
  tries,      \* of deleteInstallationWithRetry
  main, todo, given  \* the collector, what it destroys, what it returns

cloud   == <<inst, orphans>>
workers == <<pc, attempt, tries>>
coll    == <<main, todo, given>>
vars    == <<cloud, cancelled, workers, coll>>

(* Every attempt makes its installation under a name of its own.           *)
Ids == Platforms \X (1..Attempts)
Current(p) == <<p, attempt[p]>>

Live(i) == inst[i] \in {"creating", "up"}

WorkerPCs == {"check", "create", "poll", "wait", "init", "delete", "ok", "err"}

Init ==
  /\ inst = [i \in Ids |-> "none"]
  /\ orphans = {}
  /\ cancelled = FALSE
  /\ pc = [p \in Platforms |-> "check"]
  /\ attempt = [p \in Platforms |-> 1]
  /\ tries = [p \in Platforms |-> 0]
  /\ main = "wait"
  /\ todo = {}
  /\ given = {}

Goto(p, label) == pc' = [pc EXCEPT ![p] = label]
-----------------------------------------------------------------------------
(* Mutant: attempts are not counted. *)
AttemptFailsForever(p) ==
  /\ Goto(p, "check")
  /\ UNCHANGED <<cancelled, attempt>>

(* The end of an attempt: try again, or report the error and cancel the    *)
(* siblings.                                                               *)
AttemptFails(p) ==
  \/ /\ attempt[p] < Attempts
     /\ attempt' = [attempt EXCEPT ![p] = @ + 1]
     /\ Goto(p, "check")
     /\ UNCHANGED cancelled
  \/ /\ attempt[p] = Attempts
     /\ cancelled' = TRUE
     /\ Goto(p, "err")
     /\ UNCHANGED attempt

(* ctx.Err() before an attempt and again before the request.               *)
Check(p) ==
  /\ pc[p] = "check"
  /\ Goto(p, IF cancelled THEN "err" ELSE "create")
  /\ UNCHANGED <<cloud, cancelled, attempt, tries, coll>>

(* CreateInstallation does not take the context.                           *)
Create(p) ==
  /\ pc[p] = "create"
  /\ inst' = [inst EXCEPT ![Current(p)] = "creating"]
  /\ Goto(p, "poll")
  /\ UNCHANGED <<orphans, cancelled, attempt, tries, coll>>

CreateFails(p) ==
  /\ pc[p] = "create"
  /\ \/ UNCHANGED cloud
     \/ /\ AnswerMayBeLost
        /\ inst' = [inst EXCEPT ![Current(p)] = "creating"]
        /\ orphans' = orphans \cup {Current(p)}
  /\ AttemptFails(p)
  /\ UNCHANGED <<tries, coll>>

(* Mutant: whatever state the installation is in will do. *)
PollStableAnyState(p) ==
  /\ pc[p] = "poll"
  /\ Goto(p, IF cancelled THEN "delete" ELSE "init")
  /\ UNCHANGED <<cloud, cancelled, attempt, tries, coll>>

(* GetInstallation: stable or hibernating, ...                             *)
PollStable(p) ==
  /\ pc[p] = "poll"
  /\ inst[Current(p)] = "up"
  /\ Goto(p, IF cancelled THEN "delete" ELSE "init")
  /\ UNCHANGED <<cloud, cancelled, attempt, tries, coll>>

(* ... not yet, ...                                                        *)
PollAgain(p) ==
  /\ pc[p] = "poll"
  /\ inst[Current(p)] # "up"
  /\ Goto(p, "wait")
  /\ UNCHANGED <<cloud, cancelled, attempt, tries, coll>>

(* ... an error, or thirty minutes are over: the installation goes.        *)
PollFails(p) ==
  /\ pc[p] = "poll"
  /\ Goto(p, "delete")
  /\ UNCHANGED <<cloud, cancelled, attempt, tries, coll>>

(* The select of the polling loop: thirty seconds, or cancelled; with both *)
(* ready it may take either.                                               *)
WaitOver(p) ==
  /\ pc[p] = "wait"
  /\ Goto(p, "poll")
  /\ UNCHANGED <<cloud, cancelled, attempt, tries, coll>>

(* Mutant: a plain sleep. *)
WaitCancelledSleeps(p) ==
  /\ pc[p] = "wait"
  /\ cancelled
  /\ Goto(p, "poll")
  /\ UNCHANGED <<cloud, cancelled, attempt, tries, coll>>

WaitCancelled(p) ==
  /\ pc[p] = "wait"
  /\ cancelled
  /\ Goto(p, "delete")
  /\ UNCHANGED <<cloud, cancelled, attempt, tries, coll>>

(* DNS, ping, admin user and team: ten minutes each and no context.        *)
Initialise(p) ==
  /\ pc[p] = "init"
  /\ \E label \in {"ok", "delete"} : Goto(p, label)
  /\ UNCHANGED <<cloud, cancelled, attempt, tries, coll>>

(* deleteInstallationWithRetry: accepted, ...                              *)
DeleteAccepted(p) ==
  /\ pc[p] = "delete"
  /\ inst' = [inst EXCEPT ![Current(p)] = "gone"]
  /\ tries' = [tries EXCEPT ![p] = 0]
  /\ AttemptFails(p)
  /\ UNCHANGED <<orphans, coll>>

(* ... refused, try again, ...                                             *)
DeleteRefused(p) ==
  /\ pc[p] = "delete"
  /\ tries[p] + 1 < DeleteAttempts
  /\ tries' = [tries EXCEPT ![p] = @ + 1]
  /\ UNCHANGED <<cloud, cancelled, pc, attempt, coll>>

(* ... refused for the last time: reported to Mattermost as an orphan.     *)
DeleteGivenUp(p) ==
  /\ pc[p] = "delete"
  /\ tries[p] + 1 = DeleteAttempts
  /\ orphans' = orphans \cup {Current(p)}
  /\ tries' = [tries EXCEPT ![p] = 0]
  /\ AttemptFails(p)
  /\ UNCHANGED <<inst, coll>>
-----------------------------------------------------------------------------
(* The collector, after wg.Wait().                                         *)
AllBack == \A p \in Platforms : pc[p] \in {"ok", "err"}
Ready == {Current(p) : p \in {q \in Platforms : pc[q] = "ok"}}

ReturnsAll ==
  /\ main = "wait"
  /\ \A p \in Platforms : pc[p] = "ok"
  /\ given' = Ready
  /\ main' = "ok"
  /\ UNCHANGED <<cloud, cancelled, workers, todo>>

(* Mutant: an error returns at once and forgets the siblings' servers. *)
SomeFailedForgets ==
  /\ main = "wait"
  /\ AllBack
  /\ \E p \in Platforms : pc[p] = "err"
  /\ main' = "err"
  /\ UNCHANGED <<cloud, cancelled, workers, todo, given>>

SomeFailed ==
  /\ main = "wait"
  /\ AllBack
  /\ \E p \in Platforms : pc[p] = "err"
  /\ todo' = Ready
  /\ main' = "destroy"
  /\ UNCHANGED <<cloud, cancelled, workers, given>>

(* destroyE2EInstances: one call per server, errors only logged.           *)
DestroyOne ==
  /\ main = "destroy"
  /\ \E i \in todo :
       /\ \/ inst' = [inst EXCEPT ![i] = "gone"] /\ UNCHANGED orphans
          \/ orphans' = orphans \cup {i} /\ UNCHANGED inst
       /\ todo' = todo \ {i}
  /\ UNCHANGED <<cancelled, workers, main, given>>

ReturnsError ==
  /\ main = "destroy"
  /\ todo = {}
  /\ main' = "err"
  /\ UNCHANGED <<cloud, cancelled, workers, todo, given>>
-----------------------------------------------------------------------------
(* The provisioner, and Stop.                                              *)
ComesUp(i) ==
  /\ inst[i] = "creating"
  /\ inst' = [inst EXCEPT ![i] = "up"]
  /\ UNCHANGED <<orphans, cancelled, workers, coll>>

Stop ==
  /\ StopMayCome
  /\ ~cancelled
  /\ main = "wait"
  /\ cancelled' = TRUE
  /\ UNCHANGED <<cloud, workers, coll>>
-----------------------------------------------------------------------------
Worker(p) ==
  \/ Check(p) \/ Create(p) \/ CreateFails(p)
  \/ PollStable(p) \/ PollAgain(p) \/ PollFails(p)
  \/ WaitOver(p) \/ WaitCancelled(p) \/ Initialise(p)
  \/ DeleteAccepted(p) \/ DeleteRefused(p) \/ DeleteGivenUp(p)

Collector == ReturnsAll \/ SomeFailed \/ DestroyOne \/ ReturnsError

Next ==
  \/ \E p \in Platforms : Worker(p)
  \/ Collector
  \/ \E i \in Ids : ComesUp(i)
  \/ Stop

Spec == Init /\ [][Next]_vars

(* The goroutines run; the select takes the cancelled branch if it is open *)
(* again and again.                                                        *)
Fairness ==
  /\ \A p \in Platforms : WF_vars(Worker(p)) /\ SF_vars(WaitCancelled(p))
  /\ WF_vars(Collector)

FairSpec == Spec /\ Fairness
-----------------------------------------------------------------------------
(* Properties.                                                             *)

(* Every variable keeps its type. *)
TypeOK ==
  /\ inst \in [Ids -> {"none", "creating", "up", "gone"}]
  /\ orphans \subseteq Ids
  /\ cancelled \in BOOLEAN
  /\ pc \in [Platforms -> WorkerPCs]
  /\ attempt \in [Platforms -> 1..Attempts]
  /\ tries \in [Platforms -> 0..(DeleteAttempts - 1)]
  /\ main \in {"wait", "destroy", "ok", "err"}
  /\ todo \subseteq Ids
  /\ given \subseteq Ids

(* The call keeps the promise of ProvisionPromise, whatever the order in   *)
(* which workers fail, succeed and see the cancel: the caller gets one     *)
(* server per platform or nothing, and nothing else is left alive but      *)
(* orphans.                                                                *)
Outcome == IF main = "ok" THEN "all" ELSE IF main = "err" THEN "none" ELSE "running"

Promise == INSTANCE ProvisionPromise
  WITH Serials <- 1..Attempts, live <- {i \in Ids : Live(i)}, outcome <- Outcome

KeepsPromise == Promise!Spec

(* A server is returned only if its worker saw it come up and set it up:   *)
(* no worker adopts the server of a failed attempt.                        *)
GivenAreUp ==
  main = "ok" => \A i \in given : inst[i] = "up" /\ i \notin orphans

(* Thirty minutes pass for a poll that the provisioner keeps going.        *)
DeadlinePasses == \A p \in Platforms : SF_vars(PollFails(p) \/ PollStable(p))

(* wg.Wait returns, cancelled or not: with the deadline of the polling     *)
(* loop, no order of failures, retries and deletes keeps a worker for ever.*)
CallReturns == DeadlinePasses => <>(main \in {"ok", "err"})

(* The first failure cancels the siblings, which leave their polling loops *)
(* without waiting for the provisioner or for the deadline, and none of    *)
(* them retries for ever: the call ends.                                   *)
CancelEndsCall == cancelled ~> main \in {"ok", "err"}
=============================================================================
