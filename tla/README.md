# Matterwick in TLA+

Matterwick is Mattermost's GitHub bot. It reacts to webhooks: a label on a pull
request creates a *SpinWick* (a Mattermost test server for people) or a set of
*E2E servers* (for test workflows); pushes, release workflows and slash commands
do the same for branches and for compatibility testing (*CMT*). Servers are
*installations* of an external provisioner; tests are workflow runs of GitHub.
Everything the process knows about them is in maps in its memory, guarded by
mutexes, and every handler runs in a goroutine of its own that talks to the
provisioner and to GitHub for minutes at a time. What can go wrong is almost
entirely in the interleaving of those goroutines, in calls that fail or whose
answer is lost, and in restarts, which lose every map.

This directory holds specifications of that core, the instances TLC checks, and
proofs checked by TLAPS. Paths below are relative to the repository's `server/`
directory unless they say otherwise.

## 1. Inventory

| Part | State | Operations | Talks to | What is hard | What makes it correct |
|---|---|---|---|---|---|
| **E2E servers of a PR** `e2e_tests.go`, `pull_request.go` | `e2eInstances`, `e2eInProgress`, `e2ePRCleanupGeneration`, one mutex each | `handleE2ETestRequest`, `handleE2ECleanup`, `findExistingE2EInstancesInCloud`, `cancelPRWorkflowRuns` | provisioner, GitHub, the scan | requests, resets and scans of one PR interleave for minutes; restart in the middle | one request at a time per test platform; nothing stale comes back after a reset; no server is forgotten; every server dies in the end |
| **Provisioning of a set** `e2e_tests.go:248-515`, `cmt_provision.go:442-490` | locals of a worker per platform, a shared context | `createMultipleE2EInstances`, `createMobileCMTInstances`, `createCloudInstallation(WithRetry)`, `deleteInstallationWithRetry` | provisioner | one worker fails, others are anywhere; retries; lost answers; stop | all servers or none, nothing left but reported orphans; the call returns |
| **Stale scan** `e2e_tests.go:812-946`, ticker in `server.go` | locals | `cleanupStaleE2EInstances`, `evictReapedPRInstances` | provisioner, `e2eInstances` | races with adoption and storing | backstop for everything lost elsewhere |
| **CMT dispatch** `cmt_provision.go:374-597`, `workflow_run.go` | `cmtDispatchLocks`, `e2eInstances` under run-id keys | `dispatchAndTrackCMT`, `pollDispatchedWorkflowRun`, `findAndDestroyInstancesByRunID` | GitHub | the dispatch call returns no run id; polls give up; runs finish early | a set is tracked under its own run, torn down after it and not before |
| **CMT run** `cmt_provision.go:18-371` | one-slot semaphore, delayed retry goroutine | `handleCMTTrigger`, `handleCMTWithServerVersions`, `provisionCMTVersions`, `retryDroppedCMTVersions` | provisioning, dispatch, `Stop` | ten-minute wait for the slot; full-suite rule in primary and retry | one provisioning at a time; no smoke-only matrix; survivors destroyed |
| **CMT versions and matrix** `cmt_versions.go`, `cmt_releases.go`, `cmt_matrix.go` | none | parsing, selection under a cap, matrix building | releases | rounding, ties of rc and stable, lists at the cap | both ends survive; ESR kept; the matrix consumes exactly the servers it is given |
| **Push E2E** `push_events.go`, `workflow_run.go:216-251` | `e2eInstances` under `repo-push-branch-sha` keys | `handlePushEventE2E`, `findAndDestroyInstancesBySHA` | GitHub, provisioner | keys collide; SHA suffixes match several sets | teardown of the completed run's servers only |
| **Cloud webhooks and waits** `cloud_webhooks.go`, `server.go:277-301`, `spinwick.go:1177-1301` | `webhookChannels` | `requestCloudWebhookChannel`, `handleCloudWebhook`, `waitForInstallationStable(Poll)`, `waitForInstallationIsDeleted` | provisioner's webhooks | fan-out of every payload to every channel; dropped, late and repeated payloads | registry exact; success means success; everything ends |
| **SpinWick life cycle** `spinwick.go`, `spinwick_plugin.go`, `pull_request.go`, `slash_commands.go` | `envMaps`; the installation's owner id | create, update, destroy, labels | provisioner, CWS, Kubernetes, S3 | check-then-act across an hour; label removal that triggers a destroy; several services, one after the other | a live installation is never missed by a later create; a close leaves nothing; a label stands for a server; the newest commit wins |
| **Version cache** `version.go` | cached version and its time | `resolveMattermostServerVersion` | releases | refresh outside the lock; failures | a known version is not lost |
| **Server** `server.go`, `config.go`, `main.go` | configuration, `stopCh` | `Start`, `Stop`, routing | HTTP | restart | first scan before the router |
| **Clients** `github.go`, `limit_rate_gh.go`, `webhook.go`, `kubernetes.go`, `builds.go`, `../internal/*` | none that matters | I/O | outside | errors | — |
| `shrug_spinwick.go` | none | a picture | — | — | — |

The parts meet in three places: the map `e2eInstances` (PR, push and CMT keys side
by side, with the scan and the completion handlers as its other users), the
provisioner's list of installations (what one goroutine creates, another one may
find, adopt or delete), and GitHub's runs. `PROJECT.json` lists the hazards line by
line with the properties that are about it; section 4 says what those properties mean.

## 2. Modules

| Module | What it is |
|---|---|
| `E2EPR` | life of one PR's E2E servers: requests, cleanups, the scan, the provisioner, GitHub, restart |
| `Provision` | one call of `createMultipleE2EInstances` / `createMobileCMTInstances`: workers and collector |
| `ProvisionPromise` | what such a call promises: all or none. `Provision` implements it (`KeepsPromise`) |
| `CMTDispatch` | dispatch and run tracking of one repository and branch |
| `CMTVersions` | versions, their order, release channels, caps and spans: operators only |
| `CMTSelect` | how `cmtServerVersions` comes to a list: configuration or releases, commits, choice, cap. Over `CMTVersions` |
| `CMTMatrix` | the pairing of versions with servers in the matrices: operators only. Over `CMTVersions` |
| `CMTRun` | a trigger's first pass and its delayed retry: slot, provisioning, full-suite rule, stop. Over `CMTMatrix` |
| `VersionCache` | `resolveMattermostServerVersion` and its cache |
| `PushE2E` | pushes to master and main, from the event to the completion that tears the servers down, beside a CMT set. Over `VersionCache` |
| `CloudWait` | waits for installations, the channel registry and the webhook fan-out |
| `PREvents` | a PR's labels, commits and state on GitHub, the events they cause, and the handlers that take them |
| `ServerSpinWick` | SpinWicks that are installations: server PRs (with or without CWS) and plugin PRs. Over `PREvents` |
| `KubeSpinWick` | SpinWicks of the CWS repository: a namespace, a provisioner webhook and a Stripe webhook. Over `PREvents` |
| `SpinWick` | the composition of the three, and its properties |
| `MC*` | instances for TLC (symmetry sets and input lists) |
| `*_proofs` | theorems |

`E2EPR` uses `Provision`'s promise in its coarser form: `CreateOne`, `WorkerDone`,
`CreateReturns` and `CreateFails` are the call seen from the request, with the
servers of a set appearing one by one (others can see them) and an error that
leaves the request with whatever was created to destroy. It gives a request one
installation per platform; that a failed attempt's installation is gone, or an
orphan, before the next is tried is `Provision`'s matter. In the same way `CMTRun`
has one step for the servers of a version and one for a dispatch, which `Provision`
and `CMTDispatch` have in detail, and `ServerSpinWick` one for a wait, which
`CloudWait` has.

### How state and actions correspond to the code

A step is what the code does while it holds one mutex, or one call of the
provisioner or of GitHub, together with the local computation around it: between
two such points nothing of another goroutine can be seen, and at them anything can
happen. The label in `pc` names where a goroutine is.

**`E2EPR`.** The three maps are specialised to one PR's key. `tracked` is
`e2eInstances[key]`, `generation` is `e2ePRCleanupGeneration[key]`, `inProgress`
the set of test platforms whose flag is up. `storeIfCurrent` takes two locks and is
one action (`Store`, or `Discard` if the generation has moved). The three paths of
the handler are `LookupMemory`, `FindInCloud` and `NotInCloud`. Deletes may be
refused, in which case the code only logs: the history variable `lost` collects the
live servers that drop out of the process's hands at the four places where this
happens (a refused delete, a restart, an entry overwritten or deleted by a request
of another test platform, an eviction of a partly reaped set). Installation states
are four: `stable` and `hibernating` are one ("up") since every test accepts both,
and the deletion states are one ("gone"). Ages are a set of requests whose servers
have become older than the PR maximum.

**`Provision`.** `check` is `ctx.Err()` before a request, `poll` and `wait` the
polling loop and its `select`, `init` the set-up of a server, which takes no
context. `AnswerMayBeLost` makes the provisioner accept a creation the caller
believes failed. `orphans` holds what the code reports to Mattermost as an orphan or
cannot know. `Stop` is the parent context of the CMT variant.

**`CMTDispatch`.** Run ids are the order in which GitHub makes runs. A dispatch puts
a dispatcher into `asked`; `RunAppears` gives it its run some time later, or after
its poll has given up. The switches (`SnapshotMayFail`, `PollMayFail`,
`AnswerMayBeLost`, `EarlyCompletion`, `MaxForeign`) are the failures and surprises
the code has a branch for; a property that needs one of them absent says so. A completed event
is handled or dropped: `LoseEvent` is the return of `githubEvent` when the client's rate is at
its reserve (`server.go:180-183`), and `lost` remembers the run.

The stale scan looks at nothing but a server's `CreateAt` (`e2e_tests.go:868-911`), and so does
`StaleScan`: it deletes a set of age `MaxAge` wherever its dispatcher is and whatever tests it.
Time therefore passes, in ticks. `age` is that of the oldest server of a set, the set being one
unit; it is capped at `MaxAge`, beyond which nothing differs. A set gets to the dispatch with an age of up
to `Provisioning`, which is what creating and initialising its servers has cost; waiting for the
lock and polling make it older. `began` is the age at which its run appeared, and `LongestRun`
is the longest time a run takes: `Tick` waits for the end of a run that has had it.

**`CMTVersions`, `CMTSelect`.** A version is a record of its three numbers and its
candidate number, 0 for a stable one; `ok` is whether it parses. Of a release there
are also the draft, prerelease and extended-support marks, the time of publication
(0: unknown) and the commit. `CMTSelect` fetches the commits of the tags that compete
for one patch, each of which may fail, and then chooses and caps in one step, which
only reads.

**`CMTRun`, `CMTMatrix`.** A pass is a pair of a trigger and `"primary"` or
`"retry"`. `sem` is the number of tokens in `cmtMobileProvisionSem`; the release
receives from that channel without a test of who filled it, as the code does. `todo` is
the rest of the loop of `provisionCMTVersions`, `insts` and `valid` what it returns,
in the order in which it appends. A server of a set is a record of version, platform and
number, so that the matrix, built from positions in two lists, can be compared with what was
provisioned. `fate` is what `dispatchAndTrackCMT` or a refusal does with the servers.

**`VersionCache`, `PushE2E`.** Commits are numbered per repository; a branch may
advance between any two steps, and two branches may be at one commit. `up` is the
servers whose deletion nobody has asked for, `tracked` the sets with an entry; the key of a
set ends with `sha`. `runSha` is what GitHub reports as the head of the dispatched run, which
is the branch's commit at that time, and need not be `sha`. `RunByHand` is a run of the same
workflow for a commit that belongs to no set. The run of the CMT set never ends here. `old` is the
sets older than `E2EInstanceMaxAge`: `Ages` may put any set there at any time, the CMT set too (`MaxOld` bounds how many), and
`StaleScan` then deletes its servers one at a time, whatever its push or its run is doing. The dispatch of
the desktop workflow resolves the version once more.

**`CloudWait`.** A waiter is a handler that has made its request and waits;
`channels` is the registry, a channel named by its waiter (it makes at most one).
`handleCloudWebhook` is one step that puts a sender `<<waiter, payload>>` into
`senders` for every channel there is; `Receive` is the rendezvous on the unbuffered
channel, `SenderGivesUp` the five-second timer. `LateEvents` and `Unreliable` are
what an HTTP webhook may do. `fresh` and `steady` are history.

**`PREvents`, `ServerSpinWick`, `KubeSpinWick`, `SpinWick`.** `net` holds the events
GitHub has posted; they are taken in any order by handlers that then run at the same time. A
handler has the commit and the state of its event's payload and reads the labels from
GitHub when it starts. A create that fails or is aborted takes the labels off (`Fails`), and each
label taken off posts the event that destroys. `inst` is the list of installations in order of creation
with state, owner and version; `known` is history, the number of installations there were at a
handler's look. `Shows` says which states a lookup returns: the provisioner's list for a
plain installation and for every update, the client's own filter for creates and destroys of
a CWS installation. `mishaps` is history too: every step that takes one of the
ways known to go wrong (section 4) writes its name there.

## 3. Runs

| Run | Instance | Shows |
|---|---|---|
| `e2epr_desktop` | 2 requests, 1 cleanup, scan, 2 platforms, 1 test platform | `TypeOK`, `SingleFlight`, `TrackedIsCurrent`, `SetsComplete`, `EveryServerAccounted` |
| `e2epr_liveness` | 1 request, 1 cleanup, 2 platforms, 1 restart, ageing in flight; fair | `NoServerLivesForever`, `InProgressCleared` |
| `cmt_dispatch` | 2 dispatchers, early completion, dropped events; 3 ticks to the age of the scan, runs of 1; fair | `RightRun`, `NoTeardownUnderTest`, `EntryRemoved` |
| `cmt_faults` | 2 dispatchers, 2 foreign runs, every fault, a scan at any time | `ClaimIsFree`, `OnlyNewRuns` |
| `provision_set` | 2 platforms, 2 attempts, 3 deletes, stop, lost answers; fair | `GivenAreUp`, `KeepsPromise`, `CallReturns`, `CancelEndsCall` |
| `cloud_waits` | 2 installations, 2 waiters, lost and repeated payloads | `ChannelsExact`, `SuccessIsTrue` |
| `cloud_ends` | 1 installation, 1 waiter, late, lost and repeated payloads; fair | `WaitsEnd`, `SendersEnd` |
| `cmt_select` | every subset of a pool of releases, 6 configured lists, both repository types | `AnchorsKept`, `OneCandidate`, `CandidateTested`, `PromotedTagWins`, `CapKeepsEnds` |
| `cmt_run` | 2 triggers with retries, desktop or mobile, stop; fair | `SlotExclusive`, `MatrixMatches`, `MatrixBuilds`, `FullSuiteSent`, `NoServerKept`, `RetryComplements`, `PassesEnd` |
| `push_e2e` | 2 pushes and a CMT set, 2 platforms, 2 branches, 2 commits, 1 release, 1 set that gets old | `NoTeardownUnderTest`, `EntryWaits`, `KeepsNothing`, `VersionNotLost` |
| `spinwick` | 2 handlers, 2 commits, 3 acts of people, 2 installations, 4 set-ups | `TwoOnlyInOneWindow`, `NothingLeftBehind`, `ServerForLabel`, `UpToDate` |
| `e2epr_reset_dispatch` | 1 request, 1 cleanup | violation of `NoDispatchAfterReset` |

Symmetry is used in runs of safety properties where constants are interchangeable.
`CHECK_DEADLOCK FALSE`: each instance has finitely many goroutines, and when they
have ended nothing more happens.

**Bounds and why they are enough.**

* `E2EPR`: two requests and one cleanup are the smallest instance with a duplicate
  delivery, with a reset in any window of a request, and with a request after a reset
  that competes with one before it. Two platforms give partial sets and duplicated ones.
  `MaxCrashes` bounds restarts.
* `CMTDispatch`: two dispatchers are one in the section and one that waits for it or is through. Two foreign
  runs (`MaxForeign`) give a run older and one newer than a snapshot.
  With `MaxAge` 3, `Provisioning` 2 and `LongestRun` 1 there are sets whose run begins in time
  and sets whose run begins too late or which are already old when they are dispatched, and a set in time may
  get late in the lock or in the poll. In `cmt_faults` the three are 0, so that the scan may come
  at any moment: its properties do not ask when. That the safety properties hold for any number of dispatchers, runs and
  ticks is proved (section 5).
* `Provision`: two platforms and two attempts give a worker that fails while its
  sibling is in any of its states, in its first or its second attempt (the code has
  three attempts and up to five platforms).
* `CloudWait`: two waiters and two installations give payloads of the other installation
  and a second wait for the same one. `MaxSenders` bounds the sender goroutines alive at a time.
* `CMTSelect`: the pool has more minors than a desktop list has places, more
  extended-support lines than are kept, a patch release, drafts, an entry that does not
  parse, candidates of two minors, and a bare prerelease tag with every relation to the
  candidates in time and commit. The configured lists are empty, short, too long, in disorder, and in part or
  wholly unparseable.
* `CMTRun`: one trigger alone has a list with a candidate out of its place, with an entry
  that does not parse, or with a duplicate and an empty entry; the other competes for the slot with one version. Every version fails or
  comes up in every pass.
* `PushE2E`: two pushes on one branch or on two, of one commit or of two, each after the
  other has advanced the branch or before. Two platforms give one that fails and one that is up. One
  set gets old (`MaxOld`), any of the three: sets share nothing by which an old one could harm a second one. One release tells a version
  that is known from one that is lost; of two that a slow and a fast refresh bring in the wrong order, the theorem `NoVersionLost`
  has any number.
* `SpinWick`: two handlers are the smallest number that races; a third event waits and is
  handled later. Two installations are one too many; a third create in one behaviour is not
  covered by the run. Three acts are, for example, label, push, close. The set-ups are a server PR
  with the two plain labels (so that one of two can be removed), a server PR with the CWS
  label, a plugin PR and a PR of the CWS repository. A server PR with a plain and the CWS
  label at once is not in the instance (section 4, last list).

**Fairness and why the code justifies it.** Goroutines that can run do run (weak
fairness per goroutine). Beyond that:

* `E2EPR`: the ticker ticks and servers get older. The scan's query and each of
  its deletes succeed if they are repeated for ever (strong fairness on `ScanQuery` and
  `ScanDeletes`): the scan is unconditional and periodic, so this says only that the
  provisioner does not refuse one call for ever. Nothing is asked of GitHub, of
  users or of a server coming up.
* `CMTDispatch`: a mutex that is free again and again is obtained (Go's mutexes
  are starvation-free), and GitHub makes and finishes accepted runs. Of a completed event it is asked only that
  it is handled or dropped. Nothing is asked of the scan or of time.
* `CMTRun`: as long as a pass can go on, some pass does: timers fire, calls return and
  goroutines run. Nothing is asked of the order in which waiters get the slot.
* `Provision`: a `select` that finds the cancelled branch ready again and again takes it
  (Go picks at random). `CallReturns` assumes in its formula that the thirty-minute
  deadline passes; `CancelEndsCall` does not need it.
* `CloudWait`: timers fire, GitHub answers `GetUpdateChecks`, and a `select` offered
  the deadline again and again takes it. (The client behind `GetUpdateChecks` has no
  timeout of its own; that it answers is an assumption about the network.)

## 4. Properties

`E2EPR`

* `SingleFlight`: two requests for one test platform are never both between raising and
  lowering the in-progress flag, whatever webhooks GitHub redelivers.
* `TrackedIsCurrent`: after a reset has bumped the generation and taken the entry, no
  set provisioned for the older generation comes back into the map.
* `SetsComplete`: what is tracked or dispatched has one server per platform.
* `EveryServerAccounted`: a live server is in the map, in the hands of a goroutine, or was
  lost at one of the four places.
* `InProgressCleared`, `NoServerLivesForever`: no platform is locked out for good; the
  scan deletes every server in the end.

`Provision`: `KeepsPromise` (refinement), `GivenAreUp` (no worker adopts the server of a
failed attempt), `CallReturns`, `CancelEndsCall`.

`CMTDispatch`

* `ClaimIsFree`: a store never overwrites another set's entry, whatever fails.
* `OnlyNewRuns`: a dispatcher with a snapshot never takes an older run.
* `RightRun`: when the poll finds the run it waits for, sets are tracked under their own runs.
* `NoTeardownUnderTest`: in the same circumstances, a set whose run begins in time (`InTime`) is not
  destroyed while that run tests it or may come to. In time means that the age of the servers when
  the run appears, plus the longest run, is below `E2EInstanceMaxAge`. It is a condition on the operator's setting: the
  code does not ensure it (last list of this section).
* `EntryRemoved`: an entry stored before the end of its run is removed, unless the completed event is
  dropped. An entry whose event was dropped, or that is stored after the event, stays in the
  map for good: the scan evicts PR entries only.

`CMTSelect`

* `AnchorsKept`: the newest stable and the newest extended-support versions survive every cap.
* `OneCandidate`, `CandidateTested`: one stable version of a minor, at most one version
  that is not released yet, above all others; and it is never left out for lack of room.
* `PromotedTagWins`: if a final tag is on the commit of its last candidate, no version of the patch but the final
  one is tested, neither that candidate nor an older one; and the final one is tested if it is
  above every stable version (`Ahead`). Below one it competes for a place like every other patch.
* `CapKeepsEnds`: a list is never too long or empty; a configured one that is too long keeps
  both ends on mobile and loses its oldest first on desktop.

`CMTRun`

* `SlotExclusive`: mobile servers are created by one pass at a time.
* `MatrixMatches`, `MatrixBuilds`: the matrix tests every version that came up, on all the
  servers of that very version, and it builds.
* `FullSuiteSent`: no mobile matrix goes out without its full suite, flagged latest, unless that is
  a retry of other versions.
* `NoServerKept`: a pass that is over has sent or destroyed its servers.
* `RetryComplements`: what goes out first and what is tried again make up the list, without overlap.
* `PassesEnd`: the process comes to rest again and again.

`PushE2E`

* `NoTeardownUnderTest`: no server of a set younger than `E2EInstanceMaxAge` goes while its run is under way, if
  no other run has the commit of its key; and a push's completion never touches a CMT set, whatever its
  commit. An older set the scan does delete, run or no run.
* `EntryWaits`: in the same circumstances a completion, however early, finds its entry.
* `KeepsNothing`: a push that ended without a run has asked for the deletion of all it got.
* `VersionNotLost`: a resolution never answers with less than the cache held when it began.

`SpinWick`

* `TwoOnlyInOneWindow`: two live installations of one owner come only from two creates of
  which neither had asked when the other looked.
* `NothingLeftBehind`: when everything has been handled and no label is on, or the PR is closed,
  no installation, namespace or webhook is left.
* `ServerForLabel`: a label that is on stands for a server.
* `UpToDate`: the server runs the last commit.

The last three hold outside the ways that are known to go wrong, which the specification
names in `mishaps` at the very steps that take them: `leak` (a destroy that looked while a create was
between its look and its request, found one of two, or failed), `robbed` (a server deleted with a label
on), `kept` (a failed create whose label could not be taken off) and `stale` (an update that found nothing or
the wrong one, or failed, or wrote an older commit). What they establish is that there is no
other way; a create that fails half way, at any of its calls, is not among the exceptions.

`CloudWait`: `ChannelsExact` (an installation has a channel just while its waiter is in
the loop), `SuccessIsTrue` (a wait without an error saw its own installation become
stable after its own request, or deleted), `WaitsEnd`, `SendersEnd`.

### What the violation run shows

**`NoDispatchAfterReset`** The generation is compared when the set is stored
(`e2e_tests.go:226`), not when the workflow is dispatched (`:234`). A reset in between
deletes the servers and the workflow starts on them; the comment at `:740-744` says
the generation prevents it.

### Where the code does not do what its text says, or what one may expect

These are behaviours of the models, each at its action, without a run of their own.

E2E servers and their dispatch:

* The cloud-reuse path adopts an aged set, spends minutes cancelling runs and waking
  servers, and stores it; a scan in between has reaped it and had no entry to evict.
  `config.go:127-128` says the entry of a reaped server is evicted.
* iOS and Android requests of a PR share the entry and the servers, and a dispatch that fails for one
  destroys the set on which the run of the other is going. `e2e_tests.go:152` says they run independently.
* `cancelPRWorkflowRuns` is on the reuse paths only, although `e2e_tests.go:1294-1295` says
  it is called when a new run is triggered.
* The default maximum age of a PR's servers is 8 hours (`e2e_tests.go:830`); `config.go:129` and
  `e2e_tests.go:824` say 24. (The models have an age without a number.)

CMT:

* `config.go:118-121` sets `E2EInstanceMaxAge` by "the longest expected E2E run duration plus a small
  buffer" and says this keeps the scan off servers "still being used by a currently-running test". The scan
  counts from `CreateAt`, before the other servers of the set are up, before the wait for the lock and the
  poll. With an age one tick longer than the longest run, a set that spent one tick coming up and one waiting for
  its run loses its servers in the run's last tick.
* One failed list, or 90 seconds, ends the poll and releases the lock with the run still to appear. The next
  dispatcher of the repository, whose snapshot does not have that run, takes it for its own, and its completion
  destroys the second one's servers. `server.go:49` and `workflow_run.go:285` exclude such a collision.
* A completed event that `githubEvent` drops at the reserve of the rate limit (`server.go:180-183`) leaves the CMT entry
  in the map until the process ends. The scan takes the servers and evicts only entries of PRs.
* A failed snapshot leaves the poll with an empty map, although `cmt_provision.go:501` says it
  "will only accept ids not seen before dispatch".
* `cmt_provision.go:349-352` allows smoke-only retries "after a successful primary"; the
  code dispatches them also when the primary's dispatch failed.
* A mobile list of two or more entries none of which parses never builds a matrix: the full suite goes
  first on the list and the builder looks for it last. The builder's test for such a list
  (`cmt_matrix_test.go:291`) has them in the other order.

Push E2E:

* Two pushes that resolve the same commit have one key: the second store overwrites the
  first entry, and the completion of either run destroys the set that is stored. The other is left to the scan.
* A run of the workflow by hand for the same commit destroys the set.
* A dispatch that fails takes the key away, whoever's entry is there by then.
* A refresh of the version cache that was slow may overwrite a newer version with an older
  one, with a fresh time.

SpinWick:

* `createSpinWick` (`spinwick.go:572-575`) promises no error for an installation that exists; the abort it
  returns takes all labels off, which destroys that installation.
* `destroySpinWick` (`spinwick.go:1130-1133`) promises no error when nothing is found; it returns one, and the
  entry of the environment variables stays.
* `GetInstallationIDFromOwnerID` (`internal/cloudtools/installation.go:19-21`) promises an error
  for several matches; it returns the first.
* A CWS account without a customer: `errors.Wrap` of no error is no error
  (`spinwick.go:309-310`), so the create ends as if it had been well and there is no server.
* A label taken off, or a PR closed, while the create is in flight leaves a server; a push
  in that time finds nothing to update and the server stays on the older commit.
* One of two labels taken off destroys the server that the other stands for. With a plain
  and the CWS label there are two servers, and the close destroys the one of CWS.
* A destroy or create of a CWS installation does not see one whose creation has failed, which is
  never deleted; an update looks at the provisioner instead.
* The owner of a plugin's server keeps the case of the repository name
  (`spinwick_plugin.go:61`, `:271`), the other owners are in lower case (`../model/spinwick.go`).
* A destroy of a CWS-repository SpinWick that fails after the namespace is gone finds no
  namespace when it is tried again, and the webhooks stay.
* `waitForInstallationStablePoll` is "semantically equivalent" to the webhook wait
  (`spinwick.go:1210-1211`); an installation that is stable before the channel is registered lets
  only the polling one succeed.

## 5. Proofs

| Module | Theorems | Argument |
|---|---|---|
| `E2EPR_proofs` | `TypeCorrect`, `SingleFlightHolds`, `TrackedIsCurrentHolds`, `SetsCompleteHolds`, `EveryServerAccountedHolds` | types first; each safety property with the facts about locals it needs: a working request's platform is flagged, a request about to store has a complete set, a request's generation is at most the current one |
| `CMTDispatch_proofs` | `TypeCorrect`, `CriticalSection`, `ClaimIsFreeHolds`, `OnlyNewRunsHolds`, `RightRunHolds`, `NoTeardownHolds` | the lock's holder is the only dispatcher in the section; so nobody claims between a pick and its store; the snapshot is every run up to `before`; without stray runs the only newer run is the dispatcher's own; before a dispatcher is through it has no entry, and only the scan, too late for the set to be in time, can have taken its servers (`OnlyScanned`); a run under way has had `LongestRun` at most, and events follow the end of a run (`RunsBounded`) |
| `Provision_proofs` | `TypeCorrect`, `GivenAreUpHolds`, `PromiseHolds` | an installation that is live belongs to its worker's current attempt or is an orphan; every step of `Provision` is then a step of `ProvisionPromise` or leaves it alone |
| `CloudWait_proofs` | `TypeCorrect`, `ChannelsExactHolds`, `SuccessIsTrueHolds` | a waiter outside its loop has no channel and no sender before it registers; payloads under way say `deleted` only of what is deleted and, if none is late, `stable` only to waiters for whom it is fresh |
| `CMTRun_proofs` | `TypeCorrect`, `SlotIsExclusive`, `NoneKept`, `MatrixIsRight`, `MatrixIsBuilt`, `RetryIsTheRest`, `FullSuiteIsSent` | `Inv`: whoever provisions for mobile holds the token (`SlotHeld`), so the next one cannot have put another in and the release takes the right one; a retry begins after its primary has shipped (`Order`), and a pass before provisioning has no servers (`Bare`). `ListInv`: what the lists of a trigger's two passes have to do with each other (below) |
| `CMTSelect_proofs` | `AnchorsAreKept`, `CandidateIsAlone`, `CandidateIsTested`, `PromotedTagIsTested`, `EndsAreKept`, `LessIsTotalOrder`, `StableAboveCandidates`, `SpanKeepsEnds` | the order of versions is strict and total; finite sets have a newest member, and a list has a sorted form; what the choice makes of releases (`Derives`) survives the cap (below) |
| `PushE2E_proofs` | `TypeCorrect`, `NoVersionLost`, `TeardownScoped`, `EntryIsThere`, `NothingKept` | all calls in flight began with the same cache, since an hour is longer than any call, and what the cache holds by now is no less (`CacheInv`); a set loses servers only through a completion of its key, a failure of its own, or the scan, which takes them only of sets that are old; the store comes before the dispatch |
| `SpinWick_proofs` | `TwoServersOneWindow`, `LabelHasServer`, `NothingIsLeft`, `ServerIsUpToDate` | what a handler has counted at its look is dead for good (`Counted`): installations do not come back, and the look sees every live one of its owner in whatever state. The other three each from an invariant that ties what is there to the events and handlers on their way to it (below) |

Assumptions: those named `ASSUME` in the modules (bounds are naturals, switches are
Booleans, `NoOne` and `CMT` are no elements of the sets, lists hold versions, the default list is
not empty, a list of releases is finite and names a version once). No set of goroutines,
platforms or installations is assumed finite except where a module's own `Cardinality` needs
it, and no bound has a fixed value. Theorems with a hypothesis of their own:

* `RightRunHolds` and `NoTeardownHolds`: `NoStrayRuns`, no faults that leave a run without a waiting
  dispatcher. With a poll that gives up, the next dispatcher takes the run that comes late.
  `NoTeardownHolds` is moreover about sets whose run begins in time, as the property says; `AgeAssumption` itself
  asks only for natural numbers and that a set is not beyond `MaxAge` on arrival.
* `TeardownScoped`: none of its own, but the property is about sets that are not yet `old`.
* `SuccessIsTrueHolds`: `LateEvents = FALSE`. A `stable` payload that arrives after the next update
  request does end the wait for it.
* `FullSuiteIsSent`: `HaveNames`, every list has a highest version with a name. Of a list none of which parses
  the last entry is taken for it, and that of a configured list may be the empty string, which the
  code reads as "no full suite" (`cmt_provision.go:170`).
* `NothingIsLeft` and `ServerIsUpToDate`: `OneKind`, all labels of a repository ask for a server of the same
  owner. A server PR with a plain label and the CWS label has two servers, and a close
  looks for the one of CWS only, so without it `NothingLeftBehind` is false (TLC finds the
  behaviour at once; section 4, last list). `LabelHasServer` and `TwoServersOneWindow` do without.

### The inductive invariants

The properties are not inductive as they stand. `ClaimIsFree`, for instance, says nothing
about a second dispatcher that may store in between; it needs the mutual exclusion, which
needs the relation of `lock` and `pc`. `TrackedIsCurrent` needs that a request's generation
never exceeds the current one, or a later bump could make an old set current again.
`SlotExclusive` says nothing of the token, without which a second pass could acquire.
`TwoOnlyInOneWindow` is about installations and says nothing of the handler that is about to ask for one.

**`CMTRun`.** `MatrixMatches` compares a finished matrix with the servers; nothing in it
constrains the passes that still fill their lists. `ListInv` has, per trigger and pass: every
version asked for, empty entries aside, is to do, up or dropped, and only one of them (`Divided`); the full suite is the highest
version asked for (`Suite`) and the first to be provisioned (`Queue`); the servers lie in the
order of the versions, five for a full suite at the head of a mobile list and one for
any other (`Layout`, which speaks of `LaidOut`); only a pass with servers and with its full suite is dispatched
(`Settled`); and the retry is given what was dropped, or the whole list if the primary was refused
(`Again`). From `LaidOut` follows what the builders, which work by positions, make of the two lists.

**`CMTSelect`.** `SelectInv` remembers where a list came from. `Derives` is the common ground of the four
properties of a derived list: it says of the list what it has (the anchors, the
candidate), what it has at most once, and that it is ascending; `Choose` brings it about and `Cap` keeps it, since a
derived list is never longer than the cap. `EndsKept` is what `Cap` does to the other two kinds
of lists, and needs that sorting permutes (`Before` numbers the places of a list without gaps).

**`SpinWick`.** `NothingLeftBehind`, `ServerForLabel` and `UpToDate` speak of moments at which everything has been
handled. Each follows from an invariant that says the same of every moment, with what is
on its way counted in:

* `Base`, which all three use: `Inv` of `TwoServersOneWindow`; what is posted is an event about a commit
  there is, and what a handler holds fits its place in the code (`Sits`); what may exist in which
  repository, and for which owner (`Kinds`).
* `Backed`: a label that is on stands for an event not yet taken, a create not yet
  through, or a server that is there to stay (`Backs`). `Firm` is needed for the last: a customer's
  installation whose creation fails is not live, so it does not count until it is stable, and until then the
  waiting create does.
* `Safe`: a create on its way is wanted by a label or will be followed by a destroy that has not looked yet
  (`Takes`), and so is whatever is live, unless a destroy has found it (`Lives`). Webhooks go with
  the namespace or with the handler that takes them down (`Tied`).
* `Current`: what is live, or about to be, runs the newest commit, or the event that has it
  is not taken, or the handler that has it has not looked (`Fresh`), or one that has found the
  installation is about to write it (`Brings`), or it is to be destroyed. It needs `Asks`, that
  a create is the only one for its label, and `Safe`'s account of destroys (`Due`, `Doomed`).

The parts are weakened by the mishaps just as the properties are. All of `Base`, `Backed`, `Safe`
and `Current` were also checked by TLC, over all states of the instance of the run `spinwick`.

Each `TypeOK` is proved, where the module has one; `e2epr_desktop` also checks one. `CMTSelect` and
`SpinWick` have none: the proof about the former has the types it needs in `SelectInv`, and the proof
about the latter carries the shape of its variables with it (`Shape`, `Sits`, `Kinds`).

### Induction

The library's induction theorems take an operator as a parameter, which the provers cannot
instantiate. What the proofs need of finite sets and lists is had from well-founded orders instead, of which the
library's facts are first-order: a nonempty set of subsets of a finite set has a least one
(`MinimalSubset`), so the set of counterexamples, were it not empty, would have one that its own definition
refutes. That gives the newest and oldest members, the numbering of a set by its order
(`Ascending`, `Sorted`, `EntriesAt`) and the steps of the recursive function in `CapPreferringESR`,
which first has to be shown to exist.

### Only model-checked

Every safety property a passing run checks, and the refinement of `ProvisionPromise`, is a theorem. What stays with TLC is what is temporal
otherwise (`NoServerLivesForever`, `InProgressCleared`, `EntryRemoved`, `CallReturns`, `CancelEndsCall`,
`WaitsEnd`, `SendersEnd`, `PassesEnd`): liveness under fairness, and the `ENABLED` it rests on, are out of the
prover's reach.

## 6. Not modelled

* Wording of comments and messages, logging, JSON layout, signature checks, configuration
  loading and the embedded picture: no property is about them.
* The encodings of the clients of GitHub, CWS, Kubernetes, the Docker registry and the
  provisioner: what their calls change, and what they may answer, is in the models.
* `envMaps`, the environment variables per owner that `/spinwick` sets: they do not decide
  whether there is a server or which commit it runs.
* Readiness of a server that is up but still being initialised, when a request of another
  test platform adopts it: `E2EPR` ends a worker at "up".
* A second PR or repository: keys are disjoint, so they add nothing but load. (The slot of
  mobile provisioning is the process's, and `CMTRun` has several triggers.)
* `E2EServerVersion` other than `latest`: there is no cache then.
* Undefined behaviour: `handleCloudWebhook` reads `len(webhookChannels)` for its log without
  the lock; it changes no state.

## 7. What is left

* `E2EPR`'s request as a client of `ProvisionPromise`, composed: the two modules agree today by the
  correspondence in section 2, not by a refinement.
* The instance of `SpinWick` with a plain and the CWS label on one PR, and `envMaps`.
* Proofs of what the models leave to correspondence: that `CMTRun`'s step for a version's servers and
  `E2EPR`'s for a set are `ProvisionPromise`'s.
* What a mishap may cost at most: how many servers a leak leaves, and that a later destroy of the same
  pull request finds them one by one.
