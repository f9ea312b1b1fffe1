----------------------------- MODULE CloudWait -----------------------------
(***************************************************************************)
(* Waiting for an installation to become stable or to be deleted.  The     *)
(* provisioner posts every state change to /cloud_webhooks; the handler    *)
(* starts a sender goroutine per registered channel, which gives up after  *)
(* five seconds; the waiter that owns the channel skips the payloads of    *)
(* other installations and leaves at the state it waits for or at its      *)
(* deadline.  For local testing a waiter polls instead.                    *)
(* src/server/cloud_webhooks.go, server.go and spinwick.go.                *)
(*                                                                         *)
(* A waiter is one call of a SpinWick handler that creates, updates or     *)
(* deletes an installation and waits for it.  It makes at most one         *)
(* channel, so the channel is named by its waiter.                         *)
(***************************************************************************)
EXTENDS Naturals, FiniteSets

CONSTANTS
  Installations,
  Waiters,
  NoOne,      \* no channel for this installation; no installation yet
  LateEvents, \* a payload may come after a later request for its installation,
              \* or after the deadline of a wait
  Unreliable, \* a payload may be lost, or posted more than once
  MaxSenders  \* bound: sender goroutines alive at a time

ASSUME NoOneAssumption == NoOne \notin Waiters /\ NoOne \notin Installations
ASSUME BoundAssumption == MaxSenders \in Nat
ASSUME SwitchesAssumption == {LateEvents, Unreliable} \subseteq BOOLEAN

VARIABLES
  inst,      \* the provisioner: state of every installation
  net,       \* payloads under way, <<installation, new state>>
  channels,  \* webhookChannels
  senders,   \* sender goroutines, <<waiter of the channel, payload>>
  pc, target, kind,
  error,     \* request.Error: none, the deadline's, or another one
  fresh,     \* history: waiters whose installation became stable since their request
  steady     \* history: waiters whose installation was stable all through the wait

cloud == <<inst, net>>
hooks == <<channels, senders>>
local == <<pc, target, kind, error>>
hist  == <<fresh, steady>>
vars  == <<cloud, hooks, local, hist>>

(* "failed" is creation-failed or creation-no-compatible-clusters;         *)
(* "deleting" is deletion-requested or deletion-in-progress.               *)
States == {"none", "creating", "failed", "stable", "updating",
           "deleting", "deleted", "undeletable"}

(* The payloads some loop reacts to; the others change nothing.            *)
Told == {"stable", "failed", "deleting", "deleted", "undeletable"}
Payloads == Installations \X Told
Errors == {"none", "timeout", "failed"}

(* The process starts with no wait; installations may be there already.    *)
Init ==
  /\ inst \in [Installations -> {"none", "stable"}]
  /\ net = {}
  /\ channels = [i \in Installations |-> NoOne]
  /\ senders = {}
  /\ pc = [w \in Waiters |-> "idle"]
  /\ target = [w \in Waiters |-> NoOne]
  /\ kind = [w \in Waiters |-> "stable"]
  /\ error = [w \in Waiters |-> "none"]
  /\ fresh = {}
  /\ steady = {}

Waiting(w) == pc[w] \in {"wait", "check"}
-----------------------------------------------------------------------------
(* The provisioner changes an installation's state and posts the payload.  *)
Moves(i, s) ==
  LET waits == {w \in Waiters : target[w] = i}
  IN  /\ inst' = [inst EXCEPT ![i] = s]
      /\ net' = net \cup ({<<i, s>>} \cap Payloads)
      /\ fresh' = IF s = "stable" THEN fresh \cup waits ELSE fresh
      /\ steady' = steady \ waits

(* What the provisioner makes of an installation on its own.               *)
Follows(s, t) ==
  \/ s = "creating" /\ t \in {"stable", "failed"}
  \/ s \in {"failed", "updating"} /\ t = "stable"
  \/ s = "deleting" /\ t \in {"deleted", "undeletable"}

Proceeds(i) ==
  /\ \E t \in States : Follows(inst[i], t) /\ Moves(i, t)
  /\ UNCHANGED <<hooks, local>>

Deletable(i) == inst[i] \notin {"none", "deleting", "deleted"}

Prompt(i) == LateEvents \/ \A s \in Told : <<i, s>> \notin net

(* destroySpinWick deletes and does not wait. *)
Destroy(i) ==
  /\ Deletable(i)
  /\ Prompt(i)
  /\ Moves(i, "deleting")
  /\ UNCHANGED <<hooks, local>>
-----------------------------------------------------------------------------
(* A handler makes its request; only when the provisioner has answered     *)
(* does it ask for a channel.                                              *)
Requests(w, i, s, k) ==
  /\ pc[w] = "idle"
  /\ Prompt(i)
  /\ Moves(i, s)
  /\ target' = [target EXCEPT ![w] = i]
  /\ kind' = [kind EXCEPT ![w] = k]
  /\ pc' = [pc EXCEPT ![w] = "register"]
  /\ UNCHANGED <<hooks, error>>

Creates(w, i) ==
  /\ inst[i] = "none"
  /\ \E k \in {"stable", "poll"} : Requests(w, i, "creating", k)

Updates(w, i) ==
  /\ inst[i] \in {"stable", "updating"}
  /\ \E k \in {"stable", "poll"} : Requests(w, i, "updating", k)

Deletes(w, i) ==
  /\ Deletable(i)
  /\ Requests(w, i, "deleting", "deleted")

(* requestCloudWebhookChannel; a polling waiter needs no channel.          *)
Begins(w) ==
  /\ pc' = [pc EXCEPT ![w] = "wait"]
  /\ steady' = IF inst[target[w]] = "stable" THEN steady \cup {w} ELSE steady
  /\ UNCHANGED <<cloud, senders, target, kind, error, fresh>>

Register(w) ==
  /\ pc[w] = "register"
  /\ kind[w] # "poll"
  /\ channels[target[w]] = NoOne
  /\ channels' = [channels EXCEPT ![target[w]] = w]
  /\ Begins(w)

BeginPolling(w) ==
  /\ pc[w] = "register"
  /\ kind[w] = "poll"
  /\ UNCHANGED channels
  /\ Begins(w)

(* Mutant: the removal is deferred before the error is looked at. *)
RefusedRemoves(w) ==
  /\ pc[w] = "register"
  /\ kind[w] # "poll"
  /\ channels[target[w]] # NoOne
  /\ channels' = [channels EXCEPT ![target[w]] = NoOne]
  /\ pc' = [pc EXCEPT ![w] = "done"]
  /\ error' = [error EXCEPT ![w] = "failed"]
  /\ UNCHANGED <<cloud, senders, target, kind, hist>>

(* "A channel already exists for ID": the waiter gives up and leaves the   *)
(* other one's channel alone.                                              *)
Refused(w) ==
  /\ pc[w] = "register"
  /\ kind[w] # "poll"
  /\ channels[target[w]] # NoOne
  /\ pc' = [pc EXCEPT ![w] = "done"]
  /\ error' = [error EXCEPT ![w] = "failed"]
  /\ UNCHANGED <<cloud, hooks, target, kind, hist>>

(* The way out of a wait, with the deferred removeCloudWebhookChannel. *)
Leaves(w, e) ==
  /\ pc' = [pc EXCEPT ![w] = "done"]
  /\ error' = [error EXCEPT ![w] = e]
  /\ channels' = IF kind[w] = "poll" THEN channels
                 ELSE [channels EXCEPT ![target[w]] = NoOne]

Stays(w, label, e) ==
  /\ pc' = [pc EXCEPT ![w] = label]
  /\ error' = [error EXCEPT ![w] = e]
  /\ UNCHANGED channels
-----------------------------------------------------------------------------
(* handleInstallationState: only "stable" ends the wait, and the error of  *)
(* an earlier state is still in the request then.                          *)
HandleInstallationState(w, s) ==
  \/ s = "stable" /\ Leaves(w, error[w])
  \/ s = "failed" /\ Stays(w, "wait", "failed")
  \/ s \in {"deleting", "deleted"} /\ Stays(w, "check", error[w])
  \/ s \in {"creating", "updating", "undeletable"} /\ Stays(w, "wait", error[w])

(* The loop of waitForInstallationIsDeleted. *)
HandleDeletion(w, s) ==
  \/ s = "deleted" /\ Leaves(w, error[w])
  \/ s = "undeletable" /\ Leaves(w, "failed")
  \/ s \in States \ {"deleted", "undeletable"} /\ Stays(w, "wait", error[w])

(* Mutant: the payload's ID is not compared. *)
ReactToAny(w, i, s) ==
  IF kind[w] = "deleted" THEN HandleDeletion(w, s) ELSE HandleInstallationState(w, s)

React(w, i, s) ==
  \/ i # target[w] /\ Stays(w, "wait", error[w])
  \/ i = target[w] /\ kind[w] = "deleted" /\ HandleDeletion(w, s)
  \/ i = target[w] /\ kind[w] = "stable" /\ HandleInstallationState(w, s)

Receive(w) ==
  /\ pc[w] = "wait"
  /\ \E p \in Payloads :
       /\ <<w, p>> \in senders
       /\ senders' = senders \ {<<w, p>>}
       /\ React(w, p[1], p[2])
  /\ UNCHANGED <<cloud, target, kind, hist>>

(* GetUpdateChecks, during which nothing is received: the label is there,  *)
(* or it is not, or GitHub does not say.                                   *)
CheckLabels(w) ==
  /\ pc[w] = "check"
  /\ \E e \in {error[w], "failed"} : Stays(w, "wait", e)
  /\ UNCHANGED <<cloud, senders, target, kind, hist>>

(* waitForInstallationStablePoll: GetInstallation, or an error from it.    *)
Tick(w) ==
  /\ pc[w] = "wait"
  /\ kind[w] = "poll"
  /\ HandleInstallationState(w, inst[target[w]]) \/ Leaves(w, "failed")
  /\ UNCHANGED <<cloud, senders, target, kind, hist>>

(* Mutant: the loop for deletions does without the deadline. *)
TimeoutStableOnly(w) ==
  /\ pc[w] = "wait"
  /\ kind[w] # "deleted"
  /\ kind[w] = "poll" => w \notin steady
  /\ Leaves(w, "timeout")
  /\ UNCHANGED <<cloud, senders, target, kind, hist>>

(* ctx.Done().  The deadline is ten minutes away or more: the poll of an   *)
(* installation that is stable all along is over before it, and, but for   *)
(* LateEvents, so are the payloads of what has happened.                   *)
Timeout(w) ==
  /\ pc[w] = "wait"
  /\ kind[w] = "poll" => w \notin steady
  /\ Prompt(target[w])
  /\ LateEvents \/ \A p \in Payloads : <<w, p>> \notin senders
  /\ Leaves(w, "timeout")
  /\ UNCHANGED <<cloud, senders, target, kind, hist>>
-----------------------------------------------------------------------------
(* handleCloudWebhook: a sender for every channel there is at this moment. *)
HandleCloudWebhook(p) ==
  /\ p \in net
  /\ \/ net' = net \ {p}
     \/ Unreliable /\ UNCHANGED net
  /\ senders' = senders \cup {<<w, p>> : w \in {channels[i] : i \in Installations} \ {NoOne}}
  /\ Cardinality(senders') <= MaxSenders
  /\ UNCHANGED <<inst, channels, local, hist>>

Lose(p) ==
  /\ Unreliable
  /\ p \in net
  /\ net' = net \ {p}
  /\ UNCHANGED <<inst, hooks, local, hist>>

(* Mutant: the timer runs only while the waiter's loop does. *)
SenderGivesUpInCheck(w, p) ==
  /\ <<w, p>> \in senders
  /\ pc[w] = "check"
  /\ senders' = senders \ {<<w, p>>}
  /\ UNCHANGED <<cloud, channels, local, hist>>

(* Five seconds without a receiver. *)
SenderGivesUp(w, p) ==
  /\ <<w, p>> \in senders
  /\ pc[w] # "wait"
  /\ senders' = senders \ {<<w, p>>}
  /\ UNCHANGED <<cloud, channels, local, hist>>
-----------------------------------------------------------------------------
Waiter(w) ==
  \/ Register(w) \/ BeginPolling(w) \/ Refused(w)
  \/ Receive(w) \/ CheckLabels(w) \/ Tick(w) \/ Timeout(w)

Next ==
  \/ \E w \in Waiters : Waiter(w)
  \/ \E w \in Waiters, i \in Installations : Creates(w, i) \/ Updates(w, i) \/ Deletes(w, i)
  \/ \E w \in Waiters, p \in Payloads : SenderGivesUp(w, p)
  \/ \E p \in Payloads : HandleCloudWebhook(p) \/ Lose(p)
  \/ \E i \in Installations : Proceeds(i) \/ Destroy(i)

Spec == Init /\ [][Next]_vars

(* Goroutines run, GitHub answers, timers fire, and a select that is       *)
(* offered the deadline again and again takes it.                          *)
Fairness ==
  /\ \A w \in Waiters : WF_vars(Waiter(w)) /\ SF_vars(Timeout(w))
  /\ \A w \in Waiters, p \in Payloads : SF_vars(SenderGivesUp(w, p))

FairSpec == Spec /\ Fairness
-----------------------------------------------------------------------------
(* Properties.                                                             *)

(* Every variable keeps its type. *)
TypeOK ==
  /\ inst \in [Installations -> States]
  /\ net \subseteq Payloads
  /\ channels \in [Installations -> Waiters \cup {NoOne}]
  /\ senders \subseteq Waiters \X Payloads
  /\ pc \in [Waiters -> {"idle", "register", "wait", "check", "done"}]
  /\ target \in [Waiters -> Installations \cup {NoOne}]
  /\ kind \in [Waiters -> {"stable", "poll", "deleted"}]
  /\ error \in [Waiters -> Errors]
  /\ fresh \subseteq Waiters
  /\ steady \subseteq Waiters

(* The registry is exact: an installation has a channel just while the     *)
(* waiter that made it is in its loop.  A leaked entry would lock every    *)
(* later wait for that installation out; a removed one would deafen its    *)
(* owner until the deadline.                                               *)
ChannelsExact ==
  \A i \in Installations, w \in Waiters :
    channels[i] = w <=> Waiting(w) /\ kind[w] # "poll" /\ target[w] = i

(* A wait that ends without an error ended for a reason: the installation  *)
(* became stable after the caller's own request, or is deleted.  Payloads  *)
(* of other installations, posted again or sent by a late goroutine, do    *)
(* not end it.                                                             *)
SuccessIsTrue ==
  \A w \in Waiters :
    pc[w] = "done" /\ error[w] = "none" =>
      IF kind[w] = "deleted" THEN inst[target[w]] = "deleted" ELSE w \in fresh

(* Every wait ends, whatever payloads are lost and whatever comes instead. *)
WaitsEnd == \A w \in Waiters : pc[w] = "register" ~> pc[w] = "done"

(* No sender goroutine outlives its channel: those that have no receiver   *)
(* any more, because the waiter left with payloads outstanding, go too.    *)
SendersEnd ==
  \A w \in Waiters, p \in Payloads : <<w, p>> \in senders ~> <<w, p>> \notin senders
=============================================================================
