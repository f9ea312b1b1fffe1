------------------------------ MODULE PREvents ------------------------------
(***************************************************************************)
(* A pull request as its SpinWick handlers see it.  GitHub posts an event  *)
(* for every change; each is handled in a goroutine of its own, with the   *)
(* commit and the state of the event's payload and the labels read from    *)
(* GitHub when the handler starts.  A create that ends in an error takes   *)
(* the SpinWick labels off, and that is the event that destroys.           *)
(* src/server/server.go, pull_request.go, slash_commands.go, github.go and *)
(* the three handle*SpinWick functions of spinwick.go.                     *)
(*                                                                         *)
(* One pull request: what a handler touches is found by the owner id,      *)
(* which repository and number determine.                                  *)
(***************************************************************************)
EXTENDS Naturals, Sequences, FiniteSets, SequencesExt

CONSTANTS
  Handlers,   \* goroutines alive at a time
  Setups,     \* [repo, labels]: the repository, the labels used on its pull requests
  MaxCommits, \* bound: commits of the pull request
  MaxActs     \* bound: what people do to the pull request

AllLabels == {"SpinWick", "SpinWickHA", "SpinWickWithCWS"}

ASSUME SetupsAssumption ==
  \A s \in Setups : s.repo \in {"server", "plugin", "cws"} /\ s.labels \subseteq AllLabels
ASSUME BoundsAssumption == MaxCommits \in Nat /\ MaxActs \in Nat

VARIABLES
  setup,
  labels, open, head, \* the pull request on GitHub
  acts,               \* what people have done to it so far
  net,                \* events posted and not handled yet, in order
  pc,                 \* of a handler
  op,                 \* create, update or destroy
  pr,                 \* what it knows of the pull request
  closed,             \* history: the pull request has been closed
  mishaps             \* history: what is known to leave the server wrong

github  == <<labels, open, head, acts, net, closed>>
handler == <<pc, op, pr>>
prVars  == <<setup, github, handler, mishaps>>

Mishaps == {"leak", "robbed", "stale", "kept"}

NoPR == [labels |-> {}, label |-> "none", sha |-> 0, noBuildChanges |-> FALSE]

PRInit ==
  /\ setup \in Setups
  /\ labels = {}
  /\ open = TRUE
  /\ head = 1
  /\ acts = 0
  /\ net = <<>>
  /\ pc = [h \in Handlers |-> "idle"]
  /\ op = [h \in Handlers |-> "none"]
  /\ pr = [h \in Handlers |-> NoPR]
  /\ closed = FALSE
  /\ mishaps = {}

Event(action, label, sha, state) ==
  [action |-> action, label |-> label, sha |-> sha, open |-> state]

Posts(e) == net' = Append(net, e)
Acts == acts < MaxActs /\ acts' = acts + 1
-----------------------------------------------------------------------------
(* People; /spinwick create and /spinwick delete work by the labels too.   *)
AddLabel(l) ==
  /\ Acts
  /\ l \in setup.labels \ labels
  /\ labels' = labels \cup {l}
  /\ Posts(Event("labeled", l, head, open))
  /\ UNCHANGED <<setup, open, head, closed, handler, mishaps>>

RemoveLabel(l) ==
  /\ Acts
  /\ l \in labels
  /\ labels' = labels \ {l}
  /\ Posts(Event("unlabeled", l, head, open))
  /\ UNCHANGED <<setup, open, head, closed, handler, mishaps>>

Push ==
  /\ Acts
  /\ open
  /\ head < MaxCommits
  /\ head' = head + 1
  /\ Posts(Event("synchronize", "none", head + 1, open))
  /\ UNCHANGED <<setup, labels, open, closed, handler, mishaps>>

(* /spinwick update                                                        *)
SlashUpdate ==
  /\ Acts
  /\ Posts(Event("update", "none", head, open))
  /\ UNCHANGED <<setup, labels, open, head, closed, handler, mishaps>>

(* A pull request that is reopened gets nothing done.                      *)
CloseOrReopen ==
  /\ Acts
  /\ open' = ~open
  /\ IF open THEN Posts(Event("closed", "none", head, FALSE)) ELSE UNCHANGED net
  /\ closed' = TRUE
  /\ UNCHANGED <<setup, labels, head, handler, mishaps>>
-----------------------------------------------------------------------------
(* What a pull_request event or a slash command comes to.                  *)
OpOf(e, current) ==
  CASE e.action = "labeled" /\ e.open -> "create"
    [] e.action = "unlabeled" -> "destroy"
    [] e.action \in {"synchronize", "update"} /\ current # {} -> "update"
    [] e.action = "closed" /\ current # {} -> "destroy"
    [] OTHER -> "none"

(* handlePullRequestEvent up to the handler of the operation.              *)
(* A create whose label is gone by now is not noticed.                     *)
HandlePullRequestEvent(h) ==
  /\ pc[h] = "idle"
  /\ \E k \in DOMAIN net :
       LET e == net[k]
           o == OpOf(e, labels)
       IN  /\ net' = RemoveAt(net, k)
           /\ op' = [op EXCEPT ![h] = o]
           /\ pc' = [pc EXCEPT ![h] = IF o = "none" THEN "idle" ELSE "start"]
           /\ pr' = [pr EXCEPT ![h] =
                IF o = "none" THEN NoPR
                ELSE [labels |-> labels, label |-> e.label,
                      sha |-> IF e.action = "update" THEN head ELSE e.sha,
                      noBuildChanges |-> e.action = "update"]]
           /\ mishaps' = mishaps \cup
                {m \in {"leak"} : o = "create" /\ (e.label \notin labels \/ ~open)} \cup
                {m \in {"stale"} : o = "create" /\ e.sha # head /\
                   ~\E i \in DOMAIN net : net[i].action = "synchronize" /\ net[i].sha = head}
  /\ UNCHANGED <<setup, labels, open, head, acts, closed>>

(* GitHub's rate limit, or an error in reading the labels.                 *)
DropEvent ==
  /\ net # <<>>
  /\ net' = Tail(net)
  /\ mishaps' = Mishaps
  /\ UNCHANGED <<setup, labels, open, head, acts, closed, handler>>

Idle(h) ==
  /\ pc' = [pc EXCEPT ![h] = "idle"]
  /\ op' = [op EXCEPT ![h] = "none"]
  /\ pr' = [pr EXCEPT ![h] = NoPR]

(* Mutant: the labels stay on after an error. *)
FailsKeepsLabels(h) ==
  /\ Idle(h)
  /\ mishaps' = mishaps \cup {m \in {"stale"} : op[h] = "update"}
                        \cup {m \in {"leak"} : op[h] = "destroy"}
  /\ UNCHANGED <<setup, github>>

(* The end of handleCreateSpinWick, handleUpdateSpinWick and               *)
(* handleDestroySpinWick with an error.  Only a create does something      *)
(* about it: it takes off the labels it saw when it started.               *)
Fails(h) ==
  /\ Idle(h)
  /\ IF op[h] = "create"
     THEN \E kept \in SUBSET (labels \cap pr[h].labels) :
            LET off == (labels \cap pr[h].labels) \ kept
            IN  /\ labels' = labels \ off
                /\ net' = net \o SetToSeq({Event("unlabeled", l, head, open) : l \in off})
                /\ mishaps' = mishaps \cup {m \in {"kept"} : kept # {}}
     ELSE /\ UNCHANGED <<labels, net>>
          /\ mishaps' = mishaps \cup {m \in {"stale"} : op[h] = "update"}
                                \cup {m \in {"leak"} : op[h] = "destroy"}
  /\ UNCHANGED <<setup, open, head, acts, closed>>

(* Without an error, or with one that leaves nothing to be done.           *)
Ends(h) == Idle(h) /\ UNCHANGED <<setup, github, mishaps>>

(* To the next step.                                                       *)
Goes(h, next) ==
  /\ pc' = [pc EXCEPT ![h] = next]
  /\ UNCHANGED <<setup, github, op, pr>>

Quiet == net = <<>> /\ \A h \in Handlers : pc[h] = "idle"

(* Creates that look for a server, or have looked and not asked for one.   *)
InFlight(h) == op[h] = "create" /\ pc[h] \in {"start", "check", "image", "request"}
=============================================================================
