------------------------------ MODULE SpinWick ------------------------------
(***************************************************************************)
(* The test server of one pull request: events and handlers of PREvents    *)
(* over the installations of ServerSpinWick or the namespace of            *)
(* KubeSpinWick, by repository.  src/server/spinwick.go.                   *)
(***************************************************************************)
EXTENDS ServerSpinWick, KubeSpinWick

vars == <<prVars, serverVars, kubeVars>>

Init == PRInit /\ ServerInit /\ KubeInit

People ==
  \/ \E l \in AllLabels : AddLabel(l) \/ RemoveLabel(l)
  \/ Push \/ SlashUpdate \/ CloseOrReopen

Next ==
  \/ /\ People \/ DropEvent \/ \E h \in Handlers : HandlePullRequestEvent(h)
     /\ UNCHANGED <<serverVars, kubeVars>>
  \/ /\ Provisioner \/ \E h \in Handlers : setup.repo # "cws" /\ ServerStep(h)
     /\ UNCHANGED kubeVars
  \/ /\ NamespaceGone \/ \E h \in Handlers : KubeStep(h)
     /\ UNCHANGED serverVars

Spec == Init /\ [][Next]_vars
-----------------------------------------------------------------------------
(* Properties.  Handlers of one pull request run at the same time and in   *)
(* any order, so much can go wrong and does; mishaps records each time one *)
(* of the ways known to go wrong is taken, with the step that takes it:    *)
(*                                                                         *)
(*   leak    a destroy looked while a create was between its look and its  *)
(*           request, found two and deleted one, or failed; or a create    *)
(*           began with its label gone or the pull request closed          *)
(*   robbed  a server was deleted with a label on; a CWS account has no    *)
(*           customer                                                      *)
(*   kept    a create failed and a label could not be taken off            *)
(*   stale   an update found nothing, or one of two servers, or a server   *)
(*           while another was being created; it failed or wrote an older  *)
(*           commit over a newer one; a create began from an event older   *)
(*           than a push that had begun already; a plugin could not be     *)
(*           installed                                                     *)
(*                                                                         *)
(* and DropEvent, an event that is not handled, is all of them.  The       *)
(* properties say that there is no other way.                              *)

(* Two servers of one owner at a time come only from two creates of which  *)
(* neither had asked when the other looked: a live installation is never   *)
(* missed by the look of a later create, whatever state it is in.          *)
TwoOnlyInOneWindow ==
  \A i, j \in DOMAIN inst :
    i < j /\ inst[i].owner = inst[j].owner /\ Live(i) /\ Live(j) => i > inst[j].known

Up == namespace = "active" \/ \E i \in DOMAIN inst : Live(i)

(* When everything has been handled and no label is on, or the pull        *)
(* request is closed, nothing is left: no installation, namespace or       *)
(* webhook.  A create that fails half way, for whatever reason and however *)
(* often, needs no exception.                                              *)
NothingLeftBehind ==
  Quiet /\ (labels = {} \/ ~open) /\ "leak" \notin mishaps => ~Up /\ ~hooks /\ ~stripe

(* When everything has been handled and a label is on, it stands for a     *)
(* server: no create that failed or was aborted leaves its label.          *)
ServerForLabel ==
  Quiet /\ labels # {} /\ ~closed /\ mishaps \subseteq {"leak", "stale"} => Up

(* When everything has been handled, the server runs the last commit,      *)
(* in whatever order pushes, images and updates came.                      *)
UpToDate ==
  Quiet /\ labels # {} /\ open /\ mishaps \subseteq {"robbed"} =>
    /\ \A i \in DOMAIN inst : Live(i) => inst[i].ver = head
    /\ namespace = "active" => deployed = head
=============================================================================
