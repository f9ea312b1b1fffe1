--------------------------- MODULE ServerSpinWick ---------------------------
(***************************************************************************)
(* SpinWicks that are installations: of a server pull request at the       *)
(* provisioner or, with the label SpinWickWithCWS, of a customer account   *)
(* at CWS; and of a plugin pull request, with the plugin installed on it.  *)
(* src/server/spinwick.go, spinwick_plugin.go, builds.go and               *)
(* src/internal/cloudtools, src/internal/cws.                              *)
(*                                                                         *)
(* CloudWait has the waits in detail; here a wait ends well when the       *)
(* installation is stable and badly at any time.                           *)
(***************************************************************************)
EXTENDS PREvents

CONSTANT MaxInstallations \* bound

ASSUME InstallationsAssumption == MaxInstallations \in Nat

VARIABLES
  inst,    \* installations in the order of their creation
  account, \* the user has signed up at CWS
  target,  \* of a handler: request.InstallationID, 0 for "n/a"
  known    \* history, of a handler: how many installations there were when it checked

serverVars == <<inst, account, target, known>>

States == {"creating", "stable", "updating", "failed", "pending", "vanishing", "gone"}

ServerInit ==
  /\ inst = <<>>
  /\ account = FALSE
  /\ target = [h \in Handlers |-> 0]
  /\ known = [h \in Handlers |-> 0]

(* withCloudInfra: by the label of the event, on a push and on a close by  *)
(* the labels of the pull request.  Plugins have nothing to do with CWS.   *)
WithCloud(h) ==
  /\ setup.repo = "server"
  /\ IF pr[h].label = "none" THEN "SpinWickWithCWS" \in pr[h].labels
     ELSE pr[h].label = "SpinWickWithCWS"

Owner(h) == IF WithCloud(h) THEN "customer" ELSE "pr"

(* Mutant: an installation that is being updated is taken for deleted. *)
IsNotDeletedStateForgetsUpdates(s) == s \in {"creating", "stable", "failed", "vanishing"}

(* isNotDeletedState: all kinds of pending deletion are out, deletion in   *)
(* progress is not.                                                        *)
IsNotDeletedState(s) == s \in {"creating", "stable", "updating", "failed", "vanishing"}

(* getActiveInstallationUsingCWS has a list of its own, which a create and *)
(* a destroy of a CWS installation go by; an update asks the provisioner.  *)
IsActive(s) == s \in {"creating", "stable", "updating", "pending"}

Shows(h, s) ==
  IF WithCloud(h) /\ op[h] # "update" THEN IsActive(s) ELSE IsNotDeletedState(s)

(* GetInstallationIDFromOwnerID takes the first of these from a list that  *)
(* is in no particular order.                                              *)
Found(h) == {i \in DOMAIN inst : inst[i].owner = Owner(h) /\ Shows(h, inst[i].state)}

Forgets(h) == target' = [target EXCEPT ![h] = 0] /\ known' = [known EXCEPT ![h] = 0]
ServerFails(h) == Fails(h) /\ Forgets(h)
ServerEnds(h) == Ends(h) /\ Forgets(h)
-----------------------------------------------------------------------------
(* CWS: a login, or a sign-up and the verification of the new user, then   *)
(* its first customer.  Any call may fail.                                 *)
SignUp(h) ==
  /\ pc[h] = "start" /\ op[h] = "create" /\ WithCloud(h)
  /\ ~account
  /\ account' = TRUE
  /\ \/ Goes(h, "check") /\ UNCHANGED <<mishaps, target, known>>
     \/ ServerFails(h)
  /\ UNCHANGED inst

Login(h) ==
  /\ pc[h] = "start" /\ WithCloud(h)
  /\ account
  /\ Goes(h, IF op[h] = "create" THEN "check" ELSE "find")
  /\ UNCHANGED <<mishaps, serverVars>>

(* An account without a customer: errors.Wrap of a nil error is nil, and   *)
(* the create ends without an installation and without an error.           *)
NoCustomer(h) ==
  /\ pc[h] = "start" /\ op[h] = "create" /\ WithCloud(h)
  /\ account
  /\ Idle(h)
  /\ Forgets(h)
  /\ mishaps' = mishaps \cup {"robbed"}
  /\ UNCHANGED <<setup, github, inst, account>>

SessionFails(h) ==
  /\ pc[h] = "start" /\ WithCloud(h)
  /\ ServerFails(h)
  /\ UNCHANGED <<inst, account>>

Begins(h) ==
  /\ pc[h] = "start" /\ ~WithCloud(h) /\ setup.repo # "cws"
  /\ Goes(h, IF op[h] = "create" THEN "check" ELSE "find")
  /\ UNCHANGED <<mishaps, serverVars>>
-----------------------------------------------------------------------------
(* createSpinWick, createPluginSpinWick, createCloudSpinWickWithCWS.       *)

(* A server found is left alone by this function, and the error it         *)
(* reports takes the labels off.                                           *)
Check(h) ==
  /\ pc[h] = "check"
  /\ \/ /\ Found(h) = {}
        /\ Goes(h, IF setup.repo = "plugin" THEN "request" ELSE "image")
        /\ known' = [known EXCEPT ![h] = Len(inst)]
        /\ UNCHANGED <<mishaps, target>>
     \/ ServerFails(h)
  /\ UNCHANGED <<inst, account>>

(* waitForImage; without a licence the team edition will do.               *)
Image(h) ==
  /\ pc[h] = "image"
  /\ \/ Goes(h, IF op[h] = "create" THEN "request" ELSE "recheck") /\ UNCHANGED <<mishaps, target, known>>
     \/ ServerFails(h)
  /\ UNCHANGED <<inst, account>>

Created(h) ==
  Append(inst, [state |-> "creating", owner |-> Owner(h), known |-> known[h],
                ver |-> IF setup.repo = "plugin" THEN 0 ELSE pr[h].sha])

(* CreateInstallation; the answer of a request that was taken may be lost. *)
Request(h) ==
  /\ pc[h] = "request"
  /\ Len(inst) < MaxInstallations
  /\ inst' = Created(h)
  /\ \/ /\ Goes(h, "wait")
        /\ target' = [target EXCEPT ![h] = Len(inst) + 1]
        /\ UNCHANGED <<mishaps, known>>
     \/ ServerFails(h)
  /\ UNCHANGED account

RequestFails(h) ==
  /\ pc[h] = "request"
  /\ ServerFails(h)
  /\ UNCHANGED <<inst, account>>

(* waitForInstallationStable or, after a delete at CWS,                    *)
(* waitForInstallationIsDeleted, whose outcome is not looked at.           *)
Waited(h) ==
  /\ pc[h] = "wait"
  /\ CASE op[h] = "destroy" -> ServerEnds(h)
       [] op[h] = "create" /\ ~WithCloud(h) ->
            /\ inst[target[h]].state = "stable"
            /\ Goes(h, "init")
            /\ UNCHANGED <<mishaps, target, known>>
       [] OTHER -> inst[target[h]].state = "stable" /\ ServerEnds(h)
  /\ UNCHANGED <<inst, account>>

WaitFails(h) ==
  /\ pc[h] = "wait" /\ op[h] # "destroy"
  /\ ServerFails(h)
  /\ UNCHANGED <<inst, account>>

(* initializeMattermostTestServer                                          *)
Initialise(h) ==
  /\ pc[h] = "init"
  /\ \/ ServerFails(h)
     \/ setup.repo = "plugin" /\ Goes(h, "plugin") /\ UNCHANGED <<mishaps, target, known>>
     \/ setup.repo = "server" /\ ServerEnds(h)
  /\ UNCHANGED <<inst, account>>

Stale(i, v) == {m \in {"stale"} : v < inst[i].ver}

(* The cluster installation, waitForAndInstallPlugin; an artifact that     *)
(* does not come or a command that fails is reported and is no error.      *)
InstallPlugin(h) ==
  LET i == target[h]
  IN  /\ pc[h] = "plugin"
      /\ \/ /\ inst' = [inst EXCEPT ![i].ver = pr[h].sha]
            /\ mishaps' = mishaps \cup Stale(i, pr[h].sha)
         \/ /\ UNCHANGED inst
            /\ mishaps' = mishaps \cup {"stale"}
      /\ Idle(h)
      /\ Forgets(h)
      /\ UNCHANGED <<setup, github, account>>

PluginFails(h) ==
  /\ pc[h] = "plugin"
  /\ ServerFails(h)
  /\ UNCHANGED <<inst, account>>
-----------------------------------------------------------------------------
(* Live: neither deleted nor about to be.  CWS does not show an            *)
(* installation that could not be created, so nothing ever deletes it.     *)
Live(i) ==
  /\ inst[i].state \in {"creating", "stable", "updating", "failed"}
  /\ inst[i].owner = "customer" => inst[i].state # "failed"

(* updateSpinWick, updatePluginSpinWick, destroySpinWick,                  *)
(* destroyCloudSpinWickWithCWS: look the installation up.  What a create   *)
(* in flight is about to make is not found.                                *)
Find(h) ==
  \E i \in Found(h) :
      /\ pc[h] = "find"
      /\ Goes(h, IF op[h] = "destroy" THEN "delete" ELSE IF setup.repo = "plugin" THEN "plugin" ELSE "image")
      /\ target' = [target EXCEPT ![h] = i]
      /\ mishaps' = mishaps \cup
           {m \in {IF op[h] = "destroy" THEN "leak" ELSE "stale"} :
              (\E c \in Handlers : InFlight(c)) \/ \E j \in DOMAIN inst \ {i} : Live(j)}
      /\ UNCHANGED <<inst, account, known>>

FindsNothing(h) ==
  /\ pc[h] = "find"
  /\ Found(h) = {}
  /\ Idle(h)
  /\ Forgets(h)
  /\ mishaps' = mishaps
       \cup {m \in {"leak"} : op[h] = "destroy" /\ \E c \in Handlers : InFlight(c)}
       \cup {m \in {"stale"} : op[h] = "update"}
  /\ UNCHANGED <<setup, github, inst, account>>

FindFails(h) ==
  /\ pc[h] = "find"
  /\ ServerFails(h)
  /\ UNCHANGED <<inst, account>>

(* Mutant: an update that is under way will do, to whatever commit. *)
FinalCheckAnyUpdate(h) ==
  /\ pc[h] = "recheck"
  /\ IF inst[target[h]].state # "updating"
     THEN Goes(h, "patch") /\ UNCHANGED <<mishaps, target, known>>
     ELSE ServerEnds(h)
  /\ UNCHANGED <<inst, account>>

(* The final upgrade check; somebody else's update to this commit will do. *)
FinalCheck(h) ==
  /\ pc[h] = "recheck"
  /\ IF inst[target[h]].ver # pr[h].sha \/ pr[h].noBuildChanges
     THEN Goes(h, "patch") /\ UNCHANGED <<mishaps, target, known>>
     ELSE ServerEnds(h)
  /\ UNCHANGED <<inst, account>>

Patch(h) ==
  LET i == target[h]
  IN  /\ pc[h] = "patch"
      /\ inst[i].state \in {"stable", "updating"}
      /\ inst' = [inst EXCEPT ![i].state = "updating", ![i].ver = pr[h].sha]
      /\ Goes(h, "wait")
      /\ mishaps' = mishaps \cup Stale(i, pr[h].sha)
      /\ UNCHANGED <<account, target, known>>

PatchFails(h) ==
  /\ pc[h] \in {"recheck", "patch"}
  /\ ServerFails(h)
  /\ UNCHANGED <<inst, account>>

DeleteFails(h) ==
  /\ pc[h] = "delete"
  /\ ServerFails(h)
  /\ UNCHANGED <<inst, account>>

(* DeleteInstallation.  It is one installation that goes, and it goes      *)
(* whatever labels are on by now.                                          *)
Delete(h) ==
  LET i == target[h]
  IN  /\ pc[h] = "delete"
      /\ inst' = [inst EXCEPT ![i].state = IF Live(i) THEN "pending" ELSE @]
      /\ mishaps' = mishaps \cup {m \in {"robbed"} : labels # {} /\ open}
      /\ IF WithCloud(h) THEN pc' = [pc EXCEPT ![h] = "wait"] /\ UNCHANGED <<op, pr, target, known>>
         ELSE Idle(h) /\ Forgets(h)
      /\ UNCHANGED <<setup, github, account>>
-----------------------------------------------------------------------------
(* The provisioner.                                                        *)
Follows(s) ==
  CASE s = "creating" -> {"stable", "failed"}
    [] s = "updating" -> {"stable"}
    [] s = "pending" -> {"vanishing"}
    [] s = "vanishing" -> {"gone"}
    [] OTHER -> {}

Provisioner ==
  /\ \E i \in DOMAIN inst : \E s \in Follows(inst[i].state) : inst' = [inst EXCEPT ![i].state = s]
  /\ UNCHANGED <<prVars, account, target, known>>

ServerStep(h) ==
  \/ SignUp(h) \/ Login(h) \/ NoCustomer(h) \/ SessionFails(h) \/ Begins(h)
  \/ Check(h) \/ Image(h) \/ Request(h) \/ RequestFails(h) \/ Waited(h) \/ WaitFails(h)
  \/ Initialise(h) \/ InstallPlugin(h) \/ PluginFails(h)
  \/ Find(h) \/ FindsNothing(h) \/ FindFails(h) \/ FinalCheck(h) \/ Patch(h) \/ PatchFails(h)
  \/ Delete(h) \/ DeleteFails(h)
=============================================================================
