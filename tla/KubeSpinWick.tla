---------------------------- MODULE KubeSpinWick ----------------------------
(***************************************************************************)
(* The SpinWick of a CWS pull request: a namespace with a deployment in    *)
(* the Kubernetes cluster, a webhook at the provisioner and one at Stripe, *)
(* made one after the other and taken down one after the other, with the   *)
(* namespace as the sign that there is something.                          *)
(* src/server/spinwick.go, kubernetes.go, src/internal/cws/client.go.      *)
(***************************************************************************)
EXTENDS PREvents

VARIABLES
  namespace, \* none, active or terminating
  deployed,  \* commit of the deployment's image, 0 without one
  hooks,     \* there are provisioner webhooks of the namespace
  stripe     \* there is a Stripe webhook of the namespace

kubeVars == <<namespace, deployed, hooks, stripe>>

KubeInit == namespace = "none" /\ deployed = 0 /\ hooks = FALSE /\ stripe = FALSE

(* Any call may fail, the one for the client of the cluster to begin with. *)
KubeFails(h) ==
  /\ setup.repo = "cws"
  /\ pc[h] # "idle"
  /\ Fails(h)
  /\ UNCHANGED kubeVars

(* createCWSSpinWick.  A namespace that is there is used, one that is      *)
(* being deleted too.                                                      *)
GetOrCreateNamespace(h) ==
  /\ setup.repo = "cws" /\ pc[h] = "start" /\ op[h] = "create"
  /\ namespace' = IF namespace = "none" THEN "active" ELSE namespace
  /\ Goes(h, "image")
  /\ UNCHANGED <<mishaps, deployed, hooks, stripe>>

KubeImage(h) ==
  /\ setup.repo = "cws" /\ pc[h] = "image"
  /\ Goes(h, "deploy")
  /\ UNCHANGED <<mishaps, kubeVars>>

(* CreateFromFile, or the update of the deployment's images.               *)
Deploy(h) ==
  /\ setup.repo = "cws" /\ pc[h] = "deploy"
  /\ namespace = "active"
  /\ op[h] = "update" => deployed # 0
  /\ deployed' = pr[h].sha
  /\ mishaps' = mishaps \cup {m \in {"stale"} : pr[h].sha < deployed}
  /\ IF op[h] = "create"
     THEN pc' = [pc EXCEPT ![h] = "webhook"] /\ UNCHANGED <<op, pr>>
     ELSE Idle(h)
  /\ UNCHANGED <<setup, github, namespace, hooks, stripe>>

CreateWebhook(h) ==
  /\ setup.repo = "cws" /\ pc[h] = "webhook"
  /\ hooks' = TRUE
  /\ Goes(h, "stripe")
  /\ UNCHANGED <<mishaps, namespace, deployed, stripe>>

(* The secrets patched after it may fail without an error.                 *)
RegisterStripeWebhook(h) ==
  /\ setup.repo = "cws" /\ pc[h] = "stripe"
  /\ stripe' = TRUE
  /\ Ends(h)
  /\ UNCHANGED <<namespace, deployed, hooks>>
-----------------------------------------------------------------------------
(* updateKubeSpinWick *)
UpdateKube(h) ==
  /\ setup.repo = "cws" /\ pc[h] = "start" /\ op[h] = "update"
  /\ namespace # "none"
  /\ Goes(h, "image")
  /\ UNCHANGED <<mishaps, kubeVars>>

(* destroyKubeSpinWick: without a namespace there is nothing to do.        *)
Creating(h) == op[h] = "create" /\ pc[h] # "idle"

NoNamespace(h) ==
  /\ setup.repo = "cws" /\ pc[h] = "start" /\ op[h] = "destroy"
  /\ namespace = "none"
  /\ Idle(h)
  /\ mishaps' = mishaps \cup {m \in {"leak"} : \E c \in Handlers : Creating(c)}
  /\ UNCHANGED <<setup, github, kubeVars>>

DeleteNamespace(h) ==
  /\ setup.repo = "cws" /\ pc[h] = "start" /\ op[h] = "destroy"
  /\ namespace # "none"
  /\ namespace' = "terminating"
  /\ deployed' = 0
  /\ pc' = [pc EXCEPT ![h] = "hooks"]
  /\ mishaps' = mishaps
       \cup {m \in {"leak"} : \E c \in Handlers : Creating(c)}
       \cup {m \in {"robbed"} : labels # {} /\ open}
  /\ UNCHANGED <<setup, github, op, pr, hooks, stripe>>

(* Mutant: the webhooks at the provisioner are left. *)
DeleteWebhooksNone(h) ==
  /\ setup.repo = "cws" /\ pc[h] = "hooks"
  /\ Goes(h, "unstripe")
  /\ UNCHANGED <<mishaps, kubeVars>>

DeleteWebhooks(h) ==
  /\ setup.repo = "cws" /\ pc[h] = "hooks"
  /\ hooks' = FALSE
  /\ Goes(h, "unstripe")
  /\ UNCHANGED <<mishaps, namespace, deployed, stripe>>

DeleteStripeWebhook(h) ==
  /\ setup.repo = "cws" /\ pc[h] = "unstripe"
  /\ stripe' = FALSE
  /\ Ends(h)
  /\ UNCHANGED <<namespace, deployed, hooks>>

(* The cluster.                                                            *)
NamespaceGone ==
  /\ namespace = "terminating"
  /\ namespace' = "none"
  /\ UNCHANGED <<prVars, deployed, hooks, stripe>>

KubeStep(h) ==
  \/ KubeFails(h) \/ GetOrCreateNamespace(h) \/ KubeImage(h) \/ Deploy(h)
  \/ CreateWebhook(h) \/ RegisterStripeWebhook(h) \/ UpdateKube(h) \/ NoNamespace(h)
  \/ DeleteNamespace(h) \/ DeleteWebhooks(h) \/ DeleteStripeWebhook(h)
=============================================================================
