--------------------------- MODULE SpinWick_proofs ---------------------------
(***************************************************************************)
(* Proofs of the safety properties of the life of a SpinWick, for any      *)
(* number of handlers, commits and installations.                          *)
(*                                                                         *)
(*   Inv      what a handler counts at its look is dead for good;          *)
(*            TwoServersOneWindow follows                                  *)
(*   Base     Inv, the shape of what handlers hold and of what is posted   *)
(*            (Sits), and what a pull request may have (Kinds)             *)
(*   Backed   every label stands for a server or for one on its way;       *)
(*            with Base, LabelHasServer follows                            *)
(*   Safe     what is live is wanted, or a destroy is on its way to it;    *)
(*            with Base, NothingIsLeft follows                             *)
(*   Current  the newest commit runs, or is on its way to what does;       *)
(*            with Base and Safe, ServerIsUpToDate follows                 *)
(***************************************************************************)
EXTENDS SpinWick, TLAPS, FiniteSetTheorems, SequenceTheorems

Field(i) == [state |-> inst[i].state, owner |-> inst[i].owner,
             known |-> inst[i].known, ver |-> inst[i].ver]

(* Functions on the handlers, and inst is a sequence of records.           *)
Shape ==
  /\ pc = [h \in Handlers |-> pc[h]]
  /\ pr = [h \in Handlers |-> pr[h]]
  /\ known \in [Handlers -> Nat]
  /\ Len(inst) \in Nat /\ inst = [i \in 1..Len(inst) |-> inst[i]]
  /\ \A i \in 1..Len(inst) : inst[i] = Field(i) /\ inst[i].known \in Nat

(* What a handler has counted at its look is dead for good.                *)
Counted ==
  \A h \in Handlers :
    /\ known[h] <= Len(inst)
    /\ pc[h] = "idle" \/ setup.repo = "cws" => known[h] = 0
    /\ \A i \in 1..known[h] : inst[i].owner = Owner(h) => ~Live(i)

Inv == Shape /\ Counted /\ TwoOnlyInOneWindow

(* A step of the installations: one more, or the same ones and none of     *)
(* them comes back to life.                                                *)
Fades ==
  /\ Len(inst') = Len(inst)
  /\ \A i \in 1..Len(inst) :
       /\ inst'[i].owner = inst[i].owner /\ inst'[i].known = inst[i].known
       /\ Live(i)' => Live(i)

(* The look finds every live installation of the owner.                    *)
LEMMA LookSeesLive ==
  ASSUME NEW h \in Handlers, Found(h) = {},
         NEW i \in DOMAIN inst, inst[i].owner = Owner(h)
  PROVE  ~Live(i)
  BY DEF Found, Shows, IsActive, IsNotDeletedState, Live, Owner

(* Nothing has been counted at the start.                                  *)
LEMMA InvInit == Init => Inv
  BY DEF Init, PRInit, ServerInit, Inv, Shape, Counted, TwoOnlyInOneWindow

(* A handler forgets what it counted, at the latest when it is done.       *)
Handles ==
  /\ pc' = [h \in Handlers |-> pc'[h]] /\ pr' = [h \in Handlers |-> pr'[h]]
  /\ setup' = setup
  /\ \A h \in Handlers :
       /\ known'[h] \in {0, known[h]}
       /\ pc'[h] = "idle" => known'[h] = 0
       /\ known'[h] # 0 => pr'[h] = pr[h]
  /\ known' \in [Handlers -> Nat]

(* A step that adds no installation and revives none keeps the invariant.  *)
LEMMA FadesKeepsInv ==
  ASSUME Inv, Handles, Fades, Shape'
  PROVE  Inv'
<1> USE DEF Inv, Handles, Fades
<1>1. \A h \in Handlers : known'[h] # 0 => Owner(h)' = Owner(h)
  BY DEF Owner, WithCloud
<1>2. \A i \in 1..Len(inst) : Live(i)' => Live(i)
  OBVIOUS
<1>3. Counted'
  <2> SUFFICES ASSUME NEW h \in Handlers
               PROVE  /\ known'[h] <= Len(inst')
                      /\ pc'[h] = "idle" \/ setup'.repo = "cws" => known'[h] = 0
                      /\ \A i \in 1..known'[h] : inst'[i].owner = Owner(h)' => ~Live(i)'
    BY DEF Counted
  <2>1. known'[h] = 0 \/ (known'[h] = known[h] /\ known[h] <= Len(inst) /\ known[h] # 0)
    BY DEF Counted, Shape
  <2>2. ASSUME NEW i \in 1..known'[h], inst'[i].owner = Owner(h)'
        PROVE  ~Live(i)'
    <3>1. known'[h] = known[h] /\ known[h] # 0 /\ known[h] \in Nat /\ Len(inst) \in Nat
      BY <2>1, <2>2 DEF Shape
    <3>2. i \in 1..Len(inst) /\ i \in 1..known[h]
      BY <2>1, <2>2, <3>1
    <3>3. inst[i].owner = Owner(h)
      BY <1>1, <2>2, <3>1, <3>2
    <3>4. QED
      BY <1>2, <3>2, <3>3 DEF Counted
  <2>3. known'[h] <= Len(inst')
    BY <2>1 DEF Shape
  <2>4. pc'[h] = "idle" \/ setup'.repo = "cws" => known'[h] = 0
    BY <2>1 DEF Counted
  <2>5. QED
    BY <2>2, <2>3, <2>4
<1>4. TwoOnlyInOneWindow'
  <2>1. DOMAIN inst = 1..Len(inst) /\ DOMAIN inst' = 1..Len(inst)
    BY DEF Shape
  <2>2. QED
    BY <1>2, <2>1 DEF TwoOnlyInOneWindow, Shape
<1>5. QED
  BY <1>3, <1>4

(* So does a step that leaves the installations alone.                     *)
LEMMA StillKeepsInv ==
  ASSUME Inv, Handles, UNCHANGED inst
  PROVE  Inv'
<1>1. Fades
  BY DEF Fades, Live
<1>2. Shape'
  <2>1. \A i \in 1..Len(inst) : Field(i)' = Field(i)
    BY DEF Field
  <2>2. QED
    BY <2>1 DEF Inv, Shape, Handles
<1>3. QED
  BY <1>1, <1>2, FadesKeepsInv

(* The ways in which a step of an action goes on or ends.                  *)
LEMMA EndsHandles ==
  ASSUME Inv, NEW h \in Handlers, Idle(h), Forgets(h), setup' = setup
  PROVE  Handles
  BY DEF Idle, Forgets, Handles, Inv, Shape, Counted

(* A handler that ends forgets what it has counted.                        *)
LEMMA FailsHandles ==
  ASSUME Inv, NEW h \in Handlers, ServerFails(h) \/ ServerEnds(h)
  PROVE  Handles
<1>1. Idle(h) /\ Forgets(h) /\ setup' = setup
  BY DEF ServerFails, ServerEnds, Fails, Ends
<1>2. QED
  BY <1>1, EndsHandles

(* A handler that goes on keeps what it has counted.                       *)
LEMMA GoesHandles ==
  ASSUME Inv, NEW h \in Handlers, NEW next, next # "idle", Goes(h, next), known' = known
  PROVE  Handles
  BY DEF Goes, Handles, Inv, Shape, Counted
-----------------------------------------------------------------------------
(* The look of a create counts all there is.                               *)
LEMMA CheckKeepsInv ==
  ASSUME Inv, NEW h \in Handlers, setup.repo # "cws", Check(h)
  PROVE  Inv'
<1>1. CASE ServerFails(h)
  BY <1>1, FailsHandles, StillKeepsInv DEF Check
<1>2. CASE /\ Found(h) = {}
           /\ Goes(h, IF setup.repo = "plugin" THEN "request" ELSE "image")
           /\ known' = [known EXCEPT ![h] = Len(inst)]
  <2> USE DEF Inv
  <2>1. inst' = inst /\ pr' = pr /\ setup' = setup
    BY <1>2 DEF Check, Goes
  <2>2. pc' = [pc EXCEPT ![h] = pc'[h]] /\ pc'[h] # "idle"
    BY <1>2 DEF Goes, Shape
  <2>3. \A i \in 1..Len(inst) : Field(i)' = Field(i)
    BY <2>1 DEF Field
  <2>4. Shape'
    BY <1>2, <2>1, <2>2, <2>3 DEF Shape
  <2>5. \A i \in 1..Len(inst) : inst[i].owner = Owner(h) => ~Live(i)
    <3>1. DOMAIN inst = 1..Len(inst)
      BY DEF Shape
    <3>2. QED
      BY <1>2, <3>1, LookSeesLive
  <2>6. \A g \in Handlers : Owner(g)' = Owner(g)
    BY <2>1 DEF Owner, WithCloud
  <2>7. \A i : Live(i)' = Live(i)
    BY <2>1 DEF Live
  <2>8. Counted'
    <3> SUFFICES ASSUME NEW g \in Handlers
                 PROVE  /\ known'[g] <= Len(inst')
                        /\ pc'[g] = "idle" \/ setup'.repo = "cws" => known'[g] = 0
                        /\ \A i \in 1..known'[g] : inst'[i].owner = Owner(g)' => ~Live(i)'
      BY DEF Counted
    <3>1. CASE g = h
      BY <1>2, <2>1, <2>2, <2>5, <2>6, <2>7, <3>1 DEF Shape
    <3>2. CASE g # h
      <4>1. known'[g] = known[g] /\ pc'[g] = pc[g]
        BY <1>2, <2>2, <3>2 DEF Shape
      <4>2. QED
        BY <2>1, <2>6, <2>7, <4>1 DEF Counted
    <3>3. QED
      BY <3>1, <3>2
  <2>9. TwoOnlyInOneWindow'
    BY <2>1, <2>7 DEF TwoOnlyInOneWindow
  <2>10. QED
    BY <2>4, <2>8, <2>9
<1>3. QED
  BY <1>1, <1>2 DEF Check

(* The new installation is the only one of its owner that is live, but for *)
(* those that its handler has not counted.                                 *)
LEMMA RequestKeepsInv ==
  ASSUME Inv, NEW h \in Handlers, Request(h)
  PROVE  Inv'
<1> USE DEF Inv
<1>1. Handles
  <2>1. CASE ServerFails(h)
    BY <2>1, FailsHandles
  <2>2. CASE Goes(h, "wait") /\ UNCHANGED known
    BY <2>2, GoesHandles
  <2>3. QED
    BY <2>1, <2>2 DEF Request
<1>n. PICK n \in Nat : n = Len(inst) + 1
  BY DEF Shape
<1>2. PICK v : inst' = Append(inst, [state |-> "creating", owner |-> Owner(h), known |-> known[h], ver |-> v])
  BY DEF Request, Created
<1>3. /\ Len(inst') = n /\ n \in Nat
      /\ inst' = [i \in 1..n |-> IF i = n THEN [state |-> "creating", owner |-> Owner(h), known |-> known[h], ver |-> v] ELSE inst[i]]
  BY <1>2, <1>n DEF Shape
<1>4. \A i \in 1..Len(inst) : i \in 1..n /\ inst'[i] = inst[i] /\ Live(i)' = Live(i)
  BY <1>3, <1>n DEF Live, Shape
<1>5. /\ n \in 1..n /\ inst'[n].owner = Owner(h) /\ inst'[n].known = known[h]
      /\ inst'[n] = Field(n)' /\ known[h] \in Nat
  <2>1. n \in 1..n /\ known[h] \in Nat
    BY <1>n DEF Shape
  <2>2. inst'[n] = [state |-> "creating", owner |-> Owner(h), known |-> known[h], ver |-> v]
    BY <1>3, <2>1
  <2>3. inst'[n].state = "creating" /\ inst'[n].owner = Owner(h) /\ inst'[n].known = known[h] /\ inst'[n].ver = v
    BY <2>2
  <2>4. QED
    BY <2>1, <2>2, <2>3 DEF Field
<1>6. Shape'
  <2>1. \A i \in 1..Len(inst) : Field(i)' = Field(i)
    BY <1>4 DEF Field
  <2>2. ASSUME NEW i \in 1..n PROVE inst'[i] = Field(i)' /\ inst'[i].known \in Nat
    <3>1. CASE i = n
      BY <1>5, <3>1
    <3>2. CASE i # n
      <4>1. i \in 1..Len(inst)
        BY <1>n, <3>2 DEF Shape
      <4>2. inst'[i] = inst[i] /\ inst[i] = Field(i) /\ inst[i].known \in Nat
        BY <1>4, <4>1 DEF Shape
      <4>3. QED
        BY <2>1, <4>1, <4>2
    <3>3. QED
      BY <3>1, <3>2
  <2>3. QED
    BY <1>1, <1>3, <2>2 DEF Shape, Handles
<1>7. \A g \in Handlers : known'[g] # 0 => Owner(g)' = Owner(g)
  BY <1>1 DEF Handles, Owner, WithCloud
<1>8. Counted'
  <2> SUFFICES ASSUME NEW g \in Handlers
               PROVE  /\ known'[g] <= Len(inst')
                      /\ pc'[g] = "idle" \/ setup'.repo = "cws" => known'[g] = 0
                      /\ \A i \in 1..known'[g] : inst'[i].owner = Owner(g)' => ~Live(i)'
    BY DEF Counted
  <2>1. known'[g] = 0 \/ (known'[g] = known[g] /\ known[g] <= Len(inst) /\ known[g] # 0)
    BY <1>1 DEF Counted, Shape, Handles
  <2>2. ASSUME NEW i \in 1..known'[g], inst'[i].owner = Owner(g)' PROVE ~Live(i)'
    <3>1. known'[g] = known[g] /\ known[g] # 0 /\ known[g] \in Nat /\ Len(inst) \in Nat
      BY <2>1, <2>2 DEF Shape
    <3>2. i \in 1..Len(inst) /\ i \in 1..known[g]
      BY <2>1, <2>2, <3>1
    <3>3. QED
      BY <1>4, <1>7, <2>2, <3>1, <3>2 DEF Counted
  <2>3. known'[g] <= Len(inst')
    BY <2>1, <1>3, <1>n DEF Shape
  <2>4. QED
    BY <1>1, <2>1, <2>2, <2>3 DEF Handles, Counted
<1>9. TwoOnlyInOneWindow'
  <2> SUFFICES ASSUME NEW i \in 1..n, NEW j \in 1..n, i < j,
                      inst'[i].owner = inst'[j].owner, Live(i)', Live(j)'
               PROVE  i > inst'[j].known
    BY <1>3 DEF TwoOnlyInOneWindow
  <2>1. i \in 1..Len(inst)
    BY <1>n DEF Shape
  <2>2. CASE j = n
    <3>1. Live(i) /\ inst[i].owner = Owner(h)
      BY <1>4, <1>5, <2>1, <2>2
    <3>2. i \notin 1..known[h]
      BY <3>1 DEF Counted
    <3>3. QED
      BY <1>5, <2>1, <2>2, <3>2 DEF Shape
  <2>3. CASE j # n
    <3>1. j \in 1..Len(inst) /\ DOMAIN inst = 1..Len(inst)
      BY <2>3, <1>n DEF Shape
    <3>2. QED
      BY <1>4, <2>1, <3>1 DEF TwoOnlyInOneWindow
  <2>4. QED
    BY <2>2, <2>3
<1>10. QED
  BY <1>6, <1>8, <1>9
(* A write of installation i, or of none when there is no i: its owner     *)
(* stays, and what its creator had counted.                                *)
Writes(i, s) ==
  /\ inst' = [j \in 1..Len(inst) |-> inst'[j]]
  /\ \A j \in 1..Len(inst) : j # i => inst'[j] = inst[j]
  /\ i \in 1..Len(inst) => /\ inst'[i] = Field(i)'
                           /\ inst'[i].state = s
                           /\ inst'[i].owner = inst[i].owner
                           /\ inst'[i].known = inst[i].known

(* A write of one installation that does not revive it keeps the invariant.*)
LEMMA WriteKeepsInv ==
  ASSUME Inv, Handles, NEW i, NEW s, Writes(i, s),
         i \in 1..Len(inst) /\ s # inst[i].state =>
           (s \in {"creating", "stable", "updating", "failed"} => Live(i))
  PROVE  Inv'
<1> USE DEF Inv, Writes
<1>1. Len(inst') = Len(inst) /\ inst' = [j \in 1..Len(inst) |-> inst'[j]]
  BY DEF Shape
<1>2. ASSUME NEW j \in 1..Len(inst)
      PROVE  /\ inst'[j].owner = inst[j].owner /\ inst'[j].known = inst[j].known
             /\ Live(j)' => Live(j)
             /\ inst'[j] = Field(j)'
  <2>1. inst[j] = Field(j)
    BY DEF Shape
  <2>2. CASE j # i
    BY <2>1, <2>2 DEF Field, Live
  <2>3. CASE j = i
    <3>1. Live(j)' => Live(j)
      BY <2>3 DEF Live
    <3>2. QED
      BY <2>3, <3>1
  <2>4. QED
    BY <2>2, <2>3
<1>3. Fades
  BY <1>1, <1>2 DEF Fades
<1>4. Shape'
  BY <1>1, <1>2 DEF Shape, Handles
<1>5. QED
  BY <1>3, <1>4, FadesKeepsInv

(* The ways in which the actions write one installation.                   *)
LEMMA WriteOne ==
  ASSUME Shape, NEW i, NEW s, NEW v,
         inst' = [inst EXCEPT ![i] = [state |-> s, owner |-> inst[i].owner, known |-> inst[i].known, ver |-> v]]
  PROVE  Writes(i, s)
<1>1. inst' = [j \in 1..Len(inst) |-> inst'[j]] /\ \A j \in 1..Len(inst) : j # i => inst'[j] = inst[j]
  BY DEF Shape
<1>2. ASSUME i \in 1..Len(inst)
      PROVE  inst'[i] = [state |-> s, owner |-> inst[i].owner, known |-> inst[i].known, ver |-> v]
  BY <1>2 DEF Shape
<1>3. ASSUME i \in 1..Len(inst)
      PROVE  /\ inst'[i].state = s /\ inst'[i].owner = inst[i].owner
             /\ inst'[i].known = inst[i].known /\ inst'[i].ver = v
  BY <1>2, <1>3
<1>4. ASSUME i \in 1..Len(inst)
      PROVE  inst'[i] = Field(i)'
  BY <1>2, <1>3, <1>4 DEF Field
<1>5. QED
  BY <1>1, <1>3, <1>4 DEF Writes

(* ... its state,                                                          *)
LEMMA WriteState ==
  ASSUME Shape, NEW i, NEW s, inst' = [inst EXCEPT ![i].state = s]
  PROVE  Writes(i, s)
<1>1. CASE i \in 1..Len(inst)
  <2>1. inst[i] = Field(i)
    BY <1>1 DEF Shape
  <2>2. [inst[i] EXCEPT !.state = s] = [state |-> s, owner |-> inst[i].owner, known |-> inst[i].known, ver |-> inst[i].ver]
    BY <2>1 DEF Field
  <2>3. inst' = [inst EXCEPT ![i] = [state |-> s, owner |-> inst[i].owner, known |-> inst[i].known, ver |-> inst[i].ver]]
    BY <2>2
  <2>4. QED
    BY <2>3, WriteOne
<1>2. CASE i \notin 1..Len(inst)
  BY <1>2 DEF Shape, Writes
<1>3. QED
  BY <1>1, <1>2

(* ... its version,                                                        *)
LEMMA WriteVersion ==
  ASSUME Shape, NEW i, NEW v, inst' = [inst EXCEPT ![i].ver = v]
  PROVE  Writes(i, inst[i].state)
<1>1. CASE i \in 1..Len(inst)
  <2>1. inst[i] = Field(i)
    BY <1>1 DEF Shape
  <2>2. [inst[i] EXCEPT !.ver = v] = [state |-> inst[i].state, owner |-> inst[i].owner, known |-> inst[i].known, ver |-> v]
    BY <2>1 DEF Field
  <2>3. inst' = [inst EXCEPT ![i] = [state |-> inst[i].state, owner |-> inst[i].owner, known |-> inst[i].known, ver |-> v]]
    BY <2>2
  <2>4. QED
    BY <2>3, WriteOne
<1>2. CASE i \notin 1..Len(inst)
  BY <1>2 DEF Shape, Writes
<1>3. QED
  BY <1>1, <1>2

(* ... or both.                                                            *)
LEMMA WriteBoth ==
  ASSUME Shape, NEW i, NEW s, NEW v, inst' = [inst EXCEPT ![i].state = s, ![i].ver = v]
  PROVE  Writes(i, s)
<1>1. CASE i \in 1..Len(inst)
  <2>1. inst[i] = Field(i)
    BY <1>1 DEF Shape
  <2>2. \A j \in 1..Len(inst) : j # i => inst'[j] = inst[j]
    BY DEF Shape
  <2>3. inst' = [j \in 1..Len(inst) |-> inst'[j]]
    BY DEF Shape
  <2>4. DOMAIN inst'[i] = DOMAIN inst[i] /\ inst'[i].state = s /\ inst'[i].ver = v
        /\ inst'[i].owner = inst[i].owner /\ inst'[i].known = inst[i].known
    BY <1>1, <2>1 DEF Shape, Field
  <2>5. inst'[i] = Field(i)'
    BY <1>1, <2>1, <2>4 DEF Shape, Field
  <2>6. QED
    BY <2>2, <2>3, <2>4, <2>5 DEF Writes
<1>2. CASE i \notin 1..Len(inst)
  BY <1>2 DEF Shape, Writes
<1>3. QED
  BY <1>1, <1>2
-----------------------------------------------------------------------------
(* The actions of a handler that write an installation.                    *)
LEMMA DeleteKeepsInv ==
  ASSUME Inv, NEW h \in Handlers, Delete(h)
  PROVE  Inv'
<1>1. Handles
  <2>1. CASE WithCloud(h)
    BY <2>1 DEF Delete, Handles, Inv, Shape, Counted
  <2>2. CASE ~WithCloud(h)
    BY <2>2, EndsHandles DEF Delete
  <2>3. QED
    BY <2>1, <2>2
<1>2. PICK i : inst' = [inst EXCEPT ![i].state = IF Live(i) THEN "pending" ELSE inst[i].state]
  BY DEF Delete
<1>3. Writes(i, IF Live(i) THEN "pending" ELSE inst[i].state)
  BY <1>2, WriteState DEF Inv
<1>4. CASE Live(i)
  BY <1>1, <1>3, <1>4, WriteKeepsInv
<1>5. CASE ~Live(i)
  BY <1>1, <1>3, <1>5, WriteKeepsInv
<1>6. QED
  BY <1>4, <1>5

(* ... the patch of an update,                                             *)
LEMMA PatchKeepsInv ==
  ASSUME Inv, NEW h \in Handlers, Patch(h)
  PROVE  Inv'
<1>1. Handles
  BY GoesHandles DEF Patch
<1>2. PICK i : \E v : inst' = [inst EXCEPT ![i].state = "updating", ![i].ver = v] /\ Live(i)
  BY DEF Patch, Live
<1>3. Writes(i, "updating") /\ Live(i)
  BY <1>2, WriteBoth DEF Inv
<1>4. QED
  BY <1>1, <1>3, WriteKeepsInv

(* ... and the plugin's installation.                                      *)
LEMMA InstallKeepsInv ==
  ASSUME Inv, NEW h \in Handlers, InstallPlugin(h)
  PROVE  Inv'
<1>1. Handles
  BY EndsHandles DEF InstallPlugin
<1>2. CASE UNCHANGED inst
  BY <1>1, <1>2, StillKeepsInv
<1>3. CASE \E i, v : inst' = [inst EXCEPT ![i].ver = v]
  <2>1. PICK i : \E v : inst' = [inst EXCEPT ![i].ver = v]
    BY <1>3
  <2>2. Writes(i, inst[i].state)
    BY <2>1, WriteVersion DEF Inv
  <2>3. QED
    BY <1>1, <2>2, WriteKeepsInv
<1>4. QED
  BY <1>2, <1>3 DEF InstallPlugin

(* The provisioner revives nothing that is dead.                           *)
LEMMA ProvisionerKeepsInv ==
  ASSUME Inv, Provisioner
  PROVE  Inv'
<1>1. Handles
  BY DEF Provisioner, Handles, prVars, handler, Inv, Shape, Counted
<1>2. PICK i \in DOMAIN inst : \E s \in Follows(inst[i].state) : inst' = [inst EXCEPT ![i].state = s]
  BY DEF Provisioner
<1>3. PICK s \in Follows(inst[i].state) : inst' = [inst EXCEPT ![i].state = s]
  BY <1>2
<1>4. s \in {"creating", "stable", "updating", "failed"} => Live(i)
  BY DEF Follows, Live
<1>5. Writes(i, s)
  BY <1>3, WriteState DEF Inv
<1>6. QED
  BY <1>1, <1>4, <1>5, WriteKeepsInv

(* The steps that write no installation.                                   *)
LEMMA OtherKeepsInv ==
  ASSUME Inv, NEW h \in Handlers,
         \/ SignUp(h) \/ Login(h) \/ NoCustomer(h) \/ SessionFails(h) \/ Begins(h)
         \/ Image(h) \/ RequestFails(h) \/ Waited(h) \/ WaitFails(h) \/ Initialise(h) \/ PluginFails(h)
         \/ Find(h) \/ FindsNothing(h) \/ FindFails(h) \/ FinalCheck(h) \/ PatchFails(h) \/ DeleteFails(h)
  PROVE  Inv'
<1>1. UNCHANGED inst
  BY DEF SignUp, Login, NoCustomer, SessionFails, Begins, Image, RequestFails, Waited, WaitFails,
         Initialise, PluginFails, Find, FindsNothing, FindFails, FinalCheck, PatchFails, DeleteFails, serverVars
<1>2. CASE ServerFails(h) \/ ServerEnds(h)
  BY <1>1, <1>2, FailsHandles, StillKeepsInv
<1>3. CASE Idle(h) /\ Forgets(h) /\ setup' = setup
  BY <1>1, <1>3, EndsHandles, StillKeepsInv
<1>4. CASE \E next : next # "idle" /\ Goes(h, next) /\ known' = known
  BY <1>1, <1>4, GoesHandles, StillKeepsInv
<1>5. CASE SignUp(h) \/ Login(h) \/ NoCustomer(h) \/ SessionFails(h) \/ Begins(h)
  BY <1>2, <1>3, <1>4, <1>5 DEF SignUp, Login, NoCustomer, SessionFails, Begins, serverVars
<1>6. CASE Image(h) \/ RequestFails(h) \/ WaitFails(h) \/ Initialise(h) \/ PluginFails(h)
  BY <1>2, <1>3, <1>4, <1>6 DEF Image, RequestFails, WaitFails, Initialise, PluginFails
<1>7. CASE Waited(h)
  BY <1>2, <1>4, <1>7 DEF Waited
<1>8. CASE Find(h)
  BY <1>4, <1>8 DEF Find
<1>9. CASE FindsNothing(h) \/ FindFails(h) \/ FinalCheck(h) \/ PatchFails(h) \/ DeleteFails(h)
  BY <1>2, <1>3, <1>4, <1>9 DEF FindsNothing, FindFails, FinalCheck, PatchFails, DeleteFails
<1>10. QED
  BY <1>5, <1>6, <1>7, <1>8, <1>9

(* Every action of a handler on an installation.                           *)
LEMMA ServerKeepsInv ==
  ASSUME Inv, NEW h \in Handlers, setup.repo # "cws", ServerStep(h)
  PROVE  Inv'
  BY CheckKeepsInv, RequestKeepsInv, InstallKeepsInv, PatchKeepsInv, DeleteKeepsInv, OtherKeepsInv DEF ServerStep

(* An idle handler has counted nothing when it gets an event.              *)
LEMMA EventKeepsInv ==
  ASSUME Inv, People \/ DropEvent \/ (\E h \in Handlers : HandlePullRequestEvent(h)), UNCHANGED serverVars
  PROVE  Inv'
<1>1. CASE People \/ DropEvent
  <2>1. UNCHANGED <<setup, handler>>
    BY <1>1 DEF People, DropEvent, AddLabel, RemoveLabel, Push, SlashUpdate, CloseOrReopen
  <2>2. Handles
    BY <2>1 DEF Handles, handler, serverVars, Inv, Shape, Counted
  <2>3. QED
    BY <2>2, StillKeepsInv DEF serverVars
<1>2. CASE \E h \in Handlers : HandlePullRequestEvent(h)
  <2>1. PICK h \in Handlers : HandlePullRequestEvent(h)
    BY <1>2
  <2>2. /\ pc' = [g \in Handlers |-> pc'[g]] /\ pr' = [g \in Handlers |-> pr'[g]]
        /\ \A g \in Handlers : g # h => pc'[g] = pc[g] /\ pr'[g] = pr[g]
    BY <2>1 DEF HandlePullRequestEvent, Inv, Shape
  <2>3. pc[h] = "idle" /\ setup' = setup /\ known' = known
    BY <2>1 DEF HandlePullRequestEvent, serverVars
  <2>4. Handles
    BY <2>2, <2>3 DEF Handles, Inv, Shape, Counted
  <2>5. QED
    BY <2>4, StillKeepsInv DEF serverVars
<1>3. QED
  BY <1>1, <1>2

(* The handlers of a CWS pull request count nothing.                       *)
LEMMA KubeKeepsInv ==
  ASSUME Inv, NEW h \in Handlers, KubeStep(h), UNCHANGED serverVars
  PROVE  Inv'
<1>1. setup.repo = "cws" /\ setup' = setup
  BY DEF KubeStep, KubeFails, GetOrCreateNamespace, KubeImage, Deploy, CreateWebhook, RegisterStripeWebhook,
         UpdateKube, NoNamespace, DeleteNamespace, DeleteWebhooks, DeleteStripeWebhook, Fails, Goes, Ends
<1>2. pc' = [g \in Handlers |-> pc'[g]] /\ pr' = [g \in Handlers |-> pr'[g]]
  BY DEF KubeStep, KubeFails, GetOrCreateNamespace, KubeImage, Deploy, CreateWebhook, RegisterStripeWebhook,
         UpdateKube, NoNamespace, DeleteNamespace, DeleteWebhooks, DeleteStripeWebhook, Fails, Goes, Ends, Idle,
         Inv, Shape
<1>3. Handles
  BY <1>1, <1>2 DEF Handles, serverVars, Inv, Shape, Counted
<1>4. QED
  BY <1>3, StillKeepsInv DEF serverVars

(* The invariant is inductive.                                             *)
LEMMA InvStep == Inv /\ [Next]_vars => Inv'
<1> SUFFICES ASSUME Inv, [Next]_vars PROVE Inv'
  OBVIOUS
<1>1. CASE UNCHANGED vars \/ (NamespaceGone /\ UNCHANGED serverVars)
  <2>1. UNCHANGED <<prVars, serverVars>>
    BY <1>1 DEF vars, NamespaceGone
  <2>2. Handles
    BY <2>1 DEF Handles, prVars, handler, serverVars, Inv, Shape, Counted
  <2>3. QED
    BY <2>1, <2>2, StillKeepsInv DEF serverVars
<1>2. CASE Next
  BY <1>1, <1>2, EventKeepsInv, ProvisionerKeepsInv, ServerKeepsInv, KubeKeepsInv DEF Next
<1>3. QED
  BY <1>1, <1>2

(* Two live installations of one owner come only from two creates of which *)
(* neither had asked for its server when the other looked for one          *)
(* (createSpinWick, createPluginSpinWick, createCloudSpinWickWithCWS).     *)
THEOREM TwoServersOneWindow == Spec => []TwoOnlyInOneWindow
<1>1. Inv => TwoOnlyInOneWindow
  BY DEF Inv
<1>2. QED
  BY <1>1, InvInit, InvStep, PTL DEF Spec
-----------------------------------------------------------------------------
(* Sequences as the sets of their entries.                                 *)
LEMMA ToSetFacts ==
  ASSUME NEW T, NEW s \in Seq(T)
  PROVE  /\ ToSet(s) \subseteq T
         /\ ToSet(s) = {} <=> s = <<>>
         /\ \A i \in 1..Len(s) : s[i] \in ToSet(s)
<1>1. DOMAIN s = 1..Len(s) /\ Len(s) \in Nat /\ \A i \in 1..Len(s) : s[i] \in T
  OBVIOUS
<1>2. ToSet(s) \subseteq T /\ \A i \in 1..Len(s) : s[i] \in ToSet(s)
  BY <1>1 DEF ToSet
<1>3. CASE s = <<>>
  BY <1>3 DEF ToSet
<1>4. CASE s # <<>>
  <2>1. 1 \in 1..Len(s)
    BY <1>4
  <2>2. QED
    BY <1>2, <1>4, <2>1
<1>5. QED
  BY <1>2, <1>3, <1>4

(* The events that wait after one more was posted.                         *)
LEMMA ToSetAppend ==
  ASSUME NEW T, NEW s \in Seq(T), NEW e \in T
  PROVE  Append(s, e) \in Seq(T) /\ ToSet(Append(s, e)) = ToSet(s) \cup {e}
<1> DEFINE q == Append(s, e)
<1>1. /\ q \in Seq(T) /\ Len(q) = Len(s) + 1 /\ Len(s) \in Nat
      /\ q[Len(s) + 1] = e /\ \A i \in 1..Len(s) : q[i] = s[i]
  OBVIOUS
<1> HIDE DEF q
<1>2. DOMAIN q = 1..(Len(s) + 1) /\ DOMAIN s = 1..Len(s)
  BY <1>1
<1>3. \A i \in 1..(Len(s) + 1) : i \in 1..Len(s) \/ i = Len(s) + 1
  BY <1>1
<1>4. 1..Len(s) \subseteq 1..(Len(s) + 1) /\ Len(s) + 1 \in 1..(Len(s) + 1)
  BY <1>1
<1>5. ToSet(q) = ToSet(s) \cup {e}
  BY <1>1, <1>2, <1>3, <1>4 DEF ToSet
<1>6. QED
  BY <1>1, <1>5 DEF q

(* ... after several were posted,                                          *)
LEMMA ToSetConcat ==
  ASSUME NEW T, NEW s \in Seq(T), NEW t \in Seq(T)
  PROVE  s \o t \in Seq(T) /\ ToSet(s \o t) = ToSet(s) \cup ToSet(t)
<1> DEFINE q == s \o t
           m == Len(s)
           n == Len(t)
<1>1. /\ q \in Seq(T) /\ Len(q) = m + n
      /\ \A i \in 1..(m + n) : q[i] = IF i <= m THEN s[i] ELSE t[i - m]
  BY ConcatProperties, Zenon
<1>2. m \in Nat /\ n \in Nat /\ DOMAIN s = 1..m /\ DOMAIN t = 1..n
  OBVIOUS
<1> HIDE DEF q, m, n
<1>3. DOMAIN q = 1..(m + n)
  BY <1>1, <1>2
<1>4. \A i \in 1..(m + n) : (i \in 1..m /\ q[i] = s[i]) \/ (i - m \in 1..n /\ q[i] = t[i - m])
  BY <1>1, <1>2
<1>5. \A i \in 1..m : i \in 1..(m + n) /\ q[i] = s[i]
  BY <1>1, <1>2
<1>6. ASSUME NEW i \in 1..n PROVE i + m \in 1..(m + n) /\ q[i + m] = t[i]
  <2>1. i + m \in 1..(m + n) /\ ~(i + m <= m) /\ (i + m) - m = i
    BY <1>2
  <2>2. q[i + m] = t[(i + m) - m]
    BY <1>1, <2>1
  <2>3. QED
    BY <2>1, <2>2
<1>7. ToSet(q) = ToSet(s) \cup ToSet(t)
  <2>1. ToSet(q) \subseteq ToSet(s) \cup ToSet(t)
    BY <1>2, <1>3, <1>4 DEF ToSet
  <2>2. ToSet(s) \subseteq ToSet(q)
    BY <1>2, <1>3, <1>5 DEF ToSet
  <2>3. ToSet(t) \subseteq ToSet(q)
    BY <1>2, <1>3, <1>6 DEF ToSet
  <2>4. QED
    BY <2>1, <2>2, <2>3
<1>8. QED
  BY <1>1, <1>7 DEF q

(* ... after one was taken out of its turn,                                *)
LEMMA ToSetRemoveAt ==
  ASSUME NEW T, NEW s \in Seq(T), NEW k \in DOMAIN s
  PROVE  /\ RemoveAt(s, k) \in Seq(T)
         /\ ToSet(RemoveAt(s, k)) \subseteq ToSet(s)
         /\ ToSet(s) \ {s[k]} \subseteq ToSet(RemoveAt(s, k))
<1> DEFINE a == SubSeq(s, 1, k - 1)
           b == SubSeq(s, k + 1, Len(s))
<1>0. k \in 1..Len(s) /\ Len(s) \in Nat /\ DOMAIN s = 1..Len(s)
  OBVIOUS
<1>1. a \in Seq(T) /\ Len(a) = k - 1 /\ \A i \in 1..(k - 1) : a[i] = s[i]
  BY <1>0
<1>2. b \in Seq(T) /\ Len(b) = Len(s) - k /\ \A i \in 1..(Len(s) - k) : b[i] = s[i + k]
  BY <1>0
<1>3. RemoveAt(s, k) = a \o b
  BY DEF RemoveAt
<1> HIDE DEF a, b
<1>4. a \o b \in Seq(T) /\ ToSet(a \o b) = ToSet(a) \cup ToSet(b)
  BY <1>1, <1>2, ToSetConcat
<1>5. DOMAIN a = 1..(k - 1) /\ DOMAIN b = 1..(Len(s) - k)
  BY <1>0, <1>1, <1>2
<1>6. ToSet(a) \subseteq ToSet(s) /\ ToSet(b) \subseteq ToSet(s)
  <2>1. \A i \in 1..(k - 1) : i \in 1..Len(s)
    BY <1>0
  <2>2. \A i \in 1..(Len(s) - k) : i + k \in 1..Len(s)
    BY <1>0
  <2>3. QED
    BY <1>0, <1>1, <1>2, <1>5, <2>1, <2>2 DEF ToSet
<1>7. ASSUME NEW i \in 1..Len(s), i # k PROVE s[i] \in ToSet(a) \cup ToSet(b)
  <2>1. CASE i < k
    <3>1. i \in 1..(k - 1)
      BY <1>0, <2>1
    <3>2. QED
      BY <1>1, <1>5, <3>1 DEF ToSet
  <2>2. CASE i > k
    <3>1. i - k \in 1..(Len(s) - k) /\ (i - k) + k = i
      BY <1>0, <2>2
    <3>2. b[i - k] = s[i]
      BY <1>2, <3>1
    <3>3. QED
      BY <1>5, <3>1, <3>2 DEF ToSet
  <2>3. QED
    BY <1>0, <1>7, <2>1, <2>2
<1>8. ToSet(s) \ {s[k]} \subseteq ToSet(a) \cup ToSet(b)
  BY <1>0, <1>7 DEF ToSet
<1>9. QED
  BY <1>3, <1>4, <1>6, <1>8

(* ... or in its turn,                                                     *)
LEMMA ToSetTail ==
  ASSUME NEW T, NEW s \in Seq(T), s # <<>>
  PROVE  Tail(s) \in Seq(T) /\ ToSet(Tail(s)) \subseteq ToSet(s)
<1>1. Tail(s) \in Seq(T) /\ Len(Tail(s)) = Len(s) - 1 /\ Len(s) \in Nat
      /\ \A i \in 1..(Len(s) - 1) : Tail(s)[i] = s[i + 1]
  OBVIOUS
<1>2. DOMAIN Tail(s) = 1..(Len(s) - 1) /\ DOMAIN s = 1..Len(s)
  BY <1>1
<1>3. \A i \in 1..(Len(s) - 1) : i + 1 \in 1..Len(s)
  BY <1>1
<1>4. QED
  BY <1>1, <1>2, <1>3 DEF ToSet

(* ... and those of a set put in any order.                                *)
LEMMA ToSetOfSet ==
  ASSUME NEW S, IsFiniteSet(S)
  PROVE  SetToSeq(S) \in Seq(S) /\ ToSet(SetToSeq(S)) = S
<1> DEFINE n == Cardinality(S)
           f == SetToSeq(S)
<1>1. n \in Nat /\ ExistsBijection(1..n, S)
  BY FS_CardinalityType
<1>2. \E g \in [1..n -> S] : IsInjective(g)
  BY <1>1 DEF ExistsBijection, Bijection, Injection
<1>3. f \in [1..n -> S] /\ IsInjective(f)
  BY <1>2 DEF SetToSeq
<1> HIDE DEF f
<1>4. f \in Injection(1..n, S)
  BY <1>3 DEF Injection
<1>5. f \in Surjection(1..n, S)
  <2>1. Cardinality(1..n) = n
    BY <1>1, FS_Interval
  <2>2. Cardinality(1..n) = Cardinality(S)
    BY <2>1
  <2>3. QED
    BY <1>4, <2>2, FS_Injection
<1>6. f \in Seq(S)
  BY <1>1, <1>3
<1>7. ToSet(f) = S
  <2>1. \A x \in S : \E i \in 1..n : f[i] = x
    BY <1>5 DEF Surjection
  <2>2. DOMAIN f = 1..n /\ \A i \in 1..n : f[i] \in S
    BY <1>3
  <2>3. QED
    BY <2>1, <2>2 DEF ToSet
<1>8. QED
  BY <1>6, <1>7 DEF f
-----------------------------------------------------------------------------
(* What the variables are: events tell of the pull request as it was, a    *)
(* handler is at a stage of its operation and knows labels and a commit    *)
(* the pull request has had.                                               *)
AllEvents ==
  [action : {"labeled", "unlabeled", "synchronize", "update", "closed"},
   label : AllLabels \cup {"none"}, sha : Nat, open : BOOLEAN]

Tells(e) ==
  /\ e.sha <= head
  /\ closed \/ e.open
  /\ e.label \in setup.labels \cup {"none"}
  /\ e.action \in {"labeled", "unlabeled"} => e.label # "none"

Hub ==
  /\ setup \in Setups /\ labels \subseteq setup.labels
  /\ open \in BOOLEAN /\ closed \in BOOLEAN /\ (closed \/ open)
  /\ head \in Nat
  /\ mishaps \subseteq Mishaps
  /\ net \in Seq(AllEvents) /\ \A e \in ToSet(net) : Tells(e)

Stages(o) ==
  CASE o = "create" -> {"start", "check", "image", "request", "wait", "init", "plugin",
                        "deploy", "webhook", "stripe"}
    [] o = "update" -> {"start", "find", "image", "recheck", "patch", "wait", "plugin", "deploy"}
    [] o = "destroy" -> {"start", "find", "delete", "wait", "hooks", "unstripe"}
    [] OTHER -> {}

Knows(h) ==
  /\ pr[h].labels \subseteq setup.labels
  /\ pr[h].label \in setup.labels \cup {"none"}
  /\ pr[h].label = "none" => pr[h].labels # {}
  /\ pr[h].sha \in Nat /\ pr[h].sha <= head

Seat(h) ==
  \/ pc[h] = "idle" /\ op[h] = "none"
  \/ op[h] \in {"create", "update", "destroy"} /\ pc[h] \in Stages(op[h]) /\ Knows(h)

Seated ==
  /\ pc = [h \in Handlers |-> pc[h]]
  /\ op = [h \in Handlers |-> op[h]]
  /\ pr = [h \in Handlers |-> pr[h]]
  /\ \A h \in Handlers : Seat(h)

Sits == Hub /\ Seated

(* Only a handler that acts has a stage.                                   *)
LEMMA StageFacts ==
  /\ \A o : "idle" \notin Stages(o)
  /\ \A o, s : s \in Stages(o) => o \in {"create", "update", "destroy"}
BY DEF Stages

(* The labels of a setup are labels.                                       *)
LEMMA SetupFacts == Hub => setup.labels \subseteq AllLabels /\ "none" \notin setup.labels
<1> SUFFICES ASSUME Hub PROVE setup.labels \subseteq AllLabels /\ "none" \notin setup.labels
  OBVIOUS
<1>1. setup \in Setups
  BY DEF Hub
<1>2. setup.labels \subseteq AllLabels
  BY <1>1, SetupsAssumption
<1>3. "none" \notin AllLabels
  BY DEF AllLabels
<1>4. QED
  BY <1>2, <1>3

(* Nobody acts at the start, and nothing is posted.                        *)
LEMMA SitsInit == Init => Sits
<1> SUFFICES ASSUME Init PROVE Sits
  OBVIOUS
<1>1. ToSet(<<>>) = {} /\ <<>> \in Seq(AllEvents)
  BY DEF ToSet
<1>2. Hub
  BY <1>1 DEF Init, PRInit, Hub
<1>3. Seated
  BY DEF Init, PRInit, Seated, Seat
<1>4. QED
  BY <1>2, <1>3 DEF Sits

(* The event that tells of a label that has been taken off.                *)
Off(l) == Event("unlabeled", l, head, open)

(* What people and handlers post is an event.                              *)
LEMMA EventFacts ==
  ASSUME Hub, NEW a \in {"labeled", "unlabeled", "synchronize", "update", "closed"},
         NEW l \in setup.labels \cup {"none"}, NEW n \in Nat, NEW o \in BOOLEAN
  PROVE  /\ Event(a, l, n, o) \in AllEvents
         /\ Event(a, l, n, o).action = a /\ Event(a, l, n, o).label = l
         /\ Event(a, l, n, o).sha = n /\ Event(a, l, n, o).open = o
BY SetupFacts DEF Event, AllEvents

(* A create that fails takes off the labels it saw: those still on, or all *)
(* of them but some that are recorded.                                     *)
LEMMA FailsFacts ==
  ASSUME Hub, NEW h \in Handlers, Fails(h)
  PROVE  /\ mishaps \subseteq mishaps' /\ mishaps' \subseteq Mishaps
         /\ UNCHANGED <<setup, open, head, closed>> /\ Idle(h)
         /\ op[h] # "create" => UNCHANGED <<labels, net>>
         /\ op[h] = "update" => "stale" \in mishaps'
         /\ op[h] = "destroy" => "leak" \in mishaps'
         /\ op[h] = "create" =>
              /\ labels' \subseteq labels /\ labels \ labels' \subseteq pr[h].labels
              /\ net' \in Seq(AllEvents)
              /\ ToSet(net') = ToSet(net) \cup {Off(l) : l \in labels \ labels'}
              /\ "kept" \in mishaps' \/ labels' \cap pr[h].labels = {}
<1>1. mishaps \subseteq mishaps' /\ mishaps' \subseteq Mishaps
  BY DEF Fails, Mishaps, Hub
<1>2. UNCHANGED <<setup, open, head, closed>> /\ Idle(h)
  BY DEF Fails
<1>3. CASE op[h] # "create"
  BY <1>1, <1>2, <1>3 DEF Fails
<1>4. CASE op[h] = "create"
  <2>1. PICK kept \in SUBSET (labels \cap pr[h].labels) :
          LET off == (labels \cap pr[h].labels) \ kept
          IN  /\ labels' = labels \ off
              /\ net' = net \o SetToSeq({Event("unlabeled", l, head, open) : l \in off})
              /\ mishaps' = mishaps \cup {m \in {"kept"} : kept # {}}
    BY <1>4 DEF Fails
  <2> DEFINE off == (labels \cap pr[h].labels) \ kept
             S == {Event("unlabeled", l, head, open) : l \in off}
  <2>2. labels' = labels \ off /\ labels \ labels' = off /\ net' = net \o SetToSeq(S)
    BY <2>1
  <2>3. S \subseteq AllEvents
    BY EventFacts DEF Hub
  <2>4. IsFiniteSet(S)
    <3>1. IsFiniteSet(AllLabels)
      <4>1. IsFiniteSet({"SpinWick"})
        BY FS_Singleton
      <4>2. IsFiniteSet({"SpinWick"} \cup {"SpinWickHA"})
        BY <4>1, FS_AddElement
      <4>3. IsFiniteSet(({"SpinWick"} \cup {"SpinWickHA"}) \cup {"SpinWickWithCWS"})
        BY <4>2, FS_AddElement
      <4>4. AllLabels = ({"SpinWick"} \cup {"SpinWickHA"}) \cup {"SpinWickWithCWS"}
        BY DEF AllLabels
      <4>5. QED
        BY <4>3, <4>4
    <3>2. IsFiniteSet(off)
      <4>1. off \subseteq AllLabels
        BY SetupFacts DEF Hub
      <4>2. QED
        BY <3>1, <4>1, FS_Subset
    <3> DEFINE f == [l \in off |-> Event("unlabeled", l, head, open)]
    <3>3. f \in Surjection(off, S)
      BY DEF Surjection
    <3> HIDE DEF f, S, off
    <3>4. QED
      BY <3>2, <3>3, FS_Surjection
  <2>5. SetToSeq(S) \in Seq(AllEvents) /\ ToSet(SetToSeq(S)) = S
    <3> HIDE DEF S
    <3>1. SetToSeq(S) \in Seq(S) /\ ToSet(SetToSeq(S)) = S
      BY <2>4, ToSetOfSet
    <3>2. SetToSeq(S) \in Seq(AllEvents)
      BY <2>3, <3>1
    <3>3. QED
      BY <3>1, <3>2
  <2>6. net' \in Seq(AllEvents) /\ ToSet(net') = ToSet(net) \cup S
    <3> HIDE DEF S
    <3>1. net \in Seq(AllEvents)
      BY DEF Hub
    <3>2. QED
      BY <2>2, <2>5, <3>1, ToSetConcat
  <2>7. S = {Off(l) : l \in labels \ labels'}
    BY <2>2 DEF Off
  <2>8. "kept" \in mishaps' \/ labels' \cap pr[h].labels = {}
    BY <2>1
  <2>9. QED
    BY <1>1, <1>2, <1>4, <2>2, <2>6, <2>7, <2>8
<1>5. QED
  BY <1>3, <1>4

(* A handler stops without touching the pull request.                      *)
Rests(h) == Idle(h) /\ UNCHANGED <<setup, github>>

(* What an action of a handler may do to the pull request and to itself.   *)
Acting(h) ==
  /\ pc[h] # "idle"
  /\ mishaps \subseteq mishaps' /\ mishaps' \subseteq Mishaps
  /\ Fails(h) \/ Rests(h) \/ \E next \in Stages(op[h]) : Goes(h, next)

(* A handler keeps its seat while others act.                              *)
LEMMA OtherSeats ==
  ASSUME Sits, NEW g \in Handlers, pc'[g] = pc[g], op'[g] = op[g], pr'[g] = pr[g],
         setup' = setup, head' \in Nat, head' >= head
  PROVE  Seat(g)'
<1>1. Seat(g) /\ head \in Nat
  BY DEF Sits, Seated, Hub
<1>2. Knows(g) => Knows(g)'
  BY <1>1 DEF Knows
<1>3. QED
  BY <1>1, <1>2 DEF Seat

(* An action of a handler keeps every seat.                                *)
LEMMA ActingSits ==
  ASSUME Sits, NEW h \in Handlers, Acting(h)
  PROVE  Sits'
<1> USE DEF Sits
<1>1. setup' = setup /\ head' = head /\ open' = open /\ closed' = closed /\ head \in Nat
  BY FailsFacts DEF Acting, Rests, Goes, github, Fails, Hub
<1>2. Seated'
  <2>1. /\ pc' = [g \in Handlers |-> pc'[g]] /\ op' = [g \in Handlers |-> op'[g]]
        /\ pr' = [g \in Handlers |-> pr'[g]]
        /\ \A g \in Handlers \ {h} : pc'[g] = pc[g] /\ op'[g] = op[g] /\ pr'[g] = pr[g]
    BY DEF Acting, Fails, Rests, Goes, Idle, Seated
  <2>2. Seat(h)'
    <3>1. CASE Idle(h)
      BY <3>1 DEF Idle, Seated, Seat
    <3>2. CASE \E next \in Stages(op[h]) : Goes(h, next)
      <4>1. PICK next \in Stages(op[h]) : Goes(h, next)
        BY <3>2
      <4>2. pc'[h] = next /\ op'[h] = op[h] /\ pr'[h] = pr[h]
        BY <4>1 DEF Goes, Seated
      <4>3. Knows(h) /\ op[h] \in {"create", "update", "destroy"}
        BY DEF Acting, Seated, Seat
      <4>4. Knows(h)'
        BY <1>1, <4>2, <4>3 DEF Knows
      <4>5. QED
        BY <4>2, <4>3, <4>4 DEF Seat
    <3>3. QED
      BY <3>1, <3>2 DEF Acting, Fails, Rests
  <2>3. \A g \in Handlers \ {h} : Seat(g)'
    BY <1>1, <2>1, OtherSeats
  <2>4. QED
    BY <2>1, <2>2, <2>3 DEF Seated
<1>3. Hub'
  <2>1. CASE labels' = labels /\ net' = net
    <3>1. \A e \in ToSet(net) : Tells(e)'
      BY <1>1, <2>1 DEF Hub, Tells
    <3>2. QED
      BY <1>1, <2>1, <3>1 DEF Hub, Acting
  <2>2. CASE Fails(h) /\ op[h] = "create"
    <3>1. /\ labels' \subseteq labels
          /\ net' \in Seq(AllEvents)
          /\ ToSet(net') = ToSet(net) \cup {Off(l) : l \in labels \ labels'}
      BY <2>2, FailsFacts
    <3>2. \A e \in ToSet(net) : Tells(e)'
      BY <1>1 DEF Hub, Tells
    <3>3. ASSUME NEW l \in labels \ labels' PROVE Tells(Off(l))'
      <4>1. /\ l \in setup.labels /\ l # "none" /\ open \in BOOLEAN /\ head \in Nat
            /\ closed \/ open
        BY SetupFacts DEF Hub
      <4>2. /\ Off(l).action = "unlabeled" /\ Off(l).label = l /\ Off(l).sha = head
            /\ Off(l).open = open
        BY <4>1, EventFacts DEF Off
      <4>3. Off(l)' = Off(l)
        BY <1>1 DEF Off, Event
      <4>4. QED
        BY <1>1, <4>1, <4>2, <4>3 DEF Tells
    <3>4. \A e \in ToSet(net)' : Tells(e)'
      <4>1. \A l : Off(l)' = Off(l)
        BY <1>1 DEF Off, Event
      <4>2. QED
        BY <3>1, <3>2, <3>3, <4>1 DEF Tells
    <3>5. QED
      BY <1>1, <3>1, <3>4 DEF Hub, Acting
  <2>3. QED
    BY <2>1, <2>2, FailsFacts DEF Acting, Rests, Goes, github, Hub
<1>4. QED
  BY <1>2, <1>3
(* Every action of a handler is such a step.                               *)
LEMMA ServerActing ==
  ASSUME Sits, NEW h \in Handlers, ServerStep(h)
  PROVE  Acting(h)
<1> USE DEF Sits
<1>1. Seat(h) /\ mishaps \subseteq Mishaps
  BY DEF Seated, Hub
<1>2. ASSUME pc[h] # "idle", ServerFails(h) PROVE Acting(h)
  BY <1>2, FailsFacts DEF Acting, ServerFails
<1>3. ASSUME pc[h] # "idle", ServerEnds(h) PROVE Acting(h)
  BY <1>1, <1>3 DEF Acting, ServerEnds, Ends, Rests
<1>4. ASSUME pc[h] # "idle", NEW next \in Stages(op[h]), Goes(h, next), UNCHANGED mishaps
      PROVE  Acting(h)
  BY <1>1, <1>4 DEF Acting
<1>5. CASE SignUp(h) \/ Login(h) \/ SessionFails(h) \/ Begins(h)
  <2>1. pc[h] = "start" /\ "check" \in Stages("create") /\ "find" \in Stages("update")
        /\ "find" \in Stages("destroy")
    BY <1>5 DEF SignUp, Login, SessionFails, Begins, Stages
  <2>2. op[h] = "create" \/ op[h] = "update" \/ op[h] = "destroy"
    BY <1>1, <2>1 DEF Seat
  <2>3. QED
    BY <1>2, <1>4, <1>5, <2>1, <2>2 DEF SignUp, Login, SessionFails, Begins
<1>6. CASE NoCustomer(h) \/ FindsNothing(h) \/ InstallPlugin(h)
  <2>1. pc[h] # "idle" /\ Rests(h)
    BY <1>6 DEF NoCustomer, FindsNothing, InstallPlugin, Rests
  <2>2. mishaps \subseteq mishaps' /\ mishaps' \subseteq Mishaps
    BY <1>1, <1>6 DEF NoCustomer, FindsNothing, InstallPlugin, Mishaps, Stale
  <2>3. QED
    BY <2>1, <2>2 DEF Acting
<1>7. CASE Check(h) \/ Image(h)
  <2>1. pc[h] \in {"check", "image"}
    BY <1>7 DEF Check, Image
  <2>2. op[h] = "create" \/ (op[h] = "update" /\ pc[h] = "image")
    BY <1>1, <2>1 DEF Seat, Stages
  <2>3. /\ "image" \in Stages("create") /\ "request" \in Stages("create")
        /\ "recheck" \in Stages("update")
    BY DEF Stages
  <2>4. QED
    BY <1>2, <1>4, <1>7, <2>1, <2>2, <2>3 DEF Check, Image
<1>8. CASE Request(h) \/ RequestFails(h)
  <2>1. pc[h] = "request"
    BY <1>8 DEF Request, RequestFails
  <2>2. op[h] = "create" /\ "wait" \in Stages("create")
    BY <1>1, <2>1 DEF Seat, Stages
  <2>3. QED
    BY <1>2, <1>4, <1>8, <2>1, <2>2 DEF Request, RequestFails
<1>9. CASE Waited(h) \/ WaitFails(h)
  <2>1. pc[h] = "wait" /\ "init" \in Stages("create")
    BY <1>9 DEF Waited, WaitFails, Stages
  <2>2. QED
    BY <1>2, <1>3, <1>4, <1>9, <2>1 DEF Waited, WaitFails
<1>10. CASE Initialise(h) \/ PluginFails(h)
  <2>1. pc[h] \in {"init", "plugin"} /\ "plugin" \in Stages("create")
    BY <1>10 DEF Initialise, PluginFails, Stages
  <2>2. pc[h] = "init" => op[h] = "create"
    BY <1>1 DEF Seat, Stages
  <2>3. QED
    BY <1>2, <1>3, <1>4, <1>10, <2>1, <2>2 DEF Initialise, PluginFails
<1>11. CASE Find(h)
  <2>1. pc[h] = "find" /\ mishaps \subseteq mishaps' /\ mishaps' \subseteq Mishaps
        /\ Goes(h, IF op[h] = "destroy" THEN "delete" ELSE IF setup.repo = "plugin" THEN "plugin" ELSE "image")
    BY <1>1, <1>11 DEF Find, Mishaps
  <2>2. op[h] \in {"update", "destroy"}
    BY <1>1, <2>1 DEF Seat, Stages
  <2>3. /\ "delete" \in Stages("destroy") /\ "plugin" \in Stages("update")
        /\ "image" \in Stages("update")
    BY DEF Stages
  <2>4. QED
    BY <2>1, <2>2, <2>3 DEF Acting
<1>12. CASE FindFails(h) \/ PatchFails(h) \/ DeleteFails(h)
  BY <1>2, <1>12 DEF FindFails, PatchFails, DeleteFails
<1>13. CASE FinalCheck(h)
  <2>1. pc[h] = "recheck"
    BY <1>13 DEF FinalCheck
  <2>2. op[h] = "update" /\ "patch" \in Stages("update")
    BY <1>1, <2>1 DEF Seat, Stages
  <2>3. QED
    BY <1>3, <1>4, <1>13, <2>1, <2>2 DEF FinalCheck
<1>14. CASE Patch(h)
  <2>1. pc[h] = "patch" /\ Goes(h, "wait") /\ mishaps \subseteq mishaps' /\ mishaps' \subseteq Mishaps
    BY <1>1, <1>14 DEF Patch, Stale, Mishaps
  <2>2. "wait" \in Stages(op[h])
    BY <1>1, <2>1 DEF Seat, Stages
  <2>3. QED
    BY <2>1, <2>2 DEF Acting
<1>15. CASE Delete(h)
  <2>1. /\ pc[h] = "delete" /\ mishaps \subseteq mishaps' /\ mishaps' \subseteq Mishaps
        /\ Rests(h) \/ Goes(h, "wait")
    BY <1>1, <1>15 DEF Delete, Mishaps, Rests, Goes
  <2>2. "wait" \in Stages(op[h])
    BY <1>1, <2>1 DEF Seat, Stages
  <2>3. QED
    BY <2>1, <2>2 DEF Acting
<1>16. QED
  BY <1>5, <1>6, <1>7, <1>8, <1>9, <1>10, <1>11, <1>12, <1>13, <1>14, <1>15 DEF ServerStep

(* ... of a CWS pull request too.                                          *)
LEMMA KubeActing ==
  ASSUME Sits, NEW h \in Handlers, KubeStep(h)
  PROVE  Acting(h)
<1> USE DEF Sits
<1>1. Seat(h) /\ mishaps \subseteq Mishaps
  BY DEF Seated, Hub
<1>2. CASE KubeFails(h)
  BY <1>2, FailsFacts DEF Acting, KubeFails
<1>3. CASE GetOrCreateNamespace(h) \/ UpdateKube(h)
  <2>1. pc[h] = "start" /\ Goes(h, "image") /\ UNCHANGED mishaps /\ op[h] \in {"create", "update"}
    BY <1>3 DEF GetOrCreateNamespace, UpdateKube
  <2>2. "image" \in Stages(op[h])
    BY <2>1 DEF Stages
  <2>3. QED
    BY <1>1, <2>1, <2>2 DEF Acting
<1>4. CASE KubeImage(h)
  <2>1. pc[h] = "image" /\ Goes(h, "deploy") /\ UNCHANGED mishaps
    BY <1>4 DEF KubeImage
  <2>2. "deploy" \in Stages(op[h])
    BY <1>1, <2>1 DEF Seat, Stages
  <2>3. QED
    BY <1>1, <2>1, <2>2 DEF Acting
<1>5. CASE Deploy(h)
  <2>1. /\ pc[h] = "deploy" /\ mishaps \subseteq mishaps' /\ mishaps' \subseteq Mishaps
        /\ Rests(h) \/ (op[h] = "create" /\ Goes(h, "webhook"))
    BY <1>1, <1>5 DEF Deploy, Mishaps, Rests, Goes
  <2>2. "webhook" \in Stages("create")
    BY DEF Stages
  <2>3. QED
    BY <2>1, <2>2 DEF Acting
<1>6. CASE CreateWebhook(h) \/ DeleteWebhooks(h)
  <2>1. /\ UNCHANGED mishaps
        /\ (pc[h] = "webhook" /\ Goes(h, "stripe")) \/ (pc[h] = "hooks" /\ Goes(h, "unstripe"))
    BY <1>6 DEF CreateWebhook, DeleteWebhooks
  <2>2. /\ pc[h] = "webhook" => "stripe" \in Stages(op[h])
        /\ pc[h] = "hooks" => "unstripe" \in Stages(op[h])
    BY <1>1 DEF Seat, Stages
  <2>3. QED
    BY <1>1, <2>1, <2>2 DEF Acting
<1>7. CASE RegisterStripeWebhook(h) \/ DeleteStripeWebhook(h)
  BY <1>1, <1>7 DEF RegisterStripeWebhook, DeleteStripeWebhook, Acting, Ends, Rests
<1>8. CASE NoNamespace(h)
  <2>1. pc[h] # "idle" /\ Rests(h) /\ mishaps \subseteq mishaps' /\ mishaps' \subseteq Mishaps
    BY <1>1, <1>8 DEF NoNamespace, Rests, Mishaps
  <2>2. QED
    BY <2>1 DEF Acting
<1>9. CASE DeleteNamespace(h)
  <2>1. /\ pc[h] = "start" /\ op[h] = "destroy" /\ mishaps \subseteq mishaps' /\ mishaps' \subseteq Mishaps
        /\ Goes(h, "hooks")
    BY <1>1, <1>9 DEF DeleteNamespace, Mishaps, Goes
  <2>2. "hooks" \in Stages("destroy")
    BY DEF Stages
  <2>3. QED
    BY <2>1, <2>2 DEF Acting
<1>10. QED
  BY <1>2, <1>3, <1>4, <1>5, <1>6, <1>7, <1>8, <1>9 DEF KubeStep

(* People change the pull request and post what they have changed.         *)
LEMMA PostsFacts ==
  ASSUME Hub, NEW a \in {"labeled", "unlabeled", "synchronize", "update", "closed"},
         NEW l \in setup.labels \cup {"none"}, NEW n \in Nat, NEW o \in BOOLEAN,
         Posts(Event(a, l, n, o))
  PROVE  net' \in Seq(AllEvents) /\ ToSet(net') = ToSet(net) \cup {Event(a, l, n, o)}
<1>1. Event(a, l, n, o) \in AllEvents
  BY EventFacts
<1>2. net \in Seq(AllEvents)
  BY DEF Hub
<1> DEFINE e == Event(a, l, n, o)
<1>3. net' = Append(net, e)
  BY DEF Posts
<1>4. e \in AllEvents
  BY <1>1
<1> HIDE DEF e
<1>5. net' \in Seq(AllEvents) /\ ToSet(net') = ToSet(net) \cup {e}
  BY <1>2, <1>3, <1>4, ToSetAppend
<1>6. QED
  BY <1>5 DEF e

(* What people do is posted, and the newest commit is the head.            *)
LEMMA PeopleFacts ==
  ASSUME Hub, People
  PROVE  /\ UNCHANGED <<setup, handler, mishaps>>
         /\ head' \in Nat /\ head' >= head
         /\ open' \in BOOLEAN /\ closed' \in BOOLEAN /\ (closed => closed')
         /\ labels' \subseteq setup.labels /\ (closed' \/ open')
         /\ ToSet(net) \subseteq ToSet(net') /\ net' \in Seq(AllEvents)
         /\ \A e \in ToSet(net') \ ToSet(net) :
              /\ e.sha <= head' /\ (closed' \/ e.open) /\ e.label \in setup.labels \cup {"none"}
              /\ e.action \in {"labeled", "unlabeled"} => e.label # "none"
         /\ labels \subseteq labels' \/ \E e \in ToSet(net') : e.action = "unlabeled"
         /\ \A l \in labels' \ labels : \E e \in ToSet(net') : e.action = "labeled" /\ e.label = l
         /\ open' => open \/ closed'
         /\ open /\ ~open' => \E e \in ToSet(net') : e.action = "closed"
         /\ open /\ ~open' => labels' = labels
         /\ head' # head => \E e \in ToSet(net') : e.action = "synchronize" /\ e.sha = head'
<1> USE DEF Hub
<1>0. "none" \notin setup.labels
  BY SetupFacts
<1>1. ASSUME NEW l \in AllLabels, AddLabel(l)
      PROVE  /\ UNCHANGED <<setup, open, head, closed, handler, mishaps>>
             /\ l \in setup.labels /\ labels' = labels \cup {l}
             /\ Posts(Event("labeled", l, head, open))
  BY <1>1 DEF AddLabel
<1>2. ASSUME NEW l \in AllLabels, RemoveLabel(l)
      PROVE  /\ UNCHANGED <<setup, open, head, closed, handler, mishaps>>
             /\ l \in labels /\ labels' = labels \ {l}
             /\ Posts(Event("unlabeled", l, head, open))
  BY <1>2 DEF RemoveLabel
<1>3. CASE \E l \in AllLabels : AddLabel(l)
  <2>1. PICK l \in AllLabels : AddLabel(l)
    BY <1>3
  <2> DEFINE e == Event("labeled", l, head, open)
  <2>2. net' \in Seq(AllEvents) /\ ToSet(net') = ToSet(net) \cup {e}
    BY <1>1, <2>1, PostsFacts
  <2>3. e.action = "labeled" /\ e.label = l /\ e.sha = head /\ e.open = open
    BY <1>1, <2>1, EventFacts
  <2> HIDE DEF e
  <2>4. QED
    BY <1>0, <1>1, <2>1, <2>2, <2>3
<1>4. CASE \E l \in AllLabels : RemoveLabel(l)
  <2>1. PICK l \in AllLabels : RemoveLabel(l)
    BY <1>4
  <2> DEFINE e == Event("unlabeled", l, head, open)
  <2>2. net' \in Seq(AllEvents) /\ ToSet(net') = ToSet(net) \cup {e}
    BY <1>2, <2>1, PostsFacts
  <2>3. e.action = "unlabeled" /\ e.label = l /\ e.sha = head /\ e.open = open
    BY <1>2, <2>1, EventFacts
  <2> HIDE DEF e
  <2>4. QED
    BY <1>0, <1>2, <2>1, <2>2, <2>3
<1>5. CASE Push
  <2>1. /\ UNCHANGED <<setup, labels, open, closed, handler, mishaps>> /\ open
        /\ head' = head + 1 /\ Posts(Event("synchronize", "none", head + 1, open))
    BY <1>5 DEF Push
  <2> DEFINE n == head + 1
             e == Event("synchronize", "none", n, open)
  <2>2. n \in Nat /\ n > head /\ head' = n /\ open \in BOOLEAN
    BY <2>1
  <2>3. Posts(e)
    BY <2>1
  <2> HIDE DEF n
  <2>4. "none" \in setup.labels \cup {"none"}
    OBVIOUS
  <2>5. net' \in Seq(AllEvents) /\ ToSet(net') = ToSet(net) \cup {e}
    BY <2>2, <2>3, <2>4, PostsFacts
  <2>6. e.action = "synchronize" /\ e.label = "none" /\ e.sha = n /\ e.open = open
    BY <2>2, <2>4, EventFacts
  <2> HIDE DEF e
  <2>7. e.sha <= head' /\ e.label \in setup.labels \cup {"none"}
        /\ (e.action \in {"labeled", "unlabeled"} => e.label # "none")
        /\ e \in ToSet(net') /\ e.sha = head' /\ head' \in Nat /\ head' >= head
    BY <2>2, <2>5, <2>6
  <2>8. closed' \/ e.open
    BY <2>1, <2>6
  <2>9. ToSet(net) \subseteq ToSet(net') /\ ToSet(net') \ ToSet(net) \subseteq {e}
    BY <2>5
  <2>10. labels' = labels /\ open' = open /\ closed' = closed
    BY <2>1
  <2>11. \E d \in ToSet(net') : d.action = "synchronize" /\ d.sha = head'
    BY <2>6, <2>7
  <2>12. \A d \in ToSet(net') \ ToSet(net) :
           /\ d.sha <= head' /\ (closed' \/ d.open) /\ d.label \in setup.labels \cup {"none"}
           /\ d.action \in {"labeled", "unlabeled"} => d.label # "none"
    BY <2>7, <2>8, <2>9
  <2>13. labels' \ labels = {} /\ labels' \subseteq setup.labels /\ labels \subseteq labels'
    BY <2>10
  <2>14. UNCHANGED <<setup, handler, mishaps>>
    BY <2>1
  <2>15. open' \in BOOLEAN /\ closed' \in BOOLEAN /\ (closed => closed') /\ (closed' \/ open')
    BY <2>10
  <2>16. (open' => open \/ closed') /\ ~(open /\ ~open')
    BY <2>10
  <2>17. QED
    BY <2>5, <2>7, <2>9, <2>11, <2>12, <2>13, <2>14, <2>15, <2>16
<1>6. CASE SlashUpdate
  <2>1. /\ UNCHANGED <<setup, labels, open, head, closed, handler, mishaps>>
        /\ Posts(Event("update", "none", head, open))
    BY <1>6 DEF SlashUpdate
  <2> DEFINE e == Event("update", "none", head, open)
  <2>2. net' \in Seq(AllEvents) /\ ToSet(net') = ToSet(net) \cup {e}
    BY <2>1, PostsFacts
  <2>3. e.action = "update" /\ e.label = "none" /\ e.sha = head /\ e.open = open
    BY EventFacts
  <2> HIDE DEF e
  <2>4. QED
    BY <2>1, <2>2, <2>3
<1>7. CASE CloseOrReopen
  <2>1. /\ UNCHANGED <<setup, labels, head, handler, mishaps>> /\ open' = ~open /\ closed' = TRUE
        /\ IF open THEN Posts(Event("closed", "none", head, FALSE)) ELSE net' = net
    BY <1>7 DEF CloseOrReopen
  <2>2. CASE open
    <3> DEFINE e == Event("closed", "none", head, FALSE)
    <3>1. net' \in Seq(AllEvents) /\ ToSet(net') = ToSet(net) \cup {e}
      BY <2>1, <2>2, PostsFacts
    <3>2. e.action = "closed" /\ e.label = "none" /\ e.sha = head /\ e.open = FALSE
      BY DEF Event
    <3> HIDE DEF e
    <3>3. QED
      BY <2>1, <2>2, <3>1, <3>2
  <2>3. CASE ~open
    BY <2>1, <2>3
  <2>4. QED
    BY <2>2, <2>3
<1>8. QED
  BY <1>3, <1>4, <1>5, <1>6, <1>7 DEF People
(* An idle handler takes an event and becomes what the event asks for.     *)
LEMMA HandleFacts ==
  ASSUME Sits, NEW h \in Handlers, HandlePullRequestEvent(h)
  PROVE  \E e \in ToSet(net) :
           /\ pc[h] = "idle" /\ op[h] = "none"
           /\ UNCHANGED <<setup, labels, open, head, closed>>
           /\ mishaps \subseteq mishaps' /\ mishaps' \subseteq Mishaps
           /\ net' \in Seq(AllEvents) /\ ToSet(net') \subseteq ToSet(net)
           /\ ToSet(net) \ {e} \subseteq ToSet(net')
           /\ pc' = [g \in Handlers |-> pc'[g]] /\ op' = [g \in Handlers |-> op'[g]]
           /\ pr' = [g \in Handlers |-> pr'[g]]
           /\ \A g \in Handlers \ {h} : pc'[g] = pc[g] /\ op'[g] = op[g] /\ pr'[g] = pr[g]
           /\ op'[h] = OpOf(e, labels)
           /\ OpOf(e, labels) = "none" => pc'[h] = "idle"
           /\ OpOf(e, labels) # "none" =>
                /\ pc'[h] = "start" /\ pr'[h].labels = labels /\ pr'[h].label = e.label
                /\ pr'[h].sha = IF e.action = "update" THEN head ELSE e.sha
           /\ OpOf(e, labels) = "create" =>
                /\ "leak" \in mishaps' \/ (e.label \in labels /\ open)
                /\ \/ "stale" \in mishaps' \/ e.sha = head
                   \/ \E d \in ToSet(net) : d.action = "synchronize" /\ d.sha = head
<1> USE DEF Sits
<1>1. PICK k \in DOMAIN net :
        LET e == net[k]
            o == OpOf(e, labels)
        IN  /\ net' = RemoveAt(net, k)
            /\ op' = [op EXCEPT ![h] = o]
            /\ pc' = [pc EXCEPT ![h] = IF o = "none" THEN "idle" ELSE "start"]
            /\ pr' = [pr EXCEPT ![h] =
                 IF o = "none" THEN NoPR
                 ELSE [labels |-> labels, label |-> e.label,
                       sha |-> IF e.action = "update" THEN head ELSE e.sha,
                       noBuildChanges |-> e.action = "update"]]
            /\ mishaps' = mishaps \cup
                 {m \in {"leak"} : o = "create" /\ (e.label \notin labels \/ ~open)} \cup
                 {m \in {"stale"} : o = "create" /\ e.sha # head /\
                    ~\E i \in DOMAIN net : net[i].action = "synchronize" /\ net[i].sha = head}
  BY DEF HandlePullRequestEvent
<1> DEFINE e == net[k]
           o == OpOf(e, labels)
<1>2. pc[h] = "idle" /\ UNCHANGED <<setup, labels, open, head, closed>>
  BY DEF HandlePullRequestEvent
<1>3. op[h] = "none"
  BY <1>2, StageFacts DEF Seated, Seat
<1>4. net \in Seq(AllEvents) /\ e \in ToSet(net)
  BY DEF Hub, ToSet
<1>5. /\ net' \in Seq(AllEvents) /\ ToSet(net') \subseteq ToSet(net)
      /\ ToSet(net) \ {e} \subseteq ToSet(net')
  BY <1>1, <1>4, ToSetRemoveAt
<1>6. mishaps \subseteq mishaps' /\ mishaps' \subseteq Mishaps
  BY <1>1 DEF Hub, Mishaps
<1>7. /\ pc' = [g \in Handlers |-> pc'[g]] /\ op' = [g \in Handlers |-> op'[g]]
      /\ pr' = [g \in Handlers |-> pr'[g]]
      /\ \A g \in Handlers \ {h} : pc'[g] = pc[g] /\ op'[g] = op[g] /\ pr'[g] = pr[g]
  <2> HIDE DEF o, e
  <2>1. QED
    BY <1>1 DEF Seated, o, e
<1>8. op'[h] = o /\ (o = "none" => pc'[h] = "idle") /\ (o # "none" => pc'[h] = "start")
  BY <1>1 DEF Seated
<1>9. o # "none" =>
        pr'[h] = [labels |-> labels, label |-> e.label,
                  sha |-> IF e.action = "update" THEN head ELSE e.sha,
                  noBuildChanges |-> e.action = "update"]
  BY <1>1 DEF Seated
<1>10. o # "none" =>
         /\ pr'[h].labels = labels /\ pr'[h].label = e.label
         /\ pr'[h].sha = IF e.action = "update" THEN head ELSE e.sha
  <2> HIDE DEF o, e
  <2>1. QED
    BY <1>9
<1>11. o = "create" => "leak" \in mishaps' \/ (e.label \in labels /\ open)
  BY <1>1
<1>12. o = "create" =>
         \/ "stale" \in mishaps' \/ e.sha = head
         \/ \E d \in ToSet(net) : d.action = "synchronize" /\ d.sha = head
  <2>1. \A i \in DOMAIN net : net[i] \in ToSet(net)
    BY DEF ToSet
  <2> HIDE DEF o
  <2>2. QED
    BY <1>1, <2>1 DEF o
<1> HIDE DEF o, e
<1>13. /\ op'[h] = OpOf(e, labels)
       /\ OpOf(e, labels) = "none" => pc'[h] = "idle"
       /\ OpOf(e, labels) # "none" =>
            /\ pc'[h] = "start" /\ pr'[h].labels = labels /\ pr'[h].label = e.label
            /\ pr'[h].sha = IF e.action = "update" THEN head ELSE e.sha
       /\ OpOf(e, labels) = "create" =>
            /\ "leak" \in mishaps' \/ (e.label \in labels /\ open)
            /\ \/ "stale" \in mishaps' \/ e.sha = head
               \/ \E d \in ToSet(net) : d.action = "synchronize" /\ d.sha = head
  BY <1>8, <1>10, <1>11, <1>12 DEF o
<1>14. QED
  BY <1>2, <1>3, <1>4, <1>5, <1>6, <1>7, <1>13, Zenon

(* Which events ask for what (handlePullRequestEvent).                     *)
LEMMA OpOfFacts ==
  ASSUME NEW e, NEW current
  PROVE  /\ OpOf(e, current) \in {"none", "create", "update", "destroy"}
         /\ OpOf(e, current) = "create" => e.action = "labeled"
         /\ e.action = "labeled" /\ e.open => OpOf(e, current) = "create"
         /\ e.action = "unlabeled" => OpOf(e, current) = "destroy"
         /\ e.action = "closed" /\ current # {} => OpOf(e, current) = "destroy"
         /\ e.action \in {"synchronize", "update"} /\ current # {} => OpOf(e, current) = "update"
         /\ OpOf(e, current) # "none" /\ e.action \notin {"labeled", "unlabeled"} => current # {}
BY DEF OpOf

(* The shape of what handlers hold is an invariant.                        *)
LEMMA SitsStep == Sits /\ [Next]_vars => Sits'
<1> SUFFICES ASSUME Sits, [Next]_vars PROVE Sits'
  OBVIOUS
<1> USE DEF Sits
<1>1. ASSUME UNCHANGED prVars PROVE Sits'
  <2>1. UNCHANGED <<setup, labels, open, head, net, closed, pc, op, pr, mishaps>>
    BY <1>1 DEF prVars, github, handler
  <2>2. QED
    BY <2>1 DEF Hub, Tells, Seated, Seat, Knows, Stages
<1>2. CASE UNCHANGED vars \/ NamespaceGone \/ Provisioner
  BY <1>1, <1>2 DEF vars, NamespaceGone, Provisioner
<1>3. CASE \E h \in Handlers : ServerStep(h) \/ KubeStep(h)
  BY <1>3, ServerActing, KubeActing, ActingSits
<1>4. CASE DropEvent
  <2>1. /\ UNCHANGED <<setup, labels, open, head, closed, pc, op, pr>>
        /\ mishaps' = Mishaps /\ net # <<>> /\ net' = Tail(net)
    BY <1>4 DEF DropEvent, handler
  <2>2. net' \in Seq(AllEvents) /\ ToSet(net') \subseteq ToSet(net)
    BY <2>1, ToSetTail DEF Hub
  <2>3. QED
    BY <2>1, <2>2 DEF Hub, Tells, Seated, Seat, Knows, Stages
<1>5. CASE People
  <2>0. UNCHANGED <<setup, handler, mishaps>>
    BY <1>5, PeopleFacts
  <2>1. /\ UNCHANGED <<setup, pc, op, pr, mishaps>> /\ head' \in Nat /\ head' >= head
        /\ open' \in BOOLEAN /\ closed' \in BOOLEAN /\ (closed => closed')
        /\ labels' \subseteq setup.labels /\ (closed' \/ open')
        /\ net' \in Seq(AllEvents)
        /\ \A e \in ToSet(net') \ ToSet(net) :
              /\ e.sha <= head' /\ (closed' \/ e.open) /\ e.label \in setup.labels \cup {"none"}
              /\ e.action \in {"labeled", "unlabeled"} => e.label # "none"
    BY <1>5, <2>0, PeopleFacts DEF handler
  <2>2. \A e \in ToSet(net') : e.sha \in Nat
    <3>1. ToSet(net') \subseteq AllEvents
      BY <2>1, ToSetFacts
    <3>2. QED
      BY <3>1 DEF AllEvents
  <2>3. \A e \in ToSet(net) : Tells(e) /\ e.sha \in Nat
    <3>1. ToSet(net) \subseteq AllEvents
      BY ToSetFacts DEF Hub
    <3>2. QED
      BY <3>1 DEF AllEvents, Hub
  <2>4. \A e \in ToSet(net') : Tells(e)'
    <3> TAKE e \in ToSet(net')
    <3>1. CASE e \in ToSet(net)
      <4>1. e.sha <= head'
        BY <2>1, <2>3, <3>1 DEF Hub, Tells
      <4>2. QED
        BY <2>1, <2>3, <3>1, <4>1 DEF Tells
    <3>2. CASE e \notin ToSet(net)
      BY <2>1, <3>2 DEF Tells
    <3>3. QED
      BY <3>1, <3>2
  <2>5. Hub'
    BY <2>1, <2>4 DEF Hub
  <2>6. \A g \in Handlers : Seat(g)'
    BY <2>1, OtherSeats
  <2>7. Seated'
    BY <2>1, <2>6 DEF Seated
  <2>8. QED
    BY <2>5, <2>7
<1>6. CASE \E h \in Handlers : HandlePullRequestEvent(h)
  <2>1. PICK h \in Handlers : HandlePullRequestEvent(h)
    BY <1>6
  <2>2. PICK e \in ToSet(net) :
          /\ UNCHANGED <<setup, labels, open, head, closed>>
          /\ mishaps \subseteq mishaps' /\ mishaps' \subseteq Mishaps
          /\ net' \in Seq(AllEvents) /\ ToSet(net') \subseteq ToSet(net)
          /\ pc' = [g \in Handlers |-> pc'[g]] /\ op' = [g \in Handlers |-> op'[g]]
          /\ pr' = [g \in Handlers |-> pr'[g]]
          /\ \A g \in Handlers \ {h} : pc'[g] = pc[g] /\ op'[g] = op[g] /\ pr'[g] = pr[g]
          /\ op'[h] = OpOf(e, labels)
          /\ OpOf(e, labels) = "none" => pc'[h] = "idle"
          /\ OpOf(e, labels) # "none" =>
               /\ pc'[h] = "start" /\ pr'[h].labels = labels /\ pr'[h].label = e.label
               /\ pr'[h].sha = IF e.action = "update" THEN head ELSE e.sha
    BY <2>1, HandleFacts
  <2>3. Tells(e) /\ e.sha \in Nat
        /\ e.action \in {"labeled", "unlabeled", "synchronize", "update", "closed"}
    <3>1. ToSet(net) \subseteq AllEvents
      BY ToSetFacts DEF Hub
    <3>2. QED
      BY <3>1 DEF AllEvents, Hub
  <2>4. Hub'
    BY <2>2 DEF Hub, Tells
  <2>5. Seat(h)'
    <3>1. CASE OpOf(e, labels) = "none"
      BY <2>2, <3>1 DEF Seat
    <3>2. CASE OpOf(e, labels) # "none"
      <4>1. op'[h] \in {"create", "update", "destroy"} /\ "start" \in Stages(op'[h])
        BY <2>2, <3>2, OpOfFacts DEF Stages
      <4>2. e.label = "none" => labels # {}
        BY <2>3, <3>2, OpOfFacts DEF Tells
      <4>3. Knows(h)'
        BY <2>2, <2>3, <3>2, <4>2 DEF Knows, Hub, Tells
      <4>4. Stages(op[h])' = Stages(op'[h])
        BY DEF Stages
      <4>5. QED
        BY <2>2, <3>2, <4>1, <4>3, <4>4 DEF Seat
    <3>3. QED
      BY <3>1, <3>2
  <2>6. \A g \in Handlers \ {h} : Seat(g)'
    BY <2>2, OtherSeats DEF Hub
  <2>7. Seated'
    BY <2>2, <2>5, <2>6 DEF Seated
  <2>8. QED
    BY <2>4, <2>7
<1>7. QED
  BY <1>2, <1>3, <1>4, <1>5, <1>6 DEF Next

(* Installations, the servers they are of, and what a step of a handler    *)
(* does to them and to itself.                                             *)
Cloudy == setup.repo = "server" /\ "SpinWickWithCWS" \in setup.labels

(* Every label of a repository asks for a server of the same owner.  With  *)
(* labels of both kinds on, the destroy of a pull request that is closed   *)
(* looks for the customer's installation only.                             *)
OneKind ==
  \A s \in Setups : s.repo = "server" /\ "SpinWickWithCWS" \in s.labels =>
    s.labels = {"SpinWickWithCWS"}

Kinds ==
  /\ target \in [Handlers -> Nat] /\ \A h \in Handlers : target[h] \in DOMAIN inst \cup {0}
  /\ setup.repo = "cws" => DOMAIN inst = {}
  /\ setup.repo # "cws" => namespace = "none" /\ ~hooks /\ ~stripe
  /\ OneKind => \A i \in DOMAIN inst : inst[i].owner = IF Cloudy THEN "customer" ELSE "pr"

Base == Inv /\ Sits /\ Kinds

Alone(h) ==
  \A g \in Handlers \ {h} :
    pc'[g] = pc[g] /\ op'[g] = op[g] /\ pr'[g] = pr[g] /\ target'[g] = target[g]

(* Where a handler stands after an action, with the pull request as it     *)
(* was, or after an error.                                                 *)
Stops(h) == pc'[h] = "idle" /\ op'[h] = "none"
Stands(h, next) == pc'[h] = next /\ op'[h] = op[h] /\ pr'[h] = pr[h]
Keeps == UNCHANGED <<setup, labels, open, head, net, closed>>

(* All handlers of a pull request act for the same owner.                  *)
LEMMA OwnerIsOfKind ==
  ASSUME Sits, OneKind, NEW h \in Handlers, pc[h] # "idle"
  PROVE  Owner(h) = IF Cloudy THEN "customer" ELSE "pr"
<1>1. Knows(h) /\ setup \in Setups /\ setup.labels \subseteq AllLabels /\ "none" \notin setup.labels
  BY SetupFacts DEF Sits, Seated, Seat, Hub
<1>2. Cloudy => setup.labels = {"SpinWickWithCWS"}
  BY <1>1 DEF OneKind, Cloudy
<1>3. WithCloud(h) <=> Cloudy
  <2>1. CASE pr[h].label = "none"
    BY <1>1, <1>2, <2>1 DEF WithCloud, Cloudy, Knows
  <2>2. CASE pr[h].label # "none"
    BY <1>1, <1>2, <2>2 DEF WithCloud, Cloudy, Knows
  <2>3. QED
    BY <2>1, <2>2
<1>4. QED
  BY <1>3 DEF Owner

(* An action of a handler leaves the pull request and the others alone.    *)
LEMMA ActingFacts ==
  ASSUME Sits, NEW h \in Handlers, Acting(h)
  PROVE  /\ setup' = setup /\ open' = open /\ head' = head /\ closed' = closed
         /\ mishaps \subseteq mishaps' /\ ToSet(net) \subseteq ToSet(net')
         /\ \A g \in Handlers \ {h} : pc'[g] = pc[g] /\ op'[g] = op[g] /\ pr'[g] = pr[g]
         /\ pc[h] # "idle" /\ op[h] \in {"create", "update", "destroy"} /\ pc[h] \in Stages(op[h]) /\ Knows(h)
         /\ labels' \subseteq labels
         /\ Fails(h) \/ labels' = labels
<1> USE DEF Sits
<1>1. setup' = setup /\ head' = head /\ open' = open /\ closed' = closed
  BY FailsFacts DEF Acting, Rests, Goes, github
<1>2. mishaps \subseteq mishaps'
  BY DEF Acting
<1>3. \A g \in Handlers \ {h} : pc'[g] = pc[g] /\ op'[g] = op[g] /\ pr'[g] = pr[g]
  BY DEF Acting, Fails, Rests, Goes, Idle, Seated
<1>4. pc[h] # "idle" /\ op[h] \in {"create", "update", "destroy"} /\ pc[h] \in Stages(op[h]) /\ Knows(h)
  BY DEF Acting, Seated, Seat
<1>5. labels' \subseteq labels /\ ToSet(net) \subseteq ToSet(net') /\ (Fails(h) \/ labels' = labels)
  BY FailsFacts DEF Acting, Rests, Goes, github
<1>6. QED
  BY <1>1, <1>2, <1>3, <1>4, <1>5

(* A handler that ends or fails is idle.                                   *)
LEMMA FailsStops ==
  ASSUME Seated, NEW h \in Handlers, Fails(h) \/ Rests(h) \/ Idle(h)
  PROVE  Stops(h)
BY DEF Fails, Rests, Idle, Stops, Seated

(* A handler that goes on keeps its operation and its pull request.        *)
LEMMA GoesStands ==
  ASSUME Seated, NEW h \in Handlers, NEW next, Goes(h, next)
  PROVE  Stands(h, next) /\ Keeps
BY DEF Goes, Stands, Keeps, Seated, github
(* What a step does to installation i: nothing, or a handler writes a      *)
(* commit.                                                                 *)
Same(i) == inst'[i].owner = inst[i].owner /\ inst'[i].state = inst[i].state /\ inst'[i].ver = inst[i].ver
Installs(h, i) ==
  /\ i = target[h] /\ pc[h] = "plugin" /\ Idle(h)
  /\ inst'[i].owner = inst[i].owner /\ inst'[i].state = inst[i].state
  /\ inst'[i].ver = pr[h].sha /\ mishaps' = mishaps \cup Stale(i, pr[h].sha)
Patches(h, i) ==
  /\ i = target[h] /\ pc[h] = "patch" /\ Goes(h, "wait")
  /\ inst[i].state \in {"stable", "updating"}
  /\ inst'[i].owner = inst[i].owner /\ inst'[i].state = "updating"
  /\ inst'[i].ver = pr[h].sha /\ mishaps' = mishaps \cup Stale(i, pr[h].sha)

Lasts(h) ==
  /\ DOMAIN inst' = DOMAIN inst
  /\ \A i \in DOMAIN inst : Same(i) \/ Installs(h, i) \/ Patches(h, i)

(* Installations are numbered from one.                                    *)
LEMMA DomainOfInst == Shape => Len(inst) \in Nat /\ DOMAIN inst = 1..Len(inst)
BY DEF Shape

(* What the patch of an update writes.                                     *)
LEMMA PatchWrites ==
  ASSUME Shape, NEW h \in Handlers, Patch(h)
  PROVE  Lasts(h)
<1> DEFINE k == target[h]
<1>1. /\ pc[h] = "patch" /\ Goes(h, "wait") /\ inst[k].state \in {"stable", "updating"}
      /\ inst' = [inst EXCEPT ![k].state = "updating", ![k].ver = pr[h].sha]
      /\ mishaps' = mishaps \cup Stale(k, pr[h].sha)
  BY DEF Patch
<1>2. DOMAIN inst' = DOMAIN inst
  BY <1>1
<1>3. ASSUME NEW i \in DOMAIN inst PROVE Same(i) \/ Patches(h, i)
  <2>1. inst[i] = Field(i)
    BY DomainOfInst DEF Shape
  <2>2. CASE i = k
    <3>1. inst'[i] = [inst[i] EXCEPT !.state = "updating", !.ver = pr[h].sha]
      BY <1>1, <1>3, <2>2
    <3>2. inst'[i].state = "updating" /\ inst'[i].ver = pr[h].sha /\ inst'[i].owner = inst[i].owner
      BY <2>1, <3>1 DEF Field
    <3>3. QED
      BY <1>1, <2>2, <3>2 DEF Patches
  <2>3. CASE i # k
    BY <1>1, <1>3, <2>3 DEF Same
  <2>4. QED
    BY <2>2, <2>3
<1>4. QED
  BY <1>2, <1>3 DEF Lasts

(* What the plugin's installation writes.                                  *)
LEMMA InstallWrites ==
  ASSUME Shape, NEW h \in Handlers, InstallPlugin(h)
  PROVE  Lasts(h)
<1> DEFINE k == target[h]
<1>1. CASE UNCHANGED inst
  BY <1>1 DEF Lasts, Same
<1>2. CASE ~UNCHANGED inst
  <2>1. /\ pc[h] = "plugin" /\ Idle(h) /\ inst' = [inst EXCEPT ![k].ver = pr[h].sha]
        /\ mishaps' = mishaps \cup Stale(k, pr[h].sha)
    BY <1>2 DEF InstallPlugin
  <2>2. DOMAIN inst' = DOMAIN inst
    BY <2>1
  <2>3. ASSUME NEW i \in DOMAIN inst PROVE Same(i) \/ Installs(h, i)
    <3>1. inst[i] = Field(i)
      BY DomainOfInst DEF Shape
    <3>2. CASE i = k
      <4>1. inst'[i] = [inst[i] EXCEPT !.ver = pr[h].sha]
        BY <2>1, <2>3, <3>2
      <4>2. inst'[i].state = inst[i].state /\ inst'[i].ver = pr[h].sha /\ inst'[i].owner = inst[i].owner
        BY <3>1, <4>1 DEF Field
      <4>3. QED
        BY <2>1, <3>2, <4>2 DEF Installs
    <3>3. CASE i # k
      BY <2>1, <2>3, <3>3 DEF Same
    <3>4. QED
      BY <3>2, <3>3
  <2>4. QED
    BY <2>2, <2>3 DEF Lasts
<1>3. QED
  BY <1>1, <1>2

(* But for a request and a delete, installations last.                     *)
LEMMA ServerLasts ==
  ASSUME Shape, NEW h \in Handlers, ServerStep(h)
  PROVE  Lasts(h) \/ Request(h) \/ Delete(h)
<1>1. UNCHANGED inst => Lasts(h)
  BY DEF Lasts, Same
<1>2. UNCHANGED inst \/ Patch(h) \/ InstallPlugin(h) \/ Request(h) \/ Delete(h)
  <2>1. CASE \/ SignUp(h) \/ Login(h) \/ NoCustomer(h) \/ SessionFails(h) \/ Begins(h)
             \/ Check(h) \/ Image(h) \/ RequestFails(h) \/ Waited(h) \/ WaitFails(h)
             \/ Initialise(h) \/ PluginFails(h)
             \/ Find(h) \/ FindsNothing(h) \/ FindFails(h) \/ FinalCheck(h) \/ PatchFails(h)
             \/ DeleteFails(h)
    BY <2>1 DEF SignUp, Login, NoCustomer, SessionFails, Begins, Check, Image, RequestFails, Waited,
      WaitFails, Initialise, PluginFails, Find, FindsNothing, FindFails, FinalCheck, PatchFails,
      DeleteFails, serverVars
  <2>2. QED
    BY <2>1 DEF ServerStep
<1>3. QED
  BY <1>1, <1>2, PatchWrites, InstallWrites

(* A request adds one.                                                     *)
LEMMA RequestAdds ==
  ASSUME Base, NEW h \in Handlers, Request(h)
  PROVE  \E n \in Nat :
           /\ n \notin DOMAIN inst /\ n # 0 /\ DOMAIN inst' = DOMAIN inst \cup {n}
           /\ \A i \in DOMAIN inst : Same(i)
           /\ inst'[n].state = "creating" /\ inst'[n].owner = Owner(h)
           /\ inst'[n].ver = IF setup.repo = "plugin" THEN 0 ELSE pr[h].sha
           /\ \/ Goes(h, "wait") /\ target'[h] = n /\ UNCHANGED mishaps
              \/ Fails(h)
<1> USE DEF Base, Inv
<1>n. PICK n \in Nat : n = Len(inst) + 1
  BY DEF Shape
<1> DEFINE r == [state |-> "creating", owner |-> Owner(h), known |-> known[h],
                 ver |-> IF setup.repo = "plugin" THEN 0 ELSE pr[h].sha]
<1>1. Len(inst) \in Nat /\ DOMAIN inst = 1..Len(inst) /\ inst = [i \in 1..Len(inst) |-> inst[i]]
  BY DEF Shape
<1>2. inst' = Append(inst, r)
  BY DEF Request, Created
<1>3. Len(inst') = n /\ inst' = [i \in 1..n |-> IF i = n THEN r ELSE inst[i]]
  BY <1>2, <1>n DEF Shape
<1>4. n \notin DOMAIN inst /\ n # 0 /\ 1..n = DOMAIN inst \cup {n}
  BY <1>1, <1>n
<1>5. DOMAIN inst' = DOMAIN inst \cup {n} /\ inst'[n] = r /\ \A i \in DOMAIN inst : inst'[i] = inst[i]
  <2> HIDE DEF r
  <2>1. QED
    BY <1>3, <1>4
<1>6. /\ inst'[n].state = "creating" /\ inst'[n].owner = Owner(h)
      /\ inst'[n].ver = IF setup.repo = "plugin" THEN 0 ELSE pr[h].sha
  BY <1>5
<1>7. (Goes(h, "wait") /\ target'[h] = n /\ UNCHANGED mishaps) \/ Fails(h)
  BY <1>n DEF Request, ServerFails, Kinds
<1>8. \A i \in DOMAIN inst : Same(i)
  BY <1>5 DEF Same
<1>9. QED
  BY <1>4, <1>5, <1>6, <1>7, <1>8
(* A delete ends one.                                                      *)
LEMMA DeleteEnds ==
  ASSUME Base, NEW h \in Handlers, Delete(h)
  PROVE  /\ pc[h] = "delete" /\ DOMAIN inst' = DOMAIN inst
         /\ \A i \in DOMAIN inst :
              /\ i # target[h] => Same(i)
              /\ i = target[h] => ~Live(i)' /\ inst'[i].owner = inst[i].owner
         /\ mishaps' = mishaps \cup {m \in {"robbed"} : labels # {} /\ open}
         /\ Rests(h) \/ Goes(h, "wait")
<1> USE DEF Base, Inv
<1> DEFINE k == target[h]
           s == IF Live(k) THEN "pending" ELSE inst[k].state
<1>1. /\ pc[h] = "delete" /\ (Rests(h) \/ Goes(h, "wait"))
      /\ mishaps' = mishaps \cup {m \in {"robbed"} : labels # {} /\ open}
  BY DEF Delete, Rests, Goes, github
<1>2. inst' = [inst EXCEPT ![k].state = s]
  BY DEF Delete
<1> HIDE DEF s
<1>3. DOMAIN inst' = DOMAIN inst
  BY <1>2
<1>4. ASSUME NEW i \in DOMAIN inst, i # k PROVE Same(i)
  BY <1>2, <1>4 DEF Same
<1>5. ASSUME NEW i \in DOMAIN inst, i = k PROVE ~Live(i)' /\ inst'[i].owner = inst[i].owner
  <2>1. inst[i] = Field(i)
    BY DomainOfInst DEF Shape
  <2>2. inst'[i] = [inst[i] EXCEPT !.state = s]
    BY <1>2, <1>5
  <2>3. inst'[i].state = s /\ inst'[i].owner = inst[i].owner
    BY <2>1, <2>2 DEF Field
  <2>4. QED
    BY <1>5, <2>3 DEF Live, s
<1>6. QED
  BY <1>1, <1>3, <1>4, <1>5

(* The provisioner moves installations on, and does nothing else.          *)
LEMMA ProvisionerFollows ==
  ASSUME Shape, Provisioner
  PROVE  /\ UNCHANGED <<prVars, target>> /\ DOMAIN inst' = DOMAIN inst
         /\ \A i \in DOMAIN inst :
              /\ inst'[i].owner = inst[i].owner /\ inst'[i].ver = inst[i].ver
              /\ inst'[i].state = inst[i].state \/ inst'[i].state \in Follows(inst[i].state)
<1>1. UNCHANGED <<prVars, target>>
  BY DEF Provisioner
<1>2. PICK k \in DOMAIN inst : \E s \in Follows(inst[k].state) : inst' = [inst EXCEPT ![k].state = s]
  BY DEF Provisioner
<1>3. PICK s \in Follows(inst[k].state) : inst' = [inst EXCEPT ![k].state = s]
  BY <1>2
<1>4. inst'[k].state = s /\ inst'[k].owner = inst[k].owner /\ inst'[k].ver = inst[k].ver
  <2>1. inst[k] = Field(k)
    BY DomainOfInst DEF Shape
  <2>2. inst'[k] = [inst[k] EXCEPT !.state = s]
    BY <1>3
  <2>3. QED
    BY <2>1, <2>2 DEF Field
<1>5. QED
  BY <1>1, <1>3, <1>4

(* A handler has what it has asked for or found, or what it had.           *)
LEMMA TargetFacts ==
  ASSUME Kinds, NEW h \in Handlers, ServerStep(h)
  PROVE  /\ target' \in [Handlers -> Nat] \/ Request(h) \/ Find(h)
         /\ \A g \in Handlers \ {h} : target'[g] = target[g]
         /\ target'[h] \in {0, target[h]} \/ Request(h) \/ Find(h)
<1> USE DEF Kinds
<1>1. CASE Request(h) \/ Find(h)
  BY <1>1 DEF Request, Find, ServerFails, Forgets
<1>2. CASE UNCHANGED target \/ Forgets(h)
  BY <1>2 DEF Forgets
<1>3. UNCHANGED target \/ Forgets(h) \/ Request(h) \/ Find(h)
  <2>1. CASE \/ SignUp(h) \/ Login(h) \/ NoCustomer(h) \/ SessionFails(h) \/ Begins(h)
             \/ Check(h) \/ Image(h) \/ RequestFails(h) \/ Waited(h) \/ WaitFails(h)
    BY <2>1 DEF SignUp, Login, NoCustomer, SessionFails, Begins, Check, Image, RequestFails, Waited,
      WaitFails, serverVars, ServerFails, ServerEnds
  <2>2. CASE \/ Initialise(h) \/ PluginFails(h) \/ InstallPlugin(h)
             \/ FindsNothing(h) \/ FindFails(h) \/ FinalCheck(h) \/ PatchFails(h)
             \/ DeleteFails(h) \/ Delete(h) \/ Patch(h)
    BY <2>2 DEF Initialise, PluginFails, InstallPlugin, FindsNothing, FindFails, FinalCheck, PatchFails,
      DeleteFails, Delete, Patch, serverVars, ServerFails, ServerEnds
  <2>3. QED
    BY <2>1, <2>2 DEF ServerStep
<1>4. QED
  BY <1>1, <1>2, <1>3

(* The actions on a namespace are those of a CWS pull request.             *)
LEMMA KubeKinds == ASSUME NEW h, KubeStep(h) PROVE setup.repo = "cws"
BY DEF KubeStep, KubeFails, GetOrCreateNamespace, KubeImage, Deploy, CreateWebhook, RegisterStripeWebhook,
       UpdateKube, NoNamespace, DeleteNamespace, DeleteWebhooks, DeleteStripeWebhook

(* The setup of the pull request is fixed.                                 *)
LEMMA HubSetup ==
  ASSUME Sits, [Next]_vars
  PROVE  setup' = setup
<1>1. ASSUME NEW h \in Handlers, Acting(h) PROVE setup' = setup
  BY <1>1, ActingFacts
<1>2. CASE \E h \in Handlers : ServerStep(h) \/ KubeStep(h)
  BY <1>1, <1>2, ServerActing, KubeActing
<1>3. CASE People \/ DropEvent
  BY <1>3, PeopleFacts DEF DropEvent, Sits
<1>4. CASE \E h \in Handlers : HandlePullRequestEvent(h)
  BY <1>4 DEF HandlePullRequestEvent
<1>5. CASE UNCHANGED vars \/ NamespaceGone \/ Provisioner
  BY <1>5 DEF vars, NamespaceGone, Provisioner, prVars
<1>6. QED
  BY <1>2, <1>3, <1>4, <1>5 DEF Next

(* What a pull request may have, by its repository, is an invariant.       *)
LEMMA KindsStep ==
  ASSUME Base, [Next]_vars
  PROVE  Kinds'
<1> USE DEF Base, Inv
<1>1. setup' = setup
  BY HubSetup
<1>2. CASE UNCHANGED serverVars
  <2>1. setup.repo # "cws" => UNCHANGED kubeVars
    BY <1>2, KubeKinds DEF Next, vars, NamespaceGone, Kinds
  <2>2. QED
    BY <1>1, <1>2, <2>1 DEF Kinds, Cloudy, serverVars, kubeVars
<1>3. CASE Provisioner /\ UNCHANGED kubeVars
  <2>1. /\ target' = target /\ DOMAIN inst' = DOMAIN inst
        /\ \A i \in DOMAIN inst : inst'[i].owner = inst[i].owner
    BY <1>3, ProvisionerFollows
  <2>2. QED
    BY <1>1, <1>3, <2>1 DEF Kinds, Cloudy, kubeVars
<1>4. CASE UNCHANGED kubeVars /\ \E h \in Handlers : setup.repo # "cws" /\ ServerStep(h)
  <2>1. PICK h \in Handlers : setup.repo # "cws" /\ ServerStep(h)
    BY <1>4
  <2>2. UNCHANGED kubeVars /\ setup.repo # "cws"
    BY <1>4, <2>1
  <2>3. pc[h] # "idle"
    BY <2>1, ServerActing, ActingFacts
  <2>4. target' \in [Handlers -> Nat]
    <3>1. CASE Find(h)
      <4>1. PICK i \in Found(h) : target' = [target EXCEPT ![h] = i]
        BY <3>1 DEF Find
      <4>2. i \in Nat
        BY DomainOfInst DEF Found
      <4>3. QED
        BY <4>1, <4>2 DEF Kinds
    <3>2. CASE Request(h)
      <4>1. Len(inst) + 1 \in Nat
        BY DEF Shape
      <4>2. QED
        BY <3>2, <4>1 DEF Request, ServerFails, Forgets, Kinds
    <3>3. QED
      BY <2>1, <3>1, <3>2, TargetFacts
  <2>5. OneKind => \A i \in DOMAIN inst' : inst'[i].owner = IF Cloudy THEN "customer" ELSE "pr"
    <3>1. CASE Lasts(h)
      BY <3>1 DEF Lasts, Same, Installs, Patches, Kinds
    <3>2. CASE Delete(h)
      <4>1. \A i \in DOMAIN inst : inst'[i].owner = inst[i].owner
        BY <3>2, DeleteEnds DEF Same
      <4>2. DOMAIN inst' = DOMAIN inst
        BY <3>2, DeleteEnds
      <4>3. QED
        BY <4>1, <4>2 DEF Kinds
    <3>3. CASE Request(h)
      <4>1. PICK n \in Nat : /\ DOMAIN inst' = DOMAIN inst \cup {n}
                             /\ \A i \in DOMAIN inst : Same(i)
                             /\ inst'[n].owner = Owner(h)
        BY <3>3, RequestAdds
      <4>2. OneKind => Owner(h) = IF Cloudy THEN "customer" ELSE "pr"
        BY <2>3, OwnerIsOfKind
      <4>3. QED
        BY <4>1, <4>2 DEF Kinds, Same
    <3>4. QED
      BY <2>1, <3>1, <3>2, <3>3, ServerLasts
  <2>6. ASSUME NEW g \in Handlers PROVE target'[g] \in DOMAIN inst' \cup {0}
    <3>1. DOMAIN inst \subseteq DOMAIN inst'
      BY <2>1, ServerLasts, DeleteEnds, RequestAdds DEF Lasts
    <3>2. CASE g # h
      BY <2>1, <3>1, <3>2, TargetFacts DEF Kinds
    <3>3. CASE g = h /\ Find(h)
      <4>1. PICK i \in Found(h) : target' = [target EXCEPT ![h] = i]
        BY <3>3 DEF Find
      <4>2. i \in DOMAIN inst'
        BY <3>1 DEF Found
      <4>3. QED
        BY <3>3, <4>1, <4>2 DEF Kinds
    <3>4. CASE g = h /\ Request(h)
      <4>1. CASE Forgets(h)
        BY <3>4, <4>1 DEF Forgets, Kinds
      <4>2. CASE ~Forgets(h)
        <5>1. target'[h] = Len(inst) + 1 /\ inst' = Created(h)
          BY <3>4, <4>2 DEF Request, ServerFails, Kinds
        <5>2. Len(inst) \in Nat /\ Len(inst') = Len(inst) + 1 /\ DOMAIN inst' = 1..Len(inst')
          BY <5>1 DEF Shape, Created
        <5>3. QED
          BY <3>4, <5>1, <5>2
      <4>3. QED
        BY <4>1, <4>2
    <3>5. QED
      BY <2>1, <3>1, <3>2, <3>3, <3>4, TargetFacts DEF Kinds
  <2>7. QED
    BY <1>1, <2>2, <2>4, <2>5, <2>6 DEF Kinds, Cloudy, kubeVars
<1>5. QED
  BY <1>2, <1>3, <1>4 DEF Next, vars

(* What the three invariants below share holds at the start                *)
LEMMA BaseInit == Init => Base
<1> SUFFICES ASSUME Init PROVE Base
  OBVIOUS
<1>1. Kinds
  BY DEF Init, ServerInit, KubeInit, Kinds
<1>2. QED
  BY <1>1, InvInit, SitsInit DEF Base

(* ... and is inductive.                                                   *)
LEMMA BaseStep == Base /\ [Next]_vars => Base'
BY InvStep, SitsStep, KindsStep DEF Base
-----------------------------------------------------------------------------
(* A label that is on stands for a server: for an event that has not been  *)
(* handled, for a create on its way, or for a server that is there to      *)
(* stay.  A customer's installation is that once it is stable: one that    *)
(* could not be created is not live.                                       *)
Posted(action) == {e \in ToSet(net) : e.action = action}

Firm(i) == Live(i) /\ (inst[i].owner = "customer" => inst[i].state # "creating")

Awaits(h) ==
  /\ pc[h] = "wait" /\ target[h] \in DOMAIN inst
  /\ inst[target[h]].state \in {"creating", "stable", "updating", "failed"}

Carries(h) ==
  /\ op[h] = "create"
  /\ IF setup.repo = "cws" THEN pc[h] \in {"start", "image", "deploy"}
     ELSE pc[h] \in {"start", "check", "image", "request"} \/ Awaits(h)

Backs(l) ==
  \/ \E e \in Posted("labeled") : e.label = l
  \/ \E h \in Handlers : Carries(h) /\ l \in pr[h].labels
  \/ \E i \in DOMAIN inst : Firm(i)
  \/ namespace = "active"

Spared == mishaps \cap {"robbed", "kept"} = {} /\ ~closed
Backed == Spared => \A l \in labels : Backs(l)

(* No label is on at the start.                                            *)
LEMMA BackedInit == Init => Backed
BY DEF Init, PRInit, Backed

(* When nothing is on its way, what stands for a label is a server.        *)
LEMMA BackedServes == Sits /\ Backed => ServerForLabel
<1> SUFFICES ASSUME Sits, Backed, Quiet, labels # {}, ~closed, mishaps \subseteq {"leak", "stale"}
             PROVE  Up
  BY DEF ServerForLabel
<1>1. Spared
  BY DEF Spared
<1>2. PICK l \in labels : Backs(l)
  BY <1>1 DEF Backed
<1>3. Posted("labeled") = {}
  BY DEF Quiet, Posted, ToSet
<1>4. \A h \in Handlers : ~Carries(h)
  BY DEF Quiet, Carries, Awaits
<1>5. QED
  BY <1>2, <1>3, <1>4 DEF Backs, Up, Firm

(* What a step keeps of it but for the handler that takes the step.        *)
Endures(i) ==
  /\ i \in DOMAIN inst' /\ inst'[i].owner = inst[i].owner
  /\ \/ inst'[i].state = inst[i].state
     \/ inst'[i].state \in Follows(inst[i].state) \/ inst'[i].state = "updating"

(* An installation that is there to stay stays.                            *)
LEMMA EnduresFirm ==
  ASSUME NEW i \in DOMAIN inst, Endures(i)
  PROVE  /\ Firm(i) => i \in DOMAIN inst' /\ Firm(i)'
         /\ inst[i].state \in {"creating", "stable", "updating", "failed"} =>
              inst'[i].state \in {"creating", "stable", "updating", "failed"}
BY DEF Endures, Firm, Live, Follows

(* What stands for a label is lost to the handler that acts, or not at all.*)
LEMMA BacksStays ==
  ASSUME NEW h \in Handlers, Alone(h), setup' = setup,
         Posted("labeled") \subseteq Posted("labeled")',
         \A i \in DOMAIN inst : Endures(i),
         namespace = "active" => namespace' = "active",
         NEW l, Backs(l), Carries(h) /\ l \in pr[h].labels => Backs(l)'
  PROVE  Backs(l)'
<1>1. CASE \E e \in Posted("labeled") : e.label = l
  BY <1>1 DEF Backs
<1>2. CASE \E i \in DOMAIN inst : Firm(i)
  BY <1>2, EnduresFirm DEF Backs
<1>3. CASE \E g \in Handlers \ {h} : Carries(g) /\ l \in pr[g].labels
  <2>1. PICK g \in Handlers \ {h} : Carries(g) /\ l \in pr[g].labels
    BY <1>3
  <2>2. pc'[g] = pc[g] /\ op'[g] = op[g] /\ pr'[g] = pr[g] /\ target'[g] = target[g]
    BY DEF Alone
  <2>3. Awaits(g) => Awaits(g)'
    BY <2>2, EnduresFirm DEF Awaits, Endures
  <2>4. Carries(g)'
    BY <2>1, <2>2, <2>3 DEF Carries
  <2>5. QED
    BY <2>1, <2>2, <2>4 DEF Backs
<1>4. QED
  BY <1>1, <1>2, <1>3 DEF Backs

(* A handler that still carries its labels after the step, or leaves a     *)
(* server that is there to stay, or takes the labels off.                  *)
LEMMA BackedKeeps ==
  ASSUME Base, Backed, NEW h \in Handlers, Acting(h), Alone(h),
         \A i \in DOMAIN inst : Endures(i),
         namespace = "active" => namespace' = "active",
         Spared' /\ Carries(h) =>
           \/ Fails(h)
           \/ Carries(h)' /\ pr'[h] = pr[h]
           \/ \E i \in DOMAIN inst' : Firm(i)'
           \/ namespace' = "active"
  PROVE  Backed'
<1> USE DEF Base
<1>1. /\ setup' = setup /\ closed' = closed /\ mishaps \subseteq mishaps' /\ labels' \subseteq labels
      /\ ToSet(net) \subseteq ToSet(net')
  BY ActingFacts
<1> SUFFICES ASSUME Spared', NEW l \in labels' PROVE Backs(l)'
  BY DEF Backed
<1>2. Spared
  BY <1>1 DEF Spared
<1>3. Backs(l)
  BY <1>1, <1>2 DEF Backed
<1>4. Posted("labeled") \subseteq Posted("labeled")'
  BY <1>1 DEF Posted
<1>5. ASSUME Carries(h), l \in pr[h].labels PROVE Backs(l)'
  <2>1. CASE Fails(h)
    <3>1. op[h] = "create"
      BY <1>5 DEF Carries
    <3>2. "kept" \in mishaps' \/ labels' \cap pr[h].labels = {}
      BY <2>1, <3>1, FailsFacts DEF Sits
    <3>3. QED
      BY <1>5, <3>2 DEF Spared
  <2>2. CASE Carries(h)' /\ pr'[h] = pr[h]
    BY <1>5, <2>2 DEF Backs
  <2>3. CASE namespace' = "active" \/ \E i \in DOMAIN inst' : Firm(i)'
    BY <2>3 DEF Backs
  <2>4. QED
    BY <1>5, <2>1, <2>2, <2>3
<1>6. QED
  BY <1>1, <1>3, <1>4, <1>5, BacksStays

(* But for a request and a delete, a step of a handler ends none.          *)
LEMMA LastsEndures ==
  ASSUME NEW h, Lasts(h), NEW i \in DOMAIN inst
  PROVE  Endures(i)
BY DEF Lasts, Same, Installs, Patches, Endures

(* A create that goes on still carries its label.                          *)
LEMMA StandsCarries ==
  ASSUME Base, NEW h \in Handlers, NEW next, Goes(h, next), op[h] = "create",
         setup.repo # "cws", next \in {"start", "check", "image", "request"}
  PROVE  Carries(h)' /\ pr'[h] = pr[h]
<1>1. Stands(h, next) /\ Keeps
  BY GoesStands DEF Base, Sits
<1>2. QED
  BY <1>1 DEF Stands, Keeps, Carries

(* Every action of a handler on an installation keeps the labels backed.   *)
LEMMA ServerBacked ==
  ASSUME Base, Backed, NEW h \in Handlers, setup.repo # "cws", ServerStep(h), UNCHANGED kubeVars
  PROVE  Backed'
<1> USE DEF Base
<1>1. Acting(h)
  BY ServerActing
<1>2. Alone(h)
  BY <1>1, ActingFacts, TargetFacts DEF Alone
<1>3. namespace' = namespace /\ mishaps \subseteq mishaps' /\ setup' = setup
  BY <1>1, ActingFacts DEF kubeVars
<1>4. CASE Delete(h)
  <2>1. /\ mishaps' = mishaps \cup {m \in {"robbed"} : labels # {} /\ open}
        /\ Rests(h) \/ Goes(h, "wait")
    BY <1>4, DeleteEnds
  <2>2. labels' = labels /\ closed' = closed /\ (closed \/ open)
    BY <2>1 DEF Rests, Goes, github, Sits, Hub
  <2>3. "robbed" \in mishaps' \/ labels = {} \/ ~open
    BY <2>1
  <2>4. QED
    BY <2>2, <2>3 DEF Backed, Spared
<1>5. CASE Request(h)
  <2>1. PICK n \in Nat :
          /\ n \notin DOMAIN inst /\ DOMAIN inst' = DOMAIN inst \cup {n}
          /\ \A i \in DOMAIN inst : Same(i)
          /\ inst'[n].state = "creating"
          /\ \/ Goes(h, "wait") /\ target'[h] = n
             \/ Fails(h)
    BY <1>5, RequestAdds
  <2>2. \A i \in DOMAIN inst : Endures(i)
    BY <2>1 DEF Same, Endures
  <2>3. ASSUME Goes(h, "wait"), target'[h] = n, Carries(h) PROVE Carries(h)' /\ pr'[h] = pr[h]
    <3>1. Stands(h, "wait")
      BY <2>3, GoesStands DEF Sits
    <3>2. Awaits(h)'
      BY <2>1, <2>3, <3>1 DEF Awaits, Stands
    <3>3. QED
      BY <1>3, <2>3, <3>1, <3>2 DEF Stands, Carries
  <2>4. QED
    BY <1>1, <1>2, <1>3, <2>1, <2>2, <2>3, BackedKeeps
<1>6. CASE Lasts(h) /\ ~Request(h) /\ ~Delete(h)
  <2>1. \A i \in DOMAIN inst : Endures(i)
    BY <1>6, LastsEndures
  <2>2. ASSUME Spared', Carries(h)
        PROVE  \/ Fails(h) \/ (Carries(h)' /\ pr'[h] = pr[h])
               \/ \E i \in DOMAIN inst' : Firm(i)'
    <3>1. op[h] = "create" /\ pc[h] \in {"start", "check", "image", "request", "wait"}
      BY <2>2 DEF Carries, Awaits
    <3>2. CASE SignUp(h) \/ Login(h) \/ SessionFails(h) \/ Begins(h)
      <4>1. Fails(h) \/ Goes(h, "check")
        BY <3>1, <3>2 DEF SignUp, Login, SessionFails, Begins, ServerFails
      <4>2. QED
        BY <3>1, <4>1, StandsCarries
    <3>3. CASE NoCustomer(h)
      BY <2>2, <3>3 DEF NoCustomer, Spared
    <3>4. CASE Check(h) \/ Image(h) \/ RequestFails(h) \/ WaitFails(h)
      <4>1. Fails(h) \/ Goes(h, "image") \/ Goes(h, "request")
        BY <3>1, <3>4 DEF Check, Image, RequestFails, WaitFails, ServerFails
      <4>2. QED
        BY <3>1, <4>1, StandsCarries
    <3>5. CASE Waited(h)
      <4>1. pc[h] = "wait" /\ inst' = inst /\ inst[target[h]].state = "stable"
        BY <3>1, <3>5 DEF Waited
      <4>2. target[h] \in DOMAIN inst
        BY <2>2, <4>1 DEF Carries, Awaits
      <4>3. Firm(target[h])
        BY <4>1 DEF Firm, Live
      <4>4. PICK i \in DOMAIN inst : Firm(i)
        BY <4>2, <4>3
      <4>5. QED
        BY <4>1, <4>4 DEF Firm, Live
    <3>6. CASE Initialise(h) \/ InstallPlugin(h) \/ PluginFails(h) \/ Find(h) \/ FindsNothing(h)
               \/ FindFails(h) \/ FinalCheck(h) \/ Patch(h) \/ PatchFails(h) \/ DeleteFails(h)
      BY <3>1, <3>6 DEF Initialise, InstallPlugin, PluginFails, Find, FindsNothing, FindFails, FinalCheck,
        Patch, PatchFails, DeleteFails
    <3>7. QED
      BY <1>6, <3>2, <3>3, <3>4, <3>5, <3>6 DEF ServerStep
  <2>3. QED
    BY <1>1, <1>2, <1>3, <2>1, <2>2, BackedKeeps
<1>7. QED
  BY <1>4, <1>5, <1>6, ServerLasts DEF Inv

(* So does every action on a namespace,                                    *)
LEMMA KubeBacked ==
  ASSUME Base, Backed, NEW h \in Handlers, KubeStep(h), UNCHANGED serverVars
  PROVE  Backed'
<1> USE DEF Base
<1>1. Acting(h) /\ setup.repo = "cws"
  BY KubeActing, KubeKinds
<1>2. Alone(h)
  BY <1>1, ActingFacts DEF Alone, serverVars
<1>3. setup' = setup /\ \A i \in DOMAIN inst : Endures(i)
  BY <1>1, ActingFacts DEF Endures, serverVars
<1>4. CASE DeleteNamespace(h)
  <2>1. /\ \/ "robbed" \in mishaps' \/ labels = {} \/ ~open
        /\ labels' = labels /\ closed' = closed /\ (closed \/ open)
    BY <1>4 DEF DeleteNamespace, github, Sits, Hub
  <2>2. QED
    BY <2>1 DEF Backed, Spared
<1>5. CASE ~DeleteNamespace(h)
  <2>1. namespace = "active" => namespace' = "active"
    BY <1>5 DEF KubeStep, KubeFails, GetOrCreateNamespace, KubeImage, Deploy, CreateWebhook,
      RegisterStripeWebhook, UpdateKube, NoNamespace, DeleteWebhooks, DeleteStripeWebhook, kubeVars
  <2>2. ASSUME Carries(h)
        PROVE  Fails(h) \/ (Carries(h)' /\ pr'[h] = pr[h]) \/ namespace' = "active"
    <3>1. op[h] = "create" /\ pc[h] \in {"start", "image", "deploy"}
      BY <1>1, <2>2 DEF Carries
    <3>2. Fails(h) \/ Deploy(h) \/ Goes(h, "image") \/ Goes(h, "deploy")
      BY <1>5, <3>1 DEF KubeStep, KubeFails, GetOrCreateNamespace, KubeImage, CreateWebhook,
        RegisterStripeWebhook, UpdateKube, NoNamespace, DeleteWebhooks, DeleteStripeWebhook
    <3>3. CASE Goes(h, "image") \/ Goes(h, "deploy")
      <4>1. Stands(h, "image") \/ Stands(h, "deploy")
        BY <3>3, GoesStands DEF Sits
      <4>2. QED
        BY <1>1, <1>3, <3>1, <4>1 DEF Stands, Carries
    <3>4. CASE Deploy(h)
      BY <3>4 DEF Deploy
    <3>5. QED
      BY <3>2, <3>3, <3>4
  <2>3. QED
    BY <1>1, <1>2, <1>3, <2>1, <2>2, BackedKeeps
<1>6. QED
  BY <1>4, <1>5

(* A label that is put on is posted, and a create that starts with it      *)
(* carries it.                                                             *)
LEMMA EventBacked ==
  ASSUME Base, Backed, People \/ DropEvent \/ (\E h \in Handlers : HandlePullRequestEvent(h)),
         UNCHANGED <<serverVars, kubeVars>>
  PROVE  Backed'
<1> USE DEF Base, Sits
<1>0. inst' = inst /\ target' = target /\ namespace' = namespace
  BY DEF serverVars, kubeVars
<1>1. CASE DropEvent
  BY <1>1 DEF DropEvent, Backed, Spared, Mishaps
<1>2. CASE People
  <2>1. UNCHANGED <<setup, handler, mishaps>>
    BY <1>2, PeopleFacts
  <2>2. UNCHANGED <<setup, pc, op, pr, mishaps>>
    BY <2>1 DEF handler
  <2>3. /\ ToSet(net) \subseteq ToSet(net') /\ (closed => closed')
        /\ \A l \in labels' \ labels : \E e \in ToSet(net') : e.action = "labeled" /\ e.label = l
    BY <1>2, PeopleFacts
  <2> SUFFICES ASSUME Spared', NEW l \in labels' PROVE Backs(l)'
    BY DEF Backed
  <2>4. CASE l \in labels
    <3>1. Backs(l)
      BY <2>2, <2>3, <2>4 DEF Backed, Spared
    <3>2. Posted("labeled") \subseteq Posted("labeled")'
      BY <2>3 DEF Posted
    <3>3. \A h \in Handlers : Carries(h)' <=> Carries(h)
      BY <1>0, <2>2 DEF Carries, Awaits
    <3>4. \A i \in DOMAIN inst : Firm(i)' <=> Firm(i)
      BY <1>0 DEF Firm, Live
    <3>5. QED
      BY <1>0, <2>2, <3>1, <3>2, <3>3, <3>4 DEF Backs
  <2>5. CASE l \notin labels
    <3>1. PICK e \in ToSet(net') : e.action = "labeled" /\ e.label = l
      BY <2>3, <2>5
    <3>2. e \in Posted("labeled")'
      BY <3>1 DEF Posted
    <3>3. QED
      BY <3>1, <3>2 DEF Backs
  <2>6. QED
    BY <2>4, <2>5
<1>3. CASE \E h \in Handlers : HandlePullRequestEvent(h)
  <2>1. PICK h \in Handlers : HandlePullRequestEvent(h)
    BY <1>3
  <2>2. PICK e \in ToSet(net) :
          /\ pc[h] = "idle" /\ op[h] = "none"
          /\ UNCHANGED <<setup, labels, open, head, closed>>
          /\ mishaps \subseteq mishaps'
          /\ ToSet(net) \ {e} \subseteq ToSet(net')
          /\ \A g \in Handlers \ {h} : pc'[g] = pc[g] /\ op'[g] = op[g] /\ pr'[g] = pr[g]
          /\ op'[h] = OpOf(e, labels)
          /\ OpOf(e, labels) # "none" => pc'[h] = "start" /\ pr'[h].labels = labels
    BY <2>1, HandleFacts
  <2> SUFFICES ASSUME Spared', NEW l \in labels' PROVE Backs(l)'
    BY DEF Backed
  <2>3. Backs(l)
    BY <2>2 DEF Backed, Spared
  <2>4. CASE e.action = "labeled"
    <3>1. e.open
      BY <2>2 DEF Hub, Tells, Spared
    <3>2. OpOf(e, labels) = "create"
      BY <2>4, <3>1, OpOfFacts
    <3>3. Carries(h)' /\ l \in pr'[h].labels
      BY <2>2, <3>2 DEF Carries
    <3>4. QED
      BY <3>3 DEF Backs
  <2>5. CASE e.action # "labeled"
    <3>1. Posted("labeled") \subseteq Posted("labeled")'
      BY <2>2, <2>5 DEF Posted
    <3>2. ~Carries(h) /\ Alone(h) /\ \A i \in DOMAIN inst : Endures(i)
      BY <1>0, <2>2 DEF Carries, Alone, Endures
    <3>3. QED
      BY <1>0, <2>2, <2>3, <3>1, <3>2, BacksStays
  <2>6. QED
    BY <2>4, <2>5
<1>4. QED
  BY <1>1, <1>2, <1>3

(* ... and every step of the provisioner.                                  *)
LEMMA ProvisionerBacked ==
  ASSUME Base, Backed, Provisioner, UNCHANGED kubeVars
  PROVE  Backed'
<1>1. /\ UNCHANGED <<prVars, target>> /\ DOMAIN inst' = DOMAIN inst
      /\ \A i \in DOMAIN inst :
           /\ inst'[i].owner = inst[i].owner
           /\ inst'[i].state = inst[i].state \/ inst'[i].state \in Follows(inst[i].state)
  BY ProvisionerFollows DEF Base, Inv
<1>2. UNCHANGED <<setup, labels, net, closed, pc, op, pr, mishaps, target, namespace>>
  BY <1>1 DEF prVars, github, handler, kubeVars
<1>3. \A i \in DOMAIN inst : Endures(i)
  BY <1>1 DEF Endures
<1>4. \A h \in Handlers : Carries(h) => Carries(h)'
  <2>1. \A h \in Handlers : Awaits(h) => Awaits(h)'
    BY <1>1, <1>2, <1>3, EnduresFirm DEF Awaits
  <2>2. QED
    BY <1>2, <2>1 DEF Carries
<1>5. ASSUME NEW l, Backs(l) PROVE Backs(l)'
  BY <1>2, <1>3, <1>4, <1>5, EnduresFirm DEF Backs, Posted
<1>6. QED
  BY <1>2, <1>5 DEF Backed, Spared

(* The invariant is inductive.                                             *)
LEMMA BackedStep == Base /\ Backed /\ [Next]_vars => Backed'
<1> SUFFICES ASSUME Base, Backed, [Next]_vars PROVE Backed'
  OBVIOUS
<1>1. CASE UNCHANGED vars \/ (NamespaceGone /\ UNCHANGED serverVars)
  <2>1. /\ UNCHANGED <<setup, labels, net, closed, pc, op, pr, mishaps, target, inst>>
        /\ namespace = "active" => namespace' = "active"
    BY <1>1 DEF vars, prVars, github, handler, serverVars, kubeVars, NamespaceGone
  <2>2. \A l : Backs(l) => Backs(l)'
    BY <2>1 DEF Backs, Posted, Carries, Awaits, Firm, Live
  <2>3. QED
    BY <2>1, <2>2 DEF Backed, Spared
<1>2. CASE Next
  BY <1>1, <1>2, ServerBacked, KubeBacked, EventBacked, ProvisionerBacked DEF Next
<1>3. QED
  BY <1>1, <1>2

(* When everything has been handled and a label is on, it stands for a     *)
(* server (the ends of handleCreateSpinWick): unless one was deleted with  *)
(* a label on, or a label could not be taken off after an error.           *)
THEOREM LabelHasServer == Spec => []ServerForLabel
<1>1. Init => Base /\ Backed
  BY BaseInit, BackedInit
<1>2. Base /\ Backed /\ [Next]_vars => (Base /\ Backed)'
  BY BaseStep, BackedStep
<1>3. Base /\ Backed => ServerForLabel
  BY BackedServes DEF Base
<1>4. QED
  BY <1>1, <1>2, <1>3, PTL DEF Spec
-----------------------------------------------------------------------------
(* What is there will be destroyed when it has to be: a destroy has been   *)
(* asked for and has not looked yet (Due), or none is needed as a label is *)
(* on (Will), or the installation has been found by a destroy (Doomed).    *)
(* The webhooks of a namespace are taken down by who takes it down.        *)
Seeks(h) == op[h] = "destroy" /\ pc[h] \in {"start", "find"}

Due ==
  \/ Posted("unlabeled") # {}
  \/ Posted("closed") # {} /\ labels # {}
  \/ \E h \in Handlers : Seeks(h)

Will == Due \/ (labels # {} /\ open)

Dooms(h, i) == op[h] = "destroy" /\ pc[h] = "delete" /\ target[h] = i
Doomed(i) == \E h \in Handlers : Dooms(h, i)

(* A create on its way, before its server is asked for or, of a CWS pull   *)
(* request, until it is done.                                              *)
Making(h) ==
  /\ op[h] = "create"
  /\ IF setup.repo = "cws" THEN pc[h] # "idle" ELSE pc[h] \in {"start", "check", "image", "request"}

Takes == \A h \in Handlers : Making(h) => Will
Lives == \A i \in DOMAIN inst : Live(i) => Will \/ Doomed(i)
Tied ==
  /\ namespace = "active" => Will
  /\ \A h \in Handlers : pc[h] \in {"webhook", "stripe"} => namespace = "active"
  /\ hooks => namespace = "active" \/ \E h \in Handlers : pc[h] = "hooks"
  /\ stripe => namespace = "active" \/ \E h \in Handlers : pc[h] \in {"hooks", "unstripe"}

Safe == "leak" \notin mishaps => Takes /\ Lives /\ (setup.repo = "cws" => Tied)

(* There is nothing to destroy at the start.                               *)
LEMMA SafeInit == Init => Safe
BY DEF Init, PRInit, ServerInit, KubeInit, Safe, Takes, Lives, Tied, Making

(* When everything has been handled, no destroy is on its way.             *)
LEMMA QuietIsNotDue == Quiet => ~Due /\ \A i : ~Doomed(i)
BY DEF Quiet, Due, Posted, ToSet, Seeks, Doomed, Dooms

(* When everything has been handled, what is there is wanted.              *)
LEMMA SafeLeavesNothing == Base /\ Safe => NothingLeftBehind
<1> SUFFICES ASSUME Base, Safe, Quiet, labels = {} \/ ~open, "leak" \notin mishaps
             PROVE  ~Up /\ ~hooks /\ ~stripe
  BY DEF NothingLeftBehind
<1>1. ~Will /\ \A i : ~Doomed(i)
  BY QuietIsNotDue DEF Will
<1>2. \A h \in Handlers : pc[h] = "idle"
  BY DEF Quiet
<1>3. QED
  BY <1>1, <1>2 DEF Safe, Lives, Tied, Up, Base, Kinds

(* What is due stays due until a destroy looks.                            *)
LEMMA DueStays ==
  ASSUME Sits, NEW h \in Handlers, Acting(h), Seeks(h) => Due'
  PROVE  /\ Due => Due'
         /\ labels' # labels => Due'
         /\ Will => Will'
<1> USE DEF Sits
<1>1. /\ setup' = setup /\ open' = open /\ ToSet(net) \subseteq ToSet(net')
      /\ \A g \in Handlers \ {h} : pc'[g] = pc[g] /\ op'[g] = op[g]
      /\ labels' \subseteq labels /\ (Fails(h) \/ labels' = labels)
  BY ActingFacts
<1>2. ASSUME labels' # labels PROVE Due'
  <2>1. Fails(h) /\ op[h] = "create"
    BY <1>1, <1>2, FailsFacts
  <2>2. PICK l \in labels : l \notin labels'
    BY <1>1, <1>2
  <2>3. Off(l) \in ToSet(net')
    BY <2>1, <2>2, FailsFacts
  <2>4. Off(l).action = "unlabeled"
    BY DEF Off, Event
  <2>5. Off(l) \in Posted("unlabeled")'
    BY <2>3, <2>4 DEF Posted
  <2>6. QED
    BY <2>5 DEF Due
<1>3. ASSUME Due PROVE Due'
  <2>1. Posted("unlabeled") \subseteq Posted("unlabeled")' /\ Posted("closed") \subseteq Posted("closed")'
    BY <1>1 DEF Posted
  <2>2. CASE labels' # labels
    BY <1>2, <2>2
  <2>3. CASE labels' = labels
    <3>1. ASSUME NEW g \in Handlers, Seeks(g) PROVE Due'
      BY <1>1, <3>1 DEF Seeks, Due
    <3>2. QED
      BY <1>3, <2>1, <2>3, <3>1 DEF Due
  <2>4. QED
    BY <2>2, <2>3
<1>4. Will => Will'
  BY <1>1, <1>2, <1>3 DEF Will
<1>5. QED
  BY <1>2, <1>3, <1>4

(* The action of a handler changes neither creates nor destroys of others. *)
LEMMA MakingAlone ==
  ASSUME NEW h \in Handlers, Alone(h), setup' = setup
  PROVE  /\ \A g \in Handlers \ {h} : Making(g)' <=> Making(g)
         /\ \A g \in Handlers \ {h} : \A i : Dooms(g, i)' <=> Dooms(g, i)
BY DEF Alone, Making, Dooms

(* A step of a handler of an installation that is not the look of a        *)
(* destroy.                                                                *)
LEMMA SafeKeeps ==
  ASSUME Base, Safe, NEW h \in Handlers, Acting(h), Alone(h), setup.repo # "cws",
         "leak" \notin mishaps' =>
           /\ Seeks(h) => Due'
           /\ Making(h)' => Making(h)
           /\ \A i \in DOMAIN inst' : Live(i)' => (i \in DOMAIN inst /\ Live(i)) \/ Making(h)
           /\ \A i \in DOMAIN inst : Dooms(h, i) => ~Live(i)' \/ Dooms(h, i)'
  PROVE  Safe'
<1> USE DEF Base
<1> SUFFICES ASSUME "leak" \notin mishaps' PROVE Takes' /\ Lives'
  BY ActingFacts DEF Safe
<1>1. setup' = setup /\ mishaps \subseteq mishaps'
  BY ActingFacts
<1>2. Takes /\ Lives
  BY <1>1 DEF Safe
<1>3. Will => Will'
  BY DueStays
<1>4. Takes'
  BY <1>1, <1>2, <1>3, MakingAlone DEF Takes
<1>5. \A i \in DOMAIN inst : Doomed(i) => ~Live(i)' \/ Doomed(i)'
  BY <1>1, MakingAlone DEF Doomed
<1>6. Lives'
  BY <1>2, <1>3, <1>5 DEF Lives, Takes
<1>7. QED
  BY <1>4, <1>6

(* But for a request and a delete, what is live stays so.                  *)
LEMMA LastsLive ==
  ASSUME NEW h, Lasts(h), NEW i \in DOMAIN inst
  PROVE  Live(i)' <=> Live(i)
BY DEF Lasts, Same, Installs, Patches, Live

(* A look of a destroy that is no mishap: no create is on its way, and     *)
(* what is live is what it has found.                                      *)
Clears(h) ==
  /\ Seeks(h) /\ (Rests(h) \/ Goes(h, "delete"))
  /\ inst' = inst
  /\ \A c \in Handlers : ~InFlight(c)
  /\ \A i \in DOMAIN inst : Live(i) => Dooms(h, i)'

(* The steps of a handler of an installation, as far as what has to be     *)
(* destroyed goes.                                                         *)
LEMMA ServerSeeks ==
  ASSUME Base, OneKind, NEW h \in Handlers, setup.repo # "cws", ServerStep(h), "leak" \notin mishaps'
  PROVE  \/ Clears(h)
         \/ /\ Seeks(h) => Seeks(h)'
            /\ Making(h)' => Making(h)
            /\ \A i \in DOMAIN inst' : Live(i)' => (i \in DOMAIN inst /\ Live(i)) \/ Making(h)
            /\ \A i \in DOMAIN inst : Dooms(h, i) => ~Live(i)' \/ Dooms(h, i)'
<1> USE DEF Base
<1>1. Acting(h)
  BY ServerActing
<1>2. /\ setup' = setup /\ pc[h] # "idle" /\ op[h] \in {"create", "update", "destroy"}
      /\ pc[h] \in Stages(op[h]) /\ mishaps \subseteq mishaps'
  BY <1>1, ActingFacts
<1>3. CASE op[h] = "destroy" /\ Find(h)
  <2>1. PICK i \in Found(h) :
          /\ pc[h] = "find" /\ Goes(h, "delete") /\ inst' = inst
          /\ target' = [target EXCEPT ![h] = i]
          /\ mishaps' = mishaps \cup
               {m \in {"leak"} : (\E c \in Handlers : InFlight(c)) \/ \E j \in DOMAIN inst \ {i} : Live(j)}
    BY <1>3 DEF Find
  <2>2. ~((\E c \in Handlers : InFlight(c)) \/ \E j \in DOMAIN inst \ {i} : Live(j))
    BY <2>1
  <2>3. target'[h] = i /\ Stands(h, "delete")
    BY <2>1, GoesStands DEF Kinds, Sits
  <2>4. \A j \in DOMAIN inst : Live(j) => Dooms(h, j)'
    BY <1>3, <2>2, <2>3 DEF Dooms, Stands
  <2>5. QED
    BY <1>3, <2>1, <2>2, <2>4 DEF Clears, Seeks
<1>4. CASE op[h] = "destroy" /\ FindsNothing(h)
  <2>1. /\ pc[h] = "find" /\ Found(h) = {} /\ Rests(h) /\ inst' = inst
        /\ mishaps' = (mishaps \cup {m \in {"leak"} : \E c \in Handlers : InFlight(c)})
    BY <1>4 DEF FindsNothing, Rests
  <2>2. \A c \in Handlers : ~InFlight(c)
    BY <2>1
  <2>3. \A i \in DOMAIN inst : ~Live(i)
    BY <1>2, <2>1, OwnerIsOfKind, LookSeesLive DEF Kinds
  <2>4. QED
    BY <1>4, <2>1, <2>2, <2>3 DEF Clears, Seeks
<1>5. CASE Request(h)
  <2>1. pc[h] = "request"
    BY <1>5 DEF Request
  <2>2. op[h] = "create"
    BY <1>2, <2>1 DEF Stages
  <2>3. Making(h) /\ ~Seeks(h) /\ \A i : ~Dooms(h, i)
    BY <2>1, <2>2 DEF Making, Seeks, Dooms
  <2>4. QED
    BY <2>3
<1>6. CASE Delete(h)
  <2>1. /\ pc[h] = "delete" /\ DOMAIN inst' = DOMAIN inst
        /\ \A i \in DOMAIN inst :
             /\ i # target[h] => Same(i)
             /\ i = target[h] => ~Live(i)'
        /\ Rests(h) \/ Goes(h, "wait")
    BY <1>6, DeleteEnds
  <2>2. op[h] = "destroy"
    BY <1>2, <2>1 DEF Stages
  <2>3. ~Seeks(h) /\ ~Making(h)'
    <3>1. Stops(h) \/ Stands(h, "wait")
      BY <2>1, FailsStops, GoesStands DEF Sits
    <3>2. QED
      BY <2>1, <2>2, <3>1 DEF Seeks, Making, Stops, Stands
  <2>4. \A i \in DOMAIN inst : Live(i)' => Live(i)
    BY <2>1 DEF Same, Live
  <2>5. \A i \in DOMAIN inst : Dooms(h, i) => ~Live(i)'
    BY <2>1 DEF Dooms
  <2>6. QED
    BY <2>1, <2>3, <2>4, <2>5
<1>7. CASE Lasts(h) /\ ~(op[h] = "destroy" /\ (Find(h) \/ FindsNothing(h))) /\ ~Request(h) /\ ~Delete(h)
  <2>1. \A i \in DOMAIN inst' : Live(i)' => i \in DOMAIN inst /\ Live(i)
    BY <1>7, LastsLive DEF Lasts
  <2>2. op[h] = "destroy" => ~Fails(h)
    BY FailsFacts DEF Sits
  <2>3. ASSUME op[h] = "destroy"
        PROVE  (Seeks(h) => Seeks(h)') /\ pc[h] # "delete" /\ ~Making(h)'
    <3>1. pc[h] \in {"start", "find", "delete", "wait", "hooks", "unstripe"}
      BY <1>2, <2>3 DEF Stages
    <3>2. pc[h] = "start" => Goes(h, "find")
      BY <1>7, <2>2, <2>3 DEF ServerStep, SignUp, Login, NoCustomer, SessionFails, Begins, Check, Image,
        RequestFails, Waited, WaitFails, Initialise, InstallPlugin, PluginFails, Find, FindsNothing,
        FindFails, FinalCheck, Patch, PatchFails, DeleteFails, ServerFails
    <3>3. pc[h] \notin {"find", "delete"}
      BY <1>7, <2>2, <2>3 DEF ServerStep, SignUp, Login, NoCustomer, SessionFails, Begins, Check, Image,
        RequestFails, Waited, WaitFails, Initialise, InstallPlugin, PluginFails, FindFails, FinalCheck,
        Patch, PatchFails, DeleteFails, ServerFails
    <3>4. pc[h] = "start" => Stands(h, "find")
      BY <3>2, GoesStands DEF Sits
    <3>5. ~Making(h)'
      BY <1>1, <2>2, <2>3, FailsStops, GoesStands DEF Acting, Sits, Stops, Stands, Making
    <3>6. QED
      BY <2>3, <3>3, <3>4, <3>5 DEF Seeks, Stands
  <2>4. ASSUME op[h] # "destroy"
        PROVE  ~Seeks(h) /\ (\A i : ~Dooms(h, i)) /\ (Making(h)' => Making(h))
    <3>1. ~Seeks(h) /\ \A i : ~Dooms(h, i)
      BY <2>4 DEF Seeks, Dooms
    <3>2. CASE op[h] = "create" /\ pc[h] \in {"start", "check", "image", "request"}
      BY <3>1, <3>2 DEF Making
    <3>3. CASE op[h] = "create" /\ pc[h] \notin {"start", "check", "image", "request"}
      <4>1. pc[h] \notin {"find", "recheck", "patch", "delete"}
        BY <1>2, <3>3 DEF Stages
      <4>2. Fails(h) \/ Idle(h) \/ Goes(h, "init") \/ Goes(h, "plugin")
        BY <1>7, <3>3, <4>1 DEF ServerStep, SignUp, Login, NoCustomer, SessionFails, Begins, Check, Image,
          RequestFails, Waited, WaitFails, Initialise, InstallPlugin, PluginFails, Find, FindsNothing,
          FindFails, FinalCheck, Patch, PatchFails, DeleteFails, ServerFails, ServerEnds, Ends
      <4>3. Stops(h) \/ Stands(h, "init") \/ Stands(h, "plugin")
        BY <4>2, FailsStops, GoesStands DEF Sits
      <4>4. QED
        BY <1>2, <3>1, <4>3 DEF Stops, Stands, Making
    <3>4. CASE op[h] = "update"
      BY <1>1, <3>1, <3>4, FailsStops, GoesStands DEF Acting, Sits, Stops, Stands, Making
    <3>5. QED
      BY <1>2, <2>4, <3>2, <3>3, <3>4
  <2>5. QED
    BY <2>1, <2>3, <2>4 DEF Dooms
<1>8. QED
  BY <1>3, <1>4, <1>5, <1>6, <1>7, ServerLasts DEF Inv

(* Every action of a handler on an installation keeps the invariant.       *)
LEMMA ServerSafe ==
  ASSUME Base, OneKind, Safe, NEW h \in Handlers, setup.repo # "cws", ServerStep(h)
  PROVE  Safe'
<1> USE DEF Base
<1>1. Acting(h)
  BY ServerActing
<1>2. Alone(h)
  BY <1>1, ActingFacts, TargetFacts DEF Alone
<1>3. setup' = setup
  BY <1>1, ActingFacts
<1>4. CASE "leak" \in mishaps'
  BY <1>4 DEF Safe
<1>5. CASE Clears(h)
  <2>1. ~Making(h)'
    BY <1>5, FailsStops, GoesStands DEF Clears, Seeks, Sits, Stops, Stands, Making
  <2>2. \A g \in Handlers \ {h} : ~Making(g)'
    BY <1>2, <1>3, <1>5, MakingAlone DEF Clears, Making, InFlight
  <2>3. Takes'
    BY <2>1, <2>2 DEF Takes
  <2>4. Lives'
    BY <1>5 DEF Clears, Lives, Live, Doomed
  <2>5. QED
    BY <1>3, <2>3, <2>4 DEF Safe
<1>6. CASE ~Clears(h) /\ "leak" \notin mishaps'
  <2>1. /\ Seeks(h) => Seeks(h)'
        /\ Making(h)' => Making(h)
        /\ \A i \in DOMAIN inst' : Live(i)' => (i \in DOMAIN inst /\ Live(i)) \/ Making(h)
        /\ \A i \in DOMAIN inst : Dooms(h, i) => ~Live(i)' \/ Dooms(h, i)'
    BY <1>6, ServerSeeks
  <2>2. Seeks(h) => Due'
    BY <2>1 DEF Due
  <2>3. QED
    BY <1>1, <1>2, <2>1, <2>2, SafeKeeps
<1>7. QED
  BY <1>4, <1>5, <1>6

(* So does every action on a namespace.                                    *)
LEMMA KubeSafe ==
  ASSUME Base, Safe, NEW h \in Handlers, KubeStep(h), UNCHANGED serverVars
  PROVE  Safe'
<1> USE DEF Base
<1>1. Acting(h) /\ setup.repo = "cws"
  BY KubeActing, KubeKinds
<1>2. Alone(h)
  BY <1>1, ActingFacts DEF Alone, serverVars
<1>3. /\ setup' = setup /\ pc[h] # "idle" /\ op[h] \in {"create", "update", "destroy"}
      /\ pc[h] \in Stages(op[h]) /\ mishaps \subseteq mishaps'
  BY <1>1, ActingFacts
<1>4. Lives'
  BY <1>1 DEF Kinds, Lives, serverVars
<1> SUFFICES ASSUME "leak" \notin mishaps' PROVE Takes' /\ Tied'
  BY <1>4 DEF Safe
<1>5. Takes /\ Tied
  BY <1>1, <1>3 DEF Safe
<1>6. ~(op[h] = "destroy" /\ Fails(h))
  BY FailsFacts DEF Sits
<1>7. \A g \in Handlers : pc[g] \in {"webhook", "stripe"} => Making(g)
  <2>1. \A g \in Handlers : pc[g] \in {"webhook", "stripe"} => op[g] = "create"
    BY DEF Sits, Seated, Seat, Stages
  <2>2. QED
    BY <1>1, <2>1 DEF Making
<1>8. pc[h] \in {"hooks", "unstripe"} => op[h] = "destroy"
  BY <1>3 DEF Stages
<1>9. CASE NoNamespace(h) \/ DeleteNamespace(h)
  <2>1. /\ pc[h] = "start" /\ op[h] = "destroy" /\ namespace' # "active" /\ namespace' \in {"none", "terminating"}
        /\ UNCHANGED <<hooks, stripe>>
        /\ \A c \in Handlers : ~Creating(c)
        /\ Rests(h) \/ Goes(h, "hooks")
        /\ namespace = "active" => Goes(h, "hooks")
    BY <1>9 DEF NoNamespace, DeleteNamespace, kubeVars, Rests, Goes
  <2>2. \A c \in Handlers : ~Making(c)
    BY <2>1 DEF Making, Creating
  <2>3. Stops(h) \/ Stands(h, "hooks")
    BY <2>1, FailsStops, GoesStands DEF Sits
  <2>4. ~Making(h)' /\ pc'[h] \notin {"webhook", "stripe"}
    BY <2>1, <2>3 DEF Stops, Stands, Making
  <2>5. Takes'
    BY <1>2, <1>3, <2>2, <2>4, MakingAlone DEF Takes
  <2>6. \A g \in Handlers : pc'[g] \notin {"webhook", "stripe"}
    BY <1>2, <1>7, <2>2, <2>4 DEF Alone
  <2>7. namespace = "active" => pc'[h] = "hooks"
    BY <2>1, GoesStands DEF Sits, Stands
  <2>8. Tied'
    BY <1>2, <1>5, <2>1, <2>6, <2>7 DEF Tied, Alone
  <2>9. QED
    BY <2>5, <2>8
<1>10. CASE ~NoNamespace(h) /\ ~DeleteNamespace(h)
  <2>1. ~Seeks(h)
    BY <1>6, <1>10 DEF KubeStep, KubeFails, GetOrCreateNamespace, KubeImage, Deploy, CreateWebhook,
      RegisterStripeWebhook, UpdateKube, DeleteWebhooks, DeleteStripeWebhook, Seeks
  <2>2. Will => Will'
    BY <1>1, <2>1, DueStays
  <2>3. Making(h)' => Making(h)
    BY <1>1, <1>3, FailsStops, GoesStands DEF Acting, Sits, Stops, Stands, Making
  <2>4. Takes'
    BY <1>2, <1>3, <1>5, <2>2, <2>3, MakingAlone DEF Takes
  <2>5. /\ namespace = "active" => namespace' = "active"
        /\ namespace' = "active" => namespace = "active" \/ Making(h)
    BY <1>1, <1>3, <1>10 DEF KubeStep, KubeFails, GetOrCreateNamespace, KubeImage, Deploy, CreateWebhook,
      RegisterStripeWebhook, UpdateKube, DeleteWebhooks, DeleteStripeWebhook, kubeVars, Making
  <2>6. \/ Fails(h) \/ Ends(h) \/ Idle(h) \/ Goes(h, "image") \/ Goes(h, "deploy")
        \/ Goes(h, "webhook") /\ namespace = "active"
        \/ Goes(h, "stripe") /\ pc[h] = "webhook"
        \/ Goes(h, "unstripe") /\ ~hooks'
    BY <1>10 DEF KubeStep, KubeFails, GetOrCreateNamespace, KubeImage, Deploy, CreateWebhook,
      RegisterStripeWebhook, UpdateKube, DeleteWebhooks, DeleteStripeWebhook, Goes
  <2>7. pc'[h] \in {"webhook", "stripe"} => namespace = "active"
    <3>1. CASE Fails(h) \/ Ends(h) \/ Idle(h)
      BY <3>1, FailsStops DEF Sits, Ends, Stops
    <3>2. CASE Goes(h, "image") \/ Goes(h, "deploy") \/ Goes(h, "unstripe")
      BY <3>2, GoesStands DEF Sits, Stands
    <3>3. QED
      BY <1>5, <2>6, <3>1, <3>2 DEF Tied
  <2>8. hooks' => namespace' = "active" \/ (hooks /\ pc[h] # "hooks")
    BY <1>5, <1>6, <1>8, <1>10, <2>5 DEF KubeStep, KubeFails, GetOrCreateNamespace, KubeImage, Deploy,
      CreateWebhook, RegisterStripeWebhook, UpdateKube, DeleteWebhooks, DeleteStripeWebhook, kubeVars, Tied
  <2>9. \/ stripe' => namespace' = "active" \/ (stripe /\ pc[h] \notin {"hooks", "unstripe"})
        \/ pc'[h] = "unstripe"
    <3>1. CASE DeleteWebhooks(h)
      BY <3>1, GoesStands DEF DeleteWebhooks, Sits, Stands
    <3>2. CASE ~DeleteWebhooks(h)
      BY <1>5, <1>6, <1>8, <1>10, <2>5, <3>2 DEF KubeStep, KubeFails, GetOrCreateNamespace, KubeImage, Deploy,
        CreateWebhook, RegisterStripeWebhook, UpdateKube, DeleteStripeWebhook, kubeVars, Tied
    <3>3. QED
      BY <3>1, <3>2
  <2>10. namespace' = "active" => Will'
    BY <1>5, <2>2, <2>5 DEF Tied, Takes
  <2>11. \A g \in Handlers : pc'[g] \in {"webhook", "stripe"} => namespace' = "active"
    BY <1>2, <1>5, <2>5, <2>7 DEF Tied, Alone
  <2>12. hooks' => namespace' = "active" \/ \E g \in Handlers : pc'[g] = "hooks"
    BY <1>2, <1>5, <2>5, <2>8 DEF Tied, Alone
  <2>13. stripe' => namespace' = "active" \/ \E g \in Handlers : pc'[g] \in {"hooks", "unstripe"}
    BY <1>2, <1>5, <2>5, <2>9 DEF Tied, Alone
  <2>14. QED
    BY <2>4, <2>10, <2>11, <2>12, <2>13 DEF Tied
<1>11. QED
  BY <1>9, <1>10

(* Whoever takes a label off or closes the pull request posts it.          *)
LEMMA PeopleDue ==
  ASSUME Sits, People
  PROVE  /\ Due => Due'
         /\ labels \subseteq labels' \/ Due'
         /\ Will => Will'
<1> USE DEF Sits
<1>0. UNCHANGED <<setup, handler, mishaps>>
  BY PeopleFacts
<1>1. UNCHANGED <<setup, pc, op, pr, mishaps>>
  BY <1>0 DEF handler
<1>2. /\ ToSet(net) \subseteq ToSet(net')
      /\ labels \subseteq labels' \/ \E e \in ToSet(net') : e.action = "unlabeled"
  BY PeopleFacts
<1>3. /\ open /\ ~open' => \E e \in ToSet(net') : e.action = "closed"
      /\ open /\ ~open' => labels' = labels
  BY PeopleFacts
<1>4. labels \subseteq labels' \/ Due'
  <2>1. CASE \E e \in ToSet(net') : e.action = "unlabeled"
    <3>1. PICK e \in ToSet(net') : e.action = "unlabeled"
      BY <2>1
    <3>2. e \in Posted("unlabeled")'
      BY <3>1 DEF Posted
    <3>3. QED
      BY <3>2 DEF Due
  <2>2. QED
    BY <1>2, <2>1
<1>5. Due => Due'
  <2>1. Posted("unlabeled") \subseteq Posted("unlabeled")' /\ Posted("closed") \subseteq Posted("closed")'
    BY <1>2 DEF Posted
  <2>2. \A h \in Handlers : Seeks(h)' <=> Seeks(h)
    BY <1>1 DEF Seeks
  <2>3. QED
    BY <1>4, <2>1, <2>2 DEF Due
<1>6. ASSUME open, ~open', labels # {} PROVE Due'
  <2>1. PICK e \in ToSet(net') : e.action = "closed"
    BY <1>3, <1>6
  <2>2. e \in Posted("closed")' /\ labels' # {}
    BY <1>3, <1>6, <2>1 DEF Posted
  <2>3. QED
    BY <2>2 DEF Due
<1>7. Will => Will'
  BY <1>4, <1>5, <1>6 DEF Will
<1>8. QED
  BY <1>4, <1>5, <1>7

(* A handler that takes the event of a destroy seeks what to destroy.      *)
LEMMA HandleDue ==
  ASSUME Sits, NEW h \in Handlers, HandlePullRequestEvent(h)
  PROVE  /\ Due => Due'
         /\ UNCHANGED <<setup, labels, open>>
<1>1. PICK e \in ToSet(net) :
        /\ pc[h] = "idle" /\ op[h] = "none"
        /\ UNCHANGED <<setup, labels, open, head, closed>>
        /\ ToSet(net) \ {e} \subseteq ToSet(net')
        /\ \A g \in Handlers \ {h} : pc'[g] = pc[g] /\ op'[g] = op[g] /\ pr'[g] = pr[g]
        /\ op'[h] = OpOf(e, labels)
        /\ OpOf(e, labels) # "none" => pc'[h] = "start"
  BY HandleFacts
<1>2. OpOf(e, labels) = "destroy" => Due'
  BY <1>1 DEF Seeks, Due
<1>3. e.action = "unlabeled" \/ (e.action = "closed" /\ labels # {}) => OpOf(e, labels) = "destroy"
  BY OpOfFacts
<1>4. ASSUME Due PROVE Due'
  <2>1. CASE Posted("unlabeled") # {}
    <3>1. PICK d \in Posted("unlabeled") : TRUE
      BY <2>1
    <3>2. CASE d = e
      BY <1>2, <1>3, <3>1, <3>2 DEF Posted
    <3>3. CASE d # e
      <4>1. d \in Posted("unlabeled")'
        BY <1>1, <3>3 DEF Posted
      <4>2. QED
        BY <4>1 DEF Due
    <3>4. QED
      BY <3>2, <3>3
  <2>2. CASE Posted("closed") # {} /\ labels # {}
    <3>1. PICK d \in Posted("closed") : TRUE
      BY <2>2
    <3>2. CASE d = e
      BY <1>2, <1>3, <2>2, <3>1, <3>2 DEF Posted
    <3>3. CASE d # e
      <4>1. d \in Posted("closed")' /\ labels' # {}
        BY <1>1, <2>2, <3>3 DEF Posted
      <4>2. QED
        BY <4>1 DEF Due
    <3>4. QED
      BY <3>2, <3>3
  <2>3. CASE \E g \in Handlers : Seeks(g)
    BY <1>1, <2>3 DEF Seeks, Due
  <2>4. QED
    BY <1>4, <2>1, <2>2, <2>3 DEF Due
<1>5. QED
  BY <1>1, <1>4

(* What people post and handlers take, or lose, keeps the invariant.       *)
LEMMA EventSafe ==
  ASSUME Base, Safe, People \/ DropEvent \/ (\E h \in Handlers : HandlePullRequestEvent(h)),
         UNCHANGED <<serverVars, kubeVars>>
  PROVE  Safe'
<1> USE DEF Base
<1>0. inst' = inst /\ target' = target /\ UNCHANGED <<namespace, hooks, stripe>>
  BY DEF serverVars, kubeVars
<1>1. CASE DropEvent
  BY <1>1 DEF DropEvent, Safe, Mishaps
<1>2. CASE People
  <2>1. UNCHANGED <<setup, handler, mishaps>>
    BY <1>2, PeopleFacts DEF Sits
  <2>2. UNCHANGED <<setup, pc, op, pr, mishaps>>
    BY <2>1 DEF handler
  <2>3. Will => Will'
    BY <1>2, PeopleDue
  <2>4. /\ \A h \in Handlers : Making(h)' <=> Making(h)
        /\ \A i : Live(i)' <=> Live(i)
        /\ \A i : Doomed(i)' <=> Doomed(i)
    BY <1>0, <2>2 DEF Making, Live, Doomed, Dooms
  <2>5. (Takes => Takes') /\ (Lives => Lives') /\ (Tied => Tied')
    BY <1>0, <2>2, <2>3, <2>4 DEF Takes, Lives, Tied
  <2>6. QED
    BY <2>2, <2>5 DEF Safe
<1>3. CASE \E h \in Handlers : HandlePullRequestEvent(h)
  <2>1. PICK h \in Handlers : HandlePullRequestEvent(h)
    BY <1>3
  <2>2. PICK e \in ToSet(net) :
          /\ pc[h] = "idle" /\ op[h] = "none"
          /\ UNCHANGED <<setup, labels, open, head, closed>>
          /\ mishaps \subseteq mishaps'
          /\ \A g \in Handlers \ {h} : pc'[g] = pc[g] /\ op'[g] = op[g] /\ pr'[g] = pr[g]
          /\ op'[h] = OpOf(e, labels)
          /\ OpOf(e, labels) = "none" => pc'[h] = "idle"
          /\ OpOf(e, labels) # "none" => pc'[h] = "start"
          /\ OpOf(e, labels) = "create" => "leak" \in mishaps' \/ (e.label \in labels /\ open)
    BY <2>1, HandleFacts
  <2>3. Will => Will'
    BY <2>1, HandleDue DEF Will
  <2> SUFFICES ASSUME "leak" \notin mishaps', Takes, Lives, setup.repo = "cws" => Tied
               PROVE  Takes' /\ Lives' /\ (setup.repo = "cws" => Tied')
    BY <2>2 DEF Safe
  <2>4. Making(h)' => Will'
    BY <2>2 DEF Making, Will
  <2>5. Alone(h)
    BY <1>0, <2>2 DEF Alone
  <2>6. Takes'
    BY <2>2, <2>3, <2>4, <2>5, MakingAlone DEF Takes
  <2>7. \A i : Doomed(i) => Doomed(i)'
    BY <2>2, <2>5, MakingAlone DEF Doomed, Dooms
  <2>8. Lives'
    BY <1>0, <2>3, <2>7 DEF Lives, Live
  <2>9. Tied => Tied'
    <3>1. pc'[h] \in {"idle", "start"}
      BY <2>2
    <3>2. \A g \in Handlers : pc'[g] = pc[g] \/ (pc[g] = "idle" /\ pc'[g] \in {"idle", "start"})
      BY <2>2, <3>1
    <3>3. QED
      BY <1>0, <2>3, <3>2 DEF Tied
  <2>10. QED
    BY <2>6, <2>8, <2>9
<1>4. QED
  BY <1>1, <1>2, <1>3

(* The provisioner brings nothing to life.                                 *)
LEMMA ProvisionerSafe ==
  ASSUME Base, Safe, Provisioner, UNCHANGED kubeVars
  PROVE  Safe'
<1>1. /\ UNCHANGED <<prVars, target>> /\ DOMAIN inst' = DOMAIN inst
      /\ \A i \in DOMAIN inst :
           /\ inst'[i].owner = inst[i].owner
           /\ inst'[i].state = inst[i].state \/ inst'[i].state \in Follows(inst[i].state)
  BY ProvisionerFollows DEF Base, Inv
<1>2. UNCHANGED <<setup, labels, open, net, pc, op, mishaps, target, namespace, hooks, stripe>>
  BY <1>1 DEF prVars, github, handler, kubeVars
<1>3. \A i \in DOMAIN inst : Live(i)' => Live(i)
  BY <1>1 DEF Live, Follows
<1>4. /\ Will' <=> Will
      /\ \A h \in Handlers : Making(h)' <=> Making(h)
      /\ \A i : Doomed(i)' <=> Doomed(i)
  BY <1>2 DEF Will, Due, Posted, Seeks, Making, Doomed, Dooms
<1>5. (Takes => Takes') /\ (Lives => Lives') /\ (Tied => Tied')
  BY <1>1, <1>2, <1>3, <1>4 DEF Takes, Lives, Tied
<1>6. QED
  BY <1>2, <1>5 DEF Safe

(* The invariant is inductive.                                             *)
LEMMA SafeStep == ASSUME OneKind PROVE Base /\ Safe /\ [Next]_vars => Safe'
<1> SUFFICES ASSUME Base, Safe, [Next]_vars PROVE Safe'
  OBVIOUS
<1>1. CASE UNCHANGED vars \/ (NamespaceGone /\ UNCHANGED serverVars)
  <2>1. /\ UNCHANGED <<setup, labels, open, net, pc, op, mishaps, target, inst, hooks, stripe>>
        /\ namespace' = namespace \/ (namespace # "active" /\ namespace' # "active")
    BY <1>1 DEF vars, prVars, github, handler, serverVars, kubeVars, NamespaceGone
  <2>2. /\ Will' <=> Will
        /\ \A h \in Handlers : Making(h)' <=> Making(h)
        /\ \A i : Doomed(i)' <=> Doomed(i)
    BY <2>1 DEF Will, Due, Posted, Seeks, Making, Doomed, Dooms
  <2>3. (Takes => Takes') /\ (Lives => Lives') /\ (Tied => Tied')
    BY <2>1, <2>2 DEF Takes, Lives, Tied, Live
  <2>4. QED
    BY <2>1, <2>3 DEF Safe
<1>2. CASE Next
  BY <1>1, <1>2, ServerSafe, KubeSafe, EventSafe, ProvisionerSafe DEF Next
<1>3. QED
  BY <1>1, <1>2

(* When everything has been handled and no label is on, or the pull        *)
(* request is closed, nothing is left (handleDestroySpinWick after         *)
(* whatever creates and updates did before), where every label of a        *)
(* repository asks for a server of the same owner: unless an event was     *)
(* lost, a destroy failed, or one looked while a create was on its way.    *)
THEOREM NothingIsLeft ==
  ASSUME OneKind
  PROVE  Spec => []NothingLeftBehind
<1>1. Init => Base /\ Safe
  BY BaseInit, SafeInit
<1>2. Base /\ Safe /\ [Next]_vars => (Base /\ Safe)'
  BY BaseStep, SafeStep
<1>3. Base /\ Safe => NothingLeftBehind
  BY SafeLeavesNothing
<1>4. QED
  BY <1>1, <1>2, <1>3, PTL DEF Spec
-----------------------------------------------------------------------------
(* The newest commit is on its way: in an event that has not been handled  *)
(* or with a handler that has not looked yet (Fresh), or with one that has *)
(* the installation and is about to write (Brings).                        *)
News == \E e \in Posted("synchronize") : e.sha = head

Bears(h) ==
  /\ pr[h].sha = head
  /\ IF setup.repo = "cws" THEN op[h] \in {"create", "update"} /\ pc[h] \in {"start", "image", "deploy"}
     ELSE op[h] = "update" /\ pc[h] \in {"start", "find"}

Fresh == News \/ \E h \in Handlers : Bears(h)

(* A create of a plugin pull request between its request and the plugin.   *)
Installing(h) == op[h] = "create" /\ setup.repo = "plugin" /\ pc[h] \in {"wait", "init", "plugin"}

Bringing(h) ==
  /\ pr[h].sha = head
  /\ (op[h] = "update" /\ pc[h] \in {"image", "recheck", "patch", "plugin"}) \/ Installing(h)

Brings(i) == \E h \in Handlers : target[h] = i /\ Bringing(h)

LabelOn(h) == labels \cap pr[h].labels # {}

(* The installation of a handler that no destroy has found.                *)
Holds(h) == \E i \in DOMAIN inst : target[h] = i /\ Live(i) /\ ~Doomed(i)

Asks == \A h \in Handlers : Making(h) => LabelOn(h) \/ Due

ServerRuns ==
  /\ \A h \in Handlers : Making(h) => pr[h].sha = head \/ Fresh \/ Due
  /\ \A h \in Handlers : Installing(h) /\ Holds(h) => LabelOn(h) \/ Due
  /\ \A i \in DOMAIN inst : Live(i) =>
       inst[i].ver = head \/ Fresh \/ Due \/ Doomed(i) \/ Brings(i)

KubeRuns ==
  /\ \A h \in Handlers : Making(h) /\ pc[h] \notin {"webhook", "stripe"} =>
       pr[h].sha = head \/ Fresh \/ Due \/ (namespace = "active" /\ deployed = head)
  /\ namespace = "active" => deployed = head \/ Fresh \/ Due

Clean == mishaps \cap {"leak", "stale", "kept"} = {}
Current == Clean => Asks /\ IF setup.repo = "cws" THEN KubeRuns ELSE ServerRuns

(* There is nothing to update at the start.                                *)
LEMMA CurrentInit == Init => Current
BY DEF Init, PRInit, ServerInit, KubeInit, Current, Asks, Making, Installing, ServerRuns, KubeRuns

(* When everything has been handled, what is there runs the last commit.   *)
LEMMA CurrentIsUpToDate == Base /\ Current => UpToDate
<1> SUFFICES ASSUME Base, Current, Quiet, mishaps \subseteq {"robbed"}
             PROVE  /\ \A i \in DOMAIN inst : Live(i) => inst[i].ver = head
                    /\ namespace = "active" => deployed = head
  BY DEF UpToDate
<1>1. Clean
  BY DEF Clean
<1>2. ~Due /\ \A i : ~Doomed(i)
  BY QuietIsNotDue
<1>3. \A h \in Handlers : pc[h] = "idle"
  BY DEF Quiet
<1>4. Posted("synchronize") = {}
  BY DEF Quiet, Posted, ToSet
<1>5. ~Fresh
  BY <1>3, <1>4 DEF Fresh, News, Bears
<1>6. \A i : ~Brings(i)
  BY <1>3 DEF Brings, Bringing, Installing
<1>7. CASE setup.repo = "cws"
  BY <1>1, <1>2, <1>5, <1>7 DEF Current, KubeRuns, Base, Kinds
<1>8. CASE setup.repo # "cws"
  BY <1>1, <1>2, <1>5, <1>6, <1>8 DEF Current, ServerRuns, Base, Kinds
<1>9. QED
  BY <1>7, <1>8

(* A write of a commit, alone or with a state.                             *)
LEMMA WritesCommit ==
  ASSUME Shape, NEW k \in DOMAIN inst, NEW v, NEW s,
         inst' = [inst EXCEPT ![k].ver = v] \/ inst' = [inst EXCEPT ![k].state = s, ![k].ver = v]
  PROVE  inst'[k].ver = v
<1>1. inst[k] = Field(k)
  BY DomainOfInst DEF Shape
<1>2. inst'[k] = [inst[k] EXCEPT !.ver = v] \/ inst'[k] = [inst[k] EXCEPT !.state = s, !.ver = v]
  OBVIOUS
<1>3. QED
  BY <1>1, <1>2 DEF Field

(* A create that fails takes off a label, and that is posted.              *)
LEMMA FailsPosts ==
  ASSUME Sits, NEW h \in Handlers, Acting(h), Fails(h), op[h] = "create", LabelOn(h), "kept" \notin mishaps'
  PROVE  Due'
<1>1. labels' \cap pr[h].labels = {}
  BY FailsFacts DEF Sits
<1>2. labels' # labels
  BY <1>1 DEF LabelOn
<1>3. ~Seeks(h)
  BY DEF Seeks
<1>4. QED
  BY <1>2, <1>3, DueStays

(* A handler of an installation that does not look brings the commit it    *)
(* bore or was bringing, or has written it, or has failed as a create.     *)
LEMMA ServerBrings ==
  ASSUME Base, NEW h \in Handlers, setup.repo # "cws", ServerStep(h), ~Find(h), Clean'
  PROVE  /\ Bears(h) => Bears(h)'
         /\ Making(h)' => Making(h) /\ pr'[h] = pr[h]
         /\ Installing(h)' => pr'[h] = pr[h] /\ \/ Installing(h) /\ target'[h] = target[h]
                                                \/ Request(h)
         /\ Bringing(h) => \/ Bringing(h)' /\ target'[h] = target[h]
                           \/ target[h] \in DOMAIN inst => inst'[target[h]].ver = head
                           \/ Installing(h) /\ Fails(h)
<1> USE DEF Base
<1>1. Acting(h)
  BY ServerActing
<1>2. /\ setup' = setup /\ head' = head /\ pc[h] # "idle" /\ op[h] \in {"create", "update", "destroy"}
      /\ pc[h] \in Stages(op[h])
  BY <1>1, ActingFacts
<1> DEFINE P == /\ Bears(h) => Bears(h)'
                /\ Making(h)' => Making(h) /\ pr'[h] = pr[h]
                /\ Installing(h)' => pr'[h] = pr[h] /\ \/ Installing(h) /\ target'[h] = target[h]
                                                       \/ Request(h)
                /\ Bringing(h) => \/ Bringing(h)' /\ target'[h] = target[h]
                                  \/ target[h] \in DOMAIN inst => inst'[target[h]].ver = head
                                  \/ Installing(h) /\ Fails(h)
<1> SUFFICES P
  OBVIOUS
<1>3. Stops(h) => ~Making(h)' /\ ~Installing(h)'
  BY <1>2 DEF Stops, Making, Installing
<1>4. ASSUME Stops(h), ~Bears(h),
             Bringing(h) => (target[h] \in DOMAIN inst => inst'[target[h]].ver = head) \/ (Installing(h) /\ Fails(h))
      PROVE  P
  BY <1>3, <1>4
<1>5. CASE Fails(h)
  <2>1. op[h] = "create"
    BY <1>2, <1>5, FailsFacts DEF Clean, Sits
  <2>2. ~Bears(h) /\ (Bringing(h) => Installing(h))
    BY <2>1 DEF Bears, Bringing
  <2>3. Stops(h)
    BY <1>5, FailsStops DEF Sits
  <2>4. QED
    BY <1>4, <1>5, <2>2, <2>3
<1>6. ASSUME NEW next, Stands(h, next), target'[h] = target[h],
             \/ Making(h) /\ next \in {"check", "image", "request"}
             \/ op[h] = "update" /\ pc[h] \in {"start", "find"} /\ next = "find"
             \/ op[h] = "update" /\ pc[h] \in {"image", "recheck"} /\ next \in {"recheck", "patch"}
             \/ op[h] = "create" /\ pc[h] \in {"wait", "init"} /\ next \in {"init", "plugin"}
             \/ op[h] = "destroy"
      PROVE  P
  <2>1. CASE Making(h) /\ next \in {"check", "image", "request"}
    BY <1>2, <1>6, <2>1 DEF Stands, Making, Bears, Installing, Bringing
  <2>2. CASE op[h] = "update" /\ pc[h] \in {"start", "find"} /\ next = "find"
    BY <1>2, <1>6, <2>2 DEF Stands, Making, Bears, Installing, Bringing
  <2>3. CASE op[h] = "update" /\ pc[h] \in {"image", "recheck"} /\ next \in {"recheck", "patch"}
    BY <1>2, <1>6, <2>3 DEF Stands, Making, Bears, Installing, Bringing
  <2>4. CASE op[h] = "create" /\ pc[h] \in {"wait", "init"} /\ next \in {"init", "plugin"}
    BY <1>2, <1>6, <2>4 DEF Stands, Making, Bears, Installing, Bringing
  <2>5. CASE op[h] = "destroy"
    BY <1>2, <1>6, <2>5 DEF Stands, Making, Bears, Installing, Bringing
  <2>6. QED
    BY <1>6, <2>1, <2>2, <2>3, <2>4, <2>5
<1> HIDE DEF P
<1>7. CASE (SignUp(h) \/ Login(h) \/ SessionFails(h) \/ Begins(h)) /\ ~Fails(h)
  <2>1. /\ pc[h] = "start" /\ target' = target
        /\ Goes(h, IF op[h] = "create" THEN "check" ELSE "find")
    BY <1>7 DEF SignUp, Login, SessionFails, Begins, ServerFails, serverVars
  <2>2. op[h] = "create" => Making(h)
    BY <1>2, <2>1 DEF Making
  <2>3. Stands(h, IF op[h] = "create" THEN "check" ELSE "find")
    BY <2>1, GoesStands DEF Sits
  <2>4. QED
    BY <1>2, <1>6, <2>1, <2>2, <2>3
<1>8. CASE NoCustomer(h)
  <2>1. pc[h] = "start" /\ op[h] = "create" /\ Stops(h)
    BY <1>8, FailsStops DEF NoCustomer, Sits
  <2>2. ~Bears(h) /\ ~Bringing(h)
    BY <1>2, <2>1 DEF Bears, Bringing, Installing
  <2>3. QED
    BY <1>4, <2>1, <2>2
<1>9. CASE Check(h) /\ ~Fails(h)
  <2>1. /\ pc[h] = "check" /\ target' = target
        /\ Goes(h, IF setup.repo = "plugin" THEN "request" ELSE "image")
    BY <1>9 DEF Check, ServerFails
  <2>2. Making(h)
    BY <1>2, <2>1 DEF Stages, Making
  <2>3. Stands(h, IF setup.repo = "plugin" THEN "request" ELSE "image")
    BY <2>1, GoesStands DEF Sits
  <2>4. QED
    BY <1>6, <2>1, <2>2, <2>3
<1>10. CASE Image(h) /\ ~Fails(h)
  <2>1. /\ pc[h] = "image" /\ target' = target
        /\ Goes(h, IF op[h] = "create" THEN "request" ELSE "recheck")
    BY <1>10 DEF Image, ServerFails
  <2>2. Making(h) \/ op[h] = "update"
    BY <1>2, <2>1 DEF Stages, Making
  <2>3. Stands(h, IF op[h] = "create" THEN "request" ELSE "recheck")
    BY <2>1, GoesStands DEF Sits
  <2>4. Making(h) => op[h] = "create"
    BY DEF Making
  <2>5. QED
    BY <1>6, <2>1, <2>2, <2>3, <2>4
<1>11. CASE Request(h) /\ ~Fails(h)
  <2>1. pc[h] = "request" /\ Goes(h, "wait")
    BY <1>11 DEF Request, ServerFails
  <2>2. op[h] = "create" /\ Stands(h, "wait")
    BY <1>2, <2>1, GoesStands DEF Sits, Stages
  <2>3. ~Bears(h) /\ ~Bringing(h) /\ ~Making(h)'
    BY <1>2, <2>1, <2>2 DEF Bears, Bringing, Installing, Making, Stands
  <2>4. QED
    BY <1>11, <2>2, <2>3 DEF P, Stands
<1>12. CASE Waited(h)
  <2>1. pc[h] = "wait" /\ ~Bears(h)
    BY <1>2, <1>12 DEF Waited, Bears
  <2>2. CASE ServerEnds(h)
    <3>1. Stops(h)
      BY <2>2, FailsStops DEF ServerEnds, Ends, Sits
    <3>2. op[h] = "create" /\ setup.repo = "plugin" => Goes(h, "init")
      BY <1>12 DEF Waited, WithCloud
    <3>3. ~Bringing(h)
      <4>1. ~Installing(h)
        BY <1>2, <3>1, <3>2, GoesStands DEF Installing, Stops, Stands, Sits
      <4>2. QED
        BY <2>1, <4>1 DEF Bringing
    <3>4. QED
      BY <1>4, <2>1, <3>1, <3>3
  <2>3. CASE ~ServerEnds(h)
    <3>1. op[h] = "create" /\ Goes(h, "init") /\ target' = target
      BY <1>12, <2>3 DEF Waited
    <3>2. QED
      BY <1>6, <2>1, <3>1, GoesStands DEF Sits
  <2>4. QED
    BY <2>2, <2>3
<1>13. CASE Initialise(h) /\ ~Fails(h)
  <2>1. pc[h] = "init" /\ op[h] = "create" /\ ~Bears(h)
    BY <1>2, <1>13 DEF Initialise, Stages, Bears
  <2>2. CASE Goes(h, "plugin") /\ UNCHANGED target
    BY <1>6, <2>1, <2>2, GoesStands DEF Sits
  <2>3. CASE setup.repo = "server" /\ ServerEnds(h)
    <3>1. Stops(h) /\ ~Bringing(h)
      BY <2>1, <2>3, FailsStops DEF ServerEnds, Ends, Sits, Bringing, Installing
    <3>2. QED
      BY <1>4, <2>1, <3>1
  <2>4. QED
    BY <1>13, <2>2, <2>3 DEF Initialise, ServerFails
<1>14. CASE InstallPlugin(h)
  <2>1. /\ pc[h] = "plugin" /\ Stops(h) /\ inst' = [inst EXCEPT ![target[h]].ver = pr[h].sha]
    BY <1>14, FailsStops DEF InstallPlugin, Sits, Clean
  <2>2. target[h] \in DOMAIN inst => inst'[target[h]].ver = pr[h].sha
    BY <2>1, WritesCommit DEF Inv
  <2>3. ~Bears(h)
    BY <2>1 DEF Bears
  <2>4. QED
    BY <1>4, <2>1, <2>2, <2>3 DEF Bringing
<1>15. CASE FindsNothing(h)
  <2>1. pc[h] = "find" /\ Stops(h) /\ op[h] = "destroy"
    BY <1>2, <1>15, FailsStops DEF FindsNothing, Sits, Clean, Stages
  <2>2. ~Bears(h) /\ ~Bringing(h)
    BY <1>2, <2>1 DEF Bears, Bringing, Installing
  <2>3. QED
    BY <1>4, <2>1, <2>2
<1>16. CASE FinalCheck(h)
  <2>1. pc[h] = "recheck" /\ inst' = inst
    BY <1>16 DEF FinalCheck
  <2>2. op[h] = "update" /\ ~Bears(h)
    BY <1>2, <2>1 DEF Stages, Bears
  <2>3. CASE ServerEnds(h) /\ inst[target[h]].ver = pr[h].sha
    <3>1. Stops(h)
      BY <2>3, FailsStops DEF ServerEnds, Ends, Sits
    <3>2. QED
      BY <1>4, <2>1, <2>2, <2>3, <3>1 DEF Bringing
  <2>4. CASE Goes(h, "patch") /\ UNCHANGED target
    BY <1>6, <2>1, <2>2, <2>4, GoesStands DEF Sits
  <2>5. QED
    BY <1>16, <2>3, <2>4 DEF FinalCheck
<1>17. CASE Patch(h)
  <2>1. /\ pc[h] = "patch" /\ Goes(h, "wait")
        /\ inst' = [inst EXCEPT ![target[h]].state = "updating", ![target[h]].ver = pr[h].sha]
    BY <1>17 DEF Patch
  <2>2. target[h] \in DOMAIN inst => inst'[target[h]].ver = pr[h].sha
    BY <2>1, WritesCommit DEF Inv
  <2>3. op[h] = "update" /\ Stands(h, "wait")
    BY <1>2, <2>1, GoesStands DEF Sits, Stages
  <2>4. ~Bears(h) /\ ~Making(h)' /\ ~Installing(h)'
    BY <1>2, <2>1, <2>3 DEF Bears, Making, Installing, Stands
  <2>5. QED
    BY <2>2, <2>4 DEF P, Bringing
<1>18. CASE Delete(h)
  <2>1. pc[h] = "delete" /\ (Rests(h) \/ Goes(h, "wait"))
    BY <1>18, DeleteEnds
  <2>2. op[h] = "destroy"
    BY <1>2, <2>1 DEF Stages
  <2>3. Stops(h) \/ Stands(h, "wait")
    BY <2>1, FailsStops, GoesStands DEF Sits
  <2>4. ~Bears(h) /\ ~Bringing(h) /\ ~Making(h)' /\ ~Installing(h)'
    BY <1>2, <2>1, <2>2, <2>3 DEF Bears, Bringing, Making, Installing, Stands, Stops
  <2>5. QED
    BY <2>4 DEF P
<1>19. CASE \/ RequestFails(h) \/ WaitFails(h) \/ PluginFails(h) \/ FindFails(h) \/ PatchFails(h)
            \/ DeleteFails(h)
  BY <1>5, <1>19 DEF RequestFails, WaitFails, PluginFails, FindFails, PatchFails, DeleteFails, ServerFails
<1>20. QED
  BY <1>5, <1>7, <1>8, <1>9, <1>10, <1>11, <1>12, <1>13, <1>14, <1>15, <1>16, <1>17, <1>18, <1>19
  DEF ServerStep
(* A write of an older commit over the newest one is a mishap.             *)
LEMMA NewestStays ==
  ASSUME Base, NEW h \in Handlers, pc[h] # "idle", Lasts(h), "stale" \notin mishaps',
         NEW i \in DOMAIN inst, inst[i].ver = head
  PROVE  inst'[i].ver = head
<1>1. pr[h].sha \in Nat /\ pr[h].sha <= head /\ head \in Nat
  BY DEF Base, Sits, Seated, Seat, Knows, Hub
<1>2. mishaps' = mishaps \cup Stale(i, pr[h].sha) => ~(pr[h].sha < inst[i].ver)
  BY DEF Stale
<1>3. CASE Same(i)
  BY <1>3 DEF Same
<1>4. CASE Installs(h, i) \/ Patches(h, i)
  <2>1. inst'[i].ver = pr[h].sha /\ mishaps' = mishaps \cup Stale(i, pr[h].sha)
    BY <1>4 DEF Installs, Patches
  <2>2. QED
    BY <1>1, <1>2, <2>1
<1>5. QED
  BY <1>3, <1>4 DEF Lasts

(* What a step leaves of the facts about the other handlers.               *)
LEMMA OthersKnow ==
  ASSUME Sits, NEW h \in Handlers, Acting(h), Alone(h), NEW g \in Handlers \ {h}
  PROVE  /\ Making(g)' <=> Making(g)
         /\ Bears(g)' <=> Bears(g)
         /\ Installing(g)' <=> Installing(g)
         /\ Bringing(g)' <=> Bringing(g)
         /\ pr'[g] = pr[g] /\ target'[g] = target[g]
<1>1. setup' = setup /\ head' = head
  BY ActingFacts
<1>2. pc'[g] = pc[g] /\ op'[g] = op[g] /\ pr'[g] = pr[g] /\ target'[g] = target[g]
  BY DEF Alone
<1>3. QED
  BY <1>1, <1>2 DEF Making, Bears, Installing, Bringing

(* A handler that acts takes no event.                                     *)
LEMMA NewsStays ==
  ASSUME Sits, NEW h \in Handlers, Acting(h), News
  PROVE  News'
BY ActingFacts DEF News, Posted

(* The look of a destroy.                                                  *)
LEMMA ClearsCurrent ==
  ASSUME Base, NEW h \in Handlers, setup.repo # "cws", Acting(h), Alone(h), Clears(h)
  PROVE  Asks' /\ ServerRuns'
<1> USE DEF Base
<1>1. setup' = setup
  BY ActingFacts
<1>2. op[h] = "destroy" /\ (Stops(h) \/ Stands(h, "delete"))
  BY FailsStops, GoesStands DEF Clears, Seeks, Sits
<1>3. ~Making(h)' /\ ~Installing(h)'
  BY <1>2 DEF Stops, Stands, Making, Installing
<1>4. \A g \in Handlers \ {h} : ~Making(g)'
  BY <1>1, MakingAlone DEF Clears, Making, InFlight
<1>5. inst' = inst /\ \A i \in DOMAIN inst : Live(i)' => Doomed(i)'
  BY DEF Clears, Live, Doomed
<1>6. \A g \in Handlers : ~Holds(g)'
  BY <1>5 DEF Holds
<1>7. QED
  BY <1>3, <1>4, <1>5, <1>6 DEF Asks, ServerRuns
(* Any other look, and every other step.                                   *)
LEMMA LabelsLast ==
  ASSUME Sits, NEW h \in Handlers, Acting(h), Seeks(h) => Due', NEW g \in Handlers,
         pr'[g] = pr[g], LabelOn(g) \/ Due
  PROVE  LabelOn(g)' \/ Due'
BY DueStays DEF LabelOn

(* Who looks to update has found the one installation that is live.        *)
LEMMA FindCurrent ==
  ASSUME Base, Asks, ServerRuns, NEW h \in Handlers, setup.repo # "cws", Acting(h), Alone(h),
         Find(h), op[h] # "destroy", "stale" \notin mishaps'
  PROVE  Asks' /\ ServerRuns'
<1> USE DEF Base
<1>1. setup' = setup /\ head' = head /\ op[h] \in {"create", "update", "destroy"} /\ pc[h] \in Stages(op[h])
  BY ActingFacts
<1>2. PICK i \in Found(h) :
        /\ pc[h] = "find" /\ Goes(h, IF setup.repo = "plugin" THEN "plugin" ELSE "image")
        /\ inst' = inst /\ target' = [target EXCEPT ![h] = i]
        /\ mishaps' = mishaps \cup
             {m \in {"stale"} : (\E c \in Handlers : InFlight(c)) \/ \E j \in DOMAIN inst \ {i} : Live(j)}
  BY DEF Find
<1>3. ~((\E c \in Handlers : InFlight(c)) \/ \E j \in DOMAIN inst \ {i} : Live(j))
  BY <1>2
<1>4. op[h] = "update" /\ target'[h] = i /\ (Stands(h, "plugin") \/ Stands(h, "image"))
  BY <1>1, <1>2, GoesStands DEF Stages, Kinds, Sits
<1>5. ~Seeks(h)
  BY <1>4 DEF Seeks
<1>6. \A g \in Handlers : ~Making(g)'
  <2>1. ~Making(h)'
    BY <1>4 DEF Stands, Making
  <2>2. \A g \in Handlers \ {h} : ~Making(g)'
    BY <1>1, <1>3, MakingAlone DEF Making, InFlight
  <2>3. QED
    BY <2>1, <2>2
<1>7. \A k \in DOMAIN inst : (Live(k)' <=> Live(k)) /\ (Doomed(k) => Doomed(k)')
  <2>1. \A k : ~Dooms(h, k)
    BY <1>4 DEF Dooms
  <2>2. \A k \in DOMAIN inst : Doomed(k) => Doomed(k)'
    BY <1>1, <2>1, MakingAlone DEF Doomed
  <2>3. QED
    BY <1>2, <2>2 DEF Live
<1>8. ASSUME NEW g \in Handlers, Installing(g)', Holds(g)' PROVE LabelOn(g)' \/ Due'
  <2>1. g # h
    BY <1>4, <1>8 DEF Stands, Installing
  <2>2. Installing(g) /\ pr'[g] = pr[g] /\ target'[g] = target[g]
    BY <1>8, <2>1, OthersKnow
  <2>3. Holds(g)
    BY <1>2, <1>7, <1>8, <2>2 DEF Holds
  <2>4. QED
    BY <1>5, <2>2, <2>3, LabelsLast DEF ServerRuns
<1>9. ASSUME NEW k \in DOMAIN inst', Live(k)'
      PROVE  inst'[k].ver = head' \/ Fresh' \/ Due' \/ Doomed(k)' \/ Brings(k)'
  <2>1. k = i /\ k \in DOMAIN inst /\ Live(k)
    BY <1>2, <1>3, <1>7, <1>9
  <2>2. CASE inst[k].ver = head
    BY <1>1, <1>2, <2>2
  <2>3. CASE Due \/ Doomed(k)
    BY <1>5, <1>7, <2>1, <2>3, DueStays
  <2>4. CASE Fresh
    <3>1. CASE News
      BY <3>1, NewsStays DEF Fresh
    <3>2. CASE \E g \in Handlers \ {h} : Bears(g)
      BY <3>2, OthersKnow DEF Fresh
    <3>3. CASE Bears(h)
      <4>1. Bringing(h)'
        BY <1>1, <1>4, <3>3 DEF Bears, Bringing, Stands
      <4>2. QED
        BY <1>4, <2>1, <4>1 DEF Brings
    <3>4. QED
      BY <2>4, <3>1, <3>2, <3>3 DEF Fresh
  <2>5. CASE Brings(k)
    <3>1. ~Bringing(h)
      BY <1>2, <1>4 DEF Bringing, Installing
    <3>2. QED
      BY <2>5, <3>1, OthersKnow DEF Brings
  <2>6. QED
    BY <2>1, <2>2, <2>3, <2>4, <2>5 DEF ServerRuns
<1>10. Asks'
  BY <1>6 DEF Asks
<1>11. QED
  BY <1>6, <1>8, <1>9, <1>10 DEF ServerRuns

(* No action takes the newest commit away, but as a mishap.                *)
LEMMA ServerInst ==
  ASSUME Base, NEW h \in Handlers, ServerStep(h), pc[h] # "idle", "stale" \notin mishaps'
  PROVE  /\ 0 \notin DOMAIN inst'
         /\ \A i \in DOMAIN inst : Live(i)' => Live(i)
         /\ \A i \in DOMAIN inst : Live(i)' /\ inst[i].ver = head => inst'[i].ver = head
         /\ DOMAIN inst' = DOMAIN inst \/ Request(h)
<1> USE DEF Base, Inv
<1>1. 0 \notin DOMAIN inst
  BY DomainOfInst
<1>2. CASE Lasts(h)
  BY <1>1, <1>2, LastsLive, NewestStays DEF Lasts
<1>3. CASE Delete(h)
  <2>1. /\ DOMAIN inst' = DOMAIN inst
        /\ \A i \in DOMAIN inst :
             /\ i # target[h] => Same(i)
             /\ i = target[h] => ~Live(i)'
    BY <1>3, DeleteEnds
  <2>2. \A i \in DOMAIN inst : Same(i) => (Live(i)' <=> Live(i)) /\ inst'[i].ver = inst[i].ver
    BY DEF Same, Live
  <2>3. QED
    BY <1>1, <2>1, <2>2
<1>4. CASE Request(h)
  <2>1. PICK n \in Nat : /\ n # 0 /\ DOMAIN inst' = DOMAIN inst \cup {n}
                         /\ \A i \in DOMAIN inst : Same(i)
    BY <1>4, RequestAdds
  <2>2. QED
    BY <1>1, <1>4, <2>1 DEF Same, Live
<1>5. QED
  BY <1>2, <1>3, <1>4, ServerLasts

(* Every action of a handler on an installation keeps the invariant.       *)
LEMMA ServerCurrent ==
  ASSUME Base, OneKind, Current, NEW h \in Handlers, setup.repo # "cws", ServerStep(h)
  PROVE  Current'
<1> USE DEF Base
<1>1. Acting(h)
  BY ServerActing
<1>2. Alone(h)
  BY <1>1, ActingFacts, TargetFacts DEF Alone
<1>3. /\ setup' = setup /\ head' = head /\ pc[h] # "idle" /\ op[h] \in {"create", "update", "destroy"}
      /\ pc[h] \in Stages(op[h]) /\ mishaps \subseteq mishaps'
  BY <1>1, ActingFacts
<1> SUFFICES ASSUME Clean' PROVE Asks' /\ ServerRuns'
  BY <1>3 DEF Current
<1>4. Asks /\ ServerRuns
  BY <1>3 DEF Current, Clean
<1>5. "leak" \notin mishaps' /\ "stale" \notin mishaps' /\ "kept" \notin mishaps'
  BY DEF Clean
<1>6. CASE Clears(h)
  BY <1>1, <1>2, <1>6, ClearsCurrent
<1>7. CASE ~Clears(h)
  <2>1. /\ Seeks(h) => Seeks(h)'
        /\ \A i \in DOMAIN inst' : Live(i)' => (i \in DOMAIN inst /\ Live(i)) \/ Making(h)
        /\ \A i \in DOMAIN inst : Dooms(h, i) => ~Live(i)' \/ Dooms(h, i)'
    BY <1>5, <1>7, ServerSeeks
  <2>2. Seeks(h) => Due'
    BY <2>1 DEF Due
  <2>3. CASE Find(h)
    <3>1. op[h] = "destroy" => ~Seeks(h)'
      <4>1. op[h] = "destroy" => Goes(h, "delete")
        BY <2>3 DEF Find
      <4>2. QED
        BY <4>1, GoesStands DEF Stands, Seeks, Sits
    <3>2. op[h] # "destroy"
      BY <2>1, <2>3, <3>1 DEF Find, Seeks
    <3>3. QED
      BY <1>1, <1>2, <1>4, <1>5, <2>3, <3>2, FindCurrent
  <2>4. CASE ~Find(h)
    <3> DEFINE Fell == Installing(h) /\ Fails(h)
    <3>0. /\ 0 \notin DOMAIN inst'
          /\ \A i \in DOMAIN inst : Live(i)' => Live(i)
          /\ \A i \in DOMAIN inst : Live(i)' /\ inst[i].ver = head => inst'[i].ver = head
          /\ DOMAIN inst' = DOMAIN inst \/ Request(h)
      BY <1>3, <1>5, ServerInst
    <3>1. /\ Bears(h) => Bears(h)'
          /\ Making(h)' => Making(h) /\ pr'[h] = pr[h]
          /\ Installing(h)' => pr'[h] = pr[h] /\ ((Installing(h) /\ target'[h] = target[h]) \/ Request(h))
          /\ Bringing(h) => \/ Bringing(h)' /\ target'[h] = target[h]
                            \/ target[h] \in DOMAIN inst => inst'[target[h]].ver = head
                            \/ Fell
      BY <2>4, ServerBrings
    <3> HIDE DEF Fell
    <3>2. /\ Due => Due'
          /\ Fresh => Fresh'
      <4>1. Fresh => Fresh'
        BY <1>1, <1>2, <3>1, NewsStays, OthersKnow DEF Fresh
      <4>2. QED
        BY <1>1, <2>2, <4>1, DueStays
    <3>3. \A g \in Handlers : Making(g)' => Making(g) /\ pr'[g] = pr[g]
      BY <1>1, <1>2, <3>1, OthersKnow
    <3>4. \A i \in DOMAIN inst : Doomed(i) => ~Live(i)' \/ Doomed(i)'
      BY <1>2, <1>3, <2>1, MakingAlone DEF Doomed
    <3>5. \A g \in Handlers : pr'[g] = pr[g] /\ (LabelOn(g) \/ Due) => LabelOn(g)' \/ Due'
      BY <1>1, <2>2, LabelsLast
    <3>6. Asks'
      BY <1>4, <3>3, <3>5 DEF Asks
    <3>7. ASSUME NEW g \in Handlers, Making(g)' PROVE pr'[g].sha = head' \/ Fresh' \/ Due'
      BY <1>3, <1>4, <3>2, <3>3, <3>7 DEF ServerRuns
    <3>8. Request(h) => Making(h)
      <4>1. Request(h) => pc[h] = "request"
        BY DEF Request
      <4>2. QED
        BY <1>3, <4>1 DEF Making, Stages
    <3>9. ASSUME NEW g \in Handlers, Installing(g)', Holds(g)' PROVE LabelOn(g)' \/ Due'
      <4>1. CASE Making(g) /\ pr'[g] = pr[g]
        BY <1>4, <3>5, <4>1 DEF Asks
      <4>2. CASE Installing(g) /\ pr'[g] = pr[g] /\ target'[g] = target[g]
        <5>1. PICK i \in DOMAIN inst' : target'[g] = i /\ Live(i)' /\ ~Doomed(i)'
          BY <3>9 DEF Holds
        <5>2. i \in DOMAIN inst /\ Live(i)
          BY <3>0, <4>2, <5>1 DEF Kinds
        <5>3. Holds(g)
          BY <3>4, <4>2, <5>1, <5>2 DEF Holds
        <5>4. QED
          BY <1>4, <3>5, <4>2, <5>3 DEF ServerRuns
      <4>3. QED
        BY <1>1, <1>2, <3>1, <3>8, <3>9, <4>1, <4>2, OthersKnow
    <3>10. ASSUME NEW i \in DOMAIN inst, Live(i)'
           PROVE  inst'[i].ver = head' \/ Fresh' \/ Due' \/ Doomed(i)' \/ Brings(i)'
      <4>1. Live(i)
        BY <3>0, <3>10
      <4>2. CASE inst[i].ver = head \/ Fresh \/ Due \/ Doomed(i)
        BY <1>3, <3>0, <3>2, <3>4, <3>10, <4>2
      <4>3. CASE \E g \in Handlers \ {h} : target[g] = i /\ Bringing(g)
        BY <1>1, <1>2, <4>3, OthersKnow DEF Brings
      <4>4. CASE target[h] = i /\ Bringing(h)
        <5>1. CASE Bringing(h)' /\ target'[h] = target[h]
          BY <4>4, <5>1 DEF Brings
        <5>2. CASE inst'[i].ver = head
          BY <1>3, <5>2
        <5>3. CASE Fell
          <6>1. CASE Doomed(i)
            BY <3>4, <3>10, <6>1
          <6>2. CASE ~Doomed(i)
            <7>1. Installing(h) /\ Fails(h) /\ op[h] = "create"
              BY <5>3 DEF Fell, Installing
            <7>2. LabelOn(h) \/ Due
              BY <1>4, <4>1, <4>4, <6>2, <7>1 DEF ServerRuns, Holds
            <7>3. QED
              BY <1>1, <1>5, <3>2, <7>1, <7>2, FailsPosts
          <6>3. QED
            BY <6>1, <6>2
        <5>4. QED
          BY <3>1, <4>4, <5>1, <5>2, <5>3
      <4>5. QED
        BY <1>4, <4>1, <4>2, <4>3, <4>4 DEF ServerRuns, Brings
    <3>11. ASSUME NEW i \in DOMAIN inst', i \notin DOMAIN inst
           PROVE  inst'[i].ver = head' \/ Fresh' \/ Due' \/ Doomed(i)' \/ Brings(i)'
      <4>1. Request(h) /\ Making(h)
        BY <3>0, <3>8, <3>11
      <4>2. PICK n \in Nat :
              /\ DOMAIN inst' = DOMAIN inst \cup {n}
              /\ inst'[n].ver = IF setup.repo = "plugin" THEN 0 ELSE pr[h].sha
              /\ \/ Goes(h, "wait") /\ target'[h] = n
                 \/ Fails(h)
        BY <4>1, RequestAdds
      <4>3. i = n
        BY <3>11, <4>2
      <4>4. (LabelOn(h) \/ Due) /\ (pr[h].sha = head \/ Fresh \/ Due)
        BY <1>4, <4>1 DEF Asks, ServerRuns
      <4>5. CASE Fails(h)
        BY <1>1, <1>5, <3>2, <4>1, <4>4, <4>5, FailsPosts DEF Making
      <4>6. CASE Goes(h, "wait") /\ target'[h] = n
        <5>1. CASE setup.repo = "plugin" /\ pr[h].sha = head
          <6>1. Stands(h, "wait") /\ op[h] = "create"
            BY <4>1, <4>6, GoesStands DEF Sits, Making
          <6>2. Bringing(h)'
            BY <1>3, <5>1, <6>1 DEF Stands, Bringing, Installing
          <6>3. QED
            BY <4>3, <4>6, <6>2 DEF Brings
        <5>2. QED
          BY <1>3, <3>2, <4>2, <4>3, <4>4, <5>1
      <4>7. QED
        BY <4>2, <4>5, <4>6
    <3>12. ServerRuns'
      BY <3>7, <3>9, <3>10, <3>11 DEF ServerRuns
    <3>13. QED
      BY <3>6, <3>12
  <2>5. QED
    BY <2>3, <2>4
<1>8. QED
  BY <1>6, <1>7

(* So does every action on a namespace.                                    *)
LEMMA KubeCurrent ==
  ASSUME Base, Current, NEW h \in Handlers, KubeStep(h), UNCHANGED serverVars
  PROVE  Current'
<1> USE DEF Base
<1>1. Acting(h) /\ setup.repo = "cws"
  BY KubeActing, KubeKinds
<1>2. Alone(h)
  BY <1>1, ActingFacts DEF Alone, serverVars
<1>3. /\ setup' = setup /\ head' = head /\ pc[h] # "idle" /\ op[h] \in {"create", "update", "destroy"}
      /\ pc[h] \in Stages(op[h]) /\ mishaps \subseteq mishaps'
      /\ pr[h].sha \in Nat /\ pr[h].sha <= head /\ head \in Nat
  BY <1>1, ActingFacts DEF Knows, Sits, Hub
<1> SUFFICES ASSUME Clean' PROVE Asks' /\ KubeRuns'
  BY <1>1, <1>3 DEF Current
<1>4. Asks /\ KubeRuns
  BY <1>1, <1>3 DEF Current, Clean
<1>5. "leak" \notin mishaps' /\ "stale" \notin mishaps' /\ "kept" \notin mishaps'
  BY DEF Clean
<1>6. CASE NoNamespace(h) \/ DeleteNamespace(h)
  <2>1. /\ op[h] = "destroy" /\ namespace' # "active"
        /\ \A c \in Handlers : ~Creating(c)
        /\ Rests(h) \/ Goes(h, "hooks")
    BY <1>5, <1>6 DEF NoNamespace, DeleteNamespace, kubeVars, Rests, Goes
  <2>2. \A g \in Handlers \ {h} : ~Making(g)'
    BY <1>2, <1>3, <2>1, MakingAlone DEF Making, Creating
  <2>3. ~Making(h)'
    BY <2>1, FailsStops, GoesStands DEF Sits, Stops, Stands, Making
  <2>4. QED
    BY <2>1, <2>2, <2>3 DEF Asks, KubeRuns
<1>7. CASE ~NoNamespace(h) /\ ~DeleteNamespace(h)
  <2>0. op[h] = "create" \/ ~Fails(h)
    BY <1>3, <1>5, FailsFacts DEF Sits
  <2>1. ~Seeks(h)
    BY <1>7, <2>0 DEF KubeStep, KubeFails, GetOrCreateNamespace, KubeImage, Deploy, CreateWebhook,
      RegisterStripeWebhook, UpdateKube, DeleteWebhooks, DeleteStripeWebhook, Seeks
  <2>2. Due => Due'
    BY <1>1, <2>1, DueStays
  <2>3. CASE Fails(h)
    <3>1. op[h] = "create" /\ Making(h)
      BY <1>1, <1>3, <2>0, <2>3 DEF Making
    <3>2. LabelOn(h) \/ Due
      BY <1>4, <3>1 DEF Asks
    <3>3. Due'
      BY <1>1, <1>5, <2>2, <2>3, <3>1, <3>2, FailsPosts
    <3>4. QED
      BY <3>3 DEF Asks, KubeRuns
  <2>4. CASE ~Fails(h)
    <3>1. Making(h)' => Making(h) /\ pr'[h] = pr[h]
      BY <1>1, <1>3, <2>4, FailsStops, GoesStands DEF Acting, Sits, Stops, Stands, Making
    <3>2. \A g \in Handlers : Making(g)' => Making(g) /\ pr'[g] = pr[g]
      BY <1>1, <1>2, <3>1, OthersKnow
    <3>3. \A g \in Handlers : pr'[g] = pr[g] /\ (LabelOn(g) \/ Due) => LabelOn(g)' \/ Due'
      BY <1>1, <2>1, LabelsLast
    <3>4. Asks'
      BY <1>4, <3>2, <3>3 DEF Asks
    <3>5. (Bears(h) => Bears(h)') => (Fresh => Fresh')
      BY <1>1, <1>2, NewsStays, OthersKnow DEF Fresh
    <3>6. \A g \in Handlers \ {h} : pc'[g] = pc[g]
      BY <1>2 DEF Alone
    <3>7. CASE Deploy(h)
      <4>1. /\ namespace = "active" /\ namespace' = "active" /\ deployed' = pr[h].sha
            /\ ~(pr[h].sha < deployed)
            /\ pc'[h] = "webhook" \/ Idle(h)
        BY <1>5, <3>7 DEF Deploy, Sits, Seated
      <4>2. CASE pr[h].sha = head
        BY <1>3, <3>4, <4>1, <4>2 DEF KubeRuns
      <4>3. CASE pr[h].sha # head
        <5>1. Fresh => Fresh'
          BY <3>5, <4>3 DEF Bears
        <5>2. deployed # head
          BY <1>3, <4>1, <4>3
        <5>3. Fresh' \/ Due'
          BY <1>4, <2>2, <4>1, <5>1, <5>2 DEF KubeRuns
        <5>4. QED
          BY <3>4, <5>3 DEF KubeRuns
      <4>4. QED
        BY <4>2, <4>3
    <3>8. CASE GetOrCreateNamespace(h) \/ KubeImage(h) \/ UpdateKube(h)
      <4>1. /\ Bears(h) <=> pr[h].sha = head
            /\ Stands(h, "image") \/ Stands(h, "deploy")
            /\ deployed' = deployed
            /\ namespace = "active" => namespace' = "active"
            /\ namespace' = "active" => namespace = "active" \/ (Making(h) /\ pc[h] = "start")
        BY <1>1, <1>3, <3>8, GoesStands
        DEF GetOrCreateNamespace, KubeImage, UpdateKube, Sits, Bears, Making, Stages, kubeVars
      <4>2. Bears(h) => Bears(h)'
        BY <1>1, <1>3, <3>8, <4>1 DEF Stands, Bears
      <4>3. pc[h] \notin {"webhook", "stripe"}
        BY <3>8 DEF GetOrCreateNamespace, KubeImage, UpdateKube
      <4>4. \A g \in Handlers : Making(g)' /\ pc'[g] \notin {"webhook", "stripe"} =>
              Making(g) /\ pr'[g] = pr[g] /\ pc[g] \notin {"webhook", "stripe"}
        BY <3>2, <3>6, <4>3
      <4>5. pr[h].sha = head => Fresh'
        BY <4>1, <4>2 DEF Fresh
      <4>6. KubeRuns'
        BY <1>3, <1>4, <2>2, <3>5, <4>1, <4>2, <4>3, <4>4, <4>5 DEF KubeRuns
      <4>7. QED
        BY <3>4, <4>6
    <3>9. CASE CreateWebhook(h) \/ RegisterStripeWebhook(h) \/ DeleteWebhooks(h) \/ DeleteStripeWebhook(h)
      <4>1. /\ ~Bears(h) /\ UNCHANGED <<namespace, deployed>>
            /\ Stands(h, "stripe") \/ op[h] = "destroy" \/ Stops(h)
        BY <1>1, <1>3, <3>9, GoesStands, FailsStops
        DEF CreateWebhook, RegisterStripeWebhook, DeleteWebhooks, DeleteStripeWebhook, Ends, Bears, Sits, Stages
      <4>2. ~(Making(h)' /\ pc'[h] \notin {"webhook", "stripe"})
        BY <1>1, <1>3, <3>1, <4>1 DEF Making, Stands, Stops
      <4>3. \A g \in Handlers : Making(g)' /\ pc'[g] \notin {"webhook", "stripe"} =>
              Making(g) /\ pr'[g] = pr[g] /\ pc[g] \notin {"webhook", "stripe"}
        BY <3>2, <3>6, <4>2
      <4>4. KubeRuns'
        BY <1>3, <1>4, <2>2, <3>5, <4>1, <4>3 DEF KubeRuns
      <4>5. QED
        BY <3>4, <4>4
    <3>10. QED
      BY <1>7, <2>4, <3>7, <3>8, <3>9 DEF KubeStep, KubeFails
  <2>5. QED
    BY <2>3, <2>4
<1>8. QED
  BY <1>6, <1>7

(* Whoever pushes posts the commit.                                        *)
LEMMA PeopleCurrent ==
  ASSUME Base, Current, People, UNCHANGED <<serverVars, kubeVars>>
  PROVE  Current'
<1> USE DEF Base
<1>0. inst' = inst /\ target' = target /\ UNCHANGED <<namespace, deployed>>
  BY DEF serverVars, kubeVars
<1>1. UNCHANGED <<setup, handler, mishaps>>
  BY PeopleFacts DEF Sits
<1>2. UNCHANGED <<setup, pc, op, pr, mishaps>>
  BY <1>1 DEF handler
<1>3. /\ ToSet(net) \subseteq ToSet(net')
      /\ head' # head => \E e \in ToSet(net') : e.action = "synchronize" /\ e.sha = head'
  BY PeopleFacts DEF Sits
<1>4. (Due => Due') /\ (labels \subseteq labels' \/ Due')
  BY PeopleDue
<1>5. head' # head => Fresh'
  BY <1>3 DEF Fresh, News, Posted
<1>6. ASSUME head' = head
      PROVE  /\ Fresh => Fresh'
             /\ \A i : Brings(i) => Brings(i)'
  <2>1. News => News'
    BY <1>3, <1>6 DEF News, Posted
  <2>2. \A g \in Handlers : (Bears(g)' <=> Bears(g)) /\ (Bringing(g)' <=> Bringing(g))
    BY <1>2, <1>6 DEF Bears, Bringing, Installing
  <2>3. QED
    BY <1>0, <2>1, <2>2 DEF Fresh, Brings
<1>7. /\ \A g \in Handlers : Making(g)' <=> Making(g)
      /\ \A g \in Handlers : Installing(g)' <=> Installing(g)
      /\ \A i : Live(i)' <=> Live(i)
      /\ \A i : Doomed(i)' <=> Doomed(i)
  BY <1>0, <1>2 DEF Making, Installing, Live, Doomed, Dooms
<1>8. \A g \in Handlers : Holds(g)' <=> Holds(g)
  BY <1>0, <1>7 DEF Holds
<1>9. \A g \in Handlers : LabelOn(g) => LabelOn(g)' \/ Due'
  BY <1>2, <1>4 DEF LabelOn
<1>10. Asks => Asks'
  BY <1>4, <1>7, <1>9 DEF Asks
<1>11. ServerRuns => ServerRuns'
  BY <1>0, <1>2, <1>4, <1>5, <1>6, <1>7, <1>8, <1>9 DEF ServerRuns
<1>12. KubeRuns => KubeRuns'
  BY <1>0, <1>2, <1>4, <1>5, <1>6, <1>7 DEF KubeRuns
<1>13. QED
  BY <1>2, <1>10, <1>11, <1>12 DEF Current, Clean

(* A push that comes when no label is on is not handled: by then what is   *)
(* there is about to be destroyed.                                         *)
LEMMA HandleCurrent ==
  ASSUME Base, Safe, Current, NEW h \in Handlers, HandlePullRequestEvent(h), UNCHANGED <<serverVars, kubeVars>>
  PROVE  Current'
<1> USE DEF Base
<1>0. inst' = inst /\ target' = target /\ UNCHANGED <<namespace, deployed>>
  BY DEF serverVars, kubeVars
<1>1. PICK e \in ToSet(net) :
        /\ pc[h] = "idle" /\ op[h] = "none"
        /\ UNCHANGED <<setup, labels, open, head, closed>>
        /\ mishaps \subseteq mishaps'
        /\ ToSet(net) \ {e} \subseteq ToSet(net')
        /\ \A g \in Handlers \ {h} : pc'[g] = pc[g] /\ op'[g] = op[g] /\ pr'[g] = pr[g]
        /\ op'[h] = OpOf(e, labels)
        /\ OpOf(e, labels) = "none" => pc'[h] = "idle"
        /\ OpOf(e, labels) # "none" =>
             /\ pc'[h] = "start" /\ pr'[h].labels = labels
             /\ pr'[h].sha = IF e.action = "update" THEN head ELSE e.sha
        /\ OpOf(e, labels) = "create" =>
             /\ "leak" \in mishaps' \/ (e.label \in labels /\ open)
             /\ \/ "stale" \in mishaps' \/ e.sha = head
                \/ \E d \in ToSet(net) : d.action = "synchronize" /\ d.sha = head
  BY HandleFacts
<1>2. Due => Due'
  BY HandleDue
<1> SUFFICES ASSUME Clean' PROVE Asks' /\ IF setup.repo = "cws" THEN KubeRuns' ELSE ServerRuns'
  BY <1>1 DEF Current
<1>3. /\ Asks /\ (setup.repo = "cws" => KubeRuns) /\ (setup.repo # "cws" => ServerRuns)
      /\ Takes /\ Lives /\ (setup.repo = "cws" => Tied)
  BY <1>1 DEF Current, Safe, Clean
<1>4. Alone(h) /\ ~Making(h) /\ ~Installing(h) /\ ~Bears(h) /\ ~Bringing(h) /\ \A i : ~Dooms(h, i)
  BY <1>0, <1>1 DEF Alone, Making, Installing, Bears, Bringing, Dooms
<1>5. \A g \in Handlers \ {h} :
        /\ Making(g)' <=> Making(g)
        /\ Bears(g)' <=> Bears(g)
        /\ Installing(g)' <=> Installing(g)
        /\ Bringing(g)' <=> Bringing(g)
        /\ LabelOn(g)' <=> LabelOn(g)
        /\ \A i : Dooms(g, i)' <=> Dooms(g, i)
        /\ pr'[g] = pr[g] /\ pc'[g] = pc[g]
  BY <1>0, <1>1 DEF Making, Bears, Installing, Bringing, LabelOn, Dooms
<1>6. /\ ~Installing(h)' /\ \A i : (Live(i)' <=> Live(i)) /\ (Doomed(i) => Doomed(i)')
      /\ \A i : Brings(i) => Brings(i)'
  <2>1. ~Installing(h)'
    BY <1>1 DEF Installing
  <2>2. \A i : (Live(i)' <=> Live(i)) /\ (Doomed(i) => Doomed(i)')
    BY <1>0, <1>4, <1>5 DEF Live, Doomed
  <2>3. \A i : Brings(i) => Brings(i)'
    BY <1>0, <1>4, <1>5 DEF Brings
  <2>4. QED
    BY <2>1, <2>2, <2>3
<1>7. \A g \in Handlers : Holds(g)' => Holds(g)
  BY <1>0, <1>6 DEF Holds
<1>8. ASSUME Making(h)'
      PROVE  /\ op'[h] = "create" /\ labels # {} /\ LabelOn(h)'
             /\ pr'[h].sha = head \/ News
  <2>1. OpOf(e, labels) = "create"
    BY <1>1, <1>8 DEF Making
  <2>2. e.label \in labels /\ (e.sha = head \/ \E d \in ToSet(net) : d.action = "synchronize" /\ d.sha = head)
    BY <1>1, <2>1 DEF Clean
  <2>3. QED
    BY <1>1, <2>1, <2>2 DEF LabelOn, News, Posted
<1>9. CASE labels = {}
  <2>1. ~LabelOn(h) /\ \A g \in Handlers : ~LabelOn(g)
    BY <1>9 DEF LabelOn
  <2>2. \A g \in Handlers : Making(g)' => Due'
    BY <1>2, <1>3, <1>5, <1>8, <1>9 DEF Takes, Will
  <2>3. \A g \in Handlers : Installing(g)' /\ Holds(g)' => Due'
    BY <1>2, <1>3, <1>5, <1>6, <1>7, <2>1 DEF ServerRuns, Installing
  <2>4. \A i \in DOMAIN inst : Live(i) => Due' \/ Doomed(i)'
    BY <1>2, <1>3, <1>6, <1>9 DEF Lives, Will
  <2>5. setup.repo = "cws" /\ namespace = "active" => Due'
    BY <1>2, <1>3, <1>9 DEF Tied, Will
  <2>6. Asks'
    BY <2>2 DEF Asks
  <2>7. ServerRuns'
    BY <1>0, <1>6, <2>2, <2>3, <2>4 DEF ServerRuns
  <2>8. setup.repo = "cws" => KubeRuns'
    BY <1>0, <2>2, <2>5 DEF KubeRuns
  <2>9. QED
    BY <2>6, <2>7, <2>8
<1>10. CASE labels # {}
  <2>1. News => Fresh'
    <3> SUFFICES ASSUME NEW d \in Posted("synchronize"), d.sha = head PROVE Fresh'
      BY DEF News
    <3>1. CASE d = e
      <4>1. e.action = "synchronize" /\ e.sha = head
        BY <3>1 DEF Posted
      <4>2. OpOf(e, labels) = "update"
        BY <1>10, <4>1, OpOfFacts
      <4>3. Bears(h)'
        BY <1>1, <4>1, <4>2 DEF Bears
      <4>4. QED
        BY <4>3 DEF Fresh
    <3>2. CASE d # e
      <4>1. d \in Posted("synchronize")' /\ d.sha = head'
        BY <1>1, <3>2 DEF Posted
      <4>2. QED
        BY <4>1 DEF Fresh, News
    <3>3. QED
      BY <3>1, <3>2
  <2>2. Fresh => Fresh'
    BY <1>4, <1>5, <2>1 DEF Fresh
  <2>3. Asks'
    BY <1>2, <1>3, <1>5, <1>8 DEF Asks
  <2>4. \A g \in Handlers : Making(g)' => (Making(g) /\ pr'[g] = pr[g] /\ pc'[g] = pc[g]) \/ pr'[g].sha = head' \/ Fresh'
    BY <1>1, <1>5, <1>8, <2>1
  <2>5. \A g \in Handlers : Installing(g)' /\ Holds(g)' => LabelOn(g)' \/ Due' \/ setup.repo = "cws"
    BY <1>2, <1>3, <1>5, <1>6, <1>7 DEF ServerRuns
  <2>6. setup.repo # "cws" => ServerRuns'
    BY <1>0, <1>1, <1>2, <1>3, <1>6, <2>2, <2>4, <2>5 DEF ServerRuns
  <2>7. setup.repo = "cws" => KubeRuns'
    BY <1>0, <1>1, <1>2, <1>3, <2>2, <2>4 DEF KubeRuns
  <2>8. QED
    BY <2>3, <2>6, <2>7
<1>11. QED
  BY <1>9, <1>10

(* The provisioner changes no version.                                     *)
LEMMA ProvisionerCurrent ==
  ASSUME Base, Current, Provisioner, UNCHANGED kubeVars
  PROVE  Current'
<1>1. /\ UNCHANGED <<prVars, target>> /\ DOMAIN inst' = DOMAIN inst
      /\ \A i \in DOMAIN inst :
           /\ inst'[i].owner = inst[i].owner /\ inst'[i].ver = inst[i].ver
           /\ inst'[i].state = inst[i].state \/ inst'[i].state \in Follows(inst[i].state)
  BY ProvisionerFollows DEF Base, Inv
<1>2. UNCHANGED <<setup, labels, open, head, net, pc, op, pr, mishaps, target, namespace, deployed>>
  BY <1>1 DEF prVars, github, handler, kubeVars
<1>3. \A i \in DOMAIN inst : Live(i)' => Live(i)
  BY <1>1 DEF Live, Follows
<1>4. /\ Due' <=> Due
      /\ Fresh' <=> Fresh
      /\ \A h \in Handlers : (Making(h)' <=> Making(h)) /\ (Installing(h)' <=> Installing(h))
      /\ \A h \in Handlers : LabelOn(h)' <=> LabelOn(h)
      /\ \A i : Doomed(i)' <=> Doomed(i)
      /\ \A i : Brings(i)' <=> Brings(i)
  BY <1>2 DEF Due, Fresh, News, Bears, Posted, Seeks, Making, Installing, LabelOn, Doomed, Dooms, Brings, Bringing
<1>5. \A h \in Handlers : Holds(h)' => Holds(h)
  BY <1>1, <1>2, <1>3, <1>4 DEF Holds
<1>6. (Asks => Asks') /\ (ServerRuns => ServerRuns') /\ (KubeRuns => KubeRuns')
  BY <1>1, <1>2, <1>3, <1>4, <1>5 DEF Asks, ServerRuns, KubeRuns
<1>7. QED
  BY <1>2, <1>6 DEF Current, Clean

(* The invariant is inductive.                                             *)
LEMMA CurrentStep == ASSUME OneKind PROVE Base /\ Safe /\ Current /\ [Next]_vars => Current'
<1> SUFFICES ASSUME Base, Safe, Current, [Next]_vars PROVE Current'
  OBVIOUS
<1>1. CASE UNCHANGED vars \/ (NamespaceGone /\ UNCHANGED serverVars)
  <2>1. /\ UNCHANGED <<setup, labels, open, head, net, pc, op, pr, mishaps, target, inst, deployed>>
        /\ namespace' = namespace \/ (namespace # "active" /\ namespace' # "active")
    BY <1>1 DEF vars, prVars, github, handler, serverVars, kubeVars, NamespaceGone
  <2>2. /\ Due' <=> Due
        /\ Fresh' <=> Fresh
        /\ \A h \in Handlers : (Making(h)' <=> Making(h)) /\ (Installing(h)' <=> Installing(h))
        /\ \A h \in Handlers : LabelOn(h)' <=> LabelOn(h)
        /\ \A i : (Doomed(i)' <=> Doomed(i)) /\ (Live(i)' <=> Live(i))
        /\ \A i : Brings(i)' <=> Brings(i)
    BY <2>1 DEF Due, Fresh, News, Bears, Posted, Seeks, Making, Installing, LabelOn, Doomed, Dooms, Brings,
      Bringing, Live
  <2>3. \A h \in Handlers : Holds(h)' => Holds(h)
    BY <2>1, <2>2 DEF Holds
  <2>4. (Asks => Asks') /\ (ServerRuns => ServerRuns') /\ (KubeRuns => KubeRuns')
    BY <2>1, <2>2, <2>3 DEF Asks, ServerRuns, KubeRuns
  <2>5. QED
    BY <2>1, <2>4 DEF Current, Clean
<1>2. CASE DropEvent
  BY <1>2 DEF DropEvent, Current, Clean, Mishaps
<1>3. CASE Next /\ ~DropEvent
  BY <1>1, <1>3, ServerCurrent, KubeCurrent, PeopleCurrent, HandleCurrent, ProvisionerCurrent DEF Next
<1>4. QED
  BY <1>1, <1>2, <1>3

(* When everything has been handled and a label is on, the server runs the *)
(* last commit, in whatever order pushes, images and updates came          *)
(* (updateSpinWick, updatePluginSpinWick, updateKubeSpinWick and the       *)
(* creates before them), where every label of a repository asks for a      *)
(* server of the same owner: unless one of the mishaps happened that       *)
(* SpinWick records.                                                       *)
THEOREM ServerIsUpToDate ==
  ASSUME OneKind
  PROVE  Spec => []UpToDate
<1>1. Init => Base /\ Safe /\ Current
  BY BaseInit, SafeInit, CurrentInit
<1>2. Base /\ Safe /\ Current /\ [Next]_vars => (Base /\ Safe /\ Current)'
  BY BaseStep, SafeStep, CurrentStep
<1>3. Base /\ Safe /\ Current => UpToDate
  BY CurrentIsUpToDate
<1>4. QED
  BY <1>1, <1>2, <1>3, PTL DEF Spec

==============================================================================
