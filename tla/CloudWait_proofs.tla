-------------------------- MODULE CloudWait_proofs --------------------------
(***************************************************************************)
(* Proofs about CloudWait for any installations and waiters: types, that   *)
(* the registry is exact and, when payloads are not later than the next    *)
(* request, that a wait without an error saw what it waited for.           *)
(***************************************************************************)
EXTENDS CloudWait, TLAPS

(* What goroutines and payloads refer to. *)
Sane ==
  \A w \in Waiters :
    /\ pc[w] = "idle" => target[w] = NoOne
    /\ pc[w] # "idle" => target[w] \in Installations
    /\ \A p \in Payloads : <<w, p>> \in senders => pc[w] \notin {"idle", "register"}

(* A payload that says "deleted" is right for ever. *)
DeletedTold ==
  /\ \A i \in Installations : <<i, "deleted">> \in net => inst[i] = "deleted"
  /\ \A w \in Waiters, i \in Installations :
       <<w, <<i, "deleted">>>> \in senders => inst[i] = "deleted"

(* A payload that says "stable" tells a waiter what has happened since its *)
(* own request.                                                            *)
StableTold ==
  \A w \in Waiters, i \in Installations :
    target[w] = i =>
      /\ inst[i] = "stable" => w \in fresh
      /\ <<i, "stable">> \in net => w \in fresh
      /\ <<w, <<i, "stable">>>> \in senders => w \in fresh

(* The steps of a waiter inside its loop. *)
Loop(w) == Receive(w) \/ CheckLabels(w) \/ Tick(w) \/ Timeout(w)

LEMMA NextCases ==
  ASSUME Next
  PROVE  \/ \E w \in Waiters : Register(w) \/ BeginPolling(w) \/ Refused(w) \/ Loop(w)
         \/ \E w \in Waiters, i \in Installations : Creates(w, i) \/ Updates(w, i) \/ Deletes(w, i)
         \/ \E w \in Waiters, p \in Payloads : SenderGivesUp(w, p)
         \/ \E p \in Payloads : HandleCloudWebhook(p) \/ Lose(p)
         \/ \E i \in Installations : Proceeds(i) \/ Destroy(i)
BY DEF Next, Waiter, Loop

LEMMA MovesType ==
  ASSUME TypeOK, NEW i \in Installations, NEW s \in States, Moves(i, s)
  PROVE  /\ inst' \in [Installations -> States]
         /\ net' \subseteq Payloads
         /\ fresh' \subseteq Waiters
         /\ steady' \subseteq Waiters
BY DEF TypeOK, Moves

(* What a step of the loop does, whatever made it. *)
LEMMA LoopOutcome ==
  ASSUME TypeOK, NEW w \in Waiters, Loop(w)
  PROVE  /\ pc[w] \in {"wait", "check"}
         /\ senders' \subseteq senders
         /\ UNCHANGED <<inst, net, target, kind, fresh, steady>>
         /\ \E e \in Errors : Leaves(w, e) \/ Stays(w, "wait", e) \/ Stays(w, "check", e)
<1>1. error[w] \in Errors
  BY DEF TypeOK
<1>2. {"none", "timeout", "failed"} \subseteq Errors
  BY DEF Errors
<1>3. CASE Receive(w)
  <2>1. PICK p \in Payloads : /\ senders' = senders \ {<<w, p>>}
                              /\ React(w, p[1], p[2])
    BY <1>3 DEF Receive
  <2>2. \E e \in Errors : Leaves(w, e) \/ Stays(w, "wait", e) \/ Stays(w, "check", e)
    BY <1>1, <1>2, <2>1 DEF React, HandleDeletion, HandleInstallationState
  <2> QED
    BY <1>3, <2>1, <2>2 DEF Receive, cloud, hist
<1>4. CASE CheckLabels(w)
  BY <1>1, <1>2, <1>4 DEF CheckLabels, cloud, hist
<1>5. CASE Tick(w)
  BY <1>1, <1>2, <1>5 DEF Tick, HandleInstallationState, cloud, hist
<1>6. CASE Timeout(w)
  BY <1>1, <1>2, <1>6 DEF Timeout, cloud, hist
<1> QED
  BY <1>3, <1>4, <1>5, <1>6 DEF Loop

LEMMA TypeStep == TypeOK /\ [Next]_vars => TypeOK'
<1> SUFFICES ASSUME TypeOK, [Next]_vars PROVE TypeOK'
  OBVIOUS
<1> USE DEF cloud, hooks, local, hist
<1>1. ASSUME NEW w \in Waiters, Register(w) \/ BeginPolling(w) \/ Refused(w) PROVE TypeOK'
  BY <1>1 DEF TypeOK, Register, BeginPolling, Refused, Begins, Errors
<1>2. ASSUME NEW w \in Waiters, Loop(w) PROVE TypeOK'
  <2>1. PICK e \in Errors : Leaves(w, e) \/ Stays(w, "wait", e) \/ Stays(w, "check", e)
    BY <1>2, LoopOutcome
  <2>2. /\ channels' \in [Installations -> Waiters \cup {NoOne}]
        /\ pc' \in [Waiters -> {"idle", "register", "wait", "check", "done"}]
        /\ error' \in [Waiters -> Errors]
    BY <2>1 DEF TypeOK, Leaves, Stays
  <2> QED
    BY <1>2, <2>2, LoopOutcome DEF TypeOK
<1>3. ASSUME NEW w \in Waiters, NEW i \in Installations, NEW s \in States,
             NEW k \in {"stable", "poll", "deleted"}, Requests(w, i, s, k)
      PROVE  TypeOK'
  <2>1. Moves(i, s)
    BY <1>3 DEF Requests
  <2> QED
    BY <1>3, <2>1, MovesType DEF TypeOK, Requests
<1>4. ASSUME NEW w \in Waiters, NEW i \in Installations,
             Creates(w, i) \/ Updates(w, i) \/ Deletes(w, i)
      PROVE  TypeOK'
  BY <1>3, <1>4 DEF Creates, Updates, Deletes, States
<1>5. ASSUME NEW w \in Waiters, NEW p \in Payloads, SenderGivesUp(w, p) PROVE TypeOK'
  BY <1>5 DEF TypeOK, SenderGivesUp
<1>6. ASSUME NEW p \in Payloads, HandleCloudWebhook(p) \/ Lose(p) PROVE TypeOK'
  <2>1. {channels[i] : i \in Installations} \ {NoOne} \subseteq Waiters
    BY DEF TypeOK
  <2>2. senders' \subseteq Waiters \X Payloads
    BY <1>6, <2>1 DEF TypeOK, HandleCloudWebhook, Lose
  <2>3. net' \subseteq Payloads
    BY <1>6 DEF TypeOK, HandleCloudWebhook, Lose
  <2> QED
    BY <1>6, <2>2, <2>3 DEF TypeOK, HandleCloudWebhook, Lose
<1>7. ASSUME NEW i \in Installations, Proceeds(i) PROVE TypeOK'
  <2>1. PICK t \in States : Moves(i, t)
    BY <1>7 DEF Proceeds
  <2> QED
    BY <1>7, <2>1, MovesType DEF TypeOK, Proceeds
<1>8. ASSUME NEW i \in Installations, Destroy(i) PROVE TypeOK'
  <2>1. Moves(i, "deleting") /\ "deleting" \in States
    BY <1>8 DEF Destroy, States
  <2> QED
    BY <1>8, <2>1, MovesType DEF TypeOK, Destroy
<1>9. CASE UNCHANGED vars
  BY <1>9 DEF TypeOK, vars
<1> QED
  BY <1>1, <1>2, <1>4, <1>5, <1>6, <1>7, <1>8, <1>9, NextCases

LEMMA InitInv == Init => TypeOK /\ Sane /\ ChannelsExact /\ DeletedTold /\ StableTold
BY NoOneAssumption
   DEF Init, TypeOK, Sane, ChannelsExact, DeletedTold, StableTold, Waiting, States, Errors

(* Every reachable state is well typed. *)
THEOREM TypeCorrect == Spec => []TypeOK
BY InitInv, TypeStep, PTL DEF Spec

LEMMA SaneStep == TypeOK /\ Sane /\ ChannelsExact /\ [Next]_vars => Sane'
<1> SUFFICES ASSUME TypeOK, Sane, ChannelsExact, [Next]_vars PROVE Sane'
  OBVIOUS
<1> USE NoOneAssumption DEF cloud, hooks, local, hist
<1>1. ASSUME NEW w \in Waiters, Register(w) \/ BeginPolling(w) \/ Refused(w) PROVE Sane'
  BY <1>1 DEF TypeOK, Sane, Register, BeginPolling, Refused, Begins
<1>2. ASSUME NEW w \in Waiters, Loop(w) PROVE Sane'
  <2>1. PICK e \in Errors : Leaves(w, e) \/ Stays(w, "wait", e) \/ Stays(w, "check", e)
    BY <1>2, LoopOutcome
  <2>2. /\ \A v \in Waiters \ {w} : pc'[v] = pc[v]
        /\ pc'[w] \in {"wait", "check", "done"}
    BY <2>1 DEF TypeOK, Leaves, Stays
  <2> QED
    BY <1>2, <2>2, LoopOutcome DEF Sane
<1>3. ASSUME NEW w \in Waiters, NEW i \in Installations, NEW s \in States,
             NEW k \in {"stable", "poll", "deleted"}, Requests(w, i, s, k)
      PROVE  Sane'
  BY <1>3 DEF TypeOK, Sane, Requests
<1>4. ASSUME NEW w \in Waiters, NEW i \in Installations,
             Creates(w, i) \/ Updates(w, i) \/ Deletes(w, i)
      PROVE  Sane'
  BY <1>3, <1>4 DEF Creates, Updates, Deletes, States
<1>5. ASSUME NEW w \in Waiters, NEW p \in Payloads, SenderGivesUp(w, p) PROVE Sane'
  BY <1>5 DEF Sane, SenderGivesUp
<1>6. ASSUME NEW p \in Payloads, HandleCloudWebhook(p) \/ Lose(p) PROVE Sane'
  <2>1. \A w \in Waiters, i \in Installations : channels[i] = w => Waiting(w)
    BY DEF ChannelsExact
  <2>2. \A w \in Waiters, q \in Payloads :
          <<w, q>> \in senders' => <<w, q>> \in senders \/ Waiting(w)
    BY <1>6, <2>1 DEF HandleCloudWebhook, Lose
  <2> QED
    BY <1>6, <2>2 DEF Sane, Waiting, HandleCloudWebhook, Lose
<1>7. ASSUME NEW i \in Installations, Proceeds(i) \/ Destroy(i) PROVE Sane'
  BY <1>7 DEF Sane, Proceeds, Destroy
<1>8. CASE UNCHANGED vars
  BY <1>8 DEF Sane, vars
<1> QED
  BY <1>1, <1>2, <1>4, <1>5, <1>6, <1>7, <1>8, NextCases

LEMMA ChannelsStep == TypeOK /\ Sane /\ ChannelsExact /\ [Next]_vars => ChannelsExact'
<1> SUFFICES ASSUME TypeOK, Sane, ChannelsExact, [Next]_vars PROVE ChannelsExact'
  OBVIOUS
<1> USE NoOneAssumption DEF cloud, hooks, local, hist, Waiting
<1>1. ASSUME NEW w \in Waiters, Register(w) PROVE ChannelsExact'
  <2>1. /\ target[w] \in Installations
        /\ \A v \in Waiters : ~(Waiting(v) /\ kind[v] # "poll" /\ target[v] = target[w])
    BY <1>1 DEF Register, Sane, ChannelsExact
  <2>2. /\ channels' = [channels EXCEPT ![target[w]] = w]
        /\ pc' = [pc EXCEPT ![w] = "wait"]
        /\ kind[w] # "poll"
        /\ UNCHANGED <<target, kind>>
    BY <1>1 DEF Register, Begins
  <2> QED
    BY <2>1, <2>2 DEF TypeOK, ChannelsExact
<1>2. ASSUME NEW w \in Waiters, BeginPolling(w) \/ Refused(w) PROVE ChannelsExact'
  BY <1>2 DEF TypeOK, ChannelsExact, BeginPolling, Refused, Begins
<1>3. ASSUME NEW w \in Waiters, Loop(w) PROVE ChannelsExact'
  <2>1. PICK e \in Errors : Leaves(w, e) \/ Stays(w, "wait", e) \/ Stays(w, "check", e)
    BY <1>3, LoopOutcome
  <2>2. pc[w] \in {"wait", "check"} /\ target[w] \in Installations
    BY <1>3, LoopOutcome DEF Sane
  <2>3. UNCHANGED <<target, kind>>
    BY <1>3, LoopOutcome
  <2>4. CASE Leaves(w, e)
    BY <2>2, <2>3, <2>4 DEF TypeOK, ChannelsExact, Leaves
  <2>5. CASE Stays(w, "wait", e) \/ Stays(w, "check", e)
    BY <2>2, <2>3, <2>5 DEF TypeOK, ChannelsExact, Stays
  <2> QED
    BY <2>1, <2>4, <2>5
<1>4. ASSUME NEW w \in Waiters, NEW i \in Installations, NEW s \in States,
             NEW k \in {"stable", "poll", "deleted"}, Requests(w, i, s, k)
      PROVE  ChannelsExact'
  BY <1>4 DEF TypeOK, ChannelsExact, Requests
<1>5. ASSUME NEW w \in Waiters, NEW i \in Installations,
             Creates(w, i) \/ Updates(w, i) \/ Deletes(w, i)
      PROVE  ChannelsExact'
  BY <1>4, <1>5 DEF Creates, Updates, Deletes, States
<1>6. ASSUME UNCHANGED <<channels, local>> PROVE ChannelsExact'
  BY <1>6 DEF ChannelsExact
<1> QED
  BY <1>1, <1>2, <1>3, <1>5, <1>6, NextCases
     DEF vars, SenderGivesUp, HandleCloudWebhook, Lose, Proceeds, Destroy

(* The registry is exact in every reachable state: whoever asks for a      *)
(* channel and is refused, times out or leaves, an installation has a      *)
(* channel just while its waiter is in the loop.                           *)
THEOREM ChannelsExactHolds == Spec => []ChannelsExact
BY InitInv, TypeStep, SaneStep, ChannelsStep, PTL DEF Spec
-----------------------------------------------------------------------------
LEMMA DeletedStep ==
  TypeOK /\ Sane /\ DeletedTold /\ [Next]_vars => DeletedTold'
<1> SUFFICES ASSUME TypeOK, Sane, DeletedTold, [Next]_vars PROVE DeletedTold'
  OBVIOUS
<1> USE DEF cloud, hooks, local, hist
<1>1. ASSUME NEW i \in Installations, NEW s \in States, Moves(i, s),
             inst[i] # "deleted", UNCHANGED senders
      PROVE  DeletedTold'
  BY <1>1 DEF TypeOK, DeletedTold, Moves
<1>2. ASSUME NEW w \in Waiters, NEW i \in Installations,
             Creates(w, i) \/ Updates(w, i) \/ Deletes(w, i)
      PROVE  DeletedTold'
  BY <1>1, <1>2 DEF Creates, Updates, Deletes, Requests, Deletable, States
<1>3. ASSUME NEW i \in Installations, Proceeds(i) \/ Destroy(i) PROVE DeletedTold'
  BY <1>1, <1>3 DEF Proceeds, Destroy, Follows, Deletable, States
<1>4. ASSUME NEW p \in Payloads, HandleCloudWebhook(p) \/ Lose(p) PROVE DeletedTold'
  <2>1. /\ net' \subseteq net
        /\ UNCHANGED inst
        /\ p \in net
    BY <1>4 DEF HandleCloudWebhook, Lose
  <2>2. \A w \in Waiters, q \in Payloads :
          <<w, q>> \in senders' => <<w, q>> \in senders \/ q \in net
    BY <1>4, <2>1 DEF HandleCloudWebhook, Lose
  <2>3. \A i \in Installations : <<i, "deleted">> \in Payloads
    BY DEF Payloads, Told
  <2> QED
    BY <2>1, <2>2, <2>3 DEF DeletedTold
<1>5. ASSUME UNCHANGED <<inst, net>>, senders' \subseteq senders PROVE DeletedTold'
  BY <1>5 DEF DeletedTold
<1>6. ASSUME NEW w \in Waiters, Loop(w) PROVE DeletedTold'
  BY <1>5, <1>6, LoopOutcome
<1> QED
  BY <1>2, <1>3, <1>4, <1>5, <1>6, NextCases
     DEF vars, Register, BeginPolling, Refused, Begins, SenderGivesUp

LEMMA StableStep ==
  ASSUME LateEvents = FALSE
  PROVE  TypeOK /\ Sane /\ ChannelsExact /\ StableTold /\ [Next]_vars => StableTold'
<1> SUFFICES ASSUME TypeOK, Sane, ChannelsExact, StableTold, [Next]_vars PROVE StableTold'
  OBVIOUS
<1> USE NoOneAssumption DEF cloud, hooks, local, hist
<1>1. ASSUME NEW i \in Installations, NEW s \in States, Moves(i, s), UNCHANGED <<hooks, target>>
      PROVE  StableTold'
  BY <1>1 DEF TypeOK, StableTold, Moves
<1>2. ASSUME NEW w \in Waiters, NEW i \in Installations, NEW s \in States \ {"stable"},
             NEW k \in {"stable", "poll", "deleted"}, Requests(w, i, s, k)
      PROVE  StableTold'
  <2>1. /\ pc[w] = "idle"
        /\ Moves(i, s)
        /\ target' = [target EXCEPT ![w] = i]
        /\ UNCHANGED senders
    BY <1>2 DEF Requests
  <2>2. <<i, "stable">> \notin net'
    BY <1>2, <2>1 DEF Requests, Prompt, Told, Moves
  <2>3. \A p \in Payloads : <<w, p>> \notin senders'
    BY <2>1 DEF Sane
  <2>4. inst'[i] # "stable"
    BY <1>2, <2>1 DEF TypeOK, Moves
  <2>5. <<i, "stable">> \in Payloads
    BY DEF Payloads, Told
  <2>6. ASSUME NEW v \in Waiters \ {w}, NEW j \in Installations, target'[v] = j
        PROVE  /\ inst'[j] = "stable" => v \in fresh'
               /\ <<j, "stable">> \in net' => v \in fresh'
               /\ <<v, <<j, "stable">>>> \in senders' => v \in fresh'
    <3>1. target[v] = j
      BY <2>1, <2>6 DEF TypeOK
    <3>2. inst'[j] = "stable" => inst[j] = "stable"
      BY <1>2, <2>1 DEF TypeOK, Moves
    <3>3. <<j, "stable">> \in net' => <<j, "stable">> \in net
      BY <1>2, <2>1 DEF Moves
    <3>4. fresh \subseteq fresh'
      BY <2>1 DEF Moves
    <3> QED
      BY <2>1, <3>1, <3>2, <3>3, <3>4 DEF StableTold
  <2>7. target'[w] = i
    BY <2>1 DEF TypeOK
  <2> QED
    BY <2>2, <2>3, <2>4, <2>5, <2>6, <2>7 DEF StableTold
<1>3. ASSUME NEW w \in Waiters, NEW i \in Installations,
             Creates(w, i) \/ Updates(w, i) \/ Deletes(w, i)
      PROVE  StableTold'
  BY <1>2, <1>3 DEF Creates, Updates, Deletes, States
<1>4. ASSUME NEW i \in Installations, Proceeds(i) \/ Destroy(i) PROVE StableTold'
  BY <1>1, <1>4 DEF Proceeds, Destroy, States
<1>5. ASSUME NEW p \in Payloads, HandleCloudWebhook(p) \/ Lose(p) PROVE StableTold'
  <2>1. /\ net' \subseteq net
        /\ UNCHANGED <<inst, target, fresh>>
        /\ p \in net
    BY <1>5 DEF HandleCloudWebhook, Lose
  <2>2. \A w \in Waiters, q \in Payloads :
          <<w, q>> \in senders' => <<w, q>> \in senders \/ q \in net
    BY <1>5, <2>1 DEF HandleCloudWebhook, Lose
  <2>3. \A i \in Installations : <<i, "stable">> \in Payloads
    BY DEF Payloads, Told
  <2> QED
    BY <2>1, <2>2, <2>3 DEF StableTold
<1>6. ASSUME UNCHANGED <<inst, net, target, fresh>>, senders' \subseteq senders PROVE StableTold'
  BY <1>6 DEF StableTold
<1>7. ASSUME NEW w \in Waiters, Loop(w) PROVE StableTold'
  BY <1>6, <1>7, LoopOutcome
<1> QED
  BY <1>3, <1>4, <1>5, <1>6, <1>7, NextCases
     DEF vars, Register, BeginPolling, Refused, Begins, SenderGivesUp

(* A wait that ends without an error ends on what it waits for. *)
LEMMA LoopEnds ==
  ASSUME TypeOK, Sane, DeletedTold, StableTold,
         NEW w \in Waiters, Loop(w), pc'[w] = "done", error'[w] = "none"
  PROVE  IF kind[w] = "deleted" THEN inst[target[w]] = "deleted" ELSE w \in fresh
<1>1. /\ pc[w] \in {"wait", "check"}
      /\ target[w] \in Installations
      /\ kind[w] \in {"stable", "poll", "deleted"}
  BY LoopOutcome DEF Sane, TypeOK
<1>2. \A l, e : Stays(w, l, e) => l = "done"
  BY DEF Stays, TypeOK
<1>3. \A e : Leaves(w, e) => e = "none"
  BY DEF Leaves, TypeOK
<1>4. CASE Receive(w)
  <2>1. PICK p \in Payloads : <<w, p>> \in senders /\ React(w, p[1], p[2])
    BY <1>4 DEF Receive
  <2>2. p[1] = target[w] /\ p = <<p[1], p[2]>>
    BY <1>2, <2>1 DEF React, Payloads
  <2>3. CASE kind[w] = "deleted" /\ HandleDeletion(w, p[2])
    <3>1. p[2] = "deleted"
      BY <1>2, <1>3, <2>3 DEF HandleDeletion
    <3>2. <<w, <<target[w], "deleted">>>> \in senders
      BY <2>1, <2>2, <3>1
    <3> QED
      BY <1>1, <2>3, <3>2 DEF DeletedTold
  <2>4. CASE kind[w] = "stable" /\ HandleInstallationState(w, p[2])
    <3>1. p[2] = "stable"
      BY <1>2, <2>4 DEF HandleInstallationState
    <3>2. <<w, <<target[w], "stable">>>> \in senders
      BY <2>1, <2>2, <3>1
    <3> QED
      BY <1>1, <2>4, <3>2 DEF StableTold
  <2> QED
    BY <1>2, <2>1, <2>2, <2>3, <2>4 DEF React
<1>5. CASE CheckLabels(w)
  BY <1>2, <1>5 DEF CheckLabels
<1>6. CASE Tick(w)
  <2>1. kind[w] = "poll" /\ inst[target[w]] = "stable"
    BY <1>2, <1>3, <1>6 DEF Tick, HandleInstallationState
  <2> QED
    BY <1>1, <2>1 DEF StableTold
<1>7. CASE Timeout(w)
  BY <1>3, <1>7 DEF Timeout
<1> QED
  BY <1>4, <1>5, <1>6, <1>7 DEF Loop

(* Nothing that was true of an ended wait becomes false. *)
LEMMA EndedKeeps ==
  ASSUME TypeOK, Sane, [Next]_vars, NEW w \in Waiters, pc[w] # "idle"
  PROVE  /\ UNCHANGED <<target[w], kind[w]>>
         /\ w \in fresh => w \in fresh'
         /\ inst[target[w]] = "deleted" => inst'[target[w]] = "deleted"
<1> USE DEF cloud, hooks, local, hist
<1>1. target[w] \in Installations
  BY DEF Sane
<1>2. ASSUME NEW i \in Installations, NEW s \in States, Moves(i, s), inst[i] # "deleted"
      PROVE  /\ w \in fresh => w \in fresh'
             /\ inst[target[w]] = "deleted" => inst'[target[w]] = "deleted"
  BY <1>1, <1>2 DEF TypeOK, Moves
<1>3. ASSUME NEW v \in Waiters, NEW i \in Installations,
             Creates(v, i) \/ Updates(v, i) \/ Deletes(v, i)
      PROVE  /\ UNCHANGED <<target[w], kind[w]>>
             /\ w \in fresh => w \in fresh'
             /\ inst[target[w]] = "deleted" => inst'[target[w]] = "deleted"
  <2>1. PICK s \in States, k \in {"stable", "poll", "deleted"} :
          Requests(v, i, s, k) /\ inst[i] # "deleted"
    BY <1>3 DEF Creates, Updates, Deletes, Deletable, States
  <2>2. v # w /\ Moves(i, s) /\ UNCHANGED <<target[w], kind[w]>>
    BY <2>1 DEF Requests, TypeOK
  <2> QED
    BY <1>2, <2>1, <2>2
<1>4. ASSUME NEW i \in Installations, Proceeds(i) \/ Destroy(i)
      PROVE  /\ UNCHANGED <<target[w], kind[w]>>
             /\ w \in fresh => w \in fresh'
             /\ inst[target[w]] = "deleted" => inst'[target[w]] = "deleted"
  <2>1. \E s \in States : Moves(i, s) /\ inst[i] # "deleted"
    BY <1>4 DEF Proceeds, Destroy, Follows, Deletable, States
  <2> QED
    BY <1>2, <1>4, <2>1 DEF Proceeds, Destroy
<1>5. ASSUME UNCHANGED <<inst, fresh, target, kind>>
      PROVE  /\ UNCHANGED <<target[w], kind[w]>>
             /\ w \in fresh => w \in fresh'
             /\ inst[target[w]] = "deleted" => inst'[target[w]] = "deleted"
  BY <1>5
<1>6. ASSUME NEW v \in Waiters, Loop(v) PROVE UNCHANGED <<inst, fresh, target, kind>>
  BY <1>6, LoopOutcome
<1> QED
  BY <1>3, <1>4, <1>5, <1>6, NextCases
     DEF vars, Register, BeginPolling, Refused, Begins, SenderGivesUp,
         HandleCloudWebhook, Lose

(* Who ends a wait without an error. *)
LEMMA EndsInLoop ==
  ASSUME TypeOK, [Next]_vars, NEW w \in Waiters, pc'[w] = "done", error'[w] = "none"
  PROVE  (pc[w] = "done" /\ error[w] = "none") \/ Loop(w)
<1> USE DEF cloud, hooks, local, hist
<1>1. ASSUME NEW v \in Waiters, Register(v) \/ BeginPolling(v) \/ Refused(v)
      PROVE  pc[w] = "done" /\ error[w] = "none"
  BY <1>1 DEF TypeOK, Register, BeginPolling, Refused, Begins
<1>2. ASSUME NEW v \in Waiters, Loop(v)
      PROVE  (pc[w] = "done" /\ error[w] = "none") \/ Loop(w)
  <2>1. PICK e \in Errors : Leaves(v, e) \/ Stays(v, "wait", e) \/ Stays(v, "check", e)
    BY <1>2, LoopOutcome
  <2>2. v # w => pc'[w] = pc[w] /\ error'[w] = error[w]
    BY <2>1 DEF TypeOK, Leaves, Stays
  <2> QED
    BY <1>2, <2>2
<1>3. ASSUME NEW v \in Waiters, NEW i \in Installations,
             Creates(v, i) \/ Updates(v, i) \/ Deletes(v, i)
      PROVE  pc[w] = "done" /\ error[w] = "none"
  BY <1>3 DEF TypeOK, Creates, Updates, Deletes, Requests
<1> QED
  BY <1>1, <1>2, <1>3, NextCases
     DEF vars, SenderGivesUp, HandleCloudWebhook, Lose, Proceeds, Destroy

LEMMA SuccessStep ==
  TypeOK /\ Sane /\ DeletedTold /\ StableTold /\ SuccessIsTrue /\ [Next]_vars
    => SuccessIsTrue'
<1> SUFFICES ASSUME TypeOK, Sane, DeletedTold, StableTold, SuccessIsTrue, [Next]_vars,
                    NEW w \in Waiters, pc'[w] = "done", error'[w] = "none"
             PROVE  IF kind'[w] = "deleted" THEN inst'[target'[w]] = "deleted" ELSE w \in fresh'
  BY DEF SuccessIsTrue
<1>1. /\ pc[w] # "idle"
      /\ IF kind[w] = "deleted" THEN inst[target[w]] = "deleted" ELSE w \in fresh
  BY EndsInLoop, LoopEnds, LoopOutcome DEF SuccessIsTrue
<1> QED
  BY <1>1, EndedKeeps

(* When payloads are not later than the next request for their             *)
(* installation, a wait that ends without an error is right: the           *)
(* installation became stable after the waiter's own request, or is gone.  *)
THEOREM SuccessIsTrueHolds ==
  ASSUME LateEvents = FALSE
  PROVE  Spec => []SuccessIsTrue
<1>1. Init => SuccessIsTrue
  BY DEF Init, SuccessIsTrue
<1>2. TypeOK /\ Sane /\ ChannelsExact /\ StableTold /\ [Next]_vars => StableTold'
  BY StableStep
<1> QED
  BY <1>1, <1>2, InitInv, TypeStep, SaneStep, ChannelsStep, DeletedStep, SuccessStep, PTL
     DEF Spec
=============================================================================
