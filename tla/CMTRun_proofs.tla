---------------------------- MODULE CMTRun_proofs ----------------------------
(***************************************************************************)
(* Proofs about compatibility runs, for any triggers and version lists:    *)
(* types, the slot of mobile provisioning, and what becomes of servers.    *)
(***************************************************************************)
EXTENDS CMTRun, CMTSelect_proofs, SequenceTheorems

Unshipped == {"off", "acquire", "provision", "ship"}

(* A retry begins after its primary has shipped.                           *)
Order == \A t \in Triggers : pc[Primary(t)] \in Unshipped => pc[Retry(t)] = "off"

(* A pass has no servers before it provisions.                             *)
Bare ==
  /\ insts = [p \in Passes |-> insts[p]]
  /\ \A p \in Passes : pc[p] \in {"off", "delay", "acquire"} => insts[p] = <<>>

(* Whoever provisions for mobile has put an entry into the channel.        *)
SlotHeld == \A p \in Passes : pc[p] = "provision" /\ Mobile(p[1]) => sem = 1

Slot == SlotHeld /\ SlotExclusive

Inv == TypeOK /\ Order /\ Bare /\ Slot /\ NoServerKept

LEMMA PassesAre ==
  /\ \A t \in Triggers : Primary(t) \in Passes /\ Retry(t) \in Passes
  /\ \A t, u \in Triggers : Primary(t) # Retry(u)
  /\ \A t, u \in Triggers : t # u => Primary(t) # Primary(u) /\ Retry(t) # Retry(u)
  /\ \A t : Primary(t)[1] = t /\ Retry(t)[1] = t
  /\ \A p \in Passes : p[1] \in Triggers /\ (p = Primary(p[1]) \/ p = Retry(p[1]))
  BY DEF Passes, Primary, Retry

LEMMA InvInit == Init => Inv
<1> SUFFICES ASSUME Init PROVE Inv
  OBVIOUS
<1>1. TypeOK
  <2>0. type = [t \in Triggers |-> "other"] /\ sem = 0 /\ stopped = FALSE
    BY DEF Init
  <2>t. type \in [Triggers -> {"desktop", "mobile", "other"}]
    BY <2>0
  <2>1. sem \in 0..1
    BY <2>0
  <2>s. stopped \in BOOLEAN
    BY <2>0
  <2>2. pc \in [Passes -> PCs] /\ fate \in [Passes -> Fates]
    BY DEF Init, PCs, Fates
  <2>3. QED
    BY <2>t, <2>1, <2>s, <2>2 DEF TypeOK
<1>2. \A p \in Passes : pc[p] = "off" /\ insts[p] = <<>>
  BY DEF Init
<1>3. Order /\ Slot /\ NoServerKept
  BY <1>2, PassesAre DEF Order, Slot, SlotHeld, SlotExclusive, NoServerKept
<1>4. Bare
  BY <1>2 DEF Init, Bare
<1>5. QED
  BY <1>1, <1>3, <1>4 DEF Inv
-----------------------------------------------------------------------------
(* Single parts of the invariant, for a step of pass q.                    *)
LEMMA PrimaryOrder ==
  ASSUME Inv, NEW t \in Triggers, NEW next,
         pc' = [pc EXCEPT ![Primary(t)] = next],
         pc[Primary(t)] \in Unshipped \/ next \notin Unshipped
  PROVE  Order'
  BY PassesAre DEF Inv, Order, TypeOK

LEMMA RetryOrder ==
  ASSUME Inv, NEW t \in Triggers, NEW next,
         pc' = [pc EXCEPT ![Retry(t)] = next],
         pc[Retry(t)] # "off"
  PROVE  Order'
  BY PassesAre DEF Inv, Order, TypeOK

LEMMA MoveBare ==
  ASSUME Inv, NEW q \in Passes, NEW next,
         pc' = [pc EXCEPT ![q] = next], insts' = insts,
         next \in {"off", "delay", "acquire"} => pc[q] \in {"off", "delay", "acquire"}
  PROVE  Bare'
  BY DEF Inv, Bare, TypeOK

LEMMA MoveSlot ==
  ASSUME Inv, NEW q \in Passes, NEW next,
         pc' = [pc EXCEPT ![q] = next], UNCHANGED <<type, sem>>,
         next # "provision" \/ ~Mobile(q[1])
  PROVE  Slot'
<1>1. \A p \in Passes : pc'[p] = "provision" /\ Mobile(p[1])' => pc[p] = "provision" /\ Mobile(p[1])
  BY DEF Inv, TypeOK, Mobile
<1>2. QED
  BY <1>1 DEF Inv, Slot, SlotHeld, SlotExclusive

LEMMA MoveKept ==
  ASSUME Inv, NEW q \in Passes, NEW next,
         pc' = [pc EXCEPT ![q] = next], insts' = insts,
         \A p \in Passes : p # q => fate'[p] = fate[p],
         next = "done" => insts[q] = <<>> \/ fate'[q] # "none"
  PROVE  NoServerKept'
  BY DEF Inv, NoServerKept, TypeOK
-----------------------------------------------------------------------------
(* A step that takes pass q to another place and leaves slot and servers.  *)
LEMMA MoveKeepsInv ==
  ASSUME Inv, NEW q \in Passes, NEW next \in {"ship", "dispatch", "done"},
         pc[q] \in Unshipped \ {"off"} \/ next \notin Unshipped \/ q # Primary(q[1]),
         pc[q] # "off",
         pc' = [pc EXCEPT ![q] = next],
         UNCHANGED <<type, sem, stopped, insts>>,
         fate' \in [Passes -> Fates],
         \A p \in Passes : p # q => fate'[p] = fate[p],
         next = "done" => insts[q] = <<>> \/ fate'[q] # "none"
  PROVE  Inv'
<1>1. TypeOK'
  BY DEF Inv, TypeOK, PCs
<1>2. Order'
  <2>1. CASE q = Primary(q[1])
    BY <2>1, PassesAre, PrimaryOrder
  <2>2. CASE q = Retry(q[1])
    BY <2>2, PassesAre, RetryOrder
  <2>3. QED
    BY <2>1, <2>2, PassesAre
<1>3. Bare' /\ Slot' /\ NoServerKept'
  BY MoveBare, MoveSlot, MoveKept
<1>4. QED
  BY <1>1, <1>2, <1>3 DEF Inv

LEMMA TriggerKeepsInv ==
  ASSUME Inv, NEW t \in Triggers, HandleCMTTrigger(t)
  PROVE  Inv'
<1>1. PICK kind \in RepoTypes \ {"other"} :
        /\ type' = [type EXCEPT ![t] = kind]
        /\ pc' = [pc EXCEPT ![Primary(t)] = IF kind = "mobile" THEN "acquire" ELSE "provision"]
  BY DEF HandleCMTTrigger
<1>2. pc[Primary(t)] = "off" /\ UNCHANGED <<sem, stopped, insts, fate>>
  BY DEF HandleCMTTrigger, results
<1>3. kind \in {"desktop", "mobile"}
  BY TypesAssumption
<1>4. PICK next \in {"acquire", "provision"} :
        pc' = [pc EXCEPT ![Primary(t)] = next] /\ (next = "provision" => kind = "desktop")
  BY <1>1, <1>3
<1>5. TypeOK'
  BY <1>1, <1>2, <1>3, <1>4, PassesAre DEF Inv, TypeOK, PCs
<1>6. Order'
  BY <1>2, <1>4, PrimaryOrder DEF Unshipped
<1>7. Bare' /\ NoServerKept'
  BY <1>2, <1>4, PassesAre, MoveBare, MoveKept
<1>8. Slot'
  <2>1. ASSUME NEW p \in Passes, pc'[p] = "provision", Mobile(p[1])'
        PROVE  pc[p] = "provision" /\ Mobile(p[1])
    <3>1. p # Primary(t)
      BY <1>1, <1>4, <2>1, PassesAre DEF Inv, TypeOK, Mobile
    <3>2. pc[p] = "provision"
      BY <1>4, <2>1, <3>1 DEF Inv, TypeOK
    <3>3. p[1] # t
      BY <1>2, <3>1, <3>2, PassesAre DEF Inv, Order, Unshipped
    <3>4. QED
      BY <1>1, <2>1, <3>2, <3>3, PassesAre DEF Inv, TypeOK, Mobile
  <2>2. QED
    BY <1>2, <2>1 DEF Inv, Slot, SlotHeld, SlotExclusive
<1>9. QED
  BY <1>5, <1>6, <1>7, <1>8 DEF Inv

LEMMA AcquireKeepsInv ==
  ASSUME Inv, NEW t \in Triggers, NEW k \in {"primary", "retry"}, Acquire(t, k)
  PROVE  Inv'
<1>1. PICK q \in Passes : q = <<t, k>>
  BY DEF Passes
<1>2. /\ pc[q] = "acquire" /\ sem = 0 /\ sem' = 1 /\ pc' = [pc EXCEPT ![q] = "provision"]
      /\ UNCHANGED <<type, stopped, insts, fate>>
  BY <1>1 DEF Acquire, trigger, results, Inv, TypeOK
<1>3. TypeOK'
  BY <1>2 DEF Inv, TypeOK, PCs
<1>4. Order'
  <2>1. CASE q = Primary(q[1])
    BY <1>2, <2>1, PassesAre, PrimaryOrder DEF Unshipped
  <2>2. CASE q = Retry(q[1])
    BY <1>2, <2>2, PassesAre, RetryOrder
  <2>3. QED
    BY <2>1, <2>2, PassesAre
<1>5. Bare' /\ NoServerKept'
  BY <1>2, MoveBare, MoveKept
<1>6. Slot'
  <2>1. \A p \in Passes : p # q /\ pc'[p] = "provision" => ~Mobile(p[1])'
    BY <1>2 DEF Inv, TypeOK, Slot, SlotHeld, Mobile
  <2>2. QED
    BY <1>2, <2>1 DEF Slot, SlotHeld, SlotExclusive
<1>7. QED
  BY <1>3, <1>4, <1>5, <1>6 DEF Inv

LEMMA ProvisionKeepsInv ==
  ASSUME Inv, NEW t \in Triggers, NEW k \in {"primary", "retry"}, ProvisionVersion(t, k)
  PROVE  Inv'
<1>1. PICK q \in Passes : q = <<t, k>>
  BY DEF Passes
<1>2. /\ pc[q] = "provision" /\ insts' = [insts EXCEPT ![q] = insts'[q]]
      /\ UNCHANGED <<type, sem, stopped, pc, fate>>
  BY <1>1 DEF ProvisionVersion, trigger, Inv, Bare
<1>3. TypeOK' /\ Order' /\ Slot'
  BY <1>2 DEF Inv, TypeOK, Order, Slot, SlotHeld, SlotExclusive, Mobile
<1>4. Bare'
  BY <1>2 DEF Inv, Bare
<1>5. NoServerKept'
  BY <1>2 DEF Inv, Bare, NoServerKept
<1>6. QED
  BY <1>3, <1>4, <1>5 DEF Inv

(* The pass that gives the slot back is the one that holds it.             *)
LEMMA DoneKeepsInv ==
  ASSUME Inv, NEW t \in Triggers, NEW k \in {"primary", "retry"}, ProvisionDone(t, k)
  PROVE  Inv'
<1>1. PICK q \in Passes : q = <<t, k>>
  BY DEF Passes
<1>t. q[1] = t
  BY <1>1
<1>2. /\ pc[q] = "provision" /\ pc' = [pc EXCEPT ![q] = "ship"]
      /\ sem' = IF Mobile(q[1]) /\ sem > 0 THEN sem - 1 ELSE sem
      /\ UNCHANGED <<type, stopped, insts, fate>>
  BY <1>1, <1>t DEF ProvisionDone, trigger, results
<1>3. TypeOK'
  BY <1>2 DEF Inv, TypeOK, PCs
<1>4. Order'
  <2>1. CASE q = Primary(q[1])
    BY <1>2, <2>1, PassesAre, PrimaryOrder DEF Unshipped
  <2>2. CASE q = Retry(q[1])
    BY <1>2, <2>2, PassesAre, RetryOrder
  <2>3. QED
    BY <2>1, <2>2, PassesAre
<1>5. Bare' /\ NoServerKept'
  BY <1>2, MoveBare, MoveKept
<1>6. Slot'
  <2>1. ASSUME NEW p \in Passes, pc'[p] = "provision", Mobile(p[1])'
        PROVE  p # q /\ pc[p] = "provision" /\ Mobile(p[1])
    BY <1>2, <2>1 DEF Inv, TypeOK, Mobile
  <2>2. SlotExclusive'
    BY <2>1 DEF Inv, Slot, SlotExclusive
  <2>3. ASSUME NEW p \in Passes, pc'[p] = "provision", Mobile(p[1])'
        PROVE  ~Mobile(q[1])
    BY <1>2, <2>1, <2>3 DEF Inv, Slot, SlotExclusive
  <2>4. SlotHeld'
    BY <1>2, <2>1, <2>3 DEF Inv, Slot, SlotHeld
  <2>5. QED
    BY <2>2, <2>4 DEF Slot
<1>7. QED
  BY <1>3, <1>4, <1>5, <1>6 DEF Inv

(* The primary ships: its retry may begin to wait.                         *)
LEMMA ScheduleKeepsInv ==
  ASSUME Inv, NEW t \in Triggers, NEW next \in {"dispatch", "done"},
         pc[Primary(t)] = "ship",
         pc' = [pc EXCEPT ![Primary(t)] = next, ![Retry(t)] = "delay"],
         UNCHANGED <<type, sem, stopped, insts>>,
         fate' \in [Passes -> Fates],
         \A p \in Passes : p # Primary(t) => fate'[p] = fate[p],
         next = "done" => insts[Primary(t)] = <<>> \/ fate'[Primary(t)] # "none"
  PROVE  Inv'
<1>1. /\ pc'[Primary(t)] = next /\ pc'[Retry(t)] = "delay"
      /\ \A p \in Passes : p # Primary(t) /\ p # Retry(t) => pc'[p] = pc[p]
      /\ pc[Retry(t)] = "off" /\ pc' \in [Passes -> PCs]
  BY PassesAre DEF Inv, TypeOK, Order, Unshipped, PCs
<1>2. TypeOK'
  BY <1>1 DEF Inv, TypeOK
<1>3. Order'
  <2> SUFFICES ASSUME NEW u \in Triggers, pc'[Primary(u)] \in Unshipped PROVE pc'[Retry(u)] = "off"
    BY DEF Order
  <2>1. u # t
    BY <1>1 DEF Unshipped
  <2>2. QED
    BY <1>1, <2>1, PassesAre DEF Inv, Order
<1>4. Bare'
  BY <1>1, PassesAre DEF Inv, Bare
<1>5. Slot'
  BY <1>1, PassesAre DEF Inv, Slot, SlotHeld, SlotExclusive, Mobile
<1>6. NoServerKept'
  BY <1>1, PassesAre DEF Inv, NoServerKept
<1>7. QED
  BY <1>2, <1>3, <1>4, <1>5, <1>6 DEF Inv

LEMMA RefuseKeepsInv ==
  ASSUME Inv, NEW t \in Triggers, RefusePrimary(t)
  PROVE  Inv'
<1>1. /\ pc[Primary(t)] = "ship" /\ fate' = [fate EXCEPT ![Primary(t)] = "destroyed"]
      /\ pc' = [pc EXCEPT ![Primary(t)] = "done", ![Retry(t)] = "delay"]
      /\ UNCHANGED <<type, sem, stopped, insts>>
  BY DEF RefusePrimary, Schedule, trigger, results
<1>2. fate' \in [Passes -> Fates] /\ fate'[Primary(t)] # "none"
  BY <1>1, PassesAre DEF Inv, TypeOK, Fates
<1>3. \A p \in Passes : p # Primary(t) => fate'[p] = fate[p]
  BY <1>1 DEF Inv, TypeOK
<1>4. QED
  BY <1>1, <1>2, <1>3, ScheduleKeepsInv

LEMMA ShipKeepsInv ==
  ASSUME Inv, NEW t \in Triggers, ShipPrimary(t)
  PROVE  Inv'
<1>1. PICK next \in {"dispatch", "done"} :
        next = Ended(Primary(t)) /\ (next = "done" => insts[Primary(t)] = <<>>)
  BY DEF Ended
<1>2. /\ pc[Primary(t)] = "ship" /\ UNCHANGED <<type, sem, stopped, insts, fate>>
      /\ \/ pc' = [pc EXCEPT ![Primary(t)] = next, ![Retry(t)] = "delay"]
         \/ pc' = [pc EXCEPT ![Primary(t)] = next]
  BY <1>1 DEF ShipPrimary, Schedule, trigger, results
<1>3. fate' \in [Passes -> Fates]
  BY <1>2 DEF Inv, TypeOK
<1>4. CASE pc' = [pc EXCEPT ![Primary(t)] = next, ![Retry(t)] = "delay"]
  BY <1>1, <1>2, <1>3, <1>4, ScheduleKeepsInv
<1>5. CASE pc' = [pc EXCEPT ![Primary(t)] = next]
  BY <1>1, <1>2, <1>3, <1>5, PassesAre, MoveKeepsInv DEF Unshipped
<1>6. QED
  BY <1>2, <1>4, <1>5

LEMMA ShipRetryKeepsInv ==
  ASSUME Inv, NEW t \in Triggers, ShipRetry(t)
  PROVE  Inv'
<1>1. PICK refused \in BOOLEAN :
        /\ fate' = [fate EXCEPT ![Retry(t)] = IF refused THEN "destroyed" ELSE fate[Retry(t)]]
        /\ pc' = [pc EXCEPT ![Retry(t)] = IF refused THEN "done" ELSE Ended(Retry(t))]
  BY DEF ShipRetry
<1>2. pc[Retry(t)] = "ship" /\ UNCHANGED <<type, sem, stopped, insts>>
  BY DEF ShipRetry, trigger, results
<1>3. /\ fate' \in [Passes -> Fates] /\ \A p \in Passes : p # Retry(t) => fate'[p] = fate[p]
      /\ refused => fate'[Retry(t)] # "none"
  BY <1>1, PassesAre DEF Inv, TypeOK, Fates
<1>4. PICK next \in {"dispatch", "done"} :
        /\ pc' = [pc EXCEPT ![Retry(t)] = next]
        /\ next = "done" => insts[Retry(t)] = <<>> \/ fate'[Retry(t)] # "none"
  BY <1>1, <1>3 DEF Ended
<1>5. PICK q \in Passes : q = Retry(t) /\ q # Primary(q[1])
  BY PassesAre
<1>6. QED
  BY <1>2, <1>3, <1>4, <1>5, MoveKeepsInv

LEMMA TimerKeepsInv ==
  ASSUME Inv, NEW t \in Triggers, RetryTimer(t)
  PROVE  Inv'
<1>1. pc[Retry(t)] = "delay" /\ UNCHANGED <<type, sem, stopped, insts, fate>>
  BY DEF RetryTimer, trigger, results
<1>2. PICK next \in {"acquire", "provision"} :
        pc' = [pc EXCEPT ![Retry(t)] = next] /\ (next = "provision" => ~Mobile(t))
  BY DEF RetryTimer
<1>3. TypeOK'
  BY <1>1, <1>2 DEF Inv, TypeOK, PCs
<1>4. Order'
  BY <1>1, <1>2, RetryOrder
<1>5. Bare' /\ Slot' /\ NoServerKept'
  BY <1>1, <1>2, PassesAre, MoveBare, MoveSlot, MoveKept
<1>6. QED
  BY <1>3, <1>4, <1>5 DEF Inv

LEMMA OthersKeepInv ==
  ASSUME Inv, NEW t \in Triggers, NEW k \in {"primary", "retry"},
         AcquireFails(t, k) \/ DispatchAndTrack(t, k) \/ RetrySkipped(t)
  PROVE  Inv'
<1>1. PICK q \in Passes : q = <<t, k>>
  BY DEF Passes
<1>2. CASE AcquireFails(t, k)
  <2>1. /\ pc[q] = "acquire" /\ pc' = [pc EXCEPT ![q] = "ship"]
        /\ UNCHANGED <<type, sem, stopped, insts, fate>>
    BY <1>1, <1>2 DEF AcquireFails, trigger
  <2>2. fate' \in [Passes -> Fates]
    BY <2>1 DEF Inv, TypeOK
  <2>3. QED
    BY <2>1, <2>2, MoveKeepsInv DEF Unshipped
<1>3. CASE DispatchAndTrack(t, k)
  <2>1. /\ pc[q] = "dispatch" /\ pc' = [pc EXCEPT ![q] = "done"]
        /\ UNCHANGED <<type, sem, stopped, insts>>
    BY <1>1, <1>3 DEF DispatchAndTrack, trigger, results
  <2>2. PICK f \in {"dispatched", "destroyed"} : fate' = [fate EXCEPT ![q] = f]
    BY <1>1, <1>3 DEF DispatchAndTrack
  <2>3. fate' \in [Passes -> Fates] /\ fate'[q] # "none" /\ \A p \in Passes : p # q => fate'[p] = fate[p]
    BY <2>2 DEF Inv, TypeOK, Fates
  <2>4. QED
    BY <2>1, <2>3, MoveKeepsInv DEF Unshipped
<1>4. CASE RetrySkipped(t)
  <2>1. /\ pc[Retry(t)] = "delay" /\ pc' = [pc EXCEPT ![Retry(t)] = "done"]
        /\ UNCHANGED <<type, sem, stopped, insts, fate>>
    BY <1>4 DEF RetrySkipped, trigger, results
  <2>2. fate' \in [Passes -> Fates] /\ insts[Retry(t)] = <<>>
    BY <2>1, PassesAre DEF Inv, TypeOK, Bare
  <2>3. QED
    BY <2>1, <2>2, PassesAre, MoveKeepsInv
<1>5. QED
  BY <1>2, <1>3, <1>4

LEMMA InvStep == Inv /\ [Next]_vars => Inv'
<1> SUFFICES ASSUME Inv, [Next]_vars PROVE Inv'
  OBVIOUS
<1>1. CASE UNCHANGED vars \/ Stop
  <2>1. UNCHANGED <<type, sem, pc, insts, fate>> /\ stopped' \in BOOLEAN
    BY <1>1 DEF vars, Stop, trigger, results, Inv, TypeOK
  <2>2. QED
    BY <2>1 DEF Inv, TypeOK, Order, Bare, Slot, SlotHeld, SlotExclusive, NoServerKept, Mobile
<1>2. ASSUME NEW t \in Triggers, HandleCMTTrigger(t) \/ ShipStep(t)
      PROVE  Inv'
  BY <1>2, TriggerKeepsInv, RefuseKeepsInv, ShipKeepsInv, ShipRetryKeepsInv, TimerKeepsInv, OthersKeepInv DEF ShipStep
<1>3. ASSUME NEW t \in Triggers, NEW k \in {"primary", "retry"}, PassStep(t, k)
      PROVE  Inv'
  BY <1>3, AcquireKeepsInv, ProvisionKeepsInv, DoneKeepsInv, OthersKeepInv DEF PassStep
<1>4. QED
  BY <1>1, <1>2, <1>3 DEF Next
-----------------------------------------------------------------------------
(* The lists of a run.                                                     *)
Distinct(s) == \A i, j \in DOMAIN s : s[i] = s[j] => i = j

LEMMA ConcatFacts ==
  ASSUME NEW T, NEW a \in Seq(T), NEW b \in Seq(T)
  PROVE  /\ a \o b \in Seq(T) /\ Len(a \o b) = Len(a) + Len(b)
         /\ \A k \in 1..Len(a) : (a \o b)[k] = a[k]
         /\ \A k \in (Len(a) + 1)..(Len(a) + Len(b)) : (a \o b)[k] = b[k - Len(a)]
<1>1. /\ a \o b \in Seq(T) /\ Len(a \o b) = Len(a) + Len(b)
      /\ \A i \in 1..Len(a) + Len(b) : (a \o b)[i] =
           IF i <= Len(a) THEN a[i] ELSE b[i - Len(a)]
  BY ConcatProperties, Zenon
<1> DEFINE c == a \o b
           m == Len(a)
           n == Len(b)
<1>2. m \in Nat /\ n \in Nat
  OBVIOUS
<1>3. \A i \in 1..m + n : c[i] = IF i <= m THEN a[i] ELSE b[i - m]
  BY <1>1
<1> HIDE DEF c, m, n
<1>4. /\ \A k \in 1..m : k \in 1..m + n /\ k <= m
      /\ \A k \in (m + 1)..(m + n) : k \in 1..m + n /\ ~(k <= m)
  BY <1>2
<1>5. (\A k \in 1..m : c[k] = a[k]) /\ \A k \in (m + 1)..(m + n) : c[k] = b[k - m]
  BY <1>3, <1>4
<1>6. QED
  BY <1>1, <1>5 DEF c, m, n

(* Every element of a list but the empty one has a first place.            *)
LEMMA FirstPlaceExists ==
  ASSUME NEW T, NEW s \in Seq(T), NEW i \in DOMAIN s, s[i] # None
  PROVE  \E j \in FirstPlaces(s) : s[j] = s[i]
<1> DEFINE I == {j \in DOMAIN s : s[j] = s[i]}
           R == {p \in I \X I : p[2] < p[1]}
<1>1. DOMAIN s = 1..Len(s) /\ Len(s) \in Nat /\ i \in I
  OBVIOUS
<1>2. IsFiniteSet(I)
  <2>1. IsFiniteSet(DOMAIN s) /\ I \subseteq DOMAIN s
    BY <1>1, IndicesFinite
  <2>2. QED
    BY <2>1, FS_Subset
<1>3. \A j, k \in I : <<j, k>> \in R <=> k < j
  OBVIOUS
<1>4. \A j \in I : j \in Int
  BY <1>1
<1>5. StrictOrder(R, I)
  BY <1>3, <1>4 DEF StrictOrder
<1>6. PICK j \in I : \A k \in I : <<j, k>> \notin R
  <2> HIDE DEF I, R
  <2>1. QED
    BY <1>1, <1>2, <1>5, MaximalExists
<1>7. \A k \in 1..(j - 1) : s[k] # s[j]
  <2> SUFFICES ASSUME NEW k \in 1..(j - 1), s[k] = s[j] PROVE FALSE
    OBVIOUS
  <2>1. k \in I /\ k < j
    BY <1>1, <1>4
  <2>2. QED
    BY <1>3, <1>6, <2>1
<1>8. QED
  BY <1>7 DEF FirstPlaces

LEMMA OrderedFacts ==
  ASSUME NEW s \in Seq(Version), NEW v
  PROVE  /\ Ordered(s, v) \in Seq(Version) /\ Elements(Ordered(s, v)) = Elements(s) \ {None}
         /\ Distinct(Ordered(s, v))
         /\ v \in Elements(Ordered(s, v)) => Ordered(s, v) # <<>> /\ Ordered(s, v)[1] = v
<1> DEFINE A == {i \in FirstPlaces(s) : s[i] = v}
           B == {i \in FirstPlaces(s) : s[i] # v}
           a == EntriesAt(s, A)
           b == EntriesAt(s, B)
           m == Cardinality(A)
           n == Cardinality(B)
           o == Ordered(s, v)
<1>1. A \subseteq DOMAIN s /\ B \subseteq DOMAIN s /\ FirstPlaces(s) \subseteq DOMAIN s
  BY DEF FirstPlaces
<1>2. \A i, j \in FirstPlaces(s) : s[i] = s[j] => i = j
  <2> SUFFICES ASSUME NEW i \in FirstPlaces(s), NEW j \in FirstPlaces(s), s[i] = s[j], i < j
               PROVE  FALSE
    BY <1>1
  <2>1. i \in 1..(j - 1)
    BY <1>1
  <2>2. QED
    BY <2>1 DEF FirstPlaces
<1>3. o = a \o b
  BY DEF Ordered
<1> HIDE DEF A, B
<1>4. /\ m \in Nat /\ a \in Seq(Version) /\ Len(a) = m /\ Elements(a) = {s[i] : i \in A}
      /\ \A k, l \in 1..m : k < l => \E i, j \in A : i < j /\ a[k] = s[i] /\ a[l] = s[j]
  BY <1>1, EntriesAtFacts
<1>5. /\ n \in Nat /\ b \in Seq(Version) /\ Len(b) = n /\ Elements(b) = {s[i] : i \in B}
      /\ \A k, l \in 1..n : k < l => \E i, j \in B : i < j /\ b[k] = s[i] /\ b[l] = s[j]
  BY <1>1, EntriesAtFacts
<1> HIDE DEF a, b, m, n, o
<1>6. /\ o \in Seq(Version) /\ Len(o) = m + n
      /\ \A k \in 1..m : o[k] = a[k]
      /\ \A k \in (m + 1)..(m + n) : o[k] = b[k - m]
  <2>1. /\ o \in Seq(Version) /\ Len(o) = Len(a) + Len(b)
        /\ \A k \in 1..Len(a) : o[k] = a[k]
        /\ \A k \in (Len(a) + 1)..(Len(a) + Len(b)) : o[k] = b[k - Len(a)]
    <3>1. a \in Seq(Version) /\ b \in Seq(Version)
      BY <1>4, <1>5
    <3>2. QED
      BY <1>3, <3>1, ConcatFacts, Zenon
  <2>2. QED
    BY <1>4, <1>5, <2>1
<1>7. \A k \in 1..m : a[k] = v
  <2>1. \A k \in 1..m : a[k] \in Elements(a)
    BY <1>4 DEF Elements
  <2>2. QED
    BY <1>4, <2>1 DEF A
<1>8. \A k \in 1..n : b[k] \in Elements(b) /\ b[k] # v
  <2>1. \A k \in 1..n : b[k] \in Elements(b)
    BY <1>5 DEF Elements
  <2>2. QED
    BY <1>5, <2>1 DEF B
<1>9. m <= 1
  <2> SUFFICES ASSUME m > 1 PROVE FALSE
    BY <1>4
  <2>1. 1 \in 1..m /\ 2 \in 1..m
    BY <1>4
  <2>2. PICK i, j \in A : i < j /\ a[1] = s[i] /\ a[2] = s[j]
    BY <1>4, <2>1
  <2>3. s[i] = s[j] /\ i \in FirstPlaces(s) /\ j \in FirstPlaces(s)
    BY <1>7, <2>1, <2>2 DEF A
  <2>4. i = j /\ i \in Int
    BY <1>1, <1>2, <2>3
  <2>5. QED
    BY <2>2, <2>4
<1>10. \A k, l \in 1..n : k < l => b[k] # b[l]
  <2> SUFFICES ASSUME NEW k \in 1..n, NEW l \in 1..n, k < l, b[k] = b[l] PROVE FALSE
    OBVIOUS
  <2>1. PICK i, j \in B : i < j /\ b[k] = s[i] /\ b[l] = s[j]
    BY <1>5
  <2>2. s[i] = s[j] /\ i \in FirstPlaces(s) /\ j \in FirstPlaces(s)
    BY <2>1 DEF B
  <2>3. i = j /\ i \in Int
    BY <1>1, <1>2, <2>2
  <2>4. QED
    BY <2>1, <2>3
<1>11. Distinct(o)
  <2> SUFFICES ASSUME NEW k \in 1..(m + n), NEW l \in 1..(m + n), k < l PROVE o[k] # o[l]
    BY <1>6 DEF Distinct
  <2>1. l \in (m + 1)..(m + n) /\ l - m \in 1..n
    BY <1>4, <1>5, <1>9
  <2>2. CASE k \in 1..m
    BY <1>6, <1>7, <1>8, <2>1, <2>2
  <2>3. CASE k \in (m + 1)..(m + n)
    <3>1. k - m \in 1..n /\ k - m < l - m
      BY <1>4, <1>5, <2>1, <2>3
    <3>2. QED
      BY <1>6, <1>10, <2>1, <2>3, <3>1
  <2>4. QED
    BY <1>4, <1>5, <2>2, <2>3
<1>12. Elements(o) = Elements(a) \cup Elements(b)
  <2>1. \A k \in 1..n : k + m \in (m + 1)..(m + n) /\ (k + m) - m = k
    BY <1>4, <1>5
  <2>2. \A k \in (m + 1)..(m + n) : k - m \in 1..n
    BY <1>4, <1>5
  <2>3. \A k : k \in 1..(m + n) <=> k \in 1..m \/ k \in (m + 1)..(m + n)
    BY <1>4, <1>5
  <2>4. DOMAIN o = 1..(m + n) /\ DOMAIN a = 1..m /\ DOMAIN b = 1..n
    BY <1>4, <1>5, <1>6
  <2>5. \A x : x \in Elements(o) <=> \E k \in 1..(m + n) : x = o[k]
    BY <2>4 DEF Elements
  <2>6. \A x : x \in Elements(a) <=> \E k \in 1..m : x = a[k]
    BY <2>4 DEF Elements
  <2>7. \A x : x \in Elements(b) <=> \E k \in 1..n : x = b[k]
    BY <2>4 DEF Elements
  <2>8. ASSUME NEW x \in Elements(o) PROVE x \in Elements(a) \cup Elements(b)
    BY <1>6, <2>2, <2>3, <2>5, <2>6, <2>7
  <2>9. ASSUME NEW x \in Elements(a) PROVE x \in Elements(o)
    BY <1>6, <2>3, <2>5, <2>6
  <2>10. ASSUME NEW x \in Elements(b) PROVE x \in Elements(o)
    <3>1. PICK k \in 1..n : x = b[k]
      BY <2>7
    <3>2. o[k + m] = x
      BY <1>6, <2>1, <3>1
    <3>3. QED
      BY <2>1, <2>3, <2>5, <3>2
  <2>11. QED
    BY <2>8, <2>9, <2>10
<1>13. Elements(o) = Elements(s) \ {None}
  <2>1. ASSUME NEW x
        PROVE  x \in Elements(s) \ {None} <=> \E i \in FirstPlaces(s) : x = s[i]
    <3>1. \A i \in FirstPlaces(s) : i \in DOMAIN s /\ s[i] # None
      BY DEF FirstPlaces
    <3>2. QED
      BY <3>1, FirstPlaceExists DEF Elements
  <2>2. \A i \in FirstPlaces(s) : i \in A \/ i \in B
    BY DEF A, B
  <2>3. A \subseteq FirstPlaces(s) /\ B \subseteq FirstPlaces(s)
    BY DEF A, B
  <2>4. QED
    BY <1>4, <1>5, <1>12, <2>1, <2>2, <2>3
<1>14. ASSUME v \in Elements(o) PROVE o # <<>> /\ o[1] = v
  <2>1. PICK i \in DOMAIN s : s[i] = v /\ v # None
    BY <1>13, <1>14 DEF Elements
  <2>2. PICK j \in FirstPlaces(s) : s[j] = v
    BY <2>1, FirstPlaceExists
  <2>3. v \in Elements(a)
    BY <1>4, <2>2 DEF A
  <2>4. m >= 1
    BY <1>4, <2>3 DEF Elements
  <2>5. o[1] = v /\ Len(o) # 0
    BY <1>4, <1>5, <1>6, <1>7, <2>4
  <2>6. QED
    BY <2>5, NotEmpty
<1>15. QED
  BY <1>6, <1>11, <1>13, <1>14 DEF o

LEMMA CappedFacts ==
  ASSUME NEW kind \in {"desktop", "mobile"}, NEW list \in Seq(Version), list # <<>>
  PROVE  /\ Capped(kind, list) \in Seq(Version) /\ Capped(kind, list) # <<>>
         /\ Elements(Capped(kind, list)) \subseteq Elements(list)
<1>1. CASE kind = "mobile"
  <2>1. Capped(kind, list) = SpanVersions(list, maxMobileCMTServerVersions)
    BY <1>1 DEF Capped, VersionCap
  <2>2. QED
    BY <2>1, SpanFacts
<1>2. CASE kind = "desktop"
  <2>1. Capped(kind, list) = CapVersions(list, 5)
    BY <1>2 DEF Capped, VersionCap, maxCMTServerVersions
  <2>2. /\ CapVersions(list, 5) \in Seq(Version) /\ Elements(CapVersions(list, 5)) \subseteq Elements(list)
        /\ Len(CapVersions(list, 5)) = IF Len(list) <= 5 THEN Len(list) ELSE 5
    <3>1. 5 \in Nat \ {0}
      OBVIOUS
    <3>2. QED
      BY <3>1, CapFacts
  <2>3. Len(list) \in Nat /\ Len(list) # 0
    OBVIOUS
  <2>4. Len(CapVersions(list, 5)) # 0
    <3> DEFINE m == Len(list)
               n == Len(CapVersions(list, 5))
    <3>1. m # 0 /\ n = IF m <= 5 THEN m ELSE 5
      BY <2>2, <2>3
    <3> HIDE DEF m, n
    <3>2. n # 0
      BY <3>1
    <3>3. QED
      BY <3>2 DEF n
  <2>5. QED
    BY <2>1, <2>2, <2>4, NotEmpty
<1>3. QED
  BY <1>1, <1>2
-----------------------------------------------------------------------------
(* The servers of a pass and the matrix made of them.                      *)
Server == [version : Version, platform : mobileE2EPlatforms \cup {"desktop"}]
Headed(mobile, suite, s) == mobile /\ Len(s) > 0 /\ s[1] = suite
Shift(mobile, suite, s) == IF Headed(mobile, suite, s) THEN 4 ELSE 0
Single(mobile) == IF mobile THEN "site-3" ELSE "desktop"

(* Servers B of versions s: five of the full suite, which comes first, and *)
(* one of every other.                                                     *)
LaidOut(mobile, suite, s, B) ==
  LET headed == Headed(mobile, suite, s)
      shift == Shift(mobile, suite, s)
  IN  /\ mobile => \A i \in 2..Len(s) : s[i] # suite
      /\ Len(B) = Len(s) + shift
      /\ headed => \A i \in 1..5 : B[i] = [version |-> suite, platform |-> TopologySeq[i]]
      /\ \A i \in 1..Len(s) : ~headed \/ i > 1 =>
           B[i + shift] = [version |-> s[i], platform |-> Single(mobile)]

(* What MatrixMatches says of a matrix E.                                  *)
Tested(E, i) == {E[i].site[f] : f \in DOMAIN E[i].site}
Matches(E, s, B) ==
  /\ {E[i].version : i \in DOMAIN E} = Elements(s)
  /\ \A i \in DOMAIN E : \A x \in Tested(E, i) : x.version = E[i].version
  /\ UNION {Tested(E, i) : i \in DOMAIN E} = Elements(B)

LEMMA DesktopSent ==
  ASSUME NEW s \in Seq(Version), NEW B \in Seq(Server), NEW suite, LaidOut(FALSE, suite, s, B)
  PROVE  DesktopMatrix(s, B).ok /\ Matches(DesktopMatrix(s, B).server, s, B)
<1> DEFINE n == Len(s)
           E == [i \in DOMAIN s |->
                   [version |-> s[i], latest |-> FALSE, site |-> [f \in {"url"} |-> B[i]]]]
<1>1. n \in Nat /\ DOMAIN s = 1..n /\ DOMAIN B = 1..Len(B)
  OBVIOUS
<1>2. Len(B) = n /\ \A i \in 1..n : B[i].version = s[i]
  <2>1. Shift(FALSE, suite, s) = 0 /\ ~Headed(FALSE, suite, s)
    BY DEF Shift, Headed
  <2>2. Len(B) = n + 0 /\ \A i \in 1..n : B[i + 0] = [version |-> s[i], platform |-> Single(FALSE)]
    BY <2>1 DEF LaidOut
  <2>3. \A i \in 1..n : i + 0 = i
    BY <1>1
  <2>4. \A i \in 1..n : B[i] = [version |-> s[i], platform |-> Single(FALSE)]
    BY <2>2, <2>3
  <2>5. Len(B) = n
    BY <1>1, <2>2
  <2>6. ASSUME NEW i \in 1..n PROVE B[i].version = s[i]
    <3>1. B[i] = [version |-> s[i], platform |-> Single(FALSE)]
      BY <2>4
    <3>2. QED
      BY <3>1
  <2>7. QED
    BY <2>5, <2>6
<1>3. DesktopMatrix(s, B) = [ok |-> TRUE, server |-> E]
  BY <1>1, <1>2 DEF DesktopMatrix
<1>4. DOMAIN E = 1..n /\ \A i \in 1..n : E[i].version = s[i] /\ Tested(E, i) = {B[i]}
  <2>1. DOMAIN E = 1..n /\ \A i \in 1..n : E[i].version = s[i] /\ E[i].site = [f \in {"url"} |-> B[i]]
    BY <1>1
  <2> HIDE DEF E
  <2>2. ASSUME NEW i \in 1..n PROVE Tested(E, i) = {B[i]}
    <3>1. DOMAIN E[i].site = {"url"} /\ E[i].site["url"] = B[i]
      BY <2>1
    <3>2. QED
      BY <3>1 DEF Tested
  <2>3. QED
    BY <2>1, <2>2
<1> HIDE DEF E
<1>5. {E[i].version : i \in DOMAIN E} = Elements(s)
  BY <1>1, <1>4 DEF Elements
<1>6. \A i \in DOMAIN E : \A x \in Tested(E, i) : x.version = E[i].version
  BY <1>2, <1>4
<1>7. UNION {Tested(E, i) : i \in DOMAIN E} = Elements(B)
  BY <1>1, <1>2, <1>4 DEF Elements
<1>8. QED
  BY <1>3, <1>5, <1>6, <1>7 DEF Matches

(* The place of the highest version is one of the list.                    *)
LEMMA LatestIndexFacts ==
  ASSUME NEW s \in Seq(Version), s # <<>>
  PROVE  LET P == {i \in DOMAIN s : s[i].ok}
         IN  /\ LatestIndex(s) \in 1..Len(s)
             /\ P = {} => LatestIndex(s) = Len(s)
             /\ P # {} => /\ LatestIndex(s) \in P
                          /\ \A j \in P : ~Less(s[LatestIndex(s)], s[j])
                          /\ \A j \in P : j < LatestIndex(s) => Less(s[j], s[LatestIndex(s)])
<1> DEFINE P == {i \in DOMAIN s : s[i].ok}
           R == {p \in P \X P : Less(s[p[1]], s[p[2]]) \/
                                (p[2] < p[1] /\ ~Less(s[p[2]], s[p[1]]))}
           Best(i) == /\ \A j \in P : ~Less(s[i], s[j])
                      /\ \A j \in P : j < i => Less(s[j], s[i])
<1>1. DOMAIN s = 1..Len(s) /\ Len(s) \in Nat /\ Len(s) # 0
  OBVIOUS
<1>2. P = {} => LatestIndex(s) = Len(s)
  BY DEF LatestIndex
<1>3. ASSUME P # {} PROVE LatestIndex(s) \in P /\ Best(LatestIndex(s))
  <2>1. IsFiniteSet(P)
    <3>1. IsFiniteSet(1..Len(s)) /\ P \subseteq 1..Len(s)
      BY <1>1, IndicesFinite
    <3>2. QED
      BY <3>1, FS_Subset
  <2>2. \A i \in P : i \in Int /\ s[i] \in Version /\ s[i].ok
    BY <1>1
  <2>3. \A i, j \in P : <<i, j>> \in R <=> Less(s[i], s[j]) \/ (j < i /\ ~Less(s[j], s[i]))
    OBVIOUS
  <2> HIDE DEF P, R
  <2>4. \A a, b, c \in P :
          /\ ~Less(s[a], s[a])
          /\ ~(Less(s[a], s[b]) /\ Less(s[b], s[a]))
          /\ Less(s[a], s[b]) /\ Less(s[b], s[c]) => Less(s[a], s[c])
          /\ ~Less(s[a], s[b]) /\ ~Less(s[b], s[c]) => ~Less(s[a], s[c])
    <3> SUFFICES ASSUME NEW a \in P, NEW b \in P, NEW c \in P
                 PROVE  /\ ~Less(s[a], s[a])
                        /\ ~(Less(s[a], s[b]) /\ Less(s[b], s[a]))
                        /\ Less(s[a], s[b]) /\ Less(s[b], s[c]) => Less(s[a], s[c])
                        /\ ~Less(s[a], s[b]) /\ ~Less(s[b], s[c]) => ~Less(s[a], s[c])
      OBVIOUS
    <3>1. s[a] \in Version /\ s[b] \in Version /\ s[c] \in Version /\ s[a].ok /\ s[b].ok /\ s[c].ok
      BY <2>2
    <3>2. \A x, y \in {s[a], s[b], s[c]} : ListLess(x, y) <=> Less(x, y)
      BY <3>1 DEF ListLess
    <3>3. QED
      BY <3>1, <3>2, ListLessFacts
  <2>5. StrictOrder(R, P)
    BY <2>2, <2>3, <2>4 DEF StrictOrder
  <2>6. PICK i \in P : \A j \in P : <<i, j>> \notin R
    BY <1>3, <2>1, <2>5, MaximalExists
  <2>7. Best(i)
    BY <2>3, <2>6
  <2>8. LatestIndex(s) = CHOOSE k \in P : Best(k)
    BY <1>3 DEF LatestIndex, P
  <2> HIDE DEF Best
  <2>9. QED
    BY <2>6, <2>7, <2>8
<1>4. LatestIndex(s) \in 1..Len(s)
  BY <1>1, <1>2, <1>3
<1>5. QED
  BY <1>2, <1>3, <1>4

LEMMA TopologyFacts ==
  /\ \A i \in 1..5 : TopologySeq[i] \in mobileE2EPlatforms
  /\ \A p \in mobileE2EPlatforms : \E i \in 1..5 : TopologySeq[i] = p
  /\ \A i, j \in 1..5 : TopologySeq[i] = TopologySeq[j] => i = j
  /\ Len(TopologySeq) = 5
  /\ "android-site-1" \in mobileE2EPlatforms /\ TopologySeq[1] = "android-site-1"
  /\ \A i \in 2..5 : TopologySeq[i] # "android-site-1"
<1>1. 1..5 = {1, 2, 3, 4, 5} /\ 2..5 = {2, 3, 4, 5}
  OBVIOUS
<1>2. /\ TopologySeq[1] = "android-site-1" /\ TopologySeq[2] = "android-site-2"
      /\ TopologySeq[3] = "ios-site-1" /\ TopologySeq[4] = "ios-site-2"
      /\ TopologySeq[5] = "site-3" /\ Len(TopologySeq) = 5
  BY DEF TopologySeq
<1>3. \A p : p \in mobileE2EPlatforms <=>
        p \in {"android-site-1", "android-site-2", "ios-site-1", "ios-site-2", "site-3"}
  BY DEF mobileE2EPlatforms
<1>4. \A p \in mobileE2EPlatforms : \E i \in 1..5 : TopologySeq[i] = p
  BY <1>2, <1>3
<1>5. \A i, j \in 1..5 : TopologySeq[i] = TopologySeq[j] => i = j
  BY <1>1, <1>2
<1>6. QED
  BY <1>1, <1>2, <1>3, <1>4, <1>5

(* Only a run that begins with the servers of the full suite is a full     *)
(* topology.                                                               *)
LEMMA FullTopology ==
  ASSUME NEW s \in Seq(Version), NEW B \in Seq(Server), NEW suite,
         LaidOut(TRUE, suite, s, B), NEW l \in 1..Len(s)
  PROVE  HasFullTopology(SubSeq(B, l, Len(B))) <=> Headed(TRUE, suite, s) /\ l = 1
<1> DEFINE n == Len(s)
           m == Len(B)
           block == SubSeq(B, l, m)
           first == "android-site-1"
<1>1. n \in Nat /\ m \in Nat /\ l \in Nat /\ l >= 1 /\ l <= n
  OBVIOUS
<1>2. m = n + Shift(TRUE, suite, s) /\ Shift(TRUE, suite, s) \in {0, 4}
  BY DEF LaidOut, Shift
<1>3. Len(block) = m - l + 1 /\ \A i \in 1..(m - l + 1) : block[i] = B[l + i - 1]
  <2>1. l <= m
    <3> DEFINE h == Shift(TRUE, suite, s)
    <3>1. m = n + h /\ (h = 0 \/ h = 4)
      BY <1>2
    <3> HIDE DEF h, n, m
    <3>2. QED
      BY <1>1, <3>1
  <2>2. QED
    BY <1>1, <2>1, SubSeqProperties
<1>4. Headed(TRUE, suite, s) => \A i \in 1..5 : B[i] = [version |-> suite, platform |-> TopologySeq[i]]
  BY DEF LaidOut
<1>5. \A i \in 1..n : ~Headed(TRUE, suite, s) \/ i > 1 =>
        B[i + Shift(TRUE, suite, s)] = [version |-> s[i], platform |-> "site-3"]
  BY DEF LaidOut, Single
<1> HIDE DEF n, m, block
<1>6. CASE Headed(TRUE, suite, s)
  <2>1. Shift(TRUE, suite, s) = 4 /\ m = n + 4
    BY <1>2, <1>6 DEF Shift
  <2>2. CASE l = 1
    <3>1. Len(block) >= 5 /\ \A i \in 1..5 : block[i].platform = TopologySeq[i]
      <4>1. Len(block) = m /\ m >= 5
        BY <1>1, <1>3, <2>1, <2>2
      <4>2. ASSUME NEW i \in 1..5 PROVE block[i].platform = TopologySeq[i]
        <5>1. i \in 1..(m - l + 1) /\ l + i - 1 = i
          BY <1>1, <2>1, <2>2
        <5>2. block[i] = [version |-> suite, platform |-> TopologySeq[i]]
          BY <1>3, <1>4, <1>6, <5>1
        <5>3. QED
          BY <5>2
      <4>3. QED
        BY <4>1, <4>2
    <3>2. ASSUME NEW p \in mobileE2EPlatforms PROVE \E i \in 1..5 : block[i].platform = p
      BY <3>1, TopologyFacts
    <3>3. HasFullTopology(block)
      BY <3>1, <3>2 DEF HasFullTopology
    <3>4. QED
      BY <1>6, <2>2, <3>3 DEF block, m
  <2>3. CASE l # 1
    <3> SUFFICES ASSUME Len(block) >= 5 /\ \E i \in 1..5 : block[i].platform = first PROVE FALSE
      BY <2>3, TopologyFacts DEF HasFullTopology, block, m
    <3>1. PICK i \in 1..5 : block[i].platform = first
      OBVIOUS
    <3>2. i \in 1..(m - l + 1) /\ l + i - 1 \in 2..m
      BY <1>1, <1>3, <2>3
    <3>3. B[l + i - 1].platform = first
      BY <1>3, <3>1, <3>2
    <3>4. PICK k \in 2..m : k = l + i - 1
      BY <3>2
    <3>5. CASE k \in 2..5
      <4>1. B[k] = [version |-> suite, platform |-> TopologySeq[k]] /\ k \in 1..5
        BY <1>4, <1>6, <3>5
      <4>2. B[k].platform = TopologySeq[k]
        BY <4>1
      <4>3. QED
        BY <3>3, <3>4, <3>5, <4>2, TopologyFacts
    <3>6. CASE k \notin 2..5
      <4>1. k - 4 \in 1..n /\ k - 4 > 1 /\ k - 4 + 4 = k
        BY <1>1, <2>1, <3>6
      <4>2. B[k] = [version |-> s[k - 4], platform |-> "site-3"]
        BY <1>5, <2>1, <4>1
      <4>3. B[k].platform = "site-3"
        BY <4>2
      <4>4. QED
        BY <3>3, <3>4, <4>3
    <3>7. QED
      BY <3>5, <3>6
  <2>4. QED
    BY <2>2, <2>3
<1>7. CASE ~Headed(TRUE, suite, s)
  <2>1. Shift(TRUE, suite, s) = 0 /\ m = n
    BY <1>1, <1>2, <1>7 DEF Shift
  <2> SUFFICES ASSUME Len(block) >= 5 /\ \E i \in 1..5 : block[i].platform = first PROVE FALSE
    BY <1>7, TopologyFacts DEF HasFullTopology, block, m
  <2>2. PICK i \in 1..5 : block[i].platform = first
    OBVIOUS
  <2>3. i \in 1..(m - l + 1) /\ l + i - 1 \in 1..m
    BY <1>1, <1>3
  <2>4. PICK k \in 1..n : k = l + i - 1 /\ B[k].platform = first
    BY <1>3, <2>1, <2>2, <2>3
  <2>0. k + Shift(TRUE, suite, s) = k
    <3>1. k \in Int /\ k + 0 = k
      OBVIOUS
    <3>2. QED
      BY <2>1, <3>1
  <2>5. B[k + Shift(TRUE, suite, s)] = [version |-> s[k], platform |-> "site-3"]
    BY <1>5, <1>7
  <2>r. B[k] = [version |-> s[k], platform |-> "site-3"]
    BY <2>0, <2>5
  <2>6. B[k].platform = "site-3"
    BY <2>r
  <2>7. QED
    BY <2>4, <2>6
<1>8. QED
  BY <1>6, <1>7

(* Versions with one server each.                                          *)
LEMMA SmokeSent ==
  ASSUME NEW s \in Seq(Version), s # <<>>, NEW B \in Seq(Server), NEW suite,
         LaidOut(TRUE, suite, s, B), ~Headed(TRUE, suite, s)
  PROVE  MobileMatrix(s, B).ok /\ Matches(MobileMatrix(s, B).server, s, B)
<1> DEFINE n == Len(s)
           latest == LatestIndex(s)
           whole == HasFullTopology(SubSeq(B, latest, Len(B)))
           start(i) == IF whole /\ i > latest THEN i + 4 ELSE i
           end(i) == IF whole /\ i >= latest THEN i + 4 ELSE i
           entry(i) ==
             [version |-> s[i],
              latest |-> whole /\ i = latest,
              site |-> [p \in mobileE2EPlatforms |->
                          IF whole /\ i = latest
                          THEN B[CHOOSE k \in start(i)..end(i) : B[k].platform = p]
                          ELSE B[start(i)]]]
           bad == \/ end(Len(s)) # Len(B)
                  \/ \E i \in DOMAIN s : \E k \in start(i)..end(i) : B[k].version # s[i]
           E == [i \in DOMAIN s |-> entry(i)]
<1>1. n \in Nat /\ DOMAIN s = 1..n /\ DOMAIN B = 1..Len(B)
  OBVIOUS
<1>2. Len(B) = n /\ \A i \in 1..n : B[i].version = s[i]
  <2>1. Shift(TRUE, suite, s) = 0
    BY DEF Shift
  <2>2. Len(B) = n + 0 /\ \A i \in 1..n : B[i + 0] = [version |-> s[i], platform |-> Single(TRUE)]
    BY <2>1 DEF LaidOut
  <2>3. \A i \in 1..n : i + 0 = i
    BY <1>1
  <2>4. \A i \in 1..n : B[i] = [version |-> s[i], platform |-> Single(TRUE)]
    BY <2>2, <2>3
  <2>5. Len(B) = n
    BY <1>1, <2>2
  <2>6. ASSUME NEW i \in 1..n PROVE B[i].version = s[i]
    <3>1. B[i] = [version |-> s[i], platform |-> Single(TRUE)]
      BY <2>4
    <3>2. QED
      BY <3>1
  <2>7. QED
    BY <2>5, <2>6
<1>3. ~whole
  <2>1. latest \in 1..Len(s)
    BY LatestIndexFacts
  <2> HIDE DEF latest
  <2>2. QED
    BY <2>1, FullTopology
<1>4. MobileMatrix(s, B) = IF bad THEN MatrixError ELSE [ok |-> TRUE, server |-> E]
  BY DEF MobileMatrix
<1>5. \A i : start(i) = i /\ end(i) = i
  BY <1>3
<1>6. \A i \in 1..n : entry(i).version = s[i] /\ entry(i).site = [p \in mobileE2EPlatforms |-> B[start(i)]]
  BY <1>3
<1>7. DOMAIN E = 1..n /\ \A i \in 1..n : E[i] = entry(i)
  BY <1>1
<1> HIDE DEF entry, whole, start, end, E
<1>8. ~bad
  <2>1. \A i \in 1..n : \A k \in i..i : B[k].version = s[i]
    BY <1>1, <1>2
  <2>2. QED
    BY <1>1, <1>2, <1>5, <2>1
<1> HIDE DEF bad
<1>9. MobileMatrix(s, B).ok /\ MobileMatrix(s, B).server = E
  BY <1>4, <1>8
<1>10. ASSUME NEW i \in 1..n PROVE E[i].version = s[i] /\ Tested(E, i) = {B[i]}
  <2>1. E[i].version = s[i] /\ E[i].site = [p \in mobileE2EPlatforms |-> B[i]]
    BY <1>5, <1>6, <1>7
  <2>2. DOMAIN E[i].site = mobileE2EPlatforms /\ \A p \in mobileE2EPlatforms : E[i].site[p] = B[i]
    BY <2>1
  <2>3. QED
    BY <2>1, <2>2, TopologyFacts DEF Tested
<1>11. {E[i].version : i \in DOMAIN E} = Elements(s)
  BY <1>1, <1>7, <1>10 DEF Elements
<1>12. \A i \in DOMAIN E : \A x \in Tested(E, i) : x.version = E[i].version
  BY <1>2, <1>7, <1>10
<1>13. UNION {Tested(E, i) : i \in DOMAIN E} = Elements(B)
  BY <1>1, <1>2, <1>7, <1>10 DEF Elements
<1>14. QED
  BY <1>9, <1>11, <1>12, <1>13 DEF Matches

(* The full suite is not the highest of the list: its servers are one too  *)
(* many.                                                                   *)
LEMMA FullRefused ==
  ASSUME NEW s \in Seq(Version), s # <<>>, NEW B \in Seq(Server), NEW suite,
         LaidOut(TRUE, suite, s, B), Headed(TRUE, suite, s), LatestIndex(s) # 1
  PROVE  ~MobileMatrix(s, B).ok
<1> DEFINE n == Len(s)
           latest == LatestIndex(s)
           whole == HasFullTopology(SubSeq(B, latest, Len(B)))
           end(i) == IF whole /\ i >= latest THEN i + 4 ELSE i
<1>1. n \in Nat /\ Len(B) = n + 4
  BY DEF LaidOut, Shift
<1>2. ~whole
  <2>1. latest \in 1..Len(s)
    BY LatestIndexFacts
  <2>2. latest # 1
    OBVIOUS
  <2> HIDE DEF latest
  <2>3. QED
    BY <2>1, <2>2, FullTopology
<1>3. end(Len(s)) = n
  BY <1>2
<1>4. end(Len(s)) # Len(B)
  <2> HIDE DEF end
  <2>1. n # n + 4
    <3> HIDE DEF n
    <3>1. QED
      BY <1>1
  <2>2. QED
    BY <1>1, <1>3, <2>1
<1>5. end(Len(s)) # Len(B) => MobileMatrix(s, B) = MatrixError
  BY DEF MobileMatrix
<1>6. QED
  BY <1>4, <1>5 DEF MatrixError

(* The full suite first and highest: five servers for it, one for every    *)
(* other.                                                                  *)
LEMMA FullSent ==
  ASSUME NEW s \in Seq(Version), s # <<>>, NEW B \in Seq(Server), NEW suite,
         LaidOut(TRUE, suite, s, B), Headed(TRUE, suite, s), LatestIndex(s) = 1
  PROVE  /\ MobileMatrix(s, B).ok /\ Matches(MobileMatrix(s, B).server, s, B)
         /\ 1 \in DOMAIN MobileMatrix(s, B).server
         /\ MobileMatrix(s, B).server[1].latest
         /\ MobileMatrix(s, B).server[1].version = suite
<1> DEFINE n == Len(s)
           m == Len(B)
           latest == LatestIndex(s)
           whole == HasFullTopology(SubSeq(B, latest, Len(B)))
           start(i) == IF whole /\ i > latest THEN i + 4 ELSE i
           end(i) == IF whole /\ i >= latest THEN i + 4 ELSE i
           entry(i) ==
             [version |-> s[i],
              latest |-> whole /\ i = latest,
              site |-> [p \in mobileE2EPlatforms |->
                          IF whole /\ i = latest
                          THEN B[CHOOSE k \in start(i)..end(i) : B[k].platform = p]
                          ELSE B[start(i)]]]
           bad == \/ end(Len(s)) # Len(B)
                  \/ \E i \in DOMAIN s : \E k \in start(i)..end(i) : B[k].version # s[i]
           E == [i \in DOMAIN s |-> entry(i)]
<1>1. n \in Nat /\ DOMAIN s = 1..n /\ DOMAIN B = 1..m /\ n >= 1 /\ s[1] = suite
  BY DEF Headed
<1>2. m = n + 4
  BY DEF LaidOut, Shift
<1>3. \A k \in 1..5 : B[k].version = suite /\ B[k].platform = TopologySeq[k]
  <2> SUFFICES ASSUME NEW k \in 1..5 PROVE B[k].version = suite /\ B[k].platform = TopologySeq[k]
    OBVIOUS
  <2>1. B[k] = [version |-> suite, platform |-> TopologySeq[k]]
    BY DEF LaidOut
  <2>2. QED
    BY <2>1
<1>4. \A i \in 2..n : B[i + 4].version = s[i]
  <2> SUFFICES ASSUME NEW i \in 2..n PROVE B[i + 4].version = s[i]
    OBVIOUS
  <2>1. Shift(TRUE, suite, s) = 4 /\ i \in 1..n /\ i > 1
    BY <1>1 DEF Shift
  <2>2. B[i + Shift(TRUE, suite, s)] = [version |-> s[i], platform |-> Single(TRUE)]
    BY <2>1 DEF LaidOut
  <2>3. B[i + 4] = [version |-> s[i], platform |-> Single(TRUE)]
    BY <2>1, <2>2
  <2>4. QED
    BY <2>3
<1>5. whole /\ latest = 1
  <2>1. latest = 1 /\ latest \in 1..Len(s)
    BY <1>1
  <2> HIDE DEF latest
  <2>2. QED
    BY <2>1, FullTopology
<1>6. MobileMatrix(s, B) = IF bad THEN MatrixError ELSE [ok |-> TRUE, server |-> E]
  BY DEF MobileMatrix
<1> HIDE DEF whole, latest
<1>7. /\ start(1) = 1 /\ end(1) = 5
      /\ \A i \in 2..n : start(i) = i + 4 /\ end(i) = i + 4
  BY <1>1, <1>5
<1>8. /\ entry(1).version = s[1] /\ entry(1).latest
      /\ entry(1).site =
           [p \in mobileE2EPlatforms |-> B[CHOOSE k \in start(1)..end(1) : B[k].platform = p]]
      /\ \A i \in 2..n : /\ entry(i).version = s[i]
                         /\ entry(i).site = [p \in mobileE2EPlatforms |-> B[start(i)]]
  <2> HIDE DEF start, end
  <2>1. /\ entry(1).version = s[1] /\ entry(1).latest
        /\ entry(1).site =
             [p \in mobileE2EPlatforms |-> B[CHOOSE k \in start(1)..end(1) : B[k].platform = p]]
    <3> DEFINE at(p) == CHOOSE k \in start(1)..end(1) : B[k].platform = p
    <3>1. /\ entry(1).version = s[1] /\ entry(1).latest = (whole /\ 1 = latest)
          /\ entry(1).site =
               [p \in mobileE2EPlatforms |-> IF whole /\ 1 = latest THEN B[at(p)] ELSE B[start(1)]]
      OBVIOUS
    <3> HIDE DEF entry, at
    <3>2. whole /\ 1 = latest
      BY <1>5
    <3>3. entry(1).site = [p \in mobileE2EPlatforms |-> B[at(p)]]
      BY <3>1, <3>2
    <3>4. entry(1).latest
      BY <3>1, <3>2
    <3>5. QED
      BY <3>1, <3>3, <3>4 DEF at
  <2>2. \A i \in 2..n : i # latest
    BY <1>5
  <2>3. ASSUME NEW i \in 2..n
        PROVE  /\ entry(i).version = s[i]
               /\ entry(i).site = [p \in mobileE2EPlatforms |-> B[start(i)]]
    BY <2>2
  <2>4. QED
    BY <2>1, <2>3
<1>9. DOMAIN E = 1..n /\ \A i \in 1..n : E[i] = entry(i)
  BY <1>1
<1> HIDE DEF entry, start, end, E, m, n
<1>10. 1 \in 1..n /\ \A i : i \in 1..n <=> i = 1 \/ i \in 2..n
  BY <1>1
<1>11. ~bad
  <2>1. end(Len(s)) = m
    <3>1. n = 1 \/ n \in 2..n
      BY <1>1
    <3>2. end(n) = n + 4
      BY <1>7, <3>1
    <3>3. QED
      BY <1>2, <3>2 DEF n
  <2>2. \A k \in start(1)..end(1) : B[k].version = s[1]
    BY <1>1, <1>3, <1>7
  <2>3. ASSUME NEW i \in 2..n, NEW k \in start(i)..end(i) PROVE B[k].version = s[i]
    <3>1. k = i + 4
      BY <1>1, <1>7, <2>3
    <3>2. QED
      BY <1>4, <3>1
  <2>4. QED
    BY <1>1, <1>10, <2>1, <2>2, <2>3 DEF m
<1> HIDE DEF bad
<1>12. MobileMatrix(s, B).ok /\ MobileMatrix(s, B).server = E
  BY <1>6, <1>11
<1>13. E[1].version = suite /\ E[1].latest /\ Tested(E, 1) = {B[k] : k \in 1..5}
  <2> DEFINE at(p) == CHOOSE k \in start(1)..end(1) : B[k].platform = p
  <2>1. E[1].version = suite /\ E[1].latest
    BY <1>1, <1>8, <1>9, <1>10
  <2>e. E[1] = entry(1) /\ start(1) = 1 /\ end(1) = 5
    BY <1>7, <1>9, <1>10
  <2>2. E[1].site = [p \in mobileE2EPlatforms |-> B[at(p)]]
    <3>1. E[1].site = entry(1).site
      BY <2>e
    <3>2. QED
      BY <1>8, <3>1
  <2>3. \A p \in mobileE2EPlatforms : at(p) \in 1..5 /\ B[at(p)].platform = p
    <3> SUFFICES ASSUME NEW p \in mobileE2EPlatforms PROVE at(p) \in 1..5 /\ B[at(p)].platform = p
      OBVIOUS
    <3>1. \E k \in start(1)..end(1) : B[k].platform = p
      BY <1>3, <2>e, TopologyFacts
    <3>2. at(p) \in start(1)..end(1) /\ B[at(p)].platform = p
      BY <3>1
    <3> HIDE DEF at
    <3>3. QED
      BY <2>e, <3>2
  <2> HIDE DEF at
  <2>4. \A k \in 1..5 : TopologySeq[k] \in mobileE2EPlatforms /\ at(TopologySeq[k]) = k
    BY <1>3, <2>3, TopologyFacts
  <2>5. DOMAIN E[1].site = mobileE2EPlatforms /\ \A p \in mobileE2EPlatforms : E[1].site[p] = B[at(p)]
    BY <2>2
  <2>6. Tested(E, 1) = {B[at(p)] : p \in mobileE2EPlatforms}
    BY <2>5 DEF Tested
  <2>7. {B[at(p)] : p \in mobileE2EPlatforms} = {B[k] : k \in 1..5}
    BY <2>3, <2>4
  <2>8. QED
    BY <2>1, <2>6, <2>7
<1>14. ASSUME NEW i \in 2..n PROVE E[i].version = s[i] /\ Tested(E, i) = {B[i + 4]}
  <2>e. E[i] = entry(i) /\ start(i) = i + 4
    BY <1>7, <1>9, <1>10
  <2>1. E[i].version = s[i] /\ E[i].site = [p \in mobileE2EPlatforms |-> B[start(i)]]
    BY <1>8, <2>e
  <2>2. DOMAIN E[i].site = mobileE2EPlatforms /\ \A p \in mobileE2EPlatforms : E[i].site[p] = B[start(i)]
    BY <2>1
  <2>3. DOMAIN E[i].site = mobileE2EPlatforms /\ \A p \in mobileE2EPlatforms : E[i].site[p] = B[i + 4]
    BY <2>2, <2>e
  <2>4. QED
    BY <2>1, <2>3, TopologyFacts DEF Tested
<1>15. {E[i].version : i \in DOMAIN E} = Elements(s)
  BY <1>1, <1>9, <1>10, <1>13, <1>14 DEF Elements
<1>16. \A i \in DOMAIN E : \A x \in Tested(E, i) : x.version = E[i].version
  BY <1>3, <1>4, <1>9, <1>10, <1>13, <1>14
<1>17. UNION {Tested(E, i) : i \in DOMAIN E} = Elements(B)
  <2>1. \A k \in 1..5 : k \in 1..m
    BY <1>1, <1>2
  <2>2. \A i \in 2..n : i + 4 \in 1..m
    BY <1>1, <1>2
  <2>3. \A k \in 1..m : k \in 1..5 \/ (k - 4 \in 2..n /\ (k - 4) + 4 = k)
    BY <1>1, <1>2
  <2>4. ASSUME NEW i \in DOMAIN E, NEW x \in Tested(E, i) PROVE x \in Elements(B)
    <3>1. CASE i = 1
      BY <1>1, <1>13, <2>1, <2>4, <3>1 DEF Elements
    <3>2. CASE i \in 2..n
      <4>1. x = B[i + 4] /\ i + 4 \in 1..m
        BY <1>14, <2>2, <2>4, <3>2
      <4>2. QED
        BY <1>1, <4>1 DEF Elements
    <3>3. QED
      BY <1>9, <1>10, <2>4, <3>1, <3>2
  <2>5. ASSUME NEW x \in Elements(B) PROVE \E i \in DOMAIN E : x \in Tested(E, i)
    <3>1. PICK k \in 1..m : x = B[k]
      BY <1>1 DEF Elements
    <3>2. CASE k \in 1..5
      BY <1>9, <1>10, <1>13, <3>1, <3>2
    <3>3. CASE k \notin 1..5
      BY <1>9, <1>10, <1>14, <2>3, <3>1, <3>3
    <3>4. QED
      BY <3>2, <3>3
  <2>6. QED
    BY <2>4, <2>5
<1>18. QED
  BY <1>9, <1>10, <1>12, <1>13, <1>15, <1>16, <1>17 DEF Matches

LEMMA MobileSent ==
  ASSUME NEW s \in Seq(Version), s # <<>>, NEW B \in Seq(Server), NEW suite,
         LaidOut(TRUE, suite, s, B), MobileMatrix(s, B).ok
  PROVE  /\ Matches(MobileMatrix(s, B).server, s, B)
         /\ Headed(TRUE, suite, s) =>
              /\ 1 \in DOMAIN MobileMatrix(s, B).server
              /\ MobileMatrix(s, B).server[1].latest
              /\ MobileMatrix(s, B).server[1].version = suite
<1>1. CASE ~Headed(TRUE, suite, s)
  BY <1>1, SmokeSent
<1>2. CASE Headed(TRUE, suite, s)
  BY <1>2, FullRefused, FullSent
<1>3. QED
  BY <1>1, <1>2

(* Servers X of version v.                                                 *)
Needed(mobile, suite, v, X) ==
  /\ X \in Seq(Server)
  /\ IF mobile /\ v = suite
     THEN Len(X) = 5 /\ \A i \in 1..5 : X[i] = [version |-> suite, platform |-> TopologySeq[i]]
     ELSE Len(X) = 1 /\ X[1] = [version |-> v, platform |-> Single(mobile)]

LEMMA SeqOf ==
  ASSUME NEW S, NEW n \in Nat, NEW f \in [1..n -> S]
  PROVE  f \in Seq(S) /\ Len(f) = n
  OBVIOUS

LEMMA ServersFacts ==
  ASSUME NEW t \in Triggers, NEW v \in Version
  PROVE  Needed(Mobile(t), full[t], v, Servers(t, v))
<1> DEFINE X == Servers(t, v)
           T == Topology(t, v)
<1>0. 1..5 = {1, 2, 3, 4, 5} /\ 1..1 = {1}
  OBVIOUS
<1>1. /\ Mobile(t) /\ v = full[t] => T = TopologySeq
      /\ ~Mobile(t) => T = <<"desktop">>
      /\ Mobile(t) /\ v # full[t] => T = <<"site-3">>
  BY DEF Topology
<1>2. DOMAIN TopologySeq = 1..5
  BY <1>0 DEF TopologySeq
<1> DEFINE P == mobileE2EPlatforms \cup {"desktop"}
<1>3. \A c : Len(<<c>>) = 1 /\ DOMAIN <<c>> = 1..1 /\ <<c>>[1] = c
  OBVIOUS
<1>4. DOMAIN X = DOMAIN T /\ \A i \in DOMAIN T : X[i] = [version |-> v, platform |-> T[i]]
  BY DEF Servers
<1> HIDE DEF X, T
<1>5. X = [i \in DOMAIN T |-> [version |-> v, platform |-> T[i]]]
  BY DEF Servers, X, T
<1>6. CASE Mobile(t) /\ v = full[t]
  <2>1. DOMAIN T = 1..5 /\ \A i \in 1..5 : T[i] = TopologySeq[i] /\ T[i] \in P
    BY <1>1, <1>2, <1>6, TopologyFacts
  <2>2. \A i \in 1..5 : [version |-> v, platform |-> T[i]] \in Server
    BY <2>1 DEF Server
  <2>3. X \in [1..5 -> Server] /\ 5 \in Nat
    BY <1>5, <2>1, <2>2
  <2>4. X \in Seq(Server) /\ Len(X) = 5
    BY <2>3, SeqOf, Zenon
  <2>5. ASSUME NEW i \in 1..5 PROVE X[i] = [version |-> full[t], platform |-> TopologySeq[i]]
    BY <1>4, <1>6, <2>1
  <2>6. QED
    BY <1>6, <2>4, <2>5 DEF Needed, X
<1>7. CASE ~(Mobile(t) /\ v = full[t])
  <2>1. DOMAIN T = 1..1 /\ T[1] = Single(Mobile(t)) /\ T[1] \in P
    <3>1. CASE Mobile(t)
      BY <1>1, <1>3, <1>7, <3>1 DEF Single, mobileE2EPlatforms
    <3>2. CASE ~Mobile(t)
      BY <1>1, <1>3, <3>2 DEF Single
    <3>3. QED
      BY <3>1, <3>2
  <2>2. \A i \in 1..1 : i = 1
    BY <1>0
  <2>3. \A i \in 1..1 : [version |-> v, platform |-> T[i]] \in Server
    BY <2>1, <2>2 DEF Server
  <2>4. X \in [1..1 -> Server] /\ 1 \in Nat
    BY <1>5, <2>1, <2>3
  <2>5. X \in Seq(Server) /\ Len(X) = 1
    BY <2>4, SeqOf, Zenon
  <2>6. X[1] = [version |-> v, platform |-> T[1]]
    BY <1>0, <1>4, <2>1
  <2>7. X[1] = [version |-> v, platform |-> Single(Mobile(t))]
    BY <2>1, <2>6
  <2>8. QED
    BY <1>7, <2>5, <2>7 DEF Needed, X
<1>8. QED
  BY <1>6, <1>7

(* A version with its servers is put at the end, the full suite only at    *)
(* the beginning.                                                          *)
LEMMA LaidOutAppend ==
  ASSUME NEW mobile \in BOOLEAN, NEW suite, NEW s \in Seq(Version), NEW B \in Seq(Server),
         NEW v \in Version, NEW X, Needed(mobile, suite, v, X),
         LaidOut(mobile, suite, s, B), mobile /\ v = suite => s = <<>>
  PROVE  LaidOut(mobile, suite, Append(s, v), B \o X)
<1> DEFINE r == Append(s, v)
           C == B \o X
           n == Len(s)
           m == Len(B)
           x == Len(X)
           h == Shift(mobile, suite, s)
           g == Shift(mobile, suite, r)
           headed == Headed(mobile, suite, s)
<1>1. /\ n \in Nat /\ Len(r) = n + 1 /\ r[n + 1] = v /\ \A i \in 1..n : r[i] = s[i]
      /\ DOMAIN r = 1..(n + 1)
  BY AppendProperties
<1>2. /\ m \in Nat /\ Len(C) = m + x
      /\ \A k \in 1..m : C[k] = B[k]
      /\ \A k \in (m + 1)..(m + x) : C[k] = X[k - m]
  <2>1. X \in Seq(Server)
    BY DEF Needed
  <2>2. Len(B) \in Nat
    OBVIOUS
  <2>3. QED
    BY <2>1, <2>2, ConcatFacts, Zenon
<1>3. m = n + h /\ (h = 0 \/ h = 4) /\ (headed => h = 4) /\ (~headed => h = 0)
  BY DEF LaidOut, Shift
<1>4. /\ mobile => \A i \in 2..n : s[i] # suite
      /\ headed => \A i \in 1..5 : B[i] = [version |-> suite, platform |-> TopologySeq[i]]
      /\ \A i \in 1..n : ~headed \/ i > 1 => B[i + h] = [version |-> s[i], platform |-> Single(mobile)]
  BY DEF LaidOut
<1>5. headed <=> mobile /\ n > 0 /\ s[1] = suite
  BY DEF Headed
<1>6. Headed(mobile, suite, r) <=> mobile /\ r[1] = suite
  <2>1. Len(r) > 0
    <3> HIDE DEF r, n
    <3>1. QED
      BY <1>1
  <2>2. QED
    BY <2>1 DEF Headed
<1> HIDE DEF r, C, n, m, x, h, headed
<1>7. CASE mobile /\ v = suite
  <2>1. n = 0 /\ h = 0 /\ m = 0
    <3>1. n = 0
      BY <1>7 DEF n
    <3>2. QED
      BY <1>3, <1>5, <3>1
  <2>2. x = 5 /\ \A i \in 1..5 : X[i] = [version |-> suite, platform |-> TopologySeq[i]]
    BY <1>7 DEF Needed, x
  <2>3. Headed(mobile, suite, r)
    <3>1. n + 1 = 1
      BY <2>1
    <3>2. r[1] = v
      BY <1>1, <3>1
    <3>3. QED
      BY <1>6, <1>7, <3>2
  <2>4. \A i \in 1..5 : C[i] = [version |-> suite, platform |-> TopologySeq[i]]
    <3> SUFFICES ASSUME NEW i \in 1..5 PROVE C[i] = [version |-> suite, platform |-> TopologySeq[i]]
      OBVIOUS
    <3>1. i \in (m + 1)..(m + x) /\ i - m = i
      BY <2>1, <2>2
    <3>2. C[i] = X[i]
      BY <1>2, <3>1
    <3>3. QED
      BY <2>2, <3>2
  <2>5. g = 4
    BY <2>3 DEF Shift
  <2>6. Len(r) = 1 /\ Len(C) = Len(r) + g
    BY <1>1, <1>2, <2>1, <2>2, <2>5
  <2>7. (\A i \in 2..Len(r) : FALSE) /\ \A i \in 1..Len(r) : ~(i > 1)
    BY <2>6
  <2>8. QED
    BY <2>3, <2>4, <2>6, <2>7 DEF LaidOut, r, C
<1>8. CASE ~(mobile /\ v = suite)
  <2>1. x = 1 /\ X[1] = [version |-> v, platform |-> Single(mobile)]
    BY <1>8 DEF Needed, x
  <2>2. Headed(mobile, suite, r) <=> headed
    <3>1. CASE n = 0
      BY <1>1, <1>5, <1>6, <1>8, <3>1
    <3>2. CASE n > 0
      BY <1>1, <1>5, <1>6, <3>2
    <3>3. QED
      BY <1>1, <3>1, <3>2
  <2>3. g = h
    BY <1>3, <2>2 DEF Shift
  <2>4. Len(C) = Len(r) + g
    <3>1. Len(C) = m + 1 /\ Len(r) = n + 1
      BY <1>1, <1>2, <2>1
    <3>2. m + 1 = (n + 1) + h
      BY <1>1, <1>3
    <3>3. QED
      BY <2>3, <3>1, <3>2
  <2>5. mobile => \A i \in 2..Len(r) : r[i] # suite
    <3> SUFFICES ASSUME mobile, NEW i \in 2..(n + 1) PROVE r[i] # suite
      BY <1>1
    <3>1. CASE i \in 2..n
      BY <1>1, <1>4, <3>1
    <3>2. CASE i = n + 1
      BY <1>1, <1>8, <3>2
    <3>3. QED
      BY <1>1, <3>1, <3>2
  <2>6. headed => \A i \in 1..5 : C[i] = [version |-> suite, platform |-> TopologySeq[i]]
    <3> SUFFICES ASSUME headed, NEW i \in 1..5 PROVE C[i] = [version |-> suite, platform |-> TopologySeq[i]]
      OBVIOUS
    <3>1. i \in 1..m
      BY <1>1, <1>3, <1>5
    <3>2. C[i] = B[i]
      BY <1>2, <3>1
    <3>3. QED
      BY <1>4, <3>2
  <2>7. ASSUME NEW i \in 1..(n + 1), ~headed \/ i > 1
        PROVE  C[i + h] = [version |-> r[i], platform |-> Single(mobile)]
    <3>1. CASE i \in 1..n
      <4>1. i + h \in 1..m /\ r[i] = s[i]
        BY <1>1, <1>3, <3>1
      <4>2. C[i + h] = B[i + h]
        BY <1>2, <4>1
      <4>3. B[i + h] = [version |-> s[i], platform |-> Single(mobile)]
        BY <1>4, <2>7, <3>1
      <4>4. QED
        BY <4>1, <4>2, <4>3
    <3>2. CASE i = n + 1
      <4>1. i + h \in (m + 1)..(m + x) /\ i + h - m = 1 /\ r[i] = v
        BY <1>1, <1>3, <2>1, <3>2
      <4>2. PICK k \in (m + 1)..(m + x) : k = i + h
        BY <4>1
      <4>3. C[k] = X[k - m] /\ k - m = 1
        <5>1. C[k] = X[k - m]
          BY <1>2
        <5>2. k - m = 1
          BY <1>1, <1>3, <3>2, <4>2
        <5>3. QED
          BY <5>1, <5>2
      <4>4. C[i + h] = X[1]
        BY <4>2, <4>3
      <4>5. QED
        BY <2>1, <4>1, <4>4
    <3>3. QED
      BY <1>1, <3>1, <3>2
  <2>8. \A i \in 1..Len(r) : ~headed \/ i > 1 =>
          C[i + g] = [version |-> r[i], platform |-> Single(mobile)]
    BY <1>1, <2>3, <2>7
  <2>9. QED
    BY <2>2, <2>4, <2>5, <2>6, <2>8 DEF LaidOut, r, C
<1>9. QED
  BY <1>7, <1>8
-----------------------------------------------------------------------------
(* What the lists of the two passes of a trigger have to do with one       *)
(* another at every moment.                                                *)
ListTypes ==
  /\ requested \in [Triggers -> Seq(Version)] /\ full \in [Triggers -> Version]
  /\ todo \in [Passes -> Seq(Version)] /\ insts \in [Passes -> Seq(Server)]
  /\ valid \in [Passes -> Seq(Version)] /\ dropped \in [Passes -> Seq(Version)]

Asked(t, k) == IF k = "primary" THEN requested[t] ELSE RetryList(t)

(* The full suite is the highest version that was asked for.               *)
Suite(t) ==
  pc[Primary(t)] # "off" =>
    /\ type[t] # "other"
    /\ Mobile(t) =>
         /\ full[t] \in Elements(requested[t])
         /\ \A v \in Elements(requested[t]) : v.ok => full[t].ok /\ ~Less(full[t], v)

(* Every version is to do, up or dropped, and only one of them.  An empty  *)
(* entry is none of them once the list is in order.                        *)
Divided(t, k) ==
  LET p == <<t, k>>
  IN  pc[p] # "off" =>
        /\ (Elements(todo[p]) \cup Elements(valid[p]) \cup Elements(dropped[p])) \ {None}
             = Elements(Asked(t, k)) \ {None}
        /\ Elements(todo[p]) \cap (Elements(valid[p]) \cup Elements(dropped[p])) = {}
        /\ Elements(valid[p]) \cap Elements(dropped[p]) = {}

(* The full suite is provisioned before any other version.                 *)
Queue(t, k) ==
  LET p == <<t, k>>
  IN  /\ pc[p] \in {"off", "delay", "acquire"} => valid[p] = <<>> /\ dropped[p] = <<>>
      /\ pc[p] \in {"acquire", "provision"} =>
           /\ Distinct(todo[p])
           /\ Mobile(t) /\ full[t] \in Elements(todo[p]) =>
                todo[p][1] = full[t] /\ valid[p] = <<>>
      /\ k = "primary" /\ pc[p] \in {"ship", "dispatch", "done"} => todo[p] = <<>>

Layout(t, k) == LaidOut(Mobile(t), full[t], valid[<<t, k>>], insts[<<t, k>>])

(* Only a pass with servers and not without its full suite is dispatched.  *)
Settled(t, k) ==
  LET p == <<t, k>>
  IN  /\ fate[p] # "none" => pc[p] = "done"
      /\ pc[p] = "dispatch" \/ fate[p] = "dispatched" =>
           insts[p] # <<>> /\ ~NoSuite(t, k, Asked(t, k))
      /\ fate[p] = "dispatched" => CMTMatrixOf(t, k).ok

PassOK(t, k) == Divided(t, k) /\ Queue(t, k) /\ Layout(t, k) /\ Settled(t, k)

(* What the retry is given, and when it is given everything.               *)
Again(t) ==
  /\ pc[Retry(t)] = "delay" => todo[Retry(t)] = RetryList(t)
  /\ pc[Retry(t)] # "off" /\ NoSuite(t, "primary", requested[t]) => fate[Primary(t)] = "destroyed"

TriggerOK(t) == Suite(t) /\ Again(t) /\ PassOK(t, "primary") /\ PassOK(t, "retry")

ListInv == ListTypes /\ \A t \in Triggers : TriggerOK(t)

OfTrigger(t) == <<type[t], requested[t], full[t]>>
OfPass(p) == <<pc[p], todo[p], insts[p], valid[p], dropped[p], fate[p]>>

LEMMA EmptyFacts ==
  /\ Elements(<<>>) = {} /\ Distinct(<<>>)
  /\ \A mobile \in BOOLEAN : \A suite : LaidOut(mobile, suite, <<>>, <<>>)
<1>1. DOMAIN <<>> = {} /\ Len(<<>>) = 0
  OBVIOUS
<1>2. Elements(<<>>) = {} /\ Distinct(<<>>)
  BY <1>1 DEF Elements, Distinct
<1>3. ASSUME NEW mobile \in BOOLEAN, NEW suite PROVE LaidOut(mobile, suite, <<>>, <<>>)
  <2>1. ~Headed(mobile, suite, <<>>)
    BY <1>1 DEF Headed
  <2>2. Shift(mobile, suite, <<>>) = 0
    BY <2>1 DEF Shift
  <2>3. (\A i \in 2..0 : FALSE) /\ (\A i \in 1..0 : FALSE) /\ 0 = 0 + 0
    OBVIOUS
  <2>4. QED
    BY <1>1, <2>1, <2>2, <2>3 DEF LaidOut
<1>4. QED
  BY <1>2, <1>3

(* A pass whose state and list do not change.                              *)
LEMMA PassFrame ==
  ASSUME NEW t \in Triggers, NEW k \in {"primary", "retry"}, PassOK(t, k),
         UNCHANGED OfTrigger(t), UNCHANGED OfPass(<<t, k>>),
         k = "primary" \/ pc[<<t, k>>] = "off" \/ UNCHANGED RetryList(t)
  PROVE  PassOK(t, k)'
<1> DEFINE p == <<t, k>>
<1>1. /\ type'[t] = type[t] /\ requested'[t] = requested[t] /\ full'[t] = full[t]
      /\ pc'[p] = pc[p] /\ todo'[p] = todo[p] /\ insts'[p] = insts[p] /\ valid'[p] = valid[p]
      /\ dropped'[p] = dropped[p] /\ fate'[p] = fate[p]
  BY DEF OfTrigger, OfPass
<1>2. Mobile(t)' = Mobile(t)
  BY <1>1 DEF Mobile
<1>3. pc[p] = "off" \/ Asked(t, k)' = Asked(t, k)
  BY <1>1 DEF Asked
<1>4. Layout(t, k)'
  BY <1>1, <1>2 DEF PassOK, Layout
<1>5. Queue(t, k)'
  BY <1>1, <1>2 DEF PassOK, Queue
<1>6. Divided(t, k)'
  BY <1>1, <1>3 DEF PassOK, Divided
<1>7. CMTMatrixOf(t, k)' = CMTMatrixOf(t, k)
  BY <1>1 DEF CMTMatrixOf
<1>8. Settled(t, k)'
  <2>1. CASE pc[p] = "off"
    BY <1>1, <2>1 DEF PassOK, Settled
  <2>2. CASE Asked(t, k)' = Asked(t, k)
    <3>1. NoSuite(t, k, Asked(t, k))' = NoSuite(t, k, Asked(t, k))
      BY <1>1, <1>2, <2>2 DEF NoSuite
    <3>2. QED
      BY <1>1, <1>7, <3>1 DEF PassOK, Settled
  <2>3. QED
    BY <1>3, <2>1, <2>2
<1>9. QED
  BY <1>4, <1>5, <1>6, <1>8 DEF PassOK

LEMMA RetryListFrame ==
  ASSUME NEW t \in Triggers, UNCHANGED OfTrigger(t),
         UNCHANGED <<valid[Primary(t)], dropped[Primary(t)]>>
  PROVE  UNCHANGED RetryList(t) /\ NoSuite(t, "primary", requested[t])' = NoSuite(t, "primary", requested[t])
<1>1. NoSuite(t, "primary", requested[t])' = NoSuite(t, "primary", requested[t])
  BY DEF OfTrigger, NoSuite, Mobile, Primary
<1>2. QED
  BY <1>1 DEF OfTrigger, RetryList

LEMMA TriggerFrame ==
  ASSUME NEW t \in Triggers, TriggerOK(t), UNCHANGED OfTrigger(t),
         UNCHANGED OfPass(Primary(t)), UNCHANGED OfPass(Retry(t))
  PROVE  TriggerOK(t)'
<1>1. UNCHANGED RetryList(t) /\ NoSuite(t, "primary", requested[t])' = NoSuite(t, "primary", requested[t])
  BY RetryListFrame DEF OfPass
<1>2. PassOK(t, "primary")' /\ PassOK(t, "retry")'
  BY <1>1, PassFrame DEF TriggerOK, Primary, Retry
<1>3. Suite(t)' /\ Again(t)'
  BY <1>1 DEF TriggerOK, Suite, Again, OfTrigger, OfPass, Mobile
<1>4. QED
  BY <1>2, <1>3 DEF TriggerOK

(* A step of one pass of one trigger.                                      *)
LEMMA StepOfPass ==
  ASSUME Inv, ListInv, NEW t \in Triggers, NEW k \in {"primary", "retry"}, UNCHANGED trigger,
         \A p \in Passes : p # <<t, k>> => UNCHANGED OfPass(p),
         pc[<<t, k>>] # "off", ListTypes', PassOK(t, k)', Again(t)',
         k = "retry" \/ pc[Retry(t)] = "off" \/ UNCHANGED <<valid[Primary(t)], dropped[Primary(t)]>>
  PROVE  ListInv'
<1>1. UNCHANGED OfTrigger(t) /\ \A u \in Triggers : UNCHANGED OfTrigger(u)
  BY DEF OfTrigger, trigger
<1>2. ASSUME NEW u \in Triggers, u # t PROVE TriggerOK(u)'
  <2>1. Primary(u) # <<t, k>> /\ Retry(u) # <<t, k>>
    BY <1>2 DEF Primary, Retry
  <2>2. QED
    BY <1>1, <1>2, <2>1, PassesAre, TriggerFrame DEF ListInv
<1>3. PassOK(t, "primary")' /\ PassOK(t, "retry")'
  <2>1. CASE k = "primary"
    <3>1. UNCHANGED OfPass(Retry(t)) /\ (pc[Retry(t)] = "off" \/ UNCHANGED RetryList(t))
      BY <1>1, <2>1, PassesAre, RetryListFrame DEF Primary
    <3>2. PassOK(t, "retry")'
      BY <1>1, <3>1, PassFrame DEF ListInv, TriggerOK, Retry
    <3>3. QED
      BY <2>1, <3>2
  <2>2. CASE k = "retry"
    <3>1. UNCHANGED OfPass(Primary(t))
      BY <2>2, PassesAre DEF Retry
    <3>2. PassOK(t, "primary")'
      BY <1>1, <3>1, PassFrame DEF ListInv, TriggerOK, Primary
    <3>3. QED
      BY <2>2, <3>2
  <2>3. QED
    BY <2>1, <2>2
<1>4. Suite(t)'
  <2>1. pc[Primary(t)] # "off"
    BY PassesAre DEF Inv, Order, Unshipped, Primary, Retry
  <2>2. QED
    BY <1>1, <2>1 DEF ListInv, TriggerOK, Suite, OfTrigger, Mobile
<1>5. QED
  BY <1>2, <1>3, <1>4 DEF ListInv, TriggerOK

LEMMA TailFacts ==
  ASSUME NEW T, NEW s \in Seq(T), s # <<>>, Distinct(s)
  PROVE  /\ Head(s) = s[1] /\ Head(s) \in T /\ Head(s) \in Elements(s)
         /\ Tail(s) \in Seq(T) /\ Distinct(Tail(s))
         /\ Elements(Tail(s)) = Elements(s) \ {Head(s)}
<1> DEFINE n == Len(s)
           r == Tail(s)
<1>1. n \in Nat /\ n >= 1 /\ DOMAIN s = 1..n /\ Head(s) = s[1] /\ s[1] \in T
  OBVIOUS
<1>2. r \in Seq(T) /\ DOMAIN r = 1..(n - 1) /\ \A i \in 1..(n - 1) : r[i] = s[i + 1]
  OBVIOUS
<1> HIDE DEF n, r
<1>3. /\ \A i \in 1..(n - 1) : i + 1 \in 2..n
      /\ \A i \in 2..n : i - 1 \in 1..(n - 1) /\ (i - 1) + 1 = i
      /\ \A i : i \in 1..n <=> i = 1 \/ i \in 2..n
  BY <1>1
<1>4. Distinct(r)
  <2> SUFFICES ASSUME NEW i \in 1..(n - 1), NEW j \in 1..(n - 1), r[i] = r[j] PROVE i = j
    BY <1>2 DEF Distinct
  <2>1. i + 1 \in 1..n /\ j + 1 \in 1..n /\ s[i + 1] = s[j + 1]
    BY <1>2, <1>3
  <2>2. i + 1 = j + 1
    BY <1>1, <2>1 DEF Distinct
  <2>3. QED
    BY <1>1, <2>2
<1>5. \A i \in 2..n : s[i] # s[1]
  <2> SUFFICES ASSUME NEW i \in 2..n, s[i] = s[1] PROVE FALSE
    OBVIOUS
  <2>1. i \in 1..n /\ 1 \in 1..n /\ i # 1
    BY <1>1
  <2>2. QED
    BY <1>1, <2>1 DEF Distinct
<1>6. \A i \in 2..n : s[i] = r[i - 1] /\ i - 1 \in DOMAIN r
  <2> SUFFICES ASSUME NEW i \in 2..n PROVE s[i] = r[i - 1] /\ i - 1 \in DOMAIN r
    OBVIOUS
  <2>1. i - 1 \in 1..(n - 1) /\ (i - 1) + 1 = i
    BY <1>3
  <2>2. QED
    BY <1>2, <2>1
<1>7. Elements(r) = Elements(s) \ {s[1]}
  <2>1. ASSUME NEW x \in Elements(r) PROVE x \in Elements(s) \ {s[1]}
    <3>1. PICK i \in 1..(n - 1) : x = s[i + 1]
      BY <1>2 DEF Elements
    <3>2. QED
      BY <1>1, <1>3, <1>5, <3>1 DEF Elements
  <2>2. ASSUME NEW x \in Elements(s) \ {s[1]} PROVE x \in Elements(r)
    <3>1. PICK i \in 2..n : x = s[i]
      BY <1>1, <1>3 DEF Elements
    <3>2. QED
      BY <1>6, <3>1 DEF Elements
  <2>3. QED
    BY <2>1, <2>2
<1>8. Head(s) \in Elements(s)
  BY <1>1, <1>3 DEF Elements
<1>9. QED
  BY <1>1, <1>2, <1>4, <1>7, <1>8 DEF r

LEMMA AppendElements ==
  ASSUME NEW T, NEW s \in Seq(T), NEW v \in T
  PROVE  Append(s, v) \in Seq(T) /\ Elements(Append(s, v)) = Elements(s) \cup {v}
<1> DEFINE n == Len(s)
           r == Append(s, v)
<1>1. /\ n \in Nat /\ DOMAIN s = 1..n /\ r \in Seq(T) /\ DOMAIN r = 1..(n + 1)
      /\ r[n + 1] = v /\ \A i \in 1..n : r[i] = s[i]
  BY AppendProperties
<1> HIDE DEF n, r
<1>2. \A i : i \in 1..(n + 1) <=> i \in 1..n \/ i = n + 1
  BY <1>1
<1>3. Elements(r) = Elements(s) \cup {v}
  BY <1>1, <1>2 DEF Elements
<1>4. QED
  BY <1>1, <1>3 DEF r

(* Steps of a pass.                                                        *)
LEMMA AcquireLists ==
  ASSUME Inv, ListInv, NEW t \in Triggers, NEW k \in {"primary", "retry"}, Acquire(t, k)
  PROVE  ListInv'
<1> DEFINE p == <<t, k>>
<1>0. p \in Passes
  BY DEF Passes
<1>1. /\ pc[p] = "acquire" /\ pc' = [pc EXCEPT ![p] = "provision"]
      /\ UNCHANGED <<type, requested, full, todo, insts, valid, dropped, fate>>
  BY DEF Acquire, trigger, results
<1>2. pc'[p] = "provision" /\ \A q \in Passes : q # p => pc'[q] = pc[q]
  BY <1>0, <1>1 DEF Inv, TypeOK
<1>3. ListTypes' /\ \A q \in Passes : q # p => UNCHANGED OfPass(q)
  BY <1>1, <1>2 DEF ListInv, ListTypes, OfPass
<1>4. UNCHANGED Mobile(t) /\ UNCHANGED Asked(t, k)
  BY <1>1 DEF Mobile, Asked, RetryList, NoSuite
<1>5. PassOK(t, k)
  BY DEF ListInv, TriggerOK
<1>6. PassOK(t, k)'
  <2>1. Divided(t, k)' /\ Queue(t, k)' /\ Layout(t, k)'
    BY <1>1, <1>2, <1>4, <1>5 DEF PassOK, Divided, Queue, Layout
  <2>2. fate[p] = "none"
    BY <1>1, <1>5 DEF PassOK, Settled
  <2>3. Settled(t, k)'
    BY <1>1, <1>2, <2>2 DEF Settled
  <2>4. QED
    BY <2>1, <2>3 DEF PassOK
<1>7. k = "retry" \/ pc[Retry(t)] = "off"
  BY <1>1 DEF Inv, Order, Primary, Unshipped
<1>8. Again(t)'
  <2>1. pc'[Retry(t)] = "off" \/ (k = "retry" /\ pc[Retry(t)] # "off" /\ pc'[Retry(t)] # "delay")
    BY <1>0, <1>1, <1>2, <1>7, PassesAre DEF Retry
  <2>2. QED
    BY <1>1, <2>1 DEF ListInv, TriggerOK, Again, NoSuite, Mobile
<1>9. QED
  BY <1>0, <1>1, <1>3, <1>6, <1>7, <1>8, StepOfPass DEF trigger

LEMMA AcquireFailsLists ==
  ASSUME Inv, ListInv, NEW t \in Triggers, NEW k \in {"primary", "retry"}, AcquireFails(t, k)
  PROVE  ListInv'
<1> DEFINE p == <<t, k>>
<1>0. p \in Passes
  BY DEF Passes
<1>1. /\ pc[p] = "acquire" /\ pc' = [pc EXCEPT ![p] = "ship"]
      /\ dropped' = [dropped EXCEPT ![p] = todo[p]] /\ todo' = [todo EXCEPT ![p] = <<>>]
      /\ UNCHANGED <<type, requested, full, insts, valid, fate>>
  BY DEF AcquireFails, trigger
<1>2. /\ pc'[p] = "ship" /\ todo'[p] = <<>> /\ dropped'[p] = todo[p]
      /\ \A q \in Passes : q # p => UNCHANGED OfPass(q)
  BY <1>0, <1>1 DEF Inv, TypeOK, ListInv, ListTypes, OfPass
<1>3. ListTypes'
  BY <1>0, <1>1 DEF ListInv, ListTypes
<1>4. k = "retry" \/ pc[Retry(t)] = "off"
  BY <1>1 DEF Inv, Order, Primary, Unshipped
<1>5. UNCHANGED Mobile(t) /\ (k = "retry" => UNCHANGED RetryList(t)) /\ UNCHANGED Asked(t, k)
  <2>1. k = "retry" => UNCHANGED OfPass(Primary(t))
    BY <1>0, <1>2, PassesAre DEF Retry
  <2>2. k = "retry" => UNCHANGED RetryList(t)
    BY <1>1, <2>1, RetryListFrame DEF OfPass, OfTrigger
  <2>3. QED
    BY <1>1, <2>2 DEF Mobile, Asked
<1>6. PassOK(t, k)
  BY DEF ListInv, TriggerOK
<1>7. PassOK(t, k)'
  <2>1. valid[p] = <<>> /\ dropped[p] = <<>> /\ valid'[p] = <<>>
    BY <1>1, <1>6 DEF PassOK, Queue
  <2>2. Divided(t, k)'
    BY <1>1, <1>2, <1>5, <1>6, <2>1, EmptyFacts DEF PassOK, Divided
  <2>3. Queue(t, k)'
    BY <1>2 DEF Queue
  <2>4. Layout(t, k)'
    BY <1>1, <1>5, <1>6 DEF PassOK, Layout
  <2>5. Settled(t, k)'
    BY <1>1, <1>2, <1>6 DEF PassOK, Settled
  <2>6. QED
    BY <2>2, <2>3, <2>4, <2>5 DEF PassOK
<1>8. Again(t)'
  <2>1. CASE k = "primary"
    <3>1. pc'[Retry(t)] = "off"
      BY <1>2, <1>4, <2>1, PassesAre DEF OfPass, Primary
    <3>2. QED
      BY <3>1 DEF Again
  <2>2. CASE k = "retry"
    <3>1. pc[Retry(t)] # "off" /\ pc'[Retry(t)] = "ship" /\ UNCHANGED OfPass(Primary(t))
      BY <1>1, <1>2, <2>2, PassesAre DEF Retry
    <3>2. NoSuite(t, "primary", requested[t])' = NoSuite(t, "primary", requested[t])
      BY <1>1, <3>1, RetryListFrame DEF OfPass, OfTrigger
    <3>3. QED
      BY <1>1, <3>1, <3>2 DEF ListInv, TriggerOK, Again
  <2>3. QED
    BY <2>1, <2>2
<1>9. QED
  BY <1>0, <1>1, <1>2, <1>3, <1>4, <1>7, <1>8, StepOfPass DEF trigger

LEMMA ProvisionDoneLists ==
  ASSUME Inv, ListInv, NEW t \in Triggers, NEW k \in {"primary", "retry"}, ProvisionDone(t, k)
  PROVE  ListInv'
<1> DEFINE p == <<t, k>>
<1>0. p \in Passes
  BY DEF Passes
<1>1. /\ pc[p] = "provision" /\ todo[p] = <<>> /\ pc' = [pc EXCEPT ![p] = "ship"]
      /\ UNCHANGED <<type, requested, full, todo, insts, valid, dropped, fate>>
  BY DEF ProvisionDone, trigger, results
<1>2. pc'[p] = "ship" /\ \A q \in Passes : q # p => pc'[q] = pc[q]
  BY <1>0, <1>1 DEF Inv, TypeOK
<1>3. ListTypes' /\ \A q \in Passes : q # p => UNCHANGED OfPass(q)
  BY <1>1, <1>2 DEF ListInv, ListTypes, OfPass
<1>4. UNCHANGED Mobile(t) /\ UNCHANGED Asked(t, k)
  BY <1>1 DEF Mobile, Asked, RetryList, NoSuite
<1>5. PassOK(t, k)
  BY DEF ListInv, TriggerOK
<1>6. PassOK(t, k)'
  <2>1. Divided(t, k)' /\ Queue(t, k)' /\ Layout(t, k)'
    BY <1>1, <1>2, <1>4, <1>5 DEF PassOK, Divided, Queue, Layout
  <2>2. fate[p] = "none"
    BY <1>1, <1>5 DEF PassOK, Settled
  <2>3. Settled(t, k)'
    BY <1>1, <1>2, <2>2 DEF Settled
  <2>4. QED
    BY <2>1, <2>3 DEF PassOK
<1>7. k = "retry" \/ pc[Retry(t)] = "off"
  BY <1>1 DEF Inv, Order, Primary, Unshipped
<1>8. Again(t)'
  <2>1. pc'[Retry(t)] = "off" \/ (k = "retry" /\ pc[Retry(t)] # "off" /\ pc'[Retry(t)] # "delay")
    BY <1>0, <1>1, <1>2, <1>7, PassesAre DEF Retry
  <2>2. QED
    BY <1>1, <2>1 DEF ListInv, TriggerOK, Again, NoSuite, Mobile
<1>9. QED
  BY <1>0, <1>1, <1>3, <1>6, <1>7, <1>8, StepOfPass DEF trigger

(* The next version comes up at the end of the servers or is dropped.      *)
LEMMA ProvisionLists ==
  ASSUME Inv, ListInv, NEW t \in Triggers, NEW k \in {"primary", "retry"}, ProvisionVersion(t, k)
  PROVE  ListInv'
<1> DEFINE p == <<t, k>>
           v == Head(todo[p])
<1>0. p \in Passes
  BY DEF Passes
<1>1. /\ pc[p] = "provision" /\ todo[p] # <<>> /\ todo' = [todo EXCEPT ![p] = Tail(todo[p])]
      /\ UNCHANGED <<type, requested, full, pc, fate>>
      /\ \/ /\ insts' = [insts EXCEPT ![p] = insts[p] \o Servers(t, v)]
            /\ valid' = [valid EXCEPT ![p] = Append(valid[p], v)] /\ dropped' = dropped
         \/ /\ dropped' = [dropped EXCEPT ![p] = Append(dropped[p], v)]
            /\ UNCHANGED <<insts, valid>>
  BY DEF ProvisionVersion, trigger
<1>2. /\ todo[p] \in Seq(Version) /\ insts[p] \in Seq(Server) /\ valid[p] \in Seq(Version)
      /\ dropped[p] \in Seq(Version)
  BY <1>0 DEF ListInv, ListTypes
<1>3. PassOK(t, k)
  BY DEF ListInv, TriggerOK
<1>4. Distinct(todo[p])
  BY <1>1, <1>3 DEF PassOK, Queue
<1>5. /\ v = todo[p][1] /\ v \in Version /\ v \in Elements(todo[p])
      /\ Tail(todo[p]) \in Seq(Version) /\ Distinct(Tail(todo[p]))
      /\ Elements(Tail(todo[p])) = Elements(todo[p]) \ {v}
  BY <1>1, <1>2, <1>4, TailFacts
<1> HIDE DEF v
<1>6. Needed(Mobile(t), full[t], v, Servers(t, v))
  BY <1>5, ServersFacts
<1>7. /\ Append(valid[p], v) \in Seq(Version) /\ Append(dropped[p], v) \in Seq(Version)
      /\ Elements(Append(valid[p], v)) = Elements(valid[p]) \cup {v}
      /\ Elements(Append(dropped[p], v)) = Elements(dropped[p]) \cup {v}
  <2>1. \A s \in Seq(Version), w \in Version :
          Append(s, w) \in Seq(Version) /\ Elements(Append(s, w)) = Elements(s) \cup {w}
    BY AppendElements, Zenon
  <2>2. QED
    BY <1>2, <1>5, <2>1
<1>8. insts[p] \o Servers(t, v) \in Seq(Server)
  BY <1>2, <1>6, ConcatFacts DEF Needed
<1>9. ListTypes'
  <2>1. requested' \in [Triggers -> Seq(Version)] /\ full' \in [Triggers -> Version]
    BY <1>1 DEF ListInv, ListTypes
  <2>2. todo' \in [Passes -> Seq(Version)]
    BY <1>1, <1>5 DEF ListInv, ListTypes
  <2>3. insts' \in [Passes -> Seq(Server)]
    BY <1>1, <1>8 DEF ListInv, ListTypes
  <2>4. valid' \in [Passes -> Seq(Version)] /\ dropped' \in [Passes -> Seq(Version)]
    BY <1>1, <1>7 DEF ListInv, ListTypes
  <2>5. QED
    BY <2>1, <2>2, <2>3, <2>4 DEF ListTypes
<1>10. /\ todo'[p] = Tail(todo[p])
       /\ \/ /\ insts'[p] = insts[p] \o Servers(t, v) /\ valid'[p] = Append(valid[p], v)
             /\ dropped'[p] = dropped[p]
          \/ /\ dropped'[p] = Append(dropped[p], v)
             /\ insts'[p] = insts[p] /\ valid'[p] = valid[p]
       /\ \A q \in Passes : q # p => UNCHANGED OfPass(q)
  <2>1. todo'[p] = Tail(todo[p]) /\ \A q \in Passes : q # p => todo'[q] = todo[q]
    BY <1>0, <1>1 DEF ListInv, ListTypes
  <2>2. CASE valid' = [valid EXCEPT ![p] = Append(valid[p], v)]
    BY <1>0, <1>1, <2>1, <2>2 DEF ListInv, ListTypes, OfPass
  <2>3. CASE dropped' = [dropped EXCEPT ![p] = Append(dropped[p], v)]
    BY <1>0, <1>1, <2>1, <2>3 DEF ListInv, ListTypes, OfPass
  <2>4. QED
    BY <1>1, <2>2, <2>3
<1>11. k = "retry" \/ pc[Retry(t)] = "off"
  BY <1>1 DEF Inv, Order, Primary, Unshipped
<1>12. UNCHANGED Mobile(t) /\ UNCHANGED Asked(t, k)
  <2>1. k = "retry" => UNCHANGED OfPass(Primary(t))
    BY <1>0, <1>10, PassesAre DEF Retry
  <2>2. k = "retry" => UNCHANGED RetryList(t)
    BY <1>1, <2>1, RetryListFrame DEF OfPass, OfTrigger
  <2>3. QED
    BY <1>1, <2>2 DEF Mobile, Asked
<1>13. PassOK(t, k)'
  <2>1. Divided(t, k)'
    <3> DEFINE a == Elements(todo[p])
               b == Elements(valid[p])
               c == Elements(dropped[p])
               d == Elements(Asked(t, k))
    <3>1. (a \cup b \cup c) \ {None} = d \ {None} /\ a \cap (b \cup c) = {} /\ b \cap c = {}
      BY <1>1, <1>3 DEF PassOK, Divided
    <3>2. /\ Elements(todo'[p]) = a \ {v}
          /\ \/ Elements(valid'[p]) = b \cup {v} /\ Elements(dropped'[p]) = c
             \/ Elements(valid'[p]) = b /\ Elements(dropped'[p]) = c \cup {v}
      BY <1>5, <1>7, <1>10
    <3>3. v \in a /\ Elements(Asked(t, k)') = d
      BY <1>5, <1>12
    <3> HIDE DEF a, b, c, d
    <3>4. /\ (Elements(todo'[p]) \cup Elements(valid'[p]) \cup Elements(dropped'[p])) \ {None} = d \ {None}
          /\ Elements(todo'[p]) \cap (Elements(valid'[p]) \cup Elements(dropped'[p])) = {}
          /\ Elements(valid'[p]) \cap Elements(dropped'[p]) = {}
      BY <3>1, <3>2, <3>3
    <3>5. QED
      BY <3>3, <3>4 DEF Divided
  <2>2. Mobile(t) /\ full[t] \in Elements(todo[p]) => v = full[t] /\ valid[p] = <<>>
    BY <1>1, <1>3, <1>5 DEF PassOK, Queue
  <2>3. Queue(t, k)'
    <3>1. ~(Mobile(t) /\ full[t] \in Elements(Tail(todo[p])))
      BY <1>5, <2>2
    <3>2. QED
      BY <1>1, <1>5, <1>10, <1>12, <3>1 DEF Queue
  <2>4. Layout(t, k)'
    <3>1. LaidOut(Mobile(t), full[t], valid[p], insts[p])
      BY <1>3 DEF PassOK, Layout
    <3>2. Mobile(t) \in BOOLEAN /\ (Mobile(t) /\ v = full[t] => valid[p] = <<>>)
      BY <1>5, <2>2 DEF Mobile
    <3>3. LaidOut(Mobile(t), full[t], Append(valid[p], v), insts[p] \o Servers(t, v))
      BY <1>2, <1>5, <1>6, <3>1, <3>2, LaidOutAppend
    <3>4. LaidOut(Mobile(t), full[t], valid'[p], insts'[p])
      BY <1>10, <3>1, <3>3
    <3>5. QED
      BY <1>1, <1>12, <3>4 DEF Layout
  <2>5. Settled(t, k)'
    BY <1>1, <1>3 DEF PassOK, Settled
  <2>6. QED
    BY <2>1, <2>3, <2>4, <2>5 DEF PassOK
<1>14. Again(t)'
  <2>1. CASE k = "primary"
    <3>1. pc'[Retry(t)] = "off"
      BY <1>1, <1>11, <2>1
    <3>2. QED
      BY <3>1 DEF Again
  <2>2. CASE k = "retry"
    <3>1. pc[Retry(t)] # "off" /\ pc'[Retry(t)] = "provision" /\ UNCHANGED OfPass(Primary(t))
      BY <1>1, <1>10, <2>2, PassesAre DEF Retry
    <3>2. NoSuite(t, "primary", requested[t])' = NoSuite(t, "primary", requested[t])
      BY <1>1, <3>1, RetryListFrame DEF OfPass, OfTrigger
    <3>3. QED
      BY <1>1, <3>1, <3>2 DEF ListInv, TriggerOK, Again
  <2>3. QED
    BY <2>1, <2>2
<1>15. pc[p] # "off" /\ UNCHANGED trigger
  BY <1>1 DEF trigger
<1>16. QED
  BY <1>0, <1>9, <1>10, <1>11, <1>13, <1>14, <1>15, StepOfPass

LEMMA DispatchLists ==
  ASSUME Inv, ListInv, NEW t \in Triggers, NEW k \in {"primary", "retry"}, DispatchAndTrack(t, k)
  PROVE  ListInv'
<1> DEFINE p == <<t, k>>
<1>0. p \in Passes
  BY DEF Passes
<1>1. PICK f \in {"dispatched", "destroyed"} :
        /\ f = "dispatched" => CMTMatrixOf(t, k).ok
        /\ fate' = [fate EXCEPT ![p] = f]
  BY DEF DispatchAndTrack
<1>2. /\ pc[p] = "dispatch" /\ pc' = [pc EXCEPT ![p] = "done"]
      /\ UNCHANGED <<type, requested, full, todo, insts, valid, dropped>>
  BY DEF DispatchAndTrack, trigger, results
<1>3. /\ pc'[p] = "done" /\ fate'[p] = f
      /\ \A q \in Passes : q # p => pc'[q] = pc[q] /\ fate'[q] = fate[q]
  BY <1>0, <1>1, <1>2 DEF Inv, TypeOK
<1>4. ListTypes' /\ \A q \in Passes : q # p => UNCHANGED OfPass(q)
  BY <1>2, <1>3 DEF ListInv, ListTypes, OfPass
<1>5. /\ UNCHANGED Mobile(t) /\ UNCHANGED Asked(t, k) /\ UNCHANGED CMTMatrixOf(t, k)
      /\ UNCHANGED NoSuite(t, k, Asked(t, k))
  BY <1>2 DEF Mobile, Asked, RetryList, NoSuite, CMTMatrixOf
<1>6. PassOK(t, k)
  BY DEF ListInv, TriggerOK
<1>7. insts[p] # <<>> /\ ~NoSuite(t, k, Asked(t, k))
  BY <1>2, <1>6 DEF PassOK, Settled
<1>8. PassOK(t, k)'
  <2>1. Divided(t, k)' /\ Queue(t, k)' /\ Layout(t, k)'
    BY <1>2, <1>3, <1>5, <1>6 DEF PassOK, Divided, Queue, Layout
  <2>2. Settled(t, k)'
    BY <1>1, <1>2, <1>3, <1>5, <1>7 DEF Settled
  <2>3. QED
    BY <2>1, <2>2 DEF PassOK
<1>9. Again(t)'
  <2>1. CASE k = "primary"
    <3>1. ~NoSuite(t, "primary", requested[t])'
      BY <1>5, <1>7, <2>1 DEF Asked
    <3>2. pc'[Retry(t)] = pc[Retry(t)]
      BY <1>3, <2>1, PassesAre DEF Primary
    <3>3. QED
      BY <1>2, <3>1, <3>2 DEF ListInv, TriggerOK, Again, RetryList, NoSuite, Mobile
  <2>2. CASE k = "retry"
    <3>1. pc[Retry(t)] # "off" /\ pc'[Retry(t)] = "done" /\ fate'[Primary(t)] = fate[Primary(t)]
      BY <1>2, <1>3, <2>2, PassesAre DEF Retry
    <3>2. QED
      BY <1>2, <3>1 DEF ListInv, TriggerOK, Again, NoSuite, Mobile
  <2>3. QED
    BY <2>1, <2>2
<1>10. UNCHANGED trigger /\ pc[p] # "off" /\ UNCHANGED <<valid[Primary(t)], dropped[Primary(t)]>>
  BY <1>2 DEF trigger
<1>11. QED
  BY <1>0, <1>4, <1>8, <1>9, <1>10, StepOfPass

LEMMA ShipRetryLists ==
  ASSUME Inv, ListInv, NEW t \in Triggers, ShipRetry(t) \/ RetrySkipped(t)
  PROVE  ListInv'
<1> DEFINE p == Retry(t)
           k == "retry"
<1>0. p = <<t, k>> /\ p \in Passes /\ k \in {"primary", "retry"} /\ Primary(t) # p
  BY PassesAre DEF Retry
<1>1. PassOK(t, k)
  BY DEF ListInv, TriggerOK
<1>2. /\ pc[p] \in {"ship", "delay"}
      /\ UNCHANGED <<type, requested, full, todo, insts, valid, dropped>>
  BY DEF ShipRetry, RetrySkipped, trigger, results
<1>3. fate[p] = "none"
  BY <1>0, <1>1, <1>2 DEF PassOK, Settled
<1>4. \/ pc'[p] = "done" /\ fate'[p] \in {"none", "destroyed"}
      \/ pc'[p] = "dispatch" /\ fate'[p] = "none" /\ insts[p] # <<>> /\ ~NoSuite(t, k, RetryList(t))
  <2>1. CASE ShipRetry(t)
    <3>1. PICK refused \in BOOLEAN :
            /\ refused = (insts[p] # <<>> /\ NoSuite(t, k, RetryList(t)))
            /\ fate' = [fate EXCEPT ![p] = IF refused THEN "destroyed" ELSE fate[p]]
            /\ pc' = [pc EXCEPT ![p] = IF refused THEN "done" ELSE Ended(p)]
      BY <2>1 DEF ShipRetry
    <3>2. /\ fate'[p] = IF refused THEN "destroyed" ELSE fate[p]
          /\ pc'[p] = IF refused THEN "done" ELSE Ended(p)
      BY <1>0, <3>1 DEF Inv, TypeOK
    <3>3. QED
      BY <1>3, <3>1, <3>2 DEF Ended
  <2>2. CASE RetrySkipped(t)
    BY <1>0, <1>3, <2>2 DEF RetrySkipped, Inv, TypeOK
  <2>3. QED
    BY <2>1, <2>2
<1>5. \A q \in Passes : q # p => UNCHANGED OfPass(q)
  <2>1. \A q \in Passes : q # p => pc'[q] = pc[q] /\ fate'[q] = fate[q]
    BY <1>0 DEF ShipRetry, RetrySkipped, Inv, TypeOK
  <2>2. QED
    BY <1>2, <2>1 DEF OfPass
<1>6. ListTypes'
  BY <1>2 DEF ListInv, ListTypes
<1>7. /\ UNCHANGED Mobile(t) /\ UNCHANGED Asked(t, k) /\ UNCHANGED CMTMatrixOf(t, k)
      /\ UNCHANGED NoSuite(t, k, Asked(t, k)) /\ Asked(t, k) = RetryList(t)
  BY <1>2 DEF Mobile, Asked, RetryList, NoSuite, CMTMatrixOf
<1>8. PassOK(t, k)'
  <2>1. Divided(t, k)' /\ Queue(t, k)' /\ Layout(t, k)'
    BY <1>0, <1>1, <1>2, <1>4, <1>7 DEF PassOK, Divided, Queue, Layout
  <2>2. Settled(t, k)'
    BY <1>0, <1>2, <1>4, <1>7 DEF Settled
  <2>3. QED
    BY <2>1, <2>2 DEF PassOK
<1>9. Again(t)'
  <2>1. pc[p] # "off" /\ pc'[p] # "delay" /\ fate'[Primary(t)] = fate[Primary(t)]
    BY <1>0, <1>2, <1>4, <1>5, PassesAre DEF OfPass
  <2>2. QED
    BY <1>2, <2>1 DEF ListInv, TriggerOK, Again, NoSuite, Mobile
<1>10. UNCHANGED trigger /\ pc[p] # "off"
  BY <1>2 DEF trigger
<1>11. QED
  BY <1>0, <1>5, <1>6, <1>8, <1>9, <1>10, StepOfPass

LEMMA RetryTimerLists ==
  ASSUME Inv, ListInv, NEW t \in Triggers, RetryTimer(t)
  PROVE  ListInv'
<1> DEFINE p == Retry(t)
           k == "retry"
           list == Ordered(todo[p], full[t])
<1>0. p = <<t, k>> /\ p \in Passes /\ k \in {"primary", "retry"} /\ Primary(t) # p
  BY PassesAre DEF Retry
<1>1. PassOK(t, k)
  BY DEF ListInv, TriggerOK
<1>2. /\ pc[p] = "delay" /\ todo' = [todo EXCEPT ![p] = list]
      /\ UNCHANGED <<type, requested, full, insts, valid, dropped, fate>>
  BY DEF RetryTimer, trigger, results
<1>3. pc' = [pc EXCEPT ![p] = IF Mobile(t) THEN "acquire" ELSE "provision"]
  BY DEF RetryTimer
<1>4. pc'[p] \in {"acquire", "provision"} /\ \A q \in Passes : q # p => pc'[q] = pc[q]
  BY <1>0, <1>3 DEF Inv, TypeOK
<1>5. /\ list \in Seq(Version) /\ Elements(list) = Elements(todo[p]) \ {None} /\ Distinct(list)
      /\ full[t] \in Elements(list) => list[1] = full[t]
  <2>1. todo[p] \in Seq(Version)
    BY <1>0 DEF ListInv, ListTypes
  <2>2. QED
    BY <2>1, OrderedFacts
<1> HIDE DEF list
<1>6. todo'[p] = list /\ ListTypes' /\ \A q \in Passes : q # p => UNCHANGED OfPass(q)
  BY <1>0, <1>2, <1>4, <1>5 DEF ListInv, ListTypes, OfPass
<1>7. UNCHANGED Mobile(t) /\ UNCHANGED Asked(t, k)
  BY <1>2 DEF Mobile, Asked, RetryList, NoSuite
<1>8. PassOK(t, k)'
  <2>1. valid[p] = <<>> /\ dropped[p] = <<>> /\ fate[p] = "none"
    BY <1>0, <1>1, <1>2 DEF PassOK, Queue, Settled
  <2>2. Divided(t, k)'
    BY <1>0, <1>1, <1>2, <1>5, <1>6, <1>7 DEF PassOK, Divided
  <2>3. Queue(t, k)'
    BY <1>0, <1>2, <1>4, <1>5, <1>6, <1>7, <2>1 DEF Queue
  <2>4. Layout(t, k)'
    BY <1>1, <1>2, <1>7 DEF PassOK, Layout
  <2>5. Settled(t, k)'
    BY <1>0, <1>2, <1>4, <2>1 DEF Settled
  <2>6. QED
    BY <2>2, <2>3, <2>4, <2>5 DEF PassOK
<1>9. Again(t)'
  BY <1>2, <1>4 DEF ListInv, TriggerOK, Again, NoSuite, Mobile
<1>10. UNCHANGED trigger /\ pc[p] # "off"
  BY <1>2 DEF trigger
<1>11. QED
  BY <1>0, <1>6, <1>8, <1>9, <1>10, StepOfPass

(* The primary ships; its retry begins to wait or stays off.               *)
LEMMA ShipPrimaryLists ==
  ASSUME Inv, ListInv, NEW t \in Triggers, RefusePrimary(t) \/ ShipPrimary(t)
  PROVE  ListInv'
<1> DEFINE p == Primary(t)
           r == Retry(t)
           none == NoSuite(t, "primary", requested[t])
<1>0. /\ p = <<t, "primary">> /\ r = <<t, "retry">> /\ p \in Passes /\ r \in Passes /\ p # r
      /\ \A u \in Triggers : u # t => Primary(u) \notin {p, r} /\ Retry(u) \notin {p, r}
  BY PassesAre DEF Primary, Retry
<1>1. pc[p] = "ship" /\ pc[r] = "off" /\ UNCHANGED <<type, requested, full, insts, valid, dropped>>
  BY DEF RefusePrimary, ShipPrimary, trigger, results, Inv, Order, Unshipped
<1>2. PassOK(t, "primary") /\ PassOK(t, "retry")
  BY DEF ListInv, TriggerOK
<1>3. /\ todo[p] = <<>> /\ fate[p] = "none" /\ fate[r] = "none"
      /\ valid[r] = <<>> /\ dropped[r] = <<>>
  BY <1>0, <1>1, <1>2 DEF PassOK, Queue, Settled
<1>4. \/ none /\ pc'[p] = "done" /\ fate'[p] = "destroyed"
      \/ /\ ~none /\ fate'[p] = "none"
         /\ pc'[p] = "done" \/ (pc'[p] = "dispatch" /\ insts[p] # <<>>)
  <2>1. CASE RefusePrimary(t)
    BY <1>0, <2>1 DEF RefusePrimary, Schedule, Inv, TypeOK
  <2>2. CASE ShipPrimary(t)
    BY <1>0, <1>3, <2>2 DEF ShipPrimary, Schedule, Ended, Inv, TypeOK
  <2>3. QED
    BY <2>1, <2>2
<1>5. \/ pc'[r] = "delay" /\ todo' = [todo EXCEPT ![r] = RetryList(t)]
      \/ pc'[r] = "off" /\ todo' = todo
  <2>1. CASE RefusePrimary(t)
    BY <1>0, <2>1 DEF RefusePrimary, Schedule, RetryList, Inv, TypeOK
  <2>2. CASE ShipPrimary(t)
    BY <1>0, <1>1, <2>2 DEF ShipPrimary, Schedule, RetryList, Inv, TypeOK
  <2>3. QED
    BY <2>1, <2>2
<1>6. /\ fate'[r] = "none"
      /\ \A q \in Passes : q # p /\ q # r => pc'[q] = pc[q] /\ fate'[q] = fate[q]
  BY <1>0, <1>3 DEF RefusePrimary, ShipPrimary, Schedule, Inv, TypeOK
<1>7. RetryList(t) \in Seq(Version)
  BY <1>0 DEF RetryList, ListInv, ListTypes
<1>8. /\ ListTypes' /\ todo'[p] = <<>> /\ (pc'[r] = "delay" => todo'[r] = RetryList(t))
      /\ \A q \in Passes : q # p /\ q # r => UNCHANGED OfPass(q)
  BY <1>0, <1>1, <1>3, <1>5, <1>6, <1>7 DEF ListInv, ListTypes, OfPass
<1>9. /\ UNCHANGED Mobile(t) /\ UNCHANGED RetryList(t) /\ \A k : UNCHANGED Asked(t, k)
      /\ UNCHANGED none /\ (none <=> NoSuite(t, "primary", Asked(t, "primary")))
      /\ UNCHANGED NoSuite(t, "primary", Asked(t, "primary"))
  BY <1>1 DEF Mobile, Asked, RetryList, NoSuite
<1> HIDE DEF none
<1>10. PassOK(t, "primary")'
  <2>1. Divided(t, "primary")' /\ Queue(t, "primary")' /\ Layout(t, "primary")'
    BY <1>0, <1>1, <1>2, <1>3, <1>4, <1>8, <1>9 DEF PassOK, Divided, Queue, Layout
  <2>2. Settled(t, "primary")'
    BY <1>0, <1>1, <1>4, <1>9 DEF Settled
  <2>3. QED
    BY <2>1, <2>2 DEF PassOK
<1>11. PassOK(t, "retry")'
  <2>1. pc'[r] \in {"off", "delay"} /\ valid'[r] = <<>> /\ dropped'[r] = <<>>
    BY <1>1, <1>3, <1>5
  <2>2. Divided(t, "retry")'
    <3>1. Asked(t, "retry")' = RetryList(t)
      BY <1>9 DEF Asked
    <3>2. QED
      BY <1>0, <1>8, <2>1, <3>1, EmptyFacts DEF Divided
  <2>3. Queue(t, "retry")' /\ Settled(t, "retry")'
    BY <1>0, <1>6, <2>1 DEF Queue, Settled
  <2>4. Layout(t, "retry")'
    BY <1>1, <1>2, <1>9 DEF PassOK, Layout
  <2>5. QED
    BY <2>2, <2>3, <2>4 DEF PassOK
<1>12. Suite(t)'
  BY <1>1, <1>9 DEF ListInv, TriggerOK, Suite
<1>13. Again(t)'
  BY <1>4, <1>8, <1>9 DEF Again, none
<1>14. ASSUME NEW u \in Triggers, u # t PROVE TriggerOK(u)'
  <2>1. UNCHANGED OfPass(Primary(u)) /\ UNCHANGED OfPass(Retry(u)) /\ UNCHANGED OfTrigger(u)
    BY <1>0, <1>1, <1>8, <1>14, PassesAre DEF OfTrigger
  <2>2. QED
    BY <2>1, TriggerFrame DEF ListInv
<1>15. QED
  BY <1>8, <1>10, <1>11, <1>12, <1>13, <1>14 DEF ListInv, TriggerOK

(* A trigger is handled: the versions are capped and ordered.              *)
LEMMA TriggerLists ==
  ASSUME Inv, ListInv, NEW t \in Triggers, HandleCMTTrigger(t)
  PROVE  ListInv'
<1> DEFINE p == Primary(t)
           r == Retry(t)
<1>0. /\ p = <<t, "primary">> /\ r = <<t, "retry">> /\ p \in Passes /\ r \in Passes /\ p # r
      /\ \A u \in Triggers : u # t => Primary(u) \notin {p, r} /\ Retry(u) \notin {p, r}
  BY PassesAre DEF Primary, Retry
<1>1. /\ pc[p] = "off" /\ pc[r] = "off"
      /\ UNCHANGED <<insts, valid, dropped, fate>>
  BY DEF HandleCMTTrigger, results, Inv, Order, Unshipped
<1>2. PICK kind \in RepoTypes \ {"other"}, list \in Lists[t] :
        LET kept == Capped(kind, list)
            suite == IF kind = "mobile" THEN LatestVersion(kept) ELSE None
        IN  /\ type' = [type EXCEPT ![t] = kind]
            /\ requested' = [requested EXCEPT ![t] = kept]
            /\ full' = [full EXCEPT ![t] = suite]
            /\ todo' = [todo EXCEPT ![p] = Ordered(kept, suite)]
            /\ pc' = [pc EXCEPT ![p] = IF kind = "mobile" THEN "acquire" ELSE "provision"]
  BY DEF HandleCMTTrigger
<1> DEFINE kept == Capped(kind, list)
           suite == IF kind = "mobile" THEN LatestVersion(kept) ELSE None
           order == Ordered(kept, suite)
<1>3. kind \in {"desktop", "mobile"} /\ list \in Seq(Version) /\ list # <<>>
  BY TypesAssumption, ListsAssumption
<1>4. kept \in Seq(Version) /\ kept # <<>>
  BY <1>3, CappedFacts
<1>5. None \in Version
  BY DEF None, Version
<1>6. /\ suite \in Version
      /\ kind = "mobile" =>
           /\ suite \in Elements(kept)
           /\ \A v \in Elements(kept) : v.ok => suite.ok /\ ~Less(suite, v)
  <2> HIDE DEF kept
  <2>1. QED
    BY <1>4, <1>5, LatestFacts
<1> HIDE DEF kept, suite
<1>7. /\ order \in Seq(Version) /\ Elements(order) = Elements(kept) \ {None} /\ Distinct(order)
      /\ suite \in Elements(order) => order[1] = suite
  BY <1>4, OrderedFacts
<1> HIDE DEF order
<1>8. /\ type' = [type EXCEPT ![t] = kind] /\ requested' = [requested EXCEPT ![t] = kept]
      /\ full' = [full EXCEPT ![t] = suite] /\ todo' = [todo EXCEPT ![p] = order]
      /\ pc' = [pc EXCEPT ![p] = IF kind = "mobile" THEN "acquire" ELSE "provision"]
  BY <1>2 DEF kept, suite, order
<1>9. /\ type'[t] = kind /\ requested'[t] = kept /\ full'[t] = suite /\ todo'[p] = order
      /\ pc'[p] \in {"acquire", "provision"} /\ pc'[r] = "off"
  BY <1>0, <1>1, <1>8 DEF Inv, TypeOK, ListInv, ListTypes
<1>10. ListTypes'
  BY <1>0, <1>1, <1>4, <1>6, <1>7, <1>8 DEF ListInv, ListTypes
<1>11. PassOK(t, "primary") /\ PassOK(t, "retry")
  BY DEF ListInv, TriggerOK
<1>12. /\ valid'[p] = <<>> /\ dropped'[p] = <<>> /\ insts'[p] = <<>> /\ fate'[p] = "none"
       /\ valid'[r] = <<>> /\ dropped'[r] = <<>> /\ insts'[r] = <<>> /\ fate'[r] = "none"
  BY <1>0, <1>1, <1>11 DEF PassOK, Queue, Settled, Inv, Bare
<1>13. Mobile(t)' \in BOOLEAN /\ (Mobile(t)' <=> kind = "mobile")
  BY <1>9 DEF Mobile
<1>14. Layout(t, "primary")' /\ Layout(t, "retry")'
  <2>1. LaidOut(Mobile(t)', full'[t], <<>>, <<>>)
    BY <1>13, EmptyFacts
  <2>2. QED
    BY <1>0, <1>12, <2>1 DEF Layout
<1>15. PassOK(t, "primary")'
  <2>1. Divided(t, "primary")'
    <3>1. Asked(t, "primary")' = kept
      BY <1>9 DEF Asked
    <3>2. QED
      BY <1>0, <1>7, <1>9, <1>12, <3>1, EmptyFacts DEF Divided
  <2>2. Queue(t, "primary")'
    BY <1>0, <1>6, <1>7, <1>9, <1>12, <1>13 DEF Queue
  <2>3. Settled(t, "primary")'
    BY <1>0, <1>9, <1>12 DEF Settled
  <2>4. QED
    BY <1>14, <2>1, <2>2, <2>3 DEF PassOK
<1>16. PassOK(t, "retry")'
  BY <1>0, <1>9, <1>12, <1>14 DEF PassOK, Divided, Queue, Settled
<1>17. Suite(t)' /\ Again(t)'
  BY <1>3, <1>6, <1>9, <1>13 DEF Suite, Again
<1>18. ASSUME NEW u \in Triggers, u # t PROVE TriggerOK(u)'
  <2>1. UNCHANGED OfPass(Primary(u)) /\ UNCHANGED OfPass(Retry(u)) /\ UNCHANGED OfTrigger(u)
    BY <1>0, <1>1, <1>8, <1>18, PassesAre DEF OfTrigger, OfPass, Inv, TypeOK, ListInv, ListTypes
  <2>2. QED
    BY <1>18, <2>1, TriggerFrame DEF ListInv
<1>19. QED
  BY <1>10, <1>15, <1>16, <1>17, <1>18 DEF ListInv, TriggerOK

LEMMA ListInit == Init => ListInv
<1> SUFFICES ASSUME Init PROVE ListInv
  OBVIOUS
<1>1. None \in Version /\ <<>> \in Seq(Version) /\ <<>> \in Seq(Server)
  BY DEF None, Version
<1>2. ListTypes
  BY <1>1 DEF Init, ListTypes
<1>3. \A p \in Passes : /\ pc[p] = "off" /\ valid[p] = <<>> /\ dropped[p] = <<>>
                        /\ insts[p] = <<>> /\ fate[p] = "none"
  BY DEF Init
<1>4. ASSUME NEW t \in Triggers PROVE TriggerOK(t)
  <2>1. \A k \in {"primary", "retry"} : <<t, k>> \in Passes
    BY DEF Passes
  <2>2. \A k \in {"primary", "retry"} : Divided(t, k) /\ Queue(t, k) /\ Settled(t, k)
    BY <1>3, <2>1 DEF Divided, Queue, Settled
  <2>3. \A k \in {"primary", "retry"} : Layout(t, k)
    <3>1. Mobile(t) \in BOOLEAN
      BY DEF Mobile
    <3>2. QED
      BY <1>3, <2>1, <3>1, EmptyFacts DEF Layout
  <2>4. Suite(t) /\ Again(t)
    BY <1>3, PassesAre DEF Suite, Again
  <2>5. QED
    BY <2>2, <2>3, <2>4 DEF TriggerOK, PassOK
<1>5. QED
  BY <1>2, <1>4 DEF ListInv

LEMMA ListStep == Inv /\ ListInv /\ [Next]_vars => ListInv'
<1> SUFFICES ASSUME Inv, ListInv, [Next]_vars PROVE ListInv'
  OBVIOUS
<1>1. CASE UNCHANGED vars \/ Stop
  <2>1. UNCHANGED <<type, requested, full, pc, todo, insts, valid, dropped, fate>>
    BY <1>1 DEF vars, Stop, trigger, results
  <2>2. ListTypes' /\ \A t \in Triggers : TriggerOK(t)'
    BY <2>1, TriggerFrame DEF ListInv, ListTypes, OfTrigger, OfPass
  <2>3. QED
    BY <2>2 DEF ListInv
<1>2. ASSUME NEW t \in Triggers, HandleCMTTrigger(t) \/ ShipStep(t)
      PROVE  ListInv'
  BY <1>2, TriggerLists, ShipPrimaryLists, ShipRetryLists, RetryTimerLists DEF ShipStep
<1>3. ASSUME NEW t \in Triggers, NEW k \in {"primary", "retry"}, PassStep(t, k)
      PROVE  ListInv'
  BY <1>3, AcquireLists, AcquireFailsLists, ProvisionLists, ProvisionDoneLists, DispatchLists
  DEF PassStep
<1>4. QED
  BY <1>1, <1>2, <1>3 DEF Next

(* A pass at its dispatch or after it: what it has and what it makes of it.*)
LEMMA MatrixFacts ==
  ASSUME Inv, ListInv, NEW t \in Triggers, NEW k \in {"primary", "retry"},
         pc[<<t, k>>] = "dispatch" \/ fate[<<t, k>>] = "dispatched"
  PROVE  LET p == <<t, k>>
             E == CMTMatrixOf(t, k).server
         IN  /\ pc[p] # "off" /\ valid[p] \in Seq(Version) /\ insts[p] \in Seq(Server)
             /\ valid[p] # <<>>
             /\ LaidOut(Mobile(t), full[t], valid[p], insts[p])
             /\ ~Mobile(t) => CMTMatrixOf(t, k).ok
             /\ CMTMatrixOf(t, k).ok =>
                  /\ Matches(E, valid[p], insts[p])
                  /\ Headed(Mobile(t), full[t], valid[p]) =>
                       1 \in DOMAIN E /\ E[1].latest /\ E[1].version = full[t]
<1> DEFINE p == <<t, k>>
           s == valid[p]
           B == insts[p]
<1>1. p \in Passes /\ s \in Seq(Version) /\ B \in Seq(Server)
  BY DEF Passes, ListInv, ListTypes
<1>2. PassOK(t, k)
  BY DEF ListInv, TriggerOK
<1>3. /\ pc[p] \in {"dispatch", "done"} /\ B # <<>>
      /\ LaidOut(Mobile(t), full[t], s, B)
  BY <1>2 DEF PassOK, Settled, Layout
<1>4. Mobile(t) \in BOOLEAN /\ type[t] \in {"desktop", "mobile", "other"}
  BY DEF Mobile, Inv, TypeOK
<1>5. type[t] # "other"
  <2>1. pc[Primary(t)] # "off"
    BY <1>3, PassesAre DEF Inv, Order, Unshipped, Primary, Retry
  <2>2. QED
    BY <2>1 DEF ListInv, TriggerOK, Suite
<1>6. s # <<>>
  <2>1. Len(B) # 0
    BY <1>1, <1>3
  <2>2. Headed(Mobile(t), full[t], s) \/ Shift(Mobile(t), full[t], s) = 0
    BY DEF Shift
  <2>3. Len(s) # 0
    <3> SUFFICES ASSUME Len(s) = 0 PROVE FALSE
      OBVIOUS
    <3>1. ~Headed(Mobile(t), full[t], s)
      BY DEF Headed
    <3>2. Len(B) = 0 + 0
      BY <1>3, <2>2, <3>1 DEF LaidOut
    <3>3. QED
      BY <2>1, <3>2
  <2>4. QED
    BY <2>3, NotEmpty
<1> DEFINE M == CMTMatrixOf(t, k)
<1>7. CASE ~Mobile(t)
  <2>1. M = DesktopMatrix(s, B)
    BY <1>4, <1>5, <1>7 DEF CMTMatrixOf, Matrix, Mobile
  <2>2. LaidOut(FALSE, full[t], s, B) /\ ~Headed(Mobile(t), full[t], s)
    BY <1>3, <1>4, <1>7 DEF Headed
  <2> HIDE DEF M, s, B
  <2>3. M.ok /\ Matches(M.server, s, B)
    BY <1>1, <2>1, <2>2, DesktopSent
  <2>4. QED
    BY <1>1, <1>3, <1>6, <1>7, <2>2, <2>3 DEF M, s, B
<1>8. CASE Mobile(t)
  <2>1. M = MobileMatrix(s, B)
    BY <1>8 DEF CMTMatrixOf, Matrix, Mobile
  <2>2. LaidOut(TRUE, full[t], s, B) /\ (Headed(Mobile(t), full[t], s) <=> Headed(TRUE, full[t], s))
    BY <1>3, <1>4, <1>8
  <2> HIDE DEF M, s, B
  <2>3. M.ok => /\ Matches(M.server, s, B)
                /\ Headed(Mobile(t), full[t], s) =>
                     1 \in DOMAIN M.server /\ M.server[1].latest /\ M.server[1].version = full[t]
    BY <1>1, <1>6, <2>1, <2>2, MobileSent
  <2>4. QED
    BY <1>1, <1>3, <1>6, <1>8, <2>3 DEF M, s, B
<1>9. QED
  BY <1>7, <1>8
-----------------------------------------------------------------------------
(* Only a retry waits.                                                     *)
NoPrimaryDelay == \A t \in Triggers : pc[Primary(t)] # "delay"

(* The highest version of a mobile list has a name, if the lists have one. *)
Named == \A t \in Triggers : Mobile(t) => full[t] # None
HaveNames == \A t \in Triggers : \A l \in Lists[t] : LatestVersion(Capped("mobile", l)) # None

LEMMA DelayStep == Inv /\ NoPrimaryDelay /\ [Next]_vars => NoPrimaryDelay'
<1> SUFFICES ASSUME Inv, NoPrimaryDelay, [Next]_vars, NEW u \in Triggers
             PROVE  pc'[Primary(u)] # "delay"
  BY DEF NoPrimaryDelay
<1>0. pc[Primary(u)] # "delay" /\ Primary(u) \in Passes
  BY PassesAre DEF NoPrimaryDelay
<1>1. ASSUME NEW q \in Passes, NEW next, next # "delay", pc' = [pc EXCEPT ![q] = next]
      PROVE  pc'[Primary(u)] # "delay"
  BY <1>0, <1>1 DEF Inv, TypeOK
<1>2. CASE UNCHANGED vars \/ Stop
  BY <1>0, <1>2 DEF vars, Stop
<1>3. ASSUME NEW t \in Triggers, NEW k \in {"primary", "retry"}, PassStep(t, k)
      PROVE  pc'[Primary(u)] # "delay"
  <2>1. <<t, k>> \in Passes
    BY DEF Passes
  <2>2. pc' = pc \/ \E next \in {"provision", "ship", "done"} : pc' = [pc EXCEPT ![<<t, k>>] = next]
    BY <1>3 DEF PassStep, Acquire, AcquireFails, ProvisionVersion, ProvisionDone, DispatchAndTrack
  <2>3. QED
    BY <1>0, <1>1, <2>1, <2>2
<1>4. ASSUME NEW t \in Triggers, HandleCMTTrigger(t) \/ ShipStep(t)
      PROVE  pc'[Primary(u)] # "delay"
  <2>1. Primary(t) \in Passes /\ Retry(t) \in Passes
    BY PassesAre
  <2>2. \/ \E q \in {Primary(t), Retry(t)}, next \in {"acquire", "provision", "dispatch", "done"} :
             pc' = [pc EXCEPT ![q] = next]
        \/ \E next \in {"dispatch", "done"} :
             pc' = [pc EXCEPT ![Primary(t)] = next, ![Retry(t)] = "delay"]
    <3>1. Ended(Primary(t)) \in {"dispatch", "done"} /\ Ended(Retry(t)) \in {"dispatch", "done"}
      BY DEF Ended
    <3>2. CASE HandleCMTTrigger(t)
      BY <3>2 DEF HandleCMTTrigger
    <3>3. CASE RefusePrimary(t) \/ ShipPrimary(t)
      BY <3>1, <3>3 DEF RefusePrimary, ShipPrimary, Schedule
    <3>4. CASE ShipRetry(t)
      BY <3>1, <3>4 DEF ShipRetry
    <3>5. CASE RetryTimer(t) \/ RetrySkipped(t)
      BY <3>5 DEF RetryTimer, RetrySkipped
    <3>6. QED
      BY <1>4, <3>2, <3>3, <3>4, <3>5 DEF ShipStep
  <2>3. CASE \E next \in {"dispatch", "done"} :
               pc' = [pc EXCEPT ![Primary(t)] = next, ![Retry(t)] = "delay"]
    BY <1>0, <2>1, <2>3, PassesAre DEF Inv, TypeOK
  <2>4. QED
    BY <1>1, <2>1, <2>2, <2>3
<1>5. QED
  BY <1>2, <1>3, <1>4 DEF Next

LEMMA NamedStep ==
  ASSUME HaveNames
  PROVE  Inv /\ ListInv /\ Named /\ [Next]_vars => Named'
<1> SUFFICES ASSUME Inv, ListInv, Named, [Next]_vars, NEW u \in Triggers, Mobile(u)'
             PROVE  full'[u] # None
  BY DEF Named
<1>1. Mobile(u) => full[u] # None
  BY DEF Named
<1>2. CASE UNCHANGED <<type, full>>
  BY <1>1, <1>2 DEF Mobile
<1>3. ASSUME NEW t \in Triggers, HandleCMTTrigger(t)
      PROVE  full'[u] # None
  <2>1. PICK kind \in RepoTypes \ {"other"}, list \in Lists[t] :
          /\ type' = [type EXCEPT ![t] = kind]
          /\ full' = [full EXCEPT ![t] = IF kind = "mobile" THEN LatestVersion(Capped(kind, list))
                                        ELSE None]
    BY <1>3 DEF HandleCMTTrigger
  <2>2. LatestVersion(Capped("mobile", list)) # None
    BY DEF HaveNames
  <2>3. type \in [Triggers -> {"desktop", "mobile", "other"}] /\ full \in [Triggers -> Version]
    BY DEF Inv, TypeOK, ListInv, ListTypes
  <2>4. CASE u = t
    BY <2>1, <2>2, <2>3, <2>4 DEF Mobile
  <2>5. CASE u # t
    BY <1>1, <2>1, <2>3, <2>5 DEF Mobile
  <2>6. QED
    BY <2>4, <2>5
<1>4. ASSUME NEW t \in Triggers, ShipStep(t)
      PROVE  UNCHANGED <<type, full>>
  <2>1. CASE RefusePrimary(t)
    BY <2>1 DEF RefusePrimary, trigger
  <2>2. CASE ShipPrimary(t)
    BY <2>2 DEF ShipPrimary, trigger
  <2>3. CASE ShipRetry(t)
    BY <2>3 DEF ShipRetry, trigger
  <2>4. CASE RetryTimer(t)
    BY <2>4 DEF RetryTimer, trigger
  <2>5. CASE RetrySkipped(t)
    BY <2>5 DEF RetrySkipped, trigger
  <2>6. QED
    BY <1>4, <2>1, <2>2, <2>3, <2>4, <2>5 DEF ShipStep
<1>5. ASSUME NEW t \in Triggers, NEW k \in {"primary", "retry"}, PassStep(t, k)
      PROVE  UNCHANGED <<type, full>>
  <2>1. CASE Acquire(t, k)
    BY <2>1 DEF Acquire, trigger
  <2>2. CASE AcquireFails(t, k)
    BY <2>2 DEF AcquireFails, trigger
  <2>3. CASE ProvisionVersion(t, k)
    BY <2>3 DEF ProvisionVersion, trigger
  <2>4. CASE ProvisionDone(t, k)
    BY <2>4 DEF ProvisionDone, trigger
  <2>5. CASE DispatchAndTrack(t, k)
    BY <2>5 DEF DispatchAndTrack, trigger
  <2>6. QED
    BY <1>5, <2>1, <2>2, <2>3, <2>4, <2>5 DEF PassStep
<1>6. CASE Stop
  BY <1>2, <1>6 DEF Stop, trigger
<1>7. CASE UNCHANGED vars
  BY <1>2, <1>7 DEF vars, trigger
<1>8. QED
  BY <1>2, <1>3, <1>4, <1>5, <1>6, <1>7 DEF Next

LEMMA AllInit == Init => Inv /\ ListInv /\ NoPrimaryDelay /\ Named
<1> SUFFICES ASSUME Init PROVE NoPrimaryDelay /\ Named
  BY InvInit, ListInit
<1>1. NoPrimaryDelay
  BY PassesAre DEF Init, NoPrimaryDelay
<1>2. Named
  BY DEF Init, Named, Mobile
<1>3. QED
  BY <1>1, <1>2
-----------------------------------------------------------------------------
(* Every variable keeps its type; the semaphore never holds two entries    *)
(* nor fewer than none, although whoever releases takes what is there      *)
(* (cmtMobileProvisionSem).                                                *)
THEOREM TypeCorrect == Spec => []TypeOK
<1>1. Inv => TypeOK
  BY DEF Inv
<1>2. QED
  BY <1>1, InvInit, InvStep, PTL DEF Spec

(* No two mobile passes of the process provision at the same time          *)
(* (provisionCMTVersions).                                                 *)
THEOREM SlotIsExclusive == Spec => []SlotExclusive
<1>1. Inv => SlotExclusive
  BY DEF Inv, Slot
<1>2. QED
  BY <1>1, InvInit, InvStep, PTL DEF Spec

(* A pass that is over has handed its servers to a run or destroyed them   *)
(* (handleCMTWithServerVersions, retryDroppedCMTVersions).                 *)
THEOREM NoneKept == Spec => []NoServerKept
<1>1. Inv => NoServerKept
  BY DEF Inv
<1>2. QED
  BY <1>1, InvInit, InvStep, PTL DEF Spec

(* What a dispatch tests: the versions that came up, each on servers of    *)
(* that version, and all the servers (cmt_matrix.go).                      *)
THEOREM MatrixIsRight == Spec => []MatrixMatches
<1>1. Inv /\ ListInv => MatrixMatches
  <2> SUFFICES ASSUME Inv, ListInv, NEW p \in Passes, fate[p] = "dispatched"
               PROVE  Matches(CMTMatrixOf(p[1], p[2]).server, valid[p], insts[p])
    BY DEF MatrixMatches, Matches, Tested
  <2>1. PICK t \in Triggers, k \in {"primary", "retry"} : p = <<t, k>>
    BY DEF Passes
  <2>2. CMTMatrixOf(t, k).ok
    BY <2>1 DEF ListInv, TriggerOK, PassOK, Settled
  <2>3. Matches(CMTMatrixOf(t, k).server, valid[p], insts[p])
    BY <2>1, <2>2, MatrixFacts
  <2>4. QED
    BY <2>1, <2>3
<1>2. QED
  BY <1>1, InvInit, ListInit, InvStep, ListStep, PTL DEF Spec

(* A matrix whose list has a version that parses, or only one, always      *)
(* builds: the full suite that goes first in provisioning is the highest,  *)
(* which the builder looks for (buildMobileCMTMatrixJSON).                 *)
THEOREM MatrixIsBuilt == Spec => []MatrixBuilds
<1>1. Inv /\ ListInv => MatrixBuilds
  <2> SUFFICES ASSUME Inv, ListInv, NEW t \in Triggers, NEW k \in {"primary", "retry"},
                      pc[<<t, k>>] = "dispatch",
                      (\E v \in Elements(valid[<<t, k>>]) : v.ok) \/ Len(valid[<<t, k>>]) = 1
               PROVE  CMTMatrixOf(t, k).ok
    BY DEF MatrixBuilds
  <2> DEFINE p == <<t, k>>
             s == valid[p]
             B == insts[p]
             suite == full[t]
  <2>1. /\ s \in Seq(Version) /\ B \in Seq(Server) /\ s # <<>>
        /\ LaidOut(Mobile(t), suite, s, B) /\ (~Mobile(t) => CMTMatrixOf(t, k).ok)
    BY MatrixFacts
  <2> SUFFICES ASSUME Mobile(t) PROVE CMTMatrixOf(t, k).ok
    BY <2>1
  <2>2. CMTMatrixOf(t, k) = MobileMatrix(s, B)
    BY DEF CMTMatrixOf, Matrix, Mobile
  <2>3. LaidOut(TRUE, suite, s, B)
    <3>1. Mobile(t) = TRUE
      BY DEF Mobile
    <3>2. QED
      BY <2>1, <3>1
  <2>4. \A v \in Elements(s) : v.ok => suite.ok /\ ~Less(suite, v)
    <3>1. p \in Passes /\ pc[Primary(t)] # "off"
      BY PassesAre DEF Passes, Inv, Order, Unshipped, Primary, Retry
    <3>2. Elements(s) \subseteq Elements(requested[t]) \cup {None}
      <4>1. Divided(t, k) /\ (k = "retry" => pc[Primary(t)] # "off" /\ Divided(t, "primary"))
        BY <3>1 DEF ListInv, TriggerOK, PassOK
      <4>2. Elements(s) \subseteq Elements(Asked(t, k)) \cup {None}
        BY <3>1, <4>1 DEF Divided
      <4>3. Elements(Asked(t, k)) \subseteq Elements(requested[t]) \cup {None}
        <5>1. CASE k = "primary"
          BY <5>1 DEF Asked
        <5>2. CASE k = "retry"
          <6>1. Elements(dropped[Primary(t)]) \subseteq Elements(requested[t]) \cup {None}
            BY <4>1, <5>2 DEF Divided, Asked, Primary
          <6>2. QED
            BY <5>2, <6>1 DEF Asked, RetryList
        <5>3. QED
          BY <5>1, <5>2
      <4>4. QED
        BY <4>2, <4>3
    <3>3. \A v \in Elements(requested[t]) : v.ok => suite.ok /\ ~Less(suite, v)
      BY <3>1 DEF ListInv, TriggerOK, Suite
    <3>4. ~None.ok
      BY DEF None
    <3>5. QED
      BY <3>2, <3>3, <3>4
  <2>5. Headed(TRUE, suite, s) => LatestIndex(s) = 1
    <3> SUFFICES ASSUME Headed(TRUE, suite, s) PROVE LatestIndex(s) = 1
      OBVIOUS
    <3> DEFINE l == LatestIndex(s)
               P == {i \in DOMAIN s : s[i].ok}
    <3>1. DOMAIN s = 1..Len(s) /\ Len(s) \in Nat /\ 1 \in DOMAIN s /\ s[1] = suite
      BY <2>1 DEF Headed
    <3>2. /\ l \in 1..Len(s)
          /\ P # {} => l \in P /\ \A j \in P : j < l => Less(s[j], s[l])
      BY <2>1, LatestIndexFacts
    <3> HIDE DEF l
    <3>3. CASE Len(s) = 1
      BY <3>2, <3>3 DEF l
    <3>4. CASE \E v \in Elements(s) : v.ok
      <4>1. P # {} /\ suite.ok
        BY <2>4, <3>4 DEF Elements
      <4>2. 1 \in P /\ l \in P /\ s[l] \in Elements(s) /\ s[l].ok
        BY <3>1, <3>2, <4>1 DEF Elements
      <4>3. ~Less(s[1], s[l])
        BY <2>4, <3>1, <4>2
      <4>4. ~(1 < l)
        BY <3>2, <4>1, <4>2, <4>3
      <4>5. QED
        BY <3>1, <3>2, <4>4 DEF l
    <3>5. QED
      BY <3>3, <3>4
  <2> HIDE DEF s, B, suite
  <2>6. QED
    BY <2>1, <2>2, <2>3, <2>5, SmokeSent, FullSent
<1>2. QED
  BY <1>1, InvInit, ListInit, InvStep, ListStep, PTL DEF Spec

(* The versions that the retry tries again and those that the first pass   *)
(* keeps make up the list, and none is both (retryDroppedCMTVersions).     *)
THEOREM RetryIsTheRest == Spec => []RetryComplements
<1>1. Inv /\ ListInv /\ NoPrimaryDelay => RetryComplements
  <2> SUFFICES ASSUME Inv, ListInv, NoPrimaryDelay, NEW t \in Triggers, pc[Retry(t)] = "delay"
               PROVE  LET kept == IF /\ fate[Primary(t)] = "destroyed"
                                     /\ NoSuite(t, "primary", requested[t])
                                  THEN {} ELSE Elements(valid[Primary(t)])
                          again == Elements(todo[Retry(t)])
                      IN  /\ (kept \cup again) \ {None} = Elements(requested[t]) \ {None}
                          /\ kept \cap again = {}
    BY DEF RetryComplements
  <2> DEFINE p == Primary(t)
  <2>1. p = <<t, "primary">> /\ p \in Passes
    BY PassesAre DEF Primary
  <2>2. pc[p] \notin Unshipped /\ pc[p] # "delay"
    BY DEF Inv, Order, NoPrimaryDelay, Unshipped
  <2>3. todo[p] = <<>>
    <3>1. pc[p] \in {"ship", "dispatch", "done"}
      BY <2>1, <2>2 DEF Inv, TypeOK, PCs, Unshipped
    <3>2. QED
      BY <2>1, <3>1 DEF ListInv, TriggerOK, PassOK, Queue
  <2>4. /\ (Elements(valid[p]) \cup Elements(dropped[p])) \ {None} = Elements(requested[t]) \ {None}
        /\ Elements(valid[p]) \cap Elements(dropped[p]) = {}
    BY <2>1, <2>2, <2>3, EmptyFacts DEF ListInv, TriggerOK, PassOK, Divided, Asked, Unshipped
  <2>5. /\ todo[Retry(t)] = RetryList(t)
        /\ NoSuite(t, "primary", requested[t]) => fate[p] = "destroyed"
    BY DEF ListInv, TriggerOK, Again
  <2>6. CASE NoSuite(t, "primary", requested[t])
    BY <2>5, <2>6 DEF RetryList
  <2>7. CASE ~NoSuite(t, "primary", requested[t])
    BY <2>4, <2>5, <2>7 DEF RetryList
  <2>8. QED
    BY <2>6, <2>7
<1>2. QED
  BY <1>1, AllInit, InvStep, ListStep, DelayStep, PTL DEF Spec

(* No matrix is sent for the whole list without the full suite of its      *)
(* highest version, on five servers (handleCMTWithServerVersions,          *)
(* retryDroppedCMTVersions), where every list has one: of a list none of   *)
(* which parses the last is taken for it, and that may be empty.           *)
THEOREM FullSuiteIsSent ==
  ASSUME HaveNames
  PROVE  Spec => []FullSuiteSent
<1>1. Inv /\ ListInv /\ Named => FullSuiteSent
  <2> SUFFICES ASSUME Inv, ListInv, Named, NEW t \in Triggers, NEW k \in {"primary", "retry"},
                      fate[<<t, k>>] = "dispatched", Mobile(t),
                      k = "primary" \/ full[t] \in Elements(RetryList(t))
               PROVE  LET E == CMTMatrixOf(t, k).server
                      IN  \E i \in DOMAIN E : E[i].latest /\ E[i].version = full[t]
    BY DEF FullSuiteSent
  <2> DEFINE p == <<t, k>>
             s == valid[p]
  <2>1. /\ pc[p] # "off" /\ s \in Seq(Version)
        /\ LaidOut(Mobile(t), full[t], s, insts[p])
        /\ CMTMatrixOf(t, k).ok => (Headed(Mobile(t), full[t], s) =>
             LET E == CMTMatrixOf(t, k).server
             IN  1 \in DOMAIN E /\ E[1].latest /\ E[1].version = full[t])
    BY MatrixFacts
  <2>2. CMTMatrixOf(t, k).ok /\ ~NoSuite(t, k, Asked(t, k))
    BY DEF ListInv, TriggerOK, PassOK, Settled
  <2>3. pc[Primary(t)] # "off"
    BY <2>1, PassesAre DEF Inv, Order, Unshipped, Primary, Retry
  <2>4. full[t] \in Elements(requested[t]) /\ full[t] # None
    BY <2>3 DEF ListInv, TriggerOK, Suite, Named
  <2>5. full[t] \in Elements(Asked(t, k))
    BY <2>4 DEF Asked
  <2>6. full[t] \in Elements(s)
    BY <2>2, <2>4, <2>5 DEF NoSuite
  <2>7. Headed(Mobile(t), full[t], s)
    <3>1. PICK i \in 1..Len(s) : s[i] = full[t]
      BY <2>1, <2>6 DEF Elements
    <3>2. i \notin 2..Len(s)
      BY <2>1, <3>1 DEF LaidOut
    <3>3. i = 1 /\ Len(s) > 0
      BY <2>1, <3>1, <3>2
    <3>4. QED
      BY <3>1, <3>3 DEF Headed
  <2>8. QED
    BY <2>1, <2>2, <2>7
<1>2. Inv /\ ListInv /\ Named /\ [Next]_vars => Named'
  BY NamedStep
<1>3. QED
  BY <1>1, <1>2, AllInit, InvStep, ListStep, PTL DEF Spec
=============================================================================
