-------------------------- MODULE ProvisionPromise --------------------------
(***************************************************************************)
(* What createMultipleE2EInstances and createMobileCMTInstances promise    *)
(* their callers: all the servers of a set or none.  Installations come    *)
(* and go while the call runs; when it returns, every live one has been    *)
(* handed to the caller or is an orphan, one that the provisioner would    *)
(* not delete or whose id the process never learnt.                        *)
(***************************************************************************)
CONSTANTS
  Platforms,
  Serials  \* tells the installations of one platform apart

VARIABLES
  live,     \* installations that exist
  orphans,  \* those among them that nobody here will delete
  outcome,  \* of the call: "running", "all" or "none"
  given     \* what the caller got

Ids == Platforms \X Serials

Init ==
  /\ live = {}
  /\ orphans = {}
  /\ outcome = "running"
  /\ given = {}

Appear ==
  /\ outcome = "running"
  /\ \E i \in Ids \ live :
       live' = live \cup {i} /\ orphans' \in {orphans, orphans \cup {i}}
  /\ UNCHANGED <<outcome, given>>

Disappear ==
  /\ outcome = "running"
  /\ \E i \in live : live' = live \ {i}
  /\ UNCHANGED <<orphans, outcome, given>>

Orphan ==
  /\ outcome = "running"
  /\ \E i \in live : orphans' = orphans \cup {i}
  /\ UNCHANGED <<live, outcome, given>>

OnePerPlatform(S) == \A p \in Platforms : \E i \in S : S \cap ({p} \X Serials) = {i}

Succeed ==
  /\ outcome = "running"
  /\ outcome' = "all"
  /\ \E S \in SUBSET live :
       /\ OnePerPlatform(S)
       /\ live \ S \subseteq orphans
       /\ given' = S
  /\ UNCHANGED <<live, orphans>>

Fail ==
  /\ outcome = "running"
  /\ outcome' = "none"
  /\ live \subseteq orphans
  /\ UNCHANGED <<live, orphans, given>>

Next == Appear \/ Disappear \/ Orphan \/ Succeed \/ Fail

Spec == Init /\ [][Next]_<<live, orphans, outcome, given>>
=============================================================================
