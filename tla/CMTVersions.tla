---------------------------- MODULE CMTVersions ----------------------------
(***************************************************************************)
(* The server versions of a compatibility run as values: the order of      *)
(* versions, the two ways to shorten a list, and the lists derived from    *)
(* Mattermost's releases.  src/server/cmt_versions.go, cmt_releases.go.    *)
(*                                                                         *)
(* A version is what parseCMTVersion makes of a string: numbers, and rc =  *)
(* 0 for a stable one.  A string it cannot parse has ok = FALSE, and major *)
(* is then its rank among texts.  Prefix v and spaces are left out.        *)
(***************************************************************************)
EXTENDS Integers, Sequences, FiniteSets

Version == [ok : BOOLEAN, major : Nat, minor : Nat, patch : Nat, rc : Nat]
(* The empty string. *)
None == [ok |-> FALSE, major |-> 0, minor |-> 0, patch |-> 0, rc |-> 0]

maxCMTServerVersions == 5
maxMobileCMTServerVersions == 3
maxCMTESRLines == 2

(* A stable version is above every candidate of the same patch.            *)
Less(a, b) ==
  \/ a.major < b.major
  \/ /\ a.major = b.major
     /\ \/ a.minor < b.minor
        \/ /\ a.minor = b.minor
           /\ \/ a.patch < b.patch
              \/ a.patch = b.patch /\ a.rc # 0 /\ (b.rc = 0 \/ a.rc < b.rc)

(* The order capCMTServerVersions sorts by: what does not parse comes first.*)
ListLess(a, b) ==
  IF a.ok # b.ok THEN ~a.ok
  ELSE IF ~a.ok THEN a.major < b.major ELSE Less(a, b)

Newest(S) == CHOOSE v \in S : \A w \in S : ~Less(v, w)
NewestOf(n, S) == {v \in S : Cardinality({w \in S : Less(v, w)}) < n}
Oldest(S) == CHOOSE v \in S : \A w \in S : ~Less(w, v)

Elements(s) == {s[i] : i \in DOMAIN s}
(* The entries of s at the places of I, in their order.                    *)
EntriesAt(s, I) ==
  [k \in 1..Cardinality(I) |-> s[CHOOSE i \in I : Cardinality({j \in I : j < i}) = k - 1]]
Parseable(s) == EntriesAt(s, {i \in DOMAIN s : s[i].ok})

(* The places that come before place i when s is sorted.                   *)
Before(s, i) ==
  {j \in DOMAIN s : ListLess(s[j], s[i]) \/ (j < i /\ ~ListLess(s[i], s[j]))}
Sorted(s) == [k \in DOMAIN s |-> s[CHOOSE i \in DOMAIN s : Cardinality(Before(s, i)) = k - 1]]
Ascending(S) ==
  [k \in 1..Cardinality(S) |-> CHOOSE v \in S : Cardinality({w \in S : Less(w, v)}) = k - 1]
-----------------------------------------------------------------------------
VersionCap(type) ==
  IF type = "mobile" THEN maxMobileCMTServerVersions ELSE maxCMTServerVersions

CapVersions(s, limit) ==
  IF Len(s) <= limit THEN s
  ELSE SubSeq(Sorted(s), Len(s) - limit + 1, Len(s))

(* Mutant: the step is rounded over the number of entries. *)
SpanIndexShort(i, last, limit) == (i * last + (limit - 1) \div 2) \div limit

(* Entry i of limit, both counted from 0, of a sorted list 0..last.        *)
SpanIndex(i, last, limit) == (i * last + (limit - 1) \div 2) \div (limit - 1)

SpanVersions(s, limit) ==
  LET p == Parseable(s)
      picks == {SpanIndex(i, Len(p) - 1, limit) : i \in 0..(limit - 1)}
  IN  IF Len(s) <= limit THEN s
      ELSE IF p = <<>> THEN CapVersions(s, limit)
      ELSE IF Len(p) <= limit THEN p
      ELSE IF limit = 1 THEN <<Sorted(p)[Len(p)]>>
      ELSE EntriesAt(Sorted(p), {x + 1 : x \in picks})

(* cmtLatestServerVersion: the highest that parses, else the last entry.   *)
LatestVersion(s) ==
  LET P == {v \in Elements(s) : v.ok}
  IN  IF P # {} THEN Newest(P) ELSE IF s = <<>> THEN None ELSE s[Len(s)]
-----------------------------------------------------------------------------
(* fetchCMTReleaseSet.  A release is [v, draft, prerelease, esr, published,*)
(* sha]; published is 0 when it is unknown, and known is the set of those  *)
(* releases whose commit could be resolved.                                *)
Minor(v) == <<v.major, v.minor>>
Patch(v) == <<v.major, v.minor, v.patch>>

Counted(R) == {r \in R : ~r.draft /\ r.v.ok}
RCChannel(R) == {r \in Counted(R) : r.prerelease \/ r.v.rc > 0}
General(R) == Counted(R) \ RCChannel(R)

LatestStable(R) ==
  LET G == {r.v : r \in General(R)}
  IN  {v \in G : \A w \in G : Minor(w) = Minor(v) => ~Less(v, w)}

ESRLines(R) == {Minor(r.v) : r \in {q \in General(R) : q.esr}}

(* The tags of one patch that compete as its bare version and as -rcN.     *)
SamePatch(R, r) == {q \in RCChannel(R) : Patch(q.v) = Patch(r.v)}
Contested(R) ==
  {r \in RCChannel(R) : \E p, q \in SamePatch(R, r) : p.v.rc = 0 /\ q.v.rc > 0}

(* Mutant: the commits are not compared. *)
PickTagByDate(T, known) ==
  LET bare == CHOOSE t \in T : t.v.rc = 0
      rcN  == {t \in T : t.v.rc > 0}
      best == CHOOSE t \in rcN : \A u \in rcN : ~Less(t.v, u.v)
  IN  IF rcN = {} THEN bare.v
      ELSE IF rcN = T THEN best.v
      ELSE IF best.published # 0 /\ bare.published > best.published THEN bare.v
      ELSE best.v

(* pickSamePatchRCChannel: the same commit means the bare tag promotes the *)
(* candidate; otherwise the later publication, and in doubt the candidate. *)
PickTag(T, known) ==
  LET bare == CHOOSE t \in T : t.v.rc = 0
      rcN  == {t \in T : t.v.rc > 0}
      best == CHOOSE t \in rcN : \A u \in rcN : ~Less(t.v, u.v)
      same == {bare, best} \subseteq known /\ bare.sha = best.sha
      later == best.published # 0 /\ bare.published > best.published
  IN  IF rcN = {} THEN bare.v
      ELSE IF rcN = T THEN best.v
      ELSE IF same \/ later THEN bare.v ELSE best.v

Candidates(R, known) == {PickTag(SamePatch(R, r), known) : r \in RCChannel(R)}

(* Mutant: the candidate waits for a free place. *)
RCSlotNeedsRoom(R, known) ==
  LET C == Candidates(R, known)
  IN  IF C # {} /\ Cardinality(LatestStable(R)) < 3 THEN {Newest(C)} ELSE {}

(* Mutant: every patch of the channel has its candidate tested. *)
RCSlotAll(R, known) ==
  {c \in Candidates(R, known) : Less(Newest(LatestStable(R)), c)}

(* The candidate gets a place of its own if it is above every stable one.  *)
RCSlot(R, known) ==
  LET C == Candidates(R, known)
  IN  IF C # {} /\ Less(Newest(LatestStable(R)), Newest(C)) THEN {Newest(C)} ELSE {}
-----------------------------------------------------------------------------
(* Mutant: the oldest goes, whatever it is. *)
DropOneOldest(S, kept) == S \ {Oldest(S)}

DropOne(S, kept) ==
  LET plain == {v \in S : v.rc # 0 \/ Minor(v) \notin kept}
  IN  S \ {Oldest(IF plain = {} THEN S ELSE plain)}

(* capCMTVersionsPreferringESR *)
CapPreferringESR(S, kept, maxN) ==
  LET after[n \in 0..Cardinality(S)] == IF n = 0 THEN S ELSE DropOne(after[n - 1], kept)
  IN  after[IF Cardinality(S) > maxN THEN Cardinality(S) - maxN ELSE 0]

(* resolveCMTServerVersions *)
DesktopVersions(R, known) ==
  LET stable == LatestStable(R)
      esr == NewestOf(maxCMTESRLines, {v \in stable : Minor(v) \in ESRLines(R)})
      chosen == NewestOf(3, stable) \cup esr \cup RCSlot(R, known)
  IN  Ascending(CapPreferringESR(chosen, {Minor(v) : v \in esr}, maxCMTServerVersions))

(* resolveMobileCMTServerVersions: the newest ESR, the newest other stable *)
(* one, the candidate, and the newest of the rest while there is room.     *)
MobileVersions(R, known) ==
  LET stable == LatestStable(R)
      esr == {v \in stable : Minor(v) \in ESRLines(R)}
      first == NewestOf(1, esr) \cup NewestOf(1, stable \ esr) \cup RCSlot(R, known)
      room == maxMobileCMTServerVersions - Cardinality(first)
  IN  Ascending(NewestOf(maxMobileCMTServerVersions,
                         first \cup NewestOf(room, stable \ first)))
=============================================================================
