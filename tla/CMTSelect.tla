----------------------------- MODULE CMTSelect -----------------------------
(***************************************************************************)
(* Which versions a compatibility run tests: the configured list, or the   *)
(* list derived from Mattermost's releases, then the cap.                  *)
(* cmtServerVersions and fetchCMTReleaseSet of src/server/cmt_versions.go  *)
(* and cmt_releases.go, and the cap of handleCMTWithServerVersions.        *)
(***************************************************************************)
EXTENDS CMTVersions

CONSTANTS
  Releases,     \* what GitHub may list, as sets of releases
  ConfigLists,  \* Config.CMTServerVersions, <<>> if it is not set
  DefaultList   \* defaultCMTServerVersions

ASSUME ConfigAssumption ==
  ConfigLists \subseteq Seq(Version) /\ DefaultList \in Seq(Version) \ {<<>>}
(* A tag names one release, and so does a version.                         *)
ASSUME ReleasesAssumption ==
  \A R \in Releases :
    /\ IsFiniteSet(R)
    /\ \A r \in R : r.v \in Version
    /\ \A r, q \in R : r.v = q.v => r = q

VARIABLES
  instanceType,  \* "desktop" or "mobile"
  config, releases,
  known,         \* releases whose commit has been resolved
  phase,
  versions       \* the list so far

selectVars == <<instanceType, config, releases, known, phase, versions>>

SelectInit ==
  /\ instanceType \in {"desktop", "mobile"}
  /\ config \in ConfigLists
  /\ releases = {}
  /\ known = {}
  /\ phase = "start"
  /\ versions = <<>>

UseConfig ==
  /\ phase = "start"
  /\ config # <<>>
  /\ versions' = config
  /\ phase' = "chosen"
  /\ UNCHANGED <<instanceType, config, releases, known>>

(* All pages of the list; any page that fails makes it fail.               *)
ListReleases ==
  /\ phase = "start"
  /\ config = <<>>
  /\ releases' \in Releases
  /\ phase' = "listed"
  /\ UNCHANGED <<instanceType, config, known, versions>>

ListFails ==
  /\ phase = "start"
  /\ config = <<>>
  /\ versions' = DefaultList
  /\ phase' = "chosen"
  /\ UNCHANGED <<instanceType, config, releases, known>>

(* Commits are resolved where a patch has a bare tag and a -rcN tag; one   *)
(* that cannot be had within the deadline is done without.                 *)
ResolveCommits ==
  /\ phase = "listed"
  /\ known' \in SUBSET Contested(releases)
  /\ phase' = "classified"
  /\ UNCHANGED <<instanceType, config, releases, versions>>

Choose ==
  /\ phase = "classified"
  /\ versions' = IF LatestStable(releases) = {} THEN DefaultList
                 ELSE IF instanceType = "mobile" THEN MobileVersions(releases, known)
                 ELSE DesktopVersions(releases, known)
  /\ phase' = "chosen"
  /\ UNCHANGED <<instanceType, config, releases, known>>

Cap ==
  /\ phase = "chosen"
  /\ versions' = IF instanceType = "mobile" THEN SpanVersions(versions, VersionCap(instanceType))
                 ELSE CapVersions(versions, VersionCap(instanceType))
  /\ phase' = "capped"
  /\ UNCHANGED <<instanceType, config, releases, known>>

SelectNext == UseConfig \/ ListReleases \/ ListFails \/ ResolveCommits \/ Choose \/ Cap

SelectSpec == SelectInit /\ [][SelectNext]_selectVars
-----------------------------------------------------------------------------
(* Properties.                                                             *)

Derived == phase = "capped" /\ LatestStable(releases) # {}

(* Whatever the releases are, a derived list has the newest stable version *)
(* and the newest extended-support one, the cap never takes them, it is in *)
(* order, and nothing in it is a draft or has no release.                  *)
AnchorsKept ==
  Derived =>
    LET stable == LatestStable(releases)
        esr == {v \in stable : Minor(v) \in ESRLines(releases)}
    IN  /\ NewestOf(1, stable) \cup NewestOf(1, esr) \subseteq Elements(versions)
        /\ instanceType = "desktop" => NewestOf(2, esr) \subseteq Elements(versions)
        /\ \A i, j \in DOMAIN versions : i < j => Less(versions[i], versions[j])
        /\ \A v \in Elements(versions) : \E r \in releases : r.v = v /\ ~r.draft

(* No two stable versions of one minor are tested, and a stable version is *)
(* one that is released: what GitHub marks as a prerelease gets the        *)
(* candidate's place only, once, and only above the newest stable one.     *)
OneCandidate ==
  Derived =>
    LET pre == {v \in Elements(versions) :
                  \E r \in releases : r.v = v /\ (r.prerelease \/ v.rc > 0)}
    IN  /\ Cardinality(pre) <= 1
        /\ \A v \in pre, w \in Elements(versions) \ pre : Less(w, v)
        /\ \A v, w \in Elements(versions) \ pre : Minor(v) = Minor(w) => v = w

(* The tag is of the newest patch there is, and above every stable version.*)
Ahead(r) ==
  /\ \A q \in Counted(releases) : q.v = r.v \/ Less(q.v, r.v) \/ Patch(q.v) = Patch(r.v)
  /\ Less(Newest(LatestStable(releases)), r.v)

(* A candidate is never left out for lack of room: when the newest tag of  *)
(* the candidates' channel is above every stable version, a version of its *)
(* patch is tested.                                                        *)
CandidateTested ==
  Derived =>
    \A r \in RCChannel(releases) :
      Ahead(r) => \E v \in Elements(versions) : Patch(v) = Patch(r.v)

(* A bare tag on the commit of its last candidate is the same server under *)
(* its final name (cmt_releases.go:100).  If both commits could be had, it *)
(* is the only version of its patch that may be tested, no candidate is,   *)
(* and it is tested when the patch is the newest, above all stable ones.   *)
PromotedTagWins ==
  Derived =>
    \A b, c \in Contested(releases) :
      /\ Patch(b.v) = Patch(c.v) /\ b.v.rc = 0 /\ c.v.rc > 0
      /\ \A q \in SamePatch(releases, b) : q = b \/ q = c \/ Less(q.v, c.v)
      /\ b.sha = c.sha /\ {b, c} \subseteq known
      => /\ \A v \in Elements(versions) : Patch(v) = Patch(b.v) => v = b.v
         /\ Ahead(b) => b.v \in Elements(versions)

(* No list, configured or derived, is longer than the cap or empty.  A     *)
(* configured list that is too long loses neither end on mobile, and on    *)
(* desktop only its oldest; what does not parse goes first.                *)
CapKeepsEnds ==
  phase = "capped" =>
    LET P == {v \in Elements(config) : v.ok}
        T == Elements(versions)
    IN  /\ Len(versions) \in 1..VersionCap(instanceType)
        /\ P # {} => Newest(P) \in T
        /\ Len(config) > VersionCap(instanceType) =>
             /\ instanceType = "mobile" /\ P # {} => Oldest(P) \in T /\ T \subseteq P
             /\ instanceType = "desktop" =>
                  \A v \in Elements(config) \ T, w \in T : ~ListLess(w, v)
=============================================================================
