---------------------------- MODULE VersionCache ----------------------------
(***************************************************************************)
(* resolveMattermostServerVersion: the latest release of the server, read  *)
(* from GitHub outside the lock and kept for an hour.  Versions are        *)
(* numbered in the order of their precedence; 0 is "master", and 0 in the  *)
(* cache is an empty cache.  E2EServerVersion is "latest": with any other  *)
(* value there is no state.  src/server/version.go.                        *)
(***************************************************************************)
EXTENDS Naturals

CONSTANTS
  Resolvers,  \* goroutines that resolve the version
  MaxReleases \* bound

ASSUME ReleasesAssumption == MaxReleases \in Nat

VARIABLES
  released, \* GitHub: the highest release that is no draft, alpha or beta
  cache,    \* e2eVersionCache
  fresh,    \* e2eVersionCacheTime is less than an hour ago
  stage,    \* of a resolver: out, asked, read
  got,      \* the version it has read
  version,  \* the version its last call returned
  atStart   \* history: the cache when that call began

cacheVars == <<released, cache, fresh, stage, got, version, atStart>>

Versions == 0..MaxReleases

CacheTypeOK ==
  /\ released \in Versions /\ cache \in Versions /\ fresh \in BOOLEAN
  /\ stage \in [Resolvers -> {"out", "asked", "read"}]
  /\ got \in [Resolvers -> Versions]
  /\ version \in [Resolvers -> Versions]
  /\ atStart \in [Resolvers -> Versions]

CacheInit ==
  /\ released \in Versions
  /\ cache = 0
  /\ fresh = FALSE
  /\ stage = [r \in Resolvers |-> "out"]
  /\ got = [r \in Resolvers |-> 0]
  /\ version = [r \in Resolvers |-> 0]
  /\ atStart = [r \in Resolvers |-> 0]

Hit == cache # 0 /\ fresh

Return(r, v) ==
  /\ stage' = [stage EXCEPT ![r] = "out"]
  /\ version' = [version EXCEPT ![r] = v]
  /\ got' = [got EXCEPT ![r] = 0]
  /\ atStart' = [atStart EXCEPT ![r] = 0]

(* A call that is answered from the cache, under the lock.                 *)
ReturnCached(r) ==
  /\ stage[r] = "out"
  /\ Hit
  /\ Return(r, cache)
  /\ UNCHANGED <<released, cache, fresh>>

(* A call that is not: it asks for the pages of the list.                  *)
AskReleases(r) ==
  /\ stage[r] = "out"
  /\ ~Hit
  /\ stage' = [stage EXCEPT ![r] = "asked"]
  /\ version' = [version EXCEPT ![r] = 0]
  /\ atStart' = [atStart EXCEPT ![r] = cache]
  /\ UNCHANGED <<released, cache, fresh, got>>

ReadReleases(r) ==
  /\ stage[r] = "asked"
  /\ released # 0
  /\ stage' = [stage EXCEPT ![r] = "read"]
  /\ got' = [got EXCEPT ![r] = released]
  /\ UNCHANGED <<released, cache, fresh, version, atStart>>

(* Mutant: after a failure the cached version is of no use. *)
FallBackMaster(r) ==
  /\ stage[r] = "asked"
  /\ Return(r, 0)
  /\ UNCHANGED <<released, cache, fresh>>

(* cachedVersionOrMaster: an error, ten seconds, or no release at all.     *)
FallBack(r) ==
  /\ stage[r] = "asked"
  /\ Return(r, cache)
  /\ UNCHANGED <<released, cache, fresh>>

(* Another resolver may have kept a later list by now; it is overwritten.  *)
KeepVersion(r) ==
  /\ stage[r] = "read"
  /\ Return(r, got[r])
  /\ cache' = got[r]
  /\ fresh' = TRUE
  /\ UNCHANGED released

Returns(r) == ReturnCached(r) \/ FallBack(r) \/ KeepVersion(r)
Asks(r) == AskReleases(r) \/ ReadReleases(r)
-----------------------------------------------------------------------------
Release ==
  /\ released < MaxReleases
  /\ released' = released + 1
  /\ UNCHANGED <<cache, fresh, stage, got, version, atStart>>

(* An hour is longer than any call.                                        *)
CacheAges ==
  /\ fresh
  /\ \A r \in Resolvers : stage[r] = "out"
  /\ fresh' = FALSE
  /\ UNCHANGED <<released, cache, stage, got, version, atStart>>
=============================================================================
