-------------------------- MODULE CMTSelect_proofs --------------------------
(***************************************************************************)
(* Proofs about the versions of a compatibility run, for any releases and  *)
(* any configured list: the order of versions, what the list operators     *)
(* return, and what the list derived from them holds.                      *)
(***************************************************************************)
EXTENDS CMTSelect, FiniteSetTheorems, WellFoundedInduction, TLAPS

Numbers(v) == v.major \in Nat /\ v.minor \in Nat /\ v.patch \in Nat /\ v.rc \in Nat

(* cmtVersion.less on versions that parse is a strict order, and two       *)
(* versions it does not tell apart have the same numbers: a sort by it has *)
(* one result, and the highest is unique.                                  *)
THEOREM LessIsTotalOrder ==
  ASSUME NEW a, NEW b, NEW c, Numbers(a), Numbers(b), Numbers(c)
  PROVE  /\ ~Less(a, a)
         /\ Less(a, b) /\ Less(b, c) => Less(a, c)
         /\ \/ Less(a, b) \/ Less(b, a)
            \/ Patch(a) = Patch(b) /\ a.rc = b.rc
<1> USE DEF Numbers, Less
<1>1. ~Less(a, a)
  OBVIOUS
<1>2. ASSUME Less(a, b), Less(b, c) PROVE Less(a, c)
  BY <1>2
<1>3. Less(a, b) \/ Less(b, a) \/ (Patch(a) = Patch(b) /\ a.rc = b.rc)
  BY DEF Patch
<1>4. QED
  BY <1>1, <1>2, <1>3

(* A candidate is below the stable version of its patch, and nothing but   *)
(* later candidates of the patch is in between.                            *)
THEOREM StableAboveCandidates ==
  ASSUME NEW a, NEW b, NEW c, Numbers(a), Numbers(b), Numbers(c),
         Patch(a) = Patch(b), a.rc # 0, b.rc = 0
  PROVE  /\ Less(a, b)
         /\ Less(a, c) /\ Less(c, b) => Patch(c) = Patch(a) /\ c.rc > a.rc
<1>1. a.major = b.major /\ a.minor = b.minor /\ a.patch = b.patch
  BY DEF Patch
<1>2. Less(a, b)
  BY <1>1 DEF Less
<1>3. ASSUME Less(a, c), Less(c, b) PROVE Patch(c) = Patch(a) /\ c.rc > a.rc
  <2>1. c.major = a.major /\ c.minor = a.minor /\ c.patch = a.patch /\ c.rc > a.rc
    BY <1>1, <1>3 DEF Less, Numbers
  <2>2. QED
    BY <2>1 DEF Patch
<1>4. QED
  BY <1>2, <1>3

(* spanCMTServerVersions on mobile: of any list longer than the cap the    *)
(* three picks are different, in order, in range, and are the two ends and *)
(* one in between.                                                         *)
THEOREM SpanKeepsEnds ==
  ASSUME NEW last \in Nat, last >= maxMobileCMTServerVersions
  PROVE  LET pick(i) == SpanIndex(i, last, maxMobileCMTServerVersions)
         IN  pick(0) = 0 /\ 0 < pick(1) /\ pick(1) < pick(2) /\ pick(2) = last
  BY DEF SpanIndex, maxMobileCMTServerVersions
-----------------------------------------------------------------------------
(* Finite sets and orders.  R is a set of pairs.                           *)
StrictOrder(R, S) ==
  /\ \A a \in S : <<a, a>> \notin R
  /\ \A a, b, c \in S : <<a, b>> \in R /\ <<b, c>> \in R => <<a, c>> \in R
Total(R, S) == \A a, b \in S : <<a, b>> \in R \/ <<b, a>> \in R \/ a = b

(* Induction on finite sets: a nonempty set of subsets has a least one.    *)
LEMMA MinimalSubset ==
  ASSUME NEW S, IsFiniteSet(S), NEW B, B \subseteq SUBSET S, B # {}
  PROVE  \E U \in B : \A T \in B : T \subseteq U => T = U
<1>1. IsWellFoundedOn(StrictSubsetOrdering(S), SUBSET S)
  BY FS_StrictSubsetOrderingWellFounded, FS_FiniteSubsetsOfFinite
<1>2. PICK U \in B : \A T \in B : ~(<<T, U>> \in StrictSubsetOrdering(S))
  BY <1>1, WFMin
<1>3. \A T \in B : <<T, U>> \in (SUBSET S) \X (SUBSET S)
  OBVIOUS
<1>4. QED
  BY <1>2, <1>3 DEF StrictSubsetOrdering

LEMMA MaximalExists ==
  ASSUME NEW S, IsFiniteSet(S), S # {}, NEW R, StrictOrder(R, S)
  PROVE  \E x \in S : \A y \in S : <<x, y>> \notin R
<1> DEFINE Top(U) == \E x \in U : \A y \in U : <<x, y>> \notin R
           B == {U \in SUBSET S : U # {} /\ ~Top(U)}
<1> SUFFICES ASSUME ~Top(S) PROVE FALSE
  OBVIOUS
<1>1. B \subseteq SUBSET S /\ B # {}
  <2>1. S \in B
    OBVIOUS
  <2>2. QED
    BY <2>1
<1>2. PICK U \in B : \A T \in B : T \subseteq U => T = U
  <2> HIDE DEF B
  <2>1. QED
    BY <1>1, MinimalSubset
<1>3. PICK x : x \in U
  OBVIOUS
<1>4. U \subseteq S /\ U \ {x} \notin B
  BY <1>2, <1>3
<1>5. CASE U \ {x} = {}
  BY <1>3, <1>4, <1>5 DEF StrictOrder
<1>6. CASE U \ {x} # {}
  <2>1. PICK m \in U \ {x} : \A y \in U \ {x} : <<m, y>> \notin R
    BY <1>4, <1>6
  <2>2. CASE <<m, x>> \notin R
    BY <2>1, <2>2
  <2>3. CASE <<m, x>> \in R
    <3>1. \A y \in U : <<x, y>> \notin R
      BY <1>3, <1>4, <2>1, <2>3 DEF StrictOrder
    <3>2. QED
      BY <1>3, <3>1
  <2>4. QED
    BY <2>2, <2>3
<1>7. QED
  BY <1>5, <1>6

(* The rank of an element counts what is below it.                         *)
Rank(R, S, v) == Cardinality({w \in S : <<w, v>> \in R})

LEMMA RankBijection ==
  ASSUME NEW S, IsFiniteSet(S), NEW R, StrictOrder(R, S), Total(R, S)
  PROVE  /\ \A v \in S : Rank(R, S, v) \in 0..(Cardinality(S) - 1)
         /\ \A v, w \in S : <<v, w>> \in R <=> Rank(R, S, v) < Rank(R, S, w)
         /\ \A v, w \in S : Rank(R, S, v) = Rank(R, S, w) => v = w
         /\ \A k \in 1..Cardinality(S) : \E v \in S : Rank(R, S, v) = k - 1
<1> DEFINE Below(v) == {w \in S : <<w, v>> \in R}
           N == Cardinality(S)
<1>1. N \in Nat
  BY FS_CardinalityType
<1>2. \A v \in S : /\ IsFiniteSet(Below(v)) /\ Cardinality(Below(v)) \in Nat
                   /\ Cardinality(Below(v)) < N
  <2> TAKE v \in S
  <2>1. Below(v) \subseteq S /\ Below(v) # S
    BY DEF StrictOrder
  <2> HIDE DEF Below
  <2>2. QED
    BY <1>1, <2>1, FS_Subset, FS_CardinalityType
<1>3. ASSUME NEW v \in S, NEW w \in S, <<v, w>> \in R
      PROVE  Cardinality(Below(v)) < Cardinality(Below(w))
  <2>1. Below(v) \subseteq Below(w) /\ v \in Below(w) /\ v \notin Below(v)
    BY <1>3 DEF StrictOrder
  <2>2. IsFiniteSet(Below(w)) /\ Cardinality(Below(v)) \in Nat /\ Cardinality(Below(w)) \in Nat
    BY <1>2
  <2>3. Below(v) \subseteq Below(w) /\ Below(v) # Below(w)
    BY <2>1
  <2> HIDE DEF Below
  <2>4. QED
    BY <2>2, <2>3, FS_Subset
<1>4. \A v \in S : Rank(R, S, v) \in 0..(N - 1)
  BY <1>1, <1>2 DEF Rank
<1>5. \A v, w \in S : <<v, w>> \in R => Rank(R, S, v) < Rank(R, S, w)
  BY <1>3 DEF Rank
<1>t. \A v \in S : Rank(R, S, v) \in Int
  BY <1>1, <1>4
<1>6. ASSUME NEW v \in S, NEW w \in S, ~(<<v, w>> \in R)
      PROVE  v = w \/ Rank(R, S, w) < Rank(R, S, v)
  <2>1. <<w, v>> \in R \/ v = w
    BY <1>6 DEF Total
  <2>2. QED
    BY <2>1, <1>5
<1>7. /\ \A v, w \in S : Rank(R, S, v) < Rank(R, S, w) => <<v, w>> \in R
      /\ \A v, w \in S : Rank(R, S, v) = Rank(R, S, w) => v = w
  <2> SUFFICES ASSUME NEW v \in S, NEW w \in S
               PROVE  /\ Rank(R, S, v) < Rank(R, S, w) => <<v, w>> \in R
                      /\ Rank(R, S, v) = Rank(R, S, w) => v = w
    OBVIOUS
  <2>1. Rank(R, S, v) \in Int /\ Rank(R, S, w) \in Int
    BY <1>t
  <2>2. CASE <<v, w>> \in R
    <3>1. Rank(R, S, v) < Rank(R, S, w)
      BY <1>5, <2>2
    <3>2. QED
      BY <2>1, <2>2, <3>1
  <2>3. CASE ~(<<v, w>> \in R)
    <3>1. v = w \/ Rank(R, S, w) < Rank(R, S, v)
      BY <1>6, <2>3
    <3>2. QED
      BY <2>1, <3>1
  <2>4. QED
    BY <2>2, <2>3
<1>8. \A k \in 1..N : \E v \in S : Rank(R, S, v) = k - 1
  <2> DEFINE f == [v \in S |-> Rank(R, S, v) + 1]
  <2>1. f \in [S -> 1..N]
    BY <1>1, <1>4
  <2>2. f \in Injection(S, 1..N)
    BY <1>4, <1>7, <2>1 DEF Injection, IsInjective
  <2>3. IsFiniteSet(1..N) /\ Cardinality(1..N) = N
    BY <1>1, FS_Interval
  <2>4. f \in Surjection(S, 1..N)
    BY <2>2, <2>3, FS_Injection
  <2>5. \A k \in 1..N : \E v \in S : f[v] = k
    BY <2>4 DEF Surjection
  <2>6. QED
    BY <1>4, <2>5
<1>9. QED
  BY <1>4, <1>5, <1>7, <1>8
-----------------------------------------------------------------------------
(* What the list operators return.                                         *)
LEMMA EntriesAtFacts ==
  ASSUME NEW T, NEW s \in Seq(T), NEW I, I \subseteq DOMAIN s
  PROVE  /\ IsFiniteSet(I) /\ Cardinality(I) \in Nat
         /\ EntriesAt(s, I) \in Seq(T) /\ Len(EntriesAt(s, I)) = Cardinality(I)
         /\ Elements(EntriesAt(s, I)) = {s[i] : i \in I}
         /\ \A k, l \in 1..Cardinality(I) : k < l =>
              \E i, j \in I : i < j /\ EntriesAt(s, I)[k] = s[i] /\ EntriesAt(s, I)[l] = s[j]
<1> DEFINE R == {p \in I \X I : p[1] < p[2]}
           n == Cardinality(I)
           at(k) == CHOOSE i \in I : Cardinality({j \in I : j < i}) = k - 1
<1>1. DOMAIN s = 1..Len(s) /\ Len(s) \in Nat /\ \A i \in DOMAIN s : s[i] \in T
  OBVIOUS
<1>2. IsFiniteSet(I)
  <2>1. IsFiniteSet(1..Len(s))
    BY <1>1, FS_Interval
  <2>2. QED
    BY <1>1, <2>1, FS_Subset
<1>3. n \in Nat
  BY <1>2, FS_CardinalityType
<1>4. \A i \in I : i \in Int
  BY <1>1
<1>5. StrictOrder(R, I) /\ Total(R, I)
  BY <1>4 DEF StrictOrder, Total
<1>6. \A i \in I : Rank(R, I, i) = Cardinality({j \in I : j < i})
  <2> TAKE i \in I
  <2>1. {w \in I : <<w, i>> \in R} = {j \in I : j < i}
    OBVIOUS
  <2>2. QED
    BY <2>1 DEF Rank
<1>7. /\ \A v, w \in I : <<v, w>> \in R <=> Rank(R, I, v) < Rank(R, I, w)
      /\ \A k \in 1..n : \E i \in I : Rank(R, I, i) = k - 1
      /\ \A i \in I : Rank(R, I, i) \in 0..(n - 1)
      /\ \A v, w \in I : Rank(R, I, v) = Rank(R, I, w) => v = w
  <2> HIDE DEF R
  <2>1. QED
    BY <1>2, <1>5, RankBijection
<1>8. \A k \in 1..n : at(k) \in I /\ Rank(R, I, at(k)) = k - 1
  <2> TAKE k \in 1..n
  <2>1. \E i \in I : Cardinality({j \in I : j < i}) = k - 1
    BY <1>6, <1>7
  <2>2. at(k) \in I /\ Cardinality({j \in I : j < at(k)}) = k - 1
    BY <2>1
  <2>3. QED
    BY <1>6, <2>2
<1>9. EntriesAt(s, I) = [k \in 1..n |-> s[at(k)]]
  BY DEF EntriesAt
<1> HIDE DEF at, n
<1>10. EntriesAt(s, I) \in Seq(T) /\ Len(EntriesAt(s, I)) = n
  <2>1. \A k \in 1..n : s[at(k)] \in T
    BY <1>1, <1>8
  <2>2. QED
    BY <1>3, <1>9, <2>1
<1>11. Elements(EntriesAt(s, I)) = {s[i] : i \in I}
  <2>1. DOMAIN EntriesAt(s, I) = 1..n
    BY <1>9
  <2>2. \A i \in I : \E k \in 1..n : at(k) = i
    <3> TAKE i \in I
    <3>1. Rank(R, I, i) + 1 \in 1..n /\ Rank(R, I, i) \in Int
      BY <1>3, <1>7
    <3>2. at(Rank(R, I, i) + 1) = i
      <4>1. PICK k \in 1..n : k = Rank(R, I, i) + 1
        BY <3>1
      <4>2. Rank(R, I, at(k)) = Rank(R, I, i)
        BY <1>8, <3>1, <4>1
      <4>3. QED
        BY <1>7, <1>8, <4>1, <4>2
    <3>3. QED
      BY <3>1, <3>2
  <2>3. \A k \in 1..n : EntriesAt(s, I)[k] = s[at(k)]
    BY <1>9
  <2>4. Elements(EntriesAt(s, I)) = {EntriesAt(s, I)[k] : k \in 1..n}
    BY <2>1 DEF Elements
  <2>5. \A x : x \in Elements(EntriesAt(s, I)) <=> \E k \in 1..n : x = s[at(k)]
    BY <2>3, <2>4
  <2>6. QED
    BY <1>8, <2>2, <2>5
<1>12. ASSUME NEW k \in 1..n, NEW l \in 1..n, k < l
       PROVE  at(k) < at(l) /\ EntriesAt(s, I)[k] = s[at(k)] /\ EntriesAt(s, I)[l] = s[at(l)]
  <2>1. <<at(k), at(l)>> \in R
    <3> HIDE DEF R
    <3>1. Rank(R, I, at(k)) < Rank(R, I, at(l))
      BY <1>8, <1>12
    <3>2. QED
      BY <1>7, <1>8, <3>1
  <2>2. QED
    BY <1>9, <2>1
<1>13. QED
  BY <1>2, <1>3, <1>8, <1>10, <1>11, <1>12 DEF n
(* Versions that parse, and any two of them that have the same numbers.    *)
LEMMA VersionFacts ==
  /\ \A v \in Version : Numbers(v) /\ v.ok \in BOOLEAN
  /\ \A v, w \in Version : v.ok /\ w.ok /\ Patch(v) = Patch(w) /\ v.rc = w.rc => v = w
<1>1. \A v \in Version : Numbers(v) /\ v.ok \in BOOLEAN
  BY DEF Version, Numbers
<1>2. ASSUME NEW v \in Version, NEW w \in Version,
             v.ok, w.ok, Patch(v) = Patch(w), v.rc = w.rc
      PROVE  v = w
  <2>1. v.major = w.major /\ v.minor = w.minor /\ v.patch = w.patch
    BY <1>2 DEF Patch
  <2>2. v.ok = w.ok
    BY <1>2 DEF Version
  <2>3. QED
    BY <1>2, <2>1, <2>2 DEF Version
<1>3. QED
  BY <1>1, <1>2

(* A set of versions of releases.                                          *)
Good(S) == IsFiniteSet(S) /\ S \subseteq {v \in Version : v.ok}
LessIn(S) == {p \in S \X S : Less(p[1], p[2])}
MoreIn(S) == {p \in S \X S : Less(p[2], p[1])}

LEMMA LessInIsOrder ==
  ASSUME NEW S, Good(S)
  PROVE  /\ StrictOrder(LessIn(S), S) /\ Total(LessIn(S), S)
         /\ StrictOrder(MoreIn(S), S) /\ Total(MoreIn(S), S)
<1>1. \A v \in S : Numbers(v) /\ v \in Version /\ v.ok
  BY VersionFacts DEF Good
<1>2. \A a, b, c \in S :
        /\ ~Less(a, a)
        /\ Less(a, b) /\ Less(b, c) => Less(a, c)
        /\ Less(a, b) \/ Less(b, a) \/ (Patch(a) = Patch(b) /\ a.rc = b.rc)
  BY <1>1, LessIsTotalOrder
<1>3. \A a, b \in S : Less(a, b) \/ Less(b, a) \/ a = b
  BY <1>1, <1>2, VersionFacts
<1>4. \A a, b \in S : /\ <<a, b>> \in LessIn(S) <=> Less(a, b)
                      /\ <<a, b>> \in MoreIn(S) <=> Less(b, a)
  BY DEF LessIn, MoreIn
<1>5. QED
  BY <1>2, <1>3, <1>4 DEF StrictOrder, Total

LEMMA LessFacts ==
  ASSUME NEW S, Good(S), NEW a \in S, NEW b \in S
  PROVE  /\ ~Less(a, a)
         /\ ~(Less(a, b) /\ Less(b, a))
         /\ Less(a, b) \/ Less(b, a) \/ a = b
         /\ \A c \in S : Less(a, b) /\ Less(b, c) => Less(a, c)
<1>1. \A x, y \in S : <<x, y>> \in LessIn(S) <=> Less(x, y)
  BY DEF LessIn
<1>2. QED
  BY <1>1, LessInIsOrder DEF StrictOrder, Total

LEMMA NewestFacts ==
  ASSUME NEW S, Good(S), S # {}
  PROVE  /\ Newest(S) \in S /\ \A w \in S : w = Newest(S) \/ Less(w, Newest(S))
         /\ Oldest(S) \in S /\ \A w \in S : w = Oldest(S) \/ Less(Oldest(S), w)
<1>1. \A x, y \in S : /\ <<x, y>> \in LessIn(S) <=> Less(x, y)
                      /\ <<x, y>> \in MoreIn(S) <=> Less(y, x)
  BY DEF LessIn, MoreIn
<1>2. IsFiniteSet(S)
  BY DEF Good
<1>3. \E v \in S : \A w \in S : ~Less(v, w)
  <2>1. \E v \in S : \A w \in S : <<v, w>> \notin LessIn(S)
    BY <1>2, LessInIsOrder, MaximalExists
  <2>2. QED
    BY <1>1, <2>1
<1>4. \E v \in S : \A w \in S : ~Less(w, v)
  <2>1. \E v \in S : \A w \in S : <<v, w>> \notin MoreIn(S)
    BY <1>2, LessInIsOrder, MaximalExists
  <2>2. QED
    BY <1>1, <2>1
<1>5. Newest(S) \in S /\ \A w \in S : ~Less(Newest(S), w)
  BY <1>3 DEF Newest
<1>6. Oldest(S) \in S /\ \A w \in S : ~Less(w, Oldest(S))
  BY <1>4 DEF Oldest
<1>7. QED
  BY <1>5, <1>6, LessFacts

LEMMA ListLessFacts ==
  ASSUME NEW a \in Version, NEW b \in Version, NEW c \in Version
  PROVE  /\ ~ListLess(a, a)
         /\ ~(ListLess(a, b) /\ ListLess(b, a))
         /\ ListLess(a, b) /\ ListLess(b, c) => ListLess(a, c)
         /\ ~ListLess(a, b) /\ ~ListLess(b, c) => ~ListLess(a, c)
<1>1. \A v \in {a, b, c} : Numbers(v) /\ v.ok \in BOOLEAN
  BY VersionFacts
<1>2. QED
  BY <1>1 DEF ListLess, Less, Numbers

LEMMA SortedFacts ==
  ASSUME NEW s \in Seq(Version)
  PROVE  /\ Sorted(s) \in Seq(Version) /\ Len(Sorted(s)) = Len(s)
         /\ Elements(Sorted(s)) = Elements(s)
         /\ \A k, l \in 1..Len(s) : k < l => ~ListLess(Sorted(s)[l], Sorted(s)[k])
<1> DEFINE I == DOMAIN s
           R == {p \in I \X I : p[1] \in Before(s, p[2])}
           n == Len(s)
           at(k) == CHOOSE i \in I : Cardinality(Before(s, i)) = k - 1
<1>1. I = 1..n /\ n \in Nat /\ \A i \in I : s[i] \in Version
  OBVIOUS
<1>2. IsFiniteSet(I) /\ Cardinality(I) = n
  BY <1>1, FS_Interval
<1>3. \A i, j \in I : <<j, i>> \in R <=>
        ListLess(s[j], s[i]) \/ (j < i /\ ~ListLess(s[i], s[j]))
  BY DEF Before
<1>4. StrictOrder(R, I) /\ Total(R, I)
  <2> HIDE DEF R
  <2>1. \A a, b, c \in I :
          /\ ~ListLess(s[a], s[a])
          /\ ~(ListLess(s[a], s[b]) /\ ListLess(s[b], s[a]))
          /\ ListLess(s[a], s[b]) /\ ListLess(s[b], s[c]) => ListLess(s[a], s[c])
          /\ ~ListLess(s[a], s[b]) /\ ~ListLess(s[b], s[c]) => ~ListLess(s[a], s[c])
    BY <1>1, ListLessFacts
  <2>2. \A i \in I : i \in Int
    BY <1>1
  <2>3. StrictOrder(R, I)
    BY <1>3, <2>1, <2>2 DEF StrictOrder
  <2>4. Total(R, I)
    <3> SUFFICES ASSUME NEW a \in I, NEW b \in I, a # b
                 PROVE  <<a, b>> \in R \/ <<b, a>> \in R
      BY DEF Total
    <3>1. a < b \/ b < a
      BY <2>2
    <3>2. QED
      BY <1>3, <2>1, <3>1
  <2>5. QED
    BY <2>3, <2>4
<1>5. \A i \in I : Rank(R, I, i) = Cardinality(Before(s, i))
  <2> TAKE i \in I
  <2>1. {w \in I : <<w, i>> \in R} = Before(s, i)
    BY DEF Before
  <2>2. QED
    BY <2>1 DEF Rank
<1>6. /\ \A v, w \in I : <<v, w>> \in R <=> Rank(R, I, v) < Rank(R, I, w)
      /\ \A k \in 1..n : \E i \in I : Rank(R, I, i) = k - 1
      /\ \A i \in I : Rank(R, I, i) \in 0..(n - 1)
      /\ \A v, w \in I : Rank(R, I, v) = Rank(R, I, w) => v = w
  <2> HIDE DEF R, I
  <2>1. QED
    BY <1>2, <1>4, RankBijection
<1>7. \A k \in 1..n : at(k) \in I /\ Rank(R, I, at(k)) = k - 1
  <2> HIDE DEF R, I
  <2> TAKE k \in 1..n
  <2>1. \E i \in I : Cardinality(Before(s, i)) = k - 1
    BY <1>5, <1>6
  <2>2. at(k) \in I /\ Cardinality(Before(s, at(k))) = k - 1
    BY <2>1
  <2>3. QED
    BY <1>5, <2>2
<1>8. Sorted(s) = [k \in 1..n |-> s[at(k)]]
  BY <1>1 DEF Sorted
<1> HIDE DEF at, n, R, I
<1>9. Sorted(s) \in Seq(Version) /\ Len(Sorted(s)) = n
  <2>1. \A k \in 1..n : s[at(k)] \in Version
    BY <1>1, <1>7
  <2>2. QED
    BY <1>1, <1>8, <2>1
<1>10. Elements(Sorted(s)) = Elements(s)
  <2>1. DOMAIN Sorted(s) = 1..n /\ \A k \in 1..n : Sorted(s)[k] = s[at(k)]
    BY <1>8
  <2>2. \A i \in I : \E k \in 1..n : at(k) = i
    <3> TAKE i \in I
    <3>1. PICK k \in 1..n : k = Rank(R, I, i) + 1
      BY <1>1, <1>6
    <3>2. Rank(R, I, at(k)) = Rank(R, I, i)
      <4>1. Rank(R, I, i) \in Int
        BY <1>1, <1>6
      <4>2. QED
        BY <1>7, <3>1, <4>1
    <3>3. QED
      BY <1>6, <1>7, <3>2
  <2>3. \A x : x \in Elements(Sorted(s)) <=> \E k \in 1..n : x = s[at(k)]
    BY <2>1 DEF Elements
  <2>4. \A x : x \in Elements(s) <=> \E i \in I : x = s[i]
    BY DEF Elements, I
  <2>5. QED
    BY <1>7, <2>2, <2>3, <2>4
<1>11. ASSUME NEW k \in 1..n, NEW l \in 1..n, k < l
       PROVE  ~ListLess(Sorted(s)[l], Sorted(s)[k])
  <2>1. Rank(R, I, at(k)) < Rank(R, I, at(l))
    BY <1>1, <1>7, <1>11
  <2>2. <<at(k), at(l)>> \in R
    BY <1>6, <1>7, <2>1
  <2>3. ~ListLess(s[at(l)], s[at(k)])
    BY <1>1, <1>3, <1>7, <2>2, ListLessFacts
  <2>4. QED
    BY <1>8, <2>3
<1>12. QED
  BY <1>9, <1>10, <1>11 DEF n
LEMMA NotEmpty ==
  ASSUME NEW s, Len(s) # 0
  PROVE  s # <<>>
<1>1. Len(<<>>) = 0
  OBVIOUS
<1>2. QED
  BY <1>1, Zenon

LEMMA IndicesFinite ==
  \A n \in Nat : IsFiniteSet(1..n) /\ Cardinality(1..n) = n
  BY FS_Interval

LEMMA ElementsFacts ==
  ASSUME NEW T, NEW s \in Seq(T)
  PROVE  /\ IsFiniteSet(Elements(s)) /\ Elements(s) \subseteq T
         /\ Cardinality(Elements(s)) <= Len(s)
         /\ s # <<>> => s[Len(s)] \in Elements(s)
<1>1. Len(s) \in Nat /\ DOMAIN s = 1..Len(s) /\ \A i \in 1..Len(s) : s[i] \in T
  OBVIOUS
<1>2. s \in Surjection(1..Len(s), Elements(s))
  <2>1. s = [i \in 1..Len(s) |-> s[i]]
    BY <1>1
  <2>2. \A i \in 1..Len(s) : s[i] \in Elements(s)
    BY <1>1 DEF Elements
  <2>3. \A x \in Elements(s) : \E i \in 1..Len(s) : s[i] = x
    BY <1>1 DEF Elements
  <2>4. QED
    BY <2>1, <2>2, <2>3 DEF Surjection
<1>3. IsFiniteSet(1..Len(s)) /\ Cardinality(1..Len(s)) = Len(s)
  BY <1>1, IndicesFinite
<1>4. IsFiniteSet(Elements(s)) /\ Cardinality(Elements(s)) <= Len(s)
  BY <1>2, <1>3, FS_Surjection
<1>5. s # <<>> => s[Len(s)] \in Elements(s)
  BY <1>1 DEF Elements
<1>6. QED
  BY <1>1, <1>4, <1>5 DEF Elements

LEMMA ParseableFacts ==
  ASSUME NEW s \in Seq(Version)
  PROVE  /\ Parseable(s) \in Seq(Version) /\ Len(Parseable(s)) <= Len(s)
         /\ Elements(Parseable(s)) = {v \in Elements(s) : v.ok}
         /\ Good({v \in Elements(s) : v.ok})
<1> DEFINE I == {i \in DOMAIN s : s[i].ok}
<1>1. DOMAIN s = 1..Len(s) /\ IsFiniteSet(1..Len(s)) /\ Cardinality(1..Len(s)) = Len(s)
  BY IndicesFinite
<1>2. Cardinality(I) <= Len(s)
  BY <1>1, FS_Subset
<1>3. /\ Parseable(s) \in Seq(Version) /\ Len(Parseable(s)) = Cardinality(I)
      /\ Elements(Parseable(s)) = {s[i] : i \in I}
  <2>1. I \subseteq DOMAIN s
    OBVIOUS
  <2> HIDE DEF I
  <2>2. QED
    BY <2>1, EntriesAtFacts DEF Parseable, I
<1>4. {s[i] : i \in I} = {v \in Elements(s) : v.ok}
  BY DEF Elements
<1>5. Good({v \in Elements(s) : v.ok})
  <2>1. IsFiniteSet(Elements(s)) /\ Elements(s) \subseteq Version
    BY ElementsFacts
  <2>2. IsFiniteSet({v \in Elements(s) : v.ok})
    BY <2>1, FS_Subset
  <2>3. QED
    BY <2>1, <2>2 DEF Good
<1>6. QED
  BY <1>2, <1>3, <1>4, <1>5

LEMMA CapFacts ==
  ASSUME NEW s \in Seq(Version), NEW limit \in Nat \ {0}
  PROVE  LET r == CapVersions(s, limit)
         IN  /\ r \in Seq(Version) /\ Elements(r) \subseteq Elements(s)
             /\ Len(r) = IF Len(s) <= limit THEN Len(s) ELSE limit
             /\ \A v \in Elements(s) \ Elements(r), w \in Elements(r) : ~ListLess(w, v)
<1>1. CASE Len(s) <= limit
  BY <1>1 DEF CapVersions
<1>2. CASE ~(Len(s) <= limit)
  <2> DEFINE q == Sorted(s)
             n == Len(s)
             r == SubSeq(q, n - limit + 1, n)
  <2>1. /\ q \in Seq(Version) /\ Len(q) = n /\ Elements(q) = Elements(s)
        /\ \A k, l \in 1..n : k < l => ~ListLess(q[l], q[k])
    BY SortedFacts
  <2>2. n \in Nat /\ limit < n /\ CapVersions(s, limit) = r
    BY <1>2 DEF CapVersions
  <2> HIDE DEF q, n
  <2>3. r \in Seq(Version) /\ Len(r) = limit /\ \A i \in 1..limit : r[i] = q[n - limit + i]
    BY <2>1, <2>2
  <2>d. DOMAIN q = 1..n /\ DOMAIN r = 1..limit
    BY <2>1, <2>3
  <2> HIDE DEF r
  <2>4. Elements(q) = {q[k] : k \in 1..n} /\ Elements(r) = {r[i] : i \in 1..limit}
    BY <2>d DEF Elements
  <2>5. \A k \in (n - limit + 1)..n : q[k] \in Elements(r)
    <3> TAKE k \in (n - limit + 1)..n
    <3>1. k - (n - limit) \in 1..limit /\ n - limit + (k - (n - limit)) = k
      BY <2>2
    <3>2. QED
      BY <2>3, <2>4, <3>1
  <2>6. \A w \in Elements(r) : \E k \in (n - limit + 1)..n : w = q[k]
    BY <2>2, <2>3, <2>4
  <2>7. Elements(r) \subseteq Elements(s)
    <3>1. \A k \in (n - limit + 1)..n : k \in 1..n
      BY <2>2
    <3>2. QED
      BY <2>1, <2>4, <2>6, <3>1
  <2>8. ASSUME NEW v \in Elements(s) \ Elements(r), NEW w \in Elements(r)
        PROVE  ~ListLess(w, v)
    <3>1. PICK k \in 1..n : v = q[k]
      BY <2>1, <2>4
    <3>2. PICK l \in (n - limit + 1)..n : w = q[l]
      BY <2>6
    <3>3. k < l /\ l \in 1..n
      BY <2>2, <2>5, <3>1, <3>2
    <3>4. QED
      BY <2>1, <3>1, <3>2, <3>3
  <2>9. QED
    BY <1>2, <2>2, <2>3, <2>7, <2>8 DEF n, r
<1>3. QED
  BY <1>1, <1>2

(* The ends of a sorted list of versions that parse.                       *)
LEMMA SortedEnds ==
  ASSUME NEW p \in Seq(Version), p # <<>>, Good(Elements(p))
  PROVE  Sorted(p)[1] = Oldest(Elements(p)) /\ Sorted(p)[Len(p)] = Newest(Elements(p))
<1> DEFINE q == Sorted(p)
           n == Len(p)
           S == Elements(p)
<1>1. /\ q \in Seq(Version) /\ Len(q) = n /\ Elements(q) = S
      /\ \A k, l \in 1..n : k < l => ~ListLess(q[l], q[k])
  BY SortedFacts
<1>2. n \in Nat /\ n >= 1
  OBVIOUS
<1> HIDE DEF q, n, S
<1>3. S = {q[k] : k \in 1..n}
  BY <1>1 DEF Elements
<1>4. Good(S) /\ S # {}
  BY <1>2, <1>3 DEF S
<1>5. \A v, w \in S : ListLess(v, w) <=> Less(v, w)
  BY <1>4, VersionFacts DEF Good, ListLess
<1>6. q[1] = Oldest(S)
  <2>1. PICK k \in 1..n : q[k] = Oldest(S)
    BY <1>3, <1>4, NewestFacts
  <2>2. q[1] = Oldest(S) \/ Less(Oldest(S), q[1])
    <3>1. q[1] \in S
      BY <1>2, <1>3
    <3>2. QED
      BY <1>4, <3>1, NewestFacts
  <2>3. k # 1 => ~Less(q[k], q[1])
    BY <1>1, <1>2, <1>3, <1>5
  <2>4. QED
    BY <2>1, <2>2, <2>3
<1>7. q[n] = Newest(S)
  <2>1. PICK k \in 1..n : q[k] = Newest(S)
    BY <1>3, <1>4, NewestFacts
  <2>2. q[n] = Newest(S) \/ Less(q[n], Newest(S))
    <3>1. q[n] \in S
      BY <1>2, <1>3
    <3>2. QED
      BY <1>4, <3>1, NewestFacts
  <2>3. k # n => ~Less(q[n], q[k])
    BY <1>1, <1>2, <1>3, <1>5
  <2>4. QED
    BY <2>1, <2>2, <2>3
<1>8. QED
  BY <1>6, <1>7 DEF q, n, S
LEMMA SpanFacts ==
  ASSUME NEW s \in Seq(Version)
  PROVE  LET r == SpanVersions(s, maxMobileCMTServerVersions)
             P == {v \in Elements(s) : v.ok}
         IN  /\ r \in Seq(Version) /\ Elements(r) \subseteq Elements(s)
             /\ Len(r) <= maxMobileCMTServerVersions /\ (s # <<>> => r # <<>>)
             /\ P # {} => Newest(P) \in Elements(r)
             /\ Len(s) > maxMobileCMTServerVersions /\ P # {} =>
                  Oldest(P) \in Elements(r) /\ Elements(r) \subseteq P
<1> DEFINE r == SpanVersions(s, 3)
           P == {v \in Elements(s) : v.ok}
           p == Parseable(s)
<1>0. maxMobileCMTServerVersions = 3
  BY DEF maxMobileCMTServerVersions
<1>1. p \in Seq(Version) /\ Len(p) <= Len(s) /\ Elements(p) = P /\ Good(P)
  BY ParseableFacts
<1>2. Len(s) \in Nat /\ Len(p) \in Nat /\ P \subseteq Elements(s)
  BY <1>1
<1>3. P = {} <=> p = <<>>
  <2>1. p # <<>> => p[Len(p)] \in Elements(p)
    BY <1>1, ElementsFacts
  <2>2. p = <<>> => Elements(p) = {}
    BY DEF Elements
  <2>3. QED
    BY <1>1, <2>1, <2>2
<1>4. P # {} => Newest(P) \in P /\ Oldest(P) \in P
  BY <1>1, NewestFacts
<1>5. CASE Len(s) <= 3
  <2>1. r = s
    BY <1>5 DEF SpanVersions
  <2>2. QED
    BY <1>0, <1>2, <1>4, <1>5, <2>1
<1>6. CASE Len(s) > 3 /\ p = <<>>
  <2>1. r = CapVersions(s, 3)
    BY <1>2, <1>6 DEF SpanVersions
  <2>2. /\ CapVersions(s, 3) \in Seq(Version) /\ Elements(CapVersions(s, 3)) \subseteq Elements(s)
        /\ Len(CapVersions(s, 3)) = IF Len(s) <= 3 THEN Len(s) ELSE 3
    <3>1. 3 \in Nat \ {0}
      OBVIOUS
    <3>2. QED
      BY <3>1, CapFacts
  <2>3. r \in Seq(Version) /\ Elements(r) \subseteq Elements(s) /\ Len(r) = 3
    BY <1>2, <1>6, <2>1, <2>2
  <2>4. P = {}
    BY <1>3, <1>6
  <2> HIDE DEF P, r
  <2>5. r # <<>> /\ Len(r) <= 3
    <3>1. Len(r) # 0 /\ Len(r) <= 3
      BY <2>3
    <3>2. QED
      BY <3>1, NotEmpty
  <2>6. QED
    BY <1>0, <2>3, <2>4, <2>5 DEF P, r
<1>7. CASE Len(s) > 3 /\ p # <<>> /\ Len(p) <= 3
  <2>1. r = p
    BY <1>2, <1>7 DEF SpanVersions
  <2>2. QED
    BY <1>0, <1>1, <1>2, <1>3, <1>4, <1>7, <2>1
<1>8. CASE Len(s) > 3 /\ Len(p) > 3
  <2> DEFINE q == Sorted(p)
             n == Len(p)
             m == SpanIndex(1, n - 1, 3) + 1
             picks == {SpanIndex(i, n - 1, 3) : i \in 0..2}
             I == {x + 1 : x \in picks}
  <2>1. n \in Nat /\ n > 3 /\ p # <<>>
    BY <1>2, <1>8
  <2>2. SpanIndex(0, n - 1, 3) = 0 /\ m \in 2..(n - 1) /\ SpanIndex(2, n - 1, 3) = n - 1
    <3>1. n - 1 \in Nat /\ n - 1 >= 3 /\ SpanIndex(1, n - 1, 3) \in Int
      BY <2>1 DEF SpanIndex
    <3>2. QED
      BY <1>0, <2>1, <3>1, SpanKeepsEnds
  <2>3. I = {1, m, n}
    <3>1. 0..2 = {0, 1, 2}
      OBVIOUS
    <3>2. picks = {SpanIndex(0, n - 1, 3), SpanIndex(1, n - 1, 3), SpanIndex(2, n - 1, 3)}
      BY <3>1
    <3>3. picks = {0, SpanIndex(1, n - 1, 3), n - 1}
      BY <2>2, <3>2
    <3>4. I = {0 + 1, SpanIndex(1, n - 1, 3) + 1, (n - 1) + 1}
      BY <3>3
    <3>5. QED
      BY <2>1, <3>4
  <2>4. r = EntriesAt(q, I)
    BY <1>2, <1>8, <2>1 DEF SpanVersions
  <2>5. q \in Seq(Version) /\ Len(q) = n /\ Elements(q) = P
    BY <1>1, SortedFacts
  <2>6. q[1] = Oldest(P) /\ q[n] = Newest(P)
    BY <1>1, <2>1, SortedEnds
  <2> HIDE DEF q, n, m, picks, I
  <2>7. I \subseteq DOMAIN q
    BY <2>1, <2>2, <2>3, <2>5
  <2>8. /\ r \in Seq(Version) /\ Len(r) = Cardinality(I)
        /\ Elements(r) = {q[i] : i \in I}
    BY <2>4, <2>5, <2>7, EntriesAtFacts
  <2>9. Cardinality(I) \in 1..3
    <3>1. Cardinality({1}) = 1 /\ IsFiniteSet({1})
      BY FS_Singleton
    <3>2. Cardinality({1, m}) = 2 /\ IsFiniteSet({1, m})
      <4>1. {1, m} = {1} \cup {m} /\ m \notin {1}
        BY <2>2
      <4>2. QED
        BY <3>1, <4>1, FS_AddElement
    <3>3. Cardinality({1, m, n}) = 3
      <4>1. {1, m, n} = {1, m} \cup {n} /\ n \notin {1, m}
        BY <2>1, <2>2
      <4>2. Cardinality({1, m, n}) = 2 + 1
        BY <3>2, <4>1, FS_AddElement
      <4>3. QED
        BY <4>2
    <3>4. QED
      BY <2>3, <3>3
  <2>10. /\ Elements(r) \subseteq P /\ Newest(P) \in Elements(r) /\ Oldest(P) \in Elements(r)
    <3>1. \A i \in I : q[i] \in Elements(q)
      BY <2>7 DEF Elements
    <3>2. QED
      BY <2>3, <2>5, <2>6, <2>8, <3>1
  <2>11. r # <<>>
    BY <2>8, <2>9
  <2>12. QED
    BY <1>0, <1>2, <2>8, <2>9, <2>10, <2>11
<1>9. QED
  BY <1>2, <1>5, <1>6, <1>7, <1>8

LEMMA LatestFacts ==
  ASSUME NEW s \in Seq(Version), s # <<>>
  PROVE  /\ LatestVersion(s) \in Elements(s) /\ LatestVersion(s) \in Version
         /\ \A v \in Elements(s) : v.ok =>
              LatestVersion(s).ok /\ ~Less(LatestVersion(s), v)
<1> DEFINE P == {v \in Elements(s) : v.ok}
<1>1. Good(P) /\ P \subseteq Elements(s) /\ Elements(s) \subseteq Version
  BY ParseableFacts, ElementsFacts
<1>2. CASE P = {}
  <2>1. LatestVersion(s) = s[Len(s)]
    BY <1>2 DEF LatestVersion
  <2>2. QED
    BY <1>1, <1>2, <2>1, ElementsFacts
<1>3. CASE P # {}
  <2>1. LatestVersion(s) = Newest(P)
    BY <1>3 DEF LatestVersion
  <2> HIDE DEF P
  <2>2. Newest(P) \in P /\ \A w \in P : ~Less(Newest(P), w)
    BY <1>1, <1>3, NewestFacts, LessFacts
  <2>3. QED
    BY <1>1, <2>1, <2>2 DEF P
<1>4. QED
  BY <1>2, <1>3
-----------------------------------------------------------------------------
(* The newest n of a set, and a set as a list.                             *)
LEMMA ImageFinite ==
  ASSUME NEW S, IsFiniteSet(S), NEW f, DOMAIN f = S
  PROVE  IsFiniteSet({f[x] : x \in S}) /\ Cardinality({f[x] : x \in S}) <= Cardinality(S)
<1> DEFINE T == {f[x] : x \in S}
           g == [x \in S |-> f[x]]
<1>1. g \in Surjection(S, T)
  BY DEF Surjection
<1> HIDE DEF g, T
<1>2. IsFiniteSet(T) /\ Cardinality(T) <= Cardinality(S)
  BY <1>1, FS_Surjection
<1>3. QED
  BY <1>2 DEF T

LEMMA GoodSubset ==
  ASSUME NEW S, Good(S), NEW T, T \subseteq S
  PROVE  Good(T)
<1>1. IsFiniteSet(T)
  BY FS_Subset DEF Good
<1>2. QED
  BY <1>1 DEF Good

LEMMA GoodUnion ==
  ASSUME NEW S, Good(S), NEW T, Good(T)
  PROVE  Good(S \cup T) /\ Cardinality(S \cup T) <= Cardinality(S) + Cardinality(T)
<1>1. IsFiniteSet(S \cup T) /\ Cardinality(S \cup T) = Cardinality(S) + Cardinality(T) - Cardinality(S \cap T)
  BY FS_Union DEF Good
<1>2. IsFiniteSet(S \cap T)
  BY FS_Intersection DEF Good
<1>3. Cardinality(S) \in Nat /\ Cardinality(T) \in Nat /\ Cardinality(S \cap T) \in Nat
  BY <1>2, FS_CardinalityType DEF Good
<1>4. Cardinality(S \cup T) <= Cardinality(S) + Cardinality(T)
  BY <1>1, <1>3
<1>5. QED
  BY <1>1, <1>4 DEF Good

LEMMA NewestOfFacts ==
  ASSUME NEW S, Good(S), NEW n \in Nat
  PROVE  LET N == NewestOf(n, S)
         IN  /\ N \subseteq S /\ Good(N) /\ Cardinality(N) \in Nat /\ Cardinality(N) <= n
             /\ \A v \in N, w \in S : Less(v, w) => w \in N
             /\ n # 0 /\ S # {} => Newest(S) \in N
             /\ Cardinality(S) <= n => N = S
             /\ \A v \in S \ N : Cardinality(N) = n
<1> DEFINE N == NewestOf(n, S)
           rank(v) == Rank(MoreIn(S), S, v)
           c == Cardinality(S)
<1>1. IsFiniteSet(S) /\ c \in Nat
  BY FS_CardinalityType DEF Good
<1>2. /\ \A v \in S : rank(v) \in 0..(c - 1)
      /\ \A v, w \in S : <<v, w>> \in MoreIn(S) <=> rank(v) < rank(w)
      /\ \A v, w \in S : rank(v) = rank(w) => v = w
      /\ \A k \in 1..c : \E v \in S : rank(v) = k - 1
  BY <1>1, LessInIsOrder, RankBijection
<1>3. \A v, w \in S : Less(w, v) <=> rank(v) < rank(w)
  BY <1>2 DEF MoreIn
<1>4. \A v : v \in N <=> v \in S /\ rank(v) < n
  <2>1. \A v \in S : rank(v) = Cardinality({w \in S : Less(v, w)})
    <3> TAKE v \in S
    <3>1. {w \in S : <<w, v>> \in MoreIn(S)} = {w \in S : Less(v, w)}
      BY DEF MoreIn
    <3>2. QED
      BY <3>1 DEF Rank
  <2> HIDE DEF rank
  <2>2. QED
    BY <2>1 DEF NewestOf
<1> HIDE DEF N, rank
<1>5. N \subseteq S /\ Good(N)
  BY <1>4, GoodSubset
<1>6. \A v \in N, w \in S : Less(v, w) => w \in N
  <2> SUFFICES ASSUME NEW v \in N, NEW w \in S, Less(v, w) PROVE w \in N
    OBVIOUS
  <2>1. rank(w) < rank(v) /\ rank(v) < n /\ rank(v) \in Int /\ rank(w) \in Int
    BY <1>1, <1>2, <1>3, <1>4
  <2>2. QED
    BY <1>4, <2>1
<1>7. ASSUME n # 0, S # {} PROVE Newest(S) \in N
  <2>1. c >= 1
    BY <1>1, <1>7, FS_EmptySet
  <2>2. PICK v \in S : rank(v) = 1 - 1
    BY <1>1, <1>2, <2>1
  <2>3. v \in N
    BY <1>4, <1>7, <2>2
  <2>4. QED
    BY <1>6, <1>7, <2>3, NewestFacts
<1>8. ASSUME c <= n PROVE N = S
  <2>1. \A v \in S : rank(v) < n
    BY <1>1, <1>2, <1>8
  <2>2. QED
    BY <1>4, <2>1
<1>9. Cardinality(N) \in Nat /\ Cardinality(N) <= n
  <2> DEFINE f == [v \in N |-> rank(v)]
             I == 0..(n - 1)
  <2>1. f \in Injection(N, I)
    <3>1. \A v \in N : rank(v) \in I
      BY <1>1, <1>2, <1>4
    <3>2. QED
      BY <1>2, <1>5, <3>1 DEF Injection, IsInjective
  <2>2. IsFiniteSet(I) /\ Cardinality(I) = n
    <3>1. 0 \in Int /\ n - 1 \in Int
      OBVIOUS
    <3>2. IsFiniteSet(0..(n - 1)) /\ Cardinality(0..(n - 1)) = IF 0 > n - 1 THEN 0 ELSE (n - 1) - 0 + 1
      BY <3>1, FS_Interval
    <3>3. (IF 0 > n - 1 THEN 0 ELSE (n - 1) - 0 + 1) = n
      OBVIOUS
    <3>4. QED
      BY <3>2, <3>3
  <2> HIDE DEF f, I
  <2>3. IsFiniteSet(N) /\ Cardinality(N) <= Cardinality(I)
    BY <2>1, <2>2, FS_Injection
  <2>4. QED
    BY <2>2, <2>3, FS_CardinalityType
<1>10. ASSUME NEW v \in S \ N PROVE Cardinality(N) = n
  <2>1. n <= rank(v) /\ rank(v) <= c - 1
    BY <1>1, <1>2, <1>4
  <2> DEFINE f == [w \in N |-> rank(w) + 1]
             J == 1..n
  <2>2. f \in Bijection(N, J)
    <3>1. \A w \in N : rank(w) + 1 \in J
      BY <1>1, <1>2, <1>4, <1>5
    <3>2. \A x, w \in N : rank(x) + 1 = rank(w) + 1 => x = w
      <4> SUFFICES ASSUME NEW x \in N, NEW w \in N, rank(x) + 1 = rank(w) + 1 PROVE x = w
        OBVIOUS
      <4>1. rank(x) \in Int /\ rank(w) \in Int /\ x \in S /\ w \in S
        BY <1>2, <1>5
      <4>2. rank(x) = rank(w)
        BY <4>1
      <4>3. QED
        BY <1>2, <4>1, <4>2
    <3>3. \A k \in J : \E w \in N : rank(w) + 1 = k
      <4> SUFFICES ASSUME NEW k \in J PROVE \E w \in N : rank(w) + 1 = k
        OBVIOUS
      <4>1. k \in 1..c /\ k - 1 < n /\ (k - 1) + 1 = k
        BY <1>1, <1>2, <2>1
      <4>2. PICK w \in S : rank(w) = k - 1
        BY <1>2, <4>1
      <4>3. QED
        BY <1>4, <4>1, <4>2
    <3>4. QED
      BY <3>1, <3>2, <3>3 DEF Bijection, Injection, Surjection, IsInjective
  <2>3. IsFiniteSet(N)
    BY <1>5 DEF Good
  <2> HIDE DEF f, J
  <2>4. ExistsBijection(N, J)
    BY <2>2 DEF ExistsBijection
  <2>5. Cardinality(J) = Cardinality(N)
    BY <2>3, <2>4, FS_Bijection
  <2>6. QED
    BY <2>5, IndicesFinite DEF J
<1>11. QED
  BY <1>5, <1>6, <1>7, <1>8, <1>9, <1>10 DEF N
LEMMA AscendingFacts ==
  ASSUME NEW S, Good(S)
  PROVE  /\ Ascending(S) \in Seq(Version) /\ Len(Ascending(S)) = Cardinality(S)
         /\ Elements(Ascending(S)) = S
         /\ \A i, j \in DOMAIN Ascending(S) : i < j => Less(Ascending(S)[i], Ascending(S)[j])
<1> DEFINE s == Ascending(S)
           rank(v) == Rank(LessIn(S), S, v)
           c == Cardinality(S)
           at(k) == CHOOSE v \in S : Cardinality({w \in S : Less(w, v)}) = k - 1
<1>1. IsFiniteSet(S) /\ c \in Nat
  BY FS_CardinalityType DEF Good
<1>2. /\ \A v \in S : rank(v) \in 0..(c - 1)
      /\ \A v, w \in S : <<v, w>> \in LessIn(S) <=> rank(v) < rank(w)
      /\ \A v, w \in S : rank(v) = rank(w) => v = w
      /\ \A k \in 1..c : \E v \in S : rank(v) = k - 1
  BY <1>1, LessInIsOrder, RankBijection
<1>3. \A v, w \in S : Less(v, w) <=> rank(v) < rank(w)
  BY <1>2 DEF LessIn
<1>4. \A v \in S : rank(v) = Cardinality({w \in S : Less(w, v)})
  <2> TAKE v \in S
  <2>1. {w \in S : <<w, v>> \in LessIn(S)} = {w \in S : Less(w, v)}
    BY DEF LessIn
  <2>2. QED
    BY <2>1 DEF Rank
<1>5. s = [k \in 1..c |-> at(k)]
  BY DEF Ascending
<1> HIDE DEF rank, s
<1>6. \A k \in 1..c : at(k) \in S /\ rank(at(k)) = k - 1
  <2> SUFFICES ASSUME NEW k \in 1..c PROVE at(k) \in S /\ rank(at(k)) = k - 1
    OBVIOUS
  <2>1. \E v \in S : Cardinality({w \in S : Less(w, v)}) = k - 1
    BY <1>2, <1>4
  <2>2. at(k) \in S /\ Cardinality({w \in S : Less(w, at(k))}) = k - 1
    BY <2>1
  <2> HIDE DEF at
  <2>3. QED
    BY <1>4, <2>2
<1> HIDE DEF at, c
<1>7. DOMAIN s = 1..c /\ \A k \in 1..c : s[k] = at(k)
  BY <1>5
<1>8. s \in Seq(Version) /\ Len(s) = c
  <2>1. \A k \in 1..c : at(k) \in Version
    BY <1>6 DEF Good
  <2>2. QED
    BY <1>1, <1>5, <2>1
<1>9. Elements(s) = S
  <2>1. \A k \in 1..c : s[k] \in S
    BY <1>6, <1>7
  <2>2. ASSUME NEW v \in S PROVE \E k \in 1..c : s[k] = v
    <3>1. rank(v) + 1 \in 1..c /\ (rank(v) + 1) - 1 = rank(v)
      BY <1>1, <1>2
    <3>2. rank(at(rank(v) + 1)) = rank(v) /\ at(rank(v) + 1) \in S
      BY <1>6, <3>1
    <3>3. QED
      BY <1>2, <1>7, <3>1, <3>2
  <2>3. QED
    BY <1>7, <2>1, <2>2 DEF Elements
<1>10. ASSUME NEW i \in 1..c, NEW j \in 1..c, i < j PROVE Less(s[i], s[j])
  <2>1. rank(at(i)) = i - 1 /\ rank(at(j)) = j - 1 /\ at(i) \in S /\ at(j) \in S
    BY <1>6
  <2>2. i - 1 < j - 1
    BY <1>1, <1>10
  <2>3. QED
    BY <1>3, <1>7, <2>1, <2>2
<1>11. QED
  BY <1>7, <1>8, <1>9, <1>10 DEF s, c
-----------------------------------------------------------------------------
(* Releases R as GitHub may list them.                                     *)
Listed(R) ==
  /\ IsFiniteSet(R)
  /\ \A r \in R : r.v \in Version
  /\ \A r, q \in R : r.v = q.v => r = q

LEMMA StableFacts ==
  ASSUME NEW R, Listed(R)
  PROVE  LET L == LatestStable(R)
             G == {r.v : r \in General(R)}
         IN  /\ Good(L) /\ Good(G) /\ L \subseteq G
             /\ \A v \in L : v.rc = 0 /\ \E r \in General(R) : r.v = v
             /\ \A v, w \in L : Minor(v) = Minor(w) => v = w
             /\ \A w \in G : \E v \in L : Minor(w) = Minor(v) /\ (v = w \/ Less(w, v))
             /\ L # {} => \A w \in G : w = Newest(L) \/ Less(w, Newest(L))
<1> DEFINE L == LatestStable(R)
           GR == General(R)
           G == {r.v : r \in GR}
<1>1. \A r \in GR : r \in R /\ ~r.draft /\ r.v.ok /\ ~r.prerelease /\ ~(r.v.rc > 0)
  BY DEF General, Counted, RCChannel
<1>2. Good(G)
  <2>1. IsFiniteSet(GR)
    <3>1. GR \subseteq R
      BY <1>1
    <3>2. QED
      BY <3>1, FS_Subset DEF Listed
  <2> DEFINE f == [r \in GR |-> r.v]
  <2>2. {f[r] : r \in GR} = G /\ DOMAIN f = GR
    OBVIOUS
  <2> HIDE DEF f, GR
  <2>3. IsFiniteSet({f[r] : r \in GR})
    BY <2>1, <2>2, ImageFinite
  <2>4. \A r \in GR : r.v \in Version /\ r.v.ok
    BY <1>1 DEF Listed, GR
  <2>5. QED
    BY <2>2, <2>3, <2>4 DEF Good
<1>3. L = {v \in G : \A w \in G : Minor(w) = Minor(v) => ~Less(v, w)}
  BY DEF LatestStable
<1>4. \A v \in G : v.rc = 0 /\ \E r \in GR : r.v = v
  <2> SUFFICES ASSUME NEW r \in GR PROVE r.v.rc = 0
    OBVIOUS
  <2>1. r.v \in Version /\ ~(r.v.rc > 0)
    BY <1>1 DEF Listed
  <2>2. QED
    BY <2>1, VersionFacts DEF Numbers
<1> HIDE DEF L, G, GR
<1>5. Good(L) /\ L \subseteq G
  BY <1>2, <1>3, GoodSubset
<1>6. \A v, w \in L : Minor(v) = Minor(w) => v = w
  BY <1>2, <1>3, LessFacts
<1>7. ASSUME NEW w \in G PROVE \E v \in L : Minor(w) = Minor(v) /\ (v = w \/ Less(w, v))
  <2> DEFINE S == {v \in G : Minor(v) = Minor(w)}
  <2>1. Good(S) /\ S # {}
    BY <1>2, GoodSubset
  <2>2. Newest(S) \in S /\ \A v \in S : v = Newest(S) \/ Less(v, Newest(S))
    <3> HIDE DEF S
    <3>1. QED
      BY <2>1, NewestFacts
  <2>3. Newest(S) \in L
    <3>1. \A v \in S : ~Less(Newest(S), v)
      <4> HIDE DEF S
      <4>1. QED
        BY <2>1, <2>2, LessFacts
    <3>2. QED
      BY <1>3, <2>2, <3>1
  <2>4. QED
    BY <2>2, <2>3
<1>8. ASSUME L # {}, NEW w \in G PROVE w = Newest(L) \/ Less(w, Newest(L))
  <2>1. PICK v \in L : v = w \/ Less(w, v)
    BY <1>7
  <2>2. Newest(L) \in L /\ (v = Newest(L) \/ Less(v, Newest(L)))
    BY <1>5, <1>8, NewestFacts
  <2>3. w \in G /\ v \in G /\ Newest(L) \in G
    BY <1>5, <2>2
  <2>4. QED
    BY <1>2, <2>1, <2>2, <2>3, LessFacts
<1>9. QED
  BY <1>2, <1>4, <1>5, <1>6, <1>7, <1>8 DEF L, G, GR
(* Of the tags of a patch one is picked.                                   *)
LEMMA PickTagFacts ==
  ASSUME NEW R, Listed(R), NEW known_, NEW r \in RCChannel(R)
  PROVE  \E q \in SamePatch(R, r) : q.v = PickTag(SamePatch(R, r), known_)
<1> DEFINE T == SamePatch(R, r)
           bare == CHOOSE t \in T : t.v.rc = 0
           rcN  == {t \in T : t.v.rc > 0}
           best == CHOOSE t \in rcN : \A u \in rcN : ~Less(t.v, u.v)
           same == {bare, best} \subseteq known_ /\ bare.sha = best.sha
           later == best.published # 0 /\ bare.published > best.published
<1>1. r \in T /\ \A t \in T : t \in R /\ t.v \in Version /\ t.v.ok /\ t.v.rc \in Nat
  <2>1. r \in T /\ \A t \in T : t \in R /\ t.v.ok
    BY DEF SamePatch, RCChannel, Counted
  <2>2. \A t \in T : t.v \in Version /\ t.v.rc \in Nat
    BY <2>1, VersionFacts DEF Listed, Numbers
  <2>3. QED
    BY <2>1, <2>2
<1>2. PickTag(T, known_) =
        IF rcN = {} THEN bare.v
        ELSE IF rcN = T THEN best.v
        ELSE IF same \/ later THEN bare.v ELSE best.v
  BY DEF PickTag
<1>3. rcN # T => bare \in T
  <2> SUFFICES ASSUME rcN # T PROVE bare \in T
    OBVIOUS
  <2>1. PICK t \in T : ~(t.v.rc > 0)
    OBVIOUS
  <2>2. t.v.rc = 0
    BY <1>1, <2>1
  <2> HIDE DEF T
  <2>3. QED
    BY <2>2
<1>4. rcN # {} => best \in T
  <2> SUFFICES ASSUME rcN # {} PROVE best \in T
    OBVIOUS
  <2> DEFINE V == {t.v : t \in rcN}
             f == [t \in rcN |-> t.v]
  <2>1. Good(V) /\ V # {}
    <3>1. IsFiniteSet(rcN)
      BY <1>1, FS_Subset DEF Listed
    <3>2. {f[t] : t \in rcN} = V /\ DOMAIN f = rcN
      OBVIOUS
    <3>3. IsFiniteSet(V)
      <4> HIDE DEF f, rcN
      <4>1. IsFiniteSet({f[t] : t \in rcN})
        BY <3>1, <3>2, ImageFinite
      <4>2. QED
        BY <3>2, <4>1
    <3>4. QED
      BY <1>1, <3>3 DEF Good
  <2>2. PICK t \in rcN : t.v = Newest(V)
    <3>1. Newest(V) \in V
      <4> HIDE DEF V
      <4>1. QED
        BY <2>1, NewestFacts
    <3>2. QED
      BY <3>1
  <2>3. \A u \in rcN : ~Less(t.v, u.v)
    <3> SUFFICES ASSUME NEW u \in rcN PROVE ~Less(t.v, u.v)
      OBVIOUS
    <3>1. u.v \in V /\ t.v \in V
      OBVIOUS
    <3> HIDE DEF V, rcN
    <3>2. QED
      BY <2>1, <2>2, <3>1, NewestFacts, LessFacts
  <2>4. best \in rcN
    <3> HIDE DEF rcN
    <3>1. QED
      BY <2>3
  <2>5. QED
    BY <2>4
<1>5. rcN = {} => rcN # T
  BY <1>1
<1> HIDE DEF bare, best, rcN, same, later
<1>6. (PickTag(T, known_) = bare.v /\ bare \in T) \/ (PickTag(T, known_) = best.v /\ best \in T)
  BY <1>2, <1>3, <1>4, <1>5
<1> HIDE DEF T
<1>7. \E q \in T : q.v = PickTag(T, known_)
  BY <1>6
<1>8. QED
  BY <1>7 DEF T

(* The candidates: one of every patch of their channel.                    *)
LEMMA CandidateFacts ==
  ASSUME NEW R, Listed(R), NEW known_
  PROVE  LET C == Candidates(R, known_)
         IN  /\ Good(C) /\ Good({q.v : q \in RCChannel(R)})
             /\ \A c \in C : \E q \in RCChannel(R) :
                  c = q.v /\ c = PickTag(SamePatch(R, q), known_)
             /\ \A r \in RCChannel(R) : \E c \in C : Patch(c) = Patch(r.v)
<1> DEFINE C == Candidates(R, known_)
           H == RCChannel(R)
           V == {q.v : q \in H}
           pick(r) == PickTag(SamePatch(R, r), known_)
<1>1. \A q \in H : q \in R /\ q.v \in Version /\ q.v.ok
  BY DEF RCChannel, Counted, Listed
<1>2. Good(V)
  <2> DEFINE f == [q \in H |-> q.v]
  <2>1. {f[q] : q \in H} = V /\ DOMAIN f = H
    OBVIOUS
  <2>2. IsFiniteSet(H)
    <3>1. H \subseteq R
      BY <1>1
    <3>2. QED
      BY <3>1, FS_Subset DEF Listed
  <2>3. V \subseteq {v \in Version : v.ok}
    BY <1>1
  <2> HIDE DEF f, H, V
  <2>4. IsFiniteSet({f[q] : q \in H})
    BY <2>1, <2>2, ImageFinite
  <2>5. QED
    BY <2>1, <2>3, <2>4 DEF Good
<1>3. ASSUME NEW r \in H
      PROVE  \E q \in H : q.v = pick(r) /\ Patch(q.v) = Patch(r.v) /\ pick(q) = pick(r)
  <2>1. PICK q \in SamePatch(R, r) : q.v = pick(r)
    BY PickTagFacts
  <2>2. q \in H /\ Patch(q.v) = Patch(r.v)
    BY DEF SamePatch
  <2>3. SamePatch(R, q) = SamePatch(R, r)
    BY <2>2 DEF SamePatch
  <2>4. pick(q) = pick(r)
    BY <2>3
  <2>5. QED
    BY <2>1, <2>2, <2>4
<1>4. C = {pick(r) : r \in H}
  BY DEF Candidates
<1> HIDE DEF C, H, pick
<1>5. C \subseteq V
  BY <1>3, <1>4
<1>6. Good(C)
  <2> HIDE DEF V
  <2>1. QED
    BY <1>2, <1>5, GoodSubset
<1>7. \A c \in C : \E q \in H : c = q.v /\ c = pick(q)
  BY <1>3, <1>4
<1>8. \A r \in H : \E c \in C : Patch(c) = Patch(r.v)
  BY <1>3, <1>4
<1>9. QED
  BY <1>2, <1>6, <1>7, <1>8 DEF C, H, pick

LEMMA RCSlotFacts ==
  ASSUME NEW R, Listed(R), NEW known_
  PROVE  LET C == Candidates(R, known_)
             X == RCSlot(R, known_)
         IN  /\ Good(X) /\ Cardinality(X) \in Nat /\ Cardinality(X) <= 1 /\ X \subseteq C
             /\ \A c \in X : c = Newest(C) /\ Less(Newest(LatestStable(R)), c)
             /\ C # {} /\ Less(Newest(LatestStable(R)), Newest(C)) => X = {Newest(C)}
<1> DEFINE C == Candidates(R, known_)
           X == RCSlot(R, known_)
           m == Newest(C)
           up == C # {} /\ Less(Newest(LatestStable(R)), m)
<1>1. Good(C)
  BY CandidateFacts
<1>2. X = IF up THEN {m} ELSE {}
  BY DEF RCSlot
<1> HIDE DEF C, X, m
<1>3. up => m \in C
  BY <1>1, NewestFacts DEF m
<1>4. X \subseteq C
  BY <1>2, <1>3
<1>5. Good(X)
  BY <1>1, <1>4, GoodSubset
<1>6. Cardinality(X) \in Nat /\ Cardinality(X) <= 1
  BY <1>2, FS_EmptySet, FS_Singleton
<1>7. QED
  BY <1>2, <1>4, <1>5, <1>6 DEF C, X, m
-----------------------------------------------------------------------------
(* The lists derived from releases.                                        *)

(* Of six versions at most one has to go.                                  *)
LEMMA CapPreferringFacts ==
  ASSUME NEW S, NEW kept, Cardinality(S) \in 0..6
  PROVE  CapPreferringESR(S, kept, maxCMTServerVersions) =
           IF Cardinality(S) = 6 THEN DropOne(S, kept) ELSE S
<1> DEFINE N == Cardinality(S)
           d(X) == DropOne(X, kept)
           Steps(f) == f = [n \in 0..N |-> IF n = 0 THEN S ELSE d(f[n - 1])]
           after == CHOOSE f : Steps(f)
           f == [n \in 0..N |->
                   IF n = 0 THEN S ELSE IF n = 1 THEN d(S) ELSE IF n = 2 THEN d(d(S))
                   ELSE IF n = 3 THEN d(d(d(S))) ELSE IF n = 4 THEN d(d(d(d(S))))
                   ELSE IF n = 5 THEN d(d(d(d(d(S))))) ELSE d(d(d(d(d(d(S))))))]
<1>1. CapPreferringESR(S, kept, maxCMTServerVersions) = after[IF N > 5 THEN N - 5 ELSE 0]
  BY DEF CapPreferringESR, maxCMTServerVersions
<1> HIDE DEF d, N
<1>2. N \in 0..6
  BY DEF N
<1>3. Steps(f)
  <2>1. \A n \in 0..N : n \in {0, 1, 2, 3, 4, 5, 6}
    BY <1>2
  <2>2. \A n \in 0..N : n # 0 => n - 1 \in 0..N
    BY <1>2
  <2>3. ASSUME NEW n \in 0..N PROVE f[n] = IF n = 0 THEN S ELSE d(f[n - 1])
    BY <2>1, <2>2
  <2>4. f = [n \in 0..N |-> f[n]]
    OBVIOUS
  <2> HIDE DEF f
  <2>5. QED
    BY <2>3, <2>4
<1> HIDE DEF f
<1>4. Steps(after)
  <2> HIDE DEF Steps
  <2>1. QED
    BY <1>3
<1> HIDE DEF after
<1>5. 0 \in 0..N /\ (N = 6 => 1 \in 0..N)
  BY <1>2
<1>6. after[0] = S
  BY <1>4, <1>5
<1>7. N = 6 => after[1] = d(S)
  BY <1>4, <1>5, <1>6
<1>8. (IF N > 5 THEN N - 5 ELSE 0) = IF N = 6 THEN 1 ELSE 0
  BY <1>2
<1>9. QED
  BY <1>1, <1>6, <1>7, <1>8 DEF N, d
LEMMA NewestOneFacts ==
  ASSUME NEW S, Good(S)
  PROVE  /\ S = {} => NewestOf(1, S) = {}
         /\ S # {} => NewestOf(1, S) = {Newest(S)}
<1> DEFINE N == NewestOf(1, S)
<1>1. /\ N \subseteq S /\ Good(N) /\ Cardinality(N) \in Nat /\ Cardinality(N) <= 1
      /\ S # {} => Newest(S) \in N
  BY NewestOfFacts
<1> HIDE DEF N
<1>2. ASSUME NEW v \in N, NEW w \in N PROVE v = w
  <2>1. Cardinality(N) = 0 \/ Cardinality(N) = 1
    BY <1>1
  <2>2. IsFiniteSet(N)
    BY <1>1 DEF Good
  <2>3. Cardinality(N) # 0
    BY <2>2, FS_EmptySet
  <2>4. \E x : N = {x}
    BY <2>1, <2>2, <2>3, FS_CardinalityType, FS_Singleton
  <2>5. QED
    BY <2>4
<1>3. QED
  BY <1>1, <1>2 DEF N

(* The versions that carry extended support.                               *)
Supported(R) == {v \in LatestStable(R) : Minor(v) \in ESRLines(R)}

(* A list that has what a list derived from the releases must have.        *)
Derives(kind, R, known_, s) ==
  /\ s \in Seq(Version)
  /\ Len(s) \in 1..VersionCap(kind)
  /\ \A i, j \in DOMAIN s : i < j => Less(s[i], s[j])
  /\ Elements(s) \subseteq LatestStable(R) \cup RCSlot(R, known_)
  /\ RCSlot(R, known_) \subseteq Elements(s)
  /\ Newest(LatestStable(R)) \in Elements(s)
  /\ NewestOf(1, LatestStable(R)) \cup NewestOf(1, Supported(R)) \subseteq Elements(s)
  /\ kind = "desktop" => NewestOf(2, Supported(R)) \subseteq Elements(s)

(* What is asked of the set is what is asked of its list.                  *)
LEMMA AscendingDerives ==
  ASSUME NEW R, Listed(R), LatestStable(R) # {}, NEW known_, NEW kind, NEW D,
         D \subseteq LatestStable(R) \cup RCSlot(R, known_),
         Cardinality(D) <= VersionCap(kind),
         RCSlot(R, known_) \subseteq D, Newest(LatestStable(R)) \in D,
         NewestOf(1, Supported(R)) \subseteq D,
         kind = "desktop" => NewestOf(2, Supported(R)) \subseteq D
  PROVE  Derives(kind, R, known_, Ascending(D))
<1> DEFINE L == LatestStable(R)
           X == RCSlot(R, known_)
           s == Ascending(D)
<1>1. Good(L) /\ Good(X)
  BY StableFacts, RCSlotFacts
<1>2. Good(D)
  <2>1. Good(L \cup X)
    BY <1>1, GoodUnion
  <2>2. QED
    BY <2>1, GoodSubset
<1>3. /\ s \in Seq(Version) /\ Len(s) = Cardinality(D) /\ Elements(s) = D
      /\ \A i, j \in DOMAIN s : i < j => Less(s[i], s[j])
  BY <1>2, AscendingFacts
<1>4. NewestOf(1, L) = {Newest(L)}
  <2> HIDE DEF L
  <2>1. L # {}
    BY DEF L
  <2>2. QED
    BY <1>1, <2>1, NewestOneFacts
<1>5. Cardinality(D) \in Nat /\ Cardinality(D) # 0
  BY <1>2, FS_CardinalityType, FS_EmptySet DEF Good
<1>6. Len(s) \in 1..VersionCap(kind)
  BY <1>3, <1>5 DEF VersionCap, maxMobileCMTServerVersions, maxCMTServerVersions
<1> HIDE DEF s
<1>7. QED
  BY <1>3, <1>4, <1>6 DEF Derives, s

LEMMA SupportedFacts ==
  ASSUME NEW R, Listed(R)
  PROVE  Good(Supported(R)) /\ Supported(R) \subseteq LatestStable(R)
<1>1. Supported(R) \subseteq LatestStable(R)
  BY DEF Supported
<1>2. QED
  BY <1>1, StableFacts, GoodSubset

(* Of six versions the one that goes is neither the newest stable one, nor *)
(* the candidate, nor one with extended support.                           *)
LEMMA DesktopDerives ==
  ASSUME NEW R, Listed(R), LatestStable(R) # {}, NEW known_
  PROVE  Derives("desktop", R, known_, DesktopVersions(R, known_))
<1> DEFINE L == LatestStable(R)
           m == Newest(L)
           E == NewestOf(2, Supported(R))
           N == NewestOf(3, L)
           X == RCSlot(R, known_)
           chosen == N \cup E \cup X
           kept == {Minor(v) : v \in E}
           D == CapPreferringESR(chosen, kept, maxCMTServerVersions)
<1>1. DesktopVersions(R, known_) = Ascending(D)
  BY DEF DesktopVersions, Supported, maxCMTESRLines
<1>2. /\ Good(L) /\ L # {}
      /\ \A v \in L : v.rc = 0
      /\ \A v, w \in L : Minor(v) = Minor(w) => v = w
  BY StableFacts
<1>3. m \in L /\ \A w \in L : w = m \/ Less(w, m)
  BY <1>2, NewestFacts
<1>4. N \subseteq L /\ Good(N) /\ Cardinality(N) \in Nat /\ Cardinality(N) <= 3 /\ m \in N
  <2> HIDE DEF L
  <2>1. QED
    BY <1>2, NewestOfFacts
<1>5. E \subseteq L /\ Good(E) /\ Cardinality(E) \in Nat /\ Cardinality(E) <= 2
  BY SupportedFacts, NewestOfFacts
<1>6. NewestOf(1, Supported(R)) \subseteq E
  <2> DEFINE S == Supported(R)
  <2>1. Good(S)
    BY SupportedFacts
  <2> HIDE DEF S
  <2>2. S # {} => Newest(S) \in NewestOf(2, S)
    BY <2>1, NewestOfFacts
  <2>3. NewestOf(1, S) \subseteq NewestOf(2, S)
    BY <2>1, <2>2, NewestOneFacts
  <2>4. QED
    BY <2>3 DEF S
<1>7. /\ Good(X) /\ Cardinality(X) \in Nat /\ Cardinality(X) <= 1
      /\ \A c \in X : Less(m, c)
  BY RCSlotFacts
<1> HIDE DEF L, m, E, N, X, kept
<1>8. /\ IsFiniteSet(N \cup E)
      /\ Cardinality(N \cup E) = Cardinality(N) + Cardinality(E) - Cardinality(N \cap E)
      /\ IsFiniteSet(chosen)
      /\ Cardinality(chosen) = Cardinality(N \cup E) + Cardinality(X) - Cardinality((N \cup E) \cap X)
  <2>1. IsFiniteSet(N) /\ IsFiniteSet(E) /\ IsFiniteSet(X)
    BY <1>4, <1>5, <1>7 DEF Good
  <2>2. /\ IsFiniteSet(N \cup E)
        /\ Cardinality(N \cup E) = Cardinality(N) + Cardinality(E) - Cardinality(N \cap E)
    BY <2>1, FS_Union
  <2> DEFINE Y == N \cup E
  <2>3. IsFiniteSet(Y)
    BY <2>2
  <2> HIDE DEF Y
  <2>4. /\ IsFiniteSet(Y \cup X)
        /\ Cardinality(Y \cup X) = Cardinality(Y) + Cardinality(X) - Cardinality(Y \cap X)
    BY <2>1, <2>3, FS_Union
  <2>5. QED
    BY <2>2, <2>4 DEF Y
<1>9. /\ IsFiniteSet(N \cap E) /\ Cardinality(N \cap E) \in Nat
      /\ Cardinality((N \cup E) \cap X) \in Nat /\ Cardinality(N \cup E) \in Nat
      /\ Cardinality(chosen) \in Nat
  <2>1. IsFiniteSet(N \cap E) /\ IsFiniteSet((N \cup E) \cap X)
    BY <1>4, <1>8, FS_Subset DEF Good
  <2>2. QED
    BY <1>8, <2>1, FS_CardinalityType
<1>10. Cardinality(chosen) \in 0..6
  <2> DEFINE n == Cardinality(N)  e == Cardinality(E)  x == Cardinality(X)
             u == Cardinality(N \cup E)  c == Cardinality(chosen)
             d == Cardinality(N \cap E)  f == Cardinality((N \cup E) \cap X)
  <2>1. n \in Nat /\ n <= 3 /\ e \in Nat /\ e <= 2 /\ x \in Nat /\ x <= 1
    BY <1>4, <1>5, <1>7
  <2>2. u = n + e - d /\ c = u + x - f
    BY <1>8
  <2>3. d \in Nat /\ f \in Nat /\ u \in Nat /\ c \in Nat
    BY <1>9
  <2> HIDE DEF n, e, x, u, c, d, f
  <2>4. c \in 0..6
    BY <2>1, <2>2, <2>3
  <2>5. QED
    BY <2>4 DEF c
<1>11. Good(chosen)
  <2>1. Good(N \cup E)
    BY <1>4, <1>5, GoodUnion
  <2>2. QED
    BY <1>7, <2>1, GoodUnion
<1>12. CASE Cardinality(chosen) # 6
  <2> HIDE DEF chosen
  <2>1. D = chosen
    BY <1>10, <1>12, CapPreferringFacts
  <2> HIDE DEF D
  <2>2. /\ D \subseteq L \cup X /\ X \subseteq D /\ m \in D /\ E \subseteq D
        /\ NewestOf(1, Supported(R)) \subseteq D
    BY <1>4, <1>5, <1>6, <2>1 DEF chosen
  <2>3. Cardinality(D) <= 5
    BY <1>10, <1>12, <2>1
  <2>4. VersionCap("desktop") = 5
    BY DEF VersionCap, maxCMTServerVersions
  <2>5. Derives("desktop", R, known_, Ascending(D))
    BY <2>2, <2>3, <2>4, AscendingDerives DEF L, X, m, E
  <2>6. QED
    BY <1>1, <2>5
<1>13. CASE Cardinality(chosen) = 6
  <2> DEFINE plain == {v \in chosen : v.rc # 0 \/ Minor(v) \notin kept}
             o == Oldest(plain)
  <2>1. Cardinality(N) = 3 /\ Cardinality(N \cap E) = 0
    BY <1>4, <1>5, <1>7, <1>8, <1>9, <1>13
  <2>2. N \cap E = {}
    BY <1>9, <2>1, FS_EmptySet
  <2>3. N \subseteq plain
    <3> SUFFICES ASSUME NEW v \in N PROVE Minor(v) \notin kept
      OBVIOUS
    <3>1. \A e \in E : Minor(v) # Minor(e)
      BY <1>2, <1>4, <1>5, <2>2
    <3>2. QED
      BY <3>1 DEF kept
  <2>4. \A e \in E : e \notin plain
    <3> TAKE e \in E
    <3>1. e.rc = 0 /\ Minor(e) \in kept
      BY <1>2, <1>5 DEF kept
    <3>2. QED
      BY <3>1
  <2>5. plain \subseteq chosen
    OBVIOUS
  <2> HIDE DEF plain, chosen
  <2>6. Good(plain) /\ plain # {} /\ m \in plain
    BY <1>4, <1>11, <2>3, <2>5, GoodSubset
  <2>7. o \in plain /\ \A w \in plain : w = o \/ Less(o, w)
    BY <2>6, NewestFacts
  <2>8. o # m
    <3>1. \E v \in N : v # m
      <4> SUFFICES ASSUME \A v \in N : v = m PROVE FALSE
        OBVIOUS
      <4>1. N = {m}
        BY <1>4
      <4>2. Cardinality(N) = 1
        BY <4>1, FS_Singleton
      <4>3. QED
        BY <2>1, <4>2
    <3>2. PICK v \in N : v # m
      BY <3>1
    <3>3. Less(v, m)
      BY <1>3, <1>4, <3>2
    <3>4. v \in plain
      BY <2>3
    <3>5. v = o \/ Less(o, v)
      BY <2>7, <3>4
    <3>6. QED
      BY <2>6, <2>7, <3>2, <3>3, <3>4, <3>5, LessFacts
  <2>9. \A c \in X : c # o
    <3> SUFFICES ASSUME NEW c \in X, c = o PROVE FALSE
      OBVIOUS
    <3>1. Less(m, o)
      BY <1>7
    <3>2. m = o \/ Less(o, m)
      BY <2>6, <2>7
    <3>3. QED
      BY <2>6, <2>7, <3>1, <3>2, LessFacts
  <2>10. D = chosen \ {o}
    <3>1. D = DropOne(chosen, kept)
      BY <1>10, <1>13, CapPreferringFacts
    <3>2. DropOne(chosen, kept) = chosen \ {Oldest(IF plain = {} THEN chosen ELSE plain)}
      BY DEF DropOne, plain
    <3>3. QED
      BY <2>6, <3>1, <3>2
  <2>11. o \in chosen
    BY <2>5, <2>7
  <2>12. Cardinality(D) = 5
    <3>1. Cardinality(chosen \ {o}) = Cardinality(chosen) - 1
      BY <1>8, <2>11, FS_RemoveElement
    <3>2. QED
      BY <1>13, <2>10, <3>1
  <2> HIDE DEF D, o
  <2>13. /\ D \subseteq L \cup X /\ X \subseteq D /\ m \in D /\ E \subseteq D
         /\ NewestOf(1, Supported(R)) \subseteq D
    BY <1>4, <1>5, <1>6, <2>4, <2>7, <2>8, <2>9, <2>10 DEF chosen
  <2>14. VersionCap("desktop") = 5
    BY DEF VersionCap, maxCMTServerVersions
  <2>15. Derives("desktop", R, known_, Ascending(D))
    BY <2>12, <2>13, <2>14, AscendingDerives DEF L, X, m, E
  <2>16. QED
    BY <1>1, <2>15
<1>14. QED
  BY <1>12, <1>13
(* The newest stable version is the newest with extended support or the    *)
(* newest without it, so the three places of a mobile run suffice.         *)
LEMMA MobileDerives ==
  ASSUME NEW R, Listed(R), LatestStable(R) # {}, NEW known_
  PROVE  Derives("mobile", R, known_, MobileVersions(R, known_))
<1> DEFINE L == LatestStable(R)
           m == Newest(L)
           E == Supported(R)
           P == L \ E
           X == RCSlot(R, known_)
           A == NewestOf(1, E)
           B == NewestOf(1, P)
           F == A \cup B \cup X
           room == 3 - Cardinality(F)
           K == NewestOf(room, L \ F)
           U == F \cup K
           D == NewestOf(3, U)
<1>1. MobileVersions(R, known_) = Ascending(D)
  BY DEF MobileVersions, Supported, maxMobileCMTServerVersions
<1>2. Good(L) /\ L # {} /\ Good(E) /\ E \subseteq L
  BY StableFacts, SupportedFacts
<1>3. Good(X) /\ Cardinality(X) \in Nat /\ Cardinality(X) <= 1
  BY RCSlotFacts
<1> HIDE DEF L, E, X, m
<1>4. Good(P)
  BY <1>2, GoodSubset
<1> HIDE DEF P
<1>5. m \in L /\ \A w \in L : w = m \/ Less(w, m)
  BY <1>2, NewestFacts DEF m
<1>6. /\ A \subseteq E /\ Good(A) /\ Cardinality(A) \in Nat /\ Cardinality(A) <= 1
      /\ B \subseteq P /\ Good(B) /\ Cardinality(B) \in Nat /\ Cardinality(B) <= 1
      /\ E # {} => Newest(E) \in A
      /\ P # {} => Newest(P) \in B
  <2>1. \A S : Good(S) =>
          /\ NewestOf(1, S) \subseteq S /\ Good(NewestOf(1, S))
          /\ Cardinality(NewestOf(1, S)) \in Nat /\ Cardinality(NewestOf(1, S)) <= 1
          /\ S # {} => Newest(S) \in NewestOf(1, S)
    BY NewestOfFacts
  <2>2. QED
    BY <1>2, <1>4, <2>1
<1>7. m \in A \cup B
  <2>1. CASE m \in E
    <3>1. Newest(E) \in E /\ (m = Newest(E) \/ Less(m, Newest(E)))
      BY <1>2, <2>1, NewestFacts
    <3>2. m = Newest(E)
      BY <1>2, <1>5, <3>1, LessFacts
    <3>3. QED
      BY <1>6, <2>1, <3>2
  <2>2. CASE m \notin E
    <3>1. m \in P /\ P \subseteq L
      BY <1>5, <2>2 DEF P
    <3>2. Newest(P) \in P /\ (m = Newest(P) \/ Less(m, Newest(P)))
      BY <1>4, <3>1, NewestFacts
    <3>3. m = Newest(P)
      BY <1>2, <1>5, <3>1, <3>2, LessFacts
    <3>4. QED
      BY <1>6, <3>1, <3>3
  <2>3. QED
    BY <2>1, <2>2
<1> HIDE DEF A, B
<1>8. Good(F) /\ Cardinality(F) \in Nat /\ Cardinality(F) <= 3
  <2> DEFINE Y == A \cup B
  <2>1. Good(Y) /\ Cardinality(Y) <= Cardinality(A) + Cardinality(B)
    BY <1>6, GoodUnion
  <2> HIDE DEF Y
  <2>2. Good(Y \cup X) /\ Cardinality(Y \cup X) <= Cardinality(Y) + Cardinality(X)
    BY <1>3, <2>1, GoodUnion
  <2>3. Cardinality(Y) \in Nat /\ Cardinality(Y \cup X) \in Nat
    BY <2>1, <2>2, FS_CardinalityType DEF Good
  <2>4. Cardinality(Y \cup X) <= 3
    BY <1>3, <1>6, <2>1, <2>2, <2>3
  <2>5. QED
    BY <2>2, <2>3, <2>4 DEF Y
<1>9. F \subseteq L \cup X
  BY <1>2, <1>6 DEF P
<1>10. X \subseteq F /\ A \subseteq F /\ m \in F
  BY <1>7
<1> HIDE DEF F
<1>11. room \in Nat
  BY <1>8
<1>12. Good(L \ F)
  BY <1>2, GoodSubset
<1>13. K \subseteq L \ F /\ Good(K) /\ Cardinality(K) \in Nat /\ Cardinality(K) <= room
  <2> DEFINE G == L \ F
  <2>1. Good(G)
    BY <1>12
  <2> HIDE DEF G, room
  <2>2. NewestOf(room, G) \subseteq G /\ Good(NewestOf(room, G))
        /\ Cardinality(NewestOf(room, G)) \in Nat /\ Cardinality(NewestOf(room, G)) <= room
    BY <1>11, <2>1, NewestOfFacts
  <2>3. QED
    BY <2>2 DEF G
<1> HIDE DEF K
<1>14. Good(U) /\ Cardinality(U) <= 3
  <2>1. Good(U) /\ Cardinality(U) <= Cardinality(F) + Cardinality(K)
    BY <1>8, <1>13, GoodUnion
  <2>2. Cardinality(U) \in Nat
    BY <2>1, FS_CardinalityType DEF Good
  <2> HIDE DEF U
  <2>3. Cardinality(U) <= 3
    BY <1>8, <1>13, <2>1, <2>2
  <2>4. QED
    BY <2>1, <2>3
<1>15. D = U
  <2> HIDE DEF U
  <2>1. QED
    BY <1>14, NewestOfFacts
<1>16. U \subseteq L \cup X /\ X \subseteq U /\ m \in U /\ A \subseteq U
  BY <1>9, <1>10, <1>13
<1> HIDE DEF U, D
<1>17. Derives("mobile", R, known_, Ascending(U))
  <2>1. VersionCap("mobile") = 3
    BY DEF VersionCap, maxMobileCMTServerVersions
  <2>2. "mobile" # "desktop"
    OBVIOUS
  <2>3. QED
    BY <1>14, <1>16, <2>1, <2>2, AscendingDerives DEF L, m, E, X, A
<1>18. QED
  BY <1>1, <1>15, <1>17
-----------------------------------------------------------------------------
(* What such a list has, said of the releases.                             *)

(* A stable version is released and no candidate; the candidate, if there  *)
(* is one, is the tag picked for the newest patch of the channel.          *)
LEMMA StableOrCandidate ==
  ASSUME NEW R, Listed(R), NEW known_
  PROVE  /\ \A v \in LatestStable(R) :
              /\ v.rc = 0
              /\ \E r \in R : r.v = v /\ ~r.draft
              /\ \A r \in R : r.v = v => ~r.prerelease
         /\ \A c \in RCSlot(R, known_) :
              /\ \E q \in RCChannel(R) : c = q.v /\ c = PickTag(SamePatch(R, q), known_)
              /\ \E r \in R : r.v = c /\ ~r.draft /\ (r.prerelease \/ c.rc > 0)
<1>1. ASSUME NEW v \in LatestStable(R)
      PROVE  /\ v.rc = 0
             /\ \E r \in R : r.v = v /\ ~r.draft
             /\ \A r \in R : r.v = v => ~r.prerelease
  <2>1. v.rc = 0 /\ \E r \in General(R) : r.v = v
    BY StableFacts
  <2>2. PICK r \in General(R) : r.v = v
    BY <2>1
  <2>3. r \in R /\ ~r.draft /\ ~r.prerelease
    BY DEF General, RCChannel, Counted
  <2>4. \A q \in R : q.v = v => q = r
    BY <2>2, <2>3 DEF Listed
  <2>5. QED
    BY <2>1, <2>2, <2>3, <2>4
<1>2. ASSUME NEW c \in RCSlot(R, known_)
      PROVE  /\ \E q \in RCChannel(R) : c = q.v /\ c = PickTag(SamePatch(R, q), known_)
             /\ \E r \in R : r.v = c /\ ~r.draft /\ (r.prerelease \/ c.rc > 0)
  <2>1. c \in Candidates(R, known_)
    BY RCSlotFacts
  <2>2. PICK q \in RCChannel(R) : c = q.v /\ c = PickTag(SamePatch(R, q), known_)
    BY <2>1, CandidateFacts
  <2>3. q \in R /\ ~q.draft /\ (q.prerelease \/ q.v.rc > 0)
    BY DEF RCChannel, Counted
  <2>4. QED
    BY <2>2, <2>3
<1>3. QED
  BY <1>1, <1>2
LEMMA DerivesAnchors ==
  ASSUME NEW R, Listed(R), NEW known_, NEW kind, NEW s, Derives(kind, R, known_, s)
  PROVE  /\ NewestOf(1, LatestStable(R)) \cup NewestOf(1, Supported(R)) \subseteq Elements(s)
         /\ kind = "desktop" => NewestOf(2, Supported(R)) \subseteq Elements(s)
         /\ \A i, j \in DOMAIN s : i < j => Less(s[i], s[j])
         /\ \A v \in Elements(s) : \E r \in R : r.v = v /\ ~r.draft
<1>1. Elements(s) \subseteq LatestStable(R) \cup RCSlot(R, known_)
  BY DEF Derives
<1>2. \A v \in Elements(s) : \E r \in R : r.v = v /\ ~r.draft
  <2> TAKE v \in Elements(s)
  <2>1. v \in LatestStable(R) \/ v \in RCSlot(R, known_)
    BY <1>1
  <2>2. QED
    BY <2>1, StableOrCandidate
<1>3. QED
  BY <1>2 DEF Derives

(* The versions of a list that are not final.                              *)
Early(R, s) == {v \in Elements(s) : \E r \in R : r.v = v /\ (r.prerelease \/ v.rc > 0)}

LEMMA DerivesOneCandidate ==
  ASSUME NEW R, Listed(R), LatestStable(R) # {}, NEW known_, NEW kind, NEW s,
         Derives(kind, R, known_, s)
  PROVE  LET pre == Early(R, s)
         IN  /\ Cardinality(pre) <= 1
             /\ \A v \in pre, w \in Elements(s) \ pre : Less(w, v)
             /\ \A v, w \in Elements(s) \ pre : Minor(v) = Minor(w) => v = w
<1> DEFINE L == LatestStable(R)
           X == RCSlot(R, known_)
           pre == {v \in Elements(s) : \E r \in R : r.v = v /\ (r.prerelease \/ v.rc > 0)}
<1>1. /\ Good(X) /\ Cardinality(X) \in Nat /\ Cardinality(X) <= 1
      /\ \A c \in X : Less(Newest(L), c)
  BY RCSlotFacts
<1>2. Good(L) /\ \A v, w \in L : Minor(v) = Minor(w) => v = w
  BY StableFacts
<1>3. X \subseteq Elements(s) /\ Elements(s) \subseteq L \cup X
  BY DEF Derives
<1>4. \A v \in L : v \notin pre
  <2> TAKE v \in L
  <2>1. ~(v.rc > 0)
    BY StableOrCandidate
  <2>2. \A r \in R : r.v = v => ~r.prerelease
    BY StableOrCandidate
  <2>3. QED
    BY <2>1, <2>2
<1>5. X \subseteq pre
  <2> SUFFICES ASSUME NEW c \in X PROVE c \in pre
    OBVIOUS
  <2>1. \E r \in R : r.v = c /\ (r.prerelease \/ c.rc > 0)
    BY StableOrCandidate
  <2>2. QED
    BY <1>3, <2>1
<1>6. pre \subseteq Elements(s)
  OBVIOUS
<1> HIDE DEF pre
<1>7. pre = X
  BY <1>3, <1>4, <1>5, <1>6
<1>8. Elements(s) \ pre \subseteq L
  BY <1>3, <1>7
<1>9. ASSUME NEW v \in pre, NEW w \in Elements(s) \ pre PROVE Less(w, v)
  <2>1. Good(L \cup X)
    BY <1>1, <1>2, GoodUnion
  <2>2. w \in L /\ v \in X /\ Less(Newest(L), v)
    BY <1>1, <1>7, <1>8, <1>9
  <2>3. Newest(L) \in L /\ (w = Newest(L) \/ Less(w, Newest(L)))
    <3> HIDE DEF L
    <3>1. QED
      BY <1>2, <2>2, NewestFacts
  <2> HIDE DEF L, X
  <2>4. w \in L \cup X /\ Newest(L) \in L \cup X /\ v \in L \cup X
    BY <2>2, <2>3
  <2>5. Less(w, Newest(L)) => Less(w, v)
    BY <2>1, <2>2, <2>4, LessFacts
  <2>6. QED
    BY <2>2, <2>3, <2>5
<1>10. Cardinality(pre) <= 1
  BY <1>1, <1>7
<1>11. \A v, w \in Elements(s) \ pre : Minor(v) = Minor(w) => v = w
  BY <1>2, <1>8
<1>12. QED
  BY <1>9, <1>10, <1>11 DEF pre, Early

(* Versions of one patch stand alike to a stable one they are above.       *)
LEMMA PatchAbove ==
  ASSUME NEW a \in Version, NEW b \in Version, NEW l \in Version,
         Patch(a) = Patch(b), l.rc = 0, Less(l, a)
  PROVE  Less(l, b) /\ Patch(l) # Patch(a)
<1>1. a.major = b.major /\ a.minor = b.minor /\ a.patch = b.patch
  BY DEF Patch
<1>2. Numbers(a) /\ Numbers(b) /\ Numbers(l)
  BY VersionFacts
<1>3. Less(l, b)
  BY <1>1, <1>2 DEF Less, Numbers
<1>4. l.major # a.major \/ l.minor # a.minor \/ l.patch # a.patch
  BY <1>2 DEF Less, Numbers
<1>5. QED
  BY <1>3, <1>4 DEF Patch

(* One patch is either wholly below another or wholly above it.            *)
LEMMA PatchBelow ==
  ASSUME NEW a \in Version, NEW b \in Version, NEW c \in Version,
         Patch(b) = Patch(c), Patch(a) # Patch(b), Less(a, b)
  PROVE  Less(a, c)
<1>1. b.major = c.major /\ b.minor = c.minor /\ b.patch = c.patch
  BY DEF Patch
<1>2. Numbers(a) /\ Numbers(b) /\ Numbers(c)
  BY VersionFacts
<1>3. a.major # b.major \/ a.minor # b.minor \/ a.patch # b.patch
  BY DEF Patch
<1>4. QED
  BY <1>1, <1>2, <1>3 DEF Less, Numbers

LEMMA DerivesCandidate ==
  ASSUME NEW R, Listed(R), LatestStable(R) # {}, NEW known_, NEW kind, NEW s,
         Derives(kind, R, known_, s), NEW r \in RCChannel(R),
         \A q \in Counted(R) : q.v = r.v \/ Less(q.v, r.v) \/ Patch(q.v) = Patch(r.v),
         Less(Newest(LatestStable(R)), r.v)
  PROVE  \E v \in Elements(s) : Patch(v) = Patch(r.v)
<1> DEFINE C == Candidates(R, known_)
           L == LatestStable(R)
           n == Newest(C)
           l == Newest(L)
<1>1. /\ Good(C) /\ Good({q.v : q \in RCChannel(R)})
      /\ \A c \in C : \E q \in RCChannel(R) : c = q.v
      /\ \E c \in C : Patch(c) = Patch(r.v)
  BY CandidateFacts
<1>2. PICK c \in C : Patch(c) = Patch(r.v)
  BY <1>1
<1>3. Good(L) /\ L # {} /\ \A v \in L : v.rc = 0
  BY StableFacts
<1>4. Less(l, r.v)
  OBVIOUS
<1> HIDE DEF C, L
<1>5. n \in C /\ (c = n \/ Less(c, n))
  BY <1>1, <1>2, NewestFacts
<1>6. l \in L /\ l.rc = 0 /\ l \in Version
  BY <1>3, NewestFacts DEF Good
<1>7. r.v \in Version
  BY DEF Listed, RCChannel, Counted
<1>8. n \in Version /\ c \in Version
  BY <1>1, <1>5 DEF Good
<1> HIDE DEF n, l
<1>9. n = r.v \/ Less(n, r.v) \/ Patch(n) = Patch(r.v)
  <2>1. PICK q \in RCChannel(R) : n = q.v
    BY <1>1, <1>5
  <2>2. q \in Counted(R)
    BY DEF RCChannel
  <2>3. QED
    BY <2>1, <2>2
<1>10. Patch(n) = Patch(r.v)
  <2> SUFFICES ASSUME Patch(n) # Patch(r.v) PROVE FALSE
    OBVIOUS
  <2>1. Less(n, r.v)
    BY <1>9
  <2>2. Less(n, c)
    BY <1>2, <1>7, <1>8, <2>1, PatchBelow
  <2>3. QED
    BY <1>1, <1>2, <1>5, <2>2, LessFacts
<1>11. Less(l, n)
  BY <1>4, <1>6, <1>7, <1>8, <1>10, PatchAbove
<1>12. n \in RCSlot(R, known_)
  BY <1>5, <1>11, RCSlotFacts DEF C, L, n, l
<1>13. n \in Elements(s)
  BY <1>12 DEF Derives
<1>14. QED
  BY <1>10, <1>13

LEMMA DerivesPromoted ==
  ASSUME NEW R, Listed(R), NEW known_, NEW kind, NEW s, Derives(kind, R, known_, s),
         NEW b \in Contested(R), NEW c \in Contested(R),
         Patch(b.v) = Patch(c.v), b.v.rc = 0, c.v.rc > 0,
         \A q \in SamePatch(R, b) : q = b \/ q = c \/ Less(q.v, c.v),
         b.sha = c.sha, {b, c} \subseteq known_
  PROVE  \A v \in Elements(s) : Patch(v) = Patch(b.v) => v = b.v
<1> SUFFICES ASSUME NEW v \in Elements(s), Patch(v) = Patch(b.v), v # b.v PROVE FALSE
  OBVIOUS
<1>1. b \in RCChannel(R) /\ c \in RCChannel(R) /\ b \in R /\ c \in R
  BY DEF Contested, RCChannel, Counted
<1>2. v \notin LatestStable(R)
  <2> SUFFICES ASSUME v \in LatestStable(R) PROVE v = b.v
    OBVIOUS
  <2>1. v.rc = 0
    BY StableOrCandidate
  <2>2. v \in Version /\ v.ok
    BY StableFacts DEF Good
  <2>3. b.v \in Version /\ b.v.ok
    BY <1>1 DEF RCChannel, Counted, Listed
  <2>4. QED
    BY <2>1, <2>2, <2>3, VersionFacts
<1>3. v \in RCSlot(R, known_)
  BY <1>2 DEF Derives
<1>4. PICK q \in RCChannel(R) : v = q.v /\ v = PickTag(SamePatch(R, q), known_)
  BY <1>3, StableOrCandidate
<1> DEFINE T == SamePatch(R, b)
           bare == CHOOSE t \in T : t.v.rc = 0
           rcN  == {t \in T : t.v.rc > 0}
           best == CHOOSE t \in rcN : \A u \in rcN : ~Less(t.v, u.v)
<1>5. SamePatch(R, q) = T
  BY <1>4 DEF SamePatch
<1>6. b \in T /\ c \in T
  BY <1>1 DEF SamePatch
<1>7. \A t \in T : t.v \in Version /\ Numbers(t.v) /\ Patch(t.v) = Patch(c.v)
  <2> TAKE t \in T
  <2>1. t \in R /\ Patch(t.v) = Patch(b.v)
    BY DEF SamePatch, RCChannel, Counted
  <2>2. t.v \in Version
    BY <2>1 DEF Listed
  <2>3. QED
    BY <2>1, <2>2, VersionFacts
<1>8. \A t \in T : t = b \/ t = c \/ Less(t.v, c.v)
  OBVIOUS
<1>9. \A t \in T : t.v.rc = 0 => t = b
  <2> SUFFICES ASSUME NEW t \in T, t.v.rc = 0, Less(t.v, c.v) PROVE FALSE
    BY <1>8
  <2>1. t.v.major = c.v.major /\ t.v.minor = c.v.minor /\ t.v.patch = c.v.patch
    BY <1>7 DEF Patch
  <2>2. QED
    BY <1>6, <1>7, <2>1 DEF Less, Numbers
<1>10. bare = b
  <2> HIDE DEF T
  <2>1. QED
    BY <1>6, <1>9
<1>11. best = c
  <2>1. c \in rcN /\ b \notin rcN
    BY <1>6
  <2>2. \A u \in rcN : u = c \/ Less(u.v, c.v)
    BY <1>8, <2>1
  <2>3. \A u \in rcN : Numbers(u.v)
    BY <1>7
  <2> HIDE DEF rcN
  <2>4. \A u \in rcN : ~Less(c.v, u.v)
    <3> TAKE u \in rcN
    <3>1. Numbers(u.v) /\ Numbers(c.v)
      BY <2>1, <2>3
    <3>2. ~Less(c.v, c.v) /\ ~(Less(u.v, c.v) /\ Less(c.v, u.v))
      BY <3>1 DEF Less, Numbers
    <3>3. QED
      BY <2>2, <3>2
  <2>5. \A t \in rcN : (\A u \in rcN : ~Less(t.v, u.v)) => t = c
    BY <2>1, <2>2
  <2>6. QED
    BY <2>1, <2>4, <2>5
<1>12. rcN # {} /\ rcN # T
  BY <1>6
<1>13. PickTag(T, known_) = b.v
  <2>1. PickTag(T, known_) =
          IF rcN = {} THEN bare.v
          ELSE IF rcN = T THEN best.v
          ELSE IF ({bare, best} \subseteq known_ /\ bare.sha = best.sha)
                  \/ (best.published # 0 /\ bare.published > best.published)
               THEN bare.v ELSE best.v
    BY DEF PickTag
  <2> HIDE DEF bare, best, rcN, T
  <2>2. QED
    BY <1>10, <1>11, <1>12, <2>1
<1>14. QED
  BY <1>4, <1>5, <1>13

(* The cap takes nothing from a derived list: it is never too long.        *)
LEMMA DerivesUncapped ==
  ASSUME NEW R, NEW known_, NEW s
  PROVE  /\ Derives("mobile", R, known_, s) =>
              SpanVersions(s, VersionCap("mobile")) = s
         /\ Derives("desktop", R, known_, s) =>
              CapVersions(s, VersionCap("desktop")) = s
<1>1. VersionCap("mobile") \in Nat /\ VersionCap("desktop") \in Nat
  BY DEF VersionCap, maxMobileCMTServerVersions, maxCMTServerVersions
<1>2. \A kind : Derives(kind, R, known_, s) => Len(s) \in 1..VersionCap(kind)
  BY DEF Derives
<1>3. QED
  BY <1>1, <1>2 DEF SpanVersions, CapVersions

(* The list after the cap.                                                 *)
Trimmed(kind, s) ==
  IF kind = "mobile" THEN SpanVersions(s, VersionCap(kind)) ELSE CapVersions(s, VersionCap(kind))

(* CapKeepsEnds for a list s, whose shortened form is t.                   *)
EndsKept(kind, s, t) ==
  LET P == {v \in Elements(s) : v.ok}
      T == Elements(t)
  IN  /\ P # {} => Newest(P) \in T
      /\ Len(s) > VersionCap(kind) =>
           /\ kind = "mobile" /\ P # {} => Oldest(P) \in T /\ T \subseteq P
           /\ kind = "desktop" =>
                \A v \in Elements(s) \ T, w \in T : ~ListLess(w, v)

LEMMA LengthOf ==
  ASSUME NEW T, NEW s \in Seq(T), s # <<>>
  PROVE  Len(s) \in Nat /\ Len(s) >= 1
OBVIOUS

LEMMA CapKeeps ==
  ASSUME NEW kind \in {"desktop", "mobile"}, NEW s \in Seq(Version), s # <<>>
  PROVE  Len(Trimmed(kind, s)) \in 1..VersionCap(kind) /\ EndsKept(kind, s, Trimmed(kind, s))
<1> DEFINE P == {v \in Elements(s) : v.ok}
           t == Trimmed(kind, s)
           T == Elements(t)
<1>1. Good(P) /\ Len(s) \in Nat /\ Len(s) >= 1
  BY ParseableFacts, LengthOf
<1>2. CASE kind = "mobile"
  <2>1. t = SpanVersions(s, maxMobileCMTServerVersions) /\ VersionCap(kind) = 3
        /\ maxMobileCMTServerVersions = 3
    BY <1>2 DEF Trimmed, VersionCap, maxMobileCMTServerVersions
  <2>2. /\ t \in Seq(Version) /\ Len(t) <= 3 /\ t # <<>>
        /\ P # {} => Newest(P) \in T
        /\ Len(s) > 3 /\ P # {} => Oldest(P) \in T /\ T \subseteq P
    <3> HIDE DEF t
    <3>1. QED
      BY <2>1, SpanFacts
  <2> HIDE DEF t
  <2>3. Len(t) \in 1..3
    <3>1. Len(t) \in Nat /\ Len(t) >= 1
      BY <2>2, LengthOf
    <3> DEFINE k == Len(t)
    <3>2. k \in Nat /\ k >= 1 /\ k <= 3
      BY <2>2, <3>1
    <3> HIDE DEF k
    <3>3. k \in 1..3
      BY <3>2
    <3>4. QED
      BY <3>3 DEF k
  <2>4. QED
    BY <1>2, <2>1, <2>2, <2>3 DEF EndsKept, t
<1>3. CASE kind = "desktop"
  <2>1. t = CapVersions(s, 5) /\ VersionCap(kind) = 5
    BY <1>3 DEF Trimmed, VersionCap, maxCMTServerVersions
  <2>2. /\ t \in Seq(Version) /\ T \subseteq Elements(s)
        /\ Len(t) = IF Len(s) <= 5 THEN Len(s) ELSE 5
        /\ \A v \in Elements(s) \ T, w \in T : ~ListLess(w, v)
    <3> DEFINE u == CapVersions(s, 5)
    <3>1. 5 \in Nat \ {0}
      OBVIOUS
    <3>2. /\ u \in Seq(Version) /\ Elements(u) \subseteq Elements(s)
          /\ Len(u) = IF Len(s) <= 5 THEN Len(s) ELSE 5
          /\ \A v \in Elements(s) \ Elements(u), w \in Elements(u) : ~ListLess(w, v)
      BY <3>1, CapFacts
    <3> HIDE DEF u, t
    <3>3. t = u
      BY <2>1 DEF u
    <3>4. QED
      BY <3>2, <3>3
  <2> HIDE DEF t
  <2>3. Len(t) \in 1..5
    <3> DEFINE n == Len(s)  k == Len(t)
    <3>1. n \in Nat /\ n >= 1 /\ k = IF n <= 5 THEN n ELSE 5
      BY <1>1, <2>2
    <3> HIDE DEF n, k
    <3>2. k \in 1..5
      BY <3>1
    <3>3. QED
      BY <3>2 DEF k
  <2>4. T # {}
    <3>1. t # <<>>
      <4>1. \A k \in 1..5 : k # 0
        OBVIOUS
      <4>2. Len(t) # 0
        BY <2>3, <4>1, Zenon
      <4>3. QED
        BY <4>2, NotEmpty
    <3>2. t[Len(t)] \in T
      BY <2>2, <3>1, ElementsFacts
    <3>3. QED
      BY <3>2
  <2>5. ASSUME P # {} PROVE Newest(P) \in T
    <3>1. Newest(P) \in P /\ \A w \in P : w = Newest(P) \/ Less(w, Newest(P))
      <4> HIDE DEF P
      <4>1. QED
        BY <1>1, <2>5, NewestFacts
    <3>2. PICK w \in T : TRUE
      BY <2>4
    <3> SUFFICES ASSUME Newest(P) \notin T PROVE FALSE
      OBVIOUS
    <3>3. ~ListLess(w, Newest(P))
      BY <2>2, <3>1
    <3>4. w \in Elements(s) /\ w \in Version /\ w.ok \in BOOLEAN
      BY <2>2, ElementsFacts, VersionFacts
    <3>5. Newest(P).ok
      BY <3>1
    <3>6. w.ok /\ ~Less(w, Newest(P))
      BY <3>3, <3>4, <3>5 DEF ListLess
    <3>7. w = Newest(P)
      BY <3>1, <3>4, <3>6
    <3>8. QED
      BY <3>7
  <2>6. QED
    BY <1>3, <2>1, <2>2, <2>3, <2>5 DEF EndsKept, t
<1>4. QED
  BY <1>2, <1>3
-----------------------------------------------------------------------------
(* The selection.                                                          *)

(* Where the list comes from.  The phases after the choice remember it:    *)
(* releases were listed only if no list is configured.                     *)
FromConfig == config # <<>> /\ versions = config
FromDefault == config = <<>> /\ LatestStable(releases) = {} /\ versions = DefaultList
FromReleases ==
  /\ config = <<>>
  /\ LatestStable(releases) # {}
  /\ Derives(instanceType, releases, known, versions)

SelectInv ==
  /\ instanceType \in {"desktop", "mobile"}
  /\ config \in Seq(Version)
  /\ phase \in {"start", "listed", "classified", "chosen", "capped"}
  /\ releases = {} \/ (releases \in Releases /\ config = <<>>)
  /\ phase = "start" => releases = {}
  /\ phase \in {"listed", "classified"} => config = <<>>
  /\ phase = "chosen" => FromConfig \/ FromDefault \/ FromReleases
  /\ phase = "capped" =>
       /\ LatestStable(releases) # {} => FromReleases
       /\ Len(versions) \in 1..VersionCap(instanceType)
       /\ EndsKept(instanceType, config, versions)

LEMMA NothingListed == LatestStable({}) = {} /\ Listed({})
<1>1. General({}) = {}
  BY DEF General, Counted
<1>2. LatestStable({}) = {}
  BY <1>1 DEF LatestStable
<1>3. IsFiniteSet({})
  BY FS_EmptySet
<1>4. QED
  BY <1>2, <1>3 DEF Listed

LEMMA EveryListed == SelectInv => Listed(releases)
<1> SUFFICES ASSUME SelectInv PROVE Listed(releases)
  OBVIOUS
<1>1. releases = {} \/ releases \in Releases
  BY DEF SelectInv
<1>2. releases \in Releases => Listed(releases)
  BY ReleasesAssumption DEF Listed
<1>3. QED
  BY <1>1, <1>2, NothingListed

LEMMA SelectInitInv == SelectInit => SelectInv
<1> SUFFICES ASSUME SelectInit PROVE SelectInv
  OBVIOUS
<1>1. phase = "start"
  BY DEF SelectInit
<1>2. QED
  BY <1>1, ConfigAssumption DEF SelectInit, SelectInv

LEMMA ChooseInv ==
  ASSUME SelectInv, Choose PROVE SelectInv'
<1>1. /\ phase = "classified" /\ phase' = "chosen" /\ config = <<>>
      /\ instanceType \in {"desktop", "mobile"}
      /\ UNCHANGED <<instanceType, config, releases, known>>
  BY DEF SelectInv, Choose
<1>2. Listed(releases)
  BY EveryListed
<1>3. versions' = IF LatestStable(releases) = {} THEN DefaultList
                  ELSE IF instanceType = "mobile" THEN MobileVersions(releases, known)
                  ELSE DesktopVersions(releases, known)
  BY DEF Choose
<1>4. FromDefault' \/ FromReleases'
  <2>1. CASE LatestStable(releases) = {}
    BY <1>1, <1>3, <2>1 DEF FromDefault
  <2>2. CASE LatestStable(releases) # {} /\ instanceType = "mobile"
    <3>1. Derives("mobile", releases, known, MobileVersions(releases, known))
      BY <1>2, <2>2, MobileDerives
    <3>2. QED
      BY <1>1, <1>3, <2>2, <3>1 DEF FromReleases
  <2>3. CASE LatestStable(releases) # {} /\ instanceType # "mobile"
    <3>1. Derives("desktop", releases, known, DesktopVersions(releases, known))
      BY <1>2, <2>3, DesktopDerives
    <3>2. instanceType = "desktop"
      BY <1>1, <2>3
    <3>3. QED
      BY <1>1, <1>3, <2>3, <3>1, <3>2 DEF FromReleases
  <2>4. QED
    BY <2>1, <2>2, <2>3
<1>5. phase' # "start" /\ phase' # "capped" /\ phase' \notin {"listed", "classified"}
  BY <1>1
<1> HIDE DEF FromDefault, FromReleases
<1>6. QED
  BY <1>1, <1>4, <1>5 DEF SelectInv

LEMMA CapInv ==
  ASSUME SelectInv, Cap PROVE SelectInv'
<1>1. /\ phase = "chosen" /\ phase' = "capped"
      /\ instanceType \in {"desktop", "mobile"} /\ config \in Seq(Version)
      /\ UNCHANGED <<instanceType, config, releases, known>>
  BY DEF SelectInv, Cap
<1>2. versions' = Trimmed(instanceType, versions)
  BY DEF Cap, Trimmed
<1>3. FromConfig \/ FromDefault \/ FromReleases
  BY <1>1 DEF SelectInv
<1>4. ASSUME config = <<>> PROVE EndsKept(instanceType, config, versions')
  <2>1. Elements(config) = {} /\ Len(config) = 0
    BY <1>4 DEF Elements
  <2>2. ~(Len(config) > VersionCap(instanceType))
    BY <2>1 DEF VersionCap, maxMobileCMTServerVersions, maxCMTServerVersions
  <2>3. QED
    BY <2>1, <2>2 DEF EndsKept
<1>5. CASE FromConfig
  <2>1. config # <<>> /\ versions = config
    BY <1>5 DEF FromConfig
  <2>2. releases = {}
    BY <2>1 DEF SelectInv
  <2>3. LatestStable(releases) = {}
    BY <2>2, NothingListed
  <2>4. /\ Len(Trimmed(instanceType, config)) \in 1..VersionCap(instanceType)
        /\ EndsKept(instanceType, config, Trimmed(instanceType, config))
    BY <1>1, <2>1, CapKeeps
  <2>5. QED
    BY <1>1, <1>2, <2>1, <2>2, <2>3, <2>4 DEF SelectInv
<1>6. CASE FromDefault
  <2>1. config = <<>> /\ LatestStable(releases) = {} /\ versions = DefaultList
    BY <1>6 DEF FromDefault
  <2>2. Len(Trimmed(instanceType, DefaultList)) \in 1..VersionCap(instanceType)
    BY <1>1, ConfigAssumption, CapKeeps
  <2>3. releases = {} \/ (releases \in Releases /\ config = <<>>)
    BY DEF SelectInv
  <2>4. EndsKept(instanceType, config, versions')
    BY <1>4, <2>1
  <2>5. QED
    BY <1>1, <1>2, <2>1, <2>2, <2>3, <2>4 DEF SelectInv
<1>7. CASE FromReleases
  <2>1. config = <<>> /\ LatestStable(releases) # {}
        /\ Derives(instanceType, releases, known, versions)
    BY <1>7 DEF FromReleases
  <2>2. Trimmed(instanceType, versions) = versions
    <3>1. CASE instanceType = "mobile"
      BY <2>1, <3>1, DerivesUncapped DEF Trimmed
    <3>2. CASE instanceType = "desktop"
      BY <2>1, <3>2, DerivesUncapped DEF Trimmed
    <3>3. QED
      BY <1>1, <3>1, <3>2
  <2>3. versions' = versions /\ FromReleases'
    BY <1>1, <1>2, <1>7, <2>2 DEF FromReleases
  <2>4. Len(versions) \in 1..VersionCap(instanceType)
    BY <2>1 DEF Derives
  <2>5. releases = {} \/ (releases \in Releases /\ config = <<>>)
    BY DEF SelectInv
  <2>6. EndsKept(instanceType, config, versions')
    BY <1>4, <2>1
  <2>7. QED
    BY <1>1, <2>1, <2>3, <2>4, <2>5, <2>6 DEF SelectInv
<1>8. QED
  BY <1>3, <1>5, <1>6, <1>7

LEMMA SelectStep == SelectInv /\ [SelectNext]_selectVars => SelectInv'
<1> SUFFICES ASSUME SelectInv, [SelectNext]_selectVars PROVE SelectInv'
  OBVIOUS
<1>1. CASE UseConfig
  <2>1. phase' = "chosen" /\ FromConfig'
    BY <1>1 DEF UseConfig, FromConfig
  <2>2. QED
    BY <1>1, <2>1 DEF UseConfig, SelectInv
<1>2. CASE ListReleases
  <2>1. phase' = "listed"
    BY <1>2 DEF ListReleases
  <2>2. QED
    BY <1>2, <2>1 DEF ListReleases, SelectInv
<1>3. CASE ListFails
  <2>1. releases = {}
    BY <1>3 DEF ListFails, SelectInv
  <2>2. phase' = "chosen" /\ FromDefault'
    BY <1>3, <2>1, NothingListed DEF ListFails, FromDefault
  <2>3. QED
    BY <1>3, <2>2 DEF ListFails, SelectInv
<1>4. CASE ResolveCommits
  <2>1. phase' = "classified"
    BY <1>4 DEF ResolveCommits
  <2>2. QED
    BY <1>4, <2>1 DEF ResolveCommits, SelectInv
<1>5. CASE Choose
  BY <1>5, ChooseInv
<1>6. CASE Cap
  BY <1>6, CapInv
<1>7. CASE UNCHANGED selectVars
  BY <1>7 DEF selectVars, SelectInv, FromConfig, FromDefault, FromReleases
<1>8. QED
  BY <1>1, <1>2, <1>3, <1>4, <1>5, <1>6, <1>7 DEF SelectNext

LEMMA SelectInvariant == SelectSpec => []SelectInv
<1>1. QED
  BY SelectInitInv, SelectStep, PTL DEF SelectSpec

(* A capped list that is derived is one that Derives describes.            *)
LEMMA DerivedDerives ==
  SelectInv /\ Derived =>
    /\ Listed(releases) /\ LatestStable(releases) # {}
    /\ Derives(instanceType, releases, known, versions)
BY EveryListed DEF SelectInv, Derived, FromReleases

(* The derived list has the newest stable version and those with extended  *)
(* support, ascending and released, whatever releases GitHub lists.        *)
THEOREM AnchorsAreKept == SelectSpec => []AnchorsKept
<1>1. SelectInv => AnchorsKept
  <2> SUFFICES ASSUME SelectInv, Derived PROVE AnchorsKept
    BY DEF AnchorsKept
  <2>1. /\ NewestOf(1, LatestStable(releases)) \cup NewestOf(1, Supported(releases))
             \subseteq Elements(versions)
        /\ instanceType = "desktop" => NewestOf(2, Supported(releases)) \subseteq Elements(versions)
        /\ \A i, j \in DOMAIN versions : i < j => Less(versions[i], versions[j])
        /\ \A v \in Elements(versions) : \E r \in releases : r.v = v /\ ~r.draft
    BY DerivedDerives, DerivesAnchors
  <2>2. QED
    BY <2>1 DEF AnchorsKept, Supported
<1>2. QED
  BY <1>1, SelectInvariant, PTL

(* At most one version of the list is a prerelease, above all the others,  *)
(* and no minor has two stable versions in it.                             *)
THEOREM CandidateIsAlone == SelectSpec => []OneCandidate
<1>1. SelectInv => OneCandidate
  <2> SUFFICES ASSUME SelectInv, Derived PROVE OneCandidate
    BY DEF OneCandidate
  <2>1. LET pre == Early(releases, versions)
        IN  /\ Cardinality(pre) <= 1
            /\ \A v \in pre, w \in Elements(versions) \ pre : Less(w, v)
            /\ \A v, w \in Elements(versions) \ pre : Minor(v) = Minor(w) => v = w
    BY DerivedDerives, DerivesOneCandidate
  <2>2. QED
    BY <2>1 DEF OneCandidate, Early
<1>2. QED
  BY <1>1, SelectInvariant, PTL

(* The newest tag of the candidates' channel, above every stable version,  *)
(* has a version of its patch in the list.                                 *)
THEOREM CandidateIsTested == SelectSpec => []CandidateTested
<1>1. SelectInv => CandidateTested
  <2> SUFFICES ASSUME SelectInv, Derived, NEW r \in RCChannel(releases), Ahead(r)
               PROVE  \E v \in Elements(versions) : Patch(v) = Patch(r.v)
    BY DEF CandidateTested
  <2>1. QED
    BY DerivedDerives, DerivesCandidate DEF Ahead
<1>2. QED
  BY <1>1, SelectInvariant, PTL

(* Of a patch whose bare tag is on the commit of its last candidate only   *)
(* the bare tag may be tested, and it is if the patch is the newest, above *)
(* all stable versions.                                                    *)
THEOREM PromotedTagIsTested == SelectSpec => []PromotedTagWins
<1>1. SelectInv => PromotedTagWins
  <2> SUFFICES ASSUME SelectInv, Derived,
                      NEW b \in Contested(releases), NEW c \in Contested(releases),
                      Patch(b.v) = Patch(c.v), b.v.rc = 0, c.v.rc > 0,
                      \A q \in SamePatch(releases, b) : q = b \/ q = c \/ Less(q.v, c.v),
                      b.sha = c.sha, {b, c} \subseteq known
               PROVE  /\ \A v \in Elements(versions) : Patch(v) = Patch(b.v) => v = b.v
                      /\ Ahead(b) => b.v \in Elements(versions)
    BY DEF PromotedTagWins
  <2>1. \A v \in Elements(versions) : Patch(v) = Patch(b.v) => v = b.v
    BY DerivedDerives, DerivesPromoted
  <2>2. ASSUME Ahead(b) PROVE b.v \in Elements(versions)
    <3>1. b \in RCChannel(releases)
      BY DEF Contested
    <3>2. \E v \in Elements(versions) : Patch(v) = Patch(b.v)
      BY <2>2, <3>1, DerivedDerives, DerivesCandidate DEF Ahead
    <3>3. QED
      BY <2>1, <3>2
  <2>3. QED
    BY <2>1, <2>2
<1>2. QED
  BY <1>1, SelectInvariant, PTL

(* No list is empty or over the cap, and shortening a configured list      *)
(* keeps its ends on mobile and its newest entries on desktop.             *)
THEOREM EndsAreKept == SelectSpec => []CapKeepsEnds
<1>1. SelectInv => CapKeepsEnds
  <2> SUFFICES ASSUME SelectInv, phase = "capped" PROVE CapKeepsEnds
    BY DEF CapKeepsEnds
  <2>1. Len(versions) \in 1..VersionCap(instanceType) /\ EndsKept(instanceType, config, versions)
    BY DEF SelectInv
  <2>2. QED
    BY <2>1 DEF CapKeepsEnds, EndsKept
<1>2. QED
  BY <1>1, SelectInvariant, PTL
=============================================================================
