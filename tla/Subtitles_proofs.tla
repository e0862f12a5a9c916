--------------------------- MODULE Subtitles_proofs ---------------------------
(***************************************************************************)
(* Safety of subtitle matching: which tracks a video gets and in which     *)
(* order, for every folder of subtitle files, every table of languages and *)
(* every preference.                                                       *)
(*                                                                         *)
(* The loop is described by how much of the pool it has been through: the  *)
(* tracks are those of the matching files met so far, one for each.  The   *)
(* order rests on the comparison alone: it looks at five numbers in turn,  *)
(* so it orders the tracks whatever their names.                           *)
(***************************************************************************)
EXTENDS Subtitles, FunctionTheorems, FiniteSetTheorems, SequenceTheorems,
        WellFoundedInduction, TLAPS

Tracks == [file : Files, lang : Nat, forced : BOOLEAN, sdh : BOOLEAN]

\* The files the loop has been through are the first of the pool.
taken == Len(pool) - Len(left)

LoopInPool ==
  /\ pref \in Prefs
  /\ pool \in Seq(Files) /\ left \in Seq(Files)
  /\ IsInjective(pool)
  /\ Len(left) <= Len(pool)
  /\ \A k \in DOMAIN left : left[k] = pool[taken + k]

\* The tracks are those of the matching files it has been through.
TracksOfTaken ==
  /\ out \in Seq(Tracks)
  /\ \A k \in DOMAIN out : \E i \in 1 .. taken : Matches(pool[i]) /\ out[k].file = pool[i]
  /\ \A i \in 1 .. taken : Matches(pool[i]) => \E k \in DOMAIN out : out[k].file = pool[i]
  /\ \A j, k \in DOMAIN out : out[j].file = out[k].file => j = k

\* Once sorted, no track is before one that stands ahead of it.
SortedAtTheEnd ==
  /\ sorted \in BOOLEAN
  /\ sorted => left = << >>
  /\ sorted => \A i, j \in DOMAIN out : i < j => ~Before(out[j], out[i])

IInv ==
  /\ LoopInPool
  /\ TracksOfTaken
  /\ SortedAtTheEnd

-----------------------------------------------------------------------------
(***************************************************************************)
(* First: a non-empty set of places has a first one.                       *)
(***************************************************************************)
LEMMA FirstIsFirst ==
  ASSUME NEW places \in SUBSET Nat, places # {}
  PROVE  First(places) \in places /\ \A j \in places : First(places) <= j
<1> DEFINE less == OpToRel(<, Nat)
<1>1. \E k \in places : \A j \in places : <<j, k>> \notin less
  BY NatLessThanWellFounded, WFMin
<1>2. \A j, k \in Nat : <<j, k>> \in less <=> j < k
  BY DEF OpToRel
<1> HIDE DEF less
<1>3. PICK k \in places : \A j \in places : <<j, k>> \notin less
  BY <1>1
<1>4. k \in Nat /\ \A j \in places : j \in Nat /\ ~(j < k)
  BY <1>2, <1>3
<1>5. \A j \in places : k <= j
  BY <1>4
<1> QED
  BY <1>5 DEF First

(***************************************************************************)
(* parseSubSuffix: the language is one of the table or none.               *)
(***************************************************************************)
LEMMA SuffixType ==
  ASSUME NEW suffix, DOMAIN suffix \subseteq Nat
  PROVE  /\ parseSubSuffix(suffix).lang \in Nat
         /\ parseSubSuffix(suffix).forced \in BOOLEAN
         /\ parseSubSuffix(suffix).sdh \in BOOLEAN
<1> DEFINE tags == {k \in DOMAIN suffix : suffix[k] \in DOMAIN langAliases}
           lang == IF tags = {} THEN NoLang ELSE langAliases[suffix[First(tags)]]
<1>1. lang \in Nat
  <2>1. CASE tags = {}
    BY <2>1 DEF NoLang
  <2>2. CASE tags # {}
    <3>1. First(tags) \in tags
      BY <2>2, FirstIsFirst
    <3>2. \A t \in DOMAIN langAliases : langAliases[t] \in DOMAIN langGroups
      <4>1. \A t \in UNION Range(langGroups) : \E l \in DOMAIN langGroups : t \in langGroups[l]
        BY DEF Range
      <4> QED
        BY <4>1 DEF langAliases
    <3>3. langAliases[suffix[First(tags)]] \in Nat
      BY <3>1, <3>2, SubtitlesAssumption
    <3> QED
      BY <2>2, <3>3
  <2> QED
    BY <2>1, <2>2
<1> HIDE DEF lang
<1>2. parseSubSuffix(suffix).lang = lang
  BY DEF parseSubSuffix, lang
<1>3. /\ parseSubSuffix(suffix).forced \in BOOLEAN
      /\ parseSubSuffix(suffix).sdh \in BOOLEAN
  BY DEF parseSubSuffix
<1> QED
  BY <1>1, <1>2, <1>3

(***************************************************************************)
(* The names of the files, and the suffixes cut from them, are sequences.  *)
(***************************************************************************)
LEMMA StemType ==
  ASSUME NEW f \in Files
  PROVE  /\ f.stem \in Seq(Range(f.stem)) /\ Len(f.stem) \in Nat \ {0}
         /\ DOMAIN Suffix(f.stem) \subseteq Nat
<1>1. f.stem \in Seq(Range(f.stem)) /\ f.stem # << >>
  BY SubtitlesAssumption
<1>2. Len(f.stem) \in Nat \ {0}
  BY <1>1, EmptySeq, LenProperties
<1>3. Tail(f.stem) \in Seq(Range(f.stem)) /\ DOMAIN Tail(f.stem) = 1 .. Len(Tail(f.stem))
  BY <1>1, HeadTailProperties, LenProperties
<1>4. DOMAIN Suffix(f.stem) \subseteq Nat
  BY <1>3 DEF Suffix
<1> QED
  BY <1>1, <1>2, <1>4

LEMMA TrackType == \A f \in Files : Track(f) \in Tracks /\ Track(f).file = f
BY StemType, SuffixType DEF Track, Tracks

-----------------------------------------------------------------------------
(***************************************************************************)
(* The five keys of a track are natural numbers.                           *)
(***************************************************************************)
LEMMA KeysAreNumbers ==
  ASSUME pref \in Prefs, NEW t \in Tracks
  PROVE  \A n \in 1 .. 5 : Keys(t)[n] \in Nat
<1>1. pref \in Seq(Nat) /\ Len(pref) \in Nat /\ DOMAIN pref = 1 .. Len(pref)
  BY SubtitlesAssumption, LenProperties
<1>2. langRank(t.lang, pref) \in Nat
  <2> DEFINE listed == {i \in DOMAIN pref : pref[i] = t.lang}
  <2>1. listed \in SUBSET Nat
    BY <1>1
  <2> HIDE DEF listed
  <2>2. listed # {} => First(listed) \in Nat
    BY <2>1, FirstIsFirst
  <2>3. langRank(t.lang, pref) \in {0, Len(pref) + 1, Len(pref) + 2}
          \/ (listed # {} /\ langRank(t.lang, pref) = First(listed))
    BY DEF langRank, listed
  <2> QED
    BY <1>1, <2>2, <2>3
<1>3. /\ Flag(t.forced) \in Nat /\ Flag(t.sdh) \in Nat
      /\ t.lang \in Nat /\ t.file.name \in Nat
  BY SubtitlesAssumption DEF Flag, Tracks
<1> QED
  BY <1>2, <1>3 DEF Keys

(***************************************************************************)
(* Before is the lexicographic order on the keys: two tracks that it does  *)
(* not order have the same keys.                                           *)
(***************************************************************************)
LEMMA BeforeIsAnOrder ==
  ASSUME pref \in Prefs, NEW a \in Tracks, NEW b \in Tracks, NEW c \in Tracks
  PROVE  /\ ~Before(a, a)
         /\ Before(a, b) => ~Before(b, a)
         /\ Before(a, b) /\ Before(b, c) => Before(a, c)
         /\ ~Before(a, b) /\ ~Before(b, a) => \A n \in 1 .. 5 : Keys(a)[n] = Keys(b)[n]
<1> DEFINE ka == Keys(a)
           kb == Keys(b)
           kc == Keys(c)
<1>1. \A n \in 1 .. 5 : ka[n] \in Nat /\ kb[n] \in Nat /\ kc[n] \in Nat
  BY KeysAreNumbers
<1>2. /\ ~Before(a, a)
      /\ Before(a, b) <=> \E n \in 1 .. 5 : ka[n] < kb[n] /\ \A m \in 1 .. n - 1 : ka[m] = kb[m]
      /\ Before(b, a) <=> \E n \in 1 .. 5 : kb[n] < ka[n] /\ \A m \in 1 .. n - 1 : kb[m] = ka[m]
      /\ Before(b, c) <=> \E n \in 1 .. 5 : kb[n] < kc[n] /\ \A m \in 1 .. n - 1 : kb[m] = kc[m]
      /\ Before(a, c) <=> \E n \in 1 .. 5 : ka[n] < kc[n] /\ \A m \in 1 .. n - 1 : ka[m] = kc[m]
  BY <1>1 DEF Before
<1> HIDE DEF ka, kb, kc
<1>3. ASSUME Before(a, b), Before(b, a)
      PROVE  FALSE
  <2>1. PICK n \in 1 .. 5 : ka[n] < kb[n] /\ \A m \in 1 .. n - 1 : ka[m] = kb[m]
    BY <1>2, <1>3
  <2>2. PICK m \in 1 .. 5 : kb[m] < ka[m] /\ \A l \in 1 .. m - 1 : kb[l] = ka[l]
    BY <1>2, <1>3
  <2> QED
    BY <1>1, <2>1, <2>2
<1>4. ASSUME Before(a, b), Before(b, c)
      PROVE  Before(a, c)
  <2>1. PICK n \in 1 .. 5 : ka[n] < kb[n] /\ \A l \in 1 .. n - 1 : ka[l] = kb[l]
    BY <1>2, <1>4
  <2>2. PICK m \in 1 .. 5 : kb[m] < kc[m] /\ \A l \in 1 .. m - 1 : kb[l] = kc[l]
    BY <1>2, <1>4
  <2>3. CASE n <= m
    <3>1. ka[n] < kc[n] /\ \A l \in 1 .. n - 1 : ka[l] = kc[l]
      BY <1>1, <2>1, <2>2, <2>3
    <3> QED
      BY <1>2, <3>1
  <2>4. CASE m < n
    <3>1. ka[m] < kc[m] /\ \A l \in 1 .. m - 1 : ka[l] = kc[l]
      BY <1>1, <2>1, <2>2, <2>4
    <3> QED
      BY <1>2, <3>1
  <2> QED
    BY <2>3, <2>4
<1>5. ASSUME ~Before(a, b), ~Before(b, a)
      PROVE  \A n \in 1 .. 5 : ka[n] = kb[n]
  <2>1. ka[1] = kb[1]
    BY <1>1, <1>2, <1>5
  <2>2. ka[2] = kb[2]
    BY <1>1, <1>2, <1>5, <2>1
  <2>3. ka[3] = kb[3]
    BY <1>1, <1>2, <1>5, <2>1, <2>2
  <2>4. ka[4] = kb[4]
    BY <1>1, <1>2, <1>5, <2>1, <2>2, <2>3
  <2>5. ka[5] = kb[5]
    BY <1>1, <1>2, <1>5, <2>1, <2>2, <2>3, <2>4
  <2> QED
    BY <2>1, <2>2, <2>3, <2>4, <2>5
<1> QED
  BY <1>2, <1>3, <1>4, <1>5 DEF ka, kb

-----------------------------------------------------------------------------
(***************************************************************************)
(* The numbers up to n can be put in any strict total order, in one way    *)
(* only: the place of each is one more than the number of those before it. *)
(***************************************************************************)
LEMMA OneArrangement ==
  ASSUME NEW n \in Nat, NEW before,
         \A i \in 1 .. n : <<i, i>> \notin before,
         \A i, j, k \in 1 .. n : <<i, j>> \in before /\ <<j, k>> \in before => <<i, k>> \in before,
         \A i, j \in 1 .. n : i # j => <<i, j>> \in before \/ <<j, i>> \in before
  PROVE  \E o \in Bijection(1 .. n, 1 .. n) :
           /\ \A i, j \in 1 .. n : i < j => <<o[i], o[j]>> \in before
           /\ \A p \in Bijection(1 .. n, 1 .. n) :
                (\A i, j \in 1 .. n : i < j => <<p[i], p[j]>> \in before) => p = o
<1> DEFINE N == 1 .. n
           ahead(i) == {j \in N : <<j, i>> \in before}
           place == [i \in N |-> Cardinality(ahead(i)) + 1]
           o == Inverse(place, N, N)
<1>1. IsFiniteSet(N) /\ Cardinality(N) = n
  BY FS_Interval
<1>2. \A i \in N : /\ IsFiniteSet(ahead(i)) /\ Cardinality(ahead(i)) \in Nat
                    /\ Cardinality(ahead(i)) <= n - 1
  <2> SUFFICES ASSUME NEW i \in N
               PROVE  /\ IsFiniteSet(ahead(i)) /\ Cardinality(ahead(i)) \in Nat
                      /\ Cardinality(ahead(i)) <= n - 1
    OBVIOUS
  <2>1. ahead(i) \subseteq N \ {i}
    OBVIOUS
  <2>2. IsFiniteSet(N \ {i}) /\ Cardinality(N \ {i}) = n - 1
    BY <1>1, FS_RemoveElement
  <2> HIDE DEF ahead, N
  <2> QED
    BY <2>1, <2>2, FS_Subset, FS_CardinalityType
<1>3. \A i, j \in N : <<i, j>> \in before => Cardinality(ahead(i)) < Cardinality(ahead(j))
  <2> SUFFICES ASSUME NEW i \in N, NEW j \in N, <<i, j>> \in before
               PROVE  Cardinality(ahead(i)) < Cardinality(ahead(j))
    OBVIOUS
  <2>1. ahead(i) \subseteq ahead(j) /\ j \notin ahead(j) /\ i \in ahead(j) /\ i \notin ahead(i)
    OBVIOUS
  <2> HIDE DEF ahead, N
  <2>2. /\ Cardinality(ahead(i)) <= Cardinality(ahead(j))
        /\ Cardinality(ahead(i)) # Cardinality(ahead(j))
    BY <1>2, <2>1, FS_Subset
  <2>3. Cardinality(ahead(i)) \in Nat /\ Cardinality(ahead(j)) \in Nat
    BY <1>2
  <2> QED
    BY <2>2, <2>3
<1> HIDE DEF ahead
<1>4. /\ place \in [N -> N]
      /\ \A i, j \in N : <<i, j>> \in before => place[i] < place[j]
  BY <1>2, <1>3
<1>5. place \in Bijection(N, N)
  <2> HIDE DEF place
  <2>1. ASSUME NEW i \in N, NEW j \in N, i # j
        PROVE  place[i] # place[j]
    <3>1. place[i] \in Nat /\ place[j] \in Nat
      BY <1>4
    <3>2. place[i] < place[j] \/ place[j] < place[i]
      BY <1>4, <2>1
    <3> QED
      BY <3>1, <3>2
  <2>2. place \in Injection(N, N)
    BY <1>4, <2>1 DEF Injection, IsInjective
  <2> HIDE DEF N
  <2>3. place \in Surjection(N, N)
    BY <1>1, <2>2, FS_Injection
  <2> QED
    BY <2>2, <2>3 DEF Bijection
<1> HIDE DEF place
<1>6. /\ o \in Bijection(N, N)
      /\ \A i \in N : o[i] \in N /\ place[o[i]] = i
      /\ \A i \in N : o[place[i]] = i
  <2>1. /\ o \in Bijection(N, N) /\ \A i \in N : o[place[i]] = i
        /\ Inverse(o, N, N) = place
    BY <1>5, Fun_BijInverse
  <2> HIDE DEF o, N
  <2>2. \A i \in N : place[i] \in N /\ o[i] \in N /\ \E j \in N : place[j] = i
    BY <1>5, <2>1 DEF Bijection, Injection, Surjection
  <2> QED
    BY <2>1, <2>2
<1> HIDE DEF o
<1>7. ASSUME NEW i \in N, NEW j \in N, i < j
      PROVE  <<o[i], o[j]>> \in before
  <2>1. o[i] \in N /\ o[j] \in N /\ place[o[i]] = i /\ place[o[j]] = j
    BY <1>6
  <2>2. ~(place[o[j]] < place[o[i]]) /\ o[i] # o[j]
    BY <1>7, <2>1
  <2> QED
    BY <1>4, <2>1, <2>2
<1>8. ASSUME NEW p \in Bijection(N, N),
             \A i, j \in N : i < j => <<p[i], p[j]>> \in before
      PROVE  p = o
  <2>1. /\ p \in [N -> N] /\ o \in [N -> N]
        /\ \A i, j \in N : p[i] = p[j] => i = j
        /\ \A j \in N : \E i \in N : p[i] = j
    <3>1. p \in [N -> N] /\ IsInjective(p) /\ \A j \in N : \E i \in N : p[i] = j
      BY <1>8 DEF Bijection, Injection, Surjection
    <3>2. o \in [N -> N]
      BY <1>6 DEF Bijection, Injection
    <3> HIDE DEF N
    <3> QED
      BY <3>1, <3>2 DEF IsInjective
  <2>2. ASSUME NEW i \in N
        PROVE  place[p[i]] = i
    <3> DEFINE q == [k \in 1 .. i - 1 |-> p[k]]
    <3>1. \A k \in N : <<p[k], p[i]>> \in before <=> k < i
      <4> SUFFICES ASSUME NEW k \in N
                   PROVE  <<p[k], p[i]>> \in before <=> k < i
        OBVIOUS
      <4>1. CASE k < i
        BY <1>8, <4>1
      <4>2. CASE k = i
        BY <2>1, <4>2
      <4>3. CASE i < k
        <5>1. <<p[i], p[k]>> \in before /\ p[i] \in N /\ p[k] \in N
          BY <1>8, <2>1, <4>3
        <5>2. <<p[k], p[i]>> \in before => <<p[i], p[i]>> \in before
          BY <5>1
        <5>3. ~(k < i)
          BY <4>3
        <5> QED
          BY <5>1, <5>2, <5>3
      <4> QED
        BY <4>1, <4>2, <4>3
    <3>2. p[i] \in N /\ i - 1 \in Nat /\ 1 .. i - 1 \subseteq N
          /\ \A k \in N : k \in 1 .. i - 1 <=> k < i
      BY <2>1
    <3>3. ahead(p[i]) = {p[k] : k \in 1 .. i - 1}
      <4>1. ASSUME NEW j \in ahead(p[i])
            PROVE  j \in {p[k] : k \in 1 .. i - 1}
        <5>1. j \in N /\ <<j, p[i]>> \in before
          BY DEF ahead
        <5>2. PICK k \in N : p[k] = j
          BY <2>1, <5>1
        <5> QED
          BY <3>1, <3>2, <5>1, <5>2
      <4>2. ASSUME NEW k \in 1 .. i - 1
            PROVE  p[k] \in ahead(p[i])
        <5>1. k \in N /\ k < i
          BY <3>2
        <5> QED
          BY <2>1, <3>1, <5>1 DEF ahead
      <4> QED
        BY <4>1, <4>2
    <3>4. q \in Bijection(1 .. i - 1, ahead(p[i]))
      <4>1. q \in [1 .. i - 1 -> ahead(p[i])]
        BY <3>3
      <4>2. \A j, k \in 1 .. i - 1 : q[j] = q[k] => j = k
        BY <2>1, <3>2
      <4>3. \A j \in ahead(p[i]) : \E k \in 1 .. i - 1 : q[k] = j
        BY <3>3
      <4> HIDE DEF q
      <4> QED
        BY <4>1, <4>2, <4>3 DEF Bijection, Injection, Surjection, IsInjective
    <3>5. IsFiniteSet(1 .. i - 1) /\ Cardinality(1 .. i - 1) = i - 1
      BY <3>2, FS_Interval
    <3>6. Cardinality(ahead(p[i])) = i - 1
      <4> HIDE DEF q
      <4>1. ExistsBijection(1 .. i - 1, ahead(p[i]))
        BY <3>4 DEF ExistsBijection
      <4> QED
        BY <3>5, <4>1, FS_Bijection
    <3> QED
      BY <3>2, <3>6 DEF place
  <2>3. \A i \in N : p[i] = o[i]
    <3> SUFFICES ASSUME NEW i \in N
                 PROVE  p[i] = o[i]
      OBVIOUS
    <3>1. p[i] \in N /\ place[p[i]] = i
      BY <2>1, <2>2
    <3> QED
      BY <1>6, <3>1
  <2> QED
    BY <2>1, <2>3
<1> QED
  BY <1>6, <1>7, <1>8

(***************************************************************************)
(* sortSubtitles: the tracks can always be sorted, and in one way only, so *)
(* the track that leads is determined by the tracks found.                 *)
(***************************************************************************)
THEOREM TracksSortOneWay ==
  ASSUME pref \in Prefs, NEW s \in Seq(Tracks)
  PROVE  \E r : SortStable(s) = {r}
<1> DEFINE Earlier(i, j) == Before(s[i], s[j]) \/ (~Before(s[j], s[i]) /\ i < j)
           before == {pair \in (1 .. Len(s)) \X (1 .. Len(s)) : Earlier(pair[1], pair[2])}
<1>1. Len(s) \in Nat /\ DOMAIN s = 1 .. Len(s) /\ \A i \in 1 .. Len(s) : s[i] \in Tracks
  BY ElementOfSeq, LenProperties
<1>2. \A i, j \in 1 .. Len(s) : <<i, j>> \in before <=> Earlier(i, j)
  OBVIOUS
<1>3. \A i \in 1 .. Len(s) : ~Earlier(i, i)
  BY <1>1, BeforeIsAnOrder
<1>4. ASSUME NEW i \in 1 .. Len(s), NEW j \in 1 .. Len(s), NEW k \in 1 .. Len(s),
             Earlier(i, j), Earlier(j, k)
      PROVE  Earlier(i, k)
  <2> DEFINE a == s[i]
             b == s[j]
             c == s[k]
  <2>1. a \in Tracks /\ b \in Tracks /\ c \in Tracks
    BY <1>1
  <2> HIDE DEF a, b, c
  <2>2. /\ Before(a, b) => ~Before(b, a)
        /\ Before(a, b) /\ Before(b, c) => Before(a, c)
        /\ Before(b, c) /\ Before(c, a) => Before(b, a)
        /\ Before(c, a) /\ Before(a, b) => Before(c, b)
    BY <2>1, BeforeIsAnOrder
  <2>3. ~Before(b, a) /\ ~Before(c, b)
    <3>1. Before(b, c) => ~Before(c, b)
      BY <2>1, BeforeIsAnOrder
    <3> QED
      BY <1>4, <2>2, <3>1 DEF a, b, c
  <2>4. ~Before(c, a)
    <3>1. SUFFICES ASSUME Before(c, a)
                   PROVE  FALSE
      OBVIOUS
    <3>2. ~Before(a, b) /\ ~Before(b, c)
      BY <2>2, <2>3, <3>1
    <3>3. \A n \in 1 .. 5 : Keys(a)[n] = Keys(b)[n]
      BY <2>1, <2>3, <3>2, BeforeIsAnOrder
    <3>4. \A n \in 1 .. 5 : Keys(b)[n] = Keys(c)[n]
      BY <2>1, <2>3, <3>2, BeforeIsAnOrder
    <3>5. PICK n \in 1 .. 5 : Keys(c)[n] < Keys(a)[n]
      BY <3>1 DEF Before
    <3>6. Keys(a)[n] \in Nat /\ Keys(c)[n] = Keys(a)[n]
      BY <2>1, <3>3, <3>4, KeysAreNumbers
    <3> QED
      BY <3>5, <3>6
  <2>5. Before(a, c) \/ i < k
    <3>1. SUFFICES ASSUME ~Before(a, c)
                   PROVE  i < k
      OBVIOUS
    <3>2. \A n \in 1 .. 5 : Keys(a)[n] = Keys(c)[n]
      BY <2>1, <2>4, <3>1, BeforeIsAnOrder
    <3>3. Before(a, b) => Before(c, b)
      BY <3>2 DEF Before
    <3>4. ~Before(a, b) /\ (Before(b, c) => Before(b, a))
      BY <2>3, <3>2, <3>3 DEF Before
    <3>5. i < j /\ j < k
      BY <1>4, <2>3, <3>4 DEF a, b, c
    <3> QED
      BY <1>1, <3>5
  <2> QED
    BY <2>4, <2>5 DEF a, b, c
<1>5. \A i, j \in 1 .. Len(s) : i # j => Earlier(i, j) \/ Earlier(j, i)
  <2> SUFFICES ASSUME NEW i \in 1 .. Len(s), NEW j \in 1 .. Len(s), i # j
               PROVE  Earlier(i, j) \/ Earlier(j, i)
    OBVIOUS
  <2>1. i < j \/ j < i
    BY <1>1
  <2> QED
    BY <2>1
<1>6. SortStable(s) =
        {[k \in DOMAIN s |-> s[o[k]]] :
           o \in {o \in Bijection(DOMAIN s, DOMAIN s) :
                    \A i, j \in DOMAIN s : i < j => Earlier(o[i], o[j])}}
  BY DEF SortStable
<1> HIDE DEF Earlier
<1>7. PICK o \in Bijection(1 .. Len(s), 1 .. Len(s)) :
        /\ \A i, j \in 1 .. Len(s) : i < j => <<o[i], o[j]>> \in before
        /\ \A p \in Bijection(1 .. Len(s), 1 .. Len(s)) :
             (\A i, j \in 1 .. Len(s) : i < j => <<p[i], p[j]>> \in before) => p = o
  <2> HIDE DEF before
  <2>1. \A i, j, k \in 1 .. Len(s) : <<i, j>> \in before /\ <<j, k>> \in before => <<i, k>> \in before
    BY <1>2, <1>4
  <2>2. \A i \in 1 .. Len(s) : <<i, i>> \notin before
    BY <1>2, <1>3
  <2>3. \A i, j \in 1 .. Len(s) : i # j => <<i, j>> \in before \/ <<j, i>> \in before
    BY <1>2, <1>5
  <2> QED
    BY <1>1, <2>1, <2>2, <2>3, OneArrangement
<1> HIDE DEF before
<1>8. \A p \in Bijection(1 .. Len(s), 1 .. Len(s)) : \A i \in 1 .. Len(s) : p[i] \in 1 .. Len(s)
  BY DEF Bijection, Injection
<1>9. {p \in Bijection(DOMAIN s, DOMAIN s) :
        \A i, j \in DOMAIN s : i < j => Earlier(p[i], p[j])} = {o}
  <2>1. ASSUME NEW p \in Bijection(1 .. Len(s), 1 .. Len(s))
        PROVE  (\A i, j \in 1 .. Len(s) : i < j => Earlier(p[i], p[j])) <=> p = o
    BY <1>2, <1>7, <1>8
  <2> QED
    BY <1>1, <2>1
<1>10. SortStable(s) = {[k \in DOMAIN s |-> s[o[k]]]}
  BY <1>6, <1>9
<1> QED
  BY <1>10

-----------------------------------------------------------------------------
(***************************************************************************)
(* Nothing is taken yet.                                                   *)
(***************************************************************************)
LEMMA InitIInv == Init => IInv
<1> SUFFICES ASSUME Init
             PROVE  IInv
  OBVIOUS
<1>1. pool \in Seq(Files) /\ IsInjective(pool)
  BY DEF Init, Pools
<1>2. Len(pool) \in Nat /\ taken = 0
  BY <1>1, LenProperties DEF Init, taken
<1>3. LoopInPool
  BY <1>1, <1>2 DEF Init, LoopInPool
<1>4. TracksOfTaken
  BY <1>2, EmptySeq DEF Init, TracksOfTaken
<1>5. SortedAtTheEnd
  BY DEF Init, SortedAtTheEnd
<1> QED
  BY <1>3, <1>4, <1>5 DEF IInv

(***************************************************************************)
(* One round of the loop: the file taken is the next of the pool, and none *)
(* of the tracks has it yet.                                               *)
(***************************************************************************)
LEMMA TakeKeeps == IInv /\ Take => IInv'
<1> SUFFICES ASSUME IInv, Take
             PROVE  IInv'
  OBVIOUS
<1> DEFINE f == Head(left)
<1>1. /\ left # << >> /\ left' = Tail(left)
      /\ out' = IF Matches(f) THEN Append(out, Track(f)) ELSE out
      /\ UNCHANGED <<pref, pool, sorted>>
  BY DEF Take
<1>2. /\ pref \in Prefs /\ pool \in Seq(Files) /\ left \in Seq(Files)
      /\ IsInjective(pool) /\ Len(left) <= Len(pool)
      /\ \A k \in DOMAIN left : left[k] = pool[taken + k]
  BY DEF IInv, LoopInPool
<1>3. /\ Len(pool) \in Nat /\ DOMAIN pool = 1 .. Len(pool)
      /\ Len(left) \in Nat \ {0} /\ DOMAIN left = 1 .. Len(left)
  BY <1>1, <1>2, EmptySeq, LenProperties
<1>4. /\ left' \in Seq(Files) /\ Len(left') = Len(left) - 1
      /\ \A k \in 1 .. Len(left) - 1 : left'[k] = left[k + 1]
      /\ f = left[1] /\ f \in Files
  BY <1>1, <1>2, HeadTailProperties, ElementOfSeq
<1>5. taken \in Nat /\ taken' = taken + 1 /\ taken + 1 <= Len(pool)
  BY <1>1, <1>2, <1>3, <1>4 DEF taken
<1>6. f = pool[taken + 1]
  BY <1>2, <1>3, <1>4
<1>7. LoopInPool'
  <2>1. DOMAIN left' = 1 .. Len(left) - 1
    BY <1>4, LenProperties
  <2>2. \A k \in 1 .. Len(left) - 1 : left'[k] = pool[taken + 1 + k]
    <3> SUFFICES ASSUME NEW k \in 1 .. Len(left) - 1
                 PROVE  left'[k] = pool[taken + 1 + k]
      OBVIOUS
    <3>1. k + 1 \in DOMAIN left /\ taken + (k + 1) = taken + 1 + k
      BY <1>3, <1>5
    <3> QED
      BY <1>2, <1>4, <3>1
  <2>3. pref' \in Prefs /\ pool' \in Seq(Files) /\ left' \in Seq(Files)
    BY <1>1, <1>2, <1>4
  <2>4. IsInjective(pool')
    BY <1>1, <1>2
  <2>5. Len(left') <= Len(pool')
    BY <1>1, <1>2, <1>3, <1>4
  <2>6. \A k \in DOMAIN left' : left'[k] = pool'[taken' + k]
    BY <1>1, <1>5, <2>1, <2>2
  <2> QED
    BY <2>3, <2>4, <2>5, <2>6 DEF LoopInPool
<1> HIDE DEF f
<1>8. TracksOfTaken'
  <2>1. /\ out \in Seq(Tracks)
        /\ \A k \in DOMAIN out : \E i \in 1 .. taken : Matches(pool[i]) /\ out[k].file = pool[i]
        /\ \A i \in 1 .. taken : Matches(pool[i]) => \E k \in DOMAIN out : out[k].file = pool[i]
        /\ \A j, k \in DOMAIN out : out[j].file = out[k].file => j = k
    BY DEF IInv, TracksOfTaken
  <2>2. \A i \in 1 .. taken + 1 : i \in 1 .. taken \/ i = taken + 1
    BY <1>5
  <2>3. \A i \in 1 .. taken : i \in 1 .. taken + 1
    BY <1>5
  <2>4. CASE ~Matches(f)
    BY <1>1, <1>5, <1>6, <2>1, <2>2, <2>3, <2>4 DEF TracksOfTaken, Matches
  <2>5. CASE Matches(f)
    <3>1. Track(f) \in Tracks /\ Track(f).file = f
      BY <1>4, TrackType
    <3>2. Len(out) \in Nat /\ DOMAIN out = 1 .. Len(out)
      BY <2>1, LenProperties
    <3>3. /\ out' \in Seq(Tracks) /\ DOMAIN out' = 1 .. Len(out) + 1
          /\ \A k \in 1 .. Len(out) : out'[k] = out[k]
          /\ out'[Len(out) + 1].file = f
      BY <1>1, <2>1, <2>5, <3>1, AppendProperties, LenProperties
    <3>4. \A k \in 1 .. Len(out) + 1 : k \in 1 .. Len(out) \/ k = Len(out) + 1
      BY <3>2
    <3>5. \A k \in 1 .. Len(out) : k \in 1 .. Len(out) + 1 /\ k # Len(out) + 1
      BY <3>2
    <3>6. \A k \in DOMAIN out : out[k].file # f
      <4> SUFFICES ASSUME NEW k \in DOMAIN out
                   PROVE  out[k].file # f
        OBVIOUS
      <4>1. PICK i \in 1 .. taken : out[k].file = pool[i]
        BY <2>1
      <4>2. i # taken + 1 /\ i \in DOMAIN pool /\ taken + 1 \in DOMAIN pool
        BY <1>3, <1>5
      <4> QED
        BY <1>2, <1>6, <4>1, <4>2 DEF IsInjective
    <3>7. \A i : Matches(pool[i])' = Matches(pool[i])
      BY <1>1 DEF Matches
    <3>8. \A k \in DOMAIN out' : \E i \in 1 .. taken + 1 :
             Matches(pool[i]) /\ out'[k].file = pool[i]
      BY <1>5, <1>6, <2>1, <2>3, <2>5, <3>2, <3>3, <3>4
    <3>9. \A i \in 1 .. taken + 1 : Matches(pool[i]) =>
             \E k \in DOMAIN out' : out'[k].file = pool[i]
      BY <1>6, <2>1, <2>2, <3>2, <3>3, <3>5
    <3>10. \A j, k \in DOMAIN out' : out'[j].file = out'[k].file => j = k
      BY <2>1, <3>2, <3>3, <3>4, <3>6
    <3>11. pool' = pool /\ taken' = taken + 1 /\ out' \in Seq(Tracks)
      BY <1>1, <1>5, <3>3
    <3> QED
      BY <3>7, <3>8, <3>9, <3>10, <3>11 DEF TracksOfTaken
  <2> QED
    BY <2>4, <2>5
<1>9. SortedAtTheEnd'
  BY <1>1 DEF IInv, SortedAtTheEnd
<1> QED
  BY <1>7, <1>8, <1>9 DEF IInv

(***************************************************************************)
(* The sort moves the tracks about, each to one place, and leaves none     *)
(* before one that stands ahead of it.                                     *)
(***************************************************************************)
LEMMA SortKeeps == IInv /\ Sort => IInv'
<1> SUFFICES ASSUME IInv, Sort
             PROVE  IInv'
  OBVIOUS
<1>1. left = << >> /\ sorted' = TRUE /\ UNCHANGED <<pref, pool, left>>
  BY DEF Sort
<1>2. PICK o \in Bijection(DOMAIN out, DOMAIN out) :
        /\ out' = [k \in DOMAIN out |-> out[o[k]]]
        /\ \A i, j \in DOMAIN out : i < j =>
             Before(out[o[i]], out[o[j]]) \/ (~Before(out[o[j]], out[o[i]]) /\ o[i] < o[j])
  BY DEF Sort, SortStable
<1>3. /\ pref \in Prefs
      /\ out \in Seq(Tracks)
      /\ \A k \in DOMAIN out : \E i \in 1 .. taken : Matches(pool[i]) /\ out[k].file = pool[i]
      /\ \A i \in 1 .. taken : Matches(pool[i]) => \E k \in DOMAIN out : out[k].file = pool[i]
      /\ \A j, k \in DOMAIN out : out[j].file = out[k].file => j = k
  BY DEF IInv, LoopInPool, TracksOfTaken
<1>4. /\ \A k \in DOMAIN out : o[k] \in DOMAIN out
      /\ \A j, k \in DOMAIN out : o[j] = o[k] => j = k
      /\ \A n \in DOMAIN out : \E k \in DOMAIN out : o[k] = n
  BY <1>2 DEF Bijection, Injection, Surjection, IsInjective
<1>5. Len(out) \in Nat /\ DOMAIN out = 1 .. Len(out)
  BY <1>3, LenProperties
<1>6. \A k \in DOMAIN out : out[k] \in Tracks
  BY <1>3, <1>5, ElementOfSeq
<1>7. out' \in Seq(Tracks) /\ DOMAIN out' = DOMAIN out
  BY <1>2, <1>4, <1>5, <1>6
<1>8. \A k \in DOMAIN out : out'[k] = out[o[k]]
  BY <1>2
<1>9. LoopInPool'
  BY <1>1 DEF IInv, LoopInPool, taken
<1>10. TracksOfTaken'
  <2>1. taken' = taken /\ \A i : Matches(pool[i])' = Matches(pool[i])
    BY <1>1 DEF taken, Matches
  <2>2. ASSUME NEW k \in DOMAIN out
        PROVE  \E i \in 1 .. taken : Matches(pool[i]) /\ out'[k].file = pool[i]
    <3>1. o[k] \in DOMAIN out /\ out'[k] = out[o[k]]
      BY <1>4, <1>8
    <3> QED
      BY <1>3, <3>1
  <2>3. ASSUME NEW i \in 1 .. taken, Matches(pool[i])
        PROVE  \E k \in DOMAIN out : out'[k].file = pool[i]
    <3>1. PICK n \in DOMAIN out : out[n].file = pool[i]
      BY <1>3, <2>3
    <3>2. PICK k \in DOMAIN out : o[k] = n
      BY <1>4
    <3> QED
      BY <1>8, <3>1, <3>2
  <2>4. ASSUME NEW j \in DOMAIN out, NEW k \in DOMAIN out, out'[j].file = out'[k].file
        PROVE  j = k
    <3>1. out[o[j]].file = out[o[k]].file
      BY <1>8, <2>4
    <3>2. o[j] \in DOMAIN out /\ o[k] \in DOMAIN out
      BY <1>4
    <3>3. \A m, n \in DOMAIN out : out[m].file = out[n].file => m = n
      BY <1>3
    <3>4. o[j] = o[k]
      BY <3>1, <3>2, <3>3
    <3> QED
      BY <1>4, <3>4
  <2> QED
    BY <1>1, <1>7, <2>1, <2>2, <2>3, <2>4 DEF TracksOfTaken
<1>11. SortedAtTheEnd'
  <2> SUFFICES ASSUME NEW i \in DOMAIN out, NEW j \in DOMAIN out, i < j
               PROVE  ~Before(out[o[j]], out[o[i]])
    <3>1. \A a, b : Before(a, b)' = Before(a, b)
      BY <1>1 DEF Before, Keys
    <3> QED
      BY <1>1, <1>7, <1>8, <3>1 DEF SortedAtTheEnd
  <2>1. out[o[i]] \in Tracks /\ out[o[j]] \in Tracks
    BY <1>4, <1>6
  <2>2. Before(out[o[i]], out[o[j]]) => ~Before(out[o[j]], out[o[i]])
    BY <1>3, <2>1, BeforeIsAnOrder
  <2> QED
    BY <1>2, <2>2
<1> QED
  BY <1>9, <1>10, <1>11 DEF IInv

-----------------------------------------------------------------------------
(***************************************************************************)
(* Every step preserves the inductive invariant, so it always holds.       *)
(***************************************************************************)
LEMMA NextIInv == IInv /\ [Next]_vars => IInv'
<1>1. IInv /\ UNCHANGED vars => IInv'
  BY DEF vars, IInv, LoopInPool, TracksOfTaken, SortedAtTheEnd, taken, Matches, Before, Keys
<1> QED
  BY <1>1, TakeKeeps, SortKeeps DEF Next, Done

THEOREM InvariantHolds == Spec => []IInv
BY InitIInv, NextIInv, PTL DEF Spec

-----------------------------------------------------------------------------
(***************************************************************************)
(* parseSubSuffix: one language tag or qualifier is enough.                *)
(***************************************************************************)
LEMMA OneTokenIsEnough ==
  ASSUME NEW suffix, NEW k \in DOMAIN suffix,
         suffix[k] \in DOMAIN langAliases \cup subQualifiers
  PROVE  parseSubSuffix(suffix).recognised
<1> DEFINE tags == {j \in DOMAIN suffix : suffix[j] \in DOMAIN langAliases}
           found == tags # {} \/ Range(suffix) \cap subQualifiers # {}
<1>1. suffix[k] \in Range(suffix)
  BY DEF Range
<1>2. found
  BY <1>1
<1>3. parseSubSuffix(suffix).recognised = (suffix = << >> \/ found)
  BY DEF parseSubSuffix
<1> QED
  BY <1>2, <1>3

(***************************************************************************)
(* matchSubtitles: a text file named after the video matches, whether its  *)
(* name continues that of the video with the extension or without.         *)
(***************************************************************************)
LEMMA NamedFilesMatch ==
  ASSUME NEW f \in Files, f.text, NamedAfterVideo(f)
  PROVE  Matches(f)
<1> DEFINE s == f.stem
<1>1. PICK n \in {1, 2} :
        /\ n <= Len(s)
        /\ SubSeq(s, 1, n) = SubSeq(<<Base, Ext>>, 1, n)
        /\ \A k \in n + 1 .. Len(s) : s[k] \in DOMAIN langAliases \cup subQualifiers
  BY DEF NamedAfterVideo
<1>2. s \in Seq(Range(s)) /\ Len(s) \in Nat \ {0} /\ DOMAIN s = 1 .. Len(s)
  BY StemType, LenProperties
<1> HIDE DEF s
<1>3. /\ Len(Tail(s)) = Len(s) - 1 /\ DOMAIN Tail(s) = 1 .. Len(s) - 1
      /\ \A k \in 1 .. Len(s) - 1 : Tail(s)[k] = s[k + 1]
  <2>1. s # << >>
    BY <1>2, EmptySeq
  <2>2. Tail(s) \in Seq(Range(s)) /\ Len(Tail(s)) = Len(s) - 1
    BY <1>2, <2>1, HeadTailProperties
  <2> QED
    BY <1>2, <2>1, <2>2, HeadTailProperties, LenProperties
<1>4. \A k \in 1 .. n : s[k] = <<Base, Ext>>[k]
  <2>1. SubSeq(s, 1, n) = [k \in 1 .. n |-> s[k]]
    BY <1>1, <1>2
  <2>2. SubSeq(<<Base, Ext>>, 1, n) = [k \in 1 .. n |-> <<Base, Ext>>[k]]
    BY <1>1
  <2> QED
    BY <1>1, <2>1, <2>2
<1>5. s[1] = Base
  BY <1>1, <1>4
<1>6. parseSubSuffix(Suffix(s)).recognised
  <2>1. CASE Suffix(s) = << >>
    BY <2>1 DEF parseSubSuffix
  <2>2. CASE Suffix(s) # << >>
    <3>1. s # <<Base, Ext>> /\ Suffix(s) = Tail(s)
      BY <2>2 DEF Suffix
    <3>2. Len(s) # 1
      BY <1>2, <1>3, <2>2, <3>1
    <3>3. ~(n = 2 /\ Len(s) = 2)
      BY <1>2, <1>4, <3>1
    <3>4. n \in 1 .. Len(s) - 1 /\ n + 1 \in n + 1 .. Len(s)
      <4>1. Len(s) \in Nat /\ n <= Len(s)
        BY <1>1, <1>2
      <4>2. Len(s) # n
        BY <3>2, <3>3
      <4>3. n \in Nat /\ n >= 1
        OBVIOUS
      <4> QED
        BY <4>1, <4>2, <4>3
    <3>5. n \in DOMAIN Tail(s) /\ Tail(s)[n] = s[n + 1]
      BY <1>3, <3>4
    <3>6. s[n + 1] \in DOMAIN langAliases \cup subQualifiers
      BY <1>1, <3>4
    <3> QED
      BY <3>1, <3>5, <3>6, OneTokenIsEnough
  <2> QED
    BY <2>1, <2>2
<1> QED
  BY <1>5, <1>6 DEF Matches, s

(***************************************************************************)
(* matchSubtitles: every text file named after the video is one track, and *)
(* nothing outside the pool and no binary file is one.                     *)
(***************************************************************************)
THEOREM NamedFilesAreTracks == Spec => []EveryNamedFileIsATrack
<1>1. IInv => EveryNamedFileIsATrack
  <2> SUFFICES ASSUME IInv, sorted
               PROVE  EveryNamedFileIsATrack
    BY DEF EveryNamedFileIsATrack
  <2>1. /\ pool \in Seq(Files) /\ left = << >>
        /\ \A k \in DOMAIN out : \E i \in 1 .. taken : Matches(pool[i]) /\ out[k].file = pool[i]
        /\ \A i \in 1 .. taken : Matches(pool[i]) => \E k \in DOMAIN out : out[k].file = pool[i]
        /\ \A j, k \in DOMAIN out : out[j].file = out[k].file => j = k
    BY DEF IInv, LoopInPool, TracksOfTaken, SortedAtTheEnd
  <2>2. DOMAIN pool = 1 .. taken
    BY <2>1, EmptySeq, LenProperties DEF taken
  <2>3. \A i \in 1 .. taken : pool[i] \in Files /\ pool[i] \in Range(pool)
    BY <2>1, <2>2, ElementOfSeq, LenProperties DEF Range
  <2>4. ASSUME NEW f \in Range(pool), f.text, NamedAfterVideo(f)
        PROVE  Cardinality({k \in DOMAIN out : out[k].file = f}) = 1
    <3>1. PICK i \in 1 .. taken : f = pool[i]
      BY <2>2 DEF Range
    <3>2. Matches(f)
      BY <2>3, <2>4, <3>1, NamedFilesMatch
    <3>3. PICK k \in DOMAIN out : out[k].file = f
      BY <2>1, <3>1, <3>2
    <3>4. {j \in DOMAIN out : out[j].file = f} = {k}
      BY <2>1, <3>3
    <3> QED
      BY <3>4, FS_Singleton
  <2>5. ASSUME NEW k \in DOMAIN out
        PROVE  out[k].file \in Range(pool) /\ out[k].file.text
    <3>1. PICK i \in 1 .. taken : Matches(pool[i]) /\ out[k].file = pool[i]
      BY <2>1
    <3> QED
      BY <2>3, <3>1 DEF Matches
  <2> QED
    BY <2>4, <2>5 DEF EveryNamedFileIsATrack
<1> QED
  BY <1>1, InvariantHolds, PTL

(***************************************************************************)
(* sortSubtitles: the comparison is a strict weak order on the tracks at   *)
(* hand, as sort.SliceStable requires.                                     *)
(***************************************************************************)
THEOREM TracksCompare == Spec => []ComparisonIsConsistent
<1>1. IInv => ComparisonIsConsistent
  <2> SUFFICES ASSUME IInv,
                      NEW i \in DOMAIN out, NEW j \in DOMAIN out, NEW k \in DOMAIN out
               PROVE  /\ ~Before(out[i], out[i])
                      /\ Before(out[i], out[j]) /\ Before(out[j], out[k]) =>
                           Before(out[i], out[k])
                      /\ ~Before(out[i], out[j]) /\ ~Before(out[j], out[i]) /\
                         Before(out[j], out[k]) => Before(out[i], out[k])
    BY DEF ComparisonIsConsistent
  <2> DEFINE a == out[i]
             b == out[j]
             c == out[k]
  <2>1. pref \in Prefs /\ out \in Seq(Tracks)
    BY DEF IInv, LoopInPool, TracksOfTaken
  <2>2. a \in Tracks /\ b \in Tracks /\ c \in Tracks
    BY <2>1, ElementOfSeq, LenProperties
  <2> HIDE DEF a, b, c
  <2>3. ~Before(a, a) /\ (Before(a, b) /\ Before(b, c) => Before(a, c))
    BY <2>1, <2>2, BeforeIsAnOrder
  <2>4. ASSUME ~Before(a, b), ~Before(b, a), Before(b, c)
        PROVE  Before(a, c)
    <3>1. \A n \in 1 .. 5 : Keys(a)[n] = Keys(b)[n]
      BY <2>1, <2>2, <2>4, BeforeIsAnOrder
    <3>2. PICK n \in 1 .. 5 :
            Keys(b)[n] < Keys(c)[n] /\ \A m \in 1 .. n - 1 : Keys(b)[m] = Keys(c)[m]
      BY <2>4 DEF Before
    <3>3. Keys(a)[n] < Keys(c)[n] /\ \A m \in 1 .. n - 1 : Keys(a)[m] = Keys(c)[m]
      BY <3>1, <3>2
    <3> QED
      BY <3>3 DEF Before
  <2> QED
    BY <2>3, <2>4 DEF a, b, c
<1> QED
  BY <1>1, InvariantHolds, PTL

(***************************************************************************)
(* sortSubtitles: tracks with different names stand in the order of the    *)
(* comparison, whatever the order in which their folder was read.          *)
(***************************************************************************)
THEOREM NamesDecide == Spec => []OrderIsThatOfTheNames
<1>1. IInv => OrderIsThatOfTheNames
  <2> SUFFICES ASSUME IInv, sorted, NEW i \in DOMAIN out, NEW j \in DOMAIN out,
                      i < j, out[i].file.name # out[j].file.name
               PROVE  Before(out[i], out[j])
    BY DEF OrderIsThatOfTheNames
  <2>1. pref \in Prefs /\ out \in Seq(Tracks) /\ ~Before(out[j], out[i])
    BY DEF IInv, LoopInPool, TracksOfTaken, SortedAtTheEnd
  <2>2. out[i] \in Tracks /\ out[j] \in Tracks
    BY <2>1, ElementOfSeq, LenProperties
  <2>3. Keys(out[i])[5] # Keys(out[j])[5]
    BY DEF Keys
  <2> QED
    BY <2>1, <2>2, <2>3, BeforeIsAnOrder
<1> QED
  BY <1>1, InvariantHolds, PTL
==============================================================================
