---------------------------- MODULE Control_proofs ----------------------------
(***************************************************************************)
(* Safety of ContentDirectory and Control: what a control point may rely   *)
(* on, for every folder, page size, and any number of rescans, listings,   *)
(* subscriptions and lost events.                                          *)
(*                                                                         *)
(* A steady listing is exact because every page was cut from the one index *)
(* that was current when it began (PagesFit).  That the listing catches up *)
(* is put together from two halves: the steps of Control are steps of Gena *)
(* or leave its variables alone, so what Gena_proofs shows of the events   *)
(* holds here; and a listing that began at the current index is steady.    *)
(***************************************************************************)
EXTENDS Control, FiniteSetTheorems, SequenceTheorems, TLAPS

\* What a listing needs of an index: every entry of the tree has an id, and
\* ids are those of entries.  That it is coherent besides is shown of the scan
\* that makes it, in MediaLibrary_proofs.
Resolves(i) ==
  /\ i.byID \in Seq(Paths)
  /\ i.tree \subseteq {Root} \cup Elements(i.byID)

\* Every index published so far is one a scan may publish, and there is one.
PublishedSound ==
  /\ published \in Seq(Indexes) /\ updateID # 0

\* The listing began at an index published by then, and while that index is
\* the current one nothing has disturbed it.
ListingBegan ==
  /\ pc \in {"idle", "listing", "looked", "listed"}
  /\ start \in 0 .. updateID /\ steady \in BOOLEAN
  /\ pc # "idle" => start # 0
  /\ updateID = start => steady

\* What has been received is the beginning of the listing, and the page under
\* way goes on from there, unless its UpdateID will be a new one.
PagesFit ==
  LET listing == ListingIn(start)
  IN  steady =>
        /\ pc \in {"listing", "looked"} =>
             Len(got) \in 0 .. Len(listing) /\ got = SubSeq(listing, 1, Len(got))
        /\ pc = "looked" /\ updateID = start =>
             answer = [objects |-> sliceWindow(listing, Len(got), PageSize),
                       total   |-> Len(listing)]

NothingPlayedYet == pc \in {"listing", "looked"} => played = NotPlayed

IInv ==
  /\ PublishedSound
  /\ ListingBegan
  /\ PagesFit
  /\ NothingPlayedYet
  /\ SteadyListingIsExact
  /\ SteadyIdPlaysItsVideo

-----------------------------------------------------------------------------
\* before is a strict total order on S.
Orders(before, S) ==
  /\ \A a \in S : <<a, a>> \notin before
  /\ \A a, b, c \in S : <<a, b>> \in before /\ <<b, c>> \in before => <<a, c>> \in before
  /\ \A a, b \in S : a # b => <<a, b>> \in before \/ <<b, a>> \in before

(***************************************************************************)
(* Sorted: the elements of a finite set, each once, in the given order.    *)
(***************************************************************************)
LEMMA SortedIsASort ==
  ASSUME NEW S, IsFiniteSet(S), NEW before, Orders(before, S)
  PROVE  /\ Sorted(S, before) \in Seq(S)
         /\ Len(Sorted(S, before)) = Cardinality(S)
         /\ Elements(Sorted(S, before)) = S
         /\ \A j, k \in DOMAIN Sorted(S, before) :
              j < k => <<Sorted(S, before)[j], Sorted(S, before)[k]>> \in before
<1> DEFINE n == Cardinality(S)
           below(x) == {y \in S : <<y, x>> \in before}
           place == [x \in S |-> Cardinality(below(x)) + 1]
           s == Sorted(S, before)
<1>1. n \in Nat
  BY FS_CardinalityType
<1>2. \A x \in S : /\ IsFiniteSet(below(x)) /\ Cardinality(below(x)) \in Nat
                   /\ Cardinality(below(x)) <= n - 1
  <2> SUFFICES ASSUME NEW x \in S
               PROVE  /\ IsFiniteSet(below(x)) /\ Cardinality(below(x)) \in Nat
                      /\ Cardinality(below(x)) <= n - 1
    OBVIOUS
  <2>1. below(x) \subseteq S \ {x}
    BY DEF Orders
  <2>2. IsFiniteSet(S \ {x}) /\ Cardinality(S \ {x}) = n - 1
    BY FS_RemoveElement
  <2> HIDE DEF below, n
  <2> QED
    BY <2>1, <2>2, FS_Subset, FS_CardinalityType
<1>3. \A a, b \in S : <<a, b>> \in before => Cardinality(below(a)) < Cardinality(below(b))
  <2> SUFFICES ASSUME NEW a \in S, NEW b \in S, <<a, b>> \in before
               PROVE  Cardinality(below(a)) < Cardinality(below(b))
    OBVIOUS
  <2>1. below(a) \subseteq below(b) /\ a \in below(b) /\ a \notin below(a)
    BY DEF Orders
  <2> HIDE DEF below
  <2>2. /\ Cardinality(below(a)) <= Cardinality(below(b))
        /\ Cardinality(below(a)) # Cardinality(below(b))
    BY <1>2, <2>1, FS_Subset
  <2>3. Cardinality(below(a)) \in Nat /\ Cardinality(below(b)) \in Nat
    BY <1>2
  <2> QED
    BY <2>2, <2>3
<1> HIDE DEF n, below
<1>4. place \in Injection(S, 1 .. n)
  <2>1. place \in [S -> 1 .. n]
    BY <1>1, <1>2
  <2>2. ASSUME NEW a \in S, NEW b \in S, a # b
        PROVE  place[a] # place[b]
    <3>1. Cardinality(below(a)) \in Nat /\ Cardinality(below(b)) \in Nat
      BY <1>2
    <3>2. <<a, b>> \in before \/ <<b, a>> \in before
      BY <2>2 DEF Orders
    <3>3. \/ Cardinality(below(a)) < Cardinality(below(b))
          \/ Cardinality(below(b)) < Cardinality(below(a))
      BY <1>3, <3>2
    <3> QED
      BY <3>1, <3>3
  <2> QED
    BY <2>1, <2>2 DEF Injection, IsInjective
<1>5. \A k \in 1 .. n : \E x \in S : Cardinality(below(x)) = k - 1
  <2>1. IsFiniteSet(1 .. n) /\ Cardinality(1 .. n) = n
    BY <1>1, FS_Interval
  <2>2. place \in Surjection(S, 1 .. n)
    BY <1>4, <2>1, FS_Injection DEF n
  <2>3. \A k \in 1 .. n : \E x \in S : place[x] = k
    BY <2>2 DEF Surjection
  <2> SUFFICES ASSUME NEW k \in 1 .. n
               PROVE  \E x \in S : Cardinality(below(x)) = k - 1
    OBVIOUS
  <2>4. PICK x \in S : place[x] = k
    BY <2>3
  <2>5. Cardinality(below(x)) \in Nat /\ Cardinality(below(x)) + 1 = k
    BY <1>2, <2>4
  <2>6. Cardinality(below(x)) = k - 1
    BY <2>5
  <2> QED
    BY <2>6
<1>6. s = [k \in 1 .. n |-> CHOOSE x \in S : Cardinality(below(x)) = k - 1]
  BY DEF s, n, below, Sorted
<1> HIDE DEF s
<1>7. \A k \in 1 .. n : s[k] \in S /\ Cardinality(below(s[k])) = k - 1
  BY <1>5, <1>6
<1>8. DOMAIN s = 1 .. n /\ s \in [1 .. n -> S]
  BY <1>6, <1>7
<1>9. s \in Seq(S) /\ Len(s) = n
  BY <1>1, <1>8
<1>10. Elements(s) = S
  <2>1. ASSUME NEW x \in S
        PROVE  \E k \in 1 .. n : s[k] = x
    <3> DEFINE k == place[x]
    <3>1. k \in 1 .. n /\ Cardinality(below(x)) = k - 1
      BY <1>1, <1>2
    <3> HIDE DEF k
    <3>2. s[k] \in S /\ Cardinality(below(s[k])) = Cardinality(below(x))
      BY <1>7, <3>1
    <3>3. s[k] = x
      BY <1>4, <3>2 DEF Injection, IsInjective
    <3> QED
      BY <3>1, <3>3
  <2> QED
    BY <1>7, <1>8, <2>1 DEF Elements
<1>11. ASSUME NEW j \in DOMAIN s, NEW k \in DOMAIN s, j < k
       PROVE  <<s[j], s[k]>> \in before
  <2>1. /\ s[j] \in S /\ Cardinality(below(s[j])) = j - 1
        /\ s[k] \in S /\ Cardinality(below(s[k])) = k - 1
        /\ j \in Nat /\ k \in Nat
    BY <1>1, <1>7, <1>8
  <2>2. s[j] # s[k] /\ <<s[k], s[j]>> \notin before
    BY <1>3, <1>11, <2>1
  <2> QED
    BY <2>1, <2>2 DEF Orders
<1> QED
  BY <1>9, <1>10, <1>11 DEF s, n

(***************************************************************************)
(* The walk meets entries in a total order, and sortTree puts the entries  *)
(* of one folder in a total order.                                         *)
(***************************************************************************)
LEMMA WalkIsAnOrder == \A S \in SUBSET Paths : Orders(RankOrder, S)
<1> SUFFICES ASSUME NEW S \in SUBSET Paths
             PROVE  Orders(RankOrder, S)
  OBVIOUS
<1>1. \A a, b \in S : <<a, b>> \in RankOrder <=> Rank[a] < Rank[b]
  BY DEF RankOrder
<1>2. \A a, b \in S : Rank[a] \in Nat /\ (Rank[a] = Rank[b] => a = b)
  BY RankAssumption
<1> QED
  BY <1>1, <1>2 DEF Orders

LEMMA SortIsAnOrder ==
  ASSUME NEW d, NEW S \in SUBSET Children(d)
  PROVE  Orders(SortOrder, S)
<1>1. \A a, b \in S : <<a, b>> \in SortOrder <=> SortsBefore(a, b)
  BY DEF SortOrder, Children
<1>2. \A a, b \in S : /\ Rank[a] \in Nat /\ (Rank[a] = Rank[b] => a = b)
                      /\ a \in Videos => Title[a] \in Nat
                      /\ a \notin Videos /\ b \in Videos => Rank[a] < Rank[b]
  BY RankAssumption, TitleAssumption DEF Children, Paths
<1>3. \A a \in S : <<a, a>> \notin SortOrder
  BY <1>1, <1>2 DEF SortsBefore
<1>4. \A a, b, c \in S : SortsBefore(a, b) /\ SortsBefore(b, c) => SortsBefore(a, c)
  BY <1>2 DEF SortsBefore
<1>5. \A a, b \in S : a # b => SortsBefore(a, b) \/ SortsBefore(b, a)
  BY <1>2 DEF SortsBefore
<1> QED
  BY <1>1, <1>3, <1>4, <1>5 DEF Orders

-----------------------------------------------------------------------------
(***************************************************************************)
(* allocID: whatever a scan may publish, every entry of its tree has an    *)
(* id.                                                                     *)
(***************************************************************************)
LEMMA IndexesResolve == \A i \in Indexes : Resolves(i)
<1> SUFFICES ASSUME NEW i \in Indexes
             PROVE  Resolves(i)
  OBVIOUS
<1>1. PICK w \in SUBSET Paths :
        \E refused \in SUBSET (w \cap Videos) : i = IndexOf(Sorted(w, RankOrder), refused)
  BY DEF Indexes
<1>2. PICK refused \in SUBSET (w \cap Videos) : i = IndexOf(Sorted(w, RankOrder), refused)
  BY <1>1
<1> DEFINE walked == Sorted(w, RankOrder)
<1>3. IsFiniteSet(w)
  BY TreeAssumption, FS_Subset
<1>4. walked \in Seq(w) /\ Elements(walked) = w
  BY <1>3, SortedIsASort, WalkIsAnOrder
<1> HIDE DEF walked
<1>5. walked \in Seq(Paths)
  BY <1>4, SeqMonotonic
<1>6. /\ i.byID = walked
      /\ i.tree = Prune(DropRejected({Root} \cup Elements(walked), refused))
  BY <1>2 DEF IndexOf, walked
<1> QED
  BY <1>4, <1>5, <1>6 DEF Resolves, Prune, DropRejected

(***************************************************************************)
(* didlObject and Library.Node: the id a listing gives an entry of the     *)
(* tree resolves to that entry.                                            *)
(***************************************************************************)
LEMMA IdsResolve ==
  ASSUME NEW i, Resolves(i), NEW p \in i.tree, p # Root
  PROVE  Object(i, p).path = p /\ Node(i, Object(i, p).id) = p
<1>1. i.byID \in Seq(Paths)
  BY DEF Resolves
<1>2. DOMAIN i.byID = 1 .. Len(i.byID) /\ Len(i.byID) \in Nat
  BY <1>1, LenProperties
<1>3. \E k \in DOMAIN i.byID : i.byID[k] = p
  BY DEF Resolves, Elements
<1> DEFINE id == CHOOSE k \in DOMAIN i.byID : i.byID[k] = p
<1>4. Object(i, p) = [id |-> id, path |-> p]
  BY DEF Object
<1>5. id \in DOMAIN i.byID /\ i.byID[id] = p
  BY <1>3
<1> HIDE DEF id
<1>6. id # 0
  BY <1>2, <1>5
<1> QED
  BY <1>4, <1>5, <1>6 DEF Node

(***************************************************************************)
(* browse: a listing is a sequence that shows every child of the folder    *)
(* in the tree, and nothing else.                                          *)
(***************************************************************************)
LEMMA ListingsShowChildren ==
  ASSUME NEW i, Resolves(i), NEW d
  PROVE  /\ Listing(i, d) \in Seq(Elements(Listing(i, d)))
         /\ Elements(Listing(i, d)) = {Object(i, p) : p \in {q \in i.tree \ {Root} : Parent(q) = d}}
<1> DEFINE S == {q \in i.tree \ {Root} : Parent(q) = d}
           nodes == Sorted(S, SortOrder)
           L == Listing(i, d)
<1>1. S \in SUBSET Children(d)
  <2>1. Elements(i.byID) \subseteq Paths
    BY DEF Resolves, Elements
  <2> QED
    BY <2>1 DEF Children, Resolves
<1>2. IsFiniteSet(S)
  BY <1>1, TreeAssumption, FS_Subset DEF Children
<1>3. nodes \in Seq(S) /\ Elements(nodes) = S
  BY <1>1, <1>2, SortedIsASort, SortIsAnOrder
<1>4. Len(nodes) \in Nat /\ DOMAIN nodes = 1 .. Len(nodes)
  BY <1>3, LenProperties
<1>5. L = [k \in DOMAIN nodes |-> Object(i, nodes[k])]
  BY DEF Listing
<1> HIDE DEF L, nodes, S
<1>6. Elements(L) = {Object(i, p) : p \in S}
  BY <1>3, <1>5 DEF Elements
<1>7. L \in [1 .. Len(nodes) -> Elements(L)]
  BY <1>4, <1>5 DEF Elements
<1>8. L \in Seq(Elements(L))
  BY <1>4, <1>7
<1> QED
  BY <1>6, <1>8 DEF L, S

(***************************************************************************)
(* sliceWindow: the page that begins after the first n objects goes on     *)
(* where they end, and is empty only at the end of the listing.            *)
(***************************************************************************)
LEMMA PagesGoOn ==
  ASSUME NEW T, NEW L \in Seq(T), NEW n \in 0 .. Len(L)
  PROVE  LET page == sliceWindow(L, n, PageSize)
         IN  \E m \in n .. Len(L) :
               /\ page = SubSeq(L, n + 1, m)
               /\ SubSeq(L, 1, n) \o page = SubSeq(L, 1, m)
               /\ Len(SubSeq(L, 1, m)) = m
               /\ page = << >> => m = Len(L)
<1> DEFINE rest == SubSeq(L, n + 1, Len(L))
           page == sliceWindow(L, n, PageSize)
<1>1. Len(L) \in Nat /\ n \in Nat /\ n <= Len(L) /\ PageSize \in Nat
  BY LenProperties, ClientAssumption
<1>2. \A i \in 1 .. Len(L) : L[i] \in T
  BY ElementOfSeq
<1>3. rest \in Seq(T) /\ Len(rest) = Len(L) - n
  <2>1. \A i \in n + 1 .. Len(L) : L[i] \in T
    BY <1>1, <1>2
  <2> QED
    BY <1>1, <2>1, SubSeqProperties
<1>4. PICK m \in n .. Len(L) : page = SubSeq(L, n + 1, m) /\ (m = n => m = Len(L))
  <2>1. CASE PageSize > 0 /\ PageSize < Len(rest)
    <3> DEFINE m == n + PageSize
    <3>1. page = SubSeq(rest, 1, PageSize)
      BY <2>1 DEF sliceWindow
    <3>2. /\ n + 1 \in 1 .. Len(L) /\ Len(L) \in 1 .. Len(L)
          /\ 1 \in 1 .. Len(L) - (n + 1) + 1 /\ PageSize \in 1 .. Len(L) - (n + 1) + 1
      BY <1>1, <1>3, <2>1
    <3>3. SubSeq(rest, 1, PageSize) = SubSeq(L, n + 1 + 1 - 1, n + 1 + PageSize - 1)
      BY <3>2, <1>3, SubSeqOfSubSeq
    <3>4. n + 1 + 1 - 1 = n + 1 /\ n + 1 + PageSize - 1 = m
      BY <1>1
    <3>5. page = SubSeq(L, n + 1, m)
      BY <3>1, <3>3, <3>4
    <3>6. m \in n .. Len(L) /\ m # n
      BY <1>1, <1>3, <2>1
    <3> QED
      BY <3>5, <3>6
  <2>2. CASE ~(PageSize > 0 /\ PageSize < Len(rest))
    <3>1. page = rest
      BY <2>2 DEF sliceWindow
    <3> QED
      BY <1>1, <3>1
  <2> QED
    BY <2>1, <2>2
<1> HIDE DEF page
<1>5. m \in Nat /\ n <= m /\ m <= Len(L)
  BY <1>1
<1>6. Len(page) = m - n
  <2>1. \A i \in n + 1 .. m : L[i] \in T
    BY <1>1, <1>2, <1>5
  <2>2. Len(SubSeq(L, n + 1, m)) = IF n + 1 <= m THEN m - (n + 1) + 1 ELSE 0
    BY <1>1, <1>5, <2>1, SubSeqProperties
  <2> QED
    BY <1>1, <1>4, <1>5, <2>2
<1>7. page = << >> => m = Len(L)
  BY <1>1, <1>4, <1>5, <1>6
<1>8. Len(SubSeq(L, 1, m)) = m
  <2>1. \A i \in 1 .. m : L[i] \in T
    BY <1>1, <1>2, <1>5
  <2>2. Len(SubSeq(L, 1, m)) = IF 1 <= m THEN m - 1 + 1 ELSE 0
    BY <1>5, <2>1, SubSeqProperties
  <2> QED
    BY <1>5, <2>2
<1>9. SubSeq(L, 1, n) \o page = SubSeq(L, 1, m)
  <2>1. 1 \in 1 .. Len(L) + 1 /\ n \in 1 - 1 .. Len(L) /\ m \in n .. Len(L)
    BY <1>1, <1>5
  <2>2. SubSeq(L, 1, n) \o SubSeq(L, n + 1, m) = SubSeq(L, 1, m)
    BY <2>1, ConcatAdjacentSubSeq
  <2> QED
    BY <1>4, <2>2
<1> QED
  BY <1>4, <1>7, <1>8, <1>9 DEF page

(***************************************************************************)
(* The listing of the folder in any published index is a sequence; for an  *)
(* object that is not a container, or that the index does not have, it is  *)
(* empty.                                                                  *)
(***************************************************************************)
LEMMA ListingsAreSequences ==
  ASSUME PublishedSound, NEW n \in 1 .. updateID
  PROVE  /\ ListingIn(n) \in Seq(Elements(ListingIn(n)))
         /\ Len(ListingIn(n)) \in Nat
         /\ \A k \in DOMAIN ListingIn(n) :
              \E p \in published[n].tree \ {Root} : ListingIn(n)[k] = Object(published[n], p)
<1> DEFINE d == Node(published[n], folder)
           L == ListingIn(n)
<1>1. Resolves(published[n])
  BY IndexesResolve, ElementOfSeq, LenProperties DEF PublishedSound, updateID
<1>2. L \in Seq(Elements(L)) /\ \A k \in DOMAIN L :
        \E p \in published[n].tree \ {Root} : L[k] = Object(published[n], p)
  <2>1. CASE d \in Containers
    <3>1. L = Listing(published[n], d)
      BY <2>1 DEF ListingIn
    <3>2. Elements(L) = {Object(published[n], p) :
                           p \in {q \in published[n].tree \ {Root} : Parent(q) = d}}
      BY <1>1, <3>1, ListingsShowChildren
    <3>3. L \in Seq(Elements(L))
      BY <1>1, <3>1, ListingsShowChildren
    <3> HIDE DEF L
    <3> QED
      BY <3>2, <3>3 DEF Elements
  <2>2. CASE d \notin Containers
    <3>1. L = << >>
      BY <2>2 DEF ListingIn
    <3> HIDE DEF L
    <3> QED
      BY <3>1, EmptySeq
  <2> QED
    BY <2>1, <2>2
<1> HIDE DEF L
<1>3. Len(L) \in Nat
  BY <1>2, LenProperties
<1> QED
  BY <1>2, <1>3 DEF L

-----------------------------------------------------------------------------
(***************************************************************************)
(* The server starts with one coherent index and nothing listed.           *)
(***************************************************************************)
LEMMA InitIInv == ServiceStarts => IInv
<1> SUFFICES ASSUME ServiceStarts
             PROVE  IInv
  OBVIOUS
<1> USE DEF ServiceStarts
<1>1. PICK i \in Indexes : published = <<i>>
  OBVIOUS
<1>2. PublishedSound
  BY <1>1 DEF PublishedSound, updateID
<1>3. updateID = 1
  BY <1>1 DEF updateID
<1>4. ListingBegan
  BY <1>3 DEF ListingBegan
<1> QED
  BY <1>2, <1>4 DEF IInv, PagesFit, NothingPlayedYet, SteadyListingIsExact, SteadyIdPlaysItsVideo

(***************************************************************************)
(* A rescan publishes one more index; those before it stay what they were, *)
(* and no listing under way is of the new one.                             *)
(***************************************************************************)
LEMMA RebuildKeeps == IInv /\ Rebuild => IInv'
<1> SUFFICES ASSUME IInv, Rebuild
             PROVE  IInv'
  OBVIOUS
<1>1. PICK i \in Indexes : published' = Append(published, i)
  BY DEF Rebuild
<1>2. UNCHANGED <<pc, folder, start, got, answer, steady, played>>
  BY DEF Rebuild, client
<1>3. published \in Seq(Indexes) /\ updateID \in Nat /\ DOMAIN published = 1 .. updateID
  BY LenProperties DEF IInv, PublishedSound, updateID
<1>4. /\ published' \in Seq(Indexes) /\ updateID' = updateID + 1
      /\ \A n \in 1 .. updateID : published'[n] = published[n]
      /\ published'[updateID + 1] = i
  BY <1>1, <1>3, AppendProperties DEF updateID
<1>5. PublishedSound'
  BY <1>3, <1>4 DEF PublishedSound
<1>6. start \in 0 .. updateID /\ start # updateID'
  BY <1>3, <1>4 DEF IInv, ListingBegan
<1>7. ListingBegan'
  BY <1>2, <1>3, <1>4, <1>6 DEF IInv, ListingBegan
<1>8. pc # "idle" => ListingIn(start)' = ListingIn(start)
  <2> SUFFICES ASSUME pc # "idle"
               PROVE  ListingIn(start)' = ListingIn(start)
    OBVIOUS
  <2>1. start \in 1 .. updateID
    BY <1>3, <1>6 DEF IInv, ListingBegan
  <2>2. published'[start] = published[start]
    BY <1>4, <2>1
  <2> QED
    BY <1>2, <2>2 DEF ListingIn
<1>9. PagesFit'
  BY <1>2, <1>6, <1>8 DEF IInv, PagesFit
<1>10. NothingPlayedYet' /\ SteadyIdPlaysItsVideo'
  BY <1>2 DEF IInv, NothingPlayedYet, SteadyIdPlaysItsVideo
<1>11. SteadyListingIsExact'
  BY <1>2, <1>8 DEF IInv, SteadyListingIsExact
<1> QED
  BY <1>5, <1>7, <1>9, <1>10, <1>11 DEF IInv

-----------------------------------------------------------------------------
(***************************************************************************)
(* A listing begins with nothing received, at the index current now.       *)
(***************************************************************************)
LEMMA BeginKeeps == IInv /\ GetSystemUpdateID => IInv'
<1> SUFFICES ASSUME IInv, GetSystemUpdateID
             PROVE  IInv'
  OBVIOUS
<1>1. /\ published' = published /\ start' = updateID /\ got' = << >>
      /\ steady' = TRUE /\ played' = NotPlayed /\ pc' = "listing"
  BY DEF GetSystemUpdateID
<1>2. PublishedSound' /\ updateID' = updateID
  BY <1>1 DEF IInv, PublishedSound, updateID
<1>3. updateID \in Nat \ {0}
  BY LenProperties DEF IInv, PublishedSound, updateID
<1>4. ListingBegan'
  BY <1>1, <1>2, <1>3 DEF ListingBegan
<1>5. PagesFit'
  <2> DEFINE d == Node(index, folder')
             L == IF d \in Containers THEN Listing(index, d) ELSE << >>
  <2>1. Resolves(index)
    BY <1>3, IndexesResolve, ElementOfSeq, LenProperties DEF IInv, PublishedSound, updateID, index
  <2>2. Len(L) \in Nat
    <3>1. Listing(index, d) \in Seq(Elements(Listing(index, d)))
      BY <2>1, ListingsShowChildren
    <3>2. Len(Listing(index, d)) \in Nat /\ Len(<< >>) = 0
      BY <3>1, LenProperties
    <3> HIDE DEF d
    <3> QED
      BY <3>2
  <2>3. ListingIn(start)' = L
    BY <1>1 DEF ListingIn, index
  <2> HIDE DEF L
  <2>4. Len(<< >>) = 0 /\ SubSeq(L, 1, 0) = << >> /\ 0 \in 0 .. Len(L)
    BY <2>2, SubSeqEmpty
  <2> QED
    BY <1>1, <2>3, <2>4 DEF PagesFit
<1>6. NothingPlayedYet' /\ SteadyListingIsExact' /\ SteadyIdPlaysItsVideo'
  BY <1>1 DEF NothingPlayedYet, SteadyListingIsExact, SteadyIdPlaysItsVideo
<1> QED
  BY <1>2, <1>4, <1>5, <1>6 DEF IInv

(***************************************************************************)
(* A page is cut from the index current now, which is that of the listing  *)
(* unless the UpdateID has changed.                                        *)
(***************************************************************************)
LEMMA LookupKeeps == IInv /\ BrowseLookup => IInv'
<1> SUFFICES ASSUME IInv, BrowseLookup
             PROVE  IInv'
  OBVIOUS
<1> DEFINE node == Node(index, folder)
           children == IF node \in Containers THEN Listing(index, node) ELSE << >>
<1>1. /\ pc = "listing"
      /\ UNCHANGED <<published, folder, start, got, steady, played>>
  BY DEF BrowseLookup
<1>2. \/ pc' = "idle"
      \/ /\ pc' = "looked"
         /\ answer' = [objects |-> sliceWindow(children, Len(got), PageSize),
                       total |-> Len(children)]
  BY DEF BrowseLookup
<1>3. PublishedSound' /\ updateID' = updateID /\ ListingIn(start)' = ListingIn(start)
  BY <1>1 DEF IInv, PublishedSound, updateID, ListingIn
<1>4. ListingBegan'
  BY <1>1, <1>2, <1>3 DEF IInv, ListingBegan
<1>5. updateID = start => children = ListingIn(start)
  BY DEF ListingIn, index
<1> HIDE DEF children, node
<1>6. PagesFit'
  BY <1>1, <1>2, <1>3, <1>5 DEF IInv, PagesFit
<1>7. NothingPlayedYet' /\ SteadyListingIsExact' /\ SteadyIdPlaysItsVideo'
  BY <1>1, <1>2 DEF IInv, NothingPlayedYet, SteadyListingIsExact, SteadyIdPlaysItsVideo
<1> QED
  BY <1>3, <1>4, <1>6, <1>7 DEF IInv

(***************************************************************************)
(* The page is added to what was received; if no page is left to ask for,  *)
(* that is the whole listing.                                              *)
(***************************************************************************)
LEMMA AnswerKeeps == IInv /\ BrowseAnswer => IInv'
<1> SUFFICES ASSUME IInv, BrowseAnswer
             PROVE  IInv'
  OBVIOUS
<1> DEFINE L == ListingIn(start)
<1>1. /\ pc = "looked"
      /\ UNCHANGED <<published, folder, start, answer, played>>
      /\ got' = got \o answer.objects
      /\ steady' = (steady /\ updateID = start)
      /\ pc' = IF Len(got') >= answer.total \/ answer.objects = << >>
               THEN "listed" ELSE "listing"
  BY DEF BrowseAnswer
<1>2. PublishedSound' /\ updateID' = updateID /\ ListingIn(start)' = L
  BY <1>1 DEF IInv, PublishedSound, updateID, ListingIn
<1>3. steady' \in BOOLEAN /\ (steady' => steady /\ updateID = start)
      /\ (updateID = start => steady')
  BY <1>1 DEF IInv, ListingBegan
<1>4. pc' \in {"listed", "listing"}
  BY <1>1
<1>5. ListingBegan'
  BY <1>1, <1>2, <1>3, <1>4 DEF IInv, ListingBegan
<1>6. steady' => \E m \in 0 .. Len(L) :
        /\ got' = SubSeq(L, 1, m) /\ Len(got') = m
        /\ pc' = "listed" => m = Len(L)
  <2> SUFFICES ASSUME steady'
               PROVE  \E m \in 0 .. Len(L) :
                        /\ got' = SubSeq(L, 1, m) /\ Len(got') = m
                        /\ pc' = "listed" => m = Len(L)
    OBVIOUS
  <2>1. start \in 1 .. updateID /\ updateID = start /\ steady
    BY <1>1, <1>3, LenProperties DEF IInv, ListingBegan, PublishedSound, updateID
  <2>2. L \in Seq(Elements(L)) /\ Len(L) \in Nat
    BY <2>1, ListingsAreSequences DEF IInv
  <2>3. /\ Len(got) \in 0 .. Len(L) /\ got = SubSeq(L, 1, Len(got))
        /\ answer = [objects |-> sliceWindow(L, Len(got), PageSize), total |-> Len(L)]
    BY <1>1, <2>1 DEF IInv, PagesFit
  <2> HIDE DEF L
  <2>4. PICK m \in Len(got) .. Len(L) :
          /\ SubSeq(L, 1, Len(got)) \o sliceWindow(L, Len(got), PageSize) = SubSeq(L, 1, m)
          /\ Len(SubSeq(L, 1, m)) = m
          /\ sliceWindow(L, Len(got), PageSize) = << >> => m = Len(L)
    BY <2>2, <2>3, PagesGoOn
  <2>5. answer.objects = sliceWindow(L, Len(got), PageSize) /\ answer.total = Len(L)
    BY <2>3
  <2>6. got' = SubSeq(L, 1, m) /\ Len(got') = m
    BY <1>1, <2>3, <2>4, <2>5
  <2>7. m \in 0 .. Len(L)
    BY <2>2, <2>3, <2>4
  <2>8. pc' = "listed" => m >= Len(L) \/ sliceWindow(L, Len(got), PageSize) = << >>
    BY <1>1, <2>5, <2>6
  <2>9. pc' = "listed" => m = Len(L)
    BY <2>2, <2>4, <2>7, <2>8
  <2> QED
    BY <2>6, <2>7, <2>9
<1>7. steady' /\ pc' = "listed" => got' = L
  <2> SUFFICES ASSUME steady', pc' = "listed"
               PROVE  got' = L
    OBVIOUS
  <2>1. got' = SubSeq(L, 1, Len(L))
    BY <1>6
  <2>2. start \in 1 .. updateID
    BY <1>1, <1>3, LenProperties DEF IInv, ListingBegan, PublishedSound, updateID
  <2>3. L \in Seq(Elements(L))
    BY <2>2, ListingsAreSequences DEF IInv
  <2> HIDE DEF L
  <2> QED
    BY <2>1, <2>3, SubSeqFull
<1> HIDE DEF L
<1>8. PagesFit'
  BY <1>2, <1>4, <1>6 DEF PagesFit
<1>9. SteadyListingIsExact'
  BY <1>1, <1>2, <1>7 DEF SteadyListingIsExact
<1>10. played' = NotPlayed /\ start' # 0
  BY <1>1 DEF IInv, NothingPlayedYet, ListingBegan
<1>11. NothingPlayedYet' /\ SteadyIdPlaysItsVideo'
  BY <1>10 DEF NothingPlayedYet, SteadyIdPlaysItsVideo, NotPlayed
<1> QED
  BY <1>2, <1>5, <1>8, <1>9, <1>11 DEF IInv

(***************************************************************************)
(* While the UpdateID is that of a steady listing, an object in it is in   *)
(* the current index, where its id resolves to it.                         *)
(***************************************************************************)
LEMMA PlayKeeps == IInv /\ Play => IInv'
<1> SUFFICES ASSUME IInv, Play
             PROVE  IInv'
  OBVIOUS
<1>1. pc = "listed" /\ UNCHANGED <<published, pc, folder, start, got, answer, steady>>
  BY DEF Play
<1>2. PICK k \in DOMAIN got :
        LET node == Node(index, got[k].id)
        IN  played' = [object |-> got[k],
                       file   |-> IF node \in Videos THEN node ELSE None,
                       at     |-> updateID]
  BY DEF Play
<1>3. PublishedSound' /\ updateID' = updateID /\ ListingIn(start)' = ListingIn(start)
  BY <1>1 DEF IInv, PublishedSound, updateID, ListingIn
<1>4. ListingBegan' /\ PagesFit' /\ NothingPlayedYet' /\ SteadyListingIsExact'
  BY <1>1, <1>3 DEF IInv, ListingBegan, PagesFit, NothingPlayedYet, SteadyListingIsExact
<1>5. ASSUME steady, updateID = start, got[k].path \in Videos
      PROVE  Node(index, got[k].id) = got[k].path
  <2>1. got = ListingIn(start)
    BY <1>1, <1>5 DEF IInv, SteadyListingIsExact
  <2>2. start \in 1 .. updateID
    BY <1>1, <1>5, LenProperties DEF IInv, ListingBegan, PublishedSound, updateID
  <2>3. index = published[start] /\ Resolves(index)
    BY <1>5, <2>2, IndexesResolve, ElementOfSeq, LenProperties DEF IInv, PublishedSound, updateID, index
  <2>4. PICK p \in index.tree \ {Root} : got[k] = Object(index, p)
    BY <2>1, <2>2, <2>3, ListingsAreSequences DEF IInv
  <2> QED
    BY <2>3, <2>4, IdsResolve
<1>6. SteadyIdPlaysItsVideo'
  BY <1>1, <1>2, <1>5 DEF SteadyIdPlaysItsVideo
<1> QED
  BY <1>3, <1>4, <1>6 DEF IInv

(***************************************************************************)
(* Every step of the control point, and a step that leaves it and the      *)
(* library alone, preserves the inductive invariant.                       *)
(***************************************************************************)
LEMMA ClientKeeps == IInv /\ ClientStep => IInv'
<1> SUFFICES ASSUME IInv, ClientStep
             PROVE  IInv'
  OBVIOUS
<1>1. CASE Leave
  <2>1. pc' = "idle" /\ UNCHANGED <<published, folder, start, got, answer, steady, played>>
    BY <1>1 DEF Leave
  <2> QED
    BY <2>1 DEF IInv, PublishedSound, ListingBegan, PagesFit, NothingPlayedYet, updateID,
                SteadyListingIsExact, SteadyIdPlaysItsVideo
<1> QED
  BY <1>1, BeginKeeps, LookupKeeps, AnswerKeeps, PlayKeeps DEF ClientStep

LEMMA ServiceKeeps == IInv /\ UNCHANGED service => IInv'
BY DEF service, client, IInv, PublishedSound, ListingBegan, PagesFit, NothingPlayedYet, updateID,
       ListingIn, SteadyListingIsExact, SteadyIdPlaysItsVideo

-----------------------------------------------------------------------------
(***************************************************************************)
(* Every step of Control preserves the inductive invariant.                *)
(***************************************************************************)
LEMMA NextIInv == IInv /\ [Next]_<<service, events>> => IInv'
<1> SUFFICES ASSUME IInv, [Next]_<<service, events>>
             PROVE  IInv'
  OBVIOUS
<1>1. ASSUME NEW r \in Requests, Rescan(r)
      PROVE  IInv'
  BY <1>1, RebuildKeeps DEF Rescan
<1> QED
  BY <1>1, ClientKeeps, ServiceKeeps DEF Next

(***************************************************************************)
(* The invariant holds in every state of Control.                          *)
(***************************************************************************)
THEOREM InvariantHolds == Spec => []IInv
<1>1. Init => IInv
  BY InitIInv DEF Init
<1> QED
  BY <1>1, NextIInv, PTL DEF Spec

(***************************************************************************)
(* browse: a listing whose pages all carried the UpdateID read before them *)
(* is the listing of that index, exact, whatever is rescanned meanwhile.   *)
(***************************************************************************)
THEOREM SteadyListings == Spec => []SteadyListingIsExact
<1>1. IInv => SteadyListingIsExact
  BY DEF IInv
<1> QED
  BY <1>1, InvariantHolds, PTL

\* The objects of L are the children that d has in the index i, each once, in
\* the order of sortTree, and their ids resolve to them.
ShowsFolder(i, d, L) ==
  /\ {L[k].path : k \in DOMAIN L} = {p \in i.tree \ {Root} : Parent(p) = d}
  /\ \A j, k \in DOMAIN L : j < k => SortsBefore(L[j].path, L[k].path)
  /\ \A k \in DOMAIN L : Node(i, L[k].id) = L[k].path

(***************************************************************************)
(* browse and sortTree: the listing of a folder shows that folder.         *)
(***************************************************************************)
LEMMA ListingsShowFolders ==
  ASSUME NEW i, Resolves(i), NEW d
  PROVE  ShowsFolder(i, d, Listing(i, d))
<1> DEFINE S == {q \in i.tree \ {Root} : Parent(q) = d}
           nodes == Sorted(S, SortOrder)
           L == Listing(i, d)
<1>1. S \in SUBSET Children(d)
  <2>1. Elements(i.byID) \subseteq Paths
    BY DEF Resolves, Elements
  <2> QED
    BY <2>1 DEF Children, Resolves
<1>2. IsFiniteSet(S)
  BY <1>1, TreeAssumption, FS_Subset DEF Children
<1>3. /\ Elements(nodes) = S
      /\ \A j, k \in DOMAIN nodes : j < k => <<nodes[j], nodes[k]>> \in SortOrder
  BY <1>1, <1>2, SortedIsASort, SortIsAnOrder
<1>4. L = [k \in DOMAIN nodes |-> Object(i, nodes[k])]
  BY DEF Listing
<1> HIDE DEF L, nodes
<1>5. \A k \in DOMAIN nodes : nodes[k] \in S
  BY <1>3 DEF Elements
<1>6. \A p \in S : Object(i, p).path = p /\ Node(i, Object(i, p).id) = p
  BY IdsResolve
<1> HIDE DEF S
<1>7. \A k \in DOMAIN nodes : L[k].path = nodes[k] /\ Node(i, L[k].id) = nodes[k]
  BY <1>4, <1>5, <1>6
<1>8. DOMAIN L = DOMAIN nodes
  BY <1>4
<1>9. {L[k].path : k \in DOMAIN L} = S
  BY <1>3, <1>7, <1>8 DEF Elements
<1>10. \A j, k \in DOMAIN nodes : j < k => SortsBefore(nodes[j], nodes[k])
  BY <1>3 DEF SortOrder
<1>11. \A j, k \in DOMAIN L : j < k => SortsBefore(L[j].path, L[k].path)
  BY <1>7, <1>8, <1>10
<1>12. \A k \in DOMAIN L : Node(i, L[k].id) = L[k].path
  BY <1>7, <1>8
<1> QED
  BY <1>9, <1>11, <1>12 DEF ShowsFolder, L, S

(***************************************************************************)
(* browse: what a control point has listed under one UpdateID is the       *)
(* folder as it was in that index: nothing is missing, nothing is there    *)
(* twice, and everything can be played.                                    *)
(***************************************************************************)
THEOREM SteadyListingsShowFolders ==
  Spec => [](pc = "listed" /\ steady =>
               LET i == published[start]
                   d == Node(i, folder)
               IN  IF d \in Containers THEN ShowsFolder(i, d, got) ELSE got = << >>)
<1> DEFINE Shown == pc = "listed" /\ steady =>
                      LET i == published[start]
                          d == Node(i, folder)
                      IN  IF d \in Containers THEN ShowsFolder(i, d, got) ELSE got = << >>
<1>1. IInv => Shown
  <2> SUFFICES ASSUME IInv, pc = "listed", steady
               PROVE  LET i == published[start]
                          d == Node(i, folder)
                      IN  IF d \in Containers THEN ShowsFolder(i, d, got) ELSE got = << >>
    OBVIOUS
  <2>1. got = ListingIn(start)
    BY DEF IInv, SteadyListingIsExact
  <2>2. start \in 1 .. updateID
    BY LenProperties DEF IInv, ListingBegan, PublishedSound, updateID
  <2>3. Resolves(published[start])
    BY <2>2, IndexesResolve, ElementOfSeq, LenProperties DEF IInv, PublishedSound, updateID
  <2> QED
    BY <2>1, <2>3, ListingsShowFolders DEF ListingIn
<1> HIDE DEF Shown
<1>2. Spec => []Shown
  BY <1>1, InvariantHolds, PTL
<1> QED
  BY <1>2 DEF Shown

(***************************************************************************)
(* handleMedia: an id from a steady listing plays the video it was listed  *)
(* with while the UpdateID is the same.                                    *)
(***************************************************************************)
THEOREM SteadyIds == Spec => []SteadyIdPlaysItsVideo
<1>1. IInv => SteadyIdPlaysItsVideo
  BY DEF IInv
<1> QED
  BY <1>1, InvariantHolds, PTL

-----------------------------------------------------------------------------
Events == INSTANCE Gena_proofs WITH updateID <- updateID

(***************************************************************************)
(* A step of Control is a step of Gena on the same UpdateID, or leaves the *)
(* variables of Gena alone.                                                *)
(***************************************************************************)
LEMMA StepsAreGenas == [Next]_<<service, events>> => [Feed!Next]_(Feed!vars)
<1> SUFFICES ASSUME [Next]_<<service, events>>
             PROVE  [Feed!Next]_(Feed!vars)
  OBVIOUS
<1>1. CASE UNCHANGED events /\ (ClientStep \/ UNCHANGED service)
  <2>1. UNCHANGED published
    BY <1>1 DEF ClientStep, GetSystemUpdateID, BrowseLookup, BrowseAnswer, Play, Leave, service
  <2> QED
    BY <1>1, <2>1 DEF Feed!vars, events, updateID
<1>2. ASSUME NEW r \in Requests, Rescan(r)
      PROVE  Feed!Next
  BY <1>2 DEF Rescan, Feed!Next, Feed!RescanStep
<1>3. ASSUME NEW r \in Requests, RescanStep(r)
      PROVE  Feed!Next
  BY <1>3 DEF RescanStep, Feed!Next, Feed!RescanStep
<1>4. ASSUME NEW s \in Sids, SubscriberStep(s)
      PROVE  Feed!Next
  BY <1>4 DEF SubscriberStep, Feed!Next
<1>5. ASSUME NEW e \in sent \ heard, Feed!Deliver(e)
      PROVE  Feed!Next
  BY <1>5 DEF Feed!Next
<1> QED
  BY <1>1, <1>2, <1>3, <1>4, <1>5 DEF Next

(***************************************************************************)
(* Control implements Gena: putting a control point that lists beside the  *)
(* subscriptions and the rescans changes nothing about the events.         *)
(***************************************************************************)
THEOREM ControlImplementsGena == Spec => Feed!Spec
<1>1. Init => Feed!Init
  BY DEF Init
<1> QED
  BY <1>1, StepsAreGenas, PTL DEF Spec, Feed!Spec

(***************************************************************************)
(* The Gena that Control runs and the one Gena_proofs is about are one and *)
(* the same: each definition of the one is that of the other.              *)
(***************************************************************************)
LEMMA FeedIsEvents ==
  /\ Feed!Init => Events!Init
  /\ [Feed!Next]_(Feed!vars) => [Events!Next]_(Events!vars)
<1>1. Feed!Init => Events!Init
  BY DEF Feed!Init, Events!Init
<1>2. \A r \in Requests :
        Feed!RequestRescan(r) \/ Feed!LockRescan(r) \/ Feed!RescanStep(r) => Events!Next
  <2> SUFFICES ASSUME NEW r \in Requests,
                      Feed!RequestRescan(r) \/ Feed!LockRescan(r) \/ Feed!RescanStep(r)
               PROVE  Events!RequestRescan(r) \/ Events!LockRescan(r) \/ Events!RescanStep(r)
    BY DEF Events!Next
  <2>1. Feed!RequestRescan(r) => Events!RequestRescan(r)
    BY DEF Feed!RequestRescan, Events!RequestRescan, Feed!Holds, Events!Holds,
           Feed!Subscribed, Events!Subscribed, Feed!Event, Events!Event
  <2>2. Feed!LockRescan(r) => Events!LockRescan(r)
    BY DEF Feed!LockRescan, Events!LockRescan, Feed!Holds, Events!Holds, Feed!Subscribed,
           Events!Subscribed, Feed!Event, Events!Event
  <2>3. Feed!ScanSucceeds(r) => Events!ScanSucceeds(r)
    BY DEF Feed!ScanSucceeds, Events!ScanSucceeds, Feed!Holds, Events!Holds,
           Feed!Subscribed, Events!Subscribed, Feed!Event, Events!Event
  <2>4. Feed!ScanFails(r) => Events!ScanFails(r)
    BY DEF Feed!ScanFails, Events!ScanFails, Feed!Holds, Events!Holds, Feed!Subscribed,
           Events!Subscribed, Feed!Event, Events!Event
  <2>5. Feed!NotifyLocked(r) => Events!NotifyLocked(r)
    BY DEF Feed!NotifyLocked, Events!NotifyLocked, Feed!Holds, Events!Holds,
           Feed!Subscribed, Events!Subscribed, Feed!Event, Events!Event
  <2>6. Feed!SpawnEvent(r) => Events!SpawnEvent(r)
    BY DEF Feed!SpawnEvent, Events!SpawnEvent, Feed!Holds, Events!Holds, Feed!Subscribed,
           Events!Subscribed, Feed!Event, Events!Event
  <2>7. Feed!ReturnRescan(r) => Events!ReturnRescan(r)
    BY DEF Feed!ReturnRescan, Events!ReturnRescan, Feed!Holds, Events!Holds,
           Feed!Subscribed, Events!Subscribed, Feed!Event, Events!Event
  <2> QED
    BY <2>1, <2>2, <2>3, <2>4, <2>5, <2>6, <2>7 DEF Feed!RescanStep, Events!RescanStep
<1>3. \A s \in Sids :
        (Feed!Subscribe(s) \/ Feed!SpawnInitial(s) \/ Feed!AnswerSubscribe(s)
           \/ Feed!Renew(s) \/ Feed!Unsubscribe(s) \/ Feed!Lapse(s)) => Events!Next
  <2> TAKE s \in Sids
  <2>1. Feed!Subscribe(s) => Events!Subscribe(s)
    BY DEF Feed!Subscribe, Events!Subscribe, Feed!Subscribed, Events!Subscribed,
           Feed!Event, Events!Event, Feed!KnowsSid, Events!KnowsSid
  <2>2. Feed!SpawnInitial(s) => Events!SpawnInitial(s)
    BY DEF Feed!SpawnInitial, Events!SpawnInitial, Feed!Subscribed, Events!Subscribed,
           Feed!Event, Events!Event, Feed!KnowsSid, Events!KnowsSid
  <2>3. Feed!AnswerSubscribe(s) => Events!AnswerSubscribe(s)
    BY DEF Feed!AnswerSubscribe, Events!AnswerSubscribe, Feed!Subscribed,
           Events!Subscribed, Feed!Event, Events!Event, Feed!KnowsSid, Events!KnowsSid
  <2>4. Feed!Renew(s) => Events!Renew(s)
    BY DEF Feed!Renew, Events!Renew, Feed!Subscribed, Events!Subscribed, Feed!Event,
           Events!Event, Feed!KnowsSid, Events!KnowsSid
  <2>5. Feed!Unsubscribe(s) => Events!Unsubscribe(s)
    BY DEF Feed!Unsubscribe, Events!Unsubscribe, Feed!Subscribed, Events!Subscribed,
           Feed!Event, Events!Event, Feed!KnowsSid, Events!KnowsSid, Feed!Restrict,
           Events!Restrict
  <2>6. Feed!Lapse(s) => Events!Lapse(s)
    BY DEF Feed!Lapse, Events!Lapse, Feed!Subscribed, Events!Subscribed, Feed!Event,
           Events!Event, Feed!KnowsSid, Events!KnowsSid
  <2> QED
    BY <2>1, <2>2, <2>3, <2>4, <2>5, <2>6 DEF Events!Next
<1>4. \A e \in sent \ heard : Feed!Deliver(e) => Events!Next
  BY DEF Feed!Deliver, Events!Deliver, Events!Next
<1>5. UNCHANGED Feed!vars => UNCHANGED Events!vars
  BY DEF Feed!vars, Events!vars
<1> QED
  BY <1>1, <1>2, <1>3, <1>4, <1>5 DEF Feed!Next

(***************************************************************************)
(* What Gena_proofs shows of the last event holds of the events of         *)
(* Control.                                                                *)
(***************************************************************************)
LEMMA EventsTellEverybody == Spec => []Feed!NobodyIsLeftBehind
<1>1. Events!GenaAssumption
  BY FeedAssumption DEF Events!GenaAssumption, IsFiniteSet, Events!IsFiniteSet
<1>2. Events!Spec => []Events!NobodyIsLeftBehind
  BY <1>1, Events!EverybodyIsTold
<1>3. Feed!Spec => Events!Spec
  BY FeedIsEvents, PTL DEF Feed!Spec, Events!Spec
<1>4. Events!NobodyIsLeftBehind => Feed!NobodyIsLeftBehind
  BY DEF Feed!NobodyIsLeftBehind, Events!NobodyIsLeftBehind, Feed!Settled,
         Events!Settled, Feed!Holds, Events!Holds, Feed!Subscribed, Events!Subscribed
<1> QED
  BY <1>2, <1>3, <1>4, ControlImplementsGena, PTL

(***************************************************************************)
(* Rescan, handleSubscribe and browse together: a control point that lists *)
(* again when an event tells it to ends up with the current listing.       *)
(***************************************************************************)
THEOREM ControlPointsCatchUp == Spec => []ListingsCatchUp
<1>1. IInv /\ Feed!NobodyIsLeftBehind => ListingsCatchUp
  <2> SUFFICES ASSUME IInv, Feed!NobodyIsLeftBehind, pc = "listed",
                      NEW s \in Sids, UpToDate(s)
               PROVE  got = ListingIn(updateID)
    BY DEF ListingsCatchUp
  <2>1. PICK e \in sent : e.sid = s /\ e.body = updateID
    BY DEF UpToDate, Feed!NobodyIsLeftBehind
  <2>2. updateID <= start
    BY <2>1 DEF UpToDate
  <2>3. start \in 0 .. updateID /\ updateID \in Nat
    BY LenProperties DEF IInv, ListingBegan, PublishedSound, updateID
  <2>4. updateID = start
    BY <2>2, <2>3
  <2>5. steady
    BY <2>4 DEF IInv, ListingBegan
  <2> QED
    BY <2>4, <2>5 DEF IInv, SteadyListingIsExact
<1> QED
  BY <1>1, InvariantHolds, EventsTellEverybody, PTL
==============================================================================
