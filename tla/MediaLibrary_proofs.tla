------------------------- MODULE MediaLibrary_proofs ------------------------
(***************************************************************************)
(* Safety of MediaLibrary, for every media folder, every number of workers *)
(* and every depth limit.                                                  *)
(*                                                                         *)
(* TypeOK /\ EachVideoProbedOnce /\ IndexCoherent is not inductive: that   *)
(* the published index is coherent rests on what the walk and the pool     *)
(* leave behind, which WalkSound and PoolSound state.                      *)
(***************************************************************************)
EXTENDS MediaLibrary, FiniteSetTheorems, SequenceTheorems, TLAPS

\* The walk: nodes are met in rank order, each from a listing of its parent,
\* and whatever is still to be met comes later.
WalkSound ==
  /\ Elements(walked) \subseteq listed
  /\ \A p \in listed : Parent(p) = Root \/ Parent(p) \in Elements(walked)
  /\ \A j, k \in DOMAIN walked : j < k => Rank[walked[j]] < Rank[walked[k]]
  /\ \A p \in Elements(walked), q \in listed \ Elements(walked) : Rank[p] < Rank[q]

\* The pool: until probing starts it is empty, and then every video that was
\* met is waiting, being probed, or done.
PoolSound ==
  /\ phase = "walk" => todo = {} /\ at = Idle /\ probed = {} /\ refused = {}
  /\ phase = "probe" =>
       \A v \in WalkedVideos : v \in todo \cup probed \/ \E w \in WorkerIDs : at[w] = v
  /\ phase # "walk" =>
       /\ todo \cup probed \subseteq WalkedVideos
       /\ \A w \in WorkerIDs : at[w] # None => at[w] \in WalkedVideos
  /\ phase = "publish" => probed = WalkedVideos
  /\ refused \subseteq probed

\* Until something is published there is nothing to resolve.
EmptyUntilPublished == updateID = 0 => index.byID = << >>

IInv ==
  /\ TypeOK
  /\ EachVideoProbedOnce
  /\ WalkSound
  /\ PoolSound
  /\ IndexCoherent
  /\ EmptyUntilPublished

-----------------------------------------------------------------------------
(***************************************************************************)
(* Paths are not the root, and a folder is not a video.                    *)
(***************************************************************************)
LEMMA PathsAreNotRoot ==
  /\ Root \notin Paths
  /\ Containers \cap Videos = {}
  /\ \A p \in Paths : p \in Seq(Nat) /\ Len(p) \in Nat \ {0}
BY TreeAssumption, EmptySeq DEF Root, Paths, Containers

(***************************************************************************)
(* The parent of an entry, and the parent of anything above an entry other *)
(* than the root, is above that entry too.                                 *)
(***************************************************************************)
LEMMA AboveIsClosed ==
  ASSUME NEW v \in Paths
  PROVE  /\ Parent(v) \in Above(v)
         /\ \A p \in Above(v) : p # Root => Parent(p) \in Above(v)
<1>1. v \in Seq(Nat) /\ Len(v) \in Nat \ {0}
  BY PathsAreNotRoot
<1>2. Parent(v) \in Above(v)
  BY <1>1 DEF Parent, Above
<1>3. ASSUME NEW p \in Above(v), p # Root
      PROVE  Parent(p) \in Above(v)
  <2>1. PICK k \in 0 .. Len(v) - 1 : p = SubSeq(v, 1, k)
    BY DEF Above
  <2>2. p \in Seq(Nat) /\ Len(p) = k
    BY <1>1, <2>1, SubSeqProperties
  <2>3. k \in 1 .. Len(v) - 1
    BY <1>3, <2>1, <2>2, EmptySeq DEF Root
  <2>4. Parent(p) = SubSeq(v, 1, k - 1)
    BY <1>1, <2>1, <2>2, <2>3 DEF Parent
  <2>5. k - 1 \in 0 .. Len(v) - 1
    BY <1>1, <2>3
  <2> QED
    BY <2>4, <2>5 DEF Above
<1> QED
  BY <1>2, <1>3

(***************************************************************************)
(* Publication: an index built from nodes that were met in the order of    *)
(* the walk, each below a node that was met, is coherent whatever set of   *)
(* the videos was refused.                                                 *)
(***************************************************************************)
LEMMA IndexOfIsWellFormed ==
  ASSUME NEW order \in Seq(Paths),
         NEW dropped \in SUBSET (Elements(order) \cap Videos),
         \A p \in Elements(order) : Parent(p) = Root \/ Parent(p) \in Elements(order),
         \A j, k \in DOMAIN order : j < k => Rank[order[j]] < Rank[order[k]]
  PROVE  /\ WellFormed(IndexOf(order, dropped))
         /\ IndexOf(order, dropped) \in IndexType
<1> DEFINE met == DropRejected({Root} \cup Elements(order), dropped)
           tree == Prune(met)
           i == IndexOf(order, dropped)
<1> HIDE DEF tree, i
<1>1. Elements(order) \subseteq Paths
  BY DEF Elements
<1>2. /\ i.tree = tree /\ i.byID = order /\ i.rejected = dropped
      /\ i.stats = [containers |-> countContainers(tree), videos |-> countVideos(tree),
                    rejected |-> Cardinality(dropped)]
  BY DEF i, tree, IndexOf
<1>3. Root \notin Paths /\ Containers \cap Videos = {} /\ Root \in met
  BY PathsAreNotRoot DEF DropRejected, Paths
<1>4. tree \subseteq met /\ Root \in tree
  BY <1>3 DEF tree, Prune
<1>5. ParentsInTree(i)
  <2> SUFFICES ASSUME NEW p \in tree, p # Root
               PROVE  Parent(p) \in tree
    BY <1>2 DEF ParentsInTree
  <2>1. p \in Elements(order) /\ p \in Paths
    BY <1>1, <1>4 DEF DropRejected
  <2>2. PICK v \in met \cap Videos : p = v \/ p \in Above(v)
    BY DEF tree, Prune
  <2>3. Parent(p) \in Above(v)
    BY <2>2, AboveIsClosed DEF Paths
  <2>4. Parent(p) \in Containers
    BY <2>1, TreeAssumption
  <2>5. Parent(p) \in met
    BY <1>3, <2>1, <2>4 DEF DropRejected
  <2> QED
    BY <2>2, <2>3, <2>5 DEF tree, Prune
<1>6. NoEmptyFolder(i)
  <2> SUFFICES ASSUME NEW d \in tree \cap Dirs
               PROVE  \E v \in tree \cap Videos : d \in Above(v)
    BY <1>2 DEF NoEmptyFolder
  <2>1. d # Root /\ d \notin Videos
    BY <1>3 DEF Paths, Containers
  <2>2. PICK v \in met \cap Videos : d = v \/ d \in Above(v)
    BY <2>1 DEF tree, Prune
  <2>3. v \in tree
    BY <2>2 DEF tree, Prune
  <2> QED
    BY <2>1, <2>2, <2>3
<1>7. EveryVideoAccounted(i)
  <2>1. tree \cap Videos = met \cap Videos
    BY DEF tree, Prune
  <2>2. met \cap Videos = (Elements(order) \cap Videos) \ dropped
    BY <1>3 DEF DropRejected, Paths
  <2>3. tree \cap dropped = {}
    BY <1>4 DEF DropRejected
  <2> QED
    BY <1>2, <2>1, <2>2, <2>3 DEF EveryVideoAccounted
<1>8. IdsInWalkOrder(i)
  BY <1>2, <1>4 DEF IdsInWalkOrder, DropRejected
<1>9. StatsOfTree(i)
  BY <1>2 DEF StatsOfTree
<1>10. WellFormed(i)
  BY <1>2, <1>4, <1>5, <1>6, <1>7, <1>8, <1>9 DEF WellFormed
<1>11. i \in IndexType
  <2>1. tree \subseteq {Root} \cup Paths
    BY <1>1, <1>4 DEF DropRejected
  <2>2. IsFiniteSet({Root} \cup Paths)
    BY TreeAssumption, FS_AddElement
  <2>3. /\ countContainers(tree) \in Nat /\ countVideos(tree) \in Nat
        /\ Cardinality(dropped) \in Nat
    <3>1. IsFiniteSet(tree \cap Containers) /\ IsFiniteSet(tree \cap Videos)
      BY <2>1, <2>2, FS_Subset
    <3>2. IsFiniteSet(dropped)
      BY <1>1, <2>2, FS_Subset
    <3> QED
      BY <3>1, <3>2, FS_CardinalityType DEF countContainers, countVideos
  <2> QED
    BY <2>1, <2>3 DEF i, tree, IndexOf, IndexType
<1> QED
  BY <1>10, <1>11 DEF i

-----------------------------------------------------------------------------
(***************************************************************************)
(* Appending a node to the allocation order adds that node to its elements *)
(* and nothing else, and leaves the earlier positions alone.               *)
(***************************************************************************)
LEMMA AppendElements ==
  ASSUME NEW s \in Seq(Paths), NEW p \in Paths
  PROVE  /\ Append(s, p) \in Seq(Paths)
         /\ Elements(Append(s, p)) = Elements(s) \cup {p}
         /\ DOMAIN Append(s, p) = DOMAIN s \cup {Len(s) + 1}
         /\ \A j \in DOMAIN s : Append(s, p)[j] = s[j] /\ j < Len(s) + 1
         /\ Append(s, p)[Len(s) + 1] = p
<1>1. /\ Append(s, p) \in Seq(Paths)
      /\ DOMAIN Append(s, p) = 1 .. Len(s) + 1
      /\ DOMAIN s = 1 .. Len(s) /\ Len(s) \in Nat
      /\ \A j \in 1 .. Len(s) : Append(s, p)[j] = s[j]
      /\ Append(s, p)[Len(s) + 1] = p
  BY AppendProperties, LenProperties
<1>2. DOMAIN Append(s, p) = DOMAIN s \cup {Len(s) + 1}
  BY <1>1
<1>3. Elements(Append(s, p)) = Elements(s) \cup {p}
  BY <1>1, <1>2 DEF Elements
<1> QED
  BY <1>1, <1>2, <1>3

(***************************************************************************)
(* One step of the walk keeps the walk sound: p is the least pending entry *)
(* and everything newly listed lies directly below it.                     *)
(***************************************************************************)
LEMMA WalkStepSound ==
  ASSUME walked \in Seq(Paths), listed \subseteq Paths, WalkSound,
         NEW p \in Paths, IsNext(p),
         NEW got \in SUBSET Children(p),
         walked' = Append(walked, p), listed' = listed \cup got
  PROVE  WalkSound'
<1>1. /\ walked' \in Seq(Paths)
      /\ Elements(walked') = Elements(walked) \cup {p}
      /\ DOMAIN walked' = DOMAIN walked \cup {Len(walked) + 1}
      /\ \A j \in DOMAIN walked : walked'[j] = walked[j] /\ j < Len(walked) + 1
      /\ walked'[Len(walked) + 1] = p
  BY AppendElements
<1>2. p \in listed \ Elements(walked)
  BY DEF IsNext
<1>3. \A r \in Elements(walked) : Rank[r] < Rank[p]
  BY <1>2 DEF WalkSound
<1>4. \A q \in got : q \in Paths /\ Parent(q) = p /\ Rank[p] < Rank[q]
  BY AboveIsClosed, RankAssumption DEF Children
<1>5. Elements(walked) \subseteq Paths /\ \A r \in Paths : Rank[r] \in Nat
  BY RankAssumption DEF Elements
<1>6. Elements(walked') \subseteq listed'
  BY <1>1, <1>2 DEF WalkSound
<1>7. \A q \in listed' : Parent(q) = Root \/ Parent(q) \in Elements(walked')
  BY <1>1, <1>4 DEF WalkSound
<1>8. \A j, k \in DOMAIN walked' : j < k => Rank[walked'[j]] < Rank[walked'[k]]
  <2> SUFFICES ASSUME NEW j \in DOMAIN walked', NEW k \in DOMAIN walked', j < k
               PROVE  Rank[walked'[j]] < Rank[walked'[k]]
    OBVIOUS
  <2>1. DOMAIN walked = 1 .. Len(walked) /\ Len(walked) \in Nat
    BY LenProperties
  <2>2. j \in DOMAIN walked
    BY <1>1, <2>1
  <2>3. CASE k \in DOMAIN walked
    BY <1>1, <2>2, <2>3 DEF WalkSound
  <2>4. CASE k = Len(walked) + 1
    <3>1. walked[j] \in Elements(walked)
      BY <2>2 DEF Elements
    <3> QED
      BY <1>1, <1>3, <2>2, <2>4, <3>1
  <2> QED
    BY <1>1, <2>3, <2>4
<1>9. \A r \in Elements(walked'), q \in listed' \ Elements(walked') : Rank[r] < Rank[q]
  <2> SUFFICES ASSUME NEW r \in Elements(walked'), NEW q \in listed' \ Elements(walked')
               PROVE  Rank[r] < Rank[q]
    OBVIOUS
  <2>1. q \in Paths /\ q # p /\ q \notin Elements(walked)
    BY <1>1, <1>4
  <2>2. Rank[p] < Rank[q]
    <3>1. CASE q \in got
      BY <1>4, <3>1
    <3>2. CASE q \in listed
      <4>1. Rank[p] <= Rank[q]
        BY <2>1, <3>2 DEF IsNext
      <4>2. Rank[p] # Rank[q]
        BY <2>1, RankAssumption
      <4> QED
        BY <1>5, <2>1, <4>1, <4>2
    <3> QED
      BY <3>1, <3>2
  <2>3. CASE r = p
    BY <2>2, <2>3
  <2>4. CASE r \in Elements(walked)
    <3>1. Rank[r] < Rank[p]
      BY <1>3, <2>4
    <3> QED
      BY <1>5, <2>1, <2>2, <2>4, <3>1
  <2> QED
    BY <1>1, <2>3, <2>4
<1> QED
  BY <1>6, <1>7, <1>8, <1>9 DEF WalkSound

-----------------------------------------------------------------------------
(***************************************************************************)
(* The initial state of MediaLibrary satisfies the inductive invariant.    *)
(***************************************************************************)
LEMMA InitIInv == Init => IInv
<1> SUFFICES ASSUME Init PROVE IInv
  OBVIOUS
<1> USE DEF Init
<1>1. TypeOK
  <2>1. NoIndex \in IndexType
    BY EmptySeq DEF NoIndex, IndexType
  <2>2. Idle \in [WorkerIDs -> Videos \cup {None}]
    BY DEF Idle
  <2>3. walked \in Seq(Paths)
    BY EmptySeq
  <2> QED
    BY <2>1, <2>2, <2>3, OptionsAssumption DEF TypeOK
<1>2. EachVideoProbedOnce
  BY DEF EachVideoProbedOnce, Idle
<1>3. WalkSound
  BY EmptySeq DEF WalkSound, Elements
<1>4. PoolSound
  BY DEF PoolSound, Idle
<1>5. IndexCoherent /\ EmptyUntilPublished
  BY DEF IndexCoherent, EmptyUntilPublished, NoIndex
<1> QED
  BY <1>1, <1>2, <1>3, <1>4, <1>5 DEF IInv

-----------------------------------------------------------------------------
(***************************************************************************)
(* Every step of MediaLibrary preserves the inductive invariant.           *)
(***************************************************************************)
LEMMA NextIInv == IInv /\ [Next]_vars => IInv'
<1> SUFFICES ASSUME IInv, [Next]_vars
             PROVE  IInv'
  OBVIOUS
<1> USE DEF IInv
<1>0. None \notin Paths /\ IsFiniteSet(Videos)
  <2>1. IsFiniteSet(Paths)
    BY TreeAssumption
  <2> QED
    BY <2>1, PathsAreNotRoot, FS_Subset DEF None, Root, Paths
<1>1. CASE StartScan
  <2>1. TypeOK'
    <3>1. Idle \in [WorkerIDs -> Videos \cup {None}]
      BY DEF Idle
    <3>2. << >> \in Seq(Paths)
      BY EmptySeq
    <3> QED
      BY <1>1, <3>1, <3>2, OptionsAssumption DEF TypeOK, StartScan, ReadDir, Children, library
  <2>2. EachVideoProbedOnce'
    BY <1>1 DEF StartScan, EachVideoProbedOnce, Idle
  <2>3. WalkSound'
    BY <1>1, EmptySeq DEF StartScan, ReadDir, Children, WalkSound, Elements
  <2>4. PoolSound'
    BY <1>1 DEF StartScan, PoolSound
  <2>5. IndexCoherent' /\ EmptyUntilPublished'
    BY <1>1 DEF StartScan, IndexCoherent, EmptyUntilPublished, library
  <2> QED
    BY <2>1, <2>2, <2>3, <2>4, <2>5
<1>2. CASE ScanFails
  BY <1>2 DEF ScanFails, TypeOK, EachVideoProbedOnce, WalkSound, PoolSound, IndexCoherent,
              EmptyUntilPublished, builder, library, WalkedVideos
<1>3. ASSUME NEW p \in Paths, WalkDir(p) \/ WalkVideo(p)
      PROVE  IInv'
  <2>1. /\ phase = "walk" /\ phase' = "walk" /\ IsNext(p)
        /\ walked' = Append(walked, p)
        /\ UNCHANGED <<todo, pool, at, probed, refused, library, outcome>>
    BY <1>3 DEF WalkDir, WalkVideo
  <2>2. PICK got \in SUBSET Children(p) : listed' = listed \cup got
    <3>1. CASE WalkDir(p)
      BY <3>1 DEF WalkDir
    <3>2. CASE WalkVideo(p)
      <4>1. {} \in SUBSET Children(p) /\ listed' = listed \cup {}
        BY <3>2 DEF WalkVideo
      <4> QED
        BY <4>1
    <3> QED
      BY <1>3, <3>1, <3>2
  <2>3. TypeOK'
    <3>1. walked' \in Seq(Paths)
      BY <2>1, AppendElements DEF TypeOK
    <3> QED
      BY <2>1, <2>2, <3>1 DEF TypeOK, library, Children
  <2>4. WalkSound'
    BY <2>1, <2>2, WalkStepSound DEF TypeOK
  <2>5. EachVideoProbedOnce' /\ IndexCoherent' /\ EmptyUntilPublished'
    BY <2>1 DEF EachVideoProbedOnce, IndexCoherent, EmptyUntilPublished, library
  <2>6. PoolSound'
    BY <2>1 DEF PoolSound
  <2> QED
    BY <2>3, <2>4, <2>5, <2>6
<1>4. CASE StartProbing
  <2>1. /\ phase = "walk" /\ at = Idle /\ probed = {} /\ refused = {}
        /\ todo' = WalkedVideos /\ WalkedVideos' = WalkedVideos
        /\ phase' = "probe" /\ at' = at /\ probed' = probed /\ refused' = refused
    BY <1>4 DEF StartProbing, PoolSound, WalkedVideos
  <2>2. TypeOK'
    <3>1. Cardinality(WalkedVideos) \in Nat
      BY <1>0, FS_Subset, FS_CardinalityType DEF WalkedVideos
    <3>2. pool' \in 0 .. Workers
      BY <1>4, <3>1, OptionsAssumption DEF StartProbing
    <3> QED
      BY <1>4, <2>1, <3>2 DEF StartProbing, TypeOK, library, WalkedVideos
  <2>3. EachVideoProbedOnce'
    BY <1>0, <2>1 DEF EachVideoProbedOnce, Idle, WalkedVideos, Paths
  <2>4. WalkSound' /\ IndexCoherent' /\ EmptyUntilPublished'
    BY <1>4 DEF StartProbing, WalkSound, IndexCoherent, EmptyUntilPublished, library
  <2>5. PoolSound'
    BY <2>1 DEF PoolSound, Idle
  <2> QED
    BY <2>2, <2>3, <2>4, <2>5
<1>5. ASSUME NEW w \in WorkerIDs, HandOut(w)
      PROVE  IInv'
  <2>1. PICK v \in todo : at' = [at EXCEPT ![w] = v] /\ todo' = todo \ {v}
    BY <1>5 DEF HandOut
  <2>2. /\ phase = "probe" /\ at[w] = None
        /\ UNCHANGED <<phase, listed, walked, pool, probed, refused, library, outcome>>
    BY <1>5 DEF HandOut
  <2>3. v \in Videos /\ v # None
    BY <1>0 DEF TypeOK, Paths
  <2>4. /\ at'[w] = v
        /\ \A x \in WorkerIDs \ {w} : at'[x] = at[x]
    BY <2>1 DEF TypeOK
  <2>5. TypeOK'
    BY <2>1, <2>2, <2>3 DEF TypeOK, library
  <2>6. EachVideoProbedOnce'
    BY <2>1, <2>2, <2>3, <2>4 DEF EachVideoProbedOnce
  <2>7. WalkSound' /\ IndexCoherent' /\ EmptyUntilPublished'
    BY <2>2 DEF WalkSound, IndexCoherent, EmptyUntilPublished, library
  <2>8. PoolSound'
    <3>1. WalkedVideos' = WalkedVideos
      BY <2>2 DEF WalkedVideos
    <3>2. \A u \in WalkedVideos :
            u \in todo' \cup probed' \/ \E x \in WorkerIDs : at'[x] = u
      <4> SUFFICES ASSUME NEW u \in WalkedVideos, u \notin todo' \cup probed'
                   PROVE  \E x \in WorkerIDs : at'[x] = u
        OBVIOUS
      <4>1. u \in Videos
        BY DEF WalkedVideos
      <4>2. CASE u = v
        BY <2>4, <4>2
      <4>3. CASE u # v
        <5>1. PICK x \in WorkerIDs : at[x] = u
          BY <2>1, <2>2, <4>3 DEF PoolSound
        <5>2. x # w
          BY <1>0, <2>2, <4>1, <5>1 DEF Paths
        <5> QED
          BY <2>4, <5>1, <5>2
      <4> QED
        BY <4>2, <4>3
    <3> QED
      BY <2>1, <2>2, <2>4, <3>1, <3>2 DEF PoolSound
  <2> QED
    BY <2>5, <2>6, <2>7, <2>8
<1>6. ASSUME NEW w \in WorkerIDs, Probe(w)
      PROVE  IInv'
  <2>1. /\ phase = "probe" /\ at[w] # None
        /\ probed' = probed \cup {at[w]}
        /\ at' = [at EXCEPT ![w] = None]
        /\ refused' \subseteq refused \cup {at[w]}
        /\ UNCHANGED <<phase, listed, walked, todo, pool, library, outcome>>
    BY <1>6 DEF Probe
  <2>2. at[w] \in Videos
    BY <2>1 DEF TypeOK
  <2>3. /\ at'[w] = None
        /\ \A x \in WorkerIDs \ {w} : at'[x] = at[x]
    BY <2>1 DEF TypeOK
  <2>4. TypeOK'
    BY <2>1, <2>2 DEF TypeOK, library
  <2>5. EachVideoProbedOnce'
    BY <1>0, <2>1, <2>2, <2>3 DEF EachVideoProbedOnce, TypeOK, Paths
  <2>6. WalkSound' /\ IndexCoherent' /\ EmptyUntilPublished'
    BY <2>1 DEF WalkSound, IndexCoherent, EmptyUntilPublished, library
  <2>7. PoolSound'
    <3>1. WalkedVideos' = WalkedVideos
      BY <2>1 DEF WalkedVideos
    <3>2. \A u \in WalkedVideos :
            u \in todo' \cup probed' \/ \E x \in WorkerIDs : at'[x] = u
      BY <2>1, <2>3 DEF PoolSound
    <3>3. refused' \subseteq probed'
      BY <2>1 DEF PoolSound
    <3> QED
      BY <2>1, <2>3, <3>1, <3>2, <3>3 DEF PoolSound
  <2> QED
    BY <2>4, <2>5, <2>6, <2>7
<1>7. CASE ProbingDone
  <2>1. /\ phase = "probe" /\ phase' = "publish" /\ todo = {} /\ at = Idle
        /\ UNCHANGED <<builder, library, outcome>>
    BY <1>7 DEF ProbingDone
  <2>2. probed = WalkedVideos
    <3>1. \A u \in WalkedVideos : u # None
      BY <1>0 DEF WalkedVideos, Paths
    <3> QED
      BY <2>1, <3>1 DEF PoolSound, Idle
  <2>3. PoolSound'
    BY <2>1, <2>2 DEF PoolSound, builder, WalkedVideos
  <2>4. TypeOK' /\ EachVideoProbedOnce' /\ WalkSound' /\ IndexCoherent' /\ EmptyUntilPublished'
    BY <2>1 DEF TypeOK, EachVideoProbedOnce, WalkSound, IndexCoherent, EmptyUntilPublished, builder, library
  <2> QED
    BY <2>3, <2>4
<1>8. CASE Publish
  <2>1. /\ index' = IndexOf(walked, refused) /\ updateID' = updateID + 1
        /\ phase = "publish" /\ phase' = "published" /\ UNCHANGED <<builder, outcome>>
    BY <1>8 DEF Publish
  <2>2. WellFormed(index') /\ index' \in IndexType
    <3>1. refused \in SUBSET (Elements(walked) \cap Videos)
      BY <2>1 DEF PoolSound, WalkedVideos
    <3>2. \A p \in Elements(walked) : Parent(p) = Root \/ Parent(p) \in Elements(walked)
      BY DEF WalkSound
    <3>3. \A j, k \in DOMAIN walked : j < k => Rank[walked[j]] < Rank[walked[k]]
      BY DEF WalkSound
    <3>4. walked \in Seq(Paths)
      BY DEF TypeOK
    <3> QED
      BY <2>1, <3>1, <3>2, <3>3, <3>4, IndexOfIsWellFormed
  <2>3. TypeOK'
    BY <2>1, <2>2 DEF TypeOK, builder
  <2>4. EachVideoProbedOnce' /\ WalkSound'
    BY <2>1 DEF EachVideoProbedOnce, WalkSound, builder
  <2>5. PoolSound'
    BY <2>1 DEF PoolSound, builder, WalkedVideos
  <2>6. IndexCoherent' /\ EmptyUntilPublished'
    BY <2>1, <2>2 DEF IndexCoherent, EmptyUntilPublished, TypeOK
  <2> QED
    BY <2>3, <2>4, <2>5, <2>6
<1>9. CASE FinishScan
  BY <1>9 DEF FinishScan, TypeOK, EachVideoProbedOnce, WalkSound, PoolSound, IndexCoherent,
              EmptyUntilPublished, builder, library, WalkedVideos
<1>10. CASE UNCHANGED vars
  BY <1>10 DEF vars, TypeOK, EachVideoProbedOnce, WalkSound, PoolSound, IndexCoherent,
               EmptyUntilPublished, builder, library, WalkedVideos
<1> QED
  BY <1>1, <1>2, <1>3, <1>4, <1>5, <1>6, <1>7, <1>8, <1>9, <1>10 DEF Next

-----------------------------------------------------------------------------
(***************************************************************************)
(* The inductive invariant holds in every reachable state.                 *)
(***************************************************************************)
THEOREM InvariantHolds == Spec => []IInv
<1> QED
  BY InitIInv, NextIInv, PTL DEF Spec

(***************************************************************************)
(* Every variable keeps its type.                                          *)
(***************************************************************************)
THEOREM TypeCorrect == Spec => []TypeOK
<1>1. IInv => TypeOK
  BY DEF IInv
<1> QED
  BY <1>1, InvariantHolds, PTL

(***************************************************************************)
(* probeAll never has a video in two places: Library.Scan's pool gives     *)
(* each video to one worker, once.                                         *)
(***************************************************************************)
THEOREM ProbedOnce == Spec => []EachVideoProbedOnce
<1>1. IInv => EachVideoProbedOnce
  BY DEF IInv
<1> QED
  BY <1>1, InvariantHolds, PTL

(***************************************************************************)
(* Library.Scan publishes only coherent indexes.                           *)
(***************************************************************************)
THEOREM PublishedIndexIsCoherent == Spec => []IndexCoherent
<1>1. IInv => IndexCoherent
  BY DEF IInv
<1> QED
  BY <1>1, InvariantHolds, PTL

(***************************************************************************)
(* A video appears in a published tree only after this scan's Validator    *)
(* accepted it.                                                            *)
(***************************************************************************)
THEOREM NothingUncheckedAppears == Spec => OnlyCheckedVideosAppear
<1>1. IInv /\ [Next]_vars => [index' # index => index'.tree \cap Videos \subseteq probed \ refused]_vars
  <2> SUFFICES ASSUME IInv, [Next]_vars, index' # index
               PROVE  index'.tree \cap Videos \subseteq probed \ refused
    OBVIOUS
  <2>1. Publish
    BY DEF Next, StartScan, ScanFails, WalkDir, WalkVideo, StartProbing, HandOut, Probe,
           ProbingDone, FinishScan, vars, builder, library
  <2>2. index'.tree = Prune(DropRejected({Root} \cup Elements(walked), refused))
    BY <2>1 DEF Publish, IndexOf
  <2>3. index'.tree \cap Videos \subseteq WalkedVideos \ refused
    BY <2>2, PathsAreNotRoot DEF Prune, DropRejected, WalkedVideos, Paths
  <2> QED
    BY <2>1, <2>3 DEF Publish, IInv, PoolSound
<1> QED
  BY <1>1, InvariantHolds, PTL DEF Spec, OnlyCheckedVideosAppear

(***************************************************************************)
(* Readers of the library see a PublishedIndex: publication is the only    *)
(* step they can observe, and it replaces everything at once.              *)
(***************************************************************************)
THEOREM LibraryIsPublishedIndex == Spec => ReadersSeeWholeIndexes
<1>1. Init => Abstract!Init
  BY DEF Init, Abstract!Init
<1>2. IInv /\ IInv' /\ [Next]_vars => [Abstract!Replace]_<<index, updateID>>
  <2> SUFFICES ASSUME IInv, IInv', [Next]_vars
               PROVE  Abstract!Replace \/ UNCHANGED <<index, updateID>>
    OBVIOUS
  <2>1. CASE Publish
    <3>1. updateID' = updateID + 1 /\ updateID' > 0
      BY <2>1 DEF Publish, IInv, TypeOK
    <3> QED
      BY <3>1 DEF Abstract!Replace, IInv, IndexCoherent
  <2>2. CASE ~Publish
    BY <2>2 DEF Next, StartScan, ScanFails, WalkDir, WalkVideo, StartProbing, HandOut, Probe,
                ProbingDone, FinishScan, vars, builder, library
  <2> QED
    BY <2>1, <2>2
<1> QED
  BY <1>1, <1>2, InvariantHolds, PTL DEF Spec, ReadersSeeWholeIndexes, Abstract!Spec

(***************************************************************************)
(* The id of a node is one more than the number of entries met before it.  *)
(***************************************************************************)
LEMMA IdCountsEntriesBefore ==
  ASSUME NEW i, i.byID \in Seq(Paths), IdsInWalkOrder(i), NEW j \in DOMAIN i.byID
  PROVE  Cardinality(MetBefore(i, i.byID[j])) = j - 1
<1> DEFINE s == i.byID
           f == [k \in 1 .. j - 1 |-> s[k]]
           before == MetBefore(i, s[j])
<1>1. /\ DOMAIN s = 1 .. Len(s) /\ Len(s) \in Nat /\ j \in 1 .. Len(s)
      /\ \A k \in DOMAIN s : s[k] \in Paths /\ Rank[s[k]] \in Nat
  BY LenProperties, RankAssumption
<1>2. \A k \in DOMAIN s : Rank[s[k]] < Rank[s[j]] <=> k < j
  <2> SUFFICES ASSUME NEW k \in DOMAIN s
               PROVE  Rank[s[k]] < Rank[s[j]] <=> k < j
    OBVIOUS
  <2>1. CASE k < j
    BY <2>1 DEF IdsInWalkOrder
  <2>2. CASE k = j
    BY <1>1, <2>2
  <2>3. CASE j < k
    <3>1. Rank[s[j]] < Rank[s[k]]
      BY <2>3 DEF IdsInWalkOrder
    <3> QED
      BY <1>1, <2>3, <3>1
  <2> QED
    BY <1>1, <2>1, <2>2, <2>3
<1>3. before = {s[k] : k \in 1 .. j - 1}
  <2>1. before = {q \in Elements(s) : Rank[q] < Rank[s[j]]}
    BY DEF MetBefore
  <2>2. \A k \in 1 .. j - 1 : k \in DOMAIN s /\ k < j
    BY <1>1
  <2>3. \A k \in DOMAIN s : k < j => k \in 1 .. j - 1
    BY <1>1
  <2> QED
    BY <1>2, <2>1, <2>2, <2>3 DEF Elements
<1>4. f \in Bijection(1 .. j - 1, before)
  <2>1. f \in Surjection(1 .. j - 1, before)
    BY <1>3 DEF Surjection
  <2>2. \A a, b \in 1 .. j - 1 : f[a] = f[b] => a = b
    <3> SUFFICES ASSUME NEW a \in 1 .. j - 1, NEW b \in 1 .. j - 1, a # b
                 PROVE  s[a] # s[b]
      OBVIOUS
    <3>1. a \in DOMAIN s /\ b \in DOMAIN s /\ (a < b \/ b < a)
      BY <1>1
    <3>2. Rank[s[a]] < Rank[s[b]] \/ Rank[s[b]] < Rank[s[a]]
      BY <3>1 DEF IdsInWalkOrder
    <3> QED
      BY <1>1, <3>1, <3>2
  <2>3. f \in Injection(1 .. j - 1, before)
    BY <2>1, <2>2 DEF Surjection, Injection, IsInjective
  <2> QED
    BY <2>1, <2>3 DEF Bijection
<1>5. IsFiniteSet(1 .. j - 1) /\ Cardinality(1 .. j - 1) = j - 1
  <2>1. 1 \in Int /\ j - 1 \in Int /\ j - 1 >= 0
    BY <1>1
  <2>2. Cardinality(1 .. j - 1) = IF 1 > j - 1 THEN 0 ELSE (j - 1) - 1 + 1
    BY <2>1, FS_Interval
  <2> QED
    BY <2>1, <2>2, FS_Interval
<1>6. ExistsBijection(1 .. j - 1, before)
  BY <1>4 DEF ExistsBijection
<1>7. Cardinality(before) = Cardinality(1 .. j - 1)
  BY <1>5, <1>6, FS_Bijection
<1> QED
  BY <1>5, <1>7

(***************************************************************************)
(* A rescan gives an entry the id it had, whatever was refused and however *)
(* the workers were scheduled, unless an entry before it came or went.     *)
(***************************************************************************)
THEOREM IdsAreStable == Spec => IdsFollowTheFolder
<1>1. IInv /\ IInv' =>
        \A j \in DOMAIN index.byID, k \in DOMAIN index'.byID :
          LET p == index.byID[j]
          IN  p = index'.byID[k] /\ MetBefore(index, p) = MetBefore(index', p) => j = k
  <2> SUFFICES ASSUME IInv, IInv',
                      NEW j \in DOMAIN index.byID, NEW k \in DOMAIN index'.byID,
                      index.byID[j] = index'.byID[k],
                      MetBefore(index, index.byID[j]) = MetBefore(index', index.byID[j])
               PROVE  j = k
    OBVIOUS
  <2>1. index.byID \in Seq(Paths) /\ index'.byID \in Seq(Paths)
    BY DEF IInv, TypeOK, IndexType
  <2>2. IdsInWalkOrder(index) /\ IdsInWalkOrder(index')
    <3>1. updateID \in Nat /\ updateID' \in Nat
      BY DEF IInv, TypeOK
    <3>2. updateID # 0 /\ updateID' # 0
      BY EmptySeq DEF IInv, EmptyUntilPublished
    <3>3. WellFormed(index) /\ WellFormed(index')
      BY <3>1, <3>2 DEF IInv, IndexCoherent
    <3> QED
      BY <3>3 DEF WellFormed
  <2>3. Cardinality(MetBefore(index, index.byID[j])) = j - 1
    BY <2>1, <2>2, IdCountsEntriesBefore
  <2>4. Cardinality(MetBefore(index', index'.byID[k])) = k - 1
    BY <2>1, <2>2, IdCountsEntriesBefore
  <2>5. j \in Nat /\ k \in Nat
    BY <2>1, LenProperties
  <2> QED
    BY <2>3, <2>4, <2>5
<1> QED
  BY <1>1, InvariantHolds, PTL DEF IdsFollowTheFolder

-----------------------------------------------------------------------------
(***************************************************************************)
(* A walk met in rank order is its own set of entries, sorted by rank.     *)
(***************************************************************************)
LEMMA WalkIsSorted ==
  ASSUME NEW s \in Seq(Paths),
         \A j, k \in DOMAIN s : j < k => Rank[s[j]] < Rank[s[k]]
  PROVE  Sorted(Elements(s), RankOrder) = s
<1> DEFINE w == Elements(s)
           i == [tree |-> {}, byID |-> s]
           before(x) == {y \in w : <<y, x>> \in RankOrder}
<1>1. /\ Len(s) \in Nat /\ DOMAIN s = 1 .. Len(s)
      /\ \A k \in DOMAIN s : s[k] \in Paths /\ s[k] \in w /\ Rank[s[k]] \in Nat
  BY ElementOfSeq, LenProperties, RankAssumption DEF Elements
<1>2. \A k \in DOMAIN s : Cardinality(before(s[k])) = k - 1
  <2> SUFFICES ASSUME NEW k \in DOMAIN s
               PROVE  Cardinality(before(s[k])) = k - 1
    OBVIOUS
  <2>1. i.byID = s /\ IdsInWalkOrder(i)
    BY DEF IdsInWalkOrder
  <2>2. before(s[k]) = MetBefore(i, s[k])
    BY <1>1, <2>1 DEF MetBefore, RankOrder, Elements
  <2> HIDE DEF i, before
  <2>3. Cardinality(MetBefore(i, s[k])) = k - 1
    BY <2>1, IdCountsEntriesBefore
  <2> QED
    BY <2>2, <2>3
<1> HIDE DEF before
<1>3. \A x \in w : \E k \in DOMAIN s : x = s[k]
  BY DEF Elements
<1>4. Cardinality(w) = Len(s)
  <2> DEFINE f == [k \in 1 .. Len(s) |-> s[k]]
  <2>1. f \in [1 .. Len(s) -> w] /\ \A x \in w : \E k \in 1 .. Len(s) : f[k] = x
    BY <1>1, <1>3
  <2>2. ASSUME NEW j \in 1 .. Len(s), NEW k \in 1 .. Len(s), f[j] = f[k]
        PROVE  j = k
    <3>1. j - 1 = k - 1
      BY <1>1, <1>2, <2>2
    <3> QED
      BY <1>1, <3>1
  <2> HIDE DEF f, w
  <2>3. f \in Bijection(1 .. Len(s), w)
    BY <2>1, <2>2 DEF Bijection, Injection, Surjection, IsInjective
  <2>4. ExistsBijection(1 .. Len(s), w)
    BY <2>3 DEF ExistsBijection
  <2>5. IsFiniteSet(1 .. Len(s)) /\ Cardinality(1 .. Len(s)) = Len(s)
    BY <1>1, FS_Interval
  <2> QED
    BY <2>4, <2>5, FS_Bijection
<1>5. ASSUME NEW k \in 1 .. Len(s)
      PROVE  (CHOOSE x \in w : Cardinality(before(x)) = k - 1) = s[k]
  <2>1. s[k] \in w /\ Cardinality(before(s[k])) = k - 1
    BY <1>1, <1>2
  <2>2. ASSUME NEW x \in w, Cardinality(before(x)) = k - 1
        PROVE  x = s[k]
    <3>1. PICK j \in DOMAIN s : x = s[j]
      BY <1>3
    <3>2. j - 1 = k - 1
      BY <1>2, <2>2, <3>1
    <3>3. j = k
      BY <1>1, <3>2
    <3> QED
      BY <3>1, <3>3
  <2> QED
    BY <2>1, <2>2
<1>6. Sorted(w, RankOrder) =
        [k \in 1 .. Cardinality(w) |-> CHOOSE x \in w : Cardinality(before(x)) = k - 1]
  BY DEF Sorted, before
<1> HIDE DEF w
<1>7. Sorted(w, RankOrder) = [k \in 1 .. Len(s) |-> s[k]]
  BY <1>4, <1>5, <1>6
<1>8. s = [k \in 1 .. Len(s) |-> s[k]]
  BY <1>1
<1> QED
  BY <1>7, <1>8 DEF w

(***************************************************************************)
(* Library.Scan: every index that is published is one of those the         *)
(* ContentDirectory is modelled with, so what is shown of its listings     *)
(* holds of the library as it is scanned, verdicts and changes of the      *)
(* folder included.                                                        *)
(***************************************************************************)
THEOREM ScansPublishIndexes == Spec => [](index = NoIndex \/ index \in Indexes)
<1> DEFINE Published == index = NoIndex \/ index \in Indexes
<1>1. Init => Published
  BY DEF Init
<1>2. IInv /\ Published /\ [Next]_vars => Published'
  <2> SUFFICES ASSUME IInv, Published, [Next]_vars
               PROVE  Published'
    OBVIOUS
  <2>1. CASE Publish
    <3> DEFINE w == Elements(walked)
    <3>1. walked \in Seq(Paths) /\ w \subseteq Paths
      BY DEF IInv, TypeOK, Elements
    <3>2. /\ \A p \in w : Parent(p) \in w \cup {Root}
          /\ \A j, k \in DOMAIN walked : j < k => Rank[walked[j]] < Rank[walked[k]]
      BY DEF IInv, WalkSound
    <3>3. refused \in SUBSET (w \cap Videos)
      BY <2>1 DEF Publish, IInv, PoolSound, WalkedVideos
    <3>4. Sorted(w, RankOrder) = walked
      BY <3>1, <3>2, WalkIsSorted
    <3> HIDE DEF w
    <3>5. IndexOf(walked, refused) \in Indexes
      BY <3>1, <3>2, <3>3, <3>4 DEF Indexes
    <3> QED
      BY <2>1, <3>5 DEF Publish
  <2>2. CASE ~Publish
    <3>1. index' = index
      BY <2>2 DEF Next, StartScan, ScanFails, WalkDir, WalkVideo, StartProbing, HandOut, Probe,
                  ProbingDone, FinishScan, vars, builder, library
    <3> QED
      BY <3>1
  <2> QED
    BY <2>1, <2>2
<1> HIDE DEF Published
<1>3. Spec => []Published
  BY <1>1, <1>2, InvariantHolds, PTL DEF Spec
<1> QED
  BY <1>3 DEF Published

-----------------------------------------------------------------------------
\* The workers that are probing, and a bound on the steps a scan still takes:
\* one for each entry it may meet, two for each video, and four to get from one
\* phase to the next.
Busy == {w \in WorkerIDs : at[w] # None}

StepsLeft ==
  CASE phase = "walk" -> Cardinality(Paths \ Elements(walked)) + 2 * Cardinality(Videos) + 4
    [] phase = "probe" -> 2 * Cardinality(todo) + Cardinality(Busy) + 3
    [] phase = "publish" -> 2
    [] phase = "published" -> 1
    [] phase = "idle" -> 0

(***************************************************************************)
(* Library.Scan: a scan that has started does not go round in circles.     *)
(* Each of its steps leaves fewer to take, so their number is bounded by   *)
(* the entries of the folder, whatever the folder does meanwhile and       *)
(* however the workers are scheduled.  That the next step is taken is a    *)
(* matter of fairness.                                                     *)
(***************************************************************************)
THEOREM ScansMoveOn ==
  Spec => [][phase # "idle" => StepsLeft \in Nat /\ StepsLeft' \in Nat /\ StepsLeft' < StepsLeft]_vars
<1>1. IInv /\ [Next]_vars =>
        [phase # "idle" => StepsLeft \in Nat /\ StepsLeft' \in Nat /\ StepsLeft' < StepsLeft]_vars
  <2> SUFFICES ASSUME IInv, Next, phase # "idle"
               PROVE  StepsLeft \in Nat /\ StepsLeft' \in Nat /\ StepsLeft' < StepsLeft
    OBVIOUS
  <2>1. /\ IsFiniteSet(Paths) /\ IsFiniteSet(Videos) /\ IsFiniteSet(todo) /\ IsFiniteSet(Busy)
        /\ Cardinality(Paths \ Elements(walked)) \in Nat /\ Cardinality(Videos) \in Nat
        /\ Cardinality(todo) \in Nat /\ Cardinality(Busy) \in Nat
    <3>1. IsFiniteSet(Paths)
      BY TreeAssumption
    <3>2. IsFiniteSet(Videos) /\ IsFiniteSet(Paths \ Elements(walked))
      BY <3>1, FS_Subset DEF Paths
    <3>3. IsFiniteSet(todo)
      BY <3>2, FS_Subset DEF IInv, TypeOK
    <3>4. IsFiniteSet(WorkerIDs)
      BY OptionsAssumption, FS_Interval DEF WorkerIDs
    <3>5. IsFiniteSet(Busy)
      BY <3>4, FS_Subset DEF Busy
    <3> QED
      BY <3>1, <3>2, <3>3, <3>5, FS_CardinalityType
  <2>2. ASSUME NEW p \in Paths, WalkDir(p) \/ WalkVideo(p)
        PROVE  StepsLeft \in Nat /\ StepsLeft' \in Nat /\ StepsLeft' < StepsLeft
    <3>1. /\ phase = "walk" /\ phase' = "walk" /\ walked' = Append(walked, p)
          /\ p \notin Elements(walked)
      BY <2>2 DEF WalkDir, WalkVideo, IsNext
    <3>2. Elements(walked') = Elements(walked) \cup {p}
      BY <3>1, AppendElements DEF IInv, TypeOK
    <3>3. Paths \ Elements(walked') = (Paths \ Elements(walked)) \ {p}
      BY <3>2
    <3>4. /\ IsFiniteSet(Paths \ Elements(walked)) /\ p \in Paths \ Elements(walked)
      BY <2>1, <3>1, FS_Subset
    <3>5. Cardinality(Paths \ Elements(walked')) = Cardinality(Paths \ Elements(walked)) - 1
      BY <3>3, <3>4, FS_RemoveElement
    <3>6. Cardinality(Paths \ Elements(walked')) \in Nat
      BY <3>3, <3>4, FS_RemoveElement, FS_CardinalityType
    <3>7. /\ StepsLeft = Cardinality(Paths \ Elements(walked)) + 2 * Cardinality(Videos) + 4
          /\ StepsLeft' = Cardinality(Paths \ Elements(walked')) + 2 * Cardinality(Videos) + 4
      BY <3>1 DEF StepsLeft
    <3> QED
      BY <2>1, <3>5, <3>6, <3>7
  <2>3. CASE StartProbing
    <3>1. /\ phase = "walk" /\ phase' = "probe" /\ todo' = WalkedVideos /\ at' = Idle
      BY <2>3 DEF StartProbing, IInv, PoolSound
    <3>2. Busy' = {}
      BY <3>1 DEF Busy, Idle
    <3>3. Cardinality(todo') \in Nat /\ Cardinality(todo') <= Cardinality(Videos)
      BY <2>1, <3>1, FS_Subset, FS_CardinalityType DEF WalkedVideos
    <3>4. Cardinality(Busy') = 0
      BY <3>2, FS_EmptySet
    <3>5. /\ StepsLeft = Cardinality(Paths \ Elements(walked)) + 2 * Cardinality(Videos) + 4
          /\ StepsLeft' = 2 * Cardinality(todo') + Cardinality(Busy') + 3
      BY <3>1 DEF StepsLeft
    <3> QED
      BY <2>1, <3>3, <3>4, <3>5
  <2>4. ASSUME NEW w \in WorkerIDs, HandOut(w)
        PROVE  StepsLeft \in Nat /\ StepsLeft' \in Nat /\ StepsLeft' < StepsLeft
    <3>1. PICK v \in todo : at' = [at EXCEPT ![w] = v] /\ todo' = todo \ {v}
      BY <2>4 DEF HandOut
    <3>2. phase = "probe" /\ phase' = "probe" /\ at[w] = None /\ v # None
      BY <2>4, PathsAreNotRoot DEF HandOut, IInv, TypeOK, None, Root, Paths
    <3>3. Busy' = Busy \cup {w} /\ w \notin Busy
      BY <3>1, <3>2 DEF Busy, IInv, TypeOK
    <3>4. Cardinality(todo') = Cardinality(todo) - 1 /\ Cardinality(todo') \in Nat
      BY <2>1, <3>1, FS_RemoveElement, FS_CardinalityType
    <3>5. Cardinality(Busy') = Cardinality(Busy) + 1
      BY <2>1, <3>3, FS_AddElement
    <3>6. /\ StepsLeft = 2 * Cardinality(todo) + Cardinality(Busy) + 3
          /\ StepsLeft' = 2 * Cardinality(todo') + Cardinality(Busy') + 3
      BY <3>2 DEF StepsLeft
    <3> QED
      BY <2>1, <3>4, <3>5, <3>6
  <2>5. ASSUME NEW w \in WorkerIDs, Probe(w)
        PROVE  StepsLeft \in Nat /\ StepsLeft' \in Nat /\ StepsLeft' < StepsLeft
    <3>1. /\ phase = "probe" /\ phase' = "probe" /\ at[w] # None
          /\ at' = [at EXCEPT ![w] = None] /\ todo' = todo
      BY <2>5 DEF Probe
    <3>2. Busy' = Busy \ {w} /\ w \in Busy
      BY <3>1 DEF Busy, IInv, TypeOK
    <3>3. Cardinality(Busy') = Cardinality(Busy) - 1 /\ Cardinality(Busy') \in Nat
      BY <2>1, <3>2, FS_RemoveElement, FS_CardinalityType
    <3>4. /\ StepsLeft = 2 * Cardinality(todo) + Cardinality(Busy) + 3
          /\ StepsLeft' = 2 * Cardinality(todo) + Cardinality(Busy') + 3
      BY <3>1 DEF StepsLeft
    <3> QED
      BY <2>1, <3>3, <3>4
  <2>6. CASE ProbingDone
    <3>1. phase = "probe" /\ phase' = "publish"
      BY <2>6 DEF ProbingDone
    <3>2. StepsLeft = 2 * Cardinality(todo) + Cardinality(Busy) + 3 /\ StepsLeft' = 2
      BY <3>1 DEF StepsLeft
    <3> QED
      BY <2>1, <3>2
  <2>7. CASE Publish \/ FinishScan
    <3>1. \/ phase = "publish" /\ phase' = "published"
          \/ phase = "published" /\ phase' = "idle"
      BY <2>7 DEF Publish, FinishScan
    <3>2. (StepsLeft = 2 /\ StepsLeft' = 1) \/ (StepsLeft = 1 /\ StepsLeft' = 0)
      BY <3>1 DEF StepsLeft
    <3> QED
      BY <3>2
  <2> QED
    BY <2>2, <2>3, <2>4, <2>5, <2>6, <2>7 DEF Next, StartScan, ScanFails
<1> QED
  BY <1>1, InvariantHolds, PTL DEF Spec
=============================================================================
