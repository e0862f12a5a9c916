----------------------------- MODULE MediaTree -----------------------------
(***************************************************************************)
(* The media folder as internal/library sees it: which entries may exist,  *)
(* the order in which a scan meets them, and the shape of the index that a *)
(* scan publishes.                                                         *)
(*                                                                         *)
(* A path is the sequence of the names that lead to it from the media      *)
(* root, so the parent of a path is the path without its last name.  Names *)
(* are numbers because only their order matters.  Hidden files, the        *)
(* skipNames table and files that are neither video nor subtitle only bump *)
(* a "skipped" statistic and are left out, and so is the count of errors:  *)
(* an entry that cannot be read contributes nothing else.                  *)
(***************************************************************************)
EXTENDS Naturals, Sequences, FiniteSets

CONSTANTS
  Dirs,     \* the folders that may exist below the media root
  Videos,   \* the video files that may exist below it
  Rank,     \* the order in which walk reaches an entry
  Title     \* how a video's display title sorts (videoTitle, lessFold)

Root == << >>
Paths == Dirs \cup Videos
Containers == {Root} \cup Dirs

Parent(p) == SubSeq(p, 1, Len(p) - 1)
Above(p) == {SubSeq(p, 1, k) : k \in 0 .. Len(p) - 1}
Children(d) == {p \in Paths : Parent(p) = d}

ASSUME TreeAssumption ==
  /\ IsFiniteSet(Paths)
  /\ Dirs \cap Videos = {}
  /\ Paths \subseteq Seq(Nat) \ {Root}
  /\ \A p \in Paths : Parent(p) \in Containers

(***************************************************************************)
(* Rank is a position in the traversal of walk: a folder, then everything  *)
(* below it, then its next sibling, the folders of a container before its  *)
(* videos.                                                                 *)
(***************************************************************************)
ASSUME RankAssumption ==
  /\ Rank \in [Paths -> Nat]
  /\ \A p, q \in Paths :
       /\ Rank[p] = Rank[q] => p = q
       /\ p \in Above(q) => Rank[p] < Rank[q]
       /\ p \in Dirs /\ q \in Videos /\ Parent(p) = Parent(q) => Rank[p] < Rank[q]
       /\ p \in Above(q) =>
            \A r \in Paths : Rank[p] < Rank[r] /\ Rank[r] < Rank[q] => p \in Above(r)

ASSUME TitleAssumption == Title \in [Videos -> Nat]

-----------------------------------------------------------------------------
(***************************************************************************)
(* What happens to the tree between the walk and its publication.          *)
(***************************************************************************)
DropRejected(tree, refused) == tree \ refused

\* Fault: a folder is kept only for a video directly inside it.
Prune_OneLevel(tree) ==
  {p \in tree : p = Root \/ p \in Videos \/ \E v \in tree \cap Videos : p = Parent(v)}

Prune(tree) ==
  {p \in tree : p = Root \/ \E v \in tree \cap Videos : p = v \/ p \in Above(v)}

countVideos(tree) == Cardinality(tree \cap Videos)
countContainers(tree) == Cardinality(tree \cap Containers)

\* sortTree: folders first, then videos by title; the sort is stable, so two
\* videos with the same title stay in the order of the walk.
SortsBefore(a, b) ==
  IF a \in Videos /\ b \in Videos /\ Title[a] # Title[b]
  THEN Title[a] < Title[b]
  ELSE Rank[a] < Rank[b]

-----------------------------------------------------------------------------
(***************************************************************************)
(* A published index.  byID[i] is the node whose id is i; the root has id  *)
(* 0.  Nodes are identified with their paths, which are unique in a scan.  *)
(***************************************************************************)
Elements(s) == {s[i] : i \in DOMAIN s}

NoIndex ==
  [tree |-> {}, byID |-> << >>, rejected |-> {},
   stats |-> [containers |-> 0, videos |-> 0, rejected |-> 0]]

\* Scan's tail: the index built from the walked nodes and the refused ones.
IndexOf(walked, refused) ==
  LET tree == Prune(DropRejected({Root} \cup Elements(walked), refused))
  IN  [tree     |-> tree,
       byID     |-> walked,
       rejected |-> refused,
       stats    |-> [containers |-> countContainers(tree),
                     videos     |-> countVideos(tree),
                     rejected   |-> Cardinality(refused)]]

\* The elements of S in the order of the pairs in before: the k-th has k - 1
\* others before it.
Sorted(S, before) ==
  [k \in 1 .. Cardinality(S) |->
     CHOOSE x \in S : Cardinality({y \in S : <<y, x>> \in before}) = k - 1]

RankOrder == {pair \in Paths \X Paths : Rank[pair[1]] < Rank[pair[2]]}

\* What a scan may publish: any folder contents, any verdicts.
Indexes ==
  LET walks == {w \in SUBSET Paths : \A p \in w : Parent(p) \in w \cup {Root}}
      made(w, refused) == IndexOf(Sorted(w, RankOrder), refused)
  IN  UNION {{made(w, refused) : refused \in SUBSET (w \cap Videos)} : w \in walks}

\* Every node of the tree hangs below a node of the tree, up to the root.
ParentsInTree(i) == \A p \in i.tree : p = Root \/ Parent(p) \in i.tree

\* No folder is offered that holds nothing to play.
NoEmptyFolder(i) ==
  \A d \in i.tree \cap Dirs : \E v \in i.tree \cap Videos : d \in Above(v)

\* Every video that was met is either offered or listed as not ready.
EveryVideoAccounted(i) ==
  /\ Elements(i.byID) \cap Videos = (i.tree \cap Videos) \cup i.rejected
  /\ i.tree \cap i.rejected = {}

\* Ids number the entries met, in the order they were met, so an id resolves
\* every node of the tree and no two nodes share one.
IdsInWalkOrder(i) ==
  /\ i.tree \subseteq {Root} \cup Elements(i.byID)
  /\ \A j, k \in DOMAIN i.byID : j < k => Rank[i.byID[j]] < Rank[i.byID[k]]

\* The figures on the status page are those of the tree beside them.
StatsOfTree(i) ==
  /\ i.stats.containers = countContainers(i.tree)
  /\ i.stats.videos = countVideos(i.tree)
  /\ i.stats.rejected = Cardinality(i.rejected)

WellFormed(i) ==
  /\ Root \in i.tree
  /\ ParentsInTree(i)
  /\ NoEmptyFolder(i)
  /\ EveryVideoAccounted(i)
  /\ IdsInWalkOrder(i)
  /\ StatsOfTree(i)

IndexType ==
  [tree : SUBSET ({Root} \cup Paths), byID : Seq(Paths), rejected : SUBSET Videos,
   stats : [containers : Nat, videos : Nat, rejected : Nat]]
=============================================================================
