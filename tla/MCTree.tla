------------------------------- MODULE MCTree -------------------------------
(***************************************************************************)
(* Small media folders for TLC.  WalkOrder is the order of walk worked out *)
(* from the names alone: where two paths part, folders come before videos  *)
(* and lower names before higher ones, and a folder comes before all that  *)
(* is below it.                                                            *)
(***************************************************************************)
EXTENDS Naturals, Sequences, FiniteSets

Under(p, q) == Len(p) <= Len(q) /\ SubSeq(q, 1, Len(p)) = p

WalkBefore(dirs, p, q) ==
  \/ p # q /\ Under(p, q)
  \/ \E k \in DOMAIN p \cap DOMAIN q :
       LET a == SubSeq(p, 1, k)
           b == SubSeq(q, 1, k)
       IN  /\ SubSeq(p, 1, k - 1) = SubSeq(q, 1, k - 1)
           /\ \/ a \in dirs /\ b \notin dirs
              \/ (a \in dirs <=> b \in dirs) /\ a[k] < b[k]

WalkOrder(dirs, videos) ==
  [p \in dirs \cup videos |->
     Cardinality({q \in dirs \cup videos : WalkBefore(dirs, q, p)})]

\* A folder within a folder, with the only video of the two, and two videos
\* beside them.
DeepDirs == {<<1>>, <<1, 1>>}
DeepVideos == {<<1, 1, 1>>, <<2>>, <<3>>}
DeepRank == WalkOrder(DeepDirs, DeepVideos)
DeepTitle == [v \in DeepVideos |-> 1]
=============================================================================
