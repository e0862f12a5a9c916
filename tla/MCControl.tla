------------------------------ MODULE MCControl ------------------------------
(* A folder with one video, and one beside it, for model checking Control. *)
EXTENDS Control, MCTree

TinyDirs == {<<1>>}
TinyVideos == {<<1, 1>>, <<2>>}
TinyRank == WalkOrder(TinyDirs, TinyVideos)
TinyTitle == [v \in TinyVideos |-> 1]
=============================================================================
