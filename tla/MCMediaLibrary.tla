--------------------------- MODULE MCMediaLibrary ---------------------------
(* Media folders and library options for model checking MediaLibrary. *)
EXTENDS MediaLibrary, MCTree
=============================================================================
