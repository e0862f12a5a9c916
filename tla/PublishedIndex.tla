--------------------------- MODULE PublishedIndex ---------------------------
(***************************************************************************)
(* What the library promises to everything that reads it: one index at a   *)
(* time, always a complete and coherent one, replaced in a single step     *)
(* together with the SystemUpdateID that tells clients to look again.      *)
(***************************************************************************)
EXTENDS Naturals

CONSTANTS
  NoIndex,         \* what there is before the first scan
  WellFormed(_)    \* what is required of an index

VARIABLES
  index,      \* root, byID, stats and rejected of library.Library
  updateID    \* the ContentDirectory SystemUpdateID

Init ==
  /\ index = NoIndex
  /\ updateID = 0

Replace ==
  /\ updateID' = updateID + 1
  /\ WellFormed(index')

Spec == Init /\ [][Replace]_<<index, updateID>>
=============================================================================
