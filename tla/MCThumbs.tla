------------------------------ MODULE MCThumbs ------------------------------
(* A video that is edited and then put back, size and time included. *)
EXTENDS Thumbs

Stamps == <<1, 2, 1>>
=============================================================================
