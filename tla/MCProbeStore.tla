---------------------------- MODULE MCProbeStore ----------------------------
(* Files that grow from a partial download to a complete one, and back. *)
EXTENDS ProbeStore

\* Version 1 is reserved space, 2 a download whose headers and beginning have
\* come without changing the size or the second, 3 the whole file, and 4 is
\* version 2 put back with its time.
Stamps == <<1, 1, 2, 1>>
HeadersFrom2 == 2 .. 4
EarlyFrom2 == 2 .. 4
LateIn3 == {3}
=============================================================================
