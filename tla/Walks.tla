-------------------------------- MODULE Walks --------------------------------
(***************************************************************************)
(* internal/avmeta: what the parsers of the three container formats share. *)
(* Each walks headers that nest: it reads one at an offset, may walk what  *)
(* the header encloses, and goes on behind it.                             *)
(*                                                                         *)
(* Nothing is known of the file but its size: a header is whatever is read *)
(* at its offset.  Lengths are scaled to the shortest header of a format,  *)
(* which is 1, and rounded up.  Offsets are int64 in the code; here they   *)
(* have the values -MaxInt-1 .. MaxInt and wrap around like them.  The     *)
(* stack holds the ranges of the walks that are running, the innermost     *)
(* last.                                                                   *)
(*                                                                         *)
(* A width or a height is represented by the place it was read at.         *)
(***************************************************************************)
EXTENDS Integers, Sequences, SequencesExt

CONSTANTS
  MaxInt,       \* the largest int64
  FileSizes     \* the sizes the file may have

ASSUME WalksAssumption == MaxInt \in Nat /\ FileSizes \subseteq 0 .. MaxInt

VARIABLES
  format,    \* the parser ProbeFile has chosen
  fileSize,  \* what Stat has told
  stack,     \* the running walks: where each is, and where its range ends
  clock,     \* is there a unit of time, the duration, and MP4's other duration
  trak,      \* what the running track has told: which said it is video, and its size
  tracks,    \* number of tracks entered
  dims,      \* of the track that was chosen: width, height, and which said it is video
  seen,      \* Matroska: mkvFields.haveInfo, haveTracks
  avih       \* AVI: width and height of the main header

found == <<clock, trak, tracks, dims, seen, avih>>
vars == <<format, fileSize, stack, found>>

\* The sizes of track n's element number part; track 0 stands for the file.
Place(n, part, plausible) == [track |-> n, part |-> part, plausible |-> plausible]
Unknown == Place(0, 0, FALSE)

NoTrack == [video |-> 0, width |-> Unknown, height |-> Unknown, parts |-> 0]
NoDims == [width |-> Unknown, height |-> Unknown, track |-> 0]

Lower(a, b) == IF a < b THEN a ELSE b
Wrap(x) == ((x + MaxInt + 1) % (2 * (MaxInt + 1))) - (MaxInt + 1)

Span(in, off, end) == [in |-> in, off |-> off, end |-> end]

Walk == Last(stack)
Looping == stack # << >> /\ Walk.off + 1 <= Walk.end
Ended == stack # << >> /\ ~Looping

\* The innermost walk goes on at off; so it does once a walk within it is over.
MovedTo(off) == Append(Front(stack), [Walk EXCEPT !.off = off])
Nested(off, inner) == Append(MovedTo(off), inner)

\* A walk that meets something unreadable ends with what it has.
GiveUp ==
  /\ stack' = MovedTo(Walk.end)
  /\ UNCHANGED <<format, fileSize, found>>

Told == trak.width # Unknown /\ trak.height # Unknown

\* The first video track whose width and height are both usable is kept.
ChosenTrack(usable) ==
  IF trak.video # 0 /\ dims = NoDims /\ usable
  THEN [width |-> trak.width, height |-> trak.height, track |-> trak.video]
  ELSE dims
==============================================================================
