------------------------------ MODULE Mp4Boxes ------------------------------
(***************************************************************************)
(* internal/avmeta, mp4.go: finding the dimensions and the duration of a   *)
(* video by walking the boxes of an MP4 file, which may be damaged, cut    *)
(* short or still downloading.  Lengths are in units of eight bytes.       *)
(***************************************************************************)
EXTENDS Walks

CONSTANT
  LargeSizes    \* the 64-bit sizes a box may declare

ASSUME Mp4Assumption == LargeSizes \subseteq 0 .. 2 * MaxInt + 1

\* The boxes each walk looks at; all others are passed over.
Interesting ==
  [file |-> {"moov"}, moov |-> {"mvhd", "trak", "mvex"}, trak |-> {"tkhd", "mdia"},
   mdia |-> {"hdlr"}, mvex |-> {"mehd"}]

-----------------------------------------------------------------------------
(* readMP4Box *)

End(b) == Wrap(b.start + b.size)
PayloadStart(b) == b.start + b.hdr
PayloadSize(b) == b.size - b.hdr

Valid(b, limit) ==
  /\ b.start >= 0 /\ b.start + b.hdr <= limit
  /\ b.size <= MaxInt /\ b.size >= b.hdr
  /\ End(b) <= limit

\* A size of 0 reaches to the limit, and a size of 1 announces a large one.
Box(type, off, limit) ==
  LET plain == {[type |-> type, start |-> off, size |-> n, hdr |-> 1] : n \in 0 .. limit + 1}
      rest == {[type |-> type, start |-> off, size |-> limit - off, hdr |-> 1]}
      large == {[type |-> type, start |-> off, size |-> n, hdr |-> 2] : n \in LargeSizes}
  IN  {b \in plain \cup rest \cup large : Valid(b, limit)}

-----------------------------------------------------------------------------
(* walkMP4Boxes *)

\* Fault: the walk goes where the box ends, wherever that is.
Behind_Unchecked(b) == End(b)

\* After the callback the walk goes on behind the box; a box that does not end
\* behind its start ends the walk.
Behind(b) == IF End(b) <= Walk.off THEN Walk.end ELSE End(b)

PassBox(b) == stack' = MovedTo(Behind(b))
WalkBox(b) == stack' = Nested(Behind(b), Span(b.type, PayloadStart(b), End(b)))

\* readBoxPayload, readBoxTail: at least need units can be read.
HeadReadable(b, max, need) ==
  LET n == Lower(PayloadSize(b), max)
  IN  n >= need /\ PayloadStart(b) + n <= fileSize
TailReadable(b) == PayloadSize(b) >= 1 /\ End(b) >= 1

\* The header cannot be read or is malformed: the caller drops the error.
BadBox == Looping /\ GiveUp

SkipBox ==
  /\ Looping
  /\ \E b \in Box("other", Walk.off, Walk.end) : PassBox(b)
  /\ UNCHANGED <<format, fileSize, found>>

\* Fault: the walk over the file is not stopped.
FindMovie_GoesOn ==
  /\ Looping /\ Walk.in = "file"
  /\ \E b \in Box("moov", Walk.off, Walk.end) : WalkBox(b)
  /\ UNCHANGED <<format, fileSize, found>>

\* probeMP4: the walk over the file stops at the first moov.
FindMovie ==
  /\ Looping /\ Walk.in = "file"
  /\ \E b \in Box("moov", Walk.off, Walk.end) :
       stack' = <<Span("moov", PayloadStart(b), End(b))>>
  /\ UNCHANGED <<format, fileSize, found>>

\* parseMVHD: a header that is too short is not understood, and then the one
\* before it, if any, stands.
MovieHeader ==
  /\ Looping /\ Walk.in = "moov"
  /\ \E b \in Box("mvhd", Walk.off, Walk.end), scale \in BOOLEAN, d \in {0, 1} :
       /\ PassBox(b)
       /\ clock' = IF HeadReadable(b, 4, 3)
                   THEN [clock EXCEPT !.scale = scale, !.duration = d] ELSE clock
  /\ UNCHANGED <<format, fileSize, trak, tracks, dims, seen, avih>>

FragmentHeader ==
  /\ Looping /\ Walk.in = "mvex"
  /\ \E b \in Box("mehd", Walk.off, Walk.end), d \in {1, 2} :
       /\ PassBox(b)
       /\ clock' = IF HeadReadable(b, 2, 1) THEN [clock EXCEPT !.fragments = d] ELSE clock
  /\ UNCHANGED <<format, fileSize, trak, tracks, dims, seen, avih>>

\* A callback that walks the payload; parseTrak starts with nothing.
EnterBox ==
  /\ Looping
  /\ \E type \in {"trak", "mvex", "mdia"} \cap Interesting[Walk.in] :
       /\ \E b \in Box(type, Walk.off, Walk.end) : WalkBox(b)
       /\ trak' = IF type = "trak" THEN NoTrack ELSE trak
       /\ tracks' = IF type = "trak" THEN tracks + 1 ELSE tracks
  /\ UNCHANGED <<format, fileSize, clock, dims, seen, avih>>

\* parseTrak reads the dimensions when the track's walk is over, from the last
\* tkhd; they are what the file says there.  Both are 16 bits wide, so none is
\* implausible.
TrackHeader ==
  /\ Looping /\ Walk.in = "trak"
  /\ \E b \in Box("tkhd", Walk.off, Walk.end), told \in BOOLEAN :
       LET size == IF told THEN Place(tracks, 1, TRUE) ELSE Unknown
       IN  /\ PassBox(b)
           /\ told => TailReadable(b)
           /\ trak' = [trak EXCEPT !.width = size, !.height = size]
  /\ UNCHANGED <<format, fileSize, clock, tracks, dims, seen, avih>>

Handler ==
  /\ Looping /\ Walk.in = "mdia"
  /\ \E b \in Box("hdlr", Walk.off, Walk.end), video \in {0, tracks} :
       /\ PassBox(b)
       /\ trak' = IF HeadReadable(b, 2, 2) THEN [trak EXCEPT !.video = video] ELSE trak
  /\ UNCHANGED <<format, fileSize, clock, tracks, dims, seen, avih>>

\* A walk reaches the end of its range; at the end of a track it is judged.
EndBoxWalk ==
  /\ Ended
  /\ stack' = Front(stack)
  /\ dims' = IF Walk.in = "trak" THEN ChosenTrack(Told) ELSE dims
  /\ UNCHANGED <<format, fileSize, clock, trak, tracks, seen, avih>>

Mp4Next ==
  \/ BadBox \/ SkipBox
  \/ FindMovie \/ EnterBox
  \/ MovieHeader \/ FragmentHeader \/ TrackHeader \/ Handler
  \/ EndBoxWalk

\* The duration reported: that of the fragments when the movie has none, and
\* none without a timescale.
Mp4Duration ==
  IF ~clock.scale THEN 0
  ELSE IF clock.duration # 0 THEN clock.duration ELSE clock.fragments
=============================================================================
