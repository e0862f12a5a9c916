-------------------------------- MODULE Riff --------------------------------
(***************************************************************************)
(* internal/avmeta, avi.go: finding the dimensions and the duration of a   *)
(* video by walking the RIFF chunks of an AVI file.  A four-character      *)
(* code, a header, and the two structures that are read have length 1.     *)
(***************************************************************************)
EXTENDS Walks

\* Fault: a chunk may reach past the range it lies in.
Chunk_Uncut(off, end) ==
  {[start |-> off + 1, end |-> off + 1 + size, pad |-> size % 2] : size \in 0 .. fileSize + 1}

\* A chunk's payload is cut to the range it lies in.
Chunk(off, end) ==
  {[start |-> off + 1,
    end   |-> IF off + 1 + size > end THEN end ELSE off + 1 + size,
    pad   |-> size % 2] : size \in 0 .. fileSize + 1}

\* Fault: the length of the header is forgotten.
Beyond_NoHeader(c) == Walk.off + (c.end - c.start) + c.pad

\* Chunks are padded to an even length; one that does not move on ends the walk.
Beyond(c) == IF c.end + c.pad <= Walk.off THEN Walk.end ELSE c.end + c.pad

PassChunk(c) == stack' = MovedTo(Beyond(c))

\* aviFourCC reads at the payload's start, whether or not the payload reaches so
\* far; what it names is walked behind it.
NamedAt(c) == c.start + 1 <= fileSize
WalkList(c, name) == stack' = Nested(Beyond(c), Span(name, c.start + 1, c.end))
Holds(c, need) == c.end - c.start >= need

BadChunk == Looping /\ GiveUp

SkipChunk ==
  /\ Looping
  /\ \E c \in Chunk(Walk.off, Walk.end) : PassChunk(c)
  /\ UNCHANGED <<format, fileSize, found>>

\* aviReadAvih: the sides are signed and may be anything.
MainHeader ==
  /\ Looping /\ Walk.in = "hdrl"
  /\ \E c \in Chunk(Walk.off, Walk.end), timed \in BOOLEAN, size \in
          {Unknown, Place(0, 1, TRUE), Place(0, 1, FALSE)} :
       /\ Holds(c, 1)
       /\ PassChunk(c)
       /\ clock' = [clock EXCEPT !.scale = timed, !.duration = 1]
       /\ avih' = size
  /\ UNCHANGED <<format, fileSize, trak, tracks, dims, seen>>

EnterHeaderList ==
  /\ Looping /\ Walk.in = "riff"
  /\ \E c \in Chunk(Walk.off, Walk.end) : NamedAt(c) /\ WalkList(c, "hdrl")
  /\ UNCHANGED <<format, fileSize, found>>

\* aviWalkStrl starts with nothing.
EnterStream ==
  /\ Looping /\ Walk.in = "hdrl"
  /\ \E c \in Chunk(Walk.off, Walk.end) : NamedAt(c) /\ WalkList(c, "strl")
  /\ trak' = NoTrack
  /\ tracks' = tracks + 1
  /\ UNCHANGED <<format, fileSize, clock, dims, seen, avih>>

\* strh: the last one decides, also when its code cannot be read.
StreamHeader ==
  /\ Looping /\ Walk.in = "strl"
  /\ \E c \in Chunk(Walk.off, Walk.end), video \in {0, tracks} :
       /\ PassChunk(c)
       /\ trak' = [trak EXCEPT !.video = IF NamedAt(c) THEN video ELSE 0]
  /\ UNCHANGED <<format, fileSize, clock, tracks, dims, seen, avih>>

\* strf: both sides come from one structure.
StreamFormat ==
  /\ Looping /\ Walk.in = "strl"
  /\ \E c \in Chunk(Walk.off, Walk.end), plausible \in BOOLEAN :
       LET size == Place(tracks, 1, plausible)
       IN  /\ Holds(c, 1)
           /\ PassChunk(c)
           /\ trak' = [trak EXCEPT !.width = size, !.height = size]
  /\ UNCHANGED <<format, fileSize, clock, tracks, dims, seen, avih>>

\* A walk reaches the end of its range; at the end of a stream it is judged.
EndChunkWalk ==
  /\ Ended
  /\ stack' = Front(stack)
  /\ dims' = IF Walk.in = "strl" THEN ChosenTrack(trak.width.plausible /\ trak.height.plausible) ELSE dims
  /\ UNCHANGED <<format, fileSize, clock, trak, tracks, seen, avih>>

RiffNext ==
  \/ BadChunk \/ SkipChunk
  \/ MainHeader \/ EnterHeaderList \/ EnterStream
  \/ StreamHeader \/ StreamFormat
  \/ EndChunkWalk

\* probeAVI: without a video stream the sides of the main header are reported,
\* as long as both are positive.
RiffDims ==
  IF dims # NoDims \/ avih = Unknown THEN dims
  ELSE [width |-> avih, height |-> avih, track |-> 0]
=============================================================================
