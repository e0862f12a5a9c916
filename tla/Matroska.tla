------------------------------ MODULE Matroska ------------------------------
(***************************************************************************)
(* internal/avmeta, mkv.go: finding the dimensions and the duration of a   *)
(* video by walking the EBML elements of a Matroska or WebM file.          *)
(*                                                                         *)
(* Unlike a box, an element is not held inside the one that encloses it:   *)
(* its end is cut to the end of the file only, or is where a search for    *)
(* the next sibling stops.  The elements that enclose it then go on from   *)
(* the ends they declared themselves, so a damaged file may be read        *)
(* backwards when one level returns to the one above it.                   *)
(***************************************************************************)
EXTENDS Walks

CONSTANT
  Grown     \* how long a file that was empty when Stat looked has become

ASSUME MatroskaAssumption == Grown \in 0 .. MaxInt

Interest ==
  [file |-> {"segment"}, segment |-> {"info", "tracks"}, info |-> {"scale", "duration"},
   tracks |-> {"entry"}, entry |-> {"type", "video"}, video |-> {"width", "height"}]

\* probeMKV takes a size of 0 for one that is not known.
Limit == IF fileSize = 0 THEN MaxInt ELSE fileSize
Readable == IF fileSize = 0 THEN Grown ELSE fileSize

-----------------------------------------------------------------------------
(* readElement *)

\* A declared size that overflows or runs past the file is cut to it.
Clamp(start, size) ==
  IF Wrap(start + size) < start \/ Wrap(start + size) > Limit THEN Limit ELSE Wrap(start + size)

\* findNextElement: the position of something that looks like a sibling, or the
\* limit.  A Segment of unknown size is not searched for; it is the rest.
SiblingAt(id, start) ==
  IF id = "segment" THEN {Limit} ELSE {Limit} \cup start .. Readable - 1

Element(id, off) ==
  LET start == off + 1
      declared == {Clamp(start, size) : size \in 0 .. Readable + 1}
  IN  {[id |-> id, start |-> start, end |-> end] :
         end \in {e \in declared \cup SiblingAt(id, start) :
                    start <= Readable /\ off < e /\ e <= Limit}}

-----------------------------------------------------------------------------
(* The walks of probeMKV and the functions it calls. *)

done == seen = {"info", "tracks"}

PassElement(e) == stack' = MovedTo(e.end)
WalkElement(e) == stack' = Nested(e.end, Span(e.id, e.start, e.end))

\* readMKVUint, readMKVFloat: an empty value, one too long and one that cannot
\* be read count as none.
Value(e) == IF e.start < e.end /\ e.end <= Readable THEN BOOLEAN ELSE {FALSE}

BadElement == Looping /\ GiveUp

SkipElement ==
  /\ Looping
  /\ \E e \in Element("other", Walk.off) : PassElement(e)
  /\ UNCHANGED <<format, fileSize, found>>

\* parseMKVSegment marks Info and Tracks as seen before it walks them.
EnterElement ==
  /\ Looping
  /\ \E id \in {"segment", "info", "tracks"} \cap Interest[Walk.in] :
       /\ \E e \in Element(id, Walk.off) : WalkElement(e)
       /\ seen' = IF id = "segment" THEN seen ELSE seen \cup {id}
  /\ UNCHANGED <<format, fileSize, clock, trak, tracks, dims, avih>>

\* parseMKVInfo.  There is always a timecode scale: the default one until
\* another that is not 0 is met.
InfoField ==
  /\ Looping /\ Walk.in = "info"
  /\ \E id \in Interest.info : \E e \in Element(id, Walk.off) :
       /\ PassElement(e)
       /\ \E read \in Value(e), d \in {0, 1} :
            clock' = IF read /\ id = "duration" THEN [clock EXCEPT !.duration = d] ELSE clock
  /\ UNCHANGED <<format, fileSize, trak, tracks, dims, seen, avih>>

\* Fault: the type and the size of the entry before are kept.
EnterEntry_KeepsTrack ==
  /\ Looping /\ Walk.in = "tracks"
  /\ \E e \in Element("entry", Walk.off) : WalkElement(e)
  /\ tracks' = tracks + 1
  /\ UNCHANGED <<format, fileSize, clock, trak, dims, seen, avih>>

\* parseMKVTrackEntry starts with nothing.
EnterEntry ==
  /\ Looping /\ Walk.in = "tracks"
  /\ \E e \in Element("entry", Walk.off) : WalkElement(e)
  /\ trak' = NoTrack
  /\ tracks' = tracks + 1
  /\ UNCHANGED <<format, fileSize, clock, dims, seen, avih>>

TrackType ==
  /\ Looping /\ Walk.in = "entry"
  /\ \E e \in Element("type", Walk.off) :
       /\ PassElement(e)
       /\ \E read \in Value(e), video \in {0, tracks} :
            trak' = IF read THEN [trak EXCEPT !.video = video] ELSE trak
  /\ UNCHANGED <<format, fileSize, clock, tracks, dims, seen, avih>>

\* What parseMKVVideo returns replaces both the width and the height.
EnterVideo ==
  /\ Looping /\ Walk.in = "entry"
  /\ \E e \in Element("video", Walk.off) : WalkElement(e)
  /\ trak' = [trak EXCEPT !.parts = @ + 1, !.width = Unknown, !.height = Unknown]
  /\ UNCHANGED <<format, fileSize, clock, tracks, dims, seen, avih>>

PixelSize ==
  /\ Looping /\ Walk.in = "video"
  /\ \E side \in Interest.video, plausible \in BOOLEAN : \E e \in Element(side, Walk.off) :
       LET size == Place(tracks, trak.parts, plausible)
       IN  /\ PassElement(e)
           /\ \E read \in Value(e), some \in {size, Unknown} :
                trak' = IF read THEN [trak EXCEPT ![side] = some] ELSE trak
  /\ UNCHANGED <<format, fileSize, clock, tracks, dims, seen, avih>>

\* Fault: the search goes on although both elements have been seen.
Return_GoesOn == Front(stack)

\* A walk that is over returns to the one above it; once Info and Tracks have
\* both been seen, all return.
Return == IF done /\ Walk.in \in {"info", "tracks"} THEN << >> ELSE Front(stack)

EndElementWalk ==
  /\ Ended
  /\ stack' = Return
  /\ dims' = IF Walk.in = "entry" THEN ChosenTrack(Told) ELSE dims
  /\ UNCHANGED <<format, fileSize, clock, trak, tracks, seen, avih>>

MatroskaNext ==
  \/ BadElement \/ SkipElement
  \/ EnterElement \/ EnterEntry \/ EnterVideo
  \/ InfoField \/ TrackType \/ PixelSize
  \/ EndElementWalk

\* mkvFields.info: the size of the chosen track is reported if it is plausible;
\* if not, no other track takes its place.
MatroskaDims ==
  IF dims.width.plausible /\ dims.height.plausible THEN dims ELSE NoDims
=============================================================================
