----------------------------- MODULE Containers -----------------------------
(***************************************************************************)
(* internal/avmeta, ProbeFile: the parser is chosen by what the file       *)
(* starts with, failing that by its name, and whatever it makes of the     *)
(* file is the metadata the library shows for the video.                   *)
(***************************************************************************)
EXTENDS Mp4Boxes, Matroska, Riff

Magics == {"ebml", "ftyp", "avi", "none"}
Extensions == {"mp4", "mkv", "avi", "other"}

Chosen(magic, ext) ==
  CASE magic = "ebml"  -> "mkv"
    [] magic = "ftyp"  -> "mp4"
    [] magic = "avi"   -> "avi"
    [] OTHER           -> IF ext = "other" THEN "none" ELSE ext

\* probeAVI looks at the magic itself, and cuts the size RIFF declares to that
\* of the file.
Beginning(parser, magic) ==
  CASE parser = "mp4" -> {<<Span("file", 0, fileSize)>>}
    [] parser = "mkv" -> {<<Span("file", 0, Limit)>>}
    [] parser = "avi" /\ magic = "avi" -> {<<Span("riff", 1, end)>> : end \in 1 .. fileSize}
    [] OTHER -> {<< >>}

Init ==
  /\ fileSize \in FileSizes
  /\ format = "unread" /\ stack = << >>
  /\ clock = [scale |-> FALSE, duration |-> 0, fragments |-> 0]
  /\ trak = NoTrack /\ tracks = 0 /\ dims = NoDims
  /\ seen = {} /\ avih = Unknown

\* A file too short for a magic has none.
ProbeFile ==
  /\ format = "unread"
  /\ \E magic \in Magics, ext \in Extensions :
       /\ fileSize = 0 => magic = "none"
       /\ format' = Chosen(magic, ext)
       /\ stack' \in Beginning(format', magic)
       /\ clock' = [clock EXCEPT !.scale = (format' = "mkv")]
  /\ UNCHANGED <<fileSize, trak, tracks, dims, seen, avih>>

Next ==
  \/ ProbeFile
  \/ format = "mp4" /\ Mp4Next
  \/ format = "mkv" /\ MatroskaNext
  \/ format = "avi" /\ RiffNext

\* The parser runs in the goroutine that probes the file, and nothing it does
\* waits for anything but the disk.
Spec == Init /\ [][Next]_vars
FairSpec == Spec /\ WF_vars(Next)

Reported ==
  CASE format = "mkv" -> MatroskaDims
    [] format = "avi" -> RiffDims
    [] OTHER          -> dims

-----------------------------------------------------------------------------
\* The walk that each walk is made in; those of "none" are made in no other.
Within ==
  [file |-> "none", moov |-> "none", mvex |-> "moov", trak |-> "moov", mdia |-> "trak",
   segment |-> "file", info |-> "segment", tracks |-> "segment", entry |-> "tracks",
   video |-> "entry", riff |-> "none", hdrl |-> "riff", strl |-> "hdrl"]

Places == [track : Nat, part : Nat, plausible : BOOLEAN]

TypeOK ==
  /\ format \in {"unread", "mp4", "mkv", "avi", "none"}
  /\ fileSize \in FileSizes
  /\ stack \in Seq([in : DOMAIN Within, off : Int, end : Int])
  /\ \A i \in DOMAIN stack : Within[stack[i].in] = IF i = 1 THEN "none" ELSE stack[i - 1].in
  /\ clock \in [scale : BOOLEAN, duration : 0 .. 1, fragments : 0 .. 2]
  /\ trak \in [video : Nat, width : Places, height : Places, parts : Nat]
  /\ tracks \in Nat
  /\ dims \in [width : Places, height : Places, track : Nat]
  /\ seen \subseteq {"info", "tracks"} /\ avih \in Places

(***************************************************************************)
(* readMP4Box, readElement, aviWalkChunks: no walk leaves the file, also   *)
(* when a declared size overflows int64.  A box and a chunk are held       *)
(* inside what encloses them, an element inside the file only.             *)
(***************************************************************************)
WalksStayInside ==
  \A i \in DOMAIN stack :
    /\ stack[i].off >= 0
    /\ stack[i].end <= IF format = "mkv" THEN Limit
                       ELSE IF i = 1 THEN fileSize ELSE stack[i - 1].end

(***************************************************************************)
(* walkMP4Boxes, aviWalkChunks and the loops of mkv.go: no walk goes back. *)
(* In MP4 a large size can overflow when it is added to the offset; such a *)
(* box passes for one that ends before the limit.                          *)
(***************************************************************************)
WalksMoveForward ==
  [][\A i \in DOMAIN stack \cap DOMAIN stack' : stack'[i].off >= stack[i].off]_vars

(***************************************************************************)
(* ProbeFile: every file, however damaged, is done with.  A parser that    *)
(* does not end would hold a worker of the scan, and so the scan.          *)
(***************************************************************************)
ParsingEnds == (format = "unread") ~> (format # "unread" /\ stack = << >>)

(***************************************************************************)
(* parseTrak, parseMKVTrackEntry, aviWalkStrl: the width and the height    *)
(* reported were read in one place of one track, and that very track said  *)
(* that it is video.  Only AVI reports a size that no track has told, its  *)
(* main header's, and only that one is not held to maxDimension.           *)
(***************************************************************************)
DimensionsAreOfOneVideoTrack ==
  Reported # NoDims =>
    /\ Reported.width = Reported.height
    /\ Reported.width.track = Reported.track
    /\ Reported.track = 0 => format = "avi"
    /\ Reported.track # 0 => Reported.width.plausible

(***************************************************************************)
(* The comment at the top of mkv.go: "Parsing stops as soon as both the    *)
(* Info and Tracks elements have been seen", so that no later element is   *)
(* searched for the end of one before it.                                  *)
(***************************************************************************)
NothingIsReadAfterBoth ==
  done /\ stack # << >> => \E i \in DOMAIN stack : stack[i].in \in {"info", "tracks"}
=============================================================================
