------------------------- MODULE Containers_proofs -------------------------
(***************************************************************************)
(* Theorems about Containers: for files of any size, offsets of any width, *)
(* and headers that say anything at all, the walks of the three parsers    *)
(* stay inside the file and go forward, every step brings the end of the   *)
(* parse nearer, and the width and the height reported belong together.    *)
(*                                                                         *)
(* The three parsers change the stack of walks in few ways: the innermost  *)
(* walk moves on, a walk is begun within it, it ends, or all end.  The     *)
(* lemmas say once what each way preserves; what is left for a format is   *)
(* where its headers end.                                                  *)
(***************************************************************************)
EXTENDS Containers, SequenceTheorems, TLAPS

\* The walks that each parser makes.
Walked ==
  [unread |-> {}, none |-> {},
   mp4 |-> {"file", "moov", "mvex", "trak", "mdia"},
   mkv |-> {"file", "segment", "info", "tracks", "entry", "video"},
   avi |-> {"riff", "hdrl", "strl"}]

OwnWalks == \A i \in DOMAIN stack : stack[i].in \in Walked[format]

\* What a track, number n, has told comes from that track, and in Matroska from
\* its last video element; the others read both sides in one place.
OfTrack(t, n) ==
  /\ t.video \in {0, n}
  /\ \A side \in {"width", "height"} : t[side] # Unknown =>
       /\ t[side].track = n
       /\ format = "mkv" => t[side].part = t.parts
  /\ format # "mkv" => t.width = t.height
  /\ format = "mp4" /\ t.width # Unknown => t.width.plausible

\* So does what was kept of the track that was chosen.
OfOneTrack(d) ==
  /\ d.track # 0
  /\ d.width.track = d.track /\ d.height.track = d.track
  /\ d.width.part = d.height.part
  /\ format # "mkv" => d.width = d.height /\ d.width.plausible

SizesSound ==
  /\ OfTrack(trak, tracks)
  /\ dims # NoDims => OfOneTrack(dims)
  /\ avih.track = 0
  /\ format # "mkv" => seen = {}

IInv ==
  /\ TypeOK /\ OwnWalks /\ WalksStayInside
  /\ SizesSound
  /\ format = "unread" => trak = NoTrack /\ dims = NoDims /\ seen = {}
  /\ NothingIsReadAfterBoth

-----------------------------------------------------------------------------
(* The stack of walks. *)

Frames == [in : DOMAIN Within, off : Int, end : Int]

\* A walk's end is held to this by the walk it is made in, or by the file.
Bound(s, i) ==
  IF format = "mkv" THEN Limit ELSE IF i = 1 THEN fileSize ELSE s[i - 1].end

Fits(s, i) ==
  /\ Within[s[i].in] = IF i = 1 THEN "none" ELSE s[i - 1].in
  /\ s[i].in \in Walked[format]
  /\ s[i].off >= 0 /\ s[i].end <= Bound(s, i)

Sound(s) == s \in Seq(Frames) /\ \A i \in 1 .. Len(s) : Fits(s, i)

\* No walk of s is behind where it was, and one of Info or Tracks goes on.
Forward(s) == \A i \in DOMAIN stack \cap DOMAIN s : s[i].off >= stack[i].off
Reads(s) == \E i \in DOMAIN s : s[i].in \in {"info", "tracks"}
Follows(s) == Forward(s) /\ (Reads(stack) => Reads(s))

LEMMA StackIsSound ==
  ASSUME TypeOK, OwnWalks, WalksStayInside
  PROVE  Sound(stack)
<1>1. stack \in Seq(Frames) /\ DOMAIN stack = 1 .. Len(stack)
  BY LenProperties DEF TypeOK, Frames
<1> QED  BY <1>1 DEF TypeOK, OwnWalks, WalksStayInside, Sound, Fits, Bound

LEMMA InnermostWalk ==
  ASSUME Sound(stack), stack # << >>
  PROVE  /\ Len(stack) \in Nat \ {0} /\ DOMAIN stack = 1 .. Len(stack)
         /\ Walk = stack[Len(stack)] /\ Walk \in Frames
         /\ Walk.in \in Walked[format] /\ Walk.off >= 0
         /\ Walk.end <= Bound(stack, Len(stack))
<1>1. stack \in Seq(Frames)
  BY DEF Sound
<1>2. Len(stack) \in Nat \ {0} /\ DOMAIN stack = 1 .. Len(stack)
  BY <1>1, EmptySeq, LenProperties
<1>3. Walk = stack[Len(stack)]
  BY DEF Walk, Last
<1>4. Walk \in Frames
  BY <1>1, <1>2, <1>3, ElementOfSeq
<1>5. Fits(stack, Len(stack))
  BY <1>2 DEF Sound
<1> QED  BY <1>2, <1>3, <1>4, <1>5 DEF Fits

\* Front takes the innermost walk away.
LEMMA FrontOfStack ==
  ASSUME Sound(stack), stack # << >>
  PROVE  /\ Front(stack) \in Seq(Frames)
         /\ Len(Front(stack)) = Len(stack) - 1
         /\ \A i \in 1 .. Len(stack) - 1 : Front(stack)[i] = stack[i]
<1>1. Len(stack) \in Nat \ {0} /\ stack \in Seq(Frames)
  BY InnermostWalk DEF Sound
<1>2. \A i \in 1 .. Len(stack) - 1 : stack[i] \in Frames
  BY <1>1, ElementOfSeq
<1> DEFINE n == Len(stack) - 1
           f == SubSeq(stack, 1, n)
<1>3. n \in Nat /\ 1 \in Int /\ n \in Int
  BY <1>1
<1> HIDE DEF n
<1>4. /\ f \in Seq(Frames)
      /\ Len(f) = IF 1 <= n THEN n - 1 + 1 ELSE 0
      /\ \A i \in 1 .. n - 1 + 1 : f[i] = stack[1 + i - 1]
  BY <1>2, <1>3, SubSeqProperties DEF n
<1> HIDE DEF f
<1>5. f \in Seq(Frames) /\ Len(f) = n /\ \A i \in 1 .. n : f[i] = stack[i]
  BY <1>3, <1>4
<1>6. Front(stack) = f
  BY DEF Front, f, n
<1> QED  BY <1>5, <1>6 DEF n

LEMMA PopSound ==
  ASSUME Sound(stack), stack # << >>
  PROVE  /\ Sound(Front(stack))
         /\ \A i \in DOMAIN stack \cap DOMAIN Front(stack) : Front(stack)[i] = stack[i]
         /\ DOMAIN Front(stack) = 1 .. Len(stack) - 1
<1> DEFINE s == Front(stack)
<1>1. Len(stack) \in Nat \ {0} /\ DOMAIN stack = 1 .. Len(stack)
  BY InnermostWalk
<1>2. s \in Seq(Frames) /\ Len(s) = Len(stack) - 1
      /\ \A i \in 1 .. Len(stack) - 1 : s[i] = stack[i]
  BY FrontOfStack
<1>3. DOMAIN s = 1 .. Len(stack) - 1
  BY <1>2, LenProperties
<1> HIDE DEF s
<1>4. ASSUME NEW i \in 1 .. Len(s)
      PROVE  Fits(s, i)
  <2>1. Fits(stack, i) /\ s[i] = stack[i] /\ (i # 1 => s[i - 1] = stack[i - 1])
    BY <1>1, <1>2 DEF Sound
  <2> QED  BY <2>1 DEF Fits, Bound
<1>5. Sound(s)
  BY <1>2, <1>4 DEF Sound
<1> QED  BY <1>1, <1>2, <1>3, <1>5 DEF s

\* The innermost walk moves on.
LEMMA MoveSound ==
  ASSUME Sound(stack), stack # << >>, NEW o \in Int, o >= Walk.off
  PROVE  /\ Sound(MovedTo(o)) /\ Follows(MovedTo(o))
         /\ Len(MovedTo(o)) = Len(stack)
         /\ \A i \in 1 .. Len(stack) - 1 : MovedTo(o)[i] = stack[i]
         /\ MovedTo(o)[Len(stack)] = [Walk EXCEPT !.off = o]
<1> DEFINE w == [Walk EXCEPT !.off = o]
           f == Front(stack)
           s == Append(f, w)
<1>1. /\ Len(stack) \in Nat \ {0} /\ DOMAIN stack = 1 .. Len(stack)
      /\ Walk = stack[Len(stack)] /\ Walk \in Frames /\ Walk.off >= 0
  BY InnermostWalk
<1>2. w \in Frames /\ w.in = Walk.in /\ w.end = Walk.end /\ w.off = o
  BY <1>1 DEF Frames
<1>3. f \in Seq(Frames) /\ Len(f) = Len(stack) - 1
      /\ \A i \in 1 .. Len(stack) - 1 : f[i] = stack[i]
  BY FrontOfStack
<1> HIDE DEF w, f
<1>4. /\ s \in Seq(Frames) /\ Len(s) = Len(f) + 1
      /\ \A i \in 1 .. Len(f) : s[i] = f[i]
      /\ s[Len(f) + 1] = w
  BY <1>2, <1>3, AppendProperties
<1>5. DOMAIN s = 1 .. Len(s)
  BY <1>4, LenProperties
<1>6. MovedTo(o) = s
  BY DEF MovedTo, s, f, w
<1> HIDE DEF s
<1>7. /\ Len(s) = Len(stack) /\ s[Len(stack)] = w
      /\ \A i \in 1 .. Len(stack) - 1 : s[i] = stack[i]
  BY <1>1, <1>3, <1>4
<1>8. \A i \in 1 .. Len(stack) : s[i].in = stack[i].in /\ s[i].end = stack[i].end
                                 /\ s[i].off >= stack[i].off
  <2> SUFFICES ASSUME NEW i \in 1 .. Len(stack)
               PROVE  s[i].in = stack[i].in /\ s[i].end = stack[i].end
                      /\ s[i].off >= stack[i].off
    OBVIOUS
  <2>1. CASE i = Len(stack)
    <3>1. s[i] = w /\ stack[i] = Walk
      BY <2>1, <1>1, <1>7
    <3> QED  BY <3>1, <1>2
  <2>2. CASE i \in 1 .. Len(stack) - 1
    <3>1. s[i] = stack[i] /\ stack[i] \in Frames
      BY <2>2, <1>1, <1>7, ElementOfSeq DEF Sound
    <3> QED  BY <3>1 DEF Frames
  <2>3. i = Len(stack) \/ i \in 1 .. Len(stack) - 1
    <3>1. Len(stack) \in Nat \ {0}
      BY <1>1
    <3> QED  BY <3>1
  <2> QED  BY <2>1, <2>2, <2>3, Zenon
<1>9. Sound(s)
  <2> SUFFICES ASSUME NEW i \in 1 .. Len(s)
               PROVE  Fits(s, i)
    BY <1>4 DEF Sound
  <2>1. i \in 1 .. Len(stack) /\ stack[i] \in Frames /\ s[i] \in Frames
    BY <1>1, <1>4, <1>7, ElementOfSeq DEF Sound
  <2>2. Fits(stack, i)
    BY <2>1 DEF Sound
  <2>3. i # 1 => s[i - 1].in = stack[i - 1].in /\ s[i - 1].end = stack[i - 1].end
    BY <2>1, <1>1, <1>8
  <2>4. Bound(s, i) = Bound(stack, i)
    BY <2>3 DEF Bound
  <2>5. s[i].in = stack[i].in /\ s[i].end = stack[i].end /\ s[i].off >= stack[i].off
    BY <2>1, <1>8
  <2>6. s[i].off >= 0
    <3>1. stack[i].off >= 0
      BY <2>2 DEF Fits
    <3>2. stack[i].off \in Int /\ s[i].off \in Int
      BY <2>1 DEF Frames
    <3> QED  BY <2>5, <3>1, <3>2
  <2> QED  BY <2>2, <2>3, <2>4, <2>5, <2>6 DEF Fits
<1>10. Follows(s)
  BY <1>1, <1>5, <1>7, <1>8 DEF Follows, Forward, Reads
<1> QED  BY <1>6, <1>7, <1>9, <1>10 DEF w

\* A walk is begun within the innermost one, which goes on behind it.
LEMMA NestSound ==
  ASSUME Sound(stack), stack # << >>, NEW o \in Int, o >= Walk.off,
         NEW x \in Frames, Within[x.in] = Walk.in, x.in \in Walked[format],
         x.off >= 0, x.end <= IF format = "mkv" THEN Limit ELSE Walk.end
  PROVE  /\ Sound(Nested(o, x)) /\ Follows(Nested(o, x))
         /\ \E i \in DOMAIN Nested(o, x) : Nested(o, x)[i] = x
<1> DEFINE m == MovedTo(o)
           s == Append(m, x)
<1>1. /\ Len(stack) \in Nat \ {0} /\ DOMAIN stack = 1 .. Len(stack)
      /\ Walk = stack[Len(stack)] /\ Walk \in Frames
  BY InnermostWalk
<1>2. /\ Sound(m) /\ Follows(m) /\ Len(m) = Len(stack)
      /\ m[Len(stack)] = [Walk EXCEPT !.off = o]
  BY MoveSound
<1>3. m[Len(stack)].in = Walk.in /\ m[Len(stack)].end = Walk.end
  BY <1>1, <1>2 DEF Frames
<1>4. m \in Seq(Frames) /\ DOMAIN m = 1 .. Len(stack)
  BY <1>2, LenProperties DEF Sound
<1> HIDE DEF m
<1>5. /\ s \in Seq(Frames) /\ Len(s) = Len(m) + 1
      /\ \A i \in 1 .. Len(m) : s[i] = m[i]
      /\ s[Len(m) + 1] = x
  BY <1>4, AppendProperties
<1>6. DOMAIN s = 1 .. Len(stack) + 1
  BY <1>2, <1>5, LenProperties
<1>7. Nested(o, x) = s
  BY DEF Nested, s, m
<1> HIDE DEF s
<1>8. Sound(s)
  <2> SUFFICES ASSUME NEW i \in 1 .. Len(stack) + 1
               PROVE  Fits(s, i)
    BY <1>2, <1>5 DEF Sound
  <2>1. CASE i = Len(stack) + 1
    <3>1. s[i] = x /\ s[i - 1] = m[Len(stack)] /\ i # 1 /\ i - 1 = Len(stack)
      BY <2>1, <1>1, <1>2, <1>5
    <3> QED  BY <3>1, <1>3 DEF Bound, Fits
  <2>2. CASE i \in 1 .. Len(stack)
    <3>1. s[i] = m[i] /\ (i # 1 => s[i - 1] = m[i - 1])
      BY <2>2, <1>1, <1>2, <1>5
    <3>2. Fits(m, i)
      BY <2>2, <1>2 DEF Sound
    <3> QED  BY <3>1, <3>2 DEF Bound, Fits
  <2>3. i = Len(stack) + 1 \/ i \in 1 .. Len(stack)
    BY <1>1
  <2> QED  BY <2>1, <2>2, <2>3
<1>9. \A i \in 1 .. Len(stack) : s[i] = m[i]
  BY <1>2, <1>5
<1>10. Follows(s)
  BY <1>1, <1>2, <1>4, <1>6, <1>9 DEF Follows, Forward, Reads
<1>11. \E i \in DOMAIN s : s[i] = x
  BY <1>1, <1>2, <1>5, <1>6
<1> QED  BY <1>7, <1>8, <1>10, <1>11

-----------------------------------------------------------------------------
(* Where the headers of the formats end. *)

\* What a step of a parser may do to the stack: Sound and Follows of what it
\* becomes, whatever the way.
StepSound == Sound(stack') /\ Follows(stack')

LEMMA SizesAreInts ==
  ASSUME TypeOK
  PROVE  /\ fileSize \in Nat /\ Limit \in Nat /\ Readable \in Nat
         /\ \A n \in Int : Wrap(n) \in Int
<1> fileSize \in FileSizes
  BY DEF TypeOK
<1>1. fileSize \in Nat /\ MaxInt \in Nat /\ Grown \in Nat
  BY WalksAssumption, MatroskaAssumption
<1>2. Limit \in Nat /\ Readable \in Nat
  BY <1>1 DEF Limit, Readable
<1>3. ASSUME NEW n \in Int
      PROVE  Wrap(n) \in Int
  <2>1. 2 * (MaxInt + 1) \in Nat \ {0} /\ n + MaxInt + 1 \in Int
    BY <1>1
  <2>2. (n + MaxInt + 1) % (2 * (MaxInt + 1)) \in Int
    BY <2>1
  <2> QED  BY <1>1, <2>2 DEF Wrap
<1> QED  BY <1>1, <1>2, <1>3

\* A box can be walked, or passed over, wherever it says it ends.
LEMMA BoxSound ==
  ASSUME TypeOK, Sound(stack), Looping,
         NEW type, NEW b \in Box(type, Walk.off, Walk.end)
  PROVE  /\ b.type = type
         /\ Behind(b) \in Int /\ Behind(b) >= Walk.off
         /\ PayloadStart(b) \in Int /\ PayloadStart(b) >= Walk.off
         /\ End(b) \in Int /\ End(b) <= Walk.end
<1>1. Walk.off \in Int /\ Walk.end \in Int /\ Walk.off + 1 <= Walk.end
  BY InnermostWalk DEF Looping, Frames
<1>2. b.type = type /\ b.start = Walk.off /\ b.size \in Int /\ b.hdr \in {1, 2}
      /\ Valid(b, Walk.end)
  <2>1. LargeSizes \subseteq Int
    BY WalksAssumption, Mp4Assumption
  <2> QED  BY <1>1, <2>1 DEF Box
<1>3. End(b) \in Int /\ End(b) <= Walk.end
  BY <1>1, <1>2, SizesAreInts DEF End, Valid
<1>4. Behind(b) \in Int /\ Behind(b) >= Walk.off
  BY <1>1, <1>3 DEF Behind
<1> QED  BY <1>1, <1>2, <1>3, <1>4 DEF PayloadStart

\* An element begins its payload behind where it stands, and ends in the file.
LEMMA ElementSound ==
  ASSUME TypeOK, Sound(stack), stack # << >>, NEW id, NEW e \in Element(id, Walk.off)
  PROVE  /\ e.id = id
         /\ e.start \in Int /\ e.start >= Walk.off
         /\ e.end \in Int /\ e.end >= Walk.off /\ e.end <= Limit
<1>1. Walk.off \in Int
  BY InnermostWalk DEF Frames
<1>2. /\ e.id = id /\ e.start = Walk.off + 1
      /\ Walk.off < e.end /\ e.end <= Limit
  BY DEF Element
<1>3. e.end \in Int
  <2>1. \A start \in Int, size \in 0 .. Readable + 1 : Clamp(start, size) \in Int
    BY SizesAreInts DEF Clamp
  <2>2. SiblingAt(id, Walk.off + 1) \subseteq Int
    BY SizesAreInts, <1>1 DEF SiblingAt
  <2>3. {Clamp(Walk.off + 1, size) : size \in 0 .. Readable + 1} \subseteq Int
    BY <1>1, <2>1
  <2> QED  BY <2>2, <2>3 DEF Element
<1>4. e.start \in Int /\ e.start >= Walk.off /\ e.end >= Walk.off
  BY <1>1, <1>2, <1>3
<1> QED  BY <1>2, <1>3, <1>4

\* A chunk ends inside the walk; the padding behind it need not.
LEMMA ChunkSound ==
  ASSUME TypeOK, Sound(stack), Looping, NEW c \in Chunk(Walk.off, Walk.end)
  PROVE  /\ Beyond(c) \in Int /\ Beyond(c) >= Walk.off
         /\ c.start \in Int /\ c.start >= Walk.off
         /\ c.end \in Int /\ c.end <= Walk.end
<1>1. Walk.off \in Int /\ Walk.end \in Int /\ Walk.off + 1 <= Walk.end
  BY InnermostWalk DEF Looping, Frames
<1>2. PICK size \in 0 .. fileSize + 1 :
        c = [start |-> Walk.off + 1,
             end |-> IF Walk.off + 1 + size > Walk.end THEN Walk.end
                     ELSE Walk.off + 1 + size,
             pad |-> size % 2]
  BY DEF Chunk
<1>3. size \in Int /\ size % 2 \in Int
  BY SizesAreInts
<1>4. c.end \in Int /\ c.end <= Walk.end /\ c.pad \in Int /\ c.start = Walk.off + 1
  BY <1>1, <1>2, <1>3
<1>5. Beyond(c) \in Int /\ Beyond(c) >= Walk.off
  BY <1>1, <1>4 DEF Beyond
<1> QED  BY <1>1, <1>4, <1>5

-----------------------------------------------------------------------------
(* What the steps of the parsers do to the stack. *)

\* What the walks of MP4 and Matroska look for is walked within them only.
LEMMA WhereBoxesNest ==
  ASSUME NEW w \in Walked["mp4"], NEW type \in {"trak", "mvex", "mdia"},
         type \in Interesting[w]
  PROVE  Within[type] = w /\ type \in DOMAIN Within /\ type \in Walked["mp4"]
<1>1. w \in {"file", "moov", "mvex", "trak", "mdia"}
  BY DEF Walked
<1>2. /\ Interesting["file"] = {"moov"} /\ Interesting["moov"] = {"mvhd", "trak", "mvex"}
      /\ Interesting["trak"] = {"tkhd", "mdia"}
      /\ Interesting["mdia"] = {"hdlr"} /\ Interesting["mvex"] = {"mehd"}
  BY DEF Interesting
<1>3. \/ type \in {"trak", "mvex"} /\ w = "moov"
      \/ type = "mdia" /\ w = "trak"
  BY <1>1, <1>2
<1>4. Within["trak"] = "moov" /\ Within["mvex"] = "moov" /\ Within["mdia"] = "trak"
  BY DEF Within
<1>5. type \in DOMAIN Within /\ type \in Walked["mp4"]
  BY DEF Within, Walked
<1> QED  BY <1>3, <1>4, <1>5

LEMMA WhereElementsNest ==
  ASSUME NEW w \in Walked["mkv"],
         NEW id \in {"segment", "info", "tracks", "entry", "video"}, id \in Interest[w]
  PROVE  Within[id] = w /\ id \in DOMAIN Within /\ id \in Walked["mkv"]
<1>1. w \in {"file", "segment", "info", "tracks", "entry", "video"}
  BY DEF Walked
<1>2. /\ Interest["file"] = {"segment"} /\ Interest["segment"] = {"info", "tracks"}
      /\ Interest["info"] = {"scale", "duration"} /\ Interest["tracks"] = {"entry"}
      /\ Interest["entry"] = {"type", "video"} /\ Interest["video"] = {"width", "height"}
  BY DEF Interest
<1>3. \/ id = "segment" /\ w = "file"
      \/ id \in {"info", "tracks"} /\ w = "segment"
      \/ id = "entry" /\ w = "tracks"
      \/ id = "video" /\ w = "entry"
  BY <1>1, <1>2
<1>4. /\ Within["segment"] = "file" /\ Within["info"] = "segment"
      /\ Within["tracks"] = "segment" /\ Within["entry"] = "tracks"
      /\ Within["video"] = "entry"
  BY DEF Within
<1>5. id \in DOMAIN Within /\ id \in Walked["mkv"]
  BY DEF Within, Walked
<1> QED  BY <1>3, <1>4, <1>5

\* The innermost walk ends, and nothing else changes.
LEMMA PopForward ==
  ASSUME Sound(stack), stack # << >>
  PROVE  Sound(Front(stack)) /\ Forward(Front(stack))
<1>1. /\ Sound(Front(stack))
      /\ \A i \in DOMAIN stack \cap DOMAIN Front(stack) : Front(stack)[i] = stack[i]
  BY PopSound
<1>2. ASSUME NEW i \in DOMAIN stack
      PROVE  stack[i].off \in Int
  <2>1. stack[i] \in Frames
    BY InnermostWalk, ElementOfSeq DEF Sound
  <2> QED  BY <2>1 DEF Frames
<1> QED  BY <1>1, <1>2 DEF Forward

LEMMA PopFollows ==
  ASSUME Sound(stack), stack # << >>, Walk.in \notin {"info", "tracks"}
  PROVE  Sound(Front(stack)) /\ Follows(Front(stack))
<1>1. /\ \A i \in DOMAIN stack \cap DOMAIN Front(stack) : Front(stack)[i] = stack[i]
      /\ DOMAIN Front(stack) = 1 .. Len(stack) - 1
  BY PopSound
<1>2. /\ Len(stack) \in Nat \ {0} /\ DOMAIN stack = 1 .. Len(stack)
      /\ Walk = stack[Len(stack)]
  BY InnermostWalk
<1>3. ASSUME NEW i \in DOMAIN stack, stack[i].in \in {"info", "tracks"}
      PROVE  i \in DOMAIN Front(stack) /\ Front(stack)[i].in \in {"info", "tracks"}
  BY <1>1, <1>2, <1>3
<1>4. Reads(stack) => Reads(Front(stack))
  BY <1>3 DEF Reads
<1> QED  BY <1>4, PopForward DEF Follows

LEMMA GiveUpSound ==
  ASSUME Sound(stack), Looping, GiveUp
  PROVE  StepSound
<1>1. Walk.off \in Int /\ Walk.end \in Int /\ Walk.end >= Walk.off
  BY InnermostWalk DEF Looping, Frames
<1> QED  BY <1>1, MoveSound DEF GiveUp, Looping, StepSound

LEMMA PassBoxSound ==
  ASSUME TypeOK, Sound(stack), Looping,
         NEW type, NEW b \in Box(type, Walk.off, Walk.end), PassBox(b)
  PROVE  StepSound
BY BoxSound, MoveSound DEF PassBox, Looping, StepSound

LEMMA WalkBoxSound ==
  ASSUME TypeOK, Sound(stack), Looping, format = "mp4",
         NEW type \in {"trak", "mvex", "mdia"}, type \in Interesting[Walk.in],
         NEW b \in Box(type, Walk.off, Walk.end), WalkBox(b)
  PROVE  StepSound
<1> DEFINE x == Span(b.type, PayloadStart(b), End(b))
<1>1. /\ b.type = type
      /\ Behind(b) \in Int /\ Behind(b) >= Walk.off
      /\ PayloadStart(b) \in Int /\ PayloadStart(b) >= Walk.off
      /\ End(b) \in Int /\ End(b) <= Walk.end
  BY BoxSound
<1>2. Walk.in \in Walked["mp4"] /\ Walk.off \in Int /\ Walk.off >= 0
  BY InnermostWalk DEF Looping, Frames
<1>3. Within[type] = Walk.in /\ type \in DOMAIN Within /\ type \in Walked["mp4"]
  BY <1>2, WhereBoxesNest
<1>4. /\ x \in Frames /\ x.in = type /\ x.off = PayloadStart(b) /\ x.end = End(b)
  BY <1>1, <1>3 DEF Span, Frames
<1>5. x.off >= 0
  BY <1>1, <1>2, <1>4
<1> HIDE DEF x
<1>6. Sound(Nested(Behind(b), x)) /\ Follows(Nested(Behind(b), x))
  BY <1>1, <1>3, <1>4, <1>5, NestSound DEF Looping
<1> QED  BY <1>6 DEF WalkBox, StepSound, x

LEMMA PassElementSound ==
  ASSUME TypeOK, Sound(stack), Looping,
         NEW id, NEW e \in Element(id, Walk.off), PassElement(e)
  PROVE  StepSound
BY ElementSound, MoveSound DEF PassElement, Looping, StepSound

LEMMA WalkElementSound ==
  ASSUME TypeOK, Sound(stack), Looping, format = "mkv",
         NEW id \in {"segment", "info", "tracks", "entry", "video"},
         id \in Interest[Walk.in],
         NEW e \in Element(id, Walk.off), WalkElement(e)
  PROVE  /\ StepSound
         /\ \E i \in DOMAIN stack' : stack'[i].in = id
<1> DEFINE x == Span(e.id, e.start, e.end)
<1>1. /\ e.id = id
      /\ e.start \in Int /\ e.start >= Walk.off
      /\ e.end \in Int /\ e.end >= Walk.off /\ e.end <= Limit
  BY ElementSound DEF Looping
<1>2. Walk.in \in Walked["mkv"] /\ Walk.off \in Int /\ Walk.off >= 0
  BY InnermostWalk DEF Looping, Frames
<1>3. Within[id] = Walk.in /\ id \in DOMAIN Within /\ id \in Walked["mkv"]
  BY <1>2, WhereElementsNest
<1>4. x \in Frames /\ x.in = id /\ x.off = e.start /\ x.end = e.end
  BY <1>1, <1>3 DEF Span, Frames
<1>5. x.off >= 0
  BY <1>1, <1>2, <1>4
<1> HIDE DEF x
<1>6. /\ Sound(Nested(e.end, x)) /\ Follows(Nested(e.end, x))
      /\ \E i \in DOMAIN Nested(e.end, x) : Nested(e.end, x)[i] = x
  BY <1>1, <1>3, <1>4, <1>5, NestSound DEF Looping
<1>7. stack' = Nested(e.end, x)
  BY DEF WalkElement, x
<1> QED  BY <1>4, <1>6, <1>7 DEF StepSound

LEMMA PassChunkSound ==
  ASSUME TypeOK, Sound(stack), Looping,
         NEW c \in Chunk(Walk.off, Walk.end), PassChunk(c)
  PROVE  StepSound
BY ChunkSound, MoveSound DEF PassChunk, Looping, StepSound

LEMMA WalkListSound ==
  ASSUME TypeOK, Sound(stack), Looping, format = "avi",
         NEW c \in Chunk(Walk.off, Walk.end),
         NEW name \in {"hdrl", "strl"}, Within[name] = Walk.in, WalkList(c, name)
  PROVE  StepSound
<1> DEFINE x == Span(name, c.start + 1, c.end)
<1>1. /\ Beyond(c) \in Int /\ Beyond(c) >= Walk.off
      /\ c.start \in Int /\ c.start >= Walk.off
      /\ c.end \in Int /\ c.end <= Walk.end
  BY ChunkSound
<1>2. Walk.off \in Int /\ Walk.off >= 0
  BY InnermostWalk DEF Looping, Frames
<1>3. name \in DOMAIN Within /\ name \in Walked["avi"]
  BY DEF Walked, Within
<1>4. x \in Frames /\ x.in = name /\ x.off = c.start + 1 /\ x.end = c.end
  BY <1>1, <1>3 DEF Span, Frames
<1>5. x.off >= 0
  BY <1>1, <1>2, <1>4
<1> HIDE DEF x
<1>6. Sound(Nested(Beyond(c), x)) /\ Follows(Nested(Beyond(c), x))
  BY <1>1, <1>3, <1>4, <1>5, NestSound DEF Looping
<1> QED  BY <1>6 DEF WalkList, StepSound, x

-----------------------------------------------------------------------------
(* What the parsers have found. *)

Clocks == [scale : BOOLEAN, duration : 0 .. 1, fragments : 0 .. 2]
Tracks == [video : Nat, width : Places, height : Places, parts : Nat]
Sizes == [width : Places, height : Places, track : Nat]

Values ==
  /\ clock \in Clocks
  /\ trak \in Tracks
  /\ tracks \in Nat
  /\ dims \in Sizes
  /\ seen \subseteq {"info", "tracks"} /\ avih \in Places

LEMMA NothingToldYet ==
  /\ Unknown \in Places /\ Unknown.track = 0 /\ Unknown.plausible = FALSE
  /\ NoTrack \in Tracks
  /\ NoTrack.video = 0 /\ NoTrack.width = Unknown /\ NoTrack.height = Unknown
  /\ NoDims \in Sizes
<1>1. Unknown \in Places /\ Unknown.track = 0 /\ Unknown.plausible = FALSE
  BY DEF Unknown, Place, Places
<1> QED  BY <1>1 DEF NoTrack, NoDims, Tracks, Sizes

LEMMA NewTrackSound ==
  ASSUME NEW n \in Nat
  PROVE  OfTrack(NoTrack, n)
<1>1. \A side \in {"width", "height"} : NoTrack[side] = Unknown
  BY NothingToldYet
<1> QED  BY <1>1, NothingToldYet DEF OfTrack

\* The sizes kept when a track is over are those of one track, as long as they
\* are usable only if they have been told.
LEMMA ChoiceSound ==
  ASSUME Values, SizesSound, NEW usable \in BOOLEAN,
         usable => trak.width # Unknown /\ trak.height # Unknown,
         usable /\ format # "mkv" => trak.width.plausible
  PROVE  /\ ChosenTrack(usable) \in Sizes
         /\ ChosenTrack(usable) # NoDims => OfOneTrack(ChosenTrack(usable))
<1>1. CASE trak.video # 0 /\ dims = NoDims /\ usable
  <2> DEFINE d == [width |-> trak.width, height |-> trak.height, track |-> trak.video]
  <2>1. ChosenTrack(usable) = d
    BY <1>1 DEF ChosenTrack
  <2>2. d \in Sizes
    BY DEF Values, Tracks, Sizes
  <2>3. trak.video = tracks /\ (format # "mkv" => trak.width = trak.height)
    BY <1>1 DEF SizesSound, OfTrack
  <2>4. /\ trak.width.track = tracks /\ trak.height.track = tracks
        /\ format = "mkv" => trak.width.part = trak.parts /\ trak.height.part = trak.parts
    <3>1. \A side \in {"width", "height"} : trak[side] # Unknown =>
            /\ trak[side].track = tracks
            /\ format = "mkv" => trak[side].part = trak.parts
      BY DEF SizesSound, OfTrack
    <3>2. trak["width"] # Unknown /\ trak["height"] # Unknown
      BY <1>1
    <3> QED  BY <3>1, <3>2
  <2>5. OfOneTrack(d)
    BY <1>1, <2>3, <2>4 DEF OfOneTrack
  <2> QED  BY <2>1, <2>2, <2>5
<1>2. CASE ~(trak.video # 0 /\ dims = NoDims /\ usable)
  BY <1>2 DEF ChosenTrack, Values, SizesSound
<1> QED  BY <1>1, <1>2

LEMMA KeptSound ==
  ASSUME Values, SizesSound, UNCHANGED <<trak, tracks, dims, seen, avih>>, format' = format,
         clock' \in Clocks
  PROVE  Values' /\ SizesSound'
BY DEF Values, Tracks, Sizes, SizesSound, OfTrack, OfOneTrack

LEMMA ClockTyped ==
  ASSUME Values
  PROVE  /\ clock \in Clocks
         /\ \A scale \in BOOLEAN, d \in {0, 1} :
              /\ [clock EXCEPT !.scale = scale, !.duration = d] \in Clocks
              /\ [clock EXCEPT !.duration = d] \in Clocks
         /\ \A f \in {1, 2} : [clock EXCEPT !.fragments = f] \in Clocks
<1>1. {0, 1} \subseteq 0 .. 1 /\ {1, 2} \subseteq 0 .. 2
  OBVIOUS
<1>2. clock \in Clocks
  BY DEF Values
<1>3. ASSUME NEW scale \in BOOLEAN, NEW d \in 0 .. 1
      PROVE  /\ [clock EXCEPT !.scale = scale, !.duration = d] \in Clocks
             /\ [clock EXCEPT !.duration = d] \in Clocks
  BY <1>2 DEF Clocks
<1>4. ASSUME NEW f \in 0 .. 2
      PROVE  [clock EXCEPT !.fragments = f] \in Clocks
  BY <1>2 DEF Clocks
<1> QED  BY <1>1, <1>2, <1>3, <1>4

\* A new track starts with nothing.
LEMMA NewTrackKeepsSound ==
  ASSUME Values, SizesSound, UNCHANGED <<clock, dims, seen, avih>>, format' = format,
         trak' = NoTrack, tracks' = tracks + 1
  PROVE  Values' /\ SizesSound'
<1>1. tracks' \in Nat /\ Values'
  BY NothingToldYet DEF Values, Tracks, Sizes
<1>2. OfTrack(NoTrack, tracks')
  BY <1>1, NewTrackSound
<1> QED  BY <1>1, <1>2 DEF SizesSound, OfTrack, OfOneTrack

\* The running track tells something that is its own.
LEMMA ToldKeepsSound ==
  ASSUME Values, SizesSound, UNCHANGED <<clock, tracks, dims, seen, avih>>,
         format' = format,
         trak' \in Tracks,
         OfTrack(trak', tracks)
  PROVE  Values' /\ SizesSound'
BY DEF Values, Tracks, Sizes, SizesSound, OfTrack, OfOneTrack

\* A track is over, and its sizes may be chosen.
LEMMA ChoiceKeepsSound ==
  ASSUME Values, SizesSound, UNCHANGED <<clock, trak, tracks, seen, avih>>,
         format' = format,
         NEW usable \in BOOLEAN,
         usable => trak.width # Unknown /\ trak.height # Unknown,
         usable /\ format # "mkv" => trak.width.plausible,
         dims' \in {ChosenTrack(usable), dims}
  PROVE  Values' /\ SizesSound'
<1>1. /\ dims' \in Sizes
      /\ dims' # NoDims => OfOneTrack(dims')
  BY ChoiceSound DEF Values, Tracks, Sizes, SizesSound
<1> QED  BY <1>1 DEF Values, Tracks, Sizes, SizesSound, OfTrack, OfOneTrack

\* Which element said that the track is video.
LEMMA VideoKeepsSound ==
  ASSUME Values, SizesSound, UNCHANGED <<clock, tracks, dims, seen, avih>>,
         format' = format,
         NEW video \in {0, tracks}, trak' = [trak EXCEPT !.video = video]
  PROVE  Values' /\ SizesSound'
<1>1. trak' \in Tracks
  BY DEF Values, Tracks, Sizes
<1>2. OfTrack(trak', tracks)
  <2>1. /\ trak'.video = video /\ trak'.width = trak.width
        /\ trak'.height = trak.height /\ trak'.parts = trak.parts
    BY DEF Values, Tracks, Sizes
  <2>2. \A side \in {"width", "height"} : trak'[side] = trak[side]
    BY <2>1
  <2> QED  BY <2>1, <2>2 DEF OfTrack, SizesSound
<1> QED  BY <1>1, <1>2, ToldKeepsSound

\* Both sides are read in one place.
LEMMA BothSidesKeepSound ==
  ASSUME Values, SizesSound, UNCHANGED <<clock, tracks, dims, seen, avih>>,
         format' = format, format # "mkv",
         NEW size \in Places, size # Unknown => size.track = tracks,
         size # Unknown /\ format = "mp4" => size.plausible,
         trak' = [trak EXCEPT !.width = size, !.height = size]
  PROVE  Values' /\ SizesSound'
<1>1. trak' \in Tracks
  BY DEF Values, Tracks, Sizes
<1>2. OfTrack(trak', tracks)
  <2>1. /\ trak'.video = trak.video /\ trak'.width = size /\ trak'.height = size
    BY DEF Values, Tracks, Sizes
  <2>2. \A side \in {"width", "height"} : trak'[side] = size
    BY <2>1
  <2> QED  BY <2>1, <2>2 DEF OfTrack, SizesSound
<1> QED  BY <1>1, <1>2, ToldKeepsSound

-----------------------------------------------------------------------------
(* The steps of each parser. *)

\* What a step keeps.
Kept == Sound(stack') /\ Forward(stack') /\ Values' /\ SizesSound'

\* A walk over the file is made in no other.
LEMMA MovieIsSought ==
  ASSUME Sound(stack), stack # << >>, format = "mp4", Walk.in = "file"
  PROVE  Len(stack) = 1
<1> DEFINE n == Len(stack)
<1>1. n \in Nat \ {0} /\ stack[n].in = "file"
  BY InnermostWalk
<1>2. \A i \in 1 .. n : Fits(stack, i)
  BY DEF Sound
<1> HIDE DEF n
<1> SUFFICES ASSUME n # 1
             PROVE  FALSE
  BY DEF n
<1>3. n - 1 \in 1 .. n /\ n \in 1 .. n
  BY <1>1
<1>4. Fits(stack, n - 1) /\ Fits(stack, n)
  BY <1>2, <1>3
<1>5. Within["file"] = stack[n - 1].in
  BY <1>1, <1>4 DEF Fits
<1>6. stack[n - 1].in \in Walked["mp4"]
  BY <1>4 DEF Fits
<1> QED  BY <1>5, <1>6 DEF Walked, Within

LEMMA Mp4StepKeeps ==
  ASSUME IInv, format = "mp4", Mp4Next
  PROVE  Kept /\ UNCHANGED <<format, fileSize>>
<1> Sound(stack) /\ Values /\ SizesSound /\ TypeOK
  BY StackIsSound DEF IInv, TypeOK, Values, Clocks, Tracks, Sizes
<1>1. CASE BadBox
  <2>1. StepSound /\ UNCHANGED <<format, fileSize, found>>
    BY <1>1, GiveUpSound DEF BadBox, GiveUp
  <2> QED  BY <2>1, KeptSound DEF Kept, StepSound, Follows, found, Values
<1>2. CASE SkipBox
  <2>1. PICK b \in Box("other", Walk.off, Walk.end) : PassBox(b)
    BY <1>2 DEF SkipBox
  <2>2. Looping /\ UNCHANGED <<format, fileSize, found>>
    BY <1>2 DEF SkipBox
  <2>3. StepSound
    BY <2>1, <2>2, PassBoxSound
  <2> QED  BY <2>2, <2>3, KeptSound DEF Kept, StepSound, Follows, found, Values
<1>3. CASE FindMovie
  <2>1. PICK b \in Box("moov", Walk.off, Walk.end) :
          stack' = <<Span("moov", PayloadStart(b), End(b))>>
    BY <1>3 DEF FindMovie
  <2>2. Looping /\ Walk.in = "file" /\ UNCHANGED <<format, fileSize, found>>
    BY <1>3 DEF FindMovie
  <2>3. /\ PayloadStart(b) \in Int /\ PayloadStart(b) >= Walk.off
        /\ End(b) \in Int /\ End(b) <= Walk.end
    BY <2>2, BoxSound
  <2>4. /\ Len(stack) \in Nat \ {0} /\ DOMAIN stack = 1 .. Len(stack)
        /\ Walk = stack[Len(stack)] /\ Walk \in Frames
        /\ Walk.off >= 0 /\ Walk.end <= Bound(stack, Len(stack))
    BY <2>2, InnermostWalk DEF Looping
  <2>5. Len(stack) = 1
    BY <2>2, MovieIsSought DEF Looping
  <2>6. Walk.off \in Int /\ Walk.end \in Int /\ Walk.end <= fileSize
    BY <2>4, <2>5 DEF Frames, Bound
  <2> DEFINE x == Span("moov", PayloadStart(b), End(b))
  <2>7. /\ x \in Frames /\ x.in = "moov" /\ x.off = PayloadStart(b) /\ x.end = End(b)
    BY <2>3 DEF Span, Frames, Within
  <2>8. x.off >= 0 /\ x.end <= fileSize /\ x.off >= Walk.off
    <3>1. fileSize \in Int
      BY SizesAreInts
    <3> HIDE DEF x
    <3> QED  BY <2>3, <2>4, <2>6, <2>7, <3>1
  <2> HIDE DEF x
  <2>9. stack' = <<x>>
    BY <2>1 DEF x
  <2>10. /\ stack' \in Seq(Frames) /\ Len(stack') = 1 /\ stack'[1] = x
         /\ DOMAIN stack' = 1 .. 1
    BY <2>7, <2>9
  <2>11. Fits(stack', 1)
    <3>1. Within["moov"] = "none" /\ "moov" \in Walked["mp4"]
      BY DEF Within, Walked
    <3>2. Bound(stack', 1) = fileSize
      BY DEF Bound
    <3> QED  BY <2>7, <2>8, <2>10, <3>1, <3>2 DEF Fits
  <2>12. Sound(stack') /\ Forward(stack')
    BY <2>4, <2>5, <2>8, <2>10, <2>11 DEF Sound, Forward
  <2> QED  BY <2>2, <2>12, KeptSound DEF Kept, found, Values
<1>4. CASE EnterBox
  <2>1. PICK type \in {"trak", "mvex", "mdia"} \cap Interesting[Walk.in] :
          /\ \E b \in Box(type, Walk.off, Walk.end) : WalkBox(b)
          /\ trak' = IF type = "trak" THEN NoTrack ELSE trak
          /\ tracks' = IF type = "trak" THEN tracks + 1 ELSE tracks
    BY <1>4 DEF EnterBox
  <2>2. PICK b \in Box(type, Walk.off, Walk.end) : WalkBox(b)
    BY <2>1
  <2>3. Looping /\ UNCHANGED <<format, fileSize, clock, dims, seen, avih>>
    BY <1>4 DEF EnterBox
  <2>4. StepSound
    BY <2>2, <2>3, WalkBoxSound
  <2>5. Values' /\ SizesSound'
    <3>1. CASE type = "trak"
      BY <2>1, <2>3, <3>1, NewTrackKeepsSound
    <3>2. CASE type # "trak"
      BY <2>1, <2>3, <3>2, KeptSound DEF Values, Clocks
    <3> QED  BY <3>1, <3>2
  <2> QED  BY <2>3, <2>4, <2>5 DEF Kept, StepSound, Follows
<1>5. CASE MovieHeader
  <2>1. PICK b \in Box("mvhd", Walk.off, Walk.end), scale \in BOOLEAN, d \in {0, 1} :
          /\ PassBox(b)
          /\ clock' = IF HeadReadable(b, 4, 3)
                      THEN [clock EXCEPT !.scale = scale, !.duration = d] ELSE clock
    BY <1>5 DEF MovieHeader
  <2>2. Looping /\ UNCHANGED <<format, fileSize, trak, tracks, dims, seen, avih>>
    BY <1>5 DEF MovieHeader
  <2>3. StepSound
    BY <2>1, <2>2, PassBoxSound
  <2>4. clock' \in Clocks
    BY <2>1, ClockTyped
  <2> QED  BY <2>2, <2>3, <2>4, KeptSound DEF Kept, StepSound, Follows
<1>6. CASE FragmentHeader
  <2>1. PICK b \in Box("mehd", Walk.off, Walk.end), d \in {1, 2} :
          /\ PassBox(b)
          /\ clock' = IF HeadReadable(b, 2, 1) THEN [clock EXCEPT !.fragments = d] ELSE clock
    BY <1>6 DEF FragmentHeader
  <2>2. Looping /\ UNCHANGED <<format, fileSize, trak, tracks, dims, seen, avih>>
    BY <1>6 DEF FragmentHeader
  <2>3. StepSound
    BY <2>1, <2>2, PassBoxSound
  <2>4. clock' \in Clocks
    BY <2>1, ClockTyped
  <2> QED  BY <2>2, <2>3, <2>4, KeptSound DEF Kept, StepSound, Follows
<1>7. CASE TrackHeader
  <2>1. PICK b \in Box("tkhd", Walk.off, Walk.end), told \in BOOLEAN :
          LET size == IF told THEN Place(tracks, 1, TRUE) ELSE Unknown
          IN  /\ PassBox(b)
              /\ trak' = [trak EXCEPT !.width = size, !.height = size]
    BY <1>7 DEF TrackHeader
  <2>2. Looping /\ UNCHANGED <<format, fileSize, clock, tracks, dims, seen, avih>>
    BY <1>7 DEF TrackHeader
  <2>3. StepSound
    BY <2>1, <2>2, PassBoxSound
  <2> DEFINE size == IF told THEN Place(tracks, 1, TRUE) ELSE Unknown
  <2>4. /\ size \in Places
        /\ size # Unknown => size.track = tracks /\ size.plausible
    BY NothingToldYet DEF Place, Places, Values
  <2>5. Values' /\ SizesSound'
    <3>1. trak' = [trak EXCEPT !.width = size, !.height = size]
      BY <2>1
    <3> HIDE DEF size
    <3> QED  BY <2>2, <2>4, <3>1, BothSidesKeepSound
  <2> QED  BY <2>2, <2>3, <2>5 DEF Kept, StepSound, Follows
<1>8. CASE Handler
  <2>1. PICK b \in Box("hdlr", Walk.off, Walk.end), video \in {0, tracks} :
          /\ PassBox(b)
          /\ trak' = IF HeadReadable(b, 2, 2) THEN [trak EXCEPT !.video = video] ELSE trak
    BY <1>8 DEF Handler
  <2>2. Looping /\ UNCHANGED <<format, fileSize, clock, tracks, dims, seen, avih>>
    BY <1>8 DEF Handler
  <2>3. StepSound
    BY <2>1, <2>2, PassBoxSound
  <2>4. Values' /\ SizesSound'
    <3>1. CASE trak' = [trak EXCEPT !.video = video]
      BY <2>2, <3>1, VideoKeepsSound
    <3>2. CASE trak' = trak
      BY <2>2, <3>2, KeptSound DEF Values
    <3> QED  BY <2>1, <3>1, <3>2
  <2> QED  BY <2>2, <2>3, <2>4 DEF Kept, StepSound, Follows
<1>9. CASE EndBoxWalk
  <2>1. /\ stack # << >> /\ stack' = Front(stack)
        /\ dims' = IF Walk.in = "trak" THEN ChosenTrack(Told) ELSE dims
        /\ UNCHANGED <<format, fileSize, clock, trak, tracks, seen, avih>>
    BY <1>9 DEF EndBoxWalk, Ended
  <2>2. Walk.in \notin {"info", "tracks"}
    BY <2>1, InnermostWalk DEF Walked
  <2>3. Sound(stack') /\ Forward(stack')
    BY <2>1, <2>2, PopFollows DEF Follows
  <2>4. Values' /\ SizesSound'
    <3>1. Told \in BOOLEAN /\ (Told => trak.width # Unknown /\ trak.height # Unknown)
      BY DEF Told
    <3>2. Told => trak.width.plausible
      BY <3>1 DEF SizesSound, OfTrack
    <3>3. dims' \in {ChosenTrack(Told), dims}
      BY <2>1
    <3> QED  BY <2>1, <3>1, <3>2, <3>3, ChoiceKeepsSound
  <2> QED  BY <2>1, <2>3, <2>4 DEF Kept
<1> QED  BY <1>1, <1>2, <1>3, <1>4, <1>5, <1>6, <1>7, <1>8, <1>9 DEF Mp4Next

\* Once Info and Tracks have been seen, one of them is being read as long as
\* anything is, if the step looks at nothing new and all walks go on.
LEMMA ReadingGoesOn ==
  ASSUME NothingIsReadAfterBoth, stack # << >>, Follows(stack'), seen' = seen
  PROVE  NothingIsReadAfterBoth'
BY DEF NothingIsReadAfterBoth, Follows, Reads, done

LEMMA MatroskaStepKeeps ==
  ASSUME IInv, format = "mkv", MatroskaNext
  PROVE  Kept /\ NothingIsReadAfterBoth' /\ UNCHANGED <<format, fileSize>>
<1> Sound(stack) /\ Values /\ SizesSound /\ TypeOK /\ NothingIsReadAfterBoth
  BY StackIsSound DEF IInv, TypeOK, Values, Clocks, Tracks, Sizes
<1>1. CASE BadElement
  <2>1. Looping /\ StepSound /\ UNCHANGED <<format, fileSize, found>>
    BY <1>1, GiveUpSound DEF BadElement, GiveUp
  <2>2. NothingIsReadAfterBoth'
    BY <2>1, ReadingGoesOn DEF Looping, StepSound, found
  <2> QED  BY <2>1, <2>2, KeptSound DEF Kept, StepSound, Follows, found, Values
<1>2. CASE SkipElement
  <2>1. PICK e \in Element("other", Walk.off) : PassElement(e)
    BY <1>2 DEF SkipElement
  <2>2. Looping /\ UNCHANGED <<format, fileSize, found>>
    BY <1>2 DEF SkipElement
  <2>3. StepSound
    BY <2>1, <2>2, PassElementSound
  <2>4. NothingIsReadAfterBoth'
    BY <2>2, <2>3, ReadingGoesOn DEF Looping, StepSound, found
  <2> QED  BY <2>2, <2>3, <2>4, KeptSound DEF Kept, StepSound, Follows, found, Values
<1>3. CASE EnterElement
  <2>1. PICK id \in {"segment", "info", "tracks"} \cap Interest[Walk.in] :
          /\ \E e \in Element(id, Walk.off) : WalkElement(e)
          /\ seen' = IF id = "segment" THEN seen ELSE seen \cup {id}
    BY <1>3 DEF EnterElement
  <2>2. PICK e \in Element(id, Walk.off) : WalkElement(e)
    BY <2>1
  <2>3. Looping /\ UNCHANGED <<format, fileSize, clock, trak, tracks, dims, avih>>
    BY <1>3 DEF EnterElement
  <2>4. StepSound /\ \E i \in DOMAIN stack' : stack'[i].in = id
    BY <2>2, <2>3, WalkElementSound
  <2>5. Values' /\ SizesSound'
    <3>1. seen' \subseteq {"info", "tracks"}
      BY <2>1 DEF Values
    <3> QED  BY <2>3, <3>1 DEF Values, SizesSound, OfTrack, OfOneTrack
  <2>6. NothingIsReadAfterBoth'
    <3>1. CASE id = "segment"
      BY <2>1, <2>3, <2>4, <3>1, ReadingGoesOn DEF Looping, StepSound
    <3>2. CASE id \in {"info", "tracks"}
      BY <2>4, <3>2 DEF NothingIsReadAfterBoth
    <3> QED  BY <3>1, <3>2
  <2> QED  BY <2>3, <2>4, <2>5, <2>6 DEF Kept, StepSound, Follows
<1>4. CASE EnterEntry
  <2>1. PICK e \in Element("entry", Walk.off) : WalkElement(e)
    BY <1>4 DEF EnterEntry
  <2>2. /\ Looping /\ Walk.in = "tracks" /\ trak' = NoTrack /\ tracks' = tracks + 1
        /\ UNCHANGED <<format, fileSize, clock, dims, seen, avih>>
    BY <1>4 DEF EnterEntry
  <2>3. "entry" \in Interest[Walk.in]
    BY <2>2 DEF Interest
  <2>4. StepSound
    BY <2>1, <2>2, <2>3, WalkElementSound
  <2>5. Values' /\ SizesSound'
    BY <2>2, NewTrackKeepsSound
  <2>6. NothingIsReadAfterBoth'
    BY <2>2, <2>4, ReadingGoesOn DEF Looping, StepSound
  <2> QED  BY <2>2, <2>4, <2>5, <2>6 DEF Kept, StepSound, Follows
<1>5. CASE EnterVideo
  <2>1. PICK e \in Element("video", Walk.off) : WalkElement(e)
    BY <1>5 DEF EnterVideo
  <2>2. /\ Looping /\ Walk.in = "entry"
        /\ trak' = [trak EXCEPT !.parts = @ + 1, !.width = Unknown, !.height = Unknown]
        /\ UNCHANGED <<format, fileSize, clock, tracks, dims, seen, avih>>
    BY <1>5 DEF EnterVideo
  <2>3. "video" \in Interest[Walk.in]
    BY <2>2 DEF Interest
  <2>4. StepSound
    BY <2>1, <2>2, <2>3, WalkElementSound
  <2>5. Values' /\ SizesSound'
    <3>1. trak.parts + 1 \in Nat /\ trak \in Tracks
      BY DEF Values, Tracks
    <3>2. /\ trak' \in Tracks /\ trak'.video = trak.video
          /\ trak'.width = Unknown /\ trak'.height = Unknown
      BY <2>2, <3>1, NothingToldYet DEF Tracks
    <3>3. \A side \in {"width", "height"} : trak'[side] = Unknown
      BY <3>2
    <3>4. OfTrack(trak', tracks)
      BY <3>2, <3>3 DEF OfTrack, SizesSound
    <3> QED  BY <2>2, <3>2, <3>4, ToldKeepsSound
  <2>6. NothingIsReadAfterBoth'
    BY <2>2, <2>4, ReadingGoesOn DEF Looping, StepSound
  <2> QED  BY <2>2, <2>4, <2>5, <2>6 DEF Kept, StepSound, Follows
<1>6. CASE InfoField
  <2>1. PICK id \in Interest.info : \E e \in Element(id, Walk.off) :
          /\ PassElement(e)
          /\ \E read \in Value(e), d \in {0, 1} :
               clock' = IF read /\ id = "duration" THEN [clock EXCEPT !.duration = d] ELSE clock
    BY <1>6 DEF InfoField
  <2>2. Looping /\ UNCHANGED <<format, fileSize, trak, tracks, dims, seen, avih>>
    BY <1>6 DEF InfoField
  <2>3. StepSound
    BY <2>1, <2>2, PassElementSound
  <2>4. clock' \in Clocks
    BY <2>1, ClockTyped
  <2>5. NothingIsReadAfterBoth'
    BY <2>2, <2>3, ReadingGoesOn DEF Looping, StepSound
  <2> QED  BY <2>2, <2>3, <2>4, <2>5, KeptSound DEF Kept, StepSound, Follows
<1>7. CASE TrackType
  <2>1. PICK e \in Element("type", Walk.off) :
          /\ PassElement(e)
          /\ \E read \in Value(e), video \in {0, tracks} :
               trak' = IF read THEN [trak EXCEPT !.video = video] ELSE trak
    BY <1>7 DEF TrackType
  <2>2. Looping /\ UNCHANGED <<format, fileSize, clock, tracks, dims, seen, avih>>
    BY <1>7 DEF TrackType
  <2>3. StepSound
    BY <2>1, <2>2, PassElementSound
  <2>4. Values' /\ SizesSound'
    <3>1. PICK video \in {0, tracks} : trak' \in {[trak EXCEPT !.video = video], trak}
      BY <2>1
    <3>2. CASE trak' = [trak EXCEPT !.video = video]
      BY <2>2, <3>2, VideoKeepsSound
    <3>3. CASE trak' = trak
      BY <2>2, <3>3, KeptSound DEF Values
    <3> QED  BY <3>1, <3>2, <3>3
  <2>5. NothingIsReadAfterBoth'
    BY <2>2, <2>3, ReadingGoesOn DEF Looping, StepSound
  <2> QED  BY <2>2, <2>3, <2>4, <2>5 DEF Kept, StepSound, Follows
<1>8. CASE PixelSize
  <2>1. PICK side \in Interest.video, plausible \in BOOLEAN : \E e \in Element(side, Walk.off) :
          /\ PassElement(e)
          /\ \E read \in Value(e), some \in {Place(tracks, trak.parts, plausible), Unknown} :
               trak' = IF read THEN [trak EXCEPT ![side] = some] ELSE trak
    BY <1>8 DEF PixelSize
  <2>2. Looping /\ UNCHANGED <<format, fileSize, clock, tracks, dims, seen, avih>>
    BY <1>8 DEF PixelSize
  <2>3. StepSound
    BY <2>1, <2>2, PassElementSound
  <2>4. Values' /\ SizesSound'
    <3>1. PICK some \in {Place(tracks, trak.parts, plausible), Unknown} :
            trak' \in {[trak EXCEPT ![side] = some], trak}
      BY <2>1
    <3>2. CASE trak' = [trak EXCEPT ![side] = some]
      <4>1. side \in {"width", "height"}
        BY DEF Interest
      <4>2. /\ some \in Places
            /\ some # Unknown => some.track = tracks /\ some.part = trak.parts
        BY NothingToldYet DEF Place, Places, Values, Tracks
      <4>3. trak' \in Tracks
        BY <3>2, <4>1, <4>2 DEF Values, Tracks
      <4>4. /\ trak'.video = trak.video /\ trak'.parts = trak.parts
            /\ \A other \in {"width", "height"} : trak'[other] \in {some, trak[other]}
        BY <3>2, <4>1 DEF Values, Tracks
      <4>5. OfTrack(trak', tracks)
        BY <4>2, <4>4 DEF OfTrack, SizesSound
      <4> QED  BY <2>2, <4>3, <4>5, ToldKeepsSound
    <3>3. CASE trak' = trak
      BY <2>2, <3>3, KeptSound DEF Values
    <3> QED  BY <3>1, <3>2, <3>3
  <2>5. NothingIsReadAfterBoth'
    BY <2>2, <2>3, ReadingGoesOn DEF Looping, StepSound
  <2> QED  BY <2>2, <2>3, <2>4, <2>5 DEF Kept, StepSound, Follows
<1>9. CASE EndElementWalk
  <2>1. /\ stack # << >> /\ stack' = Return
        /\ dims' = IF Walk.in = "entry" THEN ChosenTrack(Told) ELSE dims
        /\ UNCHANGED <<format, fileSize, clock, trak, tracks, seen, avih>>
    BY <1>9 DEF EndElementWalk, Ended
  <2>2. Values' /\ SizesSound'
    <3>1. Told \in BOOLEAN /\ (Told => trak.width # Unknown /\ trak.height # Unknown)
      BY DEF Told
    <3>2. dims' \in {ChosenTrack(Told), dims}
      BY <2>1
    <3> QED  BY <2>1, <3>1, <3>2, ChoiceKeepsSound
  <2>3. Sound(stack') /\ Forward(stack') /\ NothingIsReadAfterBoth'
    <3>1. CASE done /\ Walk.in \in {"info", "tracks"}
      <4>1. stack' = << >>
        BY <2>1, <3>1 DEF Return
      <4> QED  BY <4>1, EmptySeq DEF Sound, Forward, NothingIsReadAfterBoth
    <3>2. CASE Walk.in \notin {"info", "tracks"}
      <4>1. Sound(stack') /\ Follows(stack')
        BY <2>1, <3>2, PopFollows DEF Return
      <4> QED  BY <2>1, <4>1, ReadingGoesOn DEF Follows
    <3>3. CASE ~done
      <4>1. stack' = Front(stack)
        BY <2>1, <3>3 DEF Return
      <4>2. ~done'
        BY <2>1, <3>3 DEF done
      <4>3. Sound(stack') /\ Forward(stack')
        BY <2>1, <4>1, PopForward
      <4> QED  BY <4>2, <4>3 DEF NothingIsReadAfterBoth
    <3> QED  BY <3>1, <3>2, <3>3
  <2> QED  BY <2>1, <2>2, <2>3 DEF Kept
<1> QED  BY <1>1, <1>2, <1>3, <1>4, <1>5, <1>6, <1>7, <1>8, <1>9 DEF MatroskaNext

LEMMA RiffStepKeeps ==
  ASSUME IInv, format = "avi", RiffNext
  PROVE  Kept /\ UNCHANGED <<format, fileSize>>
<1> Sound(stack) /\ Values /\ SizesSound /\ TypeOK
  BY StackIsSound DEF IInv, TypeOK, Values, Clocks, Tracks, Sizes
<1>1. CASE BadChunk
  <2>1. StepSound /\ UNCHANGED <<format, fileSize, found>>
    BY <1>1, GiveUpSound DEF BadChunk, GiveUp
  <2> QED  BY <2>1, KeptSound DEF Kept, StepSound, Follows, found, Values
<1>2. CASE SkipChunk
  <2>1. PICK c \in Chunk(Walk.off, Walk.end) : PassChunk(c)
    BY <1>2 DEF SkipChunk
  <2>2. Looping /\ UNCHANGED <<format, fileSize, found>>
    BY <1>2 DEF SkipChunk
  <2>3. StepSound
    BY <2>1, <2>2, PassChunkSound
  <2> QED  BY <2>2, <2>3, KeptSound DEF Kept, StepSound, Follows, found, Values
<1>3. CASE MainHeader
  <2>1. PICK c \in Chunk(Walk.off, Walk.end), timed \in BOOLEAN, size \in
               {Unknown, Place(0, 1, TRUE), Place(0, 1, FALSE)} :
          /\ PassChunk(c)
          /\ clock' = [clock EXCEPT !.scale = timed, !.duration = 1]
          /\ avih' = size
    BY <1>3 DEF MainHeader
  <2>2. Looping /\ UNCHANGED <<format, fileSize, trak, tracks, dims, seen>>
    BY <1>3 DEF MainHeader
  <2>3. StepSound
    BY <2>1, <2>2, PassChunkSound
  <2>4. clock' \in Clocks
    BY <2>1, ClockTyped
  <2>5. avih' \in Places /\ avih'.track = 0
    <3>1. \A p \in BOOLEAN : Place(0, 1, p) \in Places /\ Place(0, 1, p).track = 0
      BY DEF Place, Places
    <3> QED  BY <2>1, <3>1, NothingToldYet
  <2>6. Values' /\ SizesSound'
    BY <2>2, <2>4, <2>5 DEF Values, SizesSound, OfTrack, OfOneTrack
  <2> QED  BY <2>2, <2>3, <2>6 DEF Kept, StepSound, Follows
<1>4. CASE EnterHeaderList
  <2>1. PICK c \in Chunk(Walk.off, Walk.end) : WalkList(c, "hdrl")
    BY <1>4 DEF EnterHeaderList
  <2>2. Looping /\ Walk.in = "riff" /\ UNCHANGED <<format, fileSize, found>>
    BY <1>4 DEF EnterHeaderList
  <2>3. Within["hdrl"] = Walk.in
    BY <2>2 DEF Within
  <2>4. StepSound
    BY <2>1, <2>2, <2>3, WalkListSound
  <2> QED  BY <2>2, <2>4, KeptSound DEF Kept, StepSound, Follows, found, Values
<1>5. CASE EnterStream
  <2>1. PICK c \in Chunk(Walk.off, Walk.end) : WalkList(c, "strl")
    BY <1>5 DEF EnterStream
  <2>2. /\ Looping /\ Walk.in = "hdrl" /\ trak' = NoTrack /\ tracks' = tracks + 1
        /\ UNCHANGED <<format, fileSize, clock, dims, seen, avih>>
    BY <1>5 DEF EnterStream
  <2>3. Within["strl"] = Walk.in
    BY <2>2 DEF Within
  <2>4. StepSound
    BY <2>1, <2>2, <2>3, WalkListSound
  <2>5. Values' /\ SizesSound'
    BY <2>2, NewTrackKeepsSound
  <2> QED  BY <2>2, <2>4, <2>5 DEF Kept, StepSound, Follows
<1>6. CASE StreamHeader
  <2>1. PICK c \in Chunk(Walk.off, Walk.end), video \in {0, tracks} :
          /\ PassChunk(c)
          /\ trak' = [trak EXCEPT !.video = IF NamedAt(c) THEN video ELSE 0]
    BY <1>6 DEF StreamHeader
  <2>2. Looping /\ UNCHANGED <<format, fileSize, clock, tracks, dims, seen, avih>>
    BY <1>6 DEF StreamHeader
  <2>3. StepSound
    BY <2>1, <2>2, PassChunkSound
  <2>4. PICK told \in {0, tracks} : trak' = [trak EXCEPT !.video = told]
    BY <2>1
  <2>5. Values' /\ SizesSound'
    BY <2>2, <2>4, VideoKeepsSound
  <2> QED  BY <2>2, <2>3, <2>5 DEF Kept, StepSound, Follows
<1>7. CASE StreamFormat
  <2>1. PICK c \in Chunk(Walk.off, Walk.end), plausible \in BOOLEAN :
          LET size == Place(tracks, 1, plausible)
          IN  /\ PassChunk(c)
              /\ trak' = [trak EXCEPT !.width = size, !.height = size]
    BY <1>7 DEF StreamFormat
  <2>2. Looping /\ UNCHANGED <<format, fileSize, clock, tracks, dims, seen, avih>>
    BY <1>7 DEF StreamFormat
  <2>3. StepSound
    BY <2>1, <2>2, PassChunkSound
  <2> DEFINE size == Place(tracks, 1, plausible)
  <2>4. size \in Places /\ size.track = tracks
    BY DEF Place, Places, Values
  <2>5. trak' = [trak EXCEPT !.width = size, !.height = size]
    BY <2>1
  <2> HIDE DEF size
  <2>6. Values' /\ SizesSound'
    BY <2>2, <2>4, <2>5, BothSidesKeepSound
  <2> QED  BY <2>2, <2>3, <2>6 DEF Kept, StepSound, Follows
<1>8. CASE EndChunkWalk
  <2> DEFINE usable == trak.width.plausible /\ trak.height.plausible
  <2>1. /\ stack # << >> /\ stack' = Front(stack)
        /\ dims' = IF Walk.in = "strl" THEN ChosenTrack(usable) ELSE dims
        /\ UNCHANGED <<format, fileSize, clock, trak, tracks, seen, avih>>
    BY <1>8 DEF EndChunkWalk, Ended
  <2>2. Sound(stack') /\ Forward(stack')
    BY <2>1, PopForward
  <2>3. Values' /\ SizesSound'
    <3>1. usable \in BOOLEAN /\ (usable => trak.width.plausible)
      OBVIOUS
    <3>2. usable => trak.width # Unknown /\ trak.height # Unknown
      BY NothingToldYet
    <3>3. dims' \in {ChosenTrack(usable), dims}
      BY <2>1
    <3> HIDE DEF usable
    <3> QED  BY <2>1, <3>1, <3>2, <3>3, ChoiceKeepsSound
  <2> QED  BY <2>1, <2>2, <2>3 DEF Kept
<1> QED  BY <1>1, <1>2, <1>3, <1>4, <1>5, <1>6, <1>7, <1>8 DEF RiffNext

-----------------------------------------------------------------------------
(* ProbeFile. *)

LEMMA InitIInv ==
  Init => IInv
<1> SUFFICES ASSUME Init
             PROVE  IInv
  OBVIOUS
<1>1. /\ fileSize \in FileSizes /\ format = "unread" /\ stack = << >> /\ tracks = 0
      /\ clock = [scale |-> FALSE, duration |-> 0, fragments |-> 0]
      /\ trak = NoTrack /\ dims = NoDims /\ seen = {} /\ avih = Unknown
  BY DEF Init
<1>2. stack \in Seq(Frames) /\ DOMAIN stack = {}
  BY <1>1, EmptySeq
<1>3. clock \in [scale : BOOLEAN, duration : 0 .. 1, fragments : 0 .. 2]
  BY <1>1
<1>4. TypeOK
  BY <1>1, <1>2, <1>3, NothingToldYet DEF TypeOK, Frames, Tracks, Sizes
<1>5. OwnWalks /\ WalksStayInside /\ NothingIsReadAfterBoth
  BY <1>1, <1>2 DEF OwnWalks, WalksStayInside, NothingIsReadAfterBoth
<1>6. SizesSound
  BY <1>1, NewTrackSound, NothingToldYet DEF SizesSound
<1> QED  BY <1>1, <1>4, <1>5, <1>6 DEF IInv

LEMMA SpanIsFrame ==
  ASSUME NEW in \in DOMAIN Within, NEW off \in Int, NEW end \in Int
  PROVE  /\ Span(in, off, end) \in Frames
         /\ Span(in, off, end).in = in
         /\ Span(in, off, end).off = off
         /\ Span(in, off, end).end = end
BY DEF Span, Frames

\* The first walk is made over the file, or what of it RIFF declares.
Begun(s, parser) ==
  /\ s \in Seq(Frames) /\ DOMAIN s = {1}
  /\ Within[s[1].in] = "none" /\ s[1].in \in Walked[parser]
  /\ s[1].off >= 0
  /\ s[1].end <= IF parser = "mkv" THEN Limit ELSE fileSize

LEMMA FirstWalkSound ==
  ASSUME NEW in \in DOMAIN Within, NEW off \in Int, NEW end \in Int, NEW parser,
         Within[in] = "none", in \in Walked[parser], off >= 0,
         end <= IF parser = "mkv" THEN Limit ELSE fileSize
  PROVE  Begun(<<Span(in, off, end)>>, parser)
<1> DEFINE x == Span(in, off, end)
           s == <<x>>
<1>1. x \in Frames /\ x.in = in /\ x.off = off /\ x.end = end
  BY SpanIsFrame
<1> HIDE DEF x
<1>2. s \in Seq(Frames) /\ s[1] = x
  BY <1>1
<1>3. DOMAIN s = {1}
  OBVIOUS
<1> HIDE DEF s
<1>4. Begun(s, parser)
  BY <1>1, <1>2, <1>3 DEF Begun
<1> QED  BY <1>4 DEF s, x

LEMMA BeginningSound ==
  ASSUME TypeOK, NEW parser \in {"mp4", "mkv", "avi", "none"}, NEW magic,
         NEW s \in Beginning(parser, magic)
  PROVE  s = << >> \/ Begun(s, parser)
<1>1. fileSize \in Nat /\ Limit \in Nat
  BY SizesAreInts
<1>2. /\ Within["file"] = "none" /\ Within["riff"] = "none"
      /\ "file" \in Walked["mp4"] /\ "file" \in Walked["mkv"] /\ "riff" \in Walked["avi"]
      /\ "file" \in DOMAIN Within /\ "riff" \in DOMAIN Within
  BY DEF Within, Walked
<1>3. CASE parser = "mp4"
  <2>1. s = <<Span("file", 0, fileSize)>>
    BY <1>3 DEF Beginning
  <2> QED  BY <1>1, <1>2, <1>3, <2>1, FirstWalkSound
<1>4. CASE parser = "mkv"
  <2>1. s = <<Span("file", 0, Limit)>>
    BY <1>4 DEF Beginning
  <2> QED  BY <1>1, <1>2, <1>4, <2>1, FirstWalkSound
<1>5. CASE parser = "avi" /\ magic = "avi"
  <2>1. PICK end \in 1 .. fileSize : s = <<Span("riff", 1, end)>>
    BY <1>5 DEF Beginning
  <2> QED  BY <1>1, <1>2, <1>5, <2>1, FirstWalkSound
<1>6. CASE parser = "none" \/ (parser = "avi" /\ magic # "avi")
  BY <1>6 DEF Beginning
<1> QED  BY <1>3, <1>4, <1>5, <1>6

LEMMA ProbeFileKeeps ==
  ASSUME IInv, ProbeFile
  PROVE  IInv' /\ Forward(stack')
<1>1. PICK magic \in Magics, ext \in Extensions :
        /\ format' = Chosen(magic, ext)
        /\ stack' \in Beginning(format', magic)
        /\ clock' = [clock EXCEPT !.scale = (format' = "mkv")]
  BY DEF ProbeFile
<1>2. /\ format = "unread" /\ UNCHANGED <<fileSize, trak, tracks, dims, seen, avih>>
      /\ trak = NoTrack /\ dims = NoDims /\ seen = {}
  BY DEF ProbeFile, IInv
<1>3. format' \in {"mp4", "mkv", "avi", "none"}
  BY <1>1 DEF Chosen, Magics, Extensions
<1>4. TypeOK /\ Values /\ SizesSound
  BY DEF IInv, TypeOK, Values, Clocks, Tracks, Sizes
<1>5. stack' = << >> \/ Begun(stack', format')
  BY <1>1, <1>3, <1>4, BeginningSound
<1>6. Limit' = Limit
  BY <1>2 DEF Limit
<1>7. clock' \in Clocks
  BY <1>1, <1>4 DEF Values, Clocks
<1>8. TypeOK' /\ OwnWalks' /\ WalksStayInside'
  <2>1. stack' \in Seq(Frames)
    BY <1>5, EmptySeq DEF Begun
  <2>2. \A i \in DOMAIN stack' :
          /\ Within[stack'[i].in] = IF i = 1 THEN "none" ELSE stack'[i - 1].in
          /\ stack'[i].in \in Walked[format']
          /\ stack'[i].off >= 0
          /\ stack'[i].end <= IF format' = "mkv" THEN Limit'
                              ELSE IF i = 1 THEN fileSize' ELSE stack'[i - 1].end
    <3> SUFFICES ASSUME NEW i \in DOMAIN stack'
                 PROVE  /\ Within[stack'[i].in] = IF i = 1 THEN "none" ELSE stack'[i - 1].in
                        /\ stack'[i].in \in Walked[format']
                        /\ stack'[i].off >= 0
                        /\ stack'[i].end <= IF format' = "mkv" THEN Limit'
                                            ELSE IF i = 1 THEN fileSize' ELSE stack'[i - 1].end
      OBVIOUS
    <3>1. Begun(stack', format')
      BY <1>5
    <3>2. i = 1
      BY <3>1 DEF Begun
    <3> QED  BY <1>2, <1>6, <3>1, <3>2 DEF Begun
  <2>3. OwnWalks' /\ WalksStayInside'
    BY <2>2 DEF OwnWalks, WalksStayInside
  <2> QED  BY <1>2, <1>3, <1>4, <1>7, <2>1, <2>2, <2>3 DEF TypeOK, Frames, Clocks
<1>9. SizesSound'
  <2>1. OfTrack(NoTrack, tracks)'
    BY <1>2, <1>4, NothingToldYet DEF OfTrack, Values
  <2> QED  BY <1>2, <1>4, <2>1 DEF SizesSound
<1>10. NothingIsReadAfterBoth'
  BY <1>2 DEF NothingIsReadAfterBoth, done
<1>11. Forward(stack')
  <2>1. DOMAIN stack = {}
    BY <1>2 DEF IInv, OwnWalks, Walked
  <2> QED  BY <2>1 DEF Forward
<1> QED  BY <1>3, <1>8, <1>9, <1>10, <1>11 DEF IInv

LEMMA NextIInv ==
  ASSUME IInv, Next
  PROVE  IInv' /\ Forward(stack')
<1>1. CASE ProbeFile
  BY <1>1, ProbeFileKeeps
<1>2. ASSUME Kept, UNCHANGED <<format, fileSize>>, NothingIsReadAfterBoth',
             format # "unread"
      PROVE  IInv' /\ Forward(stack')
  <2>1. /\ stack' \in Seq(Frames) /\ DOMAIN stack' = 1 .. Len(stack')
        /\ \A i \in 1 .. Len(stack') : Fits(stack', i)
    BY <1>2, LenProperties DEF Kept, Sound
  <2>2. Limit' = Limit
    BY <1>2 DEF Limit
  <2>3. TypeOK' /\ OwnWalks' /\ WalksStayInside'
    <3>1. \A i \in DOMAIN stack' :
            /\ Within[stack'[i].in] = IF i = 1 THEN "none" ELSE stack'[i - 1].in
            /\ stack'[i].in \in Walked[format']
            /\ stack'[i].off >= 0
            /\ stack'[i].end <= IF format' = "mkv" THEN Limit'
                                ELSE IF i = 1 THEN fileSize' ELSE stack'[i - 1].end
      BY <1>2, <2>1, <2>2 DEF Fits, Bound
    <3>2. OwnWalks' /\ WalksStayInside'
      BY <3>1 DEF OwnWalks, WalksStayInside
    <3>3. Values' /\ TypeOK
      BY <1>2 DEF Kept, IInv
    <3> QED  BY <1>2, <2>1, <3>1, <3>2, <3>3 DEF TypeOK, Frames, Values, Clocks, Tracks, Sizes
  <2> QED  BY <1>2, <2>3 DEF Kept, IInv
<1>3. CASE format = "mp4" /\ Mp4Next
  <2>1. Kept /\ UNCHANGED <<format, fileSize>>
    BY <1>3, Mp4StepKeeps
  <2>2. NothingIsReadAfterBoth'
    BY <1>3, <2>1 DEF Kept, SizesSound, NothingIsReadAfterBoth, done
  <2> QED  BY <1>2, <1>3, <2>1, <2>2
<1>4. CASE format = "mkv" /\ MatroskaNext
  BY <1>2, <1>4, MatroskaStepKeeps
<1>5. CASE format = "avi" /\ RiffNext
  <2>1. Kept /\ UNCHANGED <<format, fileSize>>
    BY <1>5, RiffStepKeeps
  <2>2. NothingIsReadAfterBoth'
    BY <1>5, <2>1 DEF Kept, SizesSound, NothingIsReadAfterBoth, done
  <2> QED  BY <1>2, <1>5, <2>1, <2>2
<1> QED  BY <1>1, <1>3, <1>4, <1>5 DEF Next

(***************************************************************************)
(* The invariant holds in every state: the stack is sound and what has     *)
(* been found comes from one track, whatever the file holds.               *)
(***************************************************************************)
THEOREM InvariantHolds == Spec => []IInv
<1>1. Init => IInv
  BY InitIInv
<1>2. IInv /\ [Next]_vars => IInv'
  <2> SUFFICES ASSUME IInv, [Next]_vars
               PROVE  IInv'
    OBVIOUS
  <2>1. CASE Next
    BY <2>1, NextIInv
  <2>2. CASE UNCHANGED vars
    BY <2>2 DEF vars, found, IInv, TypeOK, OwnWalks, WalksStayInside, SizesSound, OfTrack,
                OfOneTrack, NothingIsReadAfterBoth, done, Limit
  <2> QED  BY <2>1, <2>2
<1> QED  BY <1>1, <1>2, PTL DEF Spec

(***************************************************************************)
(* Every variable of the parsers keeps its type, and each walk is made in  *)
(* the one the callers make it in.                                         *)
(***************************************************************************)
THEOREM TypeCorrect == Spec => []TypeOK
<1>1. IInv => TypeOK
  BY DEF IInv
<1> QED  BY <1>1, InvariantHolds, PTL

(***************************************************************************)
(* readMP4Box, readElement, aviWalkChunks: for every width of an offset    *)
(* and every size, overflowing ones too, no walk leaves the file.          *)
(***************************************************************************)
THEOREM NoWalkLeavesTheFile == Spec => []WalksStayInside
<1>1. IInv => WalksStayInside
  BY DEF IInv
<1> QED  BY <1>1, InvariantHolds, PTL

(***************************************************************************)
(* parseTrak, parseMKVTrackEntry, aviWalkStrl: the width and the height    *)
(* reported were read in one place of one track that said it is video.     *)
(***************************************************************************)
THEOREM SizesBelongTogether == Spec => []DimensionsAreOfOneVideoTrack
<1>1. ASSUME IInv
      PROVE  DimensionsAreOfOneVideoTrack
  <2>1. /\ dims \in [width : Places, height : Places, track : Nat] /\ avih \in Places
        /\ SizesSound
    BY <1>1 DEF IInv, TypeOK
  <2>2. /\ dims # NoDims => OfOneTrack(dims)
        /\ avih.track = 0
    BY <2>1 DEF SizesSound
  <2> SUFFICES ASSUME Reported # NoDims
               PROVE  /\ Reported.width = Reported.height
                      /\ Reported.width.track = Reported.track
                      /\ Reported.track = 0 => format = "avi"
                      /\ Reported.track # 0 => Reported.width.plausible
    BY DEF DimensionsAreOfOneVideoTrack
  <2>3. CASE format = "mkv"
    <3>1. Reported = MatroskaDims
      BY <2>3 DEF Reported
    <3>2. Reported = dims /\ dims.width.plausible /\ dims.height.plausible
      BY <3>1 DEF MatroskaDims
    <3>3. OfOneTrack(dims)
      BY <2>2, <3>2
    <3>4. dims.width = dims.height
      <4> DEFINE w == dims.width
                 h == dims.height
      <4>1. w \in Places /\ h \in Places
        BY <2>1
      <4>2. w.track = h.track /\ w.part = h.part /\ w.plausible = TRUE /\ h.plausible = TRUE
        BY <2>1, <3>2, <3>3 DEF OfOneTrack, Places
      <4> HIDE DEF w, h
      <4>3. w = h
        BY <4>1, <4>2 DEF Places
      <4> QED  BY <4>3 DEF w, h
    <3> QED  BY <3>2, <3>3, <3>4 DEF OfOneTrack
  <2>4. CASE format # "mkv" /\ Reported = dims
    BY <2>2, <2>4 DEF OfOneTrack
  <2>5. CASE format = "avi" /\ Reported # dims
    <3>1. Reported = [width |-> avih, height |-> avih, track |-> 0]
      BY <2>5 DEF Reported, RiffDims
    <3> QED  BY <2>2, <2>5, <3>1
  <2>6. format \notin {"mkv", "avi"} => Reported = dims
    BY DEF Reported
  <2> QED  BY <2>3, <2>4, <2>5, <2>6
<1> QED  BY <1>1, InvariantHolds, PTL

(***************************************************************************)
(* parseMKVSegment: once Info and Tracks have been seen nothing is read    *)
(* but what is left of the second of them.                                 *)
(***************************************************************************)
THEOREM ParsingStopsAfterBoth == Spec => []NothingIsReadAfterBoth
<1>1. IInv => NothingIsReadAfterBoth
  BY DEF IInv
<1> QED  BY <1>1, InvariantHolds, PTL

(***************************************************************************)
(* walkMP4Boxes, aviWalkChunks and the loops of mkv.go: no header sends a  *)
(* walk back, not even one whose end has overflowed.                       *)
(***************************************************************************)
THEOREM NoWalkGoesBack == Spec => WalksMoveForward
<1> DEFINE Ahead == \A i \in DOMAIN stack \cap DOMAIN stack' : stack'[i].off >= stack[i].off
<1>1. IInv /\ [Next]_vars => [Ahead]_vars
  BY NextIInv DEF Forward
<1> QED  BY <1>1, InvariantHolds, PTL DEF Spec, WalksMoveForward
-----------------------------------------------------------------------------
(* How far a parser may go. *)

\* How deep each walk is.
Depth ==
  [file |-> 1, moov |-> 1, riff |-> 1,
   mvex |-> 2, trak |-> 2, segment |-> 2, hdrl |-> 2,
   mdia |-> 3, info |-> 3, tracks |-> 3, strl |-> 3,
   entry |-> 4, video |-> 5]

\* Padding can carry a walk one unit past the largest offset.
Roomy(s) ==
  \A i \in DOMAIN s : Depth[s[i].in] = i /\ s[i].off <= MaxInt + 1 /\ s[i].end <= MaxInt

\* Some walk goes on or ends, and those around it stay where they are.
GetsOn(s) ==
  \E n \in DOMAIN stack :
    /\ \A k \in 1 .. n - 1 : k \in DOMAIN s /\ s[k] = stack[k]
    /\ n \in DOMAIN s => s[n].off > stack[n].off

\* What is left for the walk of each depth.
Left(s) == [k \in 1 .. 5 |-> IF k \in DOMAIN s THEN MaxInt + 2 - s[k].off ELSE 0]

\* The outermost walk whose part changes has less left.
Less(f, g) == \E n \in 1 .. 5 : f[n] < g[n] /\ \A k \in 1 .. n - 1 : f[k] = g[k]

LEMMA MoveGetsOn ==
  ASSUME Sound(stack), Roomy(stack), stack # << >>,
         NEW o \in Int, o > Walk.off, o <= MaxInt + 1
  PROVE  GetsOn(MovedTo(o)) /\ Roomy(MovedTo(o))
<1> DEFINE s == MovedTo(o)
           n == Len(stack)
<1>1. /\ n \in Nat \ {0} /\ DOMAIN stack = 1 .. n
      /\ Walk = stack[n] /\ Walk \in Frames
  BY InnermostWalk
<1>2. /\ Sound(s) /\ Len(s) = n
      /\ \A i \in 1 .. n - 1 : s[i] = stack[i]
      /\ s[n] = [Walk EXCEPT !.off = o]
  <2>1. o >= Walk.off
    BY <1>1 DEF Frames
  <2> QED  BY <2>1, MoveSound
<1>3. DOMAIN s = 1 .. n
  BY <1>2, LenProperties DEF Sound
<1>4. s[n].in = stack[n].in /\ s[n].end = stack[n].end /\ s[n].off = o
  BY <1>1, <1>2 DEF Frames
<1> HIDE DEF s, n
<1>5. GetsOn(s)
  <2>1. n \in DOMAIN stack /\ s[n].off > stack[n].off
    BY <1>1, <1>4
  <2>2. \A k \in 1 .. n - 1 : k \in DOMAIN s /\ s[k] = stack[k]
    BY <1>1, <1>2, <1>3
  <2> QED  BY <2>1, <2>2 DEF GetsOn
<1>6. Roomy(s)
  <2> SUFFICES ASSUME NEW i \in 1 .. n
               PROVE  Depth[s[i].in] = i /\ s[i].off <= MaxInt + 1 /\ s[i].end <= MaxInt
    BY <1>3 DEF Roomy
  <2>1. Depth[stack[i].in] = i /\ stack[i].off <= MaxInt + 1 /\ stack[i].end <= MaxInt
    BY <1>1 DEF Roomy
  <2>2. CASE i = n
    BY <2>1, <2>2, <1>4
  <2>3. CASE i # n
    <3>1. i \in 1 .. n - 1
      BY <1>1, <2>3
    <3> QED  BY <2>1, <3>1, <1>2
  <2> QED  BY <2>2, <2>3
<1> QED  BY <1>5, <1>6 DEF s

LEMMA NestGetsOn ==
  ASSUME Sound(stack), Roomy(stack), stack # << >>,
         NEW o \in Int, o > Walk.off, o <= MaxInt + 1,
         NEW x \in Frames, Depth[x.in] = Depth[Walk.in] + 1,
         x.off <= MaxInt + 1, x.end <= MaxInt
  PROVE  GetsOn(Nested(o, x)) /\ Roomy(Nested(o, x))
<1> DEFINE m == MovedTo(o)
           s == Append(m, x)
           n == Len(stack)
<1>1. n \in Nat \ {0} /\ DOMAIN stack = 1 .. n /\ Walk = stack[n] /\ Walk \in Frames
  BY InnermostWalk
<1>2. GetsOn(m) /\ Roomy(m)
  BY MoveGetsOn
<1>3. Sound(m) /\ Len(m) = n
  <2>1. o >= Walk.off
    BY <1>1 DEF Frames
  <2> QED  BY <2>1, MoveSound
<1>4. m \in Seq(Frames) /\ DOMAIN m = 1 .. n
  BY <1>3, LenProperties DEF Sound
<1>5. Nested(o, x) = s
  BY DEF Nested
<1> HIDE DEF m
<1>6. s \in Seq(Frames) /\ Len(s) = n + 1 /\ s[n + 1] = x /\ \A i \in 1 .. n : s[i] = m[i]
  BY <1>3, <1>4, AppendProperties
<1>7. DOMAIN s = 1 .. n + 1
  BY <1>6, LenProperties
<1> HIDE DEF s, n
<1>8. GetsOn(s)
  <2>1. PICK j \in DOMAIN stack :
          /\ \A k \in 1 .. j - 1 : k \in DOMAIN m /\ m[k] = stack[k]
          /\ j \in DOMAIN m => m[j].off > stack[j].off
    BY <1>2 DEF GetsOn
  <2>2. j \in DOMAIN s /\ s[j].off > stack[j].off
    BY <2>1, <1>1, <1>4, <1>6, <1>7
  <2>3. \A k \in 1 .. j - 1 : k \in DOMAIN s /\ s[k] = stack[k]
    BY <2>1, <1>1, <1>4, <1>6, <1>7
  <2> QED  BY <2>1, <2>2, <2>3 DEF GetsOn
<1>9. Roomy(s)
  <2> SUFFICES ASSUME NEW i \in 1 .. n + 1
               PROVE  Depth[s[i].in] = i /\ s[i].off <= MaxInt + 1 /\ s[i].end <= MaxInt
    BY <1>7 DEF Roomy
  <2>1. CASE i = n + 1
    <3>1. Depth[Walk.in] = n
      BY <1>1 DEF Roomy
    <3> QED  BY <2>1, <3>1, <1>6
  <2>2. CASE i # n + 1
    <3>1. i \in 1 .. n
      BY <1>1, <2>2
    <3> QED  BY <3>1, <1>2, <1>4, <1>6 DEF Roomy
  <2> QED  BY <2>1, <2>2
<1> QED  BY <1>5, <1>8, <1>9

LEMMA PopGetsOn ==
  ASSUME Sound(stack), Roomy(stack), stack # << >>
  PROVE  /\ GetsOn(Front(stack)) /\ Roomy(Front(stack))
         /\ GetsOn(<< >>) /\ Roomy(<< >>)
<1> DEFINE n == Len(stack)
           s == Front(stack)
<1>1. n \in Nat \ {0} /\ DOMAIN stack = 1 .. n
  BY InnermostWalk
<1>2. /\ DOMAIN s = 1 .. n - 1
      /\ \A i \in DOMAIN stack \cap DOMAIN s : s[i] = stack[i]
  BY PopSound
<1> HIDE DEF s, n
<1>3. \A i \in 1 .. n - 1 : i \in DOMAIN s /\ s[i] = stack[i]
  BY <1>1, <1>2
<1>4. GetsOn(s)
  <2>1. n \in DOMAIN stack /\ n \notin DOMAIN s
    BY <1>1, <1>2
  <2> QED  BY <2>1, <1>3 DEF GetsOn
<1>5. Roomy(s)
  <2>1. \A i \in DOMAIN s : i \in DOMAIN stack /\ s[i] = stack[i]
    BY <1>1, <1>2, <1>3
  <2> QED  BY <2>1 DEF Roomy
<1>6. DOMAIN << >> = {}
  OBVIOUS
<1>7. GetsOn(<< >>)
  <2>1. 1 \in DOMAIN stack /\ 1 \notin DOMAIN << >>
    BY <1>1, <1>6
  <2>2. \A k \in 1 .. 1 - 1 : FALSE
    OBVIOUS
  <2> QED  BY <2>1, <2>2 DEF GetsOn
<1>8. Roomy(<< >>)
  BY <1>6 DEF Roomy
<1> QED  BY <1>4, <1>5, <1>7, <1>8 DEF s

\* The walk that gives up goes to its end.
LEMMA GiveUpGetsOn ==
  ASSUME Sound(stack), Roomy(stack), Looping, GiveUp
  PROVE  GetsOn(stack') /\ Roomy(stack')
<1>1. /\ DOMAIN stack = 1 .. Len(stack) /\ Len(stack) \in Nat \ {0}
      /\ Walk = stack[Len(stack)] /\ Walk \in Frames
  BY InnermostWalk DEF Looping
<1>2. Walk.end <= MaxInt
  BY <1>1 DEF Roomy
<1>3. Walk.end \in Int /\ Walk.end > Walk.off /\ Walk.end <= MaxInt + 1
  BY <1>1, <1>2, WalksAssumption DEF Looping, Frames
<1> QED  BY <1>3, MoveGetsOn DEF GiveUp, Looping

\* A box, an element or a chunk takes its walk on, and not past the largest
\* offset by more than its padding.
LEMMA BoxIsAhead ==
  ASSUME TypeOK, Sound(stack), Roomy(stack), Looping,
         NEW type, NEW b \in Box(type, Walk.off, Walk.end)
  PROVE  /\ b.type = type
         /\ Behind(b) \in Int /\ Behind(b) > Walk.off /\ Behind(b) <= MaxInt + 1
         /\ PayloadStart(b) \in Int /\ PayloadStart(b) > Walk.off /\ PayloadStart(b) <= MaxInt
         /\ End(b) \in Int /\ End(b) <= MaxInt
<1>1. /\ DOMAIN stack = 1 .. Len(stack) /\ Len(stack) \in Nat \ {0}
      /\ Walk = stack[Len(stack)] /\ Walk \in Frames
  BY InnermostWalk DEF Looping
<1>2. Walk.off \in Int /\ Walk.end \in Int /\ Walk.off + 1 <= Walk.end /\ Walk.end <= MaxInt
  BY <1>1 DEF Looping, Frames, Roomy
<1>3. b.type = type /\ End(b) \in Int /\ End(b) <= Walk.end
  BY BoxSound
<1>4. MaxInt \in Nat
  BY WalksAssumption
<1>5. b.start = Walk.off /\ b.hdr \in {1, 2} /\ b.start + b.hdr <= Walk.end
  BY DEF Box, Valid
<1>6. Behind(b) \in Int /\ Behind(b) > Walk.off /\ Behind(b) <= MaxInt + 1
  BY <1>2, <1>3, <1>4 DEF Behind
<1> QED  BY <1>2, <1>3, <1>4, <1>5, <1>6 DEF PayloadStart

LEMMA ElementIsAhead ==
  ASSUME TypeOK, Sound(stack), stack # << >>, NEW id, NEW e \in Element(id, Walk.off)
  PROVE  /\ e.id = id
         /\ e.start \in Int /\ e.start <= MaxInt + 1
         /\ e.end \in Int /\ e.end > Walk.off /\ e.end <= MaxInt
<1>1. e.id = id /\ e.start \in Int /\ e.end \in Int /\ e.end <= Limit
  BY ElementSound
<1>2. Walk.off < e.end /\ e.start <= Readable
  BY DEF Element
<1>3. fileSize \in 0 .. MaxInt /\ Grown \in 0 .. MaxInt /\ MaxInt \in Nat
  BY WalksAssumption, MatroskaAssumption DEF TypeOK
<1>4. Limit \in Int /\ Limit <= MaxInt /\ Readable \in Int /\ Readable <= MaxInt
  BY <1>3 DEF Limit, Readable
<1>5. Walk.off \in Int
  BY InnermostWalk DEF Frames
<1> QED  BY <1>1, <1>2, <1>3, <1>4, <1>5

LEMMA ChunkIsAhead ==
  ASSUME TypeOK, Sound(stack), Roomy(stack), Looping, NEW c \in Chunk(Walk.off, Walk.end)
  PROVE  /\ Beyond(c) \in Int /\ Beyond(c) > Walk.off /\ Beyond(c) <= MaxInt + 1
         /\ c.start \in Int /\ c.end \in Int /\ c.end <= MaxInt
         /\ NamedAt(c) => c.start + 1 <= MaxInt
<1>1. /\ DOMAIN stack = 1 .. Len(stack) /\ Len(stack) \in Nat \ {0}
      /\ Walk = stack[Len(stack)] /\ Walk \in Frames
  BY InnermostWalk DEF Looping
<1>2. Walk.off \in Int /\ Walk.end \in Int /\ Walk.off + 1 <= Walk.end /\ Walk.end <= MaxInt
  BY <1>1 DEF Looping, Frames, Roomy
<1>3. c.start \in Int /\ c.end \in Int /\ c.end <= Walk.end
  BY ChunkSound
<1>4. fileSize \in 0 .. MaxInt /\ MaxInt \in Nat
  BY WalksAssumption DEF TypeOK
<1>5. c.pad \in 0 .. 1
  <2>1. PICK size \in 0 .. fileSize + 1 : c.pad = size % 2
    BY DEF Chunk
  <2>2. size \in Nat
    BY <1>4
  <2> QED  BY <2>1, <2>2
<1>6. Beyond(c) \in Int /\ Beyond(c) > Walk.off /\ Beyond(c) <= MaxInt + 1
  BY <1>2, <1>3, <1>4, <1>5 DEF Beyond
<1>7. NamedAt(c) => c.start + 1 <= MaxInt
  BY <1>3, <1>4 DEF NamedAt
<1> QED  BY <1>2, <1>3, <1>4, <1>6, <1>7

LEMMA DepthOfWithin ==
  \A w \in DOMAIN Within : Within[w] # "none" => Depth[w] = Depth[Within[w]] + 1
<1> SUFFICES ASSUME NEW w \in DOMAIN Within, Within[w] # "none"
             PROVE  Depth[w] = Depth[Within[w]] + 1
  OBVIOUS
<1>1. \/ w \in {"mvex", "trak"} /\ Within[w] = "moov"
      \/ w = "mdia" /\ Within[w] = "trak"
      \/ w = "segment" /\ Within[w] = "file"
      \/ w \in {"info", "tracks"} /\ Within[w] = "segment"
      \/ w = "entry" /\ Within[w] = "tracks"
      \/ w = "video" /\ Within[w] = "entry"
      \/ w = "hdrl" /\ Within[w] = "riff"
      \/ w = "strl" /\ Within[w] = "hdrl"
  BY DEF Within
<1> QED  BY <1>1 DEF Depth

LEMMA Mp4GetsOn ==
  ASSUME IInv, Roomy(stack), format = "mp4", Mp4Next
  PROVE  GetsOn(stack') /\ Roomy(stack')
<1> Sound(stack) /\ TypeOK
  BY StackIsSound DEF IInv
<1>1. CASE BadBox
  BY <1>1, GiveUpGetsOn DEF BadBox
<1>2. ASSUME Looping, NEW type, NEW b \in Box(type, Walk.off, Walk.end), PassBox(b)
      PROVE  GetsOn(stack') /\ Roomy(stack')
  BY <1>2, BoxIsAhead, MoveGetsOn DEF PassBox, Looping
<1>3. CASE SkipBox \/ MovieHeader \/ FragmentHeader \/ TrackHeader \/ Handler
  <2>1. Looping
    BY <1>3 DEF SkipBox, MovieHeader, FragmentHeader, TrackHeader, Handler
  <2>2. \E type \in {"other", "mvhd", "mehd", "tkhd", "hdlr"} :
          \E b \in Box(type, Walk.off, Walk.end) : PassBox(b)
    BY <1>3 DEF SkipBox, MovieHeader, FragmentHeader, TrackHeader, Handler
  <2> QED  BY <2>1, <2>2, <1>2
<1>4. CASE FindMovie
  <2>1. PICK b \in Box("moov", Walk.off, Walk.end) :
          stack' = <<Span("moov", PayloadStart(b), End(b))>>
    BY <1>4 DEF FindMovie
  <2>2. Looping /\ Walk.in = "file"
    BY <1>4 DEF FindMovie
  <2>3. /\ PayloadStart(b) \in Int /\ PayloadStart(b) > Walk.off /\ PayloadStart(b) <= MaxInt
        /\ End(b) \in Int /\ End(b) <= MaxInt
    BY <2>2, BoxIsAhead
  <2>4. Len(stack) = 1 /\ DOMAIN stack = 1 .. Len(stack) /\ Walk = stack[Len(stack)]
    BY <2>2, MovieIsSought, InnermostWalk DEF Looping
  <2> DEFINE x == Span("moov", PayloadStart(b), End(b))
  <2>5. x.in = "moov" /\ x.off = PayloadStart(b) /\ x.end = End(b)
    BY DEF Span
  <2>6. Depth[x.in] = 1
    BY <2>5 DEF Depth
  <2>7. stack' = <<x>>
    BY <2>1
  <2> HIDE DEF x
  <2>8. DOMAIN stack' = {1} /\ stack'[1] = x
    BY <2>7
  <2>9. GetsOn(stack')
    <3>1. 1 \in DOMAIN stack /\ stack'[1].off > stack[1].off
      BY <2>3, <2>4, <2>5, <2>8
    <3>2. \A k \in 1 .. 1 - 1 : FALSE
      OBVIOUS
    <3> QED  BY <3>1, <3>2 DEF GetsOn
  <2>10. Roomy(stack')
    BY <2>3, <2>5, <2>6, <2>8, WalksAssumption DEF Roomy
  <2> QED  BY <2>9, <2>10
<1>5. CASE EnterBox
  <2>1. PICK type \in {"trak", "mvex", "mdia"} \cap Interesting[Walk.in] :
          \E b \in Box(type, Walk.off, Walk.end) : WalkBox(b)
    BY <1>5 DEF EnterBox
  <2>2. PICK b \in Box(type, Walk.off, Walk.end) : WalkBox(b)
    BY <2>1
  <2>3. Looping
    BY <1>5 DEF EnterBox
  <2> DEFINE x == Span(b.type, PayloadStart(b), End(b))
  <2>4. /\ b.type = type
        /\ Behind(b) \in Int /\ Behind(b) > Walk.off /\ Behind(b) <= MaxInt + 1
        /\ PayloadStart(b) \in Int /\ PayloadStart(b) <= MaxInt
        /\ End(b) \in Int /\ End(b) <= MaxInt
    BY <2>3, BoxIsAhead
  <2>5. Walk.in \in Walked["mp4"]
    BY <2>3, InnermostWalk DEF Looping
  <2>6. Within[type] = Walk.in /\ type \in DOMAIN Within
    BY <2>5, WhereBoxesNest
  <2>7. Walk.in # "none"
    BY <2>5 DEF Walked
  <2>8. Depth[type] = Depth[Walk.in] + 1
    BY <2>6, <2>7, DepthOfWithin
  <2>9. x \in Frames /\ x.in = type /\ x.off = PayloadStart(b) /\ x.end = End(b)
    BY <2>4, <2>6, SpanIsFrame
  <2> HIDE DEF x
  <2>10. x.off <= MaxInt + 1
    BY <2>4, <2>9, WalksAssumption
  <2>11. stack' = Nested(Behind(b), x)
    BY <2>2 DEF WalkBox, x
  <2> QED  BY <2>3, <2>4, <2>8, <2>9, <2>10, <2>11, NestGetsOn DEF Looping
<1>6. CASE EndBoxWalk
  BY <1>6, PopGetsOn DEF EndBoxWalk, Ended
<1> QED  BY <1>1, <1>3, <1>4, <1>5, <1>6 DEF Mp4Next

LEMMA MatroskaGetsOn ==
  ASSUME IInv, Roomy(stack), format = "mkv", MatroskaNext
  PROVE  GetsOn(stack') /\ Roomy(stack')
<1> Sound(stack) /\ TypeOK
  BY StackIsSound DEF IInv
<1>1. CASE BadElement
  BY <1>1, GiveUpGetsOn DEF BadElement
<1>2. MaxInt \in Nat
  BY WalksAssumption
<1>3. CASE SkipElement \/ InfoField \/ TrackType \/ PixelSize
  <2>1. Looping
    BY <1>3 DEF SkipElement, InfoField, TrackType, PixelSize
  <2>2. \E id \in {"other", "type"} \cup Interest.info \cup Interest.video :
          \E e \in Element(id, Walk.off) : PassElement(e)
    BY <1>3 DEF SkipElement, InfoField, TrackType, PixelSize
  <2>3. PICK id \in {"other", "type"} \cup Interest.info \cup Interest.video :
          \E e \in Element(id, Walk.off) : PassElement(e)
    BY <2>2
  <2>4. PICK e \in Element(id, Walk.off) : PassElement(e)
    BY <2>3
  <2>5. e.end \in Int /\ e.end > Walk.off /\ e.end <= MaxInt + 1
    BY <2>1, <1>2, ElementIsAhead DEF Looping
  <2> QED  BY <2>1, <2>4, <2>5, MoveGetsOn DEF PassElement, Looping
<1>4. CASE EnterElement \/ EnterEntry \/ EnterVideo
  <2>1. Looping
    BY <1>4 DEF EnterElement, EnterEntry, EnterVideo
  <2>2. \E id \in {"segment", "info", "tracks", "entry", "video"} \cap Interest[Walk.in] :
          \E e \in Element(id, Walk.off) : WalkElement(e)
    <3>1. CASE EnterElement
      BY <3>1 DEF EnterElement
    <3>2. CASE EnterEntry
      <4>1. "entry" \in Interest[Walk.in]
        BY <3>2 DEF EnterEntry, Interest
      <4> QED  BY <3>2, <4>1 DEF EnterEntry
    <3>3. CASE EnterVideo
      <4>1. "video" \in Interest[Walk.in]
        BY <3>3 DEF EnterVideo, Interest
      <4> QED  BY <3>3, <4>1 DEF EnterVideo
    <3> QED  BY <1>4, <3>1, <3>2, <3>3
  <2>3. PICK id \in {"segment", "info", "tracks", "entry", "video"} \cap Interest[Walk.in] :
          \E e \in Element(id, Walk.off) : WalkElement(e)
    BY <2>2
  <2>4. PICK e \in Element(id, Walk.off) : WalkElement(e)
    BY <2>3
  <2> DEFINE x == Span(e.id, e.start, e.end)
  <2>5. /\ e.id = id /\ e.start \in Int /\ e.start <= MaxInt + 1
        /\ e.end \in Int /\ e.end > Walk.off /\ e.end <= MaxInt
    BY <2>1, ElementIsAhead DEF Looping
  <2>6. Walk.in \in Walked["mkv"]
    BY <2>1, InnermostWalk DEF Looping
  <2>7. Within[id] = Walk.in /\ id \in DOMAIN Within
    BY <2>6, WhereElementsNest
  <2>8. Walk.in # "none"
    BY <2>6 DEF Walked
  <2>9. Depth[id] = Depth[Walk.in] + 1
    BY <2>7, <2>8, DepthOfWithin
  <2>10. x \in Frames /\ x.in = id /\ x.off = e.start /\ x.end = e.end
    BY <2>5, <2>7, SpanIsFrame
  <2> HIDE DEF x
  <2>11. x.off <= MaxInt + 1 /\ e.end <= MaxInt + 1
    BY <2>5, <2>10, <1>2
  <2>12. stack' = Nested(e.end, x)
    BY <2>4 DEF WalkElement, x
  <2> QED  BY <2>1, <2>5, <2>9, <2>10, <2>11, <2>12, NestGetsOn DEF Looping
<1>5. CASE EndElementWalk
  <2>1. stack # << >> /\ stack' \in {<< >>, Front(stack)}
    BY <1>5 DEF EndElementWalk, Ended, Return
  <2> QED  BY <2>1, PopGetsOn
<1> QED  BY <1>1, <1>3, <1>4, <1>5 DEF MatroskaNext

LEMMA RiffGetsOn ==
  ASSUME IInv, Roomy(stack), format = "avi", RiffNext
  PROVE  GetsOn(stack') /\ Roomy(stack')
<1> Sound(stack) /\ TypeOK
  BY StackIsSound DEF IInv
<1>1. CASE BadChunk
  BY <1>1, GiveUpGetsOn DEF BadChunk
<1>2. CASE SkipChunk \/ MainHeader \/ StreamHeader \/ StreamFormat
  <2>1. Looping
    BY <1>2 DEF SkipChunk, MainHeader, StreamHeader, StreamFormat
  <2>2. PICK c \in Chunk(Walk.off, Walk.end) : PassChunk(c)
    BY <1>2 DEF SkipChunk, MainHeader, StreamHeader, StreamFormat
  <2>3. Beyond(c) \in Int /\ Beyond(c) > Walk.off /\ Beyond(c) <= MaxInt + 1
    BY <2>1, ChunkIsAhead
  <2> QED  BY <2>1, <2>2, <2>3, MoveGetsOn DEF PassChunk, Looping
<1>3. CASE EnterHeaderList \/ EnterStream
  <2>1. Looping
    BY <1>3 DEF EnterHeaderList, EnterStream
  <2>2. \E name \in {"hdrl", "strl"} :
          /\ Within[name] = Walk.in /\ Walk.in # "none"
          /\ \E c \in Chunk(Walk.off, Walk.end) : NamedAt(c) /\ WalkList(c, name)
    <3>1. Within["hdrl"] = "riff" /\ Within["strl"] = "hdrl"
      BY DEF Within
    <3> QED  BY <1>3, <3>1 DEF EnterHeaderList, EnterStream
  <2>3. PICK name \in {"hdrl", "strl"} :
          /\ Within[name] = Walk.in /\ Walk.in # "none"
          /\ \E c \in Chunk(Walk.off, Walk.end) : NamedAt(c) /\ WalkList(c, name)
    BY <2>2
  <2>4. PICK c \in Chunk(Walk.off, Walk.end) : NamedAt(c) /\ WalkList(c, name)
    BY <2>3
  <2> DEFINE x == Span(name, c.start + 1, c.end)
  <2>5. /\ Beyond(c) \in Int /\ Beyond(c) > Walk.off /\ Beyond(c) <= MaxInt + 1
        /\ c.start \in Int /\ c.end \in Int /\ c.end <= MaxInt /\ c.start + 1 <= MaxInt
    BY <2>1, <2>4, ChunkIsAhead
  <2>6. name \in DOMAIN Within
    BY DEF Within
  <2>7. Depth[name] = Depth[Walk.in] + 1
    BY <2>3, <2>6, DepthOfWithin
  <2>8. c.start + 1 \in Int
    BY <2>5
  <2>9. x \in Frames /\ x.in = name /\ x.off = c.start + 1 /\ x.end = c.end
    BY <2>5, <2>6, <2>8, SpanIsFrame
  <2> HIDE DEF x
  <2>10. x.off <= MaxInt + 1
    BY <2>5, <2>9, WalksAssumption
  <2>11. stack' = Nested(Beyond(c), x)
    BY <2>4 DEF WalkList, x
  <2> QED  BY <2>1, <2>5, <2>7, <2>9, <2>10, <2>11, NestGetsOn DEF Looping
<1>4. CASE EndChunkWalk
  BY <1>4, PopGetsOn DEF EndChunkWalk, Ended
<1> QED  BY <1>1, <1>2, <1>3, <1>4 DEF RiffNext

\* The first walk, if any, begins at the outermost depth.
LEMMA BeginningIsRoomy ==
  ASSUME IInv, ProbeFile
  PROVE  Roomy(stack')
<1>1. format' \in {"mp4", "mkv", "avi", "none"}
  BY DEF ProbeFile, Chosen, Extensions
<1>2. PICK magic \in Magics : stack' \in Beginning(format', magic)
  BY DEF ProbeFile
<1>3. fileSize \in 0 .. MaxInt /\ Grown \in 0 .. MaxInt /\ MaxInt \in Nat
  BY WalksAssumption, MatroskaAssumption DEF IInv, TypeOK
<1>4. stack' = << >> \/ \E in \in {"file", "riff"}, off \in {0, 1}, end \in 0 .. MaxInt :
                          stack' = <<Span(in, off, end)>>
  <2>1. Limit \in 0 .. MaxInt
    BY <1>3 DEF Limit
  <2>2. 1 .. fileSize \subseteq 0 .. MaxInt
    BY <1>3
  <2> QED  BY <1>1, <1>2, <1>3, <2>1, <2>2 DEF Beginning
<1>5. CASE stack' = << >>
  <2>1. DOMAIN stack' = {}
    BY <1>5
  <2> QED  BY <2>1 DEF Roomy
<1>6. ASSUME NEW in \in {"file", "riff"}, NEW off \in {0, 1}, NEW end \in 0 .. MaxInt,
             stack' = <<Span(in, off, end)>>
      PROVE  Roomy(stack')
  <2> DEFINE x == Span(in, off, end)
  <2>1. x.in = in /\ x.off = off /\ x.end = end
    BY DEF Span
  <2> HIDE DEF x
  <2>2. DOMAIN stack' = {1} /\ stack'[1] = x
    BY <1>6 DEF x
  <2>3. Depth[in] = 1
    BY DEF Depth
  <2>4. off <= MaxInt + 1 /\ end <= MaxInt
    BY <1>3
  <2> QED  BY <2>1, <2>2, <2>3, <2>4 DEF Roomy
<1> QED  BY <1>4, <1>5, <1>6

\* What GetsOn says of the walks, in terms of what is left for them.
LEMMA LessIsLeft ==
  ASSUME Sound(stack), Roomy(stack), NEW s \in Seq(Frames), GetsOn(s), Roomy(s)
  PROVE  Less(Left(s), Left(stack))
<1>1. MaxInt \in Nat
  BY WalksAssumption
<1>2. PICK n \in DOMAIN stack :
        /\ \A k \in 1 .. n - 1 : k \in DOMAIN s /\ s[k] = stack[k]
        /\ n \in DOMAIN s => s[n].off > stack[n].off
  BY DEF GetsOn
<1>3. DOMAIN stack = 1 .. Len(stack) /\ Len(stack) \in Nat /\ stack[n] \in Frames
  BY LenProperties, ElementOfSeq DEF Sound
<1>4. n \in 1 .. 5
  <2>1. stack[n].in \in DOMAIN Within /\ Depth[stack[n].in] = n
    BY <1>3 DEF Frames, Roomy
  <2>2. \A w \in DOMAIN Within : Depth[w] \in 1 .. 5
    BY DEF Within, Depth
  <2> QED  BY <2>1, <2>2
<1>5. Left(s)[n] < Left(stack)[n]
  <2>1. stack[n].off \in Int /\ stack[n].off <= MaxInt + 1
    BY <1>3 DEF Frames, Roomy
  <2>2. Left(stack)[n] = MaxInt + 2 - stack[n].off
    BY <1>4 DEF Left
  <2>3. CASE n \in DOMAIN s
    <3>1. s[n] \in Frames
      BY <2>3, LenProperties, ElementOfSeq
    <3>2. s[n].off \in Int /\ s[n].off > stack[n].off
      BY <2>3, <3>1, <1>2 DEF Frames
    <3>3. Left(s)[n] = MaxInt + 2 - s[n].off
      BY <2>3, <1>4 DEF Left
    <3> QED  BY <1>1, <2>1, <2>2, <3>2, <3>3
  <2>4. CASE n \notin DOMAIN s
    <3>1. Left(s)[n] = 0
      BY <2>4, <1>4 DEF Left
    <3> QED  BY <1>1, <2>1, <2>2, <3>1
  <2> QED  BY <2>3, <2>4
<1>6. ASSUME NEW k \in 1 .. n - 1
      PROVE  Left(s)[k] = Left(stack)[k]
  <2>1. k \in 1 .. 5 /\ k \in DOMAIN stack /\ k \in DOMAIN s /\ s[k] = stack[k]
    BY <1>2, <1>3, <1>4
  <2> QED  BY <2>1 DEF Left
<1> QED  BY <1>4, <1>5, <1>6 DEF Less

(***************************************************************************)
(* ProbeFile: what is left to read, depth by depth, is five numbers no     *)
(* larger than the range of an offset.  Every step of a parser leaves less *)
(* for the outermost walk it moves, so that parsing takes finitely many    *)
(* steps however the headers lie, also in a Matroska file, where the walk  *)
(* around may go back over what a walk within it has read.                 *)
(***************************************************************************)
THEOREM ParsingGetsOn ==
  Spec => /\ [](Left(stack) \in [1 .. 5 -> 0 .. MaxInt + 2])
          /\ [][stack # << >> => Less(Left(stack'), Left(stack))]_vars
<1>1. Init => Roomy(stack)
  <2> SUFFICES ASSUME Init
               PROVE  Roomy(stack)
    OBVIOUS
  <2>1. stack = << >> /\ DOMAIN << >> = {}
    BY DEF Init
  <2> QED  BY <2>1 DEF Roomy
<1>2. IInv /\ Roomy(stack) /\ [Next]_vars => Roomy(stack)'
  <2> SUFFICES ASSUME IInv, Roomy(stack), [Next]_vars
               PROVE  Roomy(stack')
    BY DEF Roomy
  <2>1. CASE Next
    BY <2>1, BeginningIsRoomy, Mp4GetsOn, MatroskaGetsOn, RiffGetsOn DEF Next
  <2>2. CASE UNCHANGED vars
    BY <2>2 DEF vars
  <2> QED  BY <2>1, <2>2
<1>3. IInv /\ Roomy(stack) => Left(stack) \in [1 .. 5 -> 0 .. MaxInt + 2]
  <2> SUFFICES ASSUME IInv, Roomy(stack), NEW k \in 1 .. 5
               PROVE  (IF k \in DOMAIN stack THEN MaxInt + 2 - stack[k].off ELSE 0)
                        \in 0 .. MaxInt + 2
    BY DEF Left
  <2>1. MaxInt \in Nat
    BY WalksAssumption
  <2>2. CASE k \in DOMAIN stack
    <3>1. stack[k] \in Frames /\ stack[k].off >= 0 /\ stack[k].off <= MaxInt + 1
      <4>1. stack \in Seq(Frames)
        BY DEF IInv, TypeOK, Frames
      <4> QED  BY <2>2, <4>1, LenProperties, ElementOfSeq DEF IInv, WalksStayInside, Roomy
    <3> QED  BY <2>1, <2>2, <3>1 DEF Frames
  <2>3. CASE k \notin DOMAIN stack
    BY <2>1, <2>3
  <2> QED  BY <2>2, <2>3
<1>4. IInv /\ Roomy(stack) /\ [Next]_vars =>
        [stack # << >> => Less(Left(stack'), Left(stack))]_vars
  <2> SUFFICES ASSUME IInv, Roomy(stack), Next, stack # << >>
               PROVE  Less(Left(stack'), Left(stack))
    OBVIOUS
  <2>1. Sound(stack) /\ format # "unread"
    <3>1. Sound(stack)
      BY StackIsSound DEF IInv
    <3>2. Walk.in \in Walked[format]
      BY <3>1, InnermostWalk
    <3> QED  BY <3>1, <3>2 DEF Walked
  <2>2. ~ProbeFile
    BY <2>1 DEF ProbeFile
  <2>3. GetsOn(stack') /\ Roomy(stack')
    BY <2>2, Mp4GetsOn, MatroskaGetsOn, RiffGetsOn DEF Next
  <2>4. stack' \in Seq(Frames)
    BY NextIInv DEF IInv, TypeOK, Frames
  <2> QED  BY <2>1, <2>3, <2>4, LessIsLeft
<1> QED  BY <1>1, <1>2, <1>3, <1>4, InvariantHolds, PTL DEF Spec
=============================================================================
