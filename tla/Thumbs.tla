------------------------------- MODULE Thumbs -------------------------------
(***************************************************************************)
(* internal/thumb: thumbnails made on demand, kept on disk, and produced   *)
(* by at most Workers runs of ffmpeg at a time.                            *)
(*                                                                         *)
(* Every request for a picture runs Maker.Get in a goroutine of its own.   *)
(* The name of a cached picture carries the stamp (size, and modification  *)
(* time in whole seconds) that the last scan took of the video; ffmpeg     *)
(* reads whatever the file holds when it runs.  What a file holds is       *)
(* numbered by occasion: a file that is edited, and one that is put back   *)
(* with its old contents and its old time, each make a new version.        *)
(* Versions may share a stamp, next to each other or not.  ffmpeg may fail *)
(* at any position: a run is bounded by Maker.timeout.                     *)
(***************************************************************************)
EXTENDS Naturals, FiniteSets

CONSTANTS
  Videos,      \* those the library has had; without one nothing can be asked for
  Versions,    \* what a video holds, one occasion after another, is 1 .. Versions
  Stamp,       \* what Node.Size and Node.ModTime.Unix() tell of a version
  Requests,    \* the requests for pictures
  Workers      \* Config.Workers after New: at least 1

ASSUME ThumbsAssumption ==
  /\ Videos # {}
  /\ Versions \in Nat \ {0}
  /\ DOMAIN Stamp = 1 .. Versions
  /\ Workers \in Nat \ {0}

VARIABLES
  disk,      \* what each video holds now
  seen,      \* the version the index was made from, of which it keeps the stamp
  shelf,     \* the cache directory: the version each cached picture shows
  free,      \* slots left in Maker.sem
  pc,        \* where Get is for each request
  asked,     \* the video and the version whose stamp the request carries
  picture,   \* the version shown by the picture the request has in hand
  made       \* history: the requests that had ffmpeg render a picture, less
             \* those that could not keep it

vars == <<disk, seen, shelf, free, pc, asked, picture, made>>

Contents == 1 .. Versions
NoPicture == 0
HalfWritten == Versions + 1
Names == Videos \X {Stamp[c] : c \in Contents}

\* Fault: the name of a cached picture is made from the video's path alone.
CachePath_PathOnly(v, s) == <<v, 1>>

\* CachePath, ThumbFile: path, size and modification time go into the name.
CachePath(v, s) == <<v, s>>

Name(r) == CachePath(asked[r].video, Stamp[asked[r].version])

Init ==
  /\ disk = [v \in Videos |-> 1]
  /\ seen = disk
  /\ shelf = [n \in Names |-> NoPicture]
  /\ free = Workers
  /\ pc = [r \in Requests |-> "idle"]
  /\ asked = [r \in Requests |-> [video |-> CHOOSE v \in Videos : TRUE, version |-> 1]]
  /\ picture = [r \in Requests |-> NoPicture]
  /\ made = {}

Goto(r, from, to) ==
  /\ pc[r] = from
  /\ pc' = [pc EXCEPT ![r] = to]

Take(r, p) == picture' = [picture EXCEPT ![r] = p]

-----------------------------------------------------------------------------
(* The media folder, where a video is edited or put back, and Library.Scan. *)

Edit(v) ==
  /\ disk[v] < Versions
  /\ disk' = [disk EXCEPT ![v] = @ + 1]
  /\ UNCHANGED <<seen, shelf, free, pc, asked, picture, made>>

Rescan ==
  /\ seen' = disk
  /\ UNCHANGED <<disk, shelf, free, pc, asked, picture, made>>

-----------------------------------------------------------------------------
(* handleThumbnail and Maker.Get *)

\* The URL's id is resolved in the index current now.
Ask(r) ==
  /\ Goto(r, "idle", "lookup")
  /\ \E v \in Videos : asked' = [asked EXCEPT ![r] = [video |-> v, version |-> seen[v]]]
  /\ UNCHANGED <<disk, seen, shelf, free, picture, made>>

\* The picture is on the shelf, or the request queues for a slot.
Lookup(r) ==
  /\ Goto(r, "lookup", IF shelf[Name(r)] # NoPicture THEN "done" ELSE "queue")
  /\ Take(r, shelf[Name(r)])
  /\ UNCHANGED <<disk, seen, shelf, free, asked, made>>

\* Fault: the shelf is not looked at again once a slot is free.
Acquire_NoRecheck(r) ==
  /\ free > 0
  /\ Goto(r, "queue", "render")
  /\ free' = free - 1
  /\ UNCHANGED <<disk, seen, shelf, asked, picture, made>>

Acquire(r) ==
  /\ free > 0
  /\ Goto(r, "queue", "recheck")
  /\ free' = free - 1
  /\ UNCHANGED <<disk, seen, shelf, asked, picture, made>>

\* Fault: the slot is given back here and once more on return.
Recheck_ReleasesTwice(r) ==
  /\ Goto(r, "recheck", IF shelf[Name(r)] # NoPicture THEN "release" ELSE "render")
  /\ free' = IF shelf[Name(r)] # NoPicture THEN free + 1 ELSE free
  /\ Take(r, shelf[Name(r)])
  /\ UNCHANGED <<disk, seen, shelf, asked, made>>

\* Another request may have made the picture during the wait.
Recheck(r) ==
  /\ Goto(r, "recheck", IF shelf[Name(r)] # NoPicture THEN "release" ELSE "render")
  /\ Take(r, shelf[Name(r)])
  /\ UNCHANGED <<disk, seen, shelf, free, asked, made>>

\* extract, when ffmpeg succeeds.
Rendered(r) ==
  /\ Take(r, disk[asked[r].video])
  /\ made' = made \cup {r}

\* extract at the chosen position, which may not exist in the file; without a
\* known duration the chosen position is the start, and there is no second try.
Render(r) ==
  /\ \/ Goto(r, "render", "write") /\ Rendered(r)
     \/ /\ Goto(r, "render", "fallback") \/ Goto(r, "render", "release")
        /\ UNCHANGED <<picture, made>>
  /\ UNCHANGED <<disk, seen, shelf, free, asked>>

\* Fault: the error of the second run returns past the release of the slot.
Fallback_KeepsSlot(r) ==
  /\ \/ Goto(r, "fallback", "write") /\ Rendered(r)
     \/ Goto(r, "fallback", "done") /\ UNCHANGED <<picture, made>>
  /\ UNCHANGED <<disk, seen, shelf, free, asked>>

\* extract at the start.
Fallback(r) ==
  /\ \/ Goto(r, "fallback", "write") /\ Rendered(r)
     \/ Goto(r, "fallback", "release") /\ UNCHANGED <<picture, made>>
  /\ UNCHANGED <<disk, seen, shelf, free, asked>>

\* Fault: the cached picture itself is opened for writing.
WriteTemp_InPlace(r) ==
  /\ Goto(r, "write", "rename")
  /\ shelf' = [shelf EXCEPT ![Name(r)] = HalfWritten]
  /\ UNCHANGED <<disk, seen, free, asked, picture, made>>

\* WriteFileAtomic: a temporary file with a name of its own; or it fails, and
\* the picture is returned without being kept.
WriteTemp(r) ==
  /\ \/ Goto(r, "write", "rename") /\ UNCHANGED made
     \/ Goto(r, "write", "release") /\ made' = made \ {r}
  /\ UNCHANGED <<disk, seen, shelf, free, asked, picture>>

Rename(r) ==
  /\ Goto(r, "rename", "release")
  /\ \/ shelf' = [shelf EXCEPT ![Name(r)] = picture[r]] /\ UNCHANGED made
     \/ made' = made \ {r} /\ UNCHANGED shelf
  /\ UNCHANGED <<disk, seen, free, asked, picture>>

\* The deferred receive from the semaphore, and the answer to the client.
Release(r) ==
  /\ Goto(r, "release", "done")
  /\ free' = free + 1
  /\ UNCHANGED <<disk, seen, shelf, asked, picture, made>>

Step(r) ==
  \/ Lookup(r) \/ Recheck(r) \/ Render(r) \/ Fallback(r)
  \/ WriteTemp(r) \/ Rename(r) \/ Release(r)

Next ==
  \/ \E v \in Videos : Edit(v)
  \/ Rescan
  \/ \E r \in Requests : Ask(r) \/ Acquire(r) \/ Step(r)

(***************************************************************************)
(* ffmpeg runs under a timeout, so Get keeps going; and a request that     *)
(* queues does not wait forever while a slot stays free.                   *)
(***************************************************************************)
Fairness == \A r \in Requests : WF_vars(Acquire(r) \/ Step(r))

Spec == Init /\ [][Next]_vars
FairSpec == Spec /\ Fairness

-----------------------------------------------------------------------------
TypeOK ==
  /\ disk \in [Videos -> Contents]
  /\ seen \in [Videos -> Contents]
  /\ shelf \in [Names -> 0 .. HalfWritten]
  /\ free \in 0 .. Workers
  /\ pc \in [Requests -> {"idle", "lookup", "queue", "recheck", "render", "fallback",
                          "write", "rename", "release", "done"}]
  /\ asked \in [Requests -> [video : Videos, version : Contents]]
  /\ picture \in [Requests -> 0 .. HalfWritten]
  /\ made \subseteq Requests

(***************************************************************************)
(* Get's second look at the shelf: however many requests for one picture   *)
(* come at once, ffmpeg succeeds in rendering it at most Workers times,    *)
(* for those that held the slots when the first of them finished, and once *)
(* more for every rendered picture that could not be written or renamed:   *)
(* such a picture is answered with and lost, and the next request begins   *)
(* again.                                                                  *)
(***************************************************************************)
MadeAtMostWorkersTimes ==
  \A n \in Names : Cardinality({r \in made : Name(r) = n}) <= Workers

(***************************************************************************)
(* WriteFileAtomic: requests that look at the shelf while a picture is     *)
(* being put there find either nothing or a whole picture.                 *)
(***************************************************************************)
PicturesAreWhole == \A r \in Requests : picture[r] # HalfWritten

(***************************************************************************)
(* CachePath: a picture is never older than the stamp in its name: it      *)
(* shows the first version that had this stamp or one that came later,     *)
(* through edits, rescans, videos put back and requests that were queued   *)
(* before them.  Of versions with one stamp, an older one may be shown for *)
(* a newer; and a video that is put back may be shown as it was in between.*)
(***************************************************************************)
NeverOlderThanTheStamp ==
  \A r \in Requests : pc[r] = "done" /\ picture[r] # NoPicture =>
    \E first \in Contents : /\ Stamp[first] = Stamp[asked[r].version]
                            /\ first <= picture[r]

(***************************************************************************)
(* Get: every request is answered, whatever fails on the way, so no        *)
(* failure costs a slot.                                                   *)
(***************************************************************************)
EveryRequestIsAnswered ==
  \A r \in Requests : (pc[r] = "lookup") ~> (pc[r] = "done")
=============================================================================
