----------------------------- MODULE ProbeStore -----------------------------
(***************************************************************************)
(* internal/probe: deciding which files may be served, and remembering the *)
(* answers from one scan, and one run of the program, to the next.         *)
(*                                                                         *)
(* What a file holds is numbered by occasion, not by contents: a download  *)
(* that grows, a file that is replaced, and a file that is put back, with  *)
(* its old contents and its old time, each make a new version.  The store  *)
(* only sees a stamp of a version, the size and the modification time in   *)
(* whole seconds; nothing is asked of the stamps, which may stay as they   *)
(* are from one version to the next, or go back to what they were.  The    *)
(* walk takes the stamp; the tools read the file later, when it may have   *)
(* changed.  The program can be killed at any point; what it has written   *)
(* to probe.json stays.                                                    *)
(***************************************************************************)
EXTENDS Naturals, FiniteSets

CONSTANTS
  Files,       \* the videos of the folder; an empty one has nothing to remember
  Versions,    \* what a file holds, one occasion after another, is 1 .. Versions
  Stamp,       \* what record.Size and record.ModUnix tell of a version
  Headers,     \* versions ffprobe accepts
  Early, Late, \* versions in which a frame decodes at 25 %, and at 95 %
  Levels,      \* the levels the program may be asked for
  MaxScans,    \* bound on the scans
  MaxStarts    \* bound on the runs of the program

Gone == 0
Contents == 1 .. Versions

ASSUME ProbeAssumption ==
  /\ Files # {}
  /\ Versions \in Nat /\ MaxScans \in Nat /\ MaxStarts \in Nat
  /\ Stamp \in [Contents -> Nat \ {0}]
  /\ Headers \subseteq Contents /\ Early \subseteq Contents /\ Late \subseteq Contents
  /\ Levels \subseteq {"off", "container", "content"}

VARIABLES
  disk,       \* what each file holds now
  saved,      \* probe.json
  phase,      \* what the program is doing
  level,      \* Prober.level
  revalidate, \* Prober.revalidate
  kept,       \* is there a Prober.store, that is, a place for it
  records,    \* Store.records
  touched,    \* Store.touched
  seen,       \* the version the walk took the stamp of, Gone if it met no file
  check,      \* where Check is with each file
  answer,     \* what Check returned in this scan
  cached,     \* files answered from the store in this scan
  passed,     \* history: every inspection that ended in a yes, with the version
              \* the walk stamped and the version its last tool read
  scans, starts

flags == <<level, revalidate, kept>>
program == <<phase, flags, records, touched, seen, check, answer, cached>>
counts == <<scans, starts>>
vars == <<disk, saved, program, passed, counts>>

NoRecord == [valid |-> FALSE, stamp |-> 0]
Torn == [f \in Files |-> [valid |-> TRUE, stamp |-> 0]]   \* half of a save
Nothing == [f \in Files |-> NoRecord]

\* The record Put makes, with the stamp the walk took.
Record(f, serve) == [valid |-> serve, stamp |-> Stamp[seen[f]]]

NoCheck == [f \in Files |-> "none"]
NotSeen == [f \in Files |-> Gone]

Init ==
  /\ disk \in [Files -> Contents \cup {Gone}]
  /\ saved = Nothing
  /\ phase = "down" /\ level = "off" /\ revalidate = FALSE /\ kept = FALSE
  /\ records = Nothing /\ touched = {}
  /\ seen = NotSeen /\ check = NoCheck /\ answer = NoCheck /\ cached = {}
  /\ passed = {}
  /\ scans = 0 /\ starts = 0

-----------------------------------------------------------------------------
(* The media folder: a file is written, replaced or put back. *)

Rewrite(f) ==
  /\ disk[f] < Versions
  /\ disk' = [disk EXCEPT ![f] = @ + 1]
  /\ UNCHANGED <<saved, program, passed, counts>>

-----------------------------------------------------------------------------
(* The program's runs. *)

\* New: the level is lowered when the tools it needs were not found.
InForce(asked, ffprobe, ffmpeg) ==
  IF ~ffprobe THEN "off"
  ELSE IF asked = "content" /\ ~ffmpeg THEN "container" ELSE asked

\* OpenStore: an unreadable probe.json is discarded.  Without a cache directory
\* there is no store.
Start ==
  /\ phase = "down"
  /\ starts < MaxStarts
  /\ starts' = starts + 1
  /\ \E asked \in Levels, ffprobe, ffmpeg \in BOOLEAN : level' = InForce(asked, ffprobe, ffmpeg)
  /\ revalidate' \in BOOLEAN /\ kept' \in BOOLEAN
  /\ records' = IF kept' /\ saved # Torn THEN saved ELSE Nothing
  /\ touched' = {}
  /\ phase' = "idle"
  /\ UNCHANGED <<disk, saved, seen, check, answer, cached, passed, scans>>

\* Killed, or stopped: what is in memory is lost.
Crash ==
  /\ phase # "down"
  /\ phase' = "down"
  /\ level' = "off" /\ revalidate' = FALSE /\ kept' = FALSE
  /\ records' = Nothing /\ touched' = {}
  /\ seen' = NotSeen /\ check' = NoCheck /\ answer' = NoCheck /\ cached' = {}
  /\ UNCHANGED <<disk, saved, passed, counts>>

\* Fault: the Validator is passed to the library at every level.
BeginScan_AlwaysValidates ==
  /\ phase = "idle"
  /\ scans < MaxScans
  /\ scans' = scans + 1
  /\ \E hidden \in SUBSET Files :
       seen' = [f \in Files |-> IF f \in hidden THEN Gone ELSE disk[f]]
  /\ check' = [f \in Files |-> IF seen'[f] # Gone THEN "asked" ELSE "none"]
  /\ answer' = NoCheck /\ cached' = {}
  /\ phase' = "scan"
  /\ UNCHANGED <<disk, saved, flags, records, touched, passed, starts>>

\* Library.Scan walks the folder and stamps the files it can see; a directory
\* that cannot be read hides the files in it.  main passes a Validator only
\* when the level is not off.
BeginScan ==
  /\ phase = "idle"
  /\ scans < MaxScans
  /\ scans' = scans + 1
  /\ \E hidden \in SUBSET Files :
       seen' = [f \in Files |-> IF f \in hidden THEN Gone ELSE disk[f]]
  /\ check' = [f \in Files |-> IF seen'[f] # Gone /\ level # "off" THEN "asked" ELSE "none"]
  /\ answer' = NoCheck /\ cached' = {}
  /\ phase' = "scan"
  /\ UNCHANGED <<disk, saved, flags, records, touched, passed, starts>>

-----------------------------------------------------------------------------
(* Prober.Check, in the hands of one worker per file. *)

\* Fault: a stored yes is reused whatever the file's stamp says.
Check_IgnoresStamp(f) ==
  /\ check[f] = "asked"
  /\ LET hit == ~revalidate /\ kept /\ records[f].valid
     IN  /\ check' = [check EXCEPT ![f] = IF hit THEN "done" ELSE "inspect"]
         /\ answer' = IF hit THEN [answer EXCEPT ![f] = "serve"] ELSE answer
         /\ cached' = IF hit THEN cached \cup {f} ELSE cached
  /\ touched' = IF revalidate \/ ~kept THEN touched ELSE touched \cup {f}
  /\ UNCHANGED <<disk, saved, phase, flags, records, seen, passed, counts>>

\* Fault: Get does not mark the key as consulted.
Check_GetDoesNotTouch(f) ==
  /\ check[f] = "asked"
  /\ LET hit == ~revalidate /\ kept /\ records[f].valid /\ records[f].stamp = Stamp[seen[f]]
     IN  /\ check' = [check EXCEPT ![f] = IF hit THEN "done" ELSE "inspect"]
         /\ answer' = IF hit THEN [answer EXCEPT ![f] = "serve"] ELSE answer
         /\ cached' = IF hit THEN cached \cup {f} ELSE cached
  /\ UNCHANGED <<disk, saved, phase, flags, records, touched, seen, passed, counts>>

\* A stored yes is reused while the stamp is the same; a stored no never is.
\* With -revalidate, or without one, the store is not consulted at all.
Check(f) ==
  /\ check[f] = "asked"
  /\ LET hit == ~revalidate /\ kept /\ records[f].valid /\ records[f].stamp = Stamp[seen[f]]
     IN  /\ check' = [check EXCEPT ![f] = IF hit THEN "done" ELSE "inspect"]
         /\ answer' = IF hit THEN [answer EXCEPT ![f] = "serve"] ELSE answer
         /\ cached' = IF hit THEN cached \cup {f} ELSE cached
  /\ touched' = IF revalidate \/ ~kept THEN touched ELSE touched \cup {f}
  /\ UNCHANGED <<disk, saved, phase, flags, records, seen, passed, counts>>

\* Check's end: the verdict is put in the store, if there is one, and returned.
Put(f, serve) ==
  /\ records' = IF kept THEN [records EXCEPT ![f] = Record(f, serve)] ELSE records
  /\ touched' = IF kept THEN touched \cup {f} ELSE touched
  /\ answer' = [answer EXCEPT ![f] = IF serve THEN "serve" ELSE "refuse"]
  /\ check' = [check EXCEPT ![f] = "done"]
  /\ passed' = IF serve THEN passed \cup {[file |-> f, seen |-> seen[f], version |-> disk[f],
                                                level |-> level]}
               ELSE passed

\* runProbe on what the file holds now; any run may also fail or time out.  At
\* level content a frame is decoded next, unless ffprobe told no duration:
\* then there is nowhere to seek to and the container check has to stand.
RunProbe(f) ==
  /\ check[f] = "inspect"
  /\ \/ Put(f, FALSE)
     \/ /\ disk[f] \in Headers
        /\ Put(f, TRUE)
     \/ /\ disk[f] \in Headers /\ level = "content"
        /\ check' = [check EXCEPT ![f] = "early"]
        /\ UNCHANGED <<records, touched, answer, passed>>
  /\ UNCHANGED <<disk, saved, phase, flags, seen, cached, counts>>

\* checkPayload, at level content: a frame early in the file, then one late in
\* it, each from what the file holds by then.
CheckPayload(f) ==
  /\ \/ check[f] \in {"early", "late"} /\ Put(f, FALSE)
     \/ check[f] = "late" /\ disk[f] \in Late /\ Put(f, TRUE)
     \/ /\ check[f] = "early" /\ disk[f] \in Early
        /\ check' = [check EXCEPT ![f] = "late"]
        /\ UNCHANGED <<records, touched, answer, passed>>
  /\ UNCHANGED <<disk, saved, phase, flags, seen, cached, counts>>

-----------------------------------------------------------------------------
(* AfterScan: Prober.Save and cache.WriteFileAtomic. *)

\* Store.Save under the lock: what was not consulted is dropped, and that is
\* everything when validation is off.
Save ==
  /\ phase = "scan"
  /\ \A f \in Files : check[f] \in {"none", "done"}
  /\ records' = [f \in Files |-> IF f \in touched THEN records[f] ELSE NoRecord]
  /\ touched' = {}
  /\ phase' = IF kept THEN "saving" ELSE "idle"
  /\ UNCHANGED <<disk, saved, flags, seen, check, answer, cached, passed, counts>>

\* Fault: probe.json itself is opened for writing.
WriteTemp_InPlace ==
  /\ phase = "saving"
  /\ phase' = "temp"
  /\ saved' = Torn
  /\ UNCHANGED <<disk, flags, records, touched, seen, check, answer, cached, passed, counts>>

\* The data goes to a temporary file beside probe.json.  An error on the way
\* abandons it.
WriteTemp ==
  /\ phase = "saving"
  /\ phase' \in {"temp", "idle"}
  /\ UNCHANGED <<disk, saved, flags, records, touched, seen, check, answer, cached, passed, counts>>

\* The rename.  Nothing touches the records in between: the next scan starts
\* after this one has returned.
Rename ==
  /\ phase = "temp"
  /\ phase' = "idle"
  /\ saved' = records
  /\ UNCHANGED <<disk, flags, records, touched, seen, check, answer, cached, passed, counts>>

Next ==
  \/ \E f \in Files : Rewrite(f) \/ Check(f) \/ RunProbe(f) \/ CheckPayload(f)
  \/ Start \/ Crash \/ BeginScan \/ Save \/ WriteTemp \/ Rename

Spec == Init /\ [][Next]_vars

-----------------------------------------------------------------------------
RecordType == [valid : BOOLEAN, stamp : Nat]

TypeOK ==
  /\ disk \in [Files -> Contents \cup {Gone}]
  /\ saved \in [Files -> RecordType] \cup {Torn}
  /\ phase \in {"down", "idle", "scan", "saving", "temp"}
  /\ level \in {"off", "container", "content"} /\ revalidate \in BOOLEAN /\ kept \in BOOLEAN
  /\ records \in [Files -> RecordType]
  /\ touched \subseteq Files /\ cached \subseteq Files
  /\ seen \in [Files -> Contents \cup {Gone}]
  /\ check \in [Files -> {"none", "asked", "inspect", "early", "late", "done"}]
  /\ answer \in [Files -> {"none", "serve", "refuse"}]
  /\ passed \subseteq [file : Files, seen : Contents, version : Contents,
                        level : {"container", "content"}]

(***************************************************************************)
(* Check: what the store answers is a yes, earned since a walk that took   *)
(* the stamp the last walk has just taken, by what the file held between   *)
(* the two, although the tools read each file later than the walk stamps   *)
(* it, and whatever crashes and rewrites came in between.  A file that was *)
(* changed and put back between the two walks has the same stamp in both,  *)
(* and may owe its yes to what it held for a while; so may one that was    *)
(* rewritten to the same length within the same second.                    *)
(***************************************************************************)
CachedYesWasEarned ==
  \A f \in cached :
    /\ answer[f] = "serve"
    /\ \E p \in passed :
         /\ p.file = f
         /\ Stamp[p.seen] = Stamp[seen[f]]
         /\ p.seen <= p.version /\ p.version <= seen[f]

(***************************************************************************)
(* Get, Put and Save: what is about to be written answers for every file   *)
(* the scan has accepted, so none of them is inspected again while it      *)
(* stays as it is.                                                         *)
(***************************************************************************)
AcceptedFilesAreRemembered ==
  phase \in {"saving", "temp"} =>
    \A f \in Files : answer[f] = "serve" =>
      records[f].valid /\ records[f].stamp = Stamp[seen[f]]

(***************************************************************************)
(* WriteFileAtomic: "an interrupted write leaves whatever was there        *)
(* before": whenever the program dies, probe.json is some complete save.   *)
(***************************************************************************)
StoreSurvivesCrashes == saved # Torn

(***************************************************************************)
(* README: "content" also decodes a frame and catches a half-downloaded    *)
(* file that "container" lets through.  A record does not say at which     *)
(* level its yes was earned.                                               *)
(***************************************************************************)
ContentLevelChecksContent ==
  \A f \in Files : level = "content" /\ answer[f] = "serve" =>
    \E p \in passed : p.file = f /\ p.level = "content"
=============================================================================
