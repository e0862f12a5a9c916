---------------------------- MODULE MediaLibrary ----------------------------
(***************************************************************************)
(* internal/library: Library.Scan rebuilds the index of the media folder.  *)
(*                                                                         *)
(* The scan walks the folder, hands every video to a pool of workers that  *)
(* ask the Validator about it, drops the refused ones, prunes the folders  *)
(* this leaves empty, and publishes the result under the library's lock.   *)
(* Scans do not overlap: main runs the first one before the server starts  *)
(* and Server.Rescan holds rescanMu around every later one.                *)
(*                                                                         *)
(* The folder changes while it is read.  A directory listing is therefore  *)
(* any subset of the entries that may exist, or an error, and a verdict is *)
(* any verdict.                                                            *)
(***************************************************************************)
EXTENDS MediaTree

CONSTANTS
  Workers,      \* Options.Workers after New: at least 1
  Validating,   \* Options.Validate is not nil
  MaxDepth,     \* Options.MaxDepth, 0 for unlimited
  MaxScans      \* bound on the scans that publish

ASSUME OptionsAssumption ==
  /\ Workers \in Nat \ {0}
  /\ Validating \in BOOLEAN
  /\ MaxDepth \in Nat
  /\ MaxScans \in Nat

VARIABLES
  phase,      \* where Scan is
  listed,     \* entries of the directories read so far by this scan
  walked,     \* builder.byID without the root: the nodes in allocation order
  todo,       \* videos the feeder of probeAll has still to hand out
  pool,       \* the number of worker goroutines probeAll started
  at,         \* the video each worker is probing
  probed,     \* videos probeNode has finished with
  refused,    \* videos with rejected set
  index,      \* root, byID, stats and rejected of the Library
  updateID,   \* Library.updateID
  outcome     \* what the last Scan returned

builder == <<listed, walked, todo, pool, at, probed, refused>>
library == <<index, updateID>>
vars == <<phase, builder, library, outcome>>

None == << >>     \* an idle worker; no video has the root's path
WorkerIDs == 1 .. Workers
Idle == [w \in WorkerIDs |-> None]
WalkedVideos == Elements(walked) \cap Videos

Init ==
  /\ phase = "idle"
  /\ listed = {} /\ walked = << >>
  /\ todo = {} /\ pool = 0 /\ at = Idle
  /\ probed = {} /\ refused = {}
  /\ index = NoIndex /\ updateID = 0
  /\ outcome = "none"

-----------------------------------------------------------------------------
\* os.ReadDir(d): the entries seen; none after an error, or below MaxDepth.
ReadDir(d, got) ==
  /\ got \subseteq Children(d)
  /\ MaxDepth > 0 /\ Len(d) >= MaxDepth => got = {}

\* Scan: the root exists and is a directory, so a builder is made and walk
\* lists the root.
StartScan ==
  /\ phase = "idle"
  /\ updateID < MaxScans
  /\ \E got \in SUBSET Children(Root) : ReadDir(Root, got) /\ listed' = got
  /\ walked' = << >> /\ todo' = {} /\ pool' = 0 /\ at' = Idle
  /\ probed' = {} /\ refused' = {}
  /\ phase' = "walk"
  /\ UNCHANGED <<library, outcome>>

\* Fault: a failed scan throws the old index away.
ScanFails_ForgetsIndex ==
  /\ phase = "idle"
  /\ outcome' = "failed"
  /\ index' = NoIndex
  /\ UNCHANGED <<phase, builder, updateID>>

\* Scan: the root is missing or is not a directory.
ScanFails ==
  /\ phase = "idle"
  /\ outcome' = "failed"
  /\ UNCHANGED <<phase, builder, library>>

\* Fault: the entries of a directory are taken in no particular order.
IsNext_Unsorted(p) == p \in listed \ Elements(walked)

\* walk takes the entries of a directory in sorted order, and goes into a
\* folder before it takes the folder's next sibling.
IsNext(p) ==
  LET pending == listed \ Elements(walked)
  IN  p \in pending /\ \A q \in pending : Rank[p] <= Rank[q]

WalkDir(d) ==
  /\ phase = "walk"
  /\ d \in Dirs /\ IsNext(d)
  /\ walked' = Append(walked, d)
  /\ \E got \in SUBSET Children(d) : ReadDir(d, got) /\ listed' = listed \cup got
  /\ UNCHANGED <<phase, todo, pool, at, probed, refused, library, outcome>>

\* A video that can no longer be stat'ed keeps its node.
WalkVideo(v) ==
  /\ phase = "walk"
  /\ v \in Videos /\ IsNext(v)
  /\ walked' = Append(walked, v)
  /\ UNCHANGED <<phase, listed, todo, pool, at, probed, refused, library, outcome>>

\* Fault: one worker for every video, whatever Workers says.
StartProbing_Unbounded ==
  /\ phase = "walk"
  /\ listed \subseteq Elements(walked)
  /\ todo' = WalkedVideos
  /\ pool' = Cardinality(WalkedVideos)
  /\ phase' = "probe"
  /\ UNCHANGED <<listed, walked, at, probed, refused, library, outcome>>

\* walk is done; probeAll collects the videos and starts its workers, never
\* more of them than there are videos.
StartProbing ==
  /\ phase = "walk"
  /\ listed \subseteq Elements(walked)
  /\ todo' = WalkedVideos
  /\ pool' = IF Workers > Cardinality(WalkedVideos) THEN Cardinality(WalkedVideos) ELSE Workers
  /\ phase' = "probe"
  /\ UNCHANGED <<listed, walked, at, probed, refused, library, outcome>>

\* Fault: the feeder does not move on after handing a video out.
HandOut_KeepsVideo(w) ==
  /\ phase = "probe"
  /\ w <= pool /\ at[w] = None
  /\ \E v \in todo :
       /\ \A u \in todo : Rank[v] <= Rank[u]
       /\ at' = [at EXCEPT ![w] = v]
  /\ UNCHANGED <<phase, listed, walked, todo, pool, probed, refused, library, outcome>>

\* Fault: the loop that starts the workers stops one short.
HandOut_OneWorkerShort(w) ==
  /\ phase = "probe"
  /\ w < pool /\ at[w] = None
  /\ \E v \in todo :
       /\ \A u \in todo : Rank[v] <= Rank[u]
       /\ at' = [at EXCEPT ![w] = v]
       /\ todo' = todo \ {v}
  /\ UNCHANGED <<phase, listed, walked, pool, probed, refused, library, outcome>>

\* The jobs channel is unbuffered: the feeder hands the next video to a worker
\* that is waiting for one.
HandOut(w) ==
  /\ phase = "probe"
  /\ w <= pool /\ at[w] = None
  /\ \E v \in todo :
       /\ \A u \in todo : Rank[v] <= Rank[u]
       /\ at' = [at EXCEPT ![w] = v]
       /\ todo' = todo \ {v}
  /\ UNCHANGED <<phase, listed, walked, pool, probed, refused, library, outcome>>

\* probeNode: the verdict is the Validator's; without one every file is served.
Probe(w) ==
  /\ phase = "probe"
  /\ at[w] # None
  /\ \E serve \in BOOLEAN :
       /\ ~Validating => serve
       /\ refused' = IF serve THEN refused ELSE refused \cup {at[w]}
  /\ probed' = probed \cup {at[w]}
  /\ at' = [at EXCEPT ![w] = None]
  /\ UNCHANGED <<phase, listed, walked, todo, pool, library, outcome>>

\* Fault: the scan goes on as soon as everything is handed out, without wg.Wait.
ProbingDone_NoWait ==
  /\ phase = "probe"
  /\ todo = {}
  /\ phase' = "publish"
  /\ UNCHANGED <<builder, library, outcome>>

\* jobs is closed once the feeder is done, and wg.Wait returns when the last
\* worker has drained it.
ProbingDone ==
  /\ phase = "probe"
  /\ todo = {}
  /\ at = Idle
  /\ phase' = "publish"
  /\ UNCHANGED <<builder, library, outcome>>

\* dropRejected, prune, the counts and sortTree work on the builder's private
\* nodes; the library changes in one critical section.
Publish ==
  /\ phase = "publish"
  /\ index' = IndexOf(walked, refused)
  /\ updateID' = updateID + 1
  /\ phase' = "published"
  /\ UNCHANGED <<builder, outcome>>

\* AfterScan runs outside the lock, then Scan returns the statistics.
FinishScan ==
  /\ phase = "published"
  /\ phase' = "idle"
  /\ outcome' = "ok"
  /\ UNCHANGED <<builder, library>>

Next ==
  \/ StartScan
  \/ ScanFails
  \/ \E p \in Paths : WalkDir(p) \/ WalkVideo(p)
  \/ StartProbing
  \/ \E w \in WorkerIDs : HandOut(w) \/ Probe(w)
  \/ ProbingDone
  \/ Publish
  \/ FinishScan

(***************************************************************************)
(* A scan that has started keeps running: the scanning goroutine is never  *)
(* blocked by anything but its workers, and a worker's file is decided in  *)
(* bounded time, because the Validator runs its tools under a timeout.     *)
(* Nothing obliges anybody to start a scan.                                *)
(***************************************************************************)
ScanSteps ==
  \/ \E p \in Paths : WalkDir(p) \/ WalkVideo(p)
  \/ StartProbing \/ ProbingDone \/ Publish \/ FinishScan

Fairness ==
  /\ WF_vars(ScanSteps)
  /\ \A w \in WorkerIDs : WF_vars(HandOut(w)) /\ WF_vars(Probe(w))

Spec == Init /\ [][Next]_vars
FairSpec == Spec /\ Fairness

-----------------------------------------------------------------------------
TypeOK ==
  /\ phase \in {"idle", "walk", "probe", "publish", "published"}
  /\ listed \subseteq Paths
  /\ walked \in Seq(Paths)
  /\ todo \subseteq Videos
  /\ pool \in 0 .. Workers
  /\ at \in [WorkerIDs -> Videos \cup {None}]
  /\ probed \subseteq Videos
  /\ refused \subseteq Videos
  /\ index \in IndexType
  /\ updateID \in Nat
  /\ outcome \in {"none", "ok", "failed"}

(***************************************************************************)
(* probeAll: a video that the pool still owes an answer for is in exactly  *)
(* one place, waiting to be handed out or in the hands of one worker, and  *)
(* no video is probed twice.  Two workers on one node would race on its    *)
(* Info and rejected fields.                                               *)
(***************************************************************************)
EachVideoProbedOnce ==
  /\ \A w, x \in WorkerIDs : at[w] = at[x] /\ at[w] # None => w = x
  /\ \A w \in WorkerIDs : at[w] \notin todo \cup probed
  /\ todo \cap probed = {}

(***************************************************************************)
(* Scan: what is published is a coherent index, whatever the folder did    *)
(* during the walk and whatever was refused: no dangling parent, no empty  *)
(* folder, every video either offered or listed as not ready.              *)
(***************************************************************************)
IndexCoherent == updateID > 0 => WellFormed(index)

(***************************************************************************)
(* dropRejected runs after wg.Wait: a video reaches the published tree     *)
(* only if this scan's probeNode has finished with it and accepted it.     *)
(***************************************************************************)
OnlyCheckedVideosAppear ==
  [][index' # index => index'.tree \cap Videos \subseteq probed \ refused]_vars

(***************************************************************************)
(* allocID during the walk: the id of an entry is decided by the entries   *)
(* the walk met before it and by nothing else.  Neither a verdict nor the  *)
(* workers' timing renumbers the library, so URLs that clients hold stay   *)
(* good across rescans of an unchanged folder.                             *)
(***************************************************************************)
MetBefore(i, p) == {q \in Elements(i.byID) : Rank[q] < Rank[p]}

IdsFollowTheFolder ==
  [][\A j \in DOMAIN index.byID, k \in DOMAIN index'.byID :
       LET p == index.byID[j]
       IN  p = index'.byID[k] /\ MetBefore(index, p) = MetBefore(index', p) => j = k]_vars

(***************************************************************************)
(* Scan: every scan that starts comes to an end, so a rescan request is    *)
(* answered and rescanMu is released.                                      *)
(***************************************************************************)
ScansEnd == (phase # "idle") ~> (phase = "idle")

(***************************************************************************)
(* Readers see no intermediate state of all this: the library is a         *)
(* PublishedIndex.                                                         *)
(***************************************************************************)
Abstract == INSTANCE PublishedIndex WITH
  NoIndex <- NoIndex, WellFormed <- WellFormed, index <- index, updateID <- updateID
ReadersSeeWholeIndexes == Abstract!Spec

(***************************************************************************)
(* The comment on Node.rejected: "Rejected videos are removed before the   *)
(* tree is published, so nothing outside a scan sees a node with this      *)
(* set."  Library.Node reads byID.                                         *)
(***************************************************************************)
RejectedUnreachable == Elements(index.byID) \cap index.rejected = {}
=============================================================================
