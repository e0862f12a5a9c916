-------------------------- MODULE ContentDirectory --------------------------
(***************************************************************************)
(* internal/upnp: what a control point sees when it lists a folder with    *)
(* the ContentDirectory service and then plays a video, while the library  *)
(* is being rebuilt.                                                       *)
(*                                                                         *)
(* Every handler reads the library through several short read locks, so a  *)
(* rebuild can fall between any two of them: between the lookup of the     *)
(* folder and the reading of SystemUpdateID within one Browse, between two *)
(* pages of a listing, and between the listing and the request for a file. *)
(* The library itself is taken at its word (PublishedIndex): an index is   *)
(* replaced in one step.  Requests share no other state, so one control    *)
(* point is enough.  Control puts this together with the events that tell  *)
(* the control point when to list again.                                   *)
(***************************************************************************)
EXTENDS MediaTree, Integers

CONSTANT
  PageSize      \* the RequestedCount of the control point, 0 for everything

ASSUME ClientAssumption == PageSize \in Nat

VARIABLES
  published,    \* every index published so far; the last one is the current one
  pc,           \* where the control point, or the handler serving it, is
  folder,       \* the object id being listed
  start,        \* the SystemUpdateID the control point read before listing
  got,          \* the objects it has received
  answer,       \* objects and TotalMatches the running Browse has put together
  steady,       \* every page so far carried the UpdateID start
  played        \* the last /media/ request: object, file, and UpdateID then

client == <<pc, folder, start, got, answer, steady, played>>

updateID == Len(published)
index == published[updateID]

-----------------------------------------------------------------------------
(* The library's readers. *)

None == << -1 >>     \* a nil *Node, which no path is: names are natural numbers

\* Fault: ids resolve among the nodes that were not refused.
Node_AfterDrop(i, id) ==
  LET kept == SelectSeq(i.byID, LAMBDA p : p \notin i.rejected)
  IN  CASE id = 0 /\ i.tree # {} -> Root
        [] id \in DOMAIN kept    -> kept[id]
        [] OTHER                 -> None

Node(i, id) ==
  CASE id = 0 /\ i.tree # {} -> Root
    [] id \in DOMAIN i.byID  -> i.byID[id]
    [] OTHER                 -> None

\* didlObject: a node is known to the client by its id; path is what it is.
Object(i, p) ==
  [id |-> IF p = Root THEN 0 ELSE CHOOSE k \in DOMAIN i.byID : i.byID[k] = p, path |-> p]

SortOrder == {pair \in Paths \X Paths : SortsBefore(pair[1], pair[2])}

\* node.Children as sortTree left them; nothing hangs below a pruned folder.
Listing(i, p) ==
  LET nodes == Sorted({q \in i.tree \ {Root} : Parent(q) = p}, SortOrder)
  IN  [k \in DOMAIN nodes |-> Object(i, nodes[k])]

\* Fault: the window starts at the last object of the page before.
sliceWindow_Overlaps(in, from, count) ==
  LET rest == SubSeq(in, IF from = 0 THEN 1 ELSE from, Len(in))
  IN  IF count > 0 /\ count < Len(rest) THEN SubSeq(rest, 1, count) ELSE rest

sliceWindow(in, from, count) ==
  LET rest == SubSeq(in, from + 1, Len(in))
  IN  IF count > 0 /\ count < Len(rest) THEN SubSeq(rest, 1, count) ELSE rest

-----------------------------------------------------------------------------
NotPlayed == [object |-> [id |-> 0, path |-> Root], file |-> None, at |-> 0]

\* The server is started after the first scan.
ServiceStarts ==
  /\ published \in {<<i>> : i \in Indexes}
  /\ pc = "idle"
  /\ folder = 0 /\ start = 0 /\ got = << >>
  /\ answer = [objects |-> << >>, total |-> 0]
  /\ steady = TRUE
  /\ played = NotPlayed

\* Library.Scan.
Rebuild ==
  /\ \E i \in Indexes : published' = Append(published, i)
  /\ UNCHANGED client

\* GetSystemUpdateID, and the control point's choice of a folder to list.
GetSystemUpdateID ==
  /\ pc = "idle"
  /\ \E id \in 0 .. Cardinality(Paths) : folder' = id
  /\ start' = updateID
  /\ got' = << >> /\ steady' = TRUE /\ played' = NotPlayed
  /\ pc' = "listing"
  /\ UNCHANGED <<published, answer>>

\* Browse, first half: the folder's children, from the index current now.
BrowseLookup ==
  /\ pc = "listing"
  /\ LET node == Node(index, folder)
         children == IF node \in Containers THEN Listing(index, node) ELSE << >>
     IN  IF node = None
         THEN pc' = "idle" /\ UNCHANGED answer        \* No such object
         ELSE /\ answer' = [objects |-> sliceWindow(children, Len(got), PageSize),
                            total   |-> Len(children)]
              /\ pc' = "looked"
  /\ UNCHANGED <<published, folder, start, got, steady, played>>

\* Browse, second half: the UpdateID, from the index current by now; then the
\* control point asks for the next page until it has TotalMatches objects.
BrowseAnswer ==
  /\ pc = "looked"
  /\ got' = got \o answer.objects
  /\ steady' = (steady /\ updateID = start)
  /\ pc' = IF Len(got') >= answer.total \/ answer.objects = << >> THEN "listed" ELSE "listing"
  /\ UNCHANGED <<published, folder, start, answer, played>>

\* handleMedia: the id of the URL is resolved again, in the index current now.
\* The file is then opened; that it may be gone is not a matter of the index.
Play ==
  /\ pc = "listed"
  /\ \E k \in DOMAIN got :
       LET node == Node(index, got[k].id)
       IN  played' = [object |-> got[k],
                      file   |-> IF node \in Videos THEN node ELSE None,
                      at     |-> updateID]
  /\ UNCHANGED <<published, pc, folder, start, got, answer, steady>>

\* The control point goes on to list something else.
Leave ==
  /\ pc = "listed"
  /\ pc' = "idle"
  /\ UNCHANGED <<published, folder, start, got, answer, steady, played>>

ClientStep == GetSystemUpdateID \/ BrowseLookup \/ BrowseAnswer \/ Play \/ Leave

-----------------------------------------------------------------------------
\* The listing of a folder in the i-th index.
ListingIn(i) ==
  LET node == Node(published[i], folder)
  IN  IF node \in Containers THEN Listing(published[i], node) ELSE << >>

(***************************************************************************)
(* browse, sliceWindow: a control point that finds the same UpdateID       *)
(* before the first page and on every page holds exactly the listing of    *)
(* that index, in order, complete and without repetition, although each    *)
(* Browse reads the UpdateID after the objects and each page is a request  *)
(* of its own.                                                             *)
(***************************************************************************)
SteadyListingIsExact ==
  pc = "listed" /\ steady => got = ListingIn(start)

(***************************************************************************)
(* handleMedia: an id taken from a listing plays the video the listing     *)
(* showed, as long as SystemUpdateID is what it was when that listing was  *)
(* made.                                                                   *)
(***************************************************************************)
SteadyIdPlaysItsVideo ==
  pc = "listed" /\ steady /\ played.at = start /\ played.object.path \in Videos =>
    played.file = played.object.path
=============================================================================
