------------------------------- MODULE Control -------------------------------
(***************************************************************************)
(* A control point that subscribes to the ContentDirectory and lists a     *)
(* folder again whenever an event tells it of an index newer than the one  *)
(* it has listed: ContentDirectory and Gena around one library.            *)
(*                                                                         *)
(* The SystemUpdateID of the events and the one of the listings are the    *)
(* same counter, Library.updateID: the number of indexes published.        *)
(***************************************************************************)
EXTENDS ContentDirectory

CONSTANTS Sids, CDSids, Requests, MaxRenewals     \* as in Gena

ASSUME FeedAssumption ==
  /\ CDSids \subseteq Sids
  /\ IsFiniteSet(Requests)
  /\ MaxRenewals \in Nat

VARIABLES rescan, subs, handler, pending, sent, heard, lapses     \* as in Gena

events == <<rescan, subs, handler, pending, sent, heard, lapses>>
service == <<published, client>>

Feed == INSTANCE Gena WITH
  Sids <- Sids, CDSids <- CDSids, Requests <- Requests, MaxRenewals <- MaxRenewals,
  updateID <- updateID, rescan <- rescan, subs <- subs, handler <- handler,
  pending <- pending, sent <- sent, heard <- heard, lapses <- lapses

Init ==
  /\ ServiceStarts
  /\ Feed!Init

\* The scan of a rescan publishes an index and its UpdateID in one step.
Rescan(r) == Rebuild /\ Feed!ScanSucceeds(r)

RescanStep(r) ==
  \/ Feed!RequestRescan(r)
  \/ Feed!LockRescan(r)
  \/ Feed!ScanFails(r)
  \/ Feed!NotifyLocked(r)
  \/ Feed!SpawnEvent(r)
  \/ Feed!ReturnRescan(r)

SubscriberStep(s) ==
  \/ Feed!Subscribe(s)
  \/ Feed!SpawnInitial(s)
  \/ Feed!AnswerSubscribe(s)
  \/ Feed!Renew(s)
  \/ Feed!Unsubscribe(s)
  \/ Feed!Lapse(s)

Next ==
  \/ ClientStep /\ UNCHANGED events
  \/ \E r \in Requests : Rescan(r)
  \/ UNCHANGED service /\ \E r \in Requests : RescanStep(r)
  \/ UNCHANGED service /\ \E s \in Sids : SubscriberStep(s)
  \/ UNCHANGED service /\ \E e \in sent \ heard : Feed!Deliver(e)

Spec == Init /\ [][Next]_<<service, events>>

-----------------------------------------------------------------------------
\* The subscription has settled, none of its events was lost, and none of them
\* tells of an index newer than the one that was listed.
UpToDate(s) ==
  /\ Feed!Settled(s)
  /\ \A e \in sent : e.sid = s => e \in heard /\ e.body <= start

(***************************************************************************)
(* Server.Rescan, handleSubscribe and browse together: a control point     *)
(* that lists again whenever an event tells it to, and has nothing left to *)
(* do, shows the current contents of the folder, however its SUBSCRIBE and *)
(* its Browse requests were interleaved with the rescans.                  *)
(***************************************************************************)
ListingsCatchUp ==
  pc = "listed" /\ (\E s \in Sids : UpToDate(s)) => got = ListingIn(updateID)
==============================================================================
