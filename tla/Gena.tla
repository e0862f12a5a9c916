-------------------------------- MODULE Gena --------------------------------
(***************************************************************************)
(* internal/upnp, gena.go and Server.Rescan: event subscriptions and the   *)
(* SystemUpdateID events pushed after a rescan.                            *)
(*                                                                         *)
(* SUBSCRIBE, UNSUBSCRIBE and rescan requests are served concurrently.     *)
(* Rescans exclude one another with rescanMu, the table of subscriptions   *)
(* is guarded by subsMu, and every event travels in a goroutine of its     *)
(* own: events are not ordered on the way, and one that fails is not sent  *)
(* again.  Each action below is one critical section, or one step that     *)
(* other goroutines can observe.                                           *)
(***************************************************************************)
EXTENDS Naturals, FiniteSets, Functions

CONSTANTS
  Sids,        \* the subscriptions that may be made; sids are never reused
  CDSids,      \* those of the ContentDirectory; the rest are ConnectionManager's
  Requests,    \* the requests for a rescan
  MaxRenewals  \* bound on how often a subscription's timeout runs out

ASSUME GenaAssumption ==
  /\ CDSids \subseteq Sids
  /\ IsFiniteSet(Requests)
  /\ MaxRenewals \in Nat

VARIABLES
  updateID,   \* Library.updateID; the server starts after the first scan
  rescan,     \* where each Rescan call is
  subs,       \* Server.subs: sequence number and expiry of each subscription
  handler,    \* where the SUBSCRIBE handler of each subscription is
  pending,    \* events notifySubscribers has still to start goroutines for
  sent,       \* every event for which a sendEvent goroutine was started
  heard,      \* those the subscriber has received
  lapses      \* how often each subscription's timeout has run out

vars == <<updateID, rescan, subs, handler, pending, sent, heard, lapses>>

Event(sid, seq, body) == [sid |-> sid, seq |-> seq, body |-> body]
Holds(r) == rescan[r] \notin {"idle", "waiting", "done"}    \* r holds rescanMu
Subscribed == DOMAIN subs

Init ==
  /\ updateID = 1
  /\ rescan = [r \in Requests |-> "idle"]
  /\ subs = [s \in {} |-> [seq |-> 0, expired |-> FALSE]]
  /\ handler = [s \in Sids |-> "idle"]
  /\ pending = {} /\ sent = {} /\ heard = {}
  /\ lapses = [s \in Sids |-> 0]

-----------------------------------------------------------------------------
(* Server.Rescan *)

RequestRescan(r) ==
  /\ rescan[r] = "idle"
  /\ rescan' = [rescan EXCEPT ![r] = "waiting"]
  /\ UNCHANGED <<updateID, subs, handler, pending, sent, heard, lapses>>

\* Fault: rescanMu is not taken.
LockRescan_Unguarded(r) ==
  /\ rescan[r] = "waiting"
  /\ rescan' = [rescan EXCEPT ![r] = "scan"]
  /\ UNCHANGED <<updateID, subs, handler, pending, sent, heard, lapses>>

LockRescan(r) ==
  /\ rescan[r] = "waiting"
  /\ \A q \in Requests : ~Holds(q)
  /\ rescan' = [rescan EXCEPT ![r] = "scan"]
  /\ UNCHANGED <<updateID, subs, handler, pending, sent, heard, lapses>>

\* Library.Scan succeeds; announceAlive follows, which touches nothing here.
ScanSucceeds(r) ==
  /\ rescan[r] = "scan"
  /\ updateID' = updateID + 1
  /\ rescan' = [rescan EXCEPT ![r] = "notify"]
  /\ UNCHANGED <<subs, handler, pending, sent, heard, lapses>>

\* Fault: the early return does not release rescanMu.
ScanFails_KeepsLock(r) ==
  /\ rescan[r] = "scan"
  /\ rescan' = [rescan EXCEPT ![r] = "returned"]
  /\ UNCHANGED <<updateID, subs, handler, pending, sent, heard, lapses>>

\* Library.Scan fails: Rescan returns and its deferred unlock runs.
ScanFails(r) ==
  /\ rescan[r] = "scan"
  /\ rescan' = [rescan EXCEPT ![r] = "done"]
  /\ UNCHANGED <<updateID, subs, handler, pending, sent, heard, lapses>>

\* Fault: a subscriber is passed over until its SUBSCRIBE has been answered.
NotifyLocked_SkipsUnanswered(r) ==
  /\ rescan[r] = "notify"
  /\ LET live == {s \in Subscribed : ~subs[s].expired /\ handler[s] = "answered"}
     IN  /\ subs' = [s \in {t \in Subscribed : ~subs[t].expired} |->
                       IF s \in live THEN [subs[s] EXCEPT !.seq = @ + 1] ELSE subs[s]]
         /\ pending' = {[sid |-> s, seq |-> subs'[s].seq] : s \in live \cap CDSids}
  /\ rescan' = [rescan EXCEPT ![r] = "spawn"]
  /\ UNCHANGED <<updateID, handler, sent, heard, lapses>>

\* notifySubscribers, under subsMu: expired subscriptions are deleted, all the
\* others are numbered on, and copies are taken of those to be told.
NotifyLocked(r) ==
  /\ rescan[r] = "notify"
  /\ LET live == {s \in Subscribed : ~subs[s].expired}
     IN  /\ subs' = [s \in live |-> [subs[s] EXCEPT !.seq = @ + 1]]
         /\ pending' = {[sid |-> s, seq |-> subs'[s].seq] : s \in live \cap CDSids}
  /\ rescan' = [rescan EXCEPT ![r] = "spawn"]
  /\ UNCHANGED <<updateID, handler, sent, heard, lapses>>

\* Fault: a subscription that has lapsed since is skipped after all.
SpawnEvent_SkipsLapsed(r) ==
  /\ rescan[r] = "spawn"
  /\ \E p \in pending :
       LET e == Event(p.sid, p.seq, updateID)
           lapsed == p.sid \in Subscribed /\ subs[p.sid].expired
       IN  /\ sent' = IF lapsed THEN sent ELSE sent \cup {e}
           /\ pending' = pending \ {p}
  /\ UNCHANGED <<updateID, rescan, subs, handler, heard, lapses>>

\* notifySubscribers, after the unlock: the body is made as the goroutine is
\* started, and so carries the UpdateID current at that moment.
SpawnEvent(r) ==
  /\ rescan[r] = "spawn"
  /\ \E p \in pending :
       LET e == Event(p.sid, p.seq, updateID)
       IN  /\ sent' = sent \cup {e}
           /\ pending' = pending \ {p}
  /\ UNCHANGED <<updateID, rescan, subs, handler, heard, lapses>>

ReturnRescan(r) ==
  /\ rescan[r] = "spawn"
  /\ pending = {}
  /\ rescan' = [rescan EXCEPT ![r] = "done"]
  /\ UNCHANGED <<updateID, subs, handler, pending, sent, heard, lapses>>

-----------------------------------------------------------------------------
(* handleSubscribe and handleUnsubscribe *)

\* A new subscription enters the table under subsMu.
Subscribe(s) ==
  /\ handler[s] = "idle"
  /\ subs' = [t \in Subscribed \cup {s} |->
                IF t = s THEN [seq |-> 0, expired |-> FALSE] ELSE subs[t]]
  /\ handler' = [handler EXCEPT ![s] = "inserted"]
  /\ UNCHANGED <<updateID, rescan, pending, sent, heard, lapses>>

\* Fault: the initial event is made from the stored subscription, not a copy.
SpawnInitial_Shared(s) ==
  /\ handler[s] = "inserted"
  /\ LET e == Event(s, IF s \in Subscribed THEN subs[s].seq ELSE 0, updateID)
     IN  sent' = sent \cup {e}
  /\ handler' = [handler EXCEPT ![s] = "spawned"]
  /\ UNCHANGED <<updateID, rescan, subs, pending, heard, lapses>>

\* The response is written to the connection's buffer, then the goroutine for
\* the initial event is started: sequence number 0, from the private copy.
SpawnInitial(s) ==
  /\ handler[s] = "inserted"
  /\ LET e == Event(s, 0, updateID)
     IN  sent' = sent \cup {e}
  /\ handler' = [handler EXCEPT ![s] = "spawned"]
  /\ UNCHANGED <<updateID, rescan, subs, pending, heard, lapses>>

\* net/http flushes a small response when the handler has returned.
AnswerSubscribe(s) ==
  /\ handler[s] = "spawned"
  /\ handler' = [handler EXCEPT ![s] = "answered"]
  /\ UNCHANGED <<updateID, rescan, subs, pending, sent, heard, lapses>>

\* The subscriber has learnt its sid, from the response or from an event.
KnowsSid(s) == handler[s] = "answered" \/ \E e \in heard : e.sid = s

\* SUBSCRIBE with a SID: a subscription that is still in the table is renewed,
\* also when its time is up.
Renew(s) ==
  /\ KnowsSid(s)
  /\ s \in Subscribed
  /\ subs' = [subs EXCEPT ![s].expired = FALSE]
  /\ UNCHANGED <<updateID, rescan, handler, pending, sent, heard, lapses>>

Unsubscribe(s) ==
  /\ KnowsSid(s)
  /\ s \in Subscribed
  /\ subs' = Restrict(subs, Subscribed \ {s})
  /\ UNCHANGED <<updateID, rescan, handler, pending, sent, heard, lapses>>

\* The subscription's timeout passes.
Lapse(s) ==
  /\ s \in Subscribed
  /\ ~subs[s].expired
  /\ lapses[s] < MaxRenewals
  /\ lapses' = [lapses EXCEPT ![s] = @ + 1]
  /\ subs' = [subs EXCEPT ![s].expired = TRUE]
  /\ UNCHANGED <<updateID, rescan, handler, pending, sent, heard>>

-----------------------------------------------------------------------------
(* sendEvent *)

\* The NOTIFY arrives.  One that fails or takes longer than eventNotifyTimeout
\* is only logged: it is an event that is sent and never heard.
Deliver(e) ==
  /\ heard' = heard \cup {e}
  /\ UNCHANGED <<updateID, rescan, subs, handler, pending, sent, lapses>>

-----------------------------------------------------------------------------
RescanStep(r) ==
  \/ ScanSucceeds(r)
  \/ ScanFails(r)
  \/ NotifyLocked(r)
  \/ SpawnEvent(r)
  \/ ReturnRescan(r)

Next ==
  \/ \E r \in Requests : RequestRescan(r) \/ LockRescan(r) \/ RescanStep(r)
  \/ \E s \in Sids :
       \/ Subscribe(s)
       \/ SpawnInitial(s)
       \/ AnswerSubscribe(s)
       \/ Renew(s)
       \/ Unsubscribe(s)
       \/ Lapse(s)
  \/ \E e \in sent \ heard : Deliver(e)

(***************************************************************************)
(* A scan ends (MediaLibrary!ScansEnd) and nothing in notifySubscribers    *)
(* blocks, so a Rescan that runs keeps running.  A sync.Mutex hands itself *)
(* to a waiter that has starved for a millisecond, so a waiting Rescan     *)
(* that keeps finding the mutex free in between gets it.                   *)
(***************************************************************************)
Fairness ==
  \A r \in Requests : WF_vars(RescanStep(r)) /\ SF_vars(LockRescan(r))

Spec == Init /\ [][Next]_vars
FairSpec == Spec /\ Fairness

-----------------------------------------------------------------------------
TypeOK ==
  /\ updateID \in 1 .. Cardinality(Requests) + 1
  /\ rescan \in [Requests -> {"idle", "waiting", "scan", "notify", "spawn", "done"}]
  /\ Subscribed \subseteq Sids
  /\ \A s \in Subscribed : subs[s] \in [seq : Nat, expired : BOOLEAN]
  /\ handler \in [Sids -> {"idle", "inserted", "spawned", "answered"}]
  /\ pending \subseteq [sid : CDSids, seq : Nat]
  /\ sent \subseteq [sid : Sids, seq : Nat, body : 1 .. updateID]
  /\ heard \subseteq sent
  /\ lapses \in [Sids -> 0 .. MaxRenewals]

(***************************************************************************)
(* handleSubscribe's private copy: a subscriber tells events apart by SEQ, *)
(* so no two events of one subscription carry the same number.             *)
(***************************************************************************)
SeqNamesOneEvent ==
  \A e, f \in sent : e.sid = f.sid /\ e.seq = f.seq => e = f

(***************************************************************************)
(* Rescan under rescanMu: of two events pushed after rescans, the one with *)
(* the higher SEQ carries the higher SystemUpdateID, so a subscriber that  *)
(* keeps the event of highest SEQ never goes back to an older index.  (The *)
(* initial event is exempt: its body is read after the table is unlocked   *)
(* and may be ahead of the event numbered 1.)                              *)
(***************************************************************************)
EventsFollowTheLibrary ==
  \A e, f \in sent :
    e.sid = f.sid /\ 1 <= e.seq /\ e.seq < f.seq => e.body < f.body

Settled(s) ==
  /\ \A r \in Requests : ~Holds(r)
  /\ s \in Subscribed \cap CDSids
  /\ handler[s] # "inserted"

(***************************************************************************)
(* handleSubscribe and notifySubscribers together: once no rescan is       *)
(* running, the last event pushed to every ContentDirectory subscription   *)
(* carries the current SystemUpdateID, however the SUBSCRIBE and the       *)
(* rescans were interleaved.  The update is in the initial event or in a   *)
(* later one; it never falls between the two.                              *)
(***************************************************************************)
NobodyIsLeftBehind ==
  \A s \in Sids : Settled(s) =>
    \E e \in sent :
      /\ e.sid = s /\ e.body = updateID
      /\ \A f \in sent : f.sid = s => f.seq <= e.seq

(***************************************************************************)
(* notifySubscribers numbers every subscription on and pushes for those of *)
(* ContentDirectory: each of their numbers is pushed, so that a gap in the *)
(* SEQ such a subscriber has seen means a lost event.                      *)
(***************************************************************************)
SeqHasNoGaps ==
  \A s \in Sids : Settled(s) =>
    {e.seq : e \in {f \in sent : f.sid = s}} = 0 .. subs[s].seq

(***************************************************************************)
(* Rescan: a request for a rescan is answered, whether its scan and those  *)
(* before it succeed or fail.                                              *)
(***************************************************************************)
RescansFinish ==
  \A r \in Requests : (rescan[r] = "waiting") ~> (rescan[r] = "done")

(***************************************************************************)
(* The comment in handleSubscribe: "The response must reach the client     *)
(* before the initial event, so the event is pushed from a separate        *)
(* goroutine."                                                             *)
(***************************************************************************)
ResponsePrecedesInitialEvent ==
  \A e \in heard : e.seq = 0 => handler[e.sid] = "answered"
=============================================================================
