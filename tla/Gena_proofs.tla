----------------------------- MODULE Gena_proofs -----------------------------
(***************************************************************************)
(* Safety of Gena, for every set of subscriptions, any number of rescans   *)
(* and of lapses.                                                          *)
(*                                                                         *)
(* What a subscriber may rely on once things are quiet (NobodyIsLeftBehind *)
(* and SeqHasNoGaps) is a statement about every moment before: each number *)
(* taken is either pushed, about to be pushed, or that of an initial event *)
(* about to be made (NumbersAreUsed), and the last of them carries the     *)
(* current UpdateID unless a rescan is between the scan and the            *)
(* notification (LastIsCurrent).                                           *)
(***************************************************************************)
EXTENDS Gena, FiniteSetTheorems, TLAPS

\* The rescans whose scan is over, successful or not.
Past == {r \in Requests : rescan[r] \in {"notify", "spawn", "done"}}

\* rescanMu: one rescan at a time, and each adds at most one to the UpdateID.
RescansExclude ==
  /\ \A q, r \in Requests : Holds(q) /\ Holds(r) => q = r
  /\ updateID <= Cardinality(Past) + 1

\* Sids are not used again.
SidsAreFresh ==
  /\ \A s \in Subscribed : handler[s] # "idle"
  /\ \A e \in sent : handler[e.sid] # "idle"
  /\ \A p \in pending : handler[p.sid] # "idle"

\* What has been pushed, within the numbers taken so far.
SentSound ==
  \A e \in sent :
    /\ e.seq = 0 => handler[e.sid] \in {"spawned", "answered"}
    /\ e.sid \in Subscribed => e.seq <= subs[e.sid].seq
    /\ e.seq # 0 => \A r \in Requests : rescan[r] = "notify" => e.body < updateID

\* What is still to be pushed by the one rescan that notifies: one event a
\* subscription, numbered after all of its others.
PendingSound ==
  /\ pending # {} => \E r \in Requests : rescan[r] = "spawn"
  /\ \A p \in pending :
       /\ p.seq # 0
       /\ p.sid \in Subscribed => p.seq = subs[p.sid].seq
       /\ \A q \in pending : q.sid = p.sid => q = p
       /\ \A e \in sent : e.sid = p.sid => e.seq < p.seq /\ (e.seq # 0 => e.body < updateID)

\* A number that needs no event any more, or not yet.
Used(s, n) ==
  \/ \E e \in sent : e.sid = s /\ e.seq = n
  \/ \E p \in pending : p.sid = s /\ p.seq = n
  \/ n = 0 /\ handler[s] = "inserted"

NumbersAreUsed ==
  \A s \in Subscribed \cap CDSids : \A n \in 0 .. subs[s].seq : Used(s, n)

LastIsCurrent ==
  (\A r \in Requests : rescan[r] # "notify") =>
    \A s \in Subscribed \cap CDSids :
      \/ \E e \in sent : e.sid = s /\ e.seq = subs[s].seq /\ e.body = updateID
      \/ \E p \in pending : p.sid = s /\ p.seq = subs[s].seq
      \/ subs[s].seq = 0 /\ handler[s] = "inserted"

IInv ==
  /\ TypeOK
  /\ RescansExclude
  /\ SidsAreFresh
  /\ SentSound
  /\ PendingSound
  /\ SeqNamesOneEvent
  /\ EventsFollowTheLibrary
  /\ NumbersAreUsed
  /\ LastIsCurrent

-----------------------------------------------------------------------------
(***************************************************************************)
(* The rescans that are past are finitely many, one more with each that    *)
(* leaves its scan.                                                        *)
(***************************************************************************)
LEMMA PastGrows ==
  /\ IsFiniteSet(Past) /\ Cardinality(Past) \in Nat
  /\ Cardinality(Past) <= Cardinality(Requests) /\ Cardinality(Requests) \in Nat
  /\ \A r : r \notin Past => Cardinality(Past \cup {r}) = Cardinality(Past) + 1
<1>1. Past \subseteq Requests /\ IsFiniteSet(Requests)
  BY GenaAssumption DEF Past
<1>2. IsFiniteSet(Past) /\ Cardinality(Past) <= Cardinality(Requests)
  BY <1>1, FS_Subset
<1> QED
  BY <1>1, <1>2, FS_CardinalityType, FS_AddElement

(***************************************************************************)
(* The initial state of Gena satisfies the inductive invariant.            *)
(***************************************************************************)
LEMMA InitIInv == Init => IInv
<1> SUFFICES ASSUME Init PROVE IInv
  OBVIOUS
<1> USE DEF Init
<1>1. Subscribed = {}
  BY DEF Subscribed
<1>2. TypeOK
  <2>1. updateID \in 1 .. Cardinality(Requests) + 1
    BY PastGrows
  <2>2. lapses \in [Sids -> 0 .. MaxRenewals]
    BY GenaAssumption
  <2> QED
    BY <1>1, <2>1, <2>2 DEF TypeOK
<1>3. RescansExclude
  BY PastGrows DEF RescansExclude, Holds
<1>4. SidsAreFresh /\ SentSound /\ PendingSound /\ SeqNamesOneEvent /\ EventsFollowTheLibrary
  BY <1>1 DEF SidsAreFresh, SentSound, PendingSound, SeqNamesOneEvent, EventsFollowTheLibrary
<1>5. NumbersAreUsed /\ LastIsCurrent
  BY <1>1 DEF NumbersAreUsed, LastIsCurrent
<1> QED
  BY <1>2, <1>3, <1>4, <1>5 DEF IInv

-----------------------------------------------------------------------------
(***************************************************************************)
(* The steps of a rescan that neither bump the UpdateID nor push anything. *)
(***************************************************************************)
LEMMA RescanMovesOn ==
  ASSUME IInv, NEW r \in Requests,
         RequestRescan(r) \/ LockRescan(r) \/ ScanFails(r) \/ ReturnRescan(r)
  PROVE  IInv'
<1> USE DEF IInv
<1>1. PICK to \in {"waiting", "scan", "done"} :
        /\ rescan' = [rescan EXCEPT ![r] = to]
        /\ UNCHANGED <<updateID, subs, handler, pending, sent, heard, lapses>>
        /\ to = "waiting" => ~Holds(r)
        /\ to = "scan" => \A q \in Requests : ~Holds(q)
        /\ rescan[r] \notin {"notify", "done"} /\ (rescan[r] = "spawn" => pending = {})
  BY DEF RequestRescan, LockRescan, ScanFails, ReturnRescan, Holds
<1>2. /\ rescan'[r] = to
      /\ \A q \in Requests \ {r} : rescan'[q] = rescan[q]
  BY <1>1 DEF TypeOK
<1>3. TypeOK'
  BY <1>1 DEF TypeOK, Subscribed
<1>4. RescansExclude'
  <2>1. \A q \in Requests : Holds(q)' => Holds(q) \/ (q = r /\ to = "scan")
    BY <1>2 DEF Holds
  <2>2. \A p, q \in Requests : Holds(p)' /\ Holds(q)' => p = q
    BY <1>1, <2>1 DEF RescansExclude
  <2>3. Past \subseteq Past' /\ IsFiniteSet(Past') /\ Cardinality(Past') \in Nat
    <3>1. Past' \subseteq Requests /\ IsFiniteSet(Requests)
      BY GenaAssumption DEF Past
    <3>2. rescan[r] = "spawn" => to = "done"
      BY <1>1 DEF RequestRescan, LockRescan, ScanFails, ReturnRescan, Holds, RescansExclude
    <3>3. Past \subseteq Past'
      BY <1>1, <1>2, <3>2 DEF Past
    <3> QED
      BY <3>1, <3>3, FS_Subset, FS_CardinalityType
  <2>4. Cardinality(Past) <= Cardinality(Past')
    BY <2>3, FS_Subset
  <2> QED
    BY <1>1, <2>2, <2>3, <2>4, PastGrows DEF RescansExclude, TypeOK
<1>5. Subscribed' = Subscribed
  BY <1>1 DEF Subscribed
<1>6. SidsAreFresh' /\ SeqNamesOneEvent' /\ EventsFollowTheLibrary' /\ NumbersAreUsed'
  BY <1>1, <1>5 DEF SidsAreFresh, SeqNamesOneEvent, EventsFollowTheLibrary, NumbersAreUsed, Used
<1>7. SentSound'
  BY <1>1, <1>2, <1>5 DEF SentSound
<1>8. PendingSound'
  BY <1>1, <1>2, <1>5 DEF PendingSound
<1>9. LastIsCurrent'
  BY <1>1, <1>2, <1>5 DEF LastIsCurrent
<1> QED
  BY <1>3, <1>4, <1>6, <1>7, <1>8, <1>9

(***************************************************************************)
(* A new index: what was pushed is older, and what is not pushed yet will  *)
(* be newer.                                                               *)
(***************************************************************************)
LEMMA ScanSucceedsSound ==
  ASSUME IInv, NEW r \in Requests, ScanSucceeds(r)
  PROVE  IInv'
<1> USE DEF IInv
<1>1. /\ rescan[r] = "scan" /\ rescan' = [rescan EXCEPT ![r] = "notify"]
      /\ updateID' = updateID + 1
      /\ UNCHANGED <<subs, handler, pending, sent, heard, lapses>>
  BY DEF ScanSucceeds
<1>2. /\ rescan'[r] = "notify"
      /\ \A q \in Requests \ {r} : rescan'[q] = rescan[q] /\ rescan[q] \in {"idle", "waiting", "done"}
  BY <1>1 DEF TypeOK, RescansExclude, Holds
<1>3. pending = {}
  BY <1>1, <1>2 DEF PendingSound
<1>4. RescansExclude' /\ updateID' \in 1 .. Cardinality(Requests) + 1
  <2>1. Past' = Past \cup {r} /\ r \notin Past
    BY <1>1, <1>2 DEF Past
  <2>2. Cardinality(Past') = Cardinality(Past) + 1
    BY <2>1, PastGrows
  <2>3. Past' \subseteq Requests /\ IsFiniteSet(Requests)
    BY GenaAssumption DEF Past
  <2>4. Cardinality(Past') <= Cardinality(Requests)
    BY <2>3, FS_Subset
  <2>5. \A p, q \in Requests : Holds(p)' /\ Holds(q)' => p = q
    BY <1>2 DEF Holds
  <2>6. updateID \in Nat /\ updateID >= 1 /\ updateID <= Cardinality(Past) + 1
    BY PastGrows DEF RescansExclude, TypeOK
  <2> QED
    BY <1>1, <2>2, <2>4, <2>5, <2>6, PastGrows DEF RescansExclude
<1>5. \A e \in sent : e.body \in 1 .. updateID /\ e.body \in 1 .. updateID' /\ e.body < updateID'
  BY <1>1, PastGrows DEF TypeOK
<1>6. TypeOK'
  <2>1. sent' \subseteq [sid : Sids, seq : Nat, body : 1 .. updateID']
    BY <1>1, <1>5 DEF TypeOK
  <2> QED
    BY <1>1, <1>4, <2>1 DEF TypeOK, Subscribed
<1>7. SidsAreFresh' /\ SeqNamesOneEvent' /\ EventsFollowTheLibrary' /\ NumbersAreUsed'
  BY <1>1 DEF SidsAreFresh, SeqNamesOneEvent, EventsFollowTheLibrary, NumbersAreUsed, Used, Subscribed
<1>8. SentSound'
  BY <1>1, <1>5 DEF SentSound, Subscribed
<1>9. PendingSound'
  BY <1>1, <1>3 DEF PendingSound
<1>10. LastIsCurrent'
  BY <1>2 DEF LastIsCurrent
<1> QED
  BY <1>4, <1>6, <1>7, <1>8, <1>9, <1>10

(***************************************************************************)
(* Under subsMu every live subscription takes the next number, and those   *)
(* of the ContentDirectory are to be told.                                 *)
(***************************************************************************)
LEMMA NotifyLockedSound ==
  ASSUME IInv, NEW r \in Requests, NotifyLocked(r)
  PROVE  IInv'
<1> USE DEF IInv
<1> DEFINE live == {s \in Subscribed : ~subs[s].expired}
<1>1. /\ rescan[r] = "notify" /\ rescan' = [rescan EXCEPT ![r] = "spawn"]
      /\ subs' = [s \in live |-> [subs[s] EXCEPT !.seq = subs[s].seq + 1]]
      /\ pending' = {[sid |-> s, seq |-> subs'[s].seq] : s \in live \cap CDSids}
      /\ UNCHANGED <<updateID, handler, sent, heard, lapses>>
  BY DEF NotifyLocked
<1>2. /\ rescan'[r] = "spawn"
      /\ \A q \in Requests \ {r} : rescan'[q] = rescan[q] /\ rescan[q] \in {"idle", "waiting", "done"}
  BY <1>1 DEF TypeOK, RescansExclude, Holds
<1>3. pending = {}
  BY <1>1, <1>2 DEF PendingSound
<1>4. /\ Subscribed' = live /\ live \subseteq Subscribed /\ live \subseteq Sids
      /\ \A s \in live : /\ subs[s].seq \in Nat /\ subs'[s].seq = subs[s].seq + 1
                         /\ subs'[s] \in [seq : Nat, expired : BOOLEAN]
  <2>1. /\ Subscribed' = live
        /\ \A s \in live : subs'[s] = [subs[s] EXCEPT !.seq = subs[s].seq + 1]
    <3> HIDE DEF live
    <3> QED
      BY <1>1 DEF Subscribed
  <2>2. live \subseteq Subscribed /\ \A s \in live : subs[s] \in [seq : Nat, expired : BOOLEAN]
    BY DEF TypeOK
  <2>3. live \subseteq Sids
    BY <2>2 DEF TypeOK
  <2> HIDE DEF live
  <2>4. \A s \in live : subs[s].seq \in Nat /\ subs[s].seq + 1 \in Nat
    BY <2>2
  <2>5. \A s \in live : /\ subs'[s].seq = subs[s].seq + 1
                       /\ subs'[s] \in [seq : Nat, expired : BOOLEAN]
    BY <2>1, <2>2, <2>4
  <2> QED
    BY <2>1, <2>2, <2>3, <2>4, <2>5
<1> HIDE DEF live
<1>5. \A p \in pending' : p.sid \in live \cap CDSids /\ p.seq = subs[p.sid].seq + 1
  <2> SUFFICES ASSUME NEW p \in pending'
               PROVE  p.sid \in live \cap CDSids /\ p.seq = subs[p.sid].seq + 1
    OBVIOUS
  <2>1. PICK s \in live \cap CDSids : p = [sid |-> s, seq |-> subs'[s].seq]
    BY <1>1
  <2> QED
    BY <1>4, <2>1
<1>6. \A s \in live \cap CDSids : \E p \in pending' : p.sid = s /\ p.seq = subs'[s].seq
  <2> SUFFICES ASSUME NEW s \in live \cap CDSids
               PROVE  \E p \in pending' : p.sid = s /\ p.seq = subs'[s].seq
    OBVIOUS
  <2>1. pending' = {[sid |-> t, seq |-> subs'[t].seq] : t \in live \cap CDSids}
    BY <1>1
  <2>2. [sid |-> s, seq |-> subs'[s].seq] \in pending'
    BY <2>1
  <2> QED
    BY <2>2
<1>7. pending' \subseteq [sid : CDSids, seq : Nat]
  BY <1>1, <1>4
<1>8. TypeOK'
  <2>1. rescan' \in [Requests -> {"idle", "waiting", "scan", "notify", "spawn", "done"}]
    BY <1>1 DEF TypeOK
  <2> QED
    BY <1>1, <1>4, <1>7, <2>1 DEF TypeOK
<1>9. RescansExclude'
  <2>1. Past' = Past
    BY <1>1, <1>2 DEF Past
  <2>2. \A p, q \in Requests : Holds(p)' /\ Holds(q)' => p = q
    BY <1>2 DEF Holds
  <2> QED
    BY <1>1, <2>1, <2>2 DEF RescansExclude
<1>10. SidsAreFresh'
  BY <1>1, <1>4, <1>5 DEF SidsAreFresh
<1>11. SentSound'
  <2>1. \A e \in sent : e.sid \in live => e.seq <= subs'[e.sid].seq
    BY <1>4 DEF SentSound, TypeOK
  <2>2. \A q \in Requests : rescan'[q] # "notify"
    BY <1>2
  <2> QED
    BY <1>1, <1>4, <2>1, <2>2 DEF SentSound
<1>12. PendingSound'
  <2>1. \A p \in pending' : \A q \in pending' : q.sid = p.sid => q = p
    BY <1>1
  <2>2. \A p \in pending' : p.seq # 0 /\ p.seq = subs'[p.sid].seq
    BY <1>4, <1>5
  <2>3. \A p \in pending' : \A e \in sent : e.sid = p.sid => e.seq < p.seq
    BY <1>4, <1>5 DEF SentSound, TypeOK
  <2>4. \A e \in sent : e.seq # 0 => e.body < updateID
    BY <1>1 DEF SentSound
  <2> QED
    BY <1>1, <1>2, <2>1, <2>2, <2>3, <2>4 DEF PendingSound
<1>13. SeqNamesOneEvent' /\ EventsFollowTheLibrary'
  BY <1>1 DEF SeqNamesOneEvent, EventsFollowTheLibrary
<1>14. NumbersAreUsed'
  <2> SUFFICES ASSUME NEW s \in live \cap CDSids, NEW n \in 0 .. subs[s].seq + 1
               PROVE  Used(s, n)'
    BY <1>4 DEF NumbersAreUsed
  <2>1. CASE n = subs[s].seq + 1
    <3>1. PICK p \in pending' : p.sid = s /\ p.seq = n
      BY <1>4, <1>6, <2>1
    <3> QED
      BY <3>1 DEF Used
  <2>2. CASE n # subs[s].seq + 1
    <3>1. n \in 0 .. subs[s].seq
      BY <1>4, <2>2
    <3>2. Used(s, n)
      BY <1>4, <3>1 DEF NumbersAreUsed
    <3> QED
      BY <1>1, <1>3, <3>2 DEF Used
  <2> QED
    BY <2>1, <2>2
<1>15. LastIsCurrent'
  BY <1>4, <1>6 DEF LastIsCurrent
<1> QED
  BY <1>8, <1>9, <1>10, <1>11, <1>12, <1>13, <1>14, <1>15

(***************************************************************************)
(* An event pushed after a rescan carries the current UpdateID, and a      *)
(* higher number than those pushed before, which carry lower ones.         *)
(***************************************************************************)
LEMMA SpawnEventSound ==
  ASSUME IInv, NEW r \in Requests, SpawnEvent(r)
  PROVE  IInv'
<1> USE DEF IInv
<1>1. /\ rescan[r] = "spawn"
      /\ UNCHANGED <<updateID, rescan, subs, handler, heard, lapses>>
  BY DEF SpawnEvent
<1>2. PICK p \in pending : /\ sent' = sent \cup {Event(p.sid, p.seq, updateID)}
                           /\ pending' = pending \ {p}
  BY DEF SpawnEvent
<1> DEFINE e == Event(p.sid, p.seq, updateID)
<1>3. /\ e.sid = p.sid /\ e.seq = p.seq /\ e.body = updateID /\ p.seq # 0
      /\ p.sid \in CDSids /\ p.seq \in Nat /\ p.sid \in Sids /\ sent' = sent \cup {e}
  BY <1>2, GenaAssumption DEF Event, TypeOK, PendingSound
<1>4. e \in [sid : Sids, seq : Nat, body : 1 .. updateID]
  BY <1>3, PastGrows DEF Event, TypeOK
<1> HIDE DEF e
<1>5. \A q \in Requests : rescan[q] # "notify"
  BY <1>1 DEF RescansExclude, Holds
<1>6. \A f \in sent : f.sid = e.sid => f.seq < e.seq /\ (f.seq # 0 => f.body < e.body)
  BY <1>3 DEF PendingSound
<1>7. \A f \in sent : f.seq \in Nat /\ f.body \in Nat
  BY PastGrows DEF TypeOK
<1>8. TypeOK'
  BY <1>1, <1>2, <1>3, <1>4 DEF TypeOK, Subscribed
<1>9. RescansExclude'
  BY <1>1 DEF RescansExclude, Past, Holds
<1>10. SidsAreFresh'
  BY <1>1, <1>2, <1>3 DEF SidsAreFresh, Subscribed
<1>11. SentSound'
  BY <1>1, <1>3, <1>5 DEF SentSound, PendingSound, Subscribed
<1>12. PendingSound'
  <2> SUFFICES ASSUME NEW q \in pending', NEW f \in sent', f.sid = q.sid
               PROVE  f.seq < q.seq /\ (f.seq # 0 => f.body < updateID)
    BY <1>1, <1>2 DEF PendingSound, Subscribed
  <2>1. q \in pending /\ q # p
    BY <1>2
  <2>2. f # e
    BY <1>3, <2>1 DEF PendingSound
  <2> QED
    BY <1>3, <2>1, <2>2 DEF PendingSound
<1>13. SeqNamesOneEvent'
  <2>1. \A f \in sent : f.sid = e.sid => f.seq # e.seq
    BY <1>3, <1>6, <1>7
  <2> QED
    BY <1>3, <2>1 DEF SeqNamesOneEvent
<1>14. EventsFollowTheLibrary'
  <2> SUFFICES ASSUME NEW f \in sent', NEW g \in sent', f.sid = g.sid, 1 <= f.seq, f.seq < g.seq
               PROVE  f.body < g.body
    BY DEF EventsFollowTheLibrary
  <2>1. CASE f \in sent /\ g \in sent
    BY <2>1 DEF EventsFollowTheLibrary
  <2>2. CASE f \in sent /\ g = e
    <3>1. f.seq # 0
      BY <1>7, <2>2
    <3> QED
      BY <1>6, <2>2, <3>1
  <2>3. CASE f = e /\ g \in sent
    BY <1>3, <1>6, <1>7, <2>3
  <2>4. CASE f = e /\ g = e
    BY <1>3, <2>4
  <2> QED
    BY <1>3, <2>1, <2>2, <2>3, <2>4
<1>15. NumbersAreUsed'
  <2> SUFFICES ASSUME NEW s \in Subscribed \cap CDSids, NEW n \in 0 .. subs[s].seq
               PROVE  Used(s, n)'
    BY <1>1 DEF NumbersAreUsed, Subscribed
  <2>1. Used(s, n)
    BY DEF NumbersAreUsed
  <2> QED
    BY <1>1, <1>2, <1>3, <2>1 DEF Used
<1>16. LastIsCurrent'
  <2> SUFFICES ASSUME NEW s \in Subscribed \cap CDSids
               PROVE  \/ \E f \in sent' : f.sid = s /\ f.seq = subs[s].seq /\ f.body = updateID
                      \/ \E q \in pending' : q.sid = s /\ q.seq = subs[s].seq
                      \/ subs[s].seq = 0 /\ handler[s] = "inserted"
    BY <1>1 DEF LastIsCurrent, Subscribed
  <2> QED
    BY <1>2, <1>3, <1>5 DEF LastIsCurrent
<1> QED
  BY <1>8, <1>9, <1>10, <1>11, <1>12, <1>13, <1>14, <1>15, <1>16

(***************************************************************************)
(* A sid that has never been used enters the table, and its initial event  *)
(* is still to be made.                                                    *)
(***************************************************************************)
LEMMA SubscribeSound ==
  ASSUME IInv, NEW s \in Sids, Subscribe(s)
  PROVE  IInv'
<1> USE DEF IInv
<1>1. /\ handler[s] = "idle" /\ handler' = [handler EXCEPT ![s] = "inserted"]
      /\ subs' = [t \in Subscribed \cup {s} |->
                    IF t = s THEN [seq |-> 0, expired |-> FALSE] ELSE subs[t]]
      /\ UNCHANGED <<updateID, rescan, pending, sent, heard, lapses>>
  BY DEF Subscribe
<1>2. /\ s \notin Subscribed /\ Subscribed' = Subscribed \cup {s}
      /\ subs'[s] = [seq |-> 0, expired |-> FALSE] /\ \A t \in Subscribed : subs'[t] = subs[t]
      /\ handler'[s] = "inserted" /\ \A t \in Sids \ {s} : handler'[t] = handler[t]
  BY <1>1 DEF Subscribed, TypeOK, SidsAreFresh
<1>3. /\ \A e \in sent : e.sid \in Sids \ {s}
      /\ \A p \in pending : p.sid \in Sids \ {s}
      /\ Subscribed \subseteq Sids \ {s}
  BY <1>1, <1>2, GenaAssumption DEF SidsAreFresh, TypeOK
<1>4. TypeOK'
  BY <1>1, <1>2 DEF TypeOK
<1>5. RescansExclude' /\ SeqNamesOneEvent' /\ EventsFollowTheLibrary'
  BY <1>1 DEF RescansExclude, Past, Holds, SeqNamesOneEvent, EventsFollowTheLibrary
<1>6. SidsAreFresh' /\ SentSound' /\ PendingSound'
  <2>1. SidsAreFresh'
    BY <1>1, <1>2, <1>3 DEF SidsAreFresh
  <2>2. SentSound'
    BY <1>1, <1>2, <1>3 DEF SentSound
  <2>3. PendingSound'
    BY <1>1, <1>2, <1>3 DEF PendingSound
  <2> QED
    BY <2>1, <2>2, <2>3
<1>7. NumbersAreUsed'
  <2> SUFFICES ASSUME NEW t \in Subscribed' \cap CDSids, NEW n \in 0 .. subs'[t].seq
               PROVE  Used(t, n)'
    BY DEF NumbersAreUsed
  <2>1. CASE t = s
    <3>1. n = 0
      BY <1>2, <2>1
    <3> QED
      BY <1>2, <2>1, <3>1 DEF Used
  <2>2. CASE t # s
    <3>1. t \in Subscribed \cap CDSids /\ n \in 0 .. subs[t].seq /\ handler'[t] = handler[t]
      BY <1>2, <1>3, <2>2
    <3>2. Used(t, n)
      BY <3>1 DEF NumbersAreUsed
    <3> QED
      BY <1>1, <3>1, <3>2 DEF Used
  <2> QED
    BY <2>1, <2>2
<1>8. LastIsCurrent'
  <2> SUFFICES ASSUME \A r \in Requests : rescan[r] # "notify", NEW t \in Subscribed' \cap CDSids
               PROVE  \/ \E e \in sent : e.sid = t /\ e.seq = subs'[t].seq /\ e.body = updateID
                      \/ \E p \in pending : p.sid = t /\ p.seq = subs'[t].seq
                      \/ subs'[t].seq = 0 /\ handler'[t] = "inserted"
    BY <1>1 DEF LastIsCurrent
  <2>1. CASE t = s
    BY <1>2, <2>1
  <2>2. CASE t # s
    <3>1. t \in Subscribed \cap CDSids /\ subs'[t] = subs[t] /\ handler'[t] = handler[t]
      BY <1>2, <1>3, <2>2
    <3> QED
      BY <3>1 DEF LastIsCurrent
  <2> QED
    BY <2>1, <2>2
<1> QED
  BY <1>4, <1>5, <1>6, <1>7, <1>8

(***************************************************************************)
(* The initial event takes number 0, which no other event has.             *)
(***************************************************************************)
LEMMA SpawnInitialSound ==
  ASSUME IInv, NEW s \in Sids, SpawnInitial(s)
  PROVE  IInv'
<1> USE DEF IInv
<1> DEFINE e == Event(s, 0, updateID)
<1>1. /\ handler[s] = "inserted" /\ handler' = [handler EXCEPT ![s] = "spawned"]
      /\ sent' = sent \cup {e}
      /\ UNCHANGED <<updateID, rescan, subs, pending, heard, lapses>>
  BY DEF SpawnInitial
<1>2. /\ e.sid = s /\ e.seq = 0 /\ e.body = updateID
      /\ e \in [sid : Sids, seq : Nat, body : 1 .. updateID]
  BY PastGrows DEF Event, TypeOK
<1> HIDE DEF e
<1>3. /\ handler'[s] = "spawned" /\ \A t \in Sids \ {s} : handler'[t] = handler[t]
      /\ \A t \in Sids : handler'[t] = "inserted" => t # s
      /\ \A t \in Sids : handler[t] # "idle" => handler'[t] # "idle"
  BY <1>1 DEF TypeOK
<1>4. /\ \A f \in sent : f.seq \in Nat /\ f.body \in Nat /\ f.sid \in Sids
      /\ \A f \in sent : f.sid = s => f.seq # 0
      /\ \A p \in pending : p.sid \in Sids /\ p.seq \in Nat
      /\ \A t \in Subscribed : t \in Sids /\ subs[t].seq \in Nat
  BY <1>1, GenaAssumption, PastGrows DEF SentSound, TypeOK
<1>5. Subscribed' = Subscribed
  BY <1>1 DEF Subscribed
<1>6. TypeOK'
  BY <1>1, <1>2, <1>5 DEF TypeOK
<1>7. RescansExclude'
  BY <1>1 DEF RescansExclude, Past, Holds
<1>8. SidsAreFresh'
  BY <1>1, <1>2, <1>3, <1>4, <1>5 DEF SidsAreFresh
<1>9. SentSound'
  <2>1. \A f \in sent : f.seq = 0 => handler'[f.sid] \in {"spawned", "answered"}
    BY <1>3, <1>4 DEF SentSound
  <2>2. s \in Subscribed => 0 <= subs[s].seq
    BY <1>4
  <2> QED
    BY <1>1, <1>2, <1>3, <1>5, <2>1, <2>2 DEF SentSound
<1>10. PendingSound'
  <2>1. \A p \in pending : 0 < p.seq
    BY <1>4 DEF PendingSound
  <2> QED
    BY <1>1, <1>2, <1>5, <2>1 DEF PendingSound
<1>11. SeqNamesOneEvent' /\ EventsFollowTheLibrary'
  <2>1. SeqNamesOneEvent'
    BY <1>1, <1>2, <1>4 DEF SeqNamesOneEvent
  <2>2. EventsFollowTheLibrary'
    BY <1>1, <1>2, <1>4 DEF EventsFollowTheLibrary
  <2> QED
    BY <2>1, <2>2
<1>12. NumbersAreUsed'
  <2> SUFFICES ASSUME NEW t \in Subscribed \cap CDSids, NEW n \in 0 .. subs[t].seq
               PROVE  Used(t, n)'
    BY <1>1, <1>5 DEF NumbersAreUsed
  <2>1. Used(t, n)
    BY DEF NumbersAreUsed
  <2>2. CASE t = s /\ n = 0
    BY <1>1, <1>2, <2>2 DEF Used
  <2>3. CASE ~(t = s /\ n = 0)
    BY <1>1, <1>3, <1>4, <2>1, <2>3 DEF Used
  <2> QED
    BY <2>2, <2>3
<1>13. LastIsCurrent'
  <2> SUFFICES ASSUME \A r \in Requests : rescan[r] # "notify", NEW t \in Subscribed \cap CDSids
               PROVE  \/ \E f \in sent' : f.sid = t /\ f.seq = subs[t].seq /\ f.body = updateID
                      \/ \E p \in pending : p.sid = t /\ p.seq = subs[t].seq
                      \/ subs[t].seq = 0 /\ handler'[t] = "inserted"
    BY <1>1, <1>5 DEF LastIsCurrent
  <2>1. CASE t = s /\ subs[t].seq = 0
    BY <1>1, <1>2, <2>1
  <2>2. CASE ~(t = s /\ subs[t].seq = 0)
    BY <1>1, <1>3, <1>4, <2>2 DEF LastIsCurrent
  <2> QED
    BY <2>1, <2>2
<1> QED
  BY <1>6, <1>7, <1>8, <1>9, <1>10, <1>11, <1>12, <1>13

(***************************************************************************)
(* A subscription's expiry comes and goes, or the subscription goes: what  *)
(* is still in the table keeps its number.                                 *)
(***************************************************************************)
LEMMA TableSound ==
  ASSUME IInv,
         Subscribed' \subseteq Subscribed,
         \A t \in Subscribed' : subs'[t] \in [seq : Nat, expired : BOOLEAN] /\ subs'[t].seq = subs[t].seq,
         lapses' \in [Sids -> 0 .. MaxRenewals],
         UNCHANGED <<updateID, rescan, handler, pending, sent, heard>>
  PROVE  IInv'
<1> USE DEF IInv
<1>1. TypeOK'
  BY DEF TypeOK
<1>2. RescansExclude' /\ SeqNamesOneEvent' /\ EventsFollowTheLibrary'
  BY DEF RescansExclude, Past, Holds, SeqNamesOneEvent, EventsFollowTheLibrary
<1>3. SidsAreFresh' /\ SentSound' /\ PendingSound'
  BY DEF SidsAreFresh, SentSound, PendingSound
<1>4. NumbersAreUsed'
  BY DEF NumbersAreUsed, Used
<1>5. LastIsCurrent'
  BY DEF LastIsCurrent
<1> QED
  BY <1>1, <1>2, <1>3, <1>4, <1>5

(***************************************************************************)
(* Every step of Gena preserves the inductive invariant.                   *)
(***************************************************************************)
LEMMA NextIInv == IInv /\ [Next]_vars => IInv'
<1> SUFFICES ASSUME IInv, [Next]_vars
             PROVE  IInv'
  OBVIOUS
<1>1. ASSUME NEW r \in Requests, RequestRescan(r) \/ LockRescan(r) \/ RescanStep(r)
      PROVE  IInv'
  BY <1>1, RescanMovesOn, ScanSucceedsSound, NotifyLockedSound, SpawnEventSound DEF RescanStep
<1>2. ASSUME NEW s \in Sids, Subscribe(s) \/ SpawnInitial(s)
      PROVE  IInv'
  BY <1>2, SubscribeSound, SpawnInitialSound
<1>3. ASSUME NEW s \in Sids, AnswerSubscribe(s)
      PROVE  IInv'
  <2>1. /\ handler[s] = "spawned" /\ handler' = [handler EXCEPT ![s] = "answered"]
        /\ UNCHANGED <<updateID, rescan, subs, pending, sent, heard, lapses>>
    BY <1>3 DEF AnswerSubscribe
  <2>2. handler'[s] = "answered" /\ \A t \in Sids \ {s} : handler'[t] = handler[t]
    BY <2>1 DEF IInv, TypeOK
  <2>3. /\ \A t \in Sids : handler[t] # "idle" => handler'[t] # "idle"
        /\ \A t \in Sids : handler[t] \in {"spawned", "answered"} => handler'[t] \in {"spawned", "answered"}
        /\ \A t \in Sids : handler[t] = "inserted" => handler'[t] = "inserted"
    BY <2>1, <2>2
  <2>4. /\ \A e \in sent : e.sid \in Sids
        /\ \A p \in pending : p.sid \in Sids
        /\ Subscribed' = Subscribed /\ Subscribed \subseteq Sids
    BY <2>1, GenaAssumption DEF IInv, TypeOK, Subscribed
  <2>5. TypeOK'
    BY <2>1, <2>4 DEF IInv, TypeOK
  <2>6. RescansExclude' /\ SeqNamesOneEvent' /\ EventsFollowTheLibrary' /\ PendingSound'
    BY <2>1, <2>4 DEF IInv, RescansExclude, Past, Holds, SeqNamesOneEvent, EventsFollowTheLibrary, PendingSound
  <2>7. SidsAreFresh' /\ SentSound'
    BY <2>1, <2>3, <2>4 DEF IInv, SidsAreFresh, SentSound
  <2>8. NumbersAreUsed'
    BY <2>1, <2>3, <2>4 DEF IInv, NumbersAreUsed, Used
  <2>9. LastIsCurrent'
    BY <2>1, <2>3, <2>4 DEF IInv, LastIsCurrent
  <2> QED
    BY <2>5, <2>6, <2>7, <2>8, <2>9 DEF IInv
<1>4. ASSUME NEW s \in Sids, Renew(s) \/ Unsubscribe(s) \/ Lapse(s)
      PROVE  IInv'
  <2>1. UNCHANGED <<updateID, rescan, handler, pending, sent, heard>> /\ s \in Subscribed
    BY <1>4 DEF Renew, Unsubscribe, Lapse
  <2>2. \A t \in Subscribed : subs[t] \in [seq : Nat, expired : BOOLEAN]
    BY DEF IInv, TypeOK
  <2>3. /\ Subscribed' \subseteq Subscribed
        /\ \A t \in Subscribed' : /\ subs'[t] \in [seq : Nat, expired : BOOLEAN]
                                 /\ subs'[t].seq = subs[t].seq
    <3>1. CASE Renew(s) \/ Lapse(s)
      <4>1. PICK x \in BOOLEAN : subs' = [subs EXCEPT ![s].expired = x]
        BY <3>1 DEF Renew, Lapse
      <4>2. Subscribed' = Subscribed
        BY <4>1 DEF Subscribed
      <4>3. \A t \in Subscribed : subs'[t] = IF t = s THEN [subs[t] EXCEPT !.expired = x] ELSE subs[t]
        BY <4>1 DEF Subscribed
      <4> QED
        BY <2>2, <4>2, <4>3
    <3>2. CASE Unsubscribe(s)
      <4>1. subs' = [t \in Subscribed \ {s} |-> subs[t]]
        BY <3>2 DEF Unsubscribe, Restrict
      <4> QED
        BY <2>2, <4>1 DEF Subscribed
    <3> QED
      BY <1>4, <3>1, <3>2
  <2>4. lapses' \in [Sids -> 0 .. MaxRenewals]
    <3>1. CASE Lapse(s)
      <4>1. lapses[s] + 1 \in 0 .. MaxRenewals
        BY <3>1, GenaAssumption DEF Lapse, IInv, TypeOK
      <4> QED
        BY <3>1, <4>1 DEF Lapse, IInv, TypeOK
    <3>2. CASE ~Lapse(s)
      BY <1>4, <3>2 DEF Renew, Unsubscribe, IInv, TypeOK
    <3> QED
      BY <3>1, <3>2
  <2> QED
    BY <2>1, <2>3, <2>4, TableSound
<1>5. ASSUME NEW e \in sent \ heard, Deliver(e)
      PROVE  IInv'
  <2>1. heard' = heard \cup {e} /\ UNCHANGED <<updateID, rescan, subs, handler, pending, sent, lapses>>
    BY <1>5 DEF Deliver
  <2>2. Subscribed' = Subscribed
    BY <2>1 DEF Subscribed
  <2>3. TypeOK' /\ RescansExclude' /\ SidsAreFresh'
    BY <2>1, <2>2 DEF IInv, TypeOK, RescansExclude, Past, Holds, SidsAreFresh
  <2>4. SentSound' /\ PendingSound' /\ SeqNamesOneEvent' /\ EventsFollowTheLibrary'
    BY <2>1, <2>2 DEF IInv, SentSound, PendingSound, SeqNamesOneEvent, EventsFollowTheLibrary
  <2>5. NumbersAreUsed' /\ LastIsCurrent'
    BY <2>1, <2>2 DEF IInv, NumbersAreUsed, Used, LastIsCurrent
  <2> QED
    BY <2>3, <2>4, <2>5 DEF IInv
<1>6. CASE UNCHANGED vars
  <2>1. Subscribed' = Subscribed /\ UNCHANGED <<updateID, rescan, subs, handler, pending, sent, heard, lapses>>
    BY <1>6 DEF vars, Subscribed
  <2>2. \A t \in Subscribed : subs[t] \in [seq : Nat, expired : BOOLEAN]
    BY DEF IInv, TypeOK
  <2>3. lapses \in [Sids -> 0 .. MaxRenewals]
    BY DEF IInv, TypeOK
  <2> QED
    BY <2>1, <2>2, <2>3, TableSound
<1> QED
  BY <1>1, <1>2, <1>3, <1>4, <1>5, <1>6 DEF Next

-----------------------------------------------------------------------------
(***************************************************************************)
(* The invariant holds in every state of Gena.                             *)
(***************************************************************************)
THEOREM InvariantHolds == Spec => []IInv
  BY InitIInv, NextIInv, PTL DEF Spec

(***************************************************************************)
(* Every variable keeps its type, and the UpdateID counts no more than one *)
(* for each request for a rescan.                                          *)
(***************************************************************************)
THEOREM TypeCorrect == Spec => []TypeOK
<1>1. IInv => TypeOK
  BY DEF IInv
<1> QED
  BY <1>1, InvariantHolds, PTL

(***************************************************************************)
(* No two events of a subscription carry the same SEQ.                     *)
(***************************************************************************)
THEOREM SeqIdentifiesEvent == Spec => []SeqNamesOneEvent
<1>1. IInv => SeqNamesOneEvent
  BY DEF IInv
<1> QED
  BY <1>1, InvariantHolds, PTL

(***************************************************************************)
(* Of two events pushed after rescans, the one with the higher SEQ carries *)
(* the higher UpdateID.                                                    *)
(***************************************************************************)
THEOREM SeqOrdersUpdates == Spec => []EventsFollowTheLibrary
<1>1. IInv => EventsFollowTheLibrary
  BY DEF IInv
<1> QED
  BY <1>1, InvariantHolds, PTL

(***************************************************************************)
(* When no rescan runs and the initial event has been made, there is       *)
(* nothing left to be pushed to the subscription.                          *)
(***************************************************************************)
LEMMA SettledHasNothingPending ==
  ASSUME IInv, NEW s \in Sids, Settled(s)
  PROVE  /\ s \in Subscribed \cap CDSids /\ subs[s].seq \in Nat
         /\ pending = {} /\ handler[s] # "inserted"
         /\ \A r \in Requests : rescan[r] # "notify"
         /\ \A f \in sent : f.sid = s => f.seq <= subs[s].seq /\ f.seq \in Nat
<1>1. \A r \in Requests : rescan[r] # "notify" /\ rescan[r] # "spawn"
  BY DEF Settled, Holds
<1>2. pending = {}
  BY <1>1 DEF IInv, PendingSound
<1> QED
  BY <1>1, <1>2 DEF Settled, IInv, TypeOK, SentSound

(***************************************************************************)
(* Once no rescan runs, the last event pushed to each ContentDirectory     *)
(* subscription carries the current UpdateID.                              *)
(***************************************************************************)
THEOREM EverybodyIsTold == Spec => []NobodyIsLeftBehind
<1>1. IInv => NobodyIsLeftBehind
  <2> SUFFICES ASSUME IInv, NEW s \in Sids, Settled(s)
               PROVE  \E e \in sent : /\ e.sid = s /\ e.body = updateID
                                     /\ \A f \in sent : f.sid = s => f.seq <= e.seq
    BY DEF NobodyIsLeftBehind
  <2>1. PICK e \in sent : e.sid = s /\ e.seq = subs[s].seq /\ e.body = updateID
    BY SettledHasNothingPending DEF IInv, LastIsCurrent
  <2> QED
    BY <2>1, SettledHasNothingPending
<1> QED
  BY <1>1, InvariantHolds, PTL

(***************************************************************************)
(* Once no rescan runs, every number up to that of a ContentDirectory      *)
(* subscription has been pushed, and no other: a gap seen by a subscriber  *)
(* is a lost event.                                                        *)
(***************************************************************************)
THEOREM EveryNumberIsPushed == Spec => []SeqHasNoGaps
<1>1. IInv => SeqHasNoGaps
  <2> SUFFICES ASSUME IInv, NEW s \in Sids, Settled(s)
               PROVE  {e.seq : e \in {f \in sent : f.sid = s}} = 0 .. subs[s].seq
    BY DEF SeqHasNoGaps
  <2>1. \A f \in sent : f.sid = s => f.seq \in 0 .. subs[s].seq
    BY SettledHasNothingPending
  <2>2. \A n \in 0 .. subs[s].seq : \E e \in sent : e.sid = s /\ e.seq = n
    BY SettledHasNothingPending DEF IInv, NumbersAreUsed, Used
  <2> QED
    BY <2>1, <2>2
<1> QED
  BY <1>1, InvariantHolds, PTL
-----------------------------------------------------------------------------
(* What liveness rests on. *)

\* At any time there are finitely many subscriptions and events to push.
FewAtOnce == IsFiniteSet(Subscribed) /\ IsFiniteSet(pending)

\* The stages of a Rescan that holds the mutex, counted to its end.
StagesLeft == [scan |-> 3, notify |-> 2, spawn |-> 1, done |-> 0]

LEMMA FewStayFew == IInv /\ FewAtOnce /\ [Next]_vars => FewAtOnce'
<1> SUFFICES ASSUME IInv, FewAtOnce, [Next]_vars
             PROVE  FewAtOnce'
  OBVIOUS
<1>1. ASSUME NEW r \in Requests, NotifyLocked(r)
      PROVE  FewAtOnce'
  <2> DEFINE live == {s \in Subscribed : ~subs[s].expired}
             told == live \cap CDSids
             sidOf == [p \in pending' |-> p.sid]
  <2>1. IsFiniteSet(live) /\ IsFiniteSet(told)
    BY FS_Subset DEF FewAtOnce
  <2>2. /\ Subscribed' = live
        /\ pending' = {[sid |-> s, seq |-> subs'[s].seq] : s \in told}
    BY <1>1 DEF NotifyLocked, Subscribed
  <2>3. sidOf \in [pending' -> told]
    BY <2>2
  <2>4. \A p, q \in pending' : sidOf[p] = sidOf[q] => p = q
    BY <2>2
  <2>5. sidOf \in Injection(pending', told)
    BY <2>3, <2>4 DEF Injection, IsInjective
  <2>6. IsFiniteSet(pending')
    BY <2>1, <2>5, FS_Injection
  <2> QED
    BY <2>1, <2>2, <2>6 DEF FewAtOnce
<1>2. ASSUME NEW r \in Requests, SpawnEvent(r)
      PROVE  FewAtOnce'
  <2>1. pending' \subseteq pending /\ Subscribed' = Subscribed
    BY <1>2 DEF SpawnEvent, Subscribed
  <2> QED
    BY <2>1, FS_Subset DEF FewAtOnce
<1>3. ASSUME NEW r \in Requests,
             RequestRescan(r) \/ LockRescan(r) \/ ScanSucceeds(r) \/ ScanFails(r) \/ ReturnRescan(r)
      PROVE  FewAtOnce'
  BY <1>3 DEF RequestRescan, LockRescan, ScanSucceeds, ScanFails, ReturnRescan, FewAtOnce, Subscribed
<1>4. ASSUME NEW s \in Sids, Subscribe(s)
      PROVE  FewAtOnce'
  <2>1. Subscribed' = Subscribed \cup {s} /\ pending' = pending
    BY <1>4 DEF Subscribe, Subscribed
  <2> QED
    BY <2>1, FS_AddElement DEF FewAtOnce
<1>5. ASSUME NEW s \in Sids,
             SpawnInitial(s) \/ AnswerSubscribe(s) \/ Renew(s) \/ Unsubscribe(s) \/ Lapse(s)
      PROVE  FewAtOnce'
  <2>1. pending' = pending
    BY <1>5 DEF SpawnInitial, AnswerSubscribe, Renew, Unsubscribe, Lapse
  <2>2. Subscribed' \subseteq Subscribed
    BY <1>5 DEF SpawnInitial, AnswerSubscribe, Renew, Unsubscribe, Lapse, Subscribed, Restrict
  <2> QED
    BY <2>1, <2>2, FS_Subset DEF FewAtOnce
<1>6. ASSUME NEW e \in sent \ heard, Deliver(e)
      PROVE  FewAtOnce'
  BY <1>6 DEF Deliver, FewAtOnce, Subscribed
<1>7. CASE UNCHANGED vars
  BY <1>7 DEF vars, FewAtOnce, Subscribed
<1> QED
  BY <1>1, <1>2, <1>3, <1>4, <1>5, <1>6, <1>7 DEF Next, RescanStep

(***************************************************************************)
(* Server.Rescan: a call that holds rescanMu is never sent back, by its    *)
(* own steps or by anybody else's, and nobody gives it more events to      *)
(* push.  They are finitely many, so each of its steps brings it nearer to *)
(* giving up the mutex.                                                    *)
(***************************************************************************)
THEOREM RescansGetOn ==
  Spec => /\ []IsFiniteSet(pending)
          /\ [][\A r \in Requests : Holds(r) =>
                  \/ StagesLeft[rescan'[r]] < StagesLeft[rescan[r]]
                  \/ /\ rescan'[r] = rescan[r] /\ pending' \subseteq pending
                     /\ RescanStep(r) => pending' # pending]_vars
<1>1. Init => FewAtOnce
  BY FS_EmptySet DEF Init, FewAtOnce, Subscribed
<1>2. FewAtOnce => IsFiniteSet(pending)
  BY DEF FewAtOnce
<1>3. IInv /\ [Next]_vars =>
        [\A r \in Requests : Holds(r) =>
           \/ StagesLeft[rescan'[r]] < StagesLeft[rescan[r]]
           \/ /\ rescan'[r] = rescan[r] /\ pending' \subseteq pending
              /\ RescanStep(r) => pending' # pending]_vars
  <2> SUFFICES ASSUME IInv, Next, NEW r \in Requests, Holds(r)
               PROVE  \/ StagesLeft[rescan'[r]] < StagesLeft[rescan[r]]
                      \/ /\ rescan'[r] = rescan[r] /\ pending' \subseteq pending
                         /\ RescanStep(r) => pending' # pending
    OBVIOUS
  <2>1. rescan[r] \in {"scan", "notify", "spawn"}
    BY DEF IInv, TypeOK, Holds
  <2>2. \A q \in Requests \ {r} : ~Holds(q)
    BY DEF IInv, RescansExclude
  <2>3. RescanStep(r) => \/ StagesLeft[rescan'[r]] < StagesLeft[rescan[r]]
                         \/ /\ rescan'[r] = rescan[r] /\ pending' \subseteq pending
                            /\ pending' # pending
    <3>1. CASE ScanSucceeds(r) \/ ScanFails(r) \/ NotifyLocked(r) \/ ReturnRescan(r)
      BY <3>1 DEF ScanSucceeds, ScanFails, NotifyLocked, ReturnRescan, StagesLeft, IInv, TypeOK
    <3>2. CASE SpawnEvent(r)
      BY <3>2 DEF SpawnEvent
    <3> QED
      BY <3>1, <3>2 DEF RescanStep
  <2>4. ASSUME ~RescanStep(r)
        PROVE  rescan'[r] = rescan[r] /\ pending' \subseteq pending
    <3>1. ASSUME NEW q \in Requests, RequestRescan(q) \/ LockRescan(q) \/ RescanStep(q)
          PROVE  rescan'[r] = rescan[r] /\ pending' \subseteq pending
      <4>1. CASE q = r
        BY <2>1, <2>4, <3>1, <4>1 DEF RequestRescan, LockRescan
      <4>2. CASE q # r
        <5>1. ~RescanStep(q)
          BY <2>2, <4>2 DEF RescanStep, ScanSucceeds, ScanFails, NotifyLocked, SpawnEvent,
                            ReturnRescan, Holds
        <5> QED
          BY <3>1, <4>2, <5>1 DEF RequestRescan, LockRescan, IInv, TypeOK
      <4> QED
        BY <4>1, <4>2
    <3>2. ASSUME NEW s \in Sids, \/ Subscribe(s) \/ SpawnInitial(s) \/ AnswerSubscribe(s)
                                 \/ Renew(s) \/ Unsubscribe(s) \/ Lapse(s)
          PROVE  rescan'[r] = rescan[r] /\ pending' \subseteq pending
      BY <3>2 DEF Subscribe, SpawnInitial, AnswerSubscribe, Renew, Unsubscribe, Lapse
    <3>3. ASSUME NEW e \in sent \ heard, Deliver(e)
          PROVE  rescan'[r] = rescan[r] /\ pending' \subseteq pending
      BY <3>3 DEF Deliver
    <3> QED
      BY <3>1, <3>2, <3>3 DEF Next
  <2> QED
    BY <2>3, <2>4
<1> QED
  BY <1>1, <1>2, <1>3, FewStayFew, InvariantHolds, PTL DEF Spec
=============================================================================
