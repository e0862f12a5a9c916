---------------------------- MODULE Thumbs_proofs ----------------------------
(***************************************************************************)
(* Safety of Thumbs, for every set of videos, every number of requests     *)
(* (also an unbounded one), of versions and of workers, and whatever the   *)
(* stamps tell of the versions.                                            *)
(*                                                                         *)
(* The properties are not inductive.  That a picture is rendered at most   *)
(* Workers times, but for those lost, rests on who holds a slot            *)
(* (SlotsAccounted): while the shelf is empty, whoever has rendered the    *)
(* picture or is about to holds one, and from the first picture on nobody  *)
(* sets out to render it (RunsAccounted).  That a picture is never too old *)
(* rests on the order of the versions in every place one can be: the file, *)
(* the index, the request, the shelf and the hand (InOrder).               *)
(***************************************************************************)
EXTENDS Thumbs, FiniteSetTheorems, TLAPS

\* The requests that hold a slot of Maker.sem.
Holders ==
  {r \in Requests : pc[r] \in {"recheck", "render", "fallback", "write", "rename", "release"}}

\* Those that have rendered the picture, or have set out to.
Makers(n) ==
  {r \in Requests : /\ r \in made \/ pc[r] \in {"render", "fallback"}
                    /\ Name(r) = n}

\* Every slot is free or held by one request.
SlotsAccounted ==
  /\ IsFiniteSet(Holders)
  /\ free + Cardinality(Holders) = Workers

\* The makers of a picture are few, and hold a slot until it is on the shelf.
RunsAccounted ==
  /\ \A n \in Names : IsFiniteSet(Makers(n)) /\ Cardinality(Makers(n)) <= Workers
  /\ \A r \in made : /\ pc[r] \in {"write", "rename", "release", "done"}
                     /\ shelf[Name(r)] = NoPicture => pc[r] \in {"write", "rename"}

\* A picture that may be put on the shelf is one.
InHand ==
  \A r \in Requests :
    /\ pc[r] \in {"write", "rename"} => picture[r] # NoPicture
    /\ pc[r] \in {"idle", "lookup"} => picture[r] = NoPicture

\* A version, not half a picture, and no older than the first with stamp s.
NotOlder(p, s) ==
  p \in Contents /\ \E first \in Contents : Stamp[first] = s /\ first <= p

\* The order of the versions in every place one can be.
InOrder ==
  /\ \A v \in Videos : seen[v] <= disk[v]
  /\ \A r \in Requests : asked[r].version <= disk[asked[r].video]
  /\ \A n \in Names : shelf[n] # NoPicture => NotOlder(shelf[n], n[2])
  /\ \A r \in Requests : picture[r] # NoPicture => NotOlder(picture[r], Stamp[asked[r].version])

IInv == TypeOK /\ SlotsAccounted /\ RunsAccounted /\ InHand /\ InOrder

-----------------------------------------------------------------------------
(***************************************************************************)
(* The name of the picture a request is for is one of the shelf's.         *)
(***************************************************************************)
LEMMA NameIsAName ==
  ASSUME TypeOK, NEW r \in Requests
  PROVE  /\ Name(r) \in Names
         /\ Name(r)[2] = Stamp[asked[r].version]
         /\ asked[r].video \in Videos /\ asked[r].version \in Contents
  BY DEF TypeOK, Name, CachePath, Names

(***************************************************************************)
(* No more than Workers requests hold a slot.                              *)
(***************************************************************************)
LEMMA HoldersAreFew ==
  ASSUME SlotsAccounted, TypeOK
  PROVE  /\ IsFiniteSet(Holders)
         /\ \A S \in SUBSET Holders : IsFiniteSet(S) /\ Cardinality(S) <= Workers
<1>1. IsFiniteSet(Holders) /\ Cardinality(Holders) \in Nat
  BY FS_CardinalityType DEF SlotsAccounted
<1>2. Cardinality(Holders) <= Workers
  BY <1>1, ThumbsAssumption DEF SlotsAccounted, TypeOK
<1>3. ASSUME NEW S \in SUBSET Holders
      PROVE  IsFiniteSet(S) /\ Cardinality(S) <= Workers
  <2>1. IsFiniteSet(S) /\ Cardinality(S) <= Cardinality(Holders) /\ Cardinality(S) \in Nat
    BY <1>1, FS_Subset, FS_CardinalityType
  <2> QED
    BY <1>1, <1>2, <2>1, ThumbsAssumption
<1> QED
  BY <1>1, <1>3

(***************************************************************************)
(* Of fewer makers there are still few.                                    *)
(***************************************************************************)
LEMMA FewerMakers ==
  ASSUME RunsAccounted, NEW n \in Names, NEW S \in SUBSET Makers(n)
  PROVE  IsFiniteSet(S) /\ Cardinality(S) <= Workers
<1>1. IsFiniteSet(Makers(n)) /\ Cardinality(Makers(n)) <= Workers
  BY DEF RunsAccounted
<1>2. /\ IsFiniteSet(S) /\ Cardinality(S) <= Cardinality(Makers(n))
      /\ Cardinality(S) \in Nat /\ Cardinality(Makers(n)) \in Nat
  BY <1>1, FS_Subset, FS_CardinalityType
<1> QED
  BY <1>1, <1>2, ThumbsAssumption

(***************************************************************************)
(* A step that leaves the shelf and the rendered pictures alone, and gives *)
(* nobody leave to render one, keeps the runs accounted for.               *)
(***************************************************************************)
LEMMA NoNewMakers ==
  ASSUME RunsAccounted,
         \A n \in Names : Makers(n)' \subseteq Makers(n),
         made' = made, shelf' = shelf,
         \A r \in made : /\ Name(r)' = Name(r)
                       /\ \/ pc'[r] = pc[r]
                          \/ pc[r] = "release" /\ pc'[r] = "done"
  PROVE  RunsAccounted'
<1>1. \A n \in Names : IsFiniteSet(Makers(n)') /\ Cardinality(Makers(n)') <= Workers
  BY FewerMakers
<1>2. ASSUME NEW r \in made
      PROVE  /\ pc'[r] \in {"write", "rename", "release", "done"}
             /\ shelf[Name(r)'] = NoPicture => pc'[r] \in {"write", "rename"}
  BY DEF RunsAccounted
<1> QED
  BY <1>1, <1>2 DEF RunsAccounted

-----------------------------------------------------------------------------
(***************************************************************************)
(* The initial state of Thumbs satisfies the inductive invariant.          *)
(***************************************************************************)
LEMMA InitIInv == Init => IInv
<1> SUFFICES ASSUME Init PROVE IInv
  OBVIOUS
<1> USE DEF Init
<1>1. 1 \in Contents /\ HalfWritten \in Nat /\ HalfWritten > 0
  BY ThumbsAssumption DEF Contents, HalfWritten
<1>2. TypeOK
  <2>1. (CHOOSE v \in Videos : TRUE) \in Videos
    BY ThumbsAssumption
  <2>2. NoPicture \in 0 .. HalfWritten /\ free \in 0 .. Workers
    BY <1>1, ThumbsAssumption DEF NoPicture
  <2> QED
    BY <1>1, <2>1, <2>2 DEF TypeOK
<1>3. SlotsAccounted
  <2>1. Holders = {}
    BY DEF Holders
  <2> QED
    BY <2>1, FS_EmptySet, ThumbsAssumption DEF SlotsAccounted
<1>4. RunsAccounted
  <2>1. \A n \in Names : Makers(n) = {}
    BY DEF Makers
  <2>2. IsFiniteSet({}) /\ Cardinality({}) <= Workers
    BY FS_EmptySet, ThumbsAssumption
  <2> QED
    BY <2>1, <2>2 DEF RunsAccounted
<1>5. InHand /\ InOrder
  BY <1>1, <1>2 DEF InHand, InOrder, NoPicture, TypeOK
<1> QED
  BY <1>2, <1>3, <1>4, <1>5 DEF IInv

-----------------------------------------------------------------------------
(***************************************************************************)
(* Every step of Thumbs preserves the inductive invariant.                 *)
(***************************************************************************)
LEMMA NextIInv == IInv /\ [Next]_vars => IInv'
<1> SUFFICES ASSUME IInv, [Next]_vars
             PROVE  IInv'
  OBVIOUS
<1> USE DEF IInv
<1>0. /\ Contents \subseteq Nat /\ NoPicture \notin Contents
      /\ Contents \subseteq 0 .. HalfWritten
      /\ NoPicture \in 0 .. HalfWritten
  BY ThumbsAssumption DEF Contents, HalfWritten, NoPicture
<1>1. ASSUME NEW v \in Videos, Edit(v)
      PROVE  IInv'
  <2>1. /\ disk[v] < Versions /\ disk' = [disk EXCEPT ![v] = @ + 1]
        /\ UNCHANGED <<seen, shelf, free, pc, asked, picture, made>>
    BY <1>1 DEF Edit
  <2>2. disk[v] + 1 \in Contents
    BY <2>1, ThumbsAssumption DEF TypeOK, Contents
  <2>3. TypeOK'
    BY <2>1, <2>2 DEF TypeOK
  <2>4. Holders' = Holders /\ \A n \in Names : Makers(n)' = Makers(n)
    BY <2>1 DEF Holders, Makers, Name, CachePath
  <2>5. SlotsAccounted'
    BY <2>1, <2>4 DEF SlotsAccounted
  <2>6. RunsAccounted'
    <3>1. \A r : Name(r)' = Name(r)
      BY <2>1 DEF Name, CachePath
    <3> QED
      BY <2>1, <2>4, <3>1, NoNewMakers
  <2>7. InHand'
    BY <2>1 DEF InHand
  <2>8. InOrder'
    <3>0. \A u \in Videos : disk[u] \in Nat /\ seen[u] \in Nat
      BY <1>0 DEF TypeOK
    <3>1. \A u \in Videos : disk'[u] \in Nat /\ disk[u] \in Nat /\ seen[u] \in Nat /\ disk[u] <= disk'[u]
      BY <2>1, <3>0 DEF TypeOK
    <3>2. \A r \in Requests : asked[r].video \in Videos /\ asked[r].version \in Nat
      BY <1>0 DEF TypeOK
    <3> QED
      BY <2>1, <3>1, <3>2 DEF InOrder
  <2> QED
    BY <2>3, <2>5, <2>6, <2>7, <2>8
<1>2. CASE Rescan
  <2>1. seen' = disk /\ UNCHANGED <<disk, shelf, free, pc, asked, picture, made>>
    BY <1>2 DEF Rescan
  <2>2. TypeOK'
    BY <2>1 DEF TypeOK
  <2>3. Holders' = Holders /\ \A n \in Names : Makers(n)' = Makers(n)
    BY <2>1 DEF Holders, Makers, Name, CachePath
  <2>4. SlotsAccounted'
    BY <2>1, <2>3 DEF SlotsAccounted
  <2>5. RunsAccounted'
    <3>1. \A r : Name(r)' = Name(r)
      BY <2>1 DEF Name, CachePath
    <3> QED
      BY <2>1, <2>3, <3>1, NoNewMakers
  <2>6. \A v \in Videos : seen'[v] <= disk'[v]
    <3>1. \A v \in Videos : disk[v] \in Nat
      BY <1>0 DEF TypeOK
    <3> QED
      BY <2>1, <3>1
  <2>7. InHand' /\ InOrder'
    BY <2>1, <2>6 DEF InHand, InOrder
  <2> QED
    BY <2>2, <2>4, <2>5, <2>7
<1>3. ASSUME NEW r \in Requests, Ask(r)
      PROVE  IInv'
  <2>1. PICK v \in Videos : asked' = [asked EXCEPT ![r] = [video |-> v, version |-> seen[v]]]
    BY <1>3 DEF Ask
  <2>2. /\ pc[r] = "idle" /\ pc' = [pc EXCEPT ![r] = "lookup"]
        /\ UNCHANGED <<disk, seen, shelf, free, picture, made>>
    BY <1>3 DEF Ask, Goto
  <2>3. TypeOK'
    BY <2>1, <2>2 DEF TypeOK
  <2>4. \A q \in Requests \ {r} : pc'[q] = pc[q] /\ asked'[q] = asked[q]
    BY <2>1, <2>2 DEF TypeOK
  <2>5. pc'[r] = "lookup"
    BY <2>2 DEF TypeOK
  <2>6. /\ \A q \in made : q \in Requests \ {r}
        /\ \A q \in Requests \ {r} : Name(q)' = Name(q)
    BY <2>2, <2>4 DEF RunsAccounted, TypeOK, Name, CachePath
  <2>7. SlotsAccounted'
    <3>1. Holders' = Holders
      BY <2>2, <2>4, <2>5 DEF Holders
    <3> QED
      BY <2>2, <3>1 DEF SlotsAccounted
  <2>8. RunsAccounted'
    <3>1. \A n \in Names : Makers(n)' \subseteq Makers(n)
      BY <2>2, <2>4, <2>5, <2>6 DEF Makers
    <3> QED
      BY <2>2, <2>4, <2>6, <3>1, NoNewMakers
  <2>9. InHand'
    BY <2>2, <2>4, <2>5 DEF InHand
  <2>10. InOrder'
    <3>1. asked'[r] = [video |-> v, version |-> seen[v]] /\ picture[r] = NoPicture
      BY <2>1, <2>2 DEF TypeOK, InHand
    <3> QED
      BY <2>2, <2>4, <3>1 DEF InOrder
  <2> QED
    BY <2>3, <2>7, <2>8, <2>9, <2>10
<1>4. ASSUME NEW r \in Requests, Lookup(r) \/ Render(r) \/ Fallback(r) \/ WriteTemp(r)
      PROVE  IInv'
  <2>1. /\ UNCHANGED <<disk, seen, shelf, free, asked>>
        /\ pc' = [pc EXCEPT ![r] = pc'[r]]
        /\ picture' = [picture EXCEPT ![r] = picture'[r]]
        /\ \/ /\ pc[r] = "lookup" /\ pc'[r] \in {"done", "queue"}
              /\ picture'[r] = shelf[Name(r)] /\ made' = made
           \/ /\ pc[r] \in {"render", "fallback"} /\ pc'[r] = "write"
              /\ picture'[r] = disk[asked[r].video] /\ made' = made \cup {r}
           \/ /\ pc[r] \in {"render", "fallback"} /\ pc'[r] \in {"fallback", "release"}
              /\ picture'[r] = picture[r] /\ made' = made
           \/ /\ pc[r] = "write" /\ pc'[r] = "rename"
              /\ picture'[r] = picture[r] /\ made' = made
           \/ /\ pc[r] = "write" /\ pc'[r] = "release"
              /\ picture'[r] = picture[r] /\ made' = made \ {r}
    BY <1>4 DEF Lookup, Render, Fallback, Rendered, WriteTemp, Goto, Take, TypeOK
  <2>2. /\ \A q \in Requests \ {r} : pc'[q] = pc[q] /\ picture'[q] = picture[q]
        /\ \A q \in Requests : asked'[q] = asked[q] /\ Name(q)' = Name(q)
    BY <2>1 DEF TypeOK, Name, CachePath
  <2>3. /\ Name(r) \in Names /\ Name(r)[2] = Stamp[asked[r].version]
        /\ asked[r].video \in Videos /\ asked[r].version \in Contents
    BY NameIsAName
  <2>4. TypeOK'
    <3>1. picture'[r] \in 0 .. HalfWritten
      BY <1>0, <2>1, <2>3 DEF TypeOK
    <3> QED
      BY <2>1, <3>1 DEF TypeOK
  <2>5. Holders' = Holders
    BY <2>1, <2>2 DEF Holders
  <2>6. SlotsAccounted'
    BY <2>1, <2>5 DEF SlotsAccounted
  <2>7. RunsAccounted'
    <3>1. made \subseteq Requests /\ made' \subseteq Requests
      BY <2>1 DEF TypeOK
    <3>2. \A n \in Names : Makers(n)' \subseteq Makers(n)
      BY <2>1, <2>2, <3>1 DEF Makers
    <3>3. \A n \in Names : IsFiniteSet(Makers(n)') /\ Cardinality(Makers(n)') <= Workers
      BY <3>2, FewerMakers
    <3>4. \A q \in made' : q # r => q \in made /\ pc'[q] = pc[q] /\ Name(q)' = Name(q)
      BY <2>1, <2>2, <3>1
    <3>5. r \in made' => pc'[r] \in {"write", "rename"}
      BY <2>1 DEF RunsAccounted
    <3> QED
      BY <2>1, <3>3, <3>4, <3>5 DEF RunsAccounted
  <2>8. InHand'
    BY <1>0, <2>1, <2>2, <2>3 DEF InHand, TypeOK
  <2>9. InOrder'
    <3>1. disk[asked[r].video] \in Contents /\ asked[r].version <= disk[asked[r].video]
      BY <2>3 DEF InOrder, TypeOK
    <3>2. NotOlder(disk[asked[r].video], Stamp[asked[r].version])
      BY <2>3, <3>1 DEF NotOlder
    <3>3. picture'[r] # NoPicture => NotOlder(picture'[r], Stamp[asked[r].version])
      BY <2>1, <2>3, <3>2 DEF InOrder
    <3> QED
      BY <2>1, <2>2, <3>3 DEF InOrder, NotOlder
  <2> QED
    BY <2>4, <2>6, <2>7, <2>8, <2>9
<1>5. ASSUME NEW r \in Requests, Acquire(r)
      PROVE  IInv'
  <2>1. /\ free > 0 /\ free' = free - 1
        /\ pc[r] = "queue" /\ pc' = [pc EXCEPT ![r] = "recheck"]
        /\ UNCHANGED <<disk, seen, shelf, asked, picture, made>>
    BY <1>5 DEF Acquire, Goto
  <2>2. /\ pc'[r] = "recheck"
        /\ \A q \in Requests \ {r} : pc'[q] = pc[q]
        /\ \A q \in Requests : Name(q)' = Name(q)
    BY <2>1 DEF TypeOK, Name, CachePath
  <2>3. TypeOK'
    <3>1. free' \in 0 .. Workers
      BY <2>1, ThumbsAssumption DEF TypeOK
    <3> QED
      BY <2>1, <3>1 DEF TypeOK
  <2>4. SlotsAccounted'
    <3>1. Holders' = Holders \cup {r} /\ r \notin Holders
      BY <2>1, <2>2 DEF Holders
    <3>2. IsFiniteSet(Holders') /\ Cardinality(Holders') = Cardinality(Holders) + 1
      BY <3>1, FS_AddElement DEF SlotsAccounted
    <3>3. Cardinality(Holders) \in Nat /\ free \in Nat
      BY FS_CardinalityType DEF SlotsAccounted, TypeOK
    <3> QED
      BY <2>1, <3>2, <3>3, ThumbsAssumption DEF SlotsAccounted
  <2>5. \A n \in Names : Makers(n)' \subseteq Makers(n)
    BY <2>1, <2>2 DEF Makers
  <2>6. RunsAccounted'
    <3>1. \A q \in made : q \in Requests \ {r} \/ q = r
      BY DEF TypeOK
    <3>2. r \in made => pc[r] \in {"write", "rename", "release", "done"}
      BY DEF RunsAccounted
    <3> QED
      BY <2>1, <2>2, <2>5, <3>1, <3>2, NoNewMakers
  <2>7. InHand' /\ InOrder'
    BY <2>1, <2>2 DEF InHand, InOrder
  <2> QED
    BY <2>3, <2>4, <2>6, <2>7
<1>6. ASSUME NEW r \in Requests, Recheck(r)
      PROVE  IInv'
  <2>1. /\ pc[r] = "recheck"
        /\ pc' = [pc EXCEPT ![r] = IF shelf[Name(r)] # NoPicture THEN "release" ELSE "render"]
        /\ picture' = [picture EXCEPT ![r] = shelf[Name(r)]]
        /\ UNCHANGED <<disk, seen, shelf, free, asked, made>>
    BY <1>6 DEF Recheck, Goto, Take
  <2>2. /\ pc'[r] = IF shelf[Name(r)] # NoPicture THEN "release" ELSE "render"
        /\ picture'[r] = shelf[Name(r)]
        /\ \A q \in Requests \ {r} : pc'[q] = pc[q] /\ picture'[q] = picture[q]
        /\ \A q \in Requests : Name(q)' = Name(q)
    BY <2>1 DEF TypeOK, Name, CachePath
  <2>3. /\ Name(r) \in Names /\ Name(r)[2] = Stamp[asked[r].version]
        /\ asked[r].video \in Videos /\ asked[r].version \in Contents
    BY NameIsAName
  <2>4. TypeOK'
    BY <2>1, <2>3 DEF TypeOK
  <2>5. Holders' = Holders
    BY <2>1, <2>2 DEF Holders
  <2>6. SlotsAccounted'
    BY <2>1, <2>5 DEF SlotsAccounted
  <2>7. RunsAccounted'
    <3>1. r \notin made /\ made \subseteq Requests
      BY <2>1 DEF RunsAccounted, TypeOK
    <3>2. ASSUME NEW n \in Names
          PROVE  IsFiniteSet(Makers(n)') /\ Cardinality(Makers(n)') <= Workers
      <4>1. CASE n = Name(r) /\ shelf[n] = NoPicture
        <5>1. Makers(n)' \subseteq Holders'
          BY <2>1, <2>2, <3>1, <4>1 DEF Makers, Holders, RunsAccounted
        <5> QED
          BY <2>5, <5>1, HoldersAreFew
      <4>2. CASE ~(n = Name(r) /\ shelf[n] = NoPicture)
        <5>1. Makers(n)' \subseteq Makers(n)
          BY <2>1, <2>2, <3>1, <4>2 DEF Makers
        <5> QED
          BY <5>1, FewerMakers
      <4> QED
        BY <4>1, <4>2
    <3> QED
      BY <2>1, <2>2, <3>1, <3>2 DEF RunsAccounted
  <2>8. InHand'
    BY <2>1, <2>2 DEF InHand
  <2>9. InOrder'
    <3>1. picture'[r] # NoPicture => NotOlder(picture'[r], Stamp[asked[r].version])
      BY <2>2, <2>3 DEF InOrder
    <3> QED
      BY <2>1, <2>2, <3>1 DEF InOrder, NotOlder
  <2> QED
    BY <2>4, <2>6, <2>7, <2>8, <2>9
<1>7. ASSUME NEW r \in Requests, Rename(r)
      PROVE  IInv'
  <2>1. /\ pc[r] = "rename" /\ pc' = [pc EXCEPT ![r] = "release"]
        /\ UNCHANGED <<disk, seen, free, asked, picture>>
        /\ \/ shelf' = [shelf EXCEPT ![Name(r)] = picture[r]] /\ made' = made
           \/ shelf' = shelf /\ made' = made \ {r}
    BY <1>7 DEF Rename, Goto
  <2>2. /\ pc'[r] = "release"
        /\ \A q \in Requests \ {r} : pc'[q] = pc[q]
        /\ \A q \in Requests : Name(q)' = Name(q)
    BY <2>1 DEF TypeOK, Name, CachePath
  <2>3. /\ Name(r) \in Names /\ Name(r)[2] = Stamp[asked[r].version]
        /\ asked[r].video \in Videos /\ asked[r].version \in Contents
    BY NameIsAName
  <2>4. TypeOK'
    BY <2>1, <2>3 DEF TypeOK
  <2>5. Holders' = Holders
    BY <2>1, <2>2 DEF Holders
  <2>6. SlotsAccounted'
    BY <2>1, <2>5 DEF SlotsAccounted
  <2>7. RunsAccounted'
    <3>1. made' \subseteq made /\ made \subseteq Requests
      BY <2>1 DEF TypeOK
    <3>2. \A n \in Names : Makers(n)' \subseteq Makers(n)
      BY <2>1, <2>2, <3>1 DEF Makers
    <3>3. \A n \in Names : IsFiniteSet(Makers(n)') /\ Cardinality(Makers(n)') <= Workers
      BY <3>2, FewerMakers
    <3>4. \A n \in Names : shelf'[n] = NoPicture => shelf[n] = NoPicture
      BY <2>1, <2>3 DEF InHand, TypeOK
    <3>5. r \in made' => shelf'[Name(r)] # NoPicture
      BY <2>1, <2>3 DEF InHand, TypeOK
    <3>6. \A q \in made' : Name(q) \in Names /\ Name(q)' = Name(q)
      BY <2>2, <3>1, NameIsAName
    <3>7. ASSUME NEW q \in made'
          PROVE  /\ pc'[q] \in {"write", "rename", "release", "done"}
                 /\ shelf'[Name(q)'] = NoPicture => pc'[q] \in {"write", "rename"}
      <4>1. CASE q = r
        BY <2>2, <3>5, <3>6, <4>1
      <4>2. CASE q # r
        BY <2>2, <3>1, <3>4, <3>6, <4>2 DEF RunsAccounted
      <4> QED
        BY <4>1, <4>2
    <3> QED
      BY <3>3, <3>7 DEF RunsAccounted
  <2>8. InHand'
    BY <2>1, <2>2 DEF InHand
  <2>9. InOrder'
    <3>1. ASSUME NEW n \in Names, shelf'[n] # NoPicture
          PROVE  NotOlder(shelf'[n], n[2])
      <4>1. CASE shelf'[n] = shelf[n]
        BY <3>1, <4>1 DEF InOrder
      <4>2. CASE shelf'[n] # shelf[n]
        <5>1. n = Name(r) /\ shelf'[n] = picture[r]
          BY <2>1, <4>2 DEF TypeOK
        <5> QED
          BY <2>3, <3>1, <5>1 DEF InOrder
      <4> QED
        BY <4>1, <4>2
    <3> QED
      BY <2>1, <3>1 DEF InOrder, NotOlder
  <2> QED
    BY <2>4, <2>6, <2>7, <2>8, <2>9
<1>8. ASSUME NEW r \in Requests, Release(r)
      PROVE  IInv'
  <2>1. /\ pc[r] = "release" /\ pc' = [pc EXCEPT ![r] = "done"]
        /\ free' = free + 1
        /\ UNCHANGED <<disk, seen, shelf, asked, picture, made>>
    BY <1>8 DEF Release, Goto
  <2>2. /\ pc'[r] = "done"
        /\ \A q \in Requests \ {r} : pc'[q] = pc[q]
        /\ \A q \in Requests : Name(q)' = Name(q)
    BY <2>1 DEF TypeOK, Name, CachePath
  <2>3. SlotsAccounted' /\ free' <= Workers
    <3>1. Holders' = Holders \ {r} /\ r \in Holders
      BY <2>1, <2>2 DEF Holders
    <3>2. IsFiniteSet(Holders') /\ Cardinality(Holders') = Cardinality(Holders) - 1
      BY <3>1, FS_RemoveElement DEF SlotsAccounted
    <3>3. Cardinality(Holders) \in Nat /\ Cardinality(Holders') \in Nat /\ free \in Nat
      BY <3>2, FS_CardinalityType DEF SlotsAccounted, TypeOK
    <3> QED
      BY <2>1, <3>2, <3>3, ThumbsAssumption DEF SlotsAccounted
  <2>4. TypeOK'
    BY <2>1, <2>3 DEF TypeOK
  <2>5. \A n \in Names : Makers(n)' \subseteq Makers(n)
    BY <2>1, <2>2 DEF Makers
  <2>6. RunsAccounted'
    <3>1. \A q \in made : q \in Requests \ {r} \/ q = r
      BY DEF TypeOK
    <3>2. r \in made => pc[r] \in {"write", "rename", "release", "done"}
      BY DEF RunsAccounted
    <3> QED
      BY <2>1, <2>2, <2>5, <3>1, <3>2, NoNewMakers
  <2>7. InHand' /\ InOrder'
    BY <2>1, <2>2 DEF InHand, InOrder
  <2> QED
    BY <2>3, <2>4, <2>6, <2>7
<1>9. CASE UNCHANGED vars
  <2>1. Holders' = Holders /\ \A n \in Names : Makers(n)' = Makers(n)
    BY <1>9 DEF vars, Holders, Makers, Name, CachePath
  <2>2. RunsAccounted'
    <3>1. \A r : Name(r)' = Name(r)
      BY <1>9 DEF vars, Name, CachePath
    <3> QED
      BY <1>9, <2>1, <3>1, NoNewMakers DEF vars
  <2> QED
    BY <1>9, <2>1, <2>2 DEF vars, TypeOK, SlotsAccounted, InHand, InOrder, NotOlder
<1> QED
  BY <1>1, <1>2, <1>3, <1>4, <1>5, <1>6, <1>7, <1>8, <1>9 DEF Next, Step

(***************************************************************************)
(* The invariant holds in every state of Thumbs.                           *)
(***************************************************************************)
THEOREM InvariantHolds == Spec => []IInv
  BY InitIInv, NextIInv, PTL DEF Spec

(***************************************************************************)
(* Every variable keeps its type; above all, no slot of the semaphore is   *)
(* given back twice, on whatever path Get returns.                         *)
(***************************************************************************)
THEOREM TypeCorrect == Spec => []TypeOK
<1>1. IInv => TypeOK
  BY DEF IInv
<1> QED
  BY <1>1, InvariantHolds, PTL

(***************************************************************************)
(* Get's second look: however many requests for one picture come at once,  *)
(* ffmpeg succeeds in rendering it at most Workers times, not counting the *)
(* renderings that could not be written or renamed and are lost.           *)
(***************************************************************************)
THEOREM FewRuns == Spec => []MadeAtMostWorkersTimes
<1>1. IInv => MadeAtMostWorkersTimes
  <2> SUFFICES ASSUME IInv, NEW n \in Names
               PROVE  Cardinality({r \in made : Name(r) = n}) <= Workers
    BY DEF MadeAtMostWorkersTimes
  <2>1. {r \in made : Name(r) = n} \subseteq Makers(n)
    BY DEF IInv, TypeOK, Makers
  <2> QED
    BY <2>1, FewerMakers DEF IInv
<1> QED
  BY <1>1, InvariantHolds, PTL

(***************************************************************************)
(* Whoever looks at the shelf while a picture is being put there sees      *)
(* nothing or a whole picture.                                             *)
(***************************************************************************)
THEOREM WholePictures == Spec => []PicturesAreWhole
<1>1. IInv => PicturesAreWhole
  <2>1. HalfWritten \notin Contents /\ HalfWritten # NoPicture
    BY ThumbsAssumption DEF HalfWritten, Contents, NoPicture
  <2> QED
    BY <2>1 DEF IInv, InOrder, NotOlder, PicturesAreWhole
<1> QED
  BY <1>1, InvariantHolds, PTL

(***************************************************************************)
(* CachePath: a picture is never older than the first version that had the *)
(* stamp in its name, through edits, rescans and videos put back; so it is *)
(* never older than the index when the index's stamp was new with it.      *)
(***************************************************************************)
THEOREM FreshPictures ==
  Spec => /\ []NeverOlderThanTheStamp
          /\ [](\A r \in Requests :
                  /\ pc[r] = "done" /\ picture[r] # NoPicture
                  /\ \A v \in Contents : Stamp[v] = Stamp[asked[r].version] => asked[r].version <= v
                  => asked[r].version <= picture[r])
<1>1. IInv => NeverOlderThanTheStamp
  BY DEF IInv, InOrder, NotOlder, NeverOlderThanTheStamp
<1>2. IInv =>
        \A r \in Requests :
          /\ pc[r] = "done" /\ picture[r] # NoPicture
          /\ \A v \in Contents : Stamp[v] = Stamp[asked[r].version] => asked[r].version <= v
          => asked[r].version <= picture[r]
  <2> SUFFICES ASSUME IInv, NEW r \in Requests, picture[r] # NoPicture,
                      \A v \in Contents : Stamp[v] = Stamp[asked[r].version] => asked[r].version <= v
               PROVE  asked[r].version <= picture[r]
    OBVIOUS
  <2>1. PICK first \in Contents : Stamp[first] = Stamp[asked[r].version] /\ first <= picture[r]
    BY DEF IInv, InOrder, NotOlder
  <2>2. asked[r].version \in Nat /\ first \in Nat /\ picture[r] \in Nat
    BY DEF IInv, TypeOK, Contents, HalfWritten
  <2> QED
    BY <2>1, <2>2
<1> QED
  BY <1>1, <1>2, InvariantHolds, PTL

\* The steps of Get that are left from each place, at most.
StepsFrom ==
  [idle |-> 9, lookup |-> 8, queue |-> 7, recheck |-> 6, render |-> 5, fallback |-> 4,
   write |-> 3, rename |-> 2, release |-> 1, done |-> 0]

(***************************************************************************)
(* Get and Maker.sem: no request goes round in circles, whatever fails,    *)
(* and none queues unless every slot is with another request, one that     *)
(* waits for nothing but ffmpeg and the disk.                              *)
(***************************************************************************)
THEOREM RequestsGetOn ==
  Spec => /\ [](\A r \in Requests : pc[r] = "queue" => free > 0 \/ Holders # {})
          /\ [][\A r \in Requests : pc'[r] = pc[r] \/ StepsFrom[pc'[r]] < StepsFrom[pc[r]]]_vars
<1>1. IInv => \A r \in Requests : pc[r] = "queue" => free > 0 \/ Holders # {}
  <2> SUFFICES ASSUME IInv, NEW r \in Requests, pc[r] = "queue", Holders = {}
               PROVE  free > 0
    BY DEF IInv, TypeOK
  <2>1. Cardinality(Holders) = 0
    BY FS_EmptySet
  <2> QED
    BY <2>1, ThumbsAssumption DEF IInv, SlotsAccounted, TypeOK
<1>2. IInv /\ [Next]_vars =>
        [\A r \in Requests : pc'[r] = pc[r] \/ StepsFrom[pc'[r]] < StepsFrom[pc[r]]]_vars
  <2> SUFFICES ASSUME IInv, Next, NEW r \in Requests
               PROVE  pc'[r] = pc[r] \/ StepsFrom[pc'[r]] < StepsFrom[pc[r]]
    OBVIOUS
  <2>1. CASE \E v \in Videos : Edit(v)
    BY <2>1 DEF Edit
  <2>2. CASE Rescan
    BY <2>2 DEF Rescan
  <2>3. ASSUME NEW q \in Requests, Ask(q) \/ Acquire(q) \/ Step(q)
        PROVE  pc'[r] = pc[r] \/ StepsFrom[pc'[r]] < StepsFrom[pc[r]]
    <3>1. \E to \in DOMAIN StepsFrom :
            /\ pc' = [pc EXCEPT ![q] = to]
            /\ StepsFrom[to] < StepsFrom[pc[q]]
      BY <2>3 DEF Ask, Acquire, Step, Lookup, Recheck, Render, Fallback, Rendered, WriteTemp,
                  Rename, Release, Goto, StepsFrom
    <3> QED
      BY <3>1 DEF IInv, TypeOK
  <2> QED
    BY <2>1, <2>2, <2>3 DEF Next
<1> QED
  BY <1>1, <1>2, InvariantHolds, PTL DEF Spec
=============================================================================
