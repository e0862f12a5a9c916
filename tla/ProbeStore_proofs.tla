-------------------------- MODULE ProbeStore_proofs --------------------------
(***************************************************************************)
(* Safety of ProbeStore, for every folder, every history of what a file    *)
(* holds and every stamp of it, any number of scans and of runs of the     *)
(* program.                                                                *)
(*                                                                         *)
(* What a stored yes is worth no single state shows: the stamp was taken   *)
(* before the tools read the file, and the walk that finds the same stamp  *)
(* again came after them, so what the tools accepted is from between two   *)
(* occasions with one stamp.  Earned is that argument as an invariant of   *)
(* the records in memory and on disk.  Only of a file that never goes back *)
(* to a stamp it has left does it follow that the stamp is right as well.  *)
(***************************************************************************)
EXTENDS ProbeStore, TLAPS

\* A yes on record was given in a scan that took the stamp it carries, to what
\* the file held then or later, but no later than the version given.
Earned(rec, f, version) ==
  rec.valid =>
    /\ rec.stamp # 0
    /\ \E p \in passed : /\ p.file = f /\ Stamp[p.seen] = rec.stamp
                         /\ p.seen <= p.version /\ p.version <= version

\* Until a file has been looked at in a scan, its record is from before the walk.
RecordsEarned ==
  \A f \in Files :
    /\ Earned(records[f], f, disk[f])
    /\ Earned(saved[f], f, disk[f])
    /\ check[f] = "asked" => Earned(records[f], f, seen[f])

\* Where a scan is with each file.
ScanSound ==
  \A f \in Files :
    /\ seen[f] <= disk[f]
    /\ check[f] \in {"asked", "inspect", "early", "late"} =>
         phase = "scan" /\ seen[f] # Gone /\ level # "off"
    /\ answer[f] # "none" \/ f \in cached => check[f] = "done"

\* What has been accepted in this scan is in the store, and Save will keep it.
Remembered ==
  /\ phase \in {"saving", "temp"} => kept
  /\ phase \in {"scan", "saving", "temp"} /\ kept =>
       \A f \in Files : answer[f] = "serve" =>
         /\ records[f].valid /\ records[f].stamp = Stamp[seen[f]]
         /\ phase = "scan" => f \in touched

IInv ==
  /\ TypeOK
  /\ RecordsEarned
  /\ ScanSound
  /\ Remembered
  /\ CachedYesWasEarned

-----------------------------------------------------------------------------
(***************************************************************************)
(* Versions are numbers, Gone comes before them all, and stamps are        *)
(* positive numbers.                                                       *)
(***************************************************************************)
LEMMA Versioned ==
  /\ Contents \subseteq Nat /\ Gone \in Nat /\ Gone \notin Contents
  /\ \A v \in Contents : Stamp[v] \in Nat /\ Stamp[v] # 0
  /\ TypeOK => \A f \in Files : disk[f] \in Nat /\ seen[f] \in Nat
<1>1. Contents \subseteq Nat /\ Gone \in Nat /\ Gone \notin Contents
  BY DEF Contents, Gone
<1> QED
  BY <1>1, ProbeAssumption DEF TypeOK

(***************************************************************************)
(* An empty store, and a store with a torn probe.json put aside, are       *)
(* stores; neither answers for any file.                                   *)
(***************************************************************************)
LEMMA StoresAreTyped ==
  /\ Nothing \in [Files -> RecordType] /\ Torn \in [Files -> RecordType]
  /\ \A f \in Files : ~Nothing[f].valid
  BY DEF Nothing, Torn, NoRecord, RecordType

(***************************************************************************)
(* The initial state of ProbeStore satisfies the inductive invariant.      *)
(***************************************************************************)
LEMMA InitIInv == Init => IInv
<1> SUFFICES ASSUME Init PROVE IInv
  OBVIOUS
<1> USE DEF Init
<1>1. TypeOK
  BY StoresAreTyped DEF TypeOK, NotSeen, NoCheck
<1>2. RecordsEarned
  BY StoresAreTyped DEF RecordsEarned, Earned, NoCheck
<1>3. ScanSound
  <2>1. \A f \in Files : seen[f] = 0 /\ disk[f] \in Nat
    BY <1>1, Versioned DEF NotSeen, Gone
  <2> QED
    BY <2>1 DEF ScanSound, NoCheck
<1>4. Remembered /\ CachedYesWasEarned
  BY DEF Remembered, CachedYesWasEarned
<1> QED
  BY <1>1, <1>2, <1>3, <1>4 DEF IInv

-----------------------------------------------------------------------------
(***************************************************************************)
(* Check's end keeps the invariant: whatever is put for f, a yes on record *)
(* was given to what the file holds now, which the walk's stamp precedes.  *)
(***************************************************************************)
LEMMA PutSound ==
  ASSUME IInv, NEW f \in Files, NEW serve \in BOOLEAN,
         check[f] \in {"inspect", "early", "late"}, serve => disk[f] \in Contents,
         Put(f, serve),
         UNCHANGED <<disk, saved, phase, flags, seen, cached, counts>>
  PROVE  IInv'
<1> USE DEF IInv
<1>1. /\ check' = [check EXCEPT ![f] = "done"]
      /\ answer' = [answer EXCEPT ![f] = IF serve THEN "serve" ELSE "refuse"]
      /\ passed' = IF serve THEN passed \cup {[file |-> f, seen |-> seen[f], version |-> disk[f],
                                                 level |-> level]}
                   ELSE passed
      /\ records' = IF kept THEN [records EXCEPT ![f] = Record(f, serve)] ELSE records
      /\ touched' = IF kept THEN touched \cup {f} ELSE touched
      /\ UNCHANGED <<disk, saved, phase, level, revalidate, kept, seen, cached>>
  BY DEF Put, flags
<1>2. /\ phase = "scan" /\ seen[f] \in Contents /\ level \in {"container", "content"}
      /\ Record(f, serve) = [valid |-> serve, stamp |-> Stamp[seen[f]]]
  BY DEF ScanSound, TypeOK, Record
<1>3. Stamp[seen[f]] \in Nat /\ Stamp[seen[f]] # 0
  BY <1>2, Versioned
<1>4. /\ check'[f] = "done"
      /\ \A g \in Files \ {f} : check'[g] = check[g] /\ answer'[g] = answer[g] /\ records'[g] = records[g]
  BY <1>1 DEF TypeOK
<1>5. passed \subseteq passed'
  BY <1>1
<1>6. TypeOK'
  <2>1. records' \in [Files -> RecordType]
    BY <1>1, <1>2, <1>3 DEF TypeOK, RecordType
  <2>2. passed' \subseteq [file : Files, seen : Contents, version : Contents,
                          level : {"container", "content"}]
    BY <1>1, <1>2 DEF TypeOK
  <2> QED
    BY <1>1, <2>1, <2>2 DEF TypeOK
<1>7. RecordsEarned'
  <2>1. \A g \in Files : Earned(saved[g], g, disk[g])'
    BY <1>1, <1>5 DEF RecordsEarned, Earned
  <2>2. \A g \in Files \ {f} :
          Earned(records[g], g, disk[g])' /\ (check'[g] = "asked" => Earned(records[g], g, seen[g])')
    BY <1>1, <1>4, <1>5 DEF RecordsEarned, Earned
  <2>3. Earned(records[f], f, disk[f])'
    <3>1. CASE ~kept
      BY <1>1, <1>5, <3>1 DEF RecordsEarned, Earned
    <3>2. CASE kept
      <4>1. records'[f] = [valid |-> serve, stamp |-> Stamp[seen[f]]]
        BY <1>1, <1>2, <3>2 DEF TypeOK
      <4>2. CASE ~serve
        BY <4>1, <4>2 DEF Earned
      <4>3. CASE serve
        <5> DEFINE p == [file |-> f, seen |-> seen[f], version |-> disk[f], level |-> level]
        <5>1. p \in passed' /\ p.file = f /\ p.seen = seen[f] /\ p.version = disk[f]
          BY <1>1, <4>3
        <5>2. seen[f] <= disk[f] /\ disk[f] <= disk'[f]
          <6>1. disk[f] \in Nat /\ disk'[f] = disk[f]
            BY <1>1, Versioned
          <6> QED
            BY <6>1 DEF ScanSound
        <5>3. /\ records'[f].stamp # 0 /\ Stamp[p.seen] = records'[f].stamp
              /\ p.seen <= p.version /\ p.version <= disk'[f]
          BY <1>3, <4>1, <5>1, <5>2
        <5> HIDE DEF p
        <5> QED
          BY <5>1, <5>3 DEF Earned
      <4> QED
        BY <4>2, <4>3
    <3> QED
      BY <3>1, <3>2
  <2> QED
    BY <1>4, <2>1, <2>2, <2>3 DEF RecordsEarned
<1>8. ScanSound'
  BY <1>1, <1>2, <1>4 DEF ScanSound
<1>9. Remembered'
  <2> SUFFICES ASSUME kept, NEW g \in Files, answer'[g] = "serve"
               PROVE  records'[g].valid /\ records'[g].stamp = Stamp[seen[g]] /\ g \in touched'
    BY <1>1, <1>2 DEF Remembered
  <2>1. CASE g = f
    <3>1. serve = TRUE
      BY <1>1, <2>1 DEF TypeOK
    <3>2. records'[f] = [valid |-> TRUE, stamp |-> Stamp[seen[f]]]
      BY <1>1, <1>2, <3>1 DEF TypeOK
    <3>3. f \in touched'
      BY <1>1
    <3> QED
      BY <2>1, <3>2, <3>3
  <2>2. CASE g # f
    BY <1>1, <1>2, <1>4, <2>2 DEF Remembered
  <2> QED
    BY <2>1, <2>2
<1>10. CachedYesWasEarned'
  <2>1. f \notin cached
    BY DEF ScanSound
  <2> QED
    BY <1>1, <1>4, <1>5, <2>1 DEF CachedYesWasEarned, TypeOK
<1> QED
  BY <1>6, <1>7, <1>8, <1>9, <1>10

(***************************************************************************)
(* From one tool to the next nothing is recorded.                          *)
(***************************************************************************)
LEMMA NextToolSound ==
  ASSUME IInv, NEW f \in Files, NEW to \in {"early", "late"},
         check[f] \in {"inspect", "early"},
         check' = [check EXCEPT ![f] = to],
         UNCHANGED <<records, touched, answer, passed>>,
         UNCHANGED <<disk, saved, phase, flags, seen, cached, counts>>
  PROVE  IInv'
<1> USE DEF IInv, flags
<1>1. /\ check'[f] = to
      /\ \A g \in Files \ {f} : check'[g] = check[g]
  BY DEF TypeOK
<1>2. TypeOK'
  BY DEF TypeOK
<1>3. RecordsEarned'
  BY <1>1 DEF RecordsEarned, Earned
<1>4. ScanSound'
  BY <1>1 DEF ScanSound
<1>5. Remembered' /\ CachedYesWasEarned'
  BY DEF Remembered, CachedYesWasEarned
<1> QED
  BY <1>2, <1>3, <1>4, <1>5

-----------------------------------------------------------------------------
(***************************************************************************)
(* Every step of ProbeStore preserves the inductive invariant.             *)
(***************************************************************************)
LEMMA NextIInv == IInv /\ [Next]_vars => IInv'
<1> SUFFICES ASSUME IInv, [Next]_vars
             PROVE  IInv'
  OBVIOUS
<1> USE DEF IInv, program, flags, counts
<1>1. ASSUME NEW f \in Files, Rewrite(f)
      PROVE  IInv'
  <2>1. /\ disk[f] < Versions /\ disk' = [disk EXCEPT ![f] = @ + 1]
        /\ UNCHANGED <<saved, program, passed, counts>>
    BY <1>1 DEF Rewrite
  <2>2. \A g \in Files : disk[g] \in Nat /\ seen[g] \in Nat
    BY Versioned
  <2>3. disk[f] + 1 \in Contents
    BY <2>1, <2>2, ProbeAssumption DEF Contents
  <2>4. TypeOK'
    BY <2>1, <2>3 DEF TypeOK
  <2>5. \A g \in Files : disk'[g] \in Nat /\ disk[g] <= disk'[g]
    BY <2>1, <2>2 DEF TypeOK
  <2>6. RecordsEarned'
    <3>1. \A g \in Files, p \in passed : p.version \in Nat
      BY Versioned DEF TypeOK
    <3>2. \A g \in Files, p \in passed : p.version <= disk[g] => p.version <= disk'[g]
      BY <2>2, <2>5, <3>1
    <3> QED
      BY <2>1, <3>2 DEF RecordsEarned, Earned
  <2>7. ScanSound'
    BY <2>1, <2>2, <2>5 DEF ScanSound
  <2>8. Remembered' /\ CachedYesWasEarned'
    BY <2>1 DEF Remembered, CachedYesWasEarned
  <2> QED
    BY <2>4, <2>6, <2>7, <2>8
<1>2. CASE Start
  <2>1. /\ phase = "down" /\ phase' = "idle"
        /\ UNCHANGED <<disk, saved, seen, check, answer, cached, passed>>
        /\ records' \in {saved, Nothing} /\ touched' = {}
        /\ level' \in {"off", "container", "content"} /\ revalidate' \in BOOLEAN /\ kept' \in BOOLEAN
    BY <1>2, ProbeAssumption DEF Start, InForce
  <2>2. TypeOK'
    BY <2>1, StoresAreTyped DEF TypeOK
  <2>3. \A f \in Files : check[f] \notin {"asked", "inspect", "early", "late"}
    BY <2>1 DEF ScanSound
  <2>4. RecordsEarned'
    BY <2>1, <2>3, StoresAreTyped DEF RecordsEarned, Earned
  <2>5. ScanSound'
    BY <2>1, <2>3 DEF ScanSound
  <2>6. Remembered' /\ CachedYesWasEarned'
    BY <2>1 DEF Remembered, CachedYesWasEarned
  <2> QED
    BY <2>2, <2>4, <2>5, <2>6
<1>3. CASE Crash
  <2>1. /\ phase' = "down" /\ level' = "off" /\ revalidate' = FALSE /\ kept' = FALSE
        /\ records' = Nothing /\ touched' = {} /\ cached' = {}
        /\ seen' = NotSeen /\ check' = NoCheck /\ answer' = NoCheck
        /\ UNCHANGED <<disk, saved, passed>>
    BY <1>3 DEF Crash
  <2>2. TypeOK'
    BY <2>1, StoresAreTyped DEF TypeOK, NotSeen, NoCheck
  <2>3. RecordsEarned'
    BY <2>1, StoresAreTyped DEF RecordsEarned, Earned, NoCheck
  <2>4. ScanSound'
    <3>1. \A f \in Files : seen'[f] = 0 /\ disk'[f] \in Nat
      BY <2>1, Versioned DEF NotSeen, Gone
    <3> QED
      BY <2>1, <3>1 DEF ScanSound, NoCheck
  <2>5. Remembered' /\ CachedYesWasEarned'
    BY <2>1 DEF Remembered, CachedYesWasEarned
  <2> QED
    BY <2>2, <2>3, <2>4, <2>5
<1>4. CASE BeginScan
  <2>1. PICK hidden \in SUBSET Files :
          seen' = [f \in Files |-> IF f \in hidden THEN Gone ELSE disk[f]]
    BY <1>4 DEF BeginScan
  <2>2. /\ phase = "idle" /\ phase' = "scan"
        /\ check' = [f \in Files |-> IF seen'[f] # Gone /\ level # "off" THEN "asked" ELSE "none"]
        /\ answer' = NoCheck /\ cached' = {}
        /\ UNCHANGED <<disk, saved, level, revalidate, kept, records, touched, passed>>
    BY <1>4 DEF BeginScan
  <2>3. TypeOK'
    BY <2>1, <2>2 DEF TypeOK, NoCheck
  <2>4. \A f \in Files : check'[f] = "asked" => seen'[f] = disk[f] /\ seen'[f] # Gone /\ level # "off"
    BY <2>1, <2>2 DEF TypeOK
  <2>5. RecordsEarned'
    BY <2>2, <2>4 DEF RecordsEarned, Earned
  <2>6. ScanSound'
    <3>1. \A f \in Files : disk[f] \in Nat /\ seen'[f] \in {0, disk[f]}
      BY <2>1, Versioned DEF Gone
    <3>2. \A f \in Files : seen'[f] <= disk'[f]
      BY <2>2, <3>1
    <3> QED
      BY <2>2, <2>4, <3>2 DEF ScanSound, NoCheck
  <2>7. Remembered' /\ CachedYesWasEarned'
    BY <2>2 DEF Remembered, CachedYesWasEarned, NoCheck
  <2> QED
    BY <2>3, <2>5, <2>6, <2>7
<1>5. ASSUME NEW f \in Files, Check(f)
      PROVE  IInv'
  <2> DEFINE hit == ~revalidate /\ kept /\ records[f].valid /\ records[f].stamp = Stamp[seen[f]]
  <2>1. /\ check[f] = "asked"
        /\ check' = [check EXCEPT ![f] = IF hit THEN "done" ELSE "inspect"]
        /\ answer' = IF hit THEN [answer EXCEPT ![f] = "serve"] ELSE answer
        /\ cached' = IF hit THEN cached \cup {f} ELSE cached
        /\ touched' = IF revalidate \/ ~kept THEN touched ELSE touched \cup {f}
        /\ UNCHANGED <<disk, saved, phase, level, revalidate, kept, records, seen, passed>>
    BY <1>5 DEF Check
  <2>2. /\ check'[f] = IF hit THEN "done" ELSE "inspect"
        /\ \A g \in Files \ {f} : check'[g] = check[g] /\ answer'[g] = answer[g]
        /\ answer'[f] = IF hit THEN "serve" ELSE answer[f]
    BY <2>1 DEF TypeOK
  <2>3. hit => \E p \in passed : /\ p.file = f /\ Stamp[p.seen] = Stamp[seen[f]]
                                /\ p.seen <= p.version /\ p.version <= seen[f]
    BY <2>1 DEF RecordsEarned, Earned
  <2>4. hit => kept /\ records[f].valid /\ records[f].stamp = Stamp[seen[f]] /\ f \in touched'
    BY <2>1
  <2> HIDE DEF hit
  <2>5. TypeOK'
    BY <2>1 DEF TypeOK
  <2>6. RecordsEarned'
    BY <2>1, <2>2 DEF RecordsEarned, Earned
  <2>7. ScanSound'
    BY <2>1, <2>2 DEF ScanSound
  <2>8. Remembered'
    <3>1. phase = "scan" /\ touched \subseteq touched'
      BY <2>1 DEF ScanSound
    <3> QED
      BY <2>1, <2>2, <2>4, <3>1 DEF Remembered
  <2>9. CachedYesWasEarned'
    <3>1. f \notin cached
      BY <2>1 DEF ScanSound
    <3> QED
      BY <2>1, <2>2, <2>3, <3>1 DEF CachedYesWasEarned, TypeOK
  <2> QED
    BY <2>5, <2>6, <2>7, <2>8, <2>9
<1>6. ASSUME NEW f \in Files, RunProbe(f)
      PROVE  IInv'
  <2>1. check[f] = "inspect" /\ UNCHANGED <<disk, saved, phase, flags, seen, cached, counts>>
    BY <1>6 DEF RunProbe
  <2>2. CASE Put(f, FALSE)
    BY <2>1, <2>2, PutSound
  <2>3. CASE disk[f] \in Headers /\ Put(f, TRUE)
    BY <2>1, <2>3, PutSound, ProbeAssumption
  <2>4. CASE check' = [check EXCEPT ![f] = "early"] /\ UNCHANGED <<records, touched, answer, passed>>
    BY <2>1, <2>4, NextToolSound
  <2> QED
    BY <1>6, <2>2, <2>3, <2>4 DEF RunProbe
<1>7. ASSUME NEW f \in Files, CheckPayload(f)
      PROVE  IInv'
  <2>1. check[f] \in {"early", "late"} /\ UNCHANGED <<disk, saved, phase, flags, seen, cached, counts>>
    BY <1>7 DEF CheckPayload
  <2>2. CASE Put(f, FALSE)
    BY <2>1, <2>2, PutSound
  <2>3. CASE disk[f] \in Late /\ Put(f, TRUE)
    BY <2>1, <2>3, PutSound, ProbeAssumption
  <2>4. CASE check[f] = "early" /\ check' = [check EXCEPT ![f] = "late"] /\ UNCHANGED <<records, touched, answer, passed>>
    BY <2>1, <2>4, NextToolSound
  <2> QED
    BY <1>7, <2>2, <2>3, <2>4 DEF CheckPayload
<1>8. CASE Save
  <2>1. /\ phase = "scan"
        /\ \A f \in Files : check[f] \in {"none", "done"}
        /\ records' = [f \in Files |-> IF f \in touched THEN records[f] ELSE NoRecord]
        /\ touched' = {}
        /\ phase' = IF kept THEN "saving" ELSE "idle"
        /\ UNCHANGED <<disk, saved, level, revalidate, kept, seen, check, answer, cached, passed>>
    BY <1>8 DEF Save
  <2>2. TypeOK'
    <3>1. NoRecord \in RecordType
      BY DEF NoRecord, RecordType
    <3> QED
      BY <2>1, <3>1 DEF TypeOK
  <2>3. RecordsEarned'
    BY <2>1 DEF RecordsEarned, Earned, NoRecord
  <2>4. ScanSound'
    BY <2>1 DEF ScanSound
  <2>5. Remembered'
    BY <2>1 DEF Remembered
  <2>6. CachedYesWasEarned'
    BY <2>1 DEF CachedYesWasEarned
  <2> QED
    BY <2>2, <2>3, <2>4, <2>5, <2>6
<1>9. CASE WriteTemp
  <2>1. /\ phase = "saving" /\ phase' \in {"temp", "idle"}
        /\ UNCHANGED <<disk, saved, level, revalidate, kept, records, touched, seen, check, answer, cached, passed>>
    BY <1>9 DEF WriteTemp
  <2> QED
    BY <2>1 DEF TypeOK, RecordsEarned, Earned, ScanSound, Remembered, CachedYesWasEarned
<1>10. CASE Rename
  <2>1. /\ phase = "temp" /\ phase' = "idle" /\ saved' = records
        /\ UNCHANGED <<disk, level, revalidate, kept, records, touched, seen, check, answer, cached, passed>>
    BY <1>10 DEF Rename
  <2> QED
    BY <2>1 DEF TypeOK, RecordsEarned, Earned, ScanSound, Remembered, CachedYesWasEarned
<1>11. CASE UNCHANGED vars
  BY <1>11 DEF vars, TypeOK, RecordsEarned, Earned, ScanSound, Remembered, CachedYesWasEarned
<1> QED
  BY <1>1, <1>2, <1>3, <1>4, <1>5, <1>6, <1>7, <1>8, <1>9, <1>10, <1>11 DEF Next

(***************************************************************************)
(* The invariant holds in every state of ProbeStore.                       *)
(***************************************************************************)
THEOREM InvariantHolds == Spec => []IInv
  BY InitIInv, NextIInv, PTL DEF Spec

(***************************************************************************)
(* Every variable keeps its type.                                          *)
(***************************************************************************)
THEOREM TypeCorrect == Spec => []TypeOK
<1>1. IInv => TypeOK
  BY DEF IInv
<1> QED
  BY <1>1, InvariantHolds, PTL

(***************************************************************************)
(* Check: a yes taken from the store was earned since a walk that took the *)
(* stamp the last walk has just taken, by what the file held between the   *)
(* two, whatever was rewritten, put back, killed or restarted since.       *)
(* Nothing is asked of the stamps.                                         *)
(***************************************************************************)
THEOREM StoredYesIsSound == Spec => []CachedYesWasEarned
<1>1. IInv => CachedYesWasEarned
  BY DEF IInv
<1> QED
  BY <1>1, InvariantHolds, PTL

\* No file goes back to a stamp it has left.  Nothing in the program makes this
\* so: it fails when a file is changed and then put back with its time.
NeverPutBack ==
  \A u, v, w \in Contents : u <= v /\ v <= w /\ Stamp[u] = Stamp[w] => Stamp[v] = Stamp[u]

(***************************************************************************)
(* Check: as long as no file goes back to a stamp it has left, a yes taken *)
(* from the store was earned by what had this very stamp, although the     *)
(* stamp was taken before the tools read the file.                         *)
(***************************************************************************)
THEOREM StampIsRightUnlessPutBack ==
  ASSUME NeverPutBack
  PROVE  Spec => [](\A f \in cached : \E p \in passed :
                      p.file = f /\ Stamp[p.version] = Stamp[seen[f]])
<1>1. IInv => \A f \in cached : \E p \in passed :
                p.file = f /\ Stamp[p.version] = Stamp[seen[f]]
  <2> SUFFICES ASSUME IInv, NEW f \in cached
               PROVE  \E p \in passed : p.file = f /\ Stamp[p.version] = Stamp[seen[f]]
    OBVIOUS
  <2>1. PICK p \in passed : /\ p.file = f /\ Stamp[p.seen] = Stamp[seen[f]]
                           /\ p.seen <= p.version /\ p.version <= seen[f]
    BY DEF IInv, CachedYesWasEarned
  <2>2. p.seen \in Contents /\ p.version \in Contents
    BY DEF IInv, TypeOK
  <2>3. seen[f] \in Contents
    <3>1. p.version \in Nat /\ seen[f] \in Contents \cup {Gone} /\ p.version # 0
      BY <2>2, Versioned DEF IInv, TypeOK, Gone
    <3> QED
      BY <2>1, <3>1 DEF Gone
  <2>4. Stamp[p.version] = Stamp[p.seen]
    BY <2>1, <2>2, <2>3, NeverPutBack DEF NeverPutBack
  <2> QED
    BY <2>1, <2>4
<1> QED
  BY <1>1, InvariantHolds, PTL

(***************************************************************************)
(* What is about to be written answers for every file the scan accepted.   *)
(***************************************************************************)
THEOREM NothingAcceptedIsForgotten == Spec => []AcceptedFilesAreRemembered
<1>1. IInv => AcceptedFilesAreRemembered
  BY DEF IInv, Remembered, AcceptedFilesAreRemembered
<1> QED
  BY <1>1, InvariantHolds, PTL

(***************************************************************************)
(* Whenever the program is killed, probe.json is a complete save: every    *)
(* yes in it carries a stamp a walk took, which half of a save does not.   *)
(***************************************************************************)
THEOREM CrashesLeaveACompleteSave == Spec => []StoreSurvivesCrashes
<1>1. IInv => StoreSurvivesCrashes
  <2> SUFFICES ASSUME IInv, saved = Torn
               PROVE  FALSE
    BY DEF StoreSurvivesCrashes
  <2>1. PICK f \in Files : TRUE
    BY ProbeAssumption
  <2>2. saved[f].valid /\ saved[f].stamp = 0
    BY DEF Torn
  <2> QED
    BY <2>2 DEF IInv, RecordsEarned, Earned
<1> QED
  BY <1>1, InvariantHolds, PTL
=============================================================================
