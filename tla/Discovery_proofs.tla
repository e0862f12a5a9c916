-------------------------- MODULE Discovery_proofs ---------------------------
(***************************************************************************)
(* Safety of Discovery, for every number of targets, announcements, ticks, *)
(* rescans and read errors.                                                *)
(*                                                                         *)
(* That stop leaves nothing behind rests on the WaitGroup counting exactly *)
(* the loops that run (WgCounts), and that nothing is announced afterwards *)
(* on the order in which main starts, stops and closes things (Lifecycle). *)
(***************************************************************************)
EXTENDS Discovery, TLAPS

\* One if a goroutine is counted in the WaitGroup.
Counted(pc) == IF pc \in {"off", "exit"} THEN 0 ELSE 1

WgCounts ==
  wg = Counted(reader) + Counted(announcer["ticker"]) + Counted(announcer["burst"])

\* What main has started, and stopped, at each point.
Lifecycle ==
  /\ main \in {"start", "fallback"} =>
       /\ ssdp = FALSE /\ reader = "off" /\ announcer["ticker"] = "off" /\ announcer["burst"] = "off"
  /\ send \/ recv => ssdp
  /\ closed => main \in {"byebye", "close", "wait", "shutdown", "exit"}
  /\ main \in {"byebye", "close", "wait"} => ssdp /\ closed
  /\ main \in {"wait", "shutdown"} => ~send
  /\ main = "shutdown" /\ ssdp => wg = 0
  /\ reader = "exit" => closed

\* Where each announcing goroutine can be, and what it writes next.
AnnouncersSound ==
  /\ announcer["ticker"] \in {"off", "wait", "alive", "exit"}
  /\ announcer["burst"] \in {"off", "alive", "pause", "exit"}
  /\ announcer["rescan"] \in {"off", "alive"}
  /\ announcer["burst"] # "exit" => left.burst > 0
  /\ \A a \in Announcers : next[a] \in Targets
  /\ main \in {"start", "fallback", "banner", "select", "byebye"} => next["stop"] \in Targets

\* The search is a record, whatever its state.
SearchTyped ==
  search \in [pc : {"idle", "handle", "delay", "answered", "ignored"}, st : Sought \cup {"none"}]

IInv == TypeOK /\ SearchTyped /\ WgCounts /\ Lifecycle /\ AnnouncersSound

-----------------------------------------------------------------------------
(***************************************************************************)
(* The initial state of Discovery satisfies the inductive invariant.       *)
(***************************************************************************)
LEMMA InitIInv == Init => IInv
<1> SUFFICES ASSUME Init PROVE IInv
  OBVIOUS
<1> USE DEF Init
<1>1. TypeOK
  <2>1. next \in [Announcers \cup {"stop"} -> 1 .. NumTargets + 1]
    <3>1. 1 \in 1 .. NumTargets + 1
      BY DiscoveryAssumption
    <3> QED
      BY <3>1
  <2>2. left \in [burst : 0 .. Bursts, ticker : 0 .. MaxTicks, rescan : 0 .. MaxRescans,
                  error : 0 .. MaxErrors]
    BY DiscoveryAssumption
  <2>3. /\ announcer \in [Announcers -> {"off", "wait", "alive", "pause", "exit"}]
        /\ wire \in [Targets -> {"none", "alive", "byebye"}]
        /\ search.pc \in {"idle", "handle", "delay", "answered", "ignored"}
    OBVIOUS
  <2>4. wg \in 0 .. 3
    OBVIOUS
  <2>5. {ssdp, closed, recv, send} \subseteq BOOLEAN
    OBVIOUS
  <2> QED
    BY <2>1, <2>2, <2>3, <2>4, <2>5, Zenon DEF TypeOK
<1>2. SearchTyped
  BY DEF SearchTyped
<1>3. WgCounts /\ Lifecycle
  BY DEF WgCounts, Counted, Lifecycle, Announcers
<1>4. AnnouncersSound
  BY DiscoveryAssumption DEF AnnouncersSound, Announcers, Targets
<1> QED
  BY <1>1, <1>2, <1>3, <1>4 DEF IInv

-----------------------------------------------------------------------------
(***************************************************************************)
(* Writing one packet for a target leaves wire a table of packets.         *)
(***************************************************************************)
LEMMA SendNotifyTyped ==
  ASSUME TypeOK, NEW t \in Targets, NEW nts \in {"alive", "byebye"}, SendNotify(t, nts)
  PROVE  wire' \in [Targets -> {"none", "alive", "byebye"}]
  BY DEF TypeOK, SendNotify

(***************************************************************************)
(* Every step of Discovery preserves the inductive invariant.              *)
(***************************************************************************)
LEMMA NextIInv == IInv /\ [Next]_vars => IInv'
<1> SUFFICES ASSUME IInv, [Next]_vars
             PROVE  IInv'
  OBVIOUS
<1> USE DEF IInv, server, sockets
<1>1. CASE ListenFails \/ BannerPrinted \/ ServeFails \/ ErrorReceived
  <2>1. /\ UNCHANGED <<ssdp, closed, recv, send, wg, reader, announcer, next, left, search, wire>>
        /\ \/ main \in {"start", "fallback"} /\ main' \in {"fallback", "exit"}
           \/ main = "banner" /\ main' = "select"
           \/ main' = main
           \/ main = "select" /\ main' = "exit"
        /\ main' \in {"start", "fallback", "banner", "select", "byebye", "close", "wait",
                      "shutdown", "exit"}
        /\ http' \in {"off", "serving", "failed", "closed"} /\ errCh' \in {"empty", "error"}
    BY <1>1 DEF ListenFails, BannerPrinted, ServeFails, ErrorReceived, TypeOK
  <2>2. TypeOK' /\ SearchTyped' /\ WgCounts'
    BY <2>1 DEF TypeOK, SearchTyped, WgCounts
  <2>3. Lifecycle'
    BY <2>1 DEF Lifecycle
  <2>4. AnnouncersSound'
    BY <2>1 DEF AnnouncersSound
  <2> QED
    BY <2>2, <2>3, <2>4
<1>2. CASE Start
  <2>1. /\ main \in {"start", "fallback"} /\ main' = "banner" /\ http' = "serving"
        /\ ssdp' \in BOOLEAN /\ recv' = ssdp' /\ send' = ssdp'
        /\ wg' = IF ssdp' THEN 3 ELSE 0
        /\ reader' = IF ssdp' THEN "read" ELSE "off"
        /\ announcer' = IF ssdp' THEN [announcer EXCEPT !["ticker"] = "wait", !["burst"] = "alive"]
                        ELSE announcer
        /\ UNCHANGED <<errCh, closed, next, left, search, wire>>
    BY <1>2 DEF Start
  <2>2. /\ reader = "off" /\ announcer["ticker"] = "off" /\ announcer["burst"] = "off" /\ ~closed
        /\ announcer["rescan"] \in {"off", "alive"}
    BY <2>1 DEF Lifecycle, AnnouncersSound
  <2>3. /\ announcer'["ticker"] = IF ssdp' THEN "wait" ELSE "off"
        /\ announcer'["burst"] = IF ssdp' THEN "alive" ELSE "off"
        /\ announcer'["rescan"] = announcer["rescan"]
    BY <2>1, <2>2 DEF TypeOK, Announcers
  <2>4. announcer' \in [Announcers -> {"off", "wait", "alive", "pause", "exit"}]
    BY <2>1 DEF TypeOK
  <2>5. TypeOK'
    BY <2>1, <2>4 DEF TypeOK
  <2>6. SearchTyped' /\ WgCounts'
    BY <2>1, <2>2, <2>3 DEF SearchTyped, WgCounts, Counted
  <2>7. Lifecycle'
    BY <2>1, <2>2 DEF Lifecycle
  <2>8. AnnouncersSound'
    BY <2>1, <2>2, <2>3 DEF AnnouncersSound
  <2> QED
    BY <2>5, <2>6, <2>7, <2>8
<1>3. CASE Interrupted \/ CloseSockets \/ WaitForLoops \/ ShutDown
  <2>1. /\ UNCHANGED <<errCh, ssdp, wg, reader, announcer, next, left, search, wire>>
        /\ \/ /\ main = "select" /\ main' = (IF ssdp THEN "byebye" ELSE "shutdown")
              /\ closed' = ssdp /\ UNCHANGED <<http, recv, send>>
           \/ /\ main = "close" /\ main' = "wait" /\ recv' = FALSE /\ send' = FALSE
              /\ UNCHANGED <<http, closed>>
           \/ /\ main = "wait" /\ wg = 0 /\ main' = "shutdown"
              /\ UNCHANGED <<http, closed, recv, send>>
           \/ /\ main = "shutdown" /\ main' = "exit" /\ http' \in {http, "closed"}
              /\ UNCHANGED <<closed, recv, send>>
    BY <1>3 DEF Interrupted, CloseSockets, WaitForLoops, ShutDown
  <2>2. TypeOK' /\ SearchTyped' /\ WgCounts'
    BY <2>1 DEF TypeOK, SearchTyped, WgCounts
  <2>3. Lifecycle'
    BY <2>1 DEF Lifecycle, TypeOK
  <2>4. AnnouncersSound'
    BY <2>1 DEF AnnouncersSound
  <2> QED
    BY <2>2, <2>3, <2>4
<1>4. CASE SayByebye
  <2>1. /\ main = "byebye" /\ SendNotify(next["stop"], "byebye")
        /\ next' = [next EXCEPT !["stop"] = next["stop"] + 1]
        /\ main' = IF next["stop"] = NumTargets THEN "close" ELSE "byebye"
        /\ UNCHANGED <<http, errCh, ssdp, closed, recv, send, wg, reader, announcer, left, search>>
    BY <1>4 DEF SayByebye
  <2>2. next["stop"] \in Targets
    BY <2>1 DEF AnnouncersSound
  <2>3. wire' \in [Targets -> {"none", "alive", "byebye"}]
    BY <2>1, <2>2, SendNotifyTyped
  <2>4. /\ next["stop"] + 1 \in 1 .. NumTargets + 1
        /\ next["stop"] # NumTargets => next["stop"] + 1 \in Targets
    BY <2>2, DiscoveryAssumption DEF Targets
  <2>5. TypeOK'
    BY <2>1, <2>3, <2>4 DEF TypeOK
  <2>6. SearchTyped' /\ WgCounts' /\ Lifecycle'
    BY <2>1 DEF SearchTyped, WgCounts, Lifecycle
  <2>7. AnnouncersSound'
    <3>1. next'["stop"] = next["stop"] + 1 /\ \A a \in Announcers : next'[a] = next[a]
      BY <2>1 DEF TypeOK, Announcers
    <3> QED
      BY <2>1, <2>4, <3>1 DEF AnnouncersSound
  <2> QED
    BY <2>5, <2>6, <2>7
<1>5. CASE Tick
  <2>1. /\ announcer["ticker"] = "wait" /\ left.ticker > 0
        /\ announcer' = [announcer EXCEPT !["ticker"] = "alive"]
        /\ left' = [left EXCEPT !.ticker = left.ticker - 1]
        /\ UNCHANGED <<server, sockets, reader, next, search, wire>>
    BY <1>5 DEF Tick
  <2>2. /\ announcer'["ticker"] = "alive" /\ announcer'["burst"] = announcer["burst"]
        /\ announcer'["rescan"] = announcer["rescan"] /\ left'.burst = left.burst
    BY <2>1 DEF TypeOK, Announcers
  <2>3. TypeOK'
    <3>1. left.ticker - 1 \in 0 .. MaxTicks
      BY <2>1, DiscoveryAssumption DEF TypeOK
    <3> QED
      BY <2>1, <3>1 DEF TypeOK
  <2>4. SearchTyped' /\ WgCounts'
    BY <2>1, <2>2 DEF SearchTyped, WgCounts, Counted
  <2>5. Lifecycle' /\ AnnouncersSound'
    BY <2>1, <2>2 DEF Lifecycle, AnnouncersSound
  <2> QED
    BY <2>3, <2>4, <2>5
<1>6. CASE Rescanned
  <2>1. /\ announcer["rescan"] = "off" /\ left.rescan > 0
        /\ announcer' = [announcer EXCEPT !["rescan"] = "alive"]
        /\ left' = [left EXCEPT !.rescan = left.rescan - 1]
        /\ UNCHANGED <<server, sockets, reader, next, search, wire>>
    BY <1>6 DEF Rescanned
  <2>2. /\ announcer'["rescan"] = "alive" /\ announcer'["burst"] = announcer["burst"]
        /\ announcer'["ticker"] = announcer["ticker"] /\ left'.burst = left.burst
    BY <2>1 DEF TypeOK, Announcers
  <2>3. TypeOK'
    <3>1. left.rescan - 1 \in 0 .. MaxRescans
      BY <2>1, DiscoveryAssumption DEF TypeOK
    <3> QED
      BY <2>1, <3>1 DEF TypeOK
  <2>4. SearchTyped' /\ WgCounts'
    BY <2>1, <2>2 DEF SearchTyped, WgCounts
  <2>5. Lifecycle' /\ AnnouncersSound'
    BY <2>1, <2>2 DEF Lifecycle, AnnouncersSound
  <2> QED
    BY <2>3, <2>4, <2>5
<1>7. ASSUME NEW a \in Announcers, AnnounceAlive(a)
      PROVE  IInv'
  <2>1. /\ announcer[a] = "alive" /\ SendNotify(next[a], "alive")
        /\ next[a] \in Targets
        /\ UNCHANGED <<server, sockets, reader, left, search>>
    BY <1>7 DEF AnnounceAlive, AnnouncersSound
  <2>2. wire' \in [Targets -> {"none", "alive", "byebye"}]
    BY <2>1, SendNotifyTyped
  <2>3. PICK n \in Targets : next' = [next EXCEPT ![a] = n]
    <3>1. 1 \in Targets /\ (next[a] < NumTargets => next[a] + 1 \in Targets)
      BY <2>1, DiscoveryAssumption DEF Targets
    <3> QED
      BY <1>7, <3>1 DEF AnnounceAlive
  <2>4. /\ \A b \in Announcers : next'[b] \in Targets
        /\ next'["stop"] = next["stop"]
    BY <2>3 DEF AnnouncersSound, TypeOK, Announcers
  <2>5. PICK to \in {"alive", "wait", "pause", "off"} :
          /\ announcer' = [announcer EXCEPT ![a] = to]
          /\ a = "ticker" => to \in {"alive", "wait"}
          /\ a = "burst" => to \in {"alive", "pause"}
          /\ a = "rescan" => to \in {"alive", "off"}
    <3>1. CASE announcer' = announcer
      BY <2>1, <3>1 DEF TypeOK
    <3>2. CASE announcer' # announcer
      <4>1. announcer' = [announcer EXCEPT ![a] =
               CASE a = "ticker" -> "wait" [] a = "burst" -> "pause" [] OTHER -> "off"]
        BY <1>7, <3>2 DEF AnnounceAlive
      <4> QED
        BY <4>1 DEF Announcers
    <3> QED
      BY <3>1, <3>2
  <2>6. announcer'[a] = to /\ \A b \in Announcers \ {a} : announcer'[b] = announcer[b]
    BY <2>5 DEF TypeOK
  <2>7. TypeOK'
    <3>1. next' \in [Announcers \cup {"stop"} -> 1 .. NumTargets + 1]
      BY <2>3, DiscoveryAssumption DEF TypeOK, Targets
    <3>2. announcer' \in [Announcers -> {"off", "wait", "alive", "pause", "exit"}]
      BY <2>5 DEF TypeOK
    <3> QED
      BY <2>1, <2>2, <3>1, <3>2 DEF TypeOK
  <2>8. SearchTyped' /\ WgCounts'
    BY <2>1, <2>5, <2>6 DEF SearchTyped, WgCounts, Counted, Announcers
  <2>9. Lifecycle'
    BY <2>1, <2>5, <2>6 DEF Lifecycle, Announcers
  <2>10. AnnouncersSound'
    BY <2>1, <2>4, <2>5, <2>6 DEF AnnouncersSound, Announcers
  <2> QED
    BY <2>7, <2>8, <2>9, <2>10
<1>8. CASE BurstGoesOn
  <2>1. /\ announcer["burst"] = "pause" /\ left' = [left EXCEPT !.burst = left.burst - 1]
        /\ announcer' = [announcer EXCEPT !["burst"] = IF left.burst > 1 THEN "alive" ELSE "exit"]
        /\ wg' = IF left.burst > 1 THEN wg ELSE wg - 1
        /\ UNCHANGED <<server, closed, recv, send, reader, next, search, wire>>
    BY <1>8 DEF BurstGoesOn
  <2>2. /\ announcer'["burst"] = (IF left.burst > 1 THEN "alive" ELSE "exit")
        /\ announcer'["ticker"] = announcer["ticker"] /\ announcer'["rescan"] = announcer["rescan"]
        /\ left'.burst = left.burst - 1
    BY <2>1 DEF TypeOK, Announcers
  <2>3. left.burst \in 1 .. Bursts
    BY <2>1, DiscoveryAssumption DEF AnnouncersSound, TypeOK
  <2>4. WgCounts' /\ wg' \in 0 .. 3
    <3>1. /\ Counted(announcer["burst"]) = 1
          /\ Counted(announcer'["burst"]) = IF left.burst > 1 THEN 1 ELSE 0
      BY <2>1, <2>2 DEF Counted
    <3>2. Counted(reader) \in {0, 1} /\ Counted(announcer["ticker"]) \in {0, 1}
      BY DEF Counted
    <3> QED
      BY <2>1, <2>2, <3>1, <3>2 DEF WgCounts
  <2>5. TypeOK' /\ SearchTyped'
    <3>1. left.burst - 1 \in 0 .. Bursts
      BY <2>3, DiscoveryAssumption
    <3> QED
      BY <2>1, <2>4, <3>1 DEF TypeOK, SearchTyped
  <2>6. Lifecycle'
    <3>1. wg # 0
      BY <2>1 DEF WgCounts, Counted
    <3> QED
      BY <2>1, <2>2, <3>1 DEF Lifecycle
  <2>7. AnnouncersSound'
    BY <2>1, <2>2, <2>3 DEF AnnouncersSound
  <2> QED
    BY <2>4, <2>5, <2>6, <2>7
<1>9. ASSUME NEW a \in Announcers, SeesClosed(a)
      PROVE  IInv'
  <2>1. /\ closed /\ announcer[a] \in {"wait", "pause"}
        /\ announcer' = [announcer EXCEPT ![a] = "exit"] /\ wg' = wg - 1
        /\ UNCHANGED <<server, closed, recv, send, reader, next, left, search, wire>>
    BY <1>9 DEF SeesClosed
  <2>2. /\ a \in {"ticker", "burst"} /\ announcer'[a] = "exit"
        /\ \A b \in Announcers \ {a} : announcer'[b] = announcer[b]
    BY <2>1 DEF TypeOK, AnnouncersSound, Announcers
  <2>3. WgCounts' /\ wg' \in 0 .. 3 /\ wg # 0
    <3>1. Counted(announcer[a]) = 1 /\ Counted(announcer'[a]) = 0
      BY <2>1, <2>2 DEF Counted
    <3>2. /\ Counted(reader) \in {0, 1} /\ Counted(announcer["ticker"]) \in {0, 1}
          /\ Counted(announcer["burst"]) \in {0, 1}
      BY DEF Counted
    <3>3. \A b \in {"ticker", "burst"} \ {a} : announcer'[b] = announcer[b]
      BY <2>2 DEF Announcers
    <3> QED
      BY <2>1, <2>2, <3>1, <3>2, <3>3 DEF WgCounts
  <2>4. TypeOK' /\ SearchTyped'
    BY <2>1, <2>3 DEF TypeOK, SearchTyped
  <2>5. Lifecycle'
    BY <2>1, <2>2, <2>3 DEF Lifecycle
  <2>6. AnnouncersSound'
    BY <2>1, <2>2 DEF AnnouncersSound, Announcers
  <2> QED
    BY <2>3, <2>4, <2>5, <2>6
<1>10. CASE ReadFails
  <2>1. /\ reader = "read"
        /\ recv => left.error > 0
        /\ left' = (IF recv THEN [left EXCEPT !.error = left.error - 1] ELSE left)
        /\ reader' = (IF closed THEN "exit" ELSE "backoff")
        /\ wg' = (IF closed THEN wg - 1 ELSE wg)
        /\ UNCHANGED <<server, closed, recv, send, announcer, next, search, wire>>
    BY <1>10 DEF ReadFails
  <2>2. WgCounts' /\ wg' \in 0 .. 3 /\ wg # 0
    <3>1. Counted(reader) = 1 /\ Counted(reader') = IF closed THEN 0 ELSE 1
      BY <2>1 DEF Counted
    <3>2. Counted(announcer["burst"]) \in {0, 1} /\ Counted(announcer["ticker"]) \in {0, 1}
      BY DEF Counted
    <3> QED
      BY <2>1, <3>1, <3>2 DEF WgCounts
  <2>3. left' \in [burst : 0 .. Bursts, ticker : 0 .. MaxTicks, rescan : 0 .. MaxRescans,
                   error : 0 .. MaxErrors]
        /\ left'.burst = left.burst
    <3>1. recv => left.error - 1 \in 0 .. MaxErrors
      BY <2>1, DiscoveryAssumption DEF TypeOK
    <3> QED
      BY <2>1, <3>1 DEF TypeOK
  <2>4. TypeOK' /\ SearchTyped'
    BY <2>1, <2>2, <2>3 DEF TypeOK, SearchTyped
  <2>5. Lifecycle'
    BY <2>1, <2>2 DEF Lifecycle
  <2>6. AnnouncersSound'
    BY <2>1, <2>3 DEF AnnouncersSound
  <2> QED
    BY <2>2, <2>4, <2>5, <2>6
<1>11. CASE ReadAgain
  <2>1. /\ reader = "backoff" /\ reader' = "read"
        /\ UNCHANGED <<server, sockets, announcer, next, left, search, wire>>
    BY <1>11 DEF ReadAgain
  <2> QED
    BY <2>1 DEF TypeOK, SearchTyped, WgCounts, Counted, Lifecycle, AnnouncersSound
<1>12. CASE ReadSearch \/ SearchStep
  <2>1. UNCHANGED <<server, sockets, reader, announcer, next, left, wire>>
    BY <1>12 DEF ReadSearch, SearchStep, HandleSearch, AnswerSearch
  <2>2. SearchTyped'
    <3>1. CASE ReadSearch
      BY <3>1 DEF ReadSearch, SearchTyped
    <3>2. CASE HandleSearch
      BY <3>2 DEF HandleSearch, SearchTyped, Over
    <3>3. CASE AnswerSearch
      BY <3>3 DEF AnswerSearch, SearchTyped, Over
    <3> QED
      BY <1>12, <3>1, <3>2, <3>3 DEF SearchStep
  <2>3. TypeOK'
    <3>1. search'.pc \in {"idle", "handle", "delay", "answered", "ignored"}
      BY <2>2 DEF SearchTyped
    <3> QED
      BY <2>1, <3>1 DEF TypeOK
  <2> QED
    BY <2>1, <2>2, <2>3 DEF WgCounts, Lifecycle, AnnouncersSound
<1>13. CASE UNCHANGED vars
  BY <1>13 DEF vars, TypeOK, SearchTyped, WgCounts, Lifecycle, AnnouncersSound
<1> QED
  BY <1>1, <1>2, <1>3, <1>4, <1>5, <1>6, <1>7, <1>8, <1>9, <1>10, <1>11, <1>12, <1>13
     DEF Next, MainStep, AnnouncerStep

(***************************************************************************)
(* The invariant holds in every state of Discovery.                        *)
(***************************************************************************)
THEOREM InvariantHolds == Spec => []IInv
  BY InitIInv, NextIInv, PTL DEF Spec

(***************************************************************************)
(* Every variable keeps its type; above all, the WaitGroup's counter never *)
(* goes below zero, which would end the program.                           *)
(***************************************************************************)
THEOREM TypeCorrect == Spec => []TypeOK
<1>1. IInv => TypeOK
  BY DEF IInv
<1> QED
  BY <1>1, InvariantHolds, PTL

(***************************************************************************)
(* When stop has returned none of the loops runs any more, and no read     *)
(* error ends the reader before.                                           *)
(***************************************************************************)
THEOREM StopEndsTheLoops == Spec => []LoopsEndByStop
<1>1. IInv => LoopsEndByStop
  <2> SUFFICES ASSUME IInv, ssdp, main = "shutdown"
               PROVE  Members = {}
    BY DEF LoopsEndByStop, IInv, Lifecycle
  <2>1. Counted(reader) + Counted(announcer["ticker"]) + Counted(announcer["burst"]) = 0
    BY DEF IInv, Lifecycle, WgCounts
  <2>2. Counted(reader) = 0 /\ Counted(announcer["ticker"]) = 0 /\ Counted(announcer["burst"]) = 0
    BY <2>1 DEF Counted
  <2> QED
    BY <2>2 DEF Members, Counted
<1> QED
  BY <1>1, InvariantHolds, PTL

(***************************************************************************)
(* Nothing is announced once stop has returned, whatever handler still     *)
(* runs.                                                                   *)
(***************************************************************************)
THEOREM NothingAnnouncedAfterStop == Spec => SilentAfterStop
<1>1. IInv /\ [Next]_vars => [main = "shutdown" => wire' = wire]_vars
  <2> SUFFICES ASSUME IInv, Next, main = "shutdown"
               PROVE  wire' = wire
    OBVIOUS
  <2>1. ~send
    BY DEF IInv, Lifecycle
  <2> QED
    BY <2>1 DEF Next, MainStep, ListenFails, Start, BannerPrinted, ErrorReceived, SayByebye,
                CloseSockets, WaitForLoops, ShutDown, Interrupted, ServeFails, Tick, Rescanned,
                BurstGoesOn, AnnouncerStep, AnnounceAlive, SeesClosed, SendNotify, ReadFails,
                ReadAgain, ReadSearch, SearchStep, HandleSearch, AnswerSearch
<1> QED
  BY <1>1, InvariantHolds, PTL DEF Spec, SilentAfterStop
-----------------------------------------------------------------------------
(* What liveness rests on. *)

\* A loop of the service waits for nothing but what stop has done already.
GoesOn(g) ==
  IF g = "reader" THEN reader = "backoff" \/ ~recv
  ELSE announcer[g] = "alive" \/ closed

(***************************************************************************)
(* stop: while it waits for the loops there is one that has not called     *)
(* Done, and each of those can go on: the reader's socket is closed, and   *)
(* so is the channel the others look at.                                   *)
(***************************************************************************)
THEOREM StopIsNotHeldUp ==
  Spec => [](main = "wait" => (wg # 0 => Members # {}) /\ \A g \in Members : GoesOn(g))
<1> DEFINE Deaf == main = "wait" => ~recv
           Free == main = "wait" => (wg # 0 => Members # {}) /\ \A g \in Members : GoesOn(g)
<1>1. Init => Deaf
  BY DEF Init
<1>2. IInv /\ Deaf /\ [Next]_vars => Deaf'
  <2> SUFFICES ASSUME IInv, Deaf, [Next]_vars
               PROVE  Deaf'
    OBVIOUS
  <2> USE DEF server, sockets
  <2>1. CASE ListenFails \/ Start \/ BannerPrinted \/ ErrorReceived \/ SayByebye \/ Interrupted
    BY <2>1 DEF ListenFails, Start, BannerPrinted, ErrorReceived, SayByebye, Interrupted
  <2>2. CASE CloseSockets \/ WaitForLoops \/ ShutDown
    BY <2>2 DEF CloseSockets, WaitForLoops, ShutDown
  <2>3. CASE \/ ServeFails \/ Tick \/ Rescanned \/ BurstGoesOn
             \/ \E a \in Announcers : AnnouncerStep(a)
             \/ ReadFails \/ ReadAgain \/ ReadSearch \/ SearchStep \/ UNCHANGED vars
    BY <2>3 DEF ServeFails, Tick, Rescanned, BurstGoesOn, AnnouncerStep, AnnounceAlive, SeesClosed,
                ReadFails, ReadAgain, ReadSearch, SearchStep, HandleSearch, AnswerSearch, vars
  <2> QED
    BY <2>1, <2>2, <2>3 DEF Next, MainStep
<1>3. IInv /\ Deaf => Free
  <2> SUFFICES ASSUME IInv, Deaf, main = "wait"
               PROVE  (wg # 0 => Members # {}) /\ \A g \in Members : GoesOn(g)
    OBVIOUS
  <2>1. closed /\ ~recv
    BY DEF IInv, Lifecycle
  <2>2. ASSUME Members = {}
        PROVE  wg = 0
    <3>1. reader \in {"off", "exit"}
      BY <2>2 DEF Members
    <3>2. announcer["ticker"] \in {"off", "exit"} /\ announcer["burst"] \in {"off", "exit"}
      BY <2>2 DEF Members
    <3> QED
      BY <3>1, <3>2 DEF IInv, WgCounts, Counted
  <2> QED
    BY <2>1, <2>2 DEF GoesOn
<1> HIDE DEF Deaf, Free
<1>4. Spec => []Free
  BY <1>1, <1>2, <1>3, InvariantHolds, PTL DEF Spec
<1> QED
  BY <1>4 DEF Free

(***************************************************************************)
(* errCh: the error of a server that has failed stays where main looks for *)
(* it until the program ends, whenever the failure came.                   *)
(***************************************************************************)
THEOREM ErrorsAreKept == Spec => [](http = "failed" => errCh = "error" \/ main = "exit")
<1> DEFINE Kept == http = "failed" => errCh = "error" \/ main = "exit"
<1>1. Init => Kept
  BY DEF Init
<1>2. Kept /\ [Next]_vars => Kept'
  <2> SUFFICES ASSUME Kept, [Next]_vars
               PROVE  Kept'
    OBVIOUS
  <2> USE DEF server, sockets
  <2>1. CASE ListenFails \/ Start \/ BannerPrinted \/ ErrorReceived \/ ServeFails \/ Interrupted
    BY <2>1 DEF ListenFails, Start, BannerPrinted, ErrorReceived, ServeFails, Interrupted
  <2>2. CASE SayByebye \/ CloseSockets \/ WaitForLoops \/ ShutDown
    BY <2>2 DEF SayByebye, CloseSockets, WaitForLoops, ShutDown
  <2>3. CASE \/ Tick \/ Rescanned \/ BurstGoesOn
             \/ \E a \in Announcers : AnnouncerStep(a)
             \/ ReadFails \/ ReadAgain \/ ReadSearch \/ SearchStep \/ UNCHANGED vars
    BY <2>3 DEF Tick, Rescanned, BurstGoesOn, AnnouncerStep, AnnounceAlive, SeesClosed,
                ReadFails, ReadAgain, ReadSearch, SearchStep, HandleSearch, AnswerSearch, vars
  <2> QED
    BY <2>1, <2>2, <2>3 DEF Next, MainStep
<1> HIDE DEF Kept
<1>3. Spec => []Kept
  BY <1>1, <1>2, PTL DEF Spec
<1> QED
  BY <1>3 DEF Kept

(***************************************************************************)
(* handleSearch and matchTargets: each step of a search for something this *)
(* server is brings it to its answer, and nothing drops it but stop.       *)
(***************************************************************************)
THEOREM SearchesAreNotDropped ==
  Spec => [][search.pc \in {"handle", "delay"} /\ search.st # "foreign" /\ search' # search =>
               \/ search.pc = "handle" /\ search'.pc = "delay"
               \/ search.pc = "delay" /\ search'.pc = "answered"
               \/ closed]_vars
<1> DEFINE Heard == search.pc \in {"handle", "delay"} => recv \/ closed
           Dealt == search.pc \in {"handle", "delay"} => search.st # "none"
<1>1. Init => Heard /\ Dealt
  BY DEF Init
<1>2. IInv /\ Heard /\ Dealt /\ [Next]_vars => Heard' /\ Dealt'
  <2> SUFFICES ASSUME IInv, Heard, Dealt, [Next]_vars
               PROVE  Heard' /\ Dealt'
    OBVIOUS
  <2> USE DEF server, sockets
  <2>1. CASE ListenFails \/ BannerPrinted \/ ErrorReceived \/ SayByebye
    BY <2>1 DEF ListenFails, BannerPrinted, ErrorReceived, SayByebye
  <2>2. CASE Start
    BY <2>2 DEF Start, IInv, Lifecycle
  <2>3. CASE Interrupted
    BY <2>3 DEF Interrupted, IInv, Lifecycle
  <2>4. CASE CloseSockets
    BY <2>4 DEF CloseSockets, IInv, Lifecycle
  <2>5. CASE \/ WaitForLoops \/ ShutDown \/ ServeFails \/ Tick \/ Rescanned \/ BurstGoesOn
             \/ \E a \in Announcers : AnnouncerStep(a)
             \/ ReadFails \/ ReadAgain \/ UNCHANGED vars
    BY <2>5 DEF WaitForLoops, ShutDown, ServeFails, Tick, Rescanned, BurstGoesOn, AnnouncerStep,
                AnnounceAlive, SeesClosed, ReadFails, ReadAgain, vars
  <2>6. CASE ReadSearch
    BY <2>6 DEF ReadSearch, Sought
  <2>7. CASE SearchStep
    BY <2>7 DEF SearchStep, HandleSearch, AnswerSearch, Over, IInv, SearchTyped
  <2> QED
    BY <2>1, <2>2, <2>3, <2>4, <2>5, <2>6, <2>7 DEF Next, MainStep
<1>3. IInv /\ Heard /\ Dealt /\ [Next]_vars =>
        [search.pc \in {"handle", "delay"} /\ search.st # "foreign" /\ search' # search =>
           \/ search.pc = "handle" /\ search'.pc = "delay"
           \/ search.pc = "delay" /\ search'.pc = "answered"
           \/ closed]_vars
  <2> SUFFICES ASSUME IInv, Heard, Dealt, Next,
                      search.pc \in {"handle", "delay"}, search.st # "foreign", search' # search
               PROVE  \/ search.pc = "handle" /\ search'.pc = "delay"
                      \/ search.pc = "delay" /\ search'.pc = "answered"
                      \/ closed
    OBVIOUS
  <2>1. SearchStep
    BY DEF Next, MainStep, ListenFails, Start, BannerPrinted, ErrorReceived, SayByebye,
           CloseSockets, WaitForLoops, ShutDown, Interrupted, ServeFails, Tick, Rescanned,
           BurstGoesOn, AnnouncerStep, AnnounceAlive, SeesClosed, ReadFails, ReadAgain, ReadSearch
  <2>2. search.st \in {"all", "target", "newer"}
    BY DEF IInv, SearchTyped, Sought
  <2>3. matchTargets(search.st) # {}
    BY <2>2, DiscoveryAssumption DEF matchTargets, Targets
  <2>4. CASE HandleSearch
    BY <2>3, <2>4 DEF HandleSearch, IInv, SearchTyped
  <2>5. CASE AnswerSearch
    BY <2>5 DEF AnswerSearch, Over
  <2> QED
    BY <2>1, <2>4, <2>5 DEF SearchStep
<1> HIDE DEF Heard, Dealt
<1> QED
  BY <1>1, <1>2, <1>3, InvariantHolds, PTL DEF Spec
=============================================================================
