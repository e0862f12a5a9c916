----------------------------- MODULE Discovery -----------------------------
(***************************************************************************)
(* internal/upnp, ssdp.go and Server.Start/Close, and the end of main.run: *)
(* how the server comes up, announces itself, answers searches, and goes   *)
(* down, while its goroutines run.                                         *)
(*                                                                         *)
(* The goroutines share the channel "closed", the two sockets, and a       *)
(* WaitGroup that stop waits for; the handlers of searches and of rescan   *)
(* requests are not in that group.  An announcement is written for one     *)
(* target after the other, so announcements of several goroutines mix.     *)
(* Nothing runs any more once main has returned.                           *)
(***************************************************************************)
EXTENDS Naturals

CONSTANTS
  NumTargets,  \* targets(): what is announced, one packet each
  Bursts,      \* the number of announcements at start-up
  MaxTicks,    \* bound on the periodic announcements
  MaxRescans,  \* bound on the rescan requests
  MaxErrors    \* bound on the transient errors of the receiving socket

ASSUME DiscoveryAssumption ==
  /\ NumTargets \in Nat \ {0} /\ Bursts \in Nat \ {0}
  /\ MaxTicks \in Nat /\ MaxRescans \in Nat /\ MaxErrors \in Nat

Targets == 1 .. NumTargets
Announcers == {"ticker", "burst", "rescan"}

VARIABLES
  main,      \* where main.run, Start and Close are
  http,      \* the goroutine in http.Server.Serve
  errCh,     \* Server.errCh, a channel with room for one error
  ssdp,      \* Server.ssdp is not nil
  closed,    \* ssdpService.closed is closed
  recv, send,  \* the two sockets are open
  wg,        \* ssdpService.wg
  reader,    \* readLoop
  announcer, \* the goroutines that announce ssdp:alive
  next,      \* the target each announcer, and stop, writes next
  left,      \* announcements left in the burst, ticks and rescans left
  search,    \* the handler of one search, and what is searched for
  wire       \* the last announcement written for each target

server == <<main, http, errCh, ssdp>>
sockets == <<closed, recv, send, wg>>
vars == <<server, sockets, reader, announcer, next, left, search, wire>>

Running == main # "exit"

Init ==
  /\ main = "start" /\ http = "off" /\ errCh = "empty" /\ ssdp = FALSE
  /\ closed = FALSE /\ recv = FALSE /\ send = FALSE /\ wg = 0
  /\ reader = "off"
  /\ announcer = [a \in Announcers |-> "off"]
  /\ next = [a \in Announcers \cup {"stop"} |-> 1]
  /\ left = [burst |-> Bursts, ticker |-> MaxTicks, rescan |-> MaxRescans, error |-> MaxErrors]
  /\ search = [pc |-> "idle", st |-> "none"]
  /\ wire = [t \in Targets |-> "none"]

-----------------------------------------------------------------------------
(* main.run and Server.Start *)

\* The port is busy: the default one is exchanged for another, once.
ListenFails ==
  /\ main \in {"start", "fallback"}
  /\ \/ main = "start" /\ main' = "fallback"
     \/ main' = "exit"
  /\ UNCHANGED <<http, errCh, ssdp, sockets, reader, announcer, next, left, search, wire>>

\* Fault: the goroutine of the burst is not counted.
Start_BurstNotCounted ==
  /\ main \in {"start", "fallback"}
  /\ main' = "banner" /\ http' = "serving"
  /\ ssdp' \in BOOLEAN
  /\ recv' = ssdp' /\ send' = ssdp'
  /\ wg' = IF ssdp' THEN 2 ELSE 0
  /\ reader' = IF ssdp' THEN "read" ELSE "off"
  /\ announcer' = IF ssdp' THEN [announcer EXCEPT !["ticker"] = "wait", !["burst"] = "alive"]
                  ELSE announcer
  /\ UNCHANGED <<errCh, closed, next, left, search, wire>>

\* Serving starts; SSDP may be switched off or fail to open its sockets, and
\* the server goes on without it.
Start ==
  /\ main \in {"start", "fallback"}
  /\ main' = "banner" /\ http' = "serving"
  /\ ssdp' \in BOOLEAN
  /\ recv' = ssdp' /\ send' = ssdp'
  /\ wg' = IF ssdp' THEN 3 ELSE 0
  /\ reader' = IF ssdp' THEN "read" ELSE "off"
  /\ announcer' = IF ssdp' THEN [announcer EXCEPT !["ticker"] = "wait", !["burst"] = "alive"]
                  ELSE announcer
  /\ UNCHANGED <<errCh, closed, next, left, search, wire>>

BannerPrinted ==
  /\ main = "banner"
  /\ main' = "select"
  /\ UNCHANGED <<http, errCh, ssdp, sockets, reader, announcer, next, left, search, wire>>

\* Fault: the channel has no room, and nobody may be receiving yet.
ServeFails_Unbuffered ==
  /\ Running /\ http = "serving"
  /\ http' = "failed"
  /\ errCh' = IF main = "select" THEN "error" ELSE errCh
  /\ UNCHANGED <<main, ssdp, sockets, reader, announcer, next, left, search, wire>>

ServeFails ==
  /\ Running /\ http = "serving"
  /\ http' = "failed"
  /\ errCh' = "error"
  /\ UNCHANGED <<main, ssdp, sockets, reader, announcer, next, left, search, wire>>

\* main returns the server's error, and does not call Close.
ErrorReceived ==
  /\ main = "select" /\ errCh = "error"
  /\ main' = "exit" /\ errCh' = "empty"
  /\ UNCHANGED <<http, ssdp, sockets, reader, announcer, next, left, search, wire>>

\* Ctrl+C; Close calls stop, which closes the channel first.
Interrupted ==
  /\ main = "select"
  /\ main' = IF ssdp THEN "byebye" ELSE "shutdown"
  /\ closed' = ssdp
  /\ UNCHANGED <<http, errCh, ssdp, recv, send, wg, reader, announcer, next, left, search, wire>>

-----------------------------------------------------------------------------
(* ssdpService.stop *)

\* sendNotify: written while the socket is open, unless the write fails.
SendNotify(t, nts) ==
  \/ send /\ wire' = [wire EXCEPT ![t] = nts]
  \/ UNCHANGED wire

SayByebye ==
  /\ main = "byebye"
  /\ SendNotify(next["stop"], "byebye")
  /\ next' = [next EXCEPT !["stop"] = @ + 1]
  /\ main' = IF next["stop"] = NumTargets THEN "close" ELSE "byebye"
  /\ UNCHANGED <<http, errCh, ssdp, sockets, reader, announcer, left, search>>

\* Fault: only the receiving socket is closed.
CloseSockets_KeepsSending ==
  /\ main = "close"
  /\ recv' = FALSE
  /\ main' = "wait"
  /\ UNCHANGED <<http, errCh, ssdp, closed, send, wg, reader, announcer, next, left, search, wire>>

\* Fault: the sockets are to be closed after the wait for the goroutines.
CloseSockets_AfterWait ==
  /\ main = "close"
  /\ wg = 0
  /\ recv' = FALSE /\ send' = FALSE
  /\ main' = "wait"
  /\ UNCHANGED <<http, errCh, ssdp, closed, wg, reader, announcer, next, left, search, wire>>

\* After a pause of 30 ms.
CloseSockets ==
  /\ main = "close"
  /\ recv' = FALSE /\ send' = FALSE
  /\ main' = "wait"
  /\ UNCHANGED <<http, errCh, ssdp, closed, wg, reader, announcer, next, left, search, wire>>

WaitForLoops ==
  /\ main = "wait"
  /\ wg = 0
  /\ main' = "shutdown"
  /\ UNCHANGED <<http, errCh, ssdp, sockets, reader, announcer, next, left, search, wire>>

\* http.Server.Shutdown, given three seconds; whatever still runs dies with
\* the program.
ShutDown ==
  /\ main = "shutdown"
  /\ main' = "exit"
  /\ http' = IF http = "serving" THEN "closed" ELSE http
  /\ UNCHANGED <<errCh, ssdp, sockets, reader, announcer, next, left, search, wire>>

-----------------------------------------------------------------------------
(* The announcing goroutines: announceLoop, announceAliveBurst, Rescan. *)

Tick ==
  /\ Running /\ announcer["ticker"] = "wait" /\ left.ticker > 0
  /\ announcer' = [announcer EXCEPT !["ticker"] = "alive"]
  /\ left' = [left EXCEPT !.ticker = @ - 1]
  /\ UNCHANGED <<server, sockets, reader, next, search, wire>>

\* Rescan's scan is done: it announces too.  rescanMu admits one at a time.
Rescanned ==
  /\ Running /\ ssdp /\ announcer["rescan"] = "off" /\ left.rescan > 0
  /\ announcer' = [announcer EXCEPT !["rescan"] = "alive"]
  /\ left' = [left EXCEPT !.rescan = @ - 1]
  /\ UNCHANGED <<server, sockets, reader, next, search, wire>>

\* announceAlive: one packet after the other.
AnnounceAlive(a) ==
  /\ Running /\ announcer[a] = "alive"
  /\ SendNotify(next[a], "alive")
  /\ IF next[a] < NumTargets
     THEN next' = [next EXCEPT ![a] = @ + 1] /\ UNCHANGED announcer
     ELSE /\ next' = [next EXCEPT ![a] = 1]
          /\ announcer' = [announcer EXCEPT ![a] =
               CASE a = "ticker" -> "wait" [] a = "burst" -> "pause" [] OTHER -> "off"]
  /\ UNCHANGED <<server, sockets, reader, left, search>>

\* The burst pauses for 150 ms, three times, unless the service is stopped.
BurstGoesOn ==
  /\ Running /\ announcer["burst"] = "pause"
  /\ left' = [left EXCEPT !.burst = @ - 1]
  /\ announcer' = [announcer EXCEPT !["burst"] = IF left.burst > 1 THEN "alive" ELSE "exit"]
  /\ wg' = IF left.burst > 1 THEN wg ELSE wg - 1
  /\ UNCHANGED <<server, closed, recv, send, reader, next, search, wire>>

SeesClosed(a) ==
  /\ Running /\ closed
  /\ announcer[a] \in {"wait", "pause"}
  /\ announcer' = [announcer EXCEPT ![a] = "exit"]
  /\ wg' = wg - 1
  /\ UNCHANGED <<server, closed, recv, send, reader, next, left, search, wire>>

-----------------------------------------------------------------------------
(* readLoop and handleSearch *)

\* Fault: any error ends the loop.
ReadFails_GivesUp ==
  /\ Running /\ reader = "read"
  /\ ~recv \/ left.error > 0
  /\ left' = IF recv THEN [left EXCEPT !.error = @ - 1] ELSE left
  /\ reader' = "exit"
  /\ wg' = wg - 1
  /\ UNCHANGED <<server, closed, recv, send, announcer, next, search, wire>>

\* The socket is closed, or fails for the moment: the loop ends only when the
\* service has been stopped, and otherwise tries again after 100 ms.
ReadFails ==
  /\ Running /\ reader = "read"
  /\ ~recv \/ left.error > 0
  /\ left' = IF recv THEN [left EXCEPT !.error = @ - 1] ELSE left
  /\ reader' = IF closed THEN "exit" ELSE "backoff"
  /\ wg' = IF closed THEN wg - 1 ELSE wg
  /\ UNCHANGED <<server, closed, recv, send, announcer, next, search, wire>>

ReadAgain ==
  /\ Running /\ reader = "backoff"
  /\ reader' = "read"
  /\ UNCHANGED <<server, sockets, announcer, next, left, search, wire>>

\* A search is for everything, for one target, for another version of one, or
\* for something this server is not; other packets are passed over.
Sought == {"all", "target", "newer", "foreign"}

ReadSearch ==
  /\ Running /\ reader = "read" /\ recv
  /\ search.pc = "idle"
  /\ \E st \in Sought : search' = [pc |-> "handle", st |-> st]
  /\ UNCHANGED <<server, sockets, reader, announcer, next, left, wire>>

\* Fault: a search for a newer version finds nothing.
matchTargets_ExactVersion(st) ==
  CASE st = "all" -> Targets [] st = "target" -> {1} [] OTHER -> {}

\* The versions of a type share a number: the answer names the one sought.
matchTargets(st) ==
  CASE st = "all" -> Targets [] st \in {"target", "newer"} -> {1} [] OTHER -> {}

Over(how) == [pc |-> how, st |-> "none"]

HandleSearch ==
  /\ Running /\ search.pc = "handle"
  /\ search' = IF matchTargets(search.st) = {} THEN Over("ignored") ELSE [search EXCEPT !.pc = "delay"]
  /\ UNCHANGED <<server, sockets, reader, announcer, next, left, wire>>

\* The delay within MX is over, or was none; the answers go out through the
\* receiving socket, if it is still open.  Or the delay is cut short by stop.
AnswerSearch ==
  /\ Running /\ search.pc = "delay"
  /\ \/ search' = Over(IF recv THEN "answered" ELSE "ignored")
     \/ closed /\ search' = Over("ignored")
  /\ UNCHANGED <<server, sockets, reader, announcer, next, left, wire>>

-----------------------------------------------------------------------------
MainStep ==
  \/ ListenFails \/ Start \/ BannerPrinted \/ ErrorReceived
  \/ SayByebye \/ CloseSockets \/ WaitForLoops \/ ShutDown

AnnouncerStep(a) == AnnounceAlive(a) \/ SeesClosed(a)
ReaderClosed == ~recv /\ ReadFails
SearchStep == HandleSearch \/ AnswerSearch

Next ==
  \/ MainStep \/ Interrupted \/ ServeFails
  \/ Tick \/ Rescanned \/ BurstGoesOn
  \/ \E a \in Announcers : AnnouncerStep(a)
  \/ ReadFails \/ ReadAgain \/ ReadSearch
  \/ SearchStep

(***************************************************************************)
(* Every goroutine that can run runs.  Signals, ticks, requests, packets   *)
(* and errors come from outside and need never come; a read returns once   *)
(* its socket is closed.                                                   *)
(***************************************************************************)
Fairness ==
  /\ WF_vars(MainStep)
  /\ \A a \in Announcers : WF_vars(AnnouncerStep(a))
  /\ WF_vars(BurstGoesOn)
  /\ WF_vars(ReaderClosed) /\ WF_vars(ReadAgain)
  /\ WF_vars(SearchStep)

Spec == Init /\ [][Next]_vars
FairSpec == Spec /\ Fairness

-----------------------------------------------------------------------------
\* The members of the WaitGroup that have not called Done.
Members ==
  {g \in {"reader", "ticker", "burst"} :
     IF g = "reader" THEN reader \notin {"off", "exit"} ELSE announcer[g] \notin {"off", "exit"}}

TypeOK ==
  /\ main \in {"start", "fallback", "banner", "select", "byebye", "close", "wait",
               "shutdown", "exit"}
  /\ http \in {"off", "serving", "failed", "closed"}
  /\ errCh \in {"empty", "error"}
  /\ {ssdp, closed, recv, send} \subseteq BOOLEAN
  /\ wg \in 0 .. 3
  /\ reader \in {"off", "read", "backoff", "exit"}
  /\ announcer \in [Announcers -> {"off", "wait", "alive", "pause", "exit"}]
  /\ next \in [Announcers \cup {"stop"} -> 1 .. NumTargets + 1]
  /\ left \in [burst : 0 .. Bursts, ticker : 0 .. MaxTicks, rescan : 0 .. MaxRescans,
               error : 0 .. MaxErrors]
  /\ search.pc \in {"idle", "handle", "delay", "answered", "ignored"}
  /\ wire \in [Targets -> {"none", "alive", "byebye"}]

(***************************************************************************)
(* stop, wg.Wait, readLoop: when stop has returned, none of the loops is   *)
(* still running on the sockets it has closed; and until stop is called a  *)
(* read error does not end the reader, so that the server is not deaf on   *)
(* the network while it still serves.                                      *)
(***************************************************************************)
LoopsEndByStop ==
  /\ ssdp /\ main = "shutdown" => Members = {}
  /\ reader = "exit" => closed

(***************************************************************************)
(* stop: once stop has returned nothing more is announced, although the    *)
(* handler of a rescan request may still be announcing.                    *)
(***************************************************************************)
SilentAfterStop == [][main = "shutdown" => wire' = wire]_vars

(***************************************************************************)
(* Close: Ctrl+C ends the program, wherever its goroutines are: the        *)
(* reader is woken by the closing of its socket, the others by "closed".   *)
(***************************************************************************)
InterruptEndsProgram == (main \in {"byebye", "shutdown"}) ~> (main = "exit")

(***************************************************************************)
(* errCh and the select of main.run: a server that fails ends the program, *)
(* also when it fails before main is listening for it.                     *)
(***************************************************************************)
FailureEndsProgram == (http = "failed") ~> (main = "exit")

(***************************************************************************)
(* handleSearch: a search for anything this server is, or for a newer      *)
(* version of it, is answered unless the server is going down.             *)
(***************************************************************************)
SearchesAreAnswered ==
  (search.pc = "handle" /\ search.st # "foreign") ~>
    (search.pc = "answered" \/ closed \/ ~Running)
=============================================================================
