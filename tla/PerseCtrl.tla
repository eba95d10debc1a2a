------------------------------- MODULE PerseCtrl -------------------------------
(***************************************************************************)
(* The robot controller (Screens/PerseCtrl): the screen in the LVGL        *)
(* thread, PairService and Comm in threads of their own, all three over    *)
(* one TCPClient that has no lock, and the station of WiFiSTA below.       *)
(* A statement of TCPClient that others can see is a step of its own.      *)
(***************************************************************************)
EXTENDS WiFiSTA

CONSTANTS
  EvtQueue,     \* the places of PerseCtrlScreen::evts
  Attempts,     \* PairService::ConnectionAttempts
  MaxPresses    \* bound of the model: presses of Select and Alt

ASSUME PerseCtrlAssumption ==
  EvtQueue \in Nat \ {0} /\ Attempts \in Nat \ {0} /\ MaxPresses \in Nat

VARIABLES
  sock, connected,       \* TCPClient's; sock: is it a descriptor
  fdOpen, peer,          \* external: that descriptor's socket, and its far end
  hangup,                \* by thread: its step inside TCPClient::disconnect
  upc, evts, paired, held, presses,   \* the LVGL thread; evts: news of lost connections
  ppc, pstate, stopping, attempts,   \* PairService's thread and object
  cpc,                   \* the Comm thread
  unheard,               \* history: evts was full for the news of a lost connection
  stale,                 \* history: by thread: a socket was made since its test
  foreign                \* history: a disconnect met a socket made since its test

tcpVars  == <<sock, connected, fdOpen, peer, hangup, stale, foreign>>
pairVars == <<ppc, pstate, stopping, attempts>>
uiVars   == <<upc, paired, held, presses>>
evtVars  == <<evts, unheard>>
perseVars == <<staVars, tcpVars, pairVars, uiVars, evtVars, cpc>>

Thread == {"ui", "pair", "comm"}

PerseTypeOK ==
  /\ StaTypeOK
  /\ sock \in BOOLEAN /\ connected \in BOOLEAN /\ fdOpen \in BOOLEAN
  /\ peer \in {"none", "up", "lost", "closed"}
  /\ hangup \in [Thread -> {"no", "test", "close", "clear"}]
  /\ upc \in {"drain", "check", "act", "waitDrain", "waitAct",
              "waitLeave", "leaveTcp", "leaveComm", "closed"}
  /\ evts \in 0..EvtQueue /\ unheard \in BOOLEAN
  /\ paired \in BOOLEAN /\ held \in BOOLEAN /\ presses \in 0..MaxPresses
  /\ ppc \in {"gone", "drain", "socket", "open", "done", "abort", "again"}
  /\ pstate \in {"none", "Pairing", "Fail", "Success"}
  /\ stopping \in BOOLEAN /\ attempts \in 1..Attempts
  /\ cpc \in {"test", "read"}
  /\ stale \in [Thread -> BOOLEAN] /\ foreign \in BOOLEAN

PerseInit ==
  /\ Idle /\ drops = 0 /\ upc = "closed" /\ held = FALSE /\ presses = 0
  /\ sock = FALSE /\ connected = FALSE /\ fdOpen = FALSE /\ peer = "none"
  /\ hangup = [t \in Thread |-> "no"] /\ stale = [t \in Thread |-> FALSE]
  /\ evts = 0 /\ unheard = FALSE /\ paired = FALSE
  /\ ppc = "gone" /\ pstate = "none" /\ stopping = FALSE /\ attempts = 1
  /\ cpc = "test" /\ foreign = FALSE

-----------------------------------------------------------------------------
(* TCPClient.                                                              *)

Runs(t) == hangup[t] = "no"

(* Events::post to the screen, whose other events (the buttons', Comm's)    *)
(* may have taken the places.                                              *)
PostOff ==
  \/ evts < EvtQueue /\ evts' = evts + 1 /\ UNCHANGED unheard
  \/ unheard' = TRUE /\ UNCHANGED evts

HangUp(t) == hangup' = [hangup EXCEPT ![t] = "test"]

(* TCPClient::disconnect: the test and the event, the flag and close(), the *)
(* descriptor forgotten.                                                   *)
HangUpTest(t) ==
  /\ hangup[t] = "test"
  /\ hangup' = [hangup EXCEPT ![t] = IF sock THEN "close" ELSE "no"]
  /\ IF sock THEN PostOff ELSE UNCHANGED evtVars
  /\ UNCHANGED <<sock, connected, fdOpen, peer, stale, foreign>>

HangUpClose(t) ==
  /\ hangup[t] = "close"
  /\ hangup' = [hangup EXCEPT ![t] = "clear"]
  /\ connected' = FALSE
  /\ fdOpen' = (fdOpen /\ ~sock)
  /\ foreign' = (foreign \/ (stale[t] /\ sock))
  /\ UNCHANGED <<sock, peer, stale, evtVars>>

HangUpClear(t) ==
  /\ hangup[t] = "clear"
  /\ hangup' = [hangup EXCEPT ![t] = "no"]
  /\ sock' = FALSE
  /\ foreign' = (foreign \/ (stale[t] /\ sock))
  /\ stale' = [stale EXCEPT ![t] = FALSE]
  /\ peer' = IF connected THEN peer ELSE "none"
  /\ UNCHANGED <<connected, fdOpen, evtVars>>

HangingUp(t) ==
  /\ HangUpTest(t) \/ HangUpClose(t) \/ HangUpClear(t)
  /\ UNCHANGED <<staVars, pairVars, uiVars, cpc>>

Broken == ~fdOpen \/ peer \in {"none", "closed"}

(* Comm::sendPacket: what is written to a link that is down is never       *)
(* acknowledged.                                                           *)
SendPacket ==
  /\ IF connected /\ sock /\ Broken THEN HangUp("ui") ELSE UNCHANGED hangup
  /\ peer' = IF connected /\ sock /\ peer = "up" /\ link # "up" THEN "lost" ELSE peer
  /\ UNCHANGED <<sock, connected, fdOpen, stale, foreign>>

SendIf(c) == IF c THEN SendPacket ELSE UNCHANGED tcpVars

-----------------------------------------------------------------------------
(* Comm::loop.                                                             *)

CommTest ==
  /\ cpc = "test" /\ Runs("comm") /\ connected /\ upc # "leaveComm"
  /\ cpc' = "read"
  /\ UNCHANGED <<staVars, tcpVars, pairVars, uiVars, evtVars>>

CommRead ==
  /\ cpc = "read" /\ cpc' = "test"
  /\ \/ ~sock /\ UNCHANGED hangup
     \/ sock /\ Broken /\ HangUp("comm")
     \/ sock /\ ~Broken /\ peer = "up" /\ link = "up" /\ UNCHANGED hangup
  /\ UNCHANGED <<evtVars, staVars, sock, connected, fdOpen, peer, stale, foreign, pairVars, uiVars>>

-----------------------------------------------------------------------------
(* PairService's thread.                                                   *)

PairStep(from, to) == ppc = from /\ ppc' = to /\ Runs("pair") /\ UNCHANGED <<uiVars, cpc>>

Keep == UNCHANGED <<sock, connected, fdOpen, peer, stale, foreign>>

HangUpIf(c) == IF c THEN HangUp("pair") ELSE UNCHANGED hangup

EndPairing(s) == pstate' = s /\ stopping' = TRUE

Retry ==
  IF attempts < Attempts THEN attempts' = attempts + 1 /\ StaConnect /\ UNCHANGED <<pstate, stopping>>
  ELSE EndPairing("Fail") /\ UNCHANGED <<attempts, wifi, scan, crossed>>

PairGet ==
  /\ ppc = "drain" /\ Runs("pair") /\ pairq # <<>>
  /\ pairq' = Tail(pairq)
  /\ ppc' = IF Head(pairq) = "connectOk" THEN "socket" ELSE "drain"
  /\ HangUpIf(Head(pairq) \in {"disconnect", "connectOk"} /\ connected)
  /\ IF Head(pairq) = "connectFail" THEN Retry ELSE UNCHANGED <<attempts, wifi, scan, crossed, pstate, stopping>>
  /\ Keep
  /\ UNCHANGED <<cached, attempted, connectTries, link, drv, drops, listening, evtVars, uiVars, cpc>>

(* TCPClient::connect: a socket, then the connection, its event and flag. *)
PairSocket ==
  /\ ~sock /\ PairStep("socket", "open")
  /\ sock' = TRUE /\ fdOpen' = TRUE /\ peer' = "none"
  /\ stale' = [t \in Thread |-> hangup[t] \in {"close", "clear"}]
  /\ UNCHANGED <<staVars, connected, hangup, foreign, pstate, stopping, attempts, evtVars>>

PairConnects ==
  /\ PairStep("open", "done") /\ link = "up" /\ fdOpen
  /\ peer' = "up" /\ connected' = TRUE 
  /\ UNCHANGED <<evtVars, staVars, sock, fdOpen, hangup, stale, foreign, pstate, stopping, attempts>>

PairDone ==
  /\ PairStep("done", "drain") /\ EndPairing("Success")
  /\ UNCHANGED <<staVars, tcpVars, attempts, evtVars>>

(* There is a socket already, or the robot does not answer on the new one. *)
PairRefused ==
  /\ (sock /\ PairStep("socket", "drain")) \/ PairStep("open", "drain")
  /\ EndPairing("Fail") /\ Disconnect
  /\ UNCHANGED <<drops, listening, pairq, crossed, tcpVars, attempts, evtVars>>

LoopEnd == IF stopping THEN "gone" ELSE "drain"

(* The queue is empty. *)
PairWaits ==
  /\ pairq = <<>> /\ PairStep("drain", LoopEnd)
  /\ UNCHANGED <<staVars, tcpVars, pstate, stopping, attempts, evtVars>>

(* A join takes AbortTimeout: longer than the event loop needs. *)
PairTimeout ==
  /\ pairq = <<>> /\ drv = <<>> /\ wifi = "Connecting" /\ PairStep("drain", "abort")
  /\ UNCHANGED <<staVars, tcpVars, pstate, stopping, attempts, evtVars>>

PairAbort ==
  /\ PairStep("abort", "again") /\ Disconnect /\ HangUpIf(connected) /\ Keep
  /\ UNCHANGED <<drops, listening, pairq, crossed, pstate, stopping, attempts, evtVars>>

PairAgain ==
  /\ PairStep("again", LoopEnd) /\ StaConnect
  /\ UNCHANGED <<cached, attempted, connectTries, link, drv, drops, listening, pairq, tcpVars, pstate, stopping, attempts, evtVars>>

PairThread ==
  \/ PairGet \/ PairSocket \/ PairConnects \/ PairDone
  \/ PairRefused \/ PairWaits \/ PairTimeout \/ PairAbort \/ PairAgain

-----------------------------------------------------------------------------
(* The screen, in the LVGL thread.                                         *)

(* ~PairService, up to where it waits for its thread. *)
Reset(wait, next) ==
  IF pstate = "none" THEN upc' = next /\ UNCHANGED <<stopping, stationVars, driverVars>> ELSE
  /\ upc' = wait /\ stopping' = TRUE
  /\ IF pstate = "Pairing" THEN Disconnect ELSE UNCHANGED <<stationVars, driverVars>>

Waited(wait, next) ==
  /\ upc = wait /\ upc' = next /\ ppc = "gone" /\ Runs("ui")
  /\ pstate' = "none" /\ stopping' = FALSE /\ attempts' = 1 /\ listening' = FALSE /\ pairq' = <<>>
  /\ UNCHANGED <<stationVars, driverVars, drops, crossed, sock, connected, fdOpen, peer, hangup, stale, foreign,
                 ppc, paired, held, presses, evtVars, cpc>>

(* ~PairService has waited for the thread and leaves Events. *)
ResetWaits == Waited("waitDrain", "drain") \/ Waited("waitAct", "act") \/ Waited("waitLeave", "leaveTcp")

NewPairService ==
  /\ pstate' = "Pairing" /\ ppc' = "drain" /\ attempts' = 1
  /\ listening' = TRUE /\ StaConnect
  /\ unheard' = FALSE
  /\ UNCHANGED <<cached, attempted, connectTries, link, drv, stopping, hangup, peer>>

(* mutant: the loss is shown, the state kept *)
OnTcpOff_Keeps == Reset("waitDrain", "drain") /\ UNCHANGED paired

(* A Disconnected event. *)
OnTcpOff == paired' = FALSE /\ Reset("waitDrain", "drain")

Unpair == UNCHANGED <<crossed, listening, ppc, pstate, attempts, unheard>>

Ui(from) == upc = from /\ Runs("ui") /\ UNCHANGED <<drops, pairq, cpc>>

Press ==
  /\ ~held /\ presses < MaxPresses /\ held' = TRUE /\ presses' = presses + 1
  /\ IF paired THEN SendPacket /\ Unpair /\ UNCHANGED <<stopping, stationVars, driverVars>>
     ELSE NewPairService /\ UNCHANGED <<sock, connected, fdOpen, stale, foreign>>
  /\ UNCHANGED <<upc, paired>>

Release ==
  /\ held /\ held' = FALSE
  /\ IF paired THEN UNCHANGED <<upc, stopping, stationVars, driverVars>> ELSE Reset("waitDrain", "drain")
  /\ Unpair /\ UNCHANGED <<tcpVars, paired, presses>>

(* ~PerseCtrlScreen: the service, the connection, then Comm and the rest. *)
UiLeave == Reset("waitLeave", "leaveTcp")

Alt ==
  /\ presses < MaxPresses /\ presses' = presses + 1 /\ UiLeave
  /\ Unpair /\ UNCHANGED <<tcpVars, paired, held>>

(* A button, at any place among the other events. *)
UiButton == Ui("drain") /\ (Press \/ Release \/ Alt) /\ UNCHANGED evts

UiOff ==
  /\ Ui("drain") /\ evts > 0 /\ evts' = evts - 1 /\ OnTcpOff
  /\ Unpair /\ UNCHANGED <<tcpVars, held, presses>>

UiLoop(from) == Ui(from) /\ UNCHANGED <<crossed, listening, held, presses, evtVars>>

UiDrained ==
  /\ evts = 0 /\ UiLoop("drain") /\ upc' = "check"
  /\ UNCHANGED <<stationVars, driverVars, tcpVars, pairVars, paired>>

(* Without news of a pairing the robot is sent where to drive; after one   *)
(* it is told how good its pictures shall be, and the service is dropped.  *)
UiCheck ==
  /\ UiLoop("check") /\ UNCHANGED <<ppc, pstate, attempts>>
  /\ \/ pstate \in {"none", "Pairing"} /\ upc' = "drain" /\ SendIf(paired)
        /\ UNCHANGED <<paired, stopping, stationVars, driverVars>>
     \/ pstate \in {"Fail", "Success"} /\ Reset("waitAct", "act")
        /\ paired' = (pstate = "Success") /\ SendIf(pstate = "Success")

UiAct ==
  /\ UiLoop("act") /\ upc' = "drain" /\ SendIf(paired)
  /\ UNCHANGED <<stationVars, driverVars, pairVars, paired>>

UiLeaveTcp ==
  /\ UiLoop("leaveTcp") /\ HangUp("ui") /\ upc' = "leaveComm" /\ Keep
  /\ UNCHANGED <<stationVars, driverVars, pairVars, paired>>

UiClose ==
  /\ upc = "leaveComm" /\ Runs("ui") /\ Runs("comm") /\ cpc = "test"
  /\ upc' = "closed"
  /\ wifi' = "Disconnected" /\ cached' = FALSE /\ attempted' = FALSE /\ connectTries' = 0
  /\ link' = "off" /\ scan' = FALSE /\ drv' = <<>> /\ crossed' = FALSE
  /\ sock' = FALSE /\ connected' = FALSE /\ fdOpen' = FALSE /\ peer' = "none"
  /\ stale' = [t \in Thread |-> FALSE] /\ foreign' = FALSE
  /\ evts' = 0 /\ unheard' = FALSE /\ paired' = FALSE /\ attempts' = 1
  /\ UNCHANGED <<drops, listening, pairq, hangup, ppc, pstate, stopping, held, presses, cpc>>

UiOpen ==
  /\ upc = "closed" /\ presses < MaxPresses /\ upc' = "drain"
  /\ UNCHANGED <<staVars, tcpVars, pairVars, evtVars, cpc, paired, held, presses>>

UiThread ==
  \/ UiOff \/ UiDrained \/ UiCheck \/ UiAct \/ ResetWaits \/ UiLeaveTcp \/ UiClose

-----------------------------------------------------------------------------
(* The far end: the robot hangs up, or lwIP gives up on what is not        *)
(* acknowledged.                                                           *)
RobotLeaves ==
  /\ peer = "up" /\ link = "up" /\ drops < MaxDrops
  /\ drops' = drops + 1 /\ peer' = "closed"
  /\ UNCHANGED <<stationVars, driverVars, crossed, listening, pairq, sock, connected, fdOpen, hangup, stale,
                 foreign, pairVars, uiVars, evtVars, cpc>>

LwipGivesUp ==
  /\ peer = "lost" /\ peer' = "closed"
  /\ UNCHANGED <<staVars, sock, connected, fdOpen, hangup, stale, foreign,
                 pairVars, uiVars, evtVars, cpc>>

Station == (SysEvt \/ StaRadio) /\ UNCHANGED <<tcpVars, pairVars, uiVars, evtVars, cpc>>

PerseNext ==
  \/ Station \/ RobotLeaves \/ LwipGivesUp \/ UiButton \/ UiOpen
  \/ UiThread \/ PairThread \/ CommTest \/ CommRead
  \/ \E t \in Thread : HangingUp(t)

PerseSpec == PerseInit /\ [][PerseNext]_perseVars

(* Threads, the event loop and the driver run; nobody need press a button. *)
PerseLiveSpec ==
  /\ PerseSpec
  /\ WF_perseVars(UiThread \/ HangingUp("ui"))
  /\ WF_perseVars(PairThread \/ HangingUp("pair"))
  /\ WF_perseVars(CommTest \/ CommRead \/ HangingUp("comm"))
  /\ WF_perseVars((SysEvt \/ ScanEnds \/ JoinEnds) /\ Station)
  /\ WF_perseVars(LwipGivesUp)

-----------------------------------------------------------------------------
(* What the screen shows is what the client holds: paired only with a      *)
(* connection, or with the news of its end on the way, unless the news     *)
(* found the queue full or two disconnects at once took the connection     *)
(* that came after.                                                        *)
ViewAgrees == paired => connected \/ foreign \/ unheard \/ evts > 0

(* Of every state: the types, the station in step with its driver, and the *)
(* screen with its client.                                                 *)
PerseInv == PerseTypeOK /\ StationAgrees /\ ViewAgrees

(* A connection that is over is shown as over, and the screen does not     *)
(* hang on a thread that waits for the network: again and again the screen *)
(* is in its loop, and shows no connection that has ended and whose end it *)
(* was told.                                                               *)
LossShown ==
  []<>(/\ upc \notin {"waitDrain", "waitAct", "waitLeave"}
       /\ paired => foreign \/ unheard \/ (connected /\ peer # "closed"))
================================================================================
