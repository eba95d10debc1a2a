-------------------------------- MODULE WiFiSTA --------------------------------
(***************************************************************************)
(* The station of the robot controller (Screens/PerseCtrl/WiFiSTA) over    *)
(* the WiFi driver.  connect() and disconnect() are called by the LVGL     *)
(* thread and by PairService, the driver's events are handled by the event *)
(* loop task; nothing locks the state.  A call and a handler are one step  *)
(* each.                                                                   *)
(*                                                                         *)
(* The robot's access point first refuses a watch it does not know, with   *)
(* the reason SA_QUERY_TIMEOUT: the handler answers with a second join.    *)
(***************************************************************************)
EXTENDS Naturals, Sequences

CONSTANTS
  ConnectRetries,   \* WiFiSTA::ConnectRetries
  PairQueue,        \* the places of PairService::queue
  MaxDrops          \* bound of the model: links and connections the robot ends

ASSUME WiFiSTAAssumption ==
  ConnectRetries \in Nat /\ PairQueue \in Nat \ {0} /\ MaxDrops \in Nat

VARIABLES
  wifi,             \* WiFiSTA::state
  cached, attempted, connectTries,   \* is there a cachedSSID; WiFiSTA's
  link, scan,       \* the driver: the station, and whether it scans
  drv,              \* the driver's events not yet handled
  drops,
  listening, pairq, \* PairService::queue, and whether Events knows it
  crossed           \* history: the latest scan began while the driver was not at rest

stationVars   == <<wifi, cached, attempted, connectTries>>
driverVars == <<link, scan, drv>>
staVars    == <<stationVars, driverVars, drops, listening, pairq, crossed>>

StaEvent == [id : {"scanDone", "connected"}] \cup [id : {"disconnected"}, saQuery : BOOLEAN]
WifiEvent   == {"connectOk", "connectFail", "disconnect", "probe"}

StaTypeOK ==
  /\ wifi \in {"Connected", "Connecting", "Disconnected", "Scanning", "ConnAbort"}
  /\ cached \in BOOLEAN /\ attempted \in BOOLEAN
  /\ connectTries \in 0..ConnectRetries + 1
  /\ link \in {"off", "joining", "up"} /\ scan \in BOOLEAN /\ drv \in Seq(StaEvent)
  /\ drops \in 0..MaxDrops /\ crossed \in BOOLEAN
  /\ listening \in BOOLEAN /\ pairq \in Seq(WifiEvent) /\ Len(pairq) =< PairQueue

Idle ==
  /\ wifi = "Disconnected" /\ cached = FALSE /\ attempted = FALSE /\ connectTries = 0
  /\ link = "off" /\ scan = FALSE /\ drv = <<>> /\ listening = FALSE /\ pairq = <<>>
  /\ crossed = FALSE

-----------------------------------------------------------------------------
(* Calls of the driver, and of the station.                                *)

Report(e) == drv' = Append(drv, e)

(* esp_wifi_disconnect: a station that has a link, or wants one, loses it. *)
EspDisconnect ==
  IF link = "off" THEN UNCHANGED <<link, drv>>
  ELSE link' = "off" /\ Report([id |-> "disconnected", saQuery |-> FALSE])

EspJoin == link' = IF link = "off" THEN "joining" ELSE link

(* A scan is refused while the station joins. *)
StaConnect ==
  IF wifi \in {"Disconnected", "ConnAbort"}
  THEN /\ wifi' = "Scanning" /\ scan' = (scan \/ link # "joining")
       /\ crossed' = (drv # <<>> \/ scan \/ link # "off")
  ELSE UNCHANGED <<wifi, scan, crossed>>

Disconnect ==
  IF wifi = "Disconnected" THEN UNCHANGED <<stationVars, driverVars>> ELSE
  /\ cached' = FALSE /\ attempted' = FALSE
  /\ wifi' = IF wifi = "Connected" THEN wifi ELSE "ConnAbort"
  /\ \/ wifi \in {"Connected", "Connecting"} /\ EspDisconnect /\ UNCHANGED scan
     \/ /\ wifi = "Scanning" /\ scan' = FALSE
        /\ IF scan THEN Report([id |-> "scanDone"]) ELSE UNCHANGED drv
        /\ UNCHANGED link
     \/ wifi = "ConnAbort" /\ UNCHANGED driverVars
  /\ UNCHANGED connectTries

-----------------------------------------------------------------------------
(* WiFiSTA::event, in the event loop task.                                 *)

StaPost(e) == pairq' = IF listening /\ Len(pairq) < PairQueue THEN Append(pairq, e) ELSE pairq

NoPost == UNCHANGED pairq

HasCachedSSID == cached /\ ~attempted

OnConnected ==
  IF wifi = "ConnAbort"
  THEN /\ IF link = "off" THEN UNCHANGED link ELSE link' = "off"
       /\ drv' = Tail(drv) \o (IF link = "off" THEN <<>> ELSE <<[id |-> "disconnected", saQuery |-> FALSE]>>)
       /\ NoPost /\ UNCHANGED <<stationVars, scan>>
  ELSE /\ wifi' = "Connected"
       /\ IF HasCachedSSID THEN NoPost ELSE StaPost("connectOk")
       /\ drv' = Tail(drv) /\ UNCHANGED <<cached, attempted, connectTries, link, scan>>

(* mutant: a join given up is waited for again *)
EndWith_Waits(e) == wifi' = (IF wifi = "ConnAbort" THEN wifi ELSE "Disconnected") /\ StaPost(e)

EndWith(e) == wifi' = "Disconnected" /\ StaPost(e)

OnDisconnected(saQuery) ==
  /\ drv' = Tail(drv)
  /\ UNCHANGED <<cached, attempted>>
  /\ \/ /\ HasCachedSSID /\ saQuery
        /\ StaPost("probe")
        /\ wifi' = "Scanning" /\ scan' = (scan \/ link # "joining")
        /\ UNCHANGED <<connectTries, link>>
     \/ /\ ~(HasCachedSSID /\ saQuery) /\ wifi = "Connecting"
        /\ connectTries' = connectTries + 1
        /\ IF connectTries' =< ConnectRetries THEN EspJoin /\ NoPost /\ UNCHANGED wifi
           ELSE EndWith("connectFail") /\ UNCHANGED link
        /\ UNCHANGED scan
     \/ /\ ~(HasCachedSSID /\ saQuery) /\ wifi # "Connecting"
        /\ EndWith(IF wifi = "ConnAbort" THEN "connectFail" ELSE "disconnect")
        /\ UNCHANGED <<connectTries, link, scan>>

(* The network of a robot is found, or was found before. *)
OnScanDone ==
  /\ drv' = Tail(drv) /\ UNCHANGED scan
  /\ \/ wifi = "ConnAbort" /\ EndWith("connectFail") /\ UNCHANGED <<cached, attempted, connectTries, link>>
     \/ wifi \notin {"ConnAbort", "Scanning"} /\ NoPost /\ UNCHANGED <<stationVars, link>>
     \/ /\ wifi = "Scanning"
        /\ \E found \in BOOLEAN :
             /\ attempted' = HasCachedSSID
             /\ cached' = (HasCachedSSID \/ found)
             /\ IF cached' THEN wifi' = "Connecting" /\ connectTries' = 0 /\ EspJoin /\ NoPost
                ELSE EndWith("connectFail") /\ UNCHANGED <<connectTries, link>>

SysEvt ==
  /\ drv # <<>>
  /\ CASE Head(drv).id = "connected" -> OnConnected
       [] Head(drv).id = "disconnected" -> OnDisconnected(Head(drv).saQuery)
       [] Head(drv).id = "scanDone" -> OnScanDone
  /\ UNCHANGED <<drops, listening, crossed>>

-----------------------------------------------------------------------------
(* The driver and the robot's access point.                                *)

ScanEnds ==
  /\ scan /\ scan' = FALSE /\ Report([id |-> "scanDone"])
  /\ UNCHANGED <<stationVars, link, drops, listening, pairq, crossed>>

JoinEnds ==
  /\ link = "joining"
  /\ \/ link' = "up" /\ Report([id |-> "connected"])
     \/ link' = "off" /\ Report([id |-> "disconnected", saQuery |-> FALSE])
  /\ UNCHANGED <<stationVars, scan, drops, listening, pairq, crossed>>

LinkDrops ==
  /\ link = "up" /\ drops < MaxDrops
  /\ drops' = drops + 1 /\ link' = "off"
  /\ \E saQuery \in BOOLEAN : Report([id |-> "disconnected", saQuery |-> saQuery])
  /\ UNCHANGED <<stationVars, scan, listening, pairq, crossed>>

StaRadio == ScanEnds \/ JoinEnds \/ LinkDrops

-----------------------------------------------------------------------------
(* Once its events are handled, the station knows what the driver does:    *)
(* nothing is awaited that will not come, no link is held unknown; unless  *)
(* connect() was called while events of the attempt before were waiting.   *)
StationAgrees ==
  drv = <<>> /\ ~crossed =>
    /\ wifi = "Connected" <=> link = "up"
    /\ wifi = "Connecting" <=> link = "joining"
    /\ wifi \in {"Scanning", "ConnAbort"} => scan
================================================================================
