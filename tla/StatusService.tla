---------------------------- MODULE StatusService ----------------------------
(***************************************************************************)
(* The StatusSvc thread (Services/StatusService): it keeps the home WiFi   *)
(* up, fetches the box status periodically, drops the radio while the      *)
(* watch sleeps and joins again on wake.  It is driven by one EventQueue   *)
(* of 8 entries, fed by the sys_evt task (WiFiHome) and by the LVGL thread *)
(* (Sleep::sleep), which it polls at the top of every pass of loop().      *)
(*                                                                         *)
(* Time is abstracted: a deadline the thread has set is a Boolean that     *)
(* becomes true at some later moment.  Module StatusTimers models the      *)
(* 32-bit arithmetic behind these comparisons.                             *)
(***************************************************************************)
EXTENDS WiFiHome

CONSTANTS
  BackoffInit,  \* connectBackoff after a successful join
  BackoffMax,   \* its cap
  MaxSleeps     \* bound of the model: sleep cycles of the watch

ASSUME StatusServiceAssumption ==
  /\ BackoffInit \in Nat \ {0}
  /\ BackoffMax \in Nat
  /\ BackoffInit =< BackoffMax
  /\ MaxSleeps \in Nat

VARIABLES
  pc,             \* StatusSvc: drain (handleEvents), body (rest of loop), fetch
  netState,       \* StatusService::netState
  paused,         \* StatusService::paused
  refreshNow,     \* StatusService::refreshNow
  connectBackoff, \* StatusService::connectBackoff
  connectDue,     \* now has reached nextConnectAt
  joinExpired,    \* more than 30 s since connectStartedAt
  fetchDue,       \* now has reached nextFetchAt
  lvgl,           \* the LVGL thread: awake, or inside Sleep::sleep
  sleeps          \* sleep cycles so far

timerVars == <<connectDue, joinExpired, fetchDue>>
svcVars   == <<pc, netState, paused, refreshNow, connectBackoff, timerVars>>
sleepVars == <<lvgl, sleeps>>
vars      == <<wifiVars, queueVars, svcVars, sleepVars>>

NetState == {"Off", "Connecting", "Connected", "Failed"}

TypeOK ==
  /\ wifiState \in WiFiState
  /\ retries \in Nat
  /\ radio \in Radio
  /\ sysEvt \in Seq(DriverEvent)
  /\ events \in Seq(QueueEvent)
  /\ dropped \in BOOLEAN
  /\ pc \in {"drain", "body", "fetch"}
  /\ netState \in NetState
  /\ paused \in BOOLEAN
  /\ refreshNow \in BOOLEAN
  /\ connectBackoff \in BackoffInit..BackoffMax
  /\ connectDue \in BOOLEAN
  /\ joinExpired \in BOOLEAN
  /\ fetchDue \in BOOLEAN
  /\ lvgl \in {"awake", "asleep"}
  /\ sleeps \in 0..MaxSleeps

Init ==
  /\ wifiState = "Idle" /\ retries = 0 /\ radio = "stopped" /\ sysEvt = <<>>
  /\ events = <<>> /\ dropped = FALSE
  /\ pc = "drain" /\ netState = "Off" /\ paused = FALSE /\ refreshNow = FALSE
  /\ connectBackoff = BackoffInit
  /\ connectDue = FALSE /\ joinExpired = FALSE /\ fetchDue = FALSE
  /\ lvgl = "awake" /\ sleeps = 0

-----------------------------------------------------------------------------
(* handleEvents(): one event per step.                                      *)

Take(e) ==
  /\ pc = "drain"
  /\ events # <<>>
  /\ Head(events) = e
  /\ events' = Tail(events)
  /\ UNCHANGED <<pc, dropped, refreshNow, sleepVars>>

DropWifi == Stop /\ netState' = "Off"

HandleConnected ==
  /\ Take("Connected")
  /\ netState' = "Connected"
  /\ connectBackoff' = BackoffInit
  /\ fetchDue' = TRUE
  /\ UNCHANGED <<wifiVars, paused, connectDue, joinExpired>>

NextBackoff(b) == IF 2 * b < BackoffMax THEN 2 * b ELSE BackoffMax

HandleDown(e) ==
  /\ Take(e)
  /\ netState' = "Failed"
  /\ Stop
  /\ connectDue' = FALSE
  /\ connectBackoff' = NextBackoff(connectBackoff)
  /\ UNCHANGED <<paused, joinExpired, fetchDue>>

HandleSleepOn ==
  /\ Take("SleepOn")
  /\ paused' = TRUE
  /\ DropWifi
  /\ UNCHANGED <<connectBackoff, timerVars>>

\* A bug to catch: waking up restarts the timer but stays paused.
HandleSleepOff_StaysPaused ==
  /\ Take("SleepOff")
  /\ connectDue' = FALSE
  /\ UNCHANGED <<wifiVars, netState, paused, connectBackoff, joinExpired, fetchDue>>

HandleSleepOff ==
  /\ Take("SleepOff")
  /\ paused' = FALSE
  /\ connectDue' = FALSE
  /\ UNCHANGED <<wifiVars, netState, connectBackoff, joinExpired, fetchDue>>

\* events.get(evt, 0) finds the queue empty: handleEvents returns.
HandleNone ==
  /\ pc = "drain" /\ events = <<>>
  /\ pc' = "body"
  /\ UNCHANGED <<wifiVars, queueVars, netState, paused, refreshNow,
                 connectBackoff, timerVars, sleepVars>>

HandleEvents ==
  \/ HandleConnected
  \/ \E e \in {"Failed", "Disconnected"} : HandleDown(e)
  \/ HandleSleepOn
  \/ HandleSleepOff
  \/ HandleNone

-----------------------------------------------------------------------------
(* The rest of loop().                                                      *)

Body ==
  /\ pc = "body"
  /\ UNCHANGED <<queueVars, paused, connectBackoff, sleepVars>>

EndPass == pc' = "drain"

ConnectReady == netState \in {"Off", "Failed"} /\ connectDue
JoinTimedOut == netState = "Connecting" /\ joinExpired
FetchReady   == netState = "Connected" /\ (refreshNow \/ fetchDue)

\* startConnect()
LoopConnect ==
  /\ Body /\ ~paused /\ ConnectReady /\ DriverRoom
  /\ EndPass
  /\ joinExpired' = FALSE
  /\ netState' = "Connecting"
  /\ Connect
  /\ UNCHANGED <<refreshNow, connectDue, fetchDue>>

LoopJoinTimeout ==
  /\ Body /\ ~paused /\ JoinTimedOut
  /\ EndPass
  /\ DropWifi
  /\ connectDue' = FALSE
  /\ UNCHANGED <<refreshNow, joinExpired, fetchDue>>

\* doFetch() blocks the thread; events pile up meanwhile.
LoopFetch ==
  /\ Body /\ ~paused /\ FetchReady
  /\ pc' = "fetch"
  /\ refreshNow' = FALSE
  /\ UNCHANGED <<wifiVars, netState, timerVars>>

FetchDone ==
  /\ pc = "fetch"
  /\ EndPass
  /\ fetchDue' = FALSE
  /\ UNCHANGED <<wifiVars, queueVars, netState, paused, refreshNow,
                 connectBackoff, connectDue, joinExpired, sleepVars>>

LoopNothing ==
  /\ Body
  /\ paused \/ ~(ConnectReady \/ JoinTimedOut \/ FetchReady)
  /\ EndPass
  /\ UNCHANGED <<wifiVars, netState, refreshNow, timerVars>>

StatusSvc ==
  \/ HandleEvents
  \/ LoopConnect \/ LoopJoinTimeout \/ LoopFetch \/ FetchDone \/ LoopNothing

-----------------------------------------------------------------------------
(* Time, and the threads that post to this one.                             *)

\* loop() samples now once, between handleEvents() and the comparisons, so no
\* deadline is reached while the thread is in the body.
ReachConnect ==
  /\ pc # "body" /\ ~connectDue /\ connectDue' = TRUE
  /\ UNCHANGED <<wifiVars, queueVars, pc, netState, paused, refreshNow,
                 connectBackoff, joinExpired, fetchDue, sleepVars>>

ReachJoinLimit ==
  /\ pc # "body" /\ netState = "Connecting" /\ ~joinExpired /\ joinExpired' = TRUE
  /\ UNCHANGED <<wifiVars, queueVars, pc, netState, paused, refreshNow,
                 connectBackoff, connectDue, fetchDue, sleepVars>>

ReachFetch ==
  /\ pc # "body" /\ ~fetchDue /\ fetchDue' = TRUE
  /\ UNCHANGED <<wifiVars, queueVars, pc, netState, paused, refreshNow,
                 connectBackoff, connectDue, joinExpired, sleepVars>>

Clock == ReachConnect \/ ReachJoinLimit \/ ReachFetch

\* requestRefresh(), from the UI.
RequestRefresh ==
  /\ ~refreshNow /\ refreshNow' = TRUE
  /\ UNCHANGED <<wifiVars, queueVars, pc, netState, paused, connectBackoff,
                 timerVars, sleepVars>>

\* Sleep::sleep() posts SleepOn on the way in ...
SleepStart ==
  /\ lvgl = "awake" /\ sleeps < MaxSleeps
  /\ lvgl' = "asleep" /\ sleeps' = sleeps + 1
  /\ Post("SleepOn")
  /\ UNCHANGED <<wifiVars, svcVars>>

\* ... and SleepOff on the way out.
SleepEnd ==
  /\ lvgl = "asleep"
  /\ lvgl' = "awake"
  /\ Post("SleepOff")
  /\ UNCHANGED <<wifiVars, svcVars, sleeps>>

Environment ==
  \/ Driver /\ UNCHANGED <<svcVars, sleepVars>>
  \/ Clock \/ RequestRefresh \/ SleepStart \/ SleepEnd

Next ==
  \/ StatusSvc
  \/ SysEvtTask /\ UNCHANGED <<svcVars, sleepVars>>
  \/ Environment

(* The threads keep running and time passes (a deadline is only kept from   *)
(* falling inside one body, hence strong fairness); the user, the access    *)
(* point and the moment of waking are not assumed to do anything.           *)
Fairness ==
  /\ WF_vars(StatusSvc)
  /\ WF_vars(SysEvtTask /\ UNCHANGED <<svcVars, sleepVars>>)
  /\ SF_vars(ReachConnect)
  /\ SF_vars(ReachJoinLimit)
  /\ SF_vars(ReachFetch)

Spec     == Init /\ [][Next]_vars
FairSpec == Spec /\ Fairness

-----------------------------------------------------------------------------
(* Properties.                                                              *)

Queued(S) == \E i \in DOMAIN events : events[i] \in S

(* Whenever the service holds the network Off or Failed, or the watch       *)
(* sleeps, the radio is really powered down: no order of driver events,     *)
(* stop() early returns and queued events leaves it burning.                *)
RadioOffUnlessWanted ==
  netState \in {"Off", "Failed"} \/ paused => radio = "stopped"

(* The service's view lags behind WiFiHome only while an event that will    *)
(* correct it is queued: a finished join or a dropped link is never silent. *)
ViewLagsOnlyBehindEvents ==
  \/ Queued(WiFiEvent)
  \/ /\ netState = "Connecting" => wifiState = "Connecting"
     /\ netState = "Connected" => wifiState # "Failed"

(* The 8-entry queue loses nothing over MaxSleeps sleep cycles, however     *)
(* long a fetch blocks the thread that empties it.                          *)
NothingLost == ~dropped

(* Events suffice to keep the view right: they come, and none is lost.      *)
EventsSuffice == ViewLagsOnlyBehindEvents /\ NothingLost

(* A link that drops under a connected service is noticed and acted on.     *)
LinkLossNoticed ==
  netState = "Connected" /\ radio = "idle" ~> netState # "Connected" \/ radio # "idle"

(* StatusService.h: "... and it reconnects on wake".                        *)
ReconnectsOnWake ==
  lvgl = "awake" /\ radio = "stopped" ~> radio # "stopped" \/ lvgl = "asleep"

\* The service believes in a link that stop() has torn down, and nothing is
\* on its way to correct it.
StaleConnected ==
  /\ netState = "Connected" /\ wifiState = "Idle" /\ radio = "stopped"
  /\ sysEvt = <<>> /\ events = <<>>

(* That belief is the only way not to reconnect: without it the service     *)
(* joins again after every wake, failure and join timeout.                  *)
ReconnectsUnlessStale == []~StaleConnected => ReconnectsOnWake

(* The part that is proved for every value of the constants: the types, and *)
(* a radio that is off unless wanted.                                       *)
Inv == TypeOK /\ RadioOffUnlessWanted
=============================================================================
