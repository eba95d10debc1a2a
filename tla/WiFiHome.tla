------------------------------ MODULE WiFiHome ------------------------------
(***************************************************************************)
(* Station-mode WiFi for the home network (Services/WiFiHome).             *)
(*                                                                         *)
(* Three parties touch the state below.  The StatusSvc thread calls        *)
(* connect() and stop().  The ESP-IDF WiFi driver (external) runs the      *)
(* radio and appends its events to the default event loop.  The sys_evt    *)
(* task takes them from there, one at a time, and runs onWifiEvent and     *)
(* onIpEvent, which publish Facility::WiFi events on the subscriber's      *)
(* EventQueue.  connect() and stop() are operators the StatusService       *)
(* module composes into its own actions.                                   *)
(***************************************************************************)
EXTENDS Naturals, Sequences

CONSTANTS
  MaxRetries,   \* joins retried inside one connect() (WiFiHome::MaxRetries)
  QueueLen,     \* capacity of the subscriber's EventQueue
  MaxSysEvt     \* bound of the model: driver events not yet dispatched

ASSUME WiFiHomeAssumption ==
  /\ MaxRetries \in Nat
  /\ QueueLen \in Nat \ {0}
  /\ MaxSysEvt \in Nat \ {0}

VARIABLES
  wifiState,    \* WiFiHome::state
  retries,      \* WiFiHome::retries
  radio,        \* the driver: stopped, idle (started), joining, up (has an IP)
  sysEvt,       \* driver events queued for the sys_evt task
  events,       \* the subscriber's EventQueue
  dropped       \* history: some post found the queue full

wifiVars  == <<wifiState, retries, radio, sysEvt>>
queueVars == <<events, dropped>>

WiFiState   == {"Idle", "Connecting", "Connected", "Failed"}
Radio       == {"stopped", "idle", "joining", "up"}
DriverEvent == {"StaStart", "StaDisconnected", "StaGotIp"}
WiFiEvent   == {"Connected", "Failed", "Disconnected"}
SleepEvent  == {"SleepOn", "SleepOff"}
QueueEvent  == WiFiEvent \cup SleepEvent

-----------------------------------------------------------------------------
(* Events::post to one subscriber: EventQueue::post does not wait, and      *)
(* Events::post ignores its result, so a full queue loses the event.        *)
Post(e) ==
  IF Len(events) < QueueLen
    THEN events' = Append(events, e) /\ UNCHANGED dropped
    ELSE dropped' = TRUE /\ UNCHANGED events

-----------------------------------------------------------------------------
(* The calls of the StatusSvc thread.                                       *)

\* The driver reports the end of an association it had or was building.
DisconnectNotice ==
  IF radio \in {"joining", "up"} THEN <<"StaDisconnected">> ELSE <<>>

\* connect(): nothing while a session is under way; esp_wifi_start() of a
\* radio that is already started reports nothing.
Connect ==
  IF wifiState \in {"Connecting", "Connected"}
    THEN UNCHANGED wifiVars
    ELSE /\ wifiState' = "Connecting"
         /\ retries' = 0
         /\ IF radio = "stopped"
              THEN radio' = "idle" /\ sysEvt' = Append(sysEvt, "StaStart")
              ELSE UNCHANGED <<radio, sysEvt>>

\* A bug to catch: stop() that only tears down an established link.
Stop_OnlyConnected ==
  IF wifiState # "Connected"
    THEN UNCHANGED wifiVars
    ELSE /\ wifiState' = "Idle"
         /\ radio' = "stopped"
         /\ sysEvt' = sysEvt \o DisconnectNotice
         /\ UNCHANGED retries

\* stop(): nothing when already Idle, else disconnect and power down.
Stop ==
  IF wifiState = "Idle"
    THEN UNCHANGED wifiVars
    ELSE /\ wifiState' = "Idle"
         /\ radio' = "stopped"
         /\ sysEvt' = sysEvt \o DisconnectNotice
         /\ UNCHANGED retries

\* esp_wifi_connect() from a handler: an error (not started, already
\* connecting) is ignored by the callers.
EspConnect == radio' = IF radio = "idle" THEN "joining" ELSE radio

-----------------------------------------------------------------------------
(* The driver (external).                                                   *)

DriverRoom == Len(sysEvt) < MaxSysEvt

\* A join ends with a DHCP lease ...
DriverJoined ==
  /\ radio = "joining" /\ DriverRoom
  /\ radio' = "up"
  /\ sysEvt' = Append(sysEvt, "StaGotIp")
  /\ UNCHANGED <<wifiState, retries, queueVars>>

\* ... or fails, and an association may be lost at any time.
DriverDisconnected ==
  /\ radio \in {"joining", "up"} /\ DriverRoom
  /\ radio' = "idle"
  /\ sysEvt' = Append(sysEvt, "StaDisconnected")
  /\ UNCHANGED <<wifiState, retries, queueVars>>

-----------------------------------------------------------------------------
(* The sys_evt task.  It outranks the StatusSvc thread on the same core, so *)
(* a handler is not interleaved with that thread's statements.              *)

Dispatch(e) ==
  /\ sysEvt # <<>>
  /\ Head(sysEvt) = e
  /\ sysEvt' = Tail(sysEvt)

OnStaStart ==
  /\ Dispatch("StaStart")
  /\ IF wifiState = "Connecting" THEN EspConnect ELSE UNCHANGED radio
  /\ UNCHANGED <<wifiState, retries, queueVars>>

\* Bugs to catch: the state changes but nobody is told.
GiveUp_Silent   == wifiState' = "Failed" /\ UNCHANGED queueVars
LinkLost_Silent == wifiState' = "Failed" /\ UNCHANGED queueVars

\* A join out of retries, and an established link that dropped.
GiveUp   == wifiState' = "Failed" /\ Post("Failed")
LinkLost == wifiState' = "Failed" /\ Post("Disconnected")

OnStaDisconnected ==
  /\ Dispatch("StaDisconnected")
  /\ \/ /\ wifiState = "Connecting"
        /\ retries' = retries + 1
        /\ \/ /\ retries < MaxRetries
              /\ EspConnect
              /\ UNCHANGED <<wifiState, queueVars>>
           \/ /\ retries >= MaxRetries
              /\ GiveUp
              /\ UNCHANGED radio
     \/ /\ wifiState = "Connected"
        /\ LinkLost
        /\ UNCHANGED <<retries, radio>>
     \/ /\ wifiState \in {"Idle", "Failed"}
        /\ UNCHANGED <<wifiState, retries, radio, queueVars>>

\* onIpEvent sets the state without looking at it.
OnStaGotIp ==
  /\ Dispatch("StaGotIp")
  /\ wifiState' = "Connected"
  /\ Post("Connected")
  /\ UNCHANGED <<retries, radio>>

SysEvtTask == OnStaStart \/ OnStaDisconnected \/ OnStaGotIp
Driver     == DriverJoined \/ DriverDisconnected
=============================================================================
