---------------------------------- MODULE ConMan ----------------------------------
(***************************************************************************)
(* Advertising and connection parameters of the watch (BLE/ConMan and      *)
(* BLE/ConConf) over an asynchronous Bluetooth stack.  The stack carries   *)
(* out the calls in order and answers with events, which the BTC task      *)
(* handles one at a time.  ConManager is meant for the BTC task alone, but *)
(* Sleep calls goLowPow and goHiPow from the LVGL thread: both threads run *)
(* the same code, statement groups that touch shared state being steps.    *)
(* Only ConConf::conf and confDone hold a mutex.                           *)
(*                                                                         *)
(* A set of parameters is the power mode it was chosen for.                *)
(***************************************************************************)
EXTENDS Naturals, Sequences

CONSTANTS
  MaxLinks,   \* bound of the model: connections made by a central
  MaxModes,   \* bound of the model: calls of goLowPow and goHiPow
  MaxFails    \* bound of the model: calls the stack or the central refuses

ASSUME ConAssumption == MaxLinks \in Nat /\ MaxModes \in Nat /\ MaxFails \in Nat

VARIABLES
  radioAdv,    \* the stack: the radio advertises
  link,        \* the stack: a central is connected
  linkMode,    \* the stack: the parameters of the link, or the central's own
  calls,       \* the stack: the calls it has not carried out
  events,      \* the stack: the events the BTC task has not handled
  links, modes, fails,
  configsDone, \* GAP::configsDone
  connected, advertising, wantAdv, lowPow,   \* ConManager's
  current, queued,                          \* ConConf's
  pc,          \* by thread: idle or the next step
  choice,      \* by thread: the parameters setCon has copied
  refused,     \* history: a start or a stop was refused, or an update three times
  meddled,       \* history: the LVGL thread was inside goLowPow or goHiPow while
               \*   the BTC task was inside connect or disconnect
  leftover     \* history: a connection was handled while an update of the one
               \*   before was under way or its event unhandled

stackVars == <<radioAdv, link, linkMode, calls, events>>
boundVars == <<links, modes, fails>>
manVars   == <<configsDone, connected, advertising, wantAdv, lowPow>>
confVars  == <<current, queued>>
conVars == <<stackVars, boundVars, manVars, confVars, pc, choice, refused, meddled, leftover>>

Threads == {"btc", "lvgl"}
Mode    == {"low", "high"}
None    == "none"
Call    == [do : {"start", "stop"}] \cup [do : {"update"}, mode : Mode]
BtEvent == [type : {"connect", "disconnect", "advData", "scanRsp"}] \cup
           [type : {"advStart", "advStop", "update"}, ok : BOOLEAN]

ConTypeOK ==
  /\ radioAdv \in BOOLEAN /\ link \in BOOLEAN
  /\ linkMode \in Mode \cup {None}
  /\ calls \in Seq(Call) /\ events \in Seq(BtEvent)
  /\ links \in 0..MaxLinks /\ modes \in 0..MaxModes /\ fails \in 0..MaxFails
  /\ configsDone \subseteq {"advData", "scanRsp"}
  /\ connected \in BOOLEAN /\ advertising \in BOOLEAN /\ wantAdv \in BOOLEAN
  /\ lowPow \in BOOLEAN
  /\ current \in Mode \cup {None} /\ queued \in Mode \cup {None}
  /\ pc \in [Threads -> {"idle", "go", "setCon", "conf", "want", "start", "stop"}]
  /\ choice \in [Threads -> Mode \cup {None}]
  /\ refused \in BOOLEAN /\ meddled \in BOOLEAN /\ leftover \in BOOLEAN

ConInit ==
  /\ radioAdv = FALSE /\ link = FALSE /\ linkMode = None
  /\ calls = <<>>
  /\ events \in {<<[type |-> a], [type |-> b]>> : a, b \in {"advData", "scanRsp"}}
  /\ events[1] # events[2]
  /\ links = 0 /\ modes = 0 /\ fails = 0 /\ configsDone = {}
  /\ connected = FALSE /\ advertising = FALSE /\ wantAdv = FALSE /\ lowPow = FALSE
  /\ current = None /\ queued = None
  /\ pc = [t \in Threads |-> "idle"] /\ choice = [t \in Threads |-> None]
  /\ refused = FALSE /\ meddled = FALSE /\ leftover = FALSE

-----------------------------------------------------------------------------
(* The Bluetooth stack.                                                    *)

Stack == UNCHANGED <<modes, manVars, confVars, pc, choice, meddled, leftover>>

Answer(e) == events' = Append(events, e) /\ calls' = Tail(calls)

StackStarts ==
  /\ calls # <<>> /\ Head(calls).do = "start"
  /\ radioAdv' = TRUE
  /\ Answer([type |-> "advStart", ok |-> TRUE])
  /\ Stack /\ UNCHANGED <<link, linkMode, links, fails, refused>>

StackStops ==
  /\ calls # <<>> /\ Head(calls).do = "stop"
  /\ radioAdv' = FALSE
  /\ Answer([type |-> "advStop", ok |-> TRUE])
  /\ Stack /\ UNCHANGED <<link, linkMode, links, fails, refused>>

StackUpdates ==
  /\ calls # <<>> /\ Head(calls).do = "update" /\ link
  /\ linkMode' = Head(calls).mode
  /\ Answer([type |-> "update", ok |-> TRUE])
  /\ Stack /\ UNCHANGED <<radioAdv, link, links, fails, refused>>

(* A start or a stop fails, the central rejects the parameters, or there   *)
(* is no link to update.                                                   *)
StackRefuses ==
  /\ calls # <<>>
  /\ LET c == Head(calls)
     IN  /\ (c.do = "update" /\ ~link) \/ fails < MaxFails
         /\ fails' = IF c.do = "update" /\ ~link THEN fails ELSE fails + 1
         /\ refused' = (refused \/ c.do # "update")
         /\ Answer([type |-> CASE c.do = "start" -> "advStart" [] c.do = "stop" -> "advStop"
                                [] c.do = "update" -> "update", ok |-> FALSE])
  /\ Stack /\ UNCHANGED <<radioAdv, link, linkMode, links>>

(* A central connects: advertising stops implicitly, with or without an    *)
(* ADV_STOP event.                                                         *)
CentralConnects ==
  /\ radioAdv /\ ~link /\ links < MaxLinks
  /\ links' = links + 1
  /\ link' = TRUE /\ radioAdv' = FALSE /\ linkMode' = None
  /\ \E announced \in {<<>>, <<[type |-> "advStop", ok |-> TRUE]>>} :
       events' = Append(events, [type |-> "connect"]) \o announced
  /\ Stack /\ UNCHANGED <<calls, fails, refused>>

LinkLost ==
  /\ link
  /\ link' = FALSE /\ events' = Append(events, [type |-> "disconnect"])
  /\ Stack /\ UNCHANGED <<radioAdv, linkMode, calls, links, fails, refused>>

-----------------------------------------------------------------------------
(* startAdv, stopAdv, setCon and ConConf::conf, on either thread.          *)

Issue(c) ==
  \/ calls' = Append(calls, c) /\ UNCHANGED <<fails, refused>>
  \/ fails < MaxFails /\ fails' = fails + 1 /\ refused' = TRUE /\ UNCHANGED calls

Goto(t, where) == pc' = [pc EXCEPT ![t] = where]

Code == UNCHANGED <<radioAdv, link, linkMode, links, configsDone>>

WantAdv(t) ==
  /\ pc[t] = "want"
  /\ wantAdv' = TRUE
  /\ Goto(t, IF advertising THEN "idle" ELSE "start")
  /\ Code /\ UNCHANGED <<calls, events, modes, fails, connected, advertising, lowPow,
                         confVars, choice, refused, meddled, leftover>>

(* The interval is chosen by lowPow when the call is made; a radio that    *)
(* advertises already keeps its own.                                       *)
StartAdv(t) ==
  /\ pc[t] = "start"
  /\ Issue([do |-> "start"])
  /\ Goto(t, "idle")
  /\ Code /\ UNCHANGED <<events, modes, connected, advertising, wantAdv, lowPow,
                         confVars, choice, meddled, leftover>>

StopAdv(t) ==
  /\ pc[t] = "stop"
  /\ wantAdv' = FALSE
  /\ IF advertising THEN Issue([do |-> "stop"]) ELSE UNCHANGED <<calls, fails, refused>>
  /\ Goto(t, "idle")
  /\ Code /\ UNCHANGED <<events, modes, connected, advertising, lowPow, confVars, choice, meddled, leftover>>

SetCon(t) ==
  /\ pc[t] = "setCon"
  /\ choice' = [choice EXCEPT ![t] = IF lowPow THEN "low" ELSE "high"]
  /\ Goto(t, "conf")
  /\ Code /\ UNCHANGED <<calls, events, modes, fails, connected, advertising, wantAdv, lowPow,
                         confVars, refused, meddled, leftover>>

(* ConConf::send tries three times; the parameters of a call that is not   *)
(* accepted are forgotten.                                                 *)
Send(p) ==
  \/ current' = p /\ calls' = Append(calls, [do |-> "update", mode |-> p])
     /\ UNCHANGED <<fails, refused>>
  \/ fails < MaxFails /\ fails' = fails + 1 /\ refused' = TRUE
     /\ current' = None /\ UNCHANGED calls

(* mutant: a set is dropped while another is under way *)
Conf_Busy(t) ==
  /\ pc[t] = "conf"
  /\ IF current # None
     THEN UNCHANGED <<queued, current, calls, fails, refused>>
     ELSE Send(choice[t]) /\ UNCHANGED queued
  /\ choice' = [choice EXCEPT ![t] = None]
  /\ Goto(t, IF t = "btc" THEN "stop" ELSE "idle")
  /\ Code /\ UNCHANGED <<events, modes, connected, advertising, wantAdv, lowPow, meddled, leftover>>

(* ConManager::connect goes on to stopAdv, goLowPow and goHiPow are done. *)
Conf(t) ==
  /\ pc[t] = "conf"
  /\ IF current # None
     THEN queued' = choice[t] /\ UNCHANGED <<current, calls, fails, refused>>
     ELSE Send(choice[t]) /\ UNCHANGED queued
  /\ choice' = [choice EXCEPT ![t] = None]
  /\ Goto(t, IF t = "btc" THEN "stop" ELSE "idle")
  /\ Code /\ UNCHANGED <<events, modes, connected, advertising, wantAdv, lowPow, meddled, leftover>>

-----------------------------------------------------------------------------
(* The BTC task.                                                           *)

Handle(type) ==
  /\ pc["btc"] = "idle" /\ events # <<>> /\ Head(events).type = type
  /\ events' = Tail(events)

Race == meddled' = (meddled \/ pc["lvgl"] # "idle")

(* GAP::configDone: advertising starts when both data sets are in place. *)
HandleConfig ==
  /\ \E c \in {"advData", "scanRsp"} : Handle(c) /\ configsDone' = configsDone \cup {c}
  /\ Goto("btc", IF configsDone' = {"advData", "scanRsp"} THEN "want" ELSE "idle")
  /\ UNCHANGED <<radioAdv, link, linkMode, calls, boundVars, connected, advertising, wantAdv,
                 lowPow, confVars, choice, refused, meddled, leftover>>

Connect ==
  /\ Handle("connect")
  /\ advertising' = FALSE /\ connected' = TRUE
  /\ Goto("btc", "setCon") /\ Race
  /\ leftover' = (\/ leftover
                  \/ \E i \in DOMAIN calls : calls[i].do = "update"
                  \/ \E j \in DOMAIN events : events[j].type = "update")
  /\ Code /\ UNCHANGED <<calls, modes, fails, wantAdv, lowPow, confVars, choice, refused>>

(* connected, then ConConf::reset; startAdv follows. *)
Disconnect ==
  /\ Handle("disconnect")
  /\ connected' = FALSE /\ current' = None /\ queued' = None
  /\ Goto("btc", "want") /\ Race
  /\ Code /\ UNCHANGED <<calls, modes, fails, advertising, wantAdv, lowPow, choice, refused, leftover>>

OnAdvStartComplete ==
  /\ Handle("advStart")
  /\ advertising' = Head(events).ok
  /\ IF Head(events).ok /\ ~wantAdv
     THEN Issue([do |-> "stop"]) ELSE UNCHANGED <<calls, fails, refused>>
  /\ Code /\ UNCHANGED <<modes, connected, wantAdv, lowPow, confVars, pc, choice, meddled, leftover>>

OnAdvStopComplete ==
  /\ Handle("advStop")
  /\ advertising' = (advertising /\ ~Head(events).ok)
  /\ Goto("btc", IF wantAdv /\ ~advertising' THEN "want" ELSE "idle")
  /\ Code /\ UNCHANGED <<calls, modes, fails, connected, wantAdv, lowPow, confVars, choice, refused, meddled, leftover>>

(* mutant: a rejected set is given up *)
ConfDone_NoRetry ==
  /\ Handle("update")
  /\ CASE queued # None -> Send(queued) /\ queued' = None
       [] queued = None /\ FALSE -> Send(current) /\ UNCHANGED queued
       [] OTHER -> current' = None /\ UNCHANGED <<queued, calls, fails, refused>>
  /\ Code /\ UNCHANGED <<modes, connected, advertising, wantAdv, lowPow, pc, choice, meddled, leftover>>

(* ConConf::confDone: a waiting set goes out, a rejected one again. *)
ConfDone ==
  /\ Handle("update")
  /\ CASE queued # None -> Send(queued) /\ queued' = None
       [] queued = None /\ ~Head(events).ok /\ current # None -> Send(current) /\ UNCHANGED queued
       [] OTHER -> current' = None /\ UNCHANGED <<queued, calls, fails, refused>>
  /\ Code /\ UNCHANGED <<modes, connected, advertising, wantAdv, lowPow, pc, choice, meddled, leftover>>

-----------------------------------------------------------------------------
(* The LVGL thread, inside Sleep::sleep: low power before, high after.     *)

GoPow ==
  /\ pc["lvgl"] = "idle" /\ modes < MaxModes
  /\ modes' = modes + 1
  /\ lowPow' = ~lowPow
  /\ Goto("lvgl", "go")
  /\ meddled' = (meddled \/ pc["btc"] # "idle")
  /\ Code /\ UNCHANGED <<calls, events, fails, connected, advertising, wantAdv, confVars, choice, refused, leftover>>

GoBranch ==
  /\ pc["lvgl"] = "go"
  /\ Goto("lvgl", IF connected THEN "setCon" ELSE "want")
  /\ Code /\ UNCHANGED <<calls, events, modes, fails, connected, advertising, wantAdv, lowPow,
                         confVars, choice, refused, meddled, leftover>>

-----------------------------------------------------------------------------
StackStep == StackStarts \/ StackStops \/ StackUpdates \/ StackRefuses
Central   == CentralConnects \/ LinkLost

Steps(t) == WantAdv(t) \/ StartAdv(t) \/ StopAdv(t) \/ SetCon(t) \/ Conf(t)

BTC ==
  \/ HandleConfig \/ Connect \/ Disconnect
  \/ OnAdvStartComplete \/ OnAdvStopComplete \/ ConfDone
  \/ Steps("btc")

LVGL == GoPow \/ GoBranch \/ Steps("lvgl")

ConNext == StackStep \/ Central \/ BTC \/ LVGL

ConSpec == ConInit /\ [][ConNext]_conVars

-----------------------------------------------------------------------------
Quiet == calls = <<>> /\ events = <<>> /\ \A t \in Threads : pc[t] = "idle"

(* ConMan.h 42-49: `advertising` must stay synchronized with the radio,    *)
(* for startAdv and stopAdv short-circuit on it.  When nothing is under    *)
(* way it is the truth, but that a refused start clears it even when the   *)
(* start was a second one and the radio advertises.                        *)
HintTrue ==
  Quiet => /\ connected = link
           /\ advertising => radioAdv
           /\ ~refused => advertising = radioAdv

(* A watch without a connection can be found, and a connected one does not *)
(* advertise: not while the LVGL thread stays out of the BTC task's way.   *)
Discoverable == Quiet /\ ~refused /\ ~meddled => radioAdv = ~link

(* The link gets the parameters of the power mode asked for last, though   *)
(* only one update is under way at a time and the central may reject some; *)
(* a late answer to the previous link's update passes for this link's.     *)
LastModeWins ==
  Quiet /\ link /\ ~refused /\ ~meddled /\ ~leftover => linkMode = (IF lowPow THEN "low" ELSE "high")

(* ConConf: nothing waits for an update that is not under way, so a        *)
(* waiting set is never stranded.                                          *)
PendingHasCurrent == queued # None => current # None

(* The link settles: with finitely many refusals a link that stays gets    *)
(* its parameters in the end.                                              *)
Settles ==
  <>[](link /\ ~refused /\ ~meddled /\ ~leftover)
    => <>[](linkMode = (IF lowPow THEN "low" ELSE "high") /\ current = None)

(* Of every state: the types, no parameters waiting for an update that is  *)
(* not under way, a true hint; and once quiet a watch that is found unless *)
(* it is connected, and a link in the power mode asked for last.           *)
ConInv == ConTypeOK /\ PendingHasCurrent /\ HintTrue /\ Discoverable /\ LastModeWins
==============================================================================
