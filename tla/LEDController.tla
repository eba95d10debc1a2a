------------------------------ MODULE LEDController ------------------------------
(***************************************************************************)
(* One LED (Devices/LEDController): its thread lights it step by step, a   *)
(* step per turn of the loop, woken by the timer of the step before or by  *)
(* a call.  The status center and LVGL call it: blink, which goes before   *)
(* what the LED shows continuously, the patterns of the battery and the    *)
(* alert, and clear.  What the code does under its mutex is one step;      *)
(* clear and the loop stop and start the timer outside it.                 *)
(***************************************************************************)
EXTENDS Integers

CONSTANTS
  Callers,       \* the threads that call
  AlertLoops,    \* how often the alert blinks
  MaxCalls       \* bound of the model

ASSUME LEDControllerAssumption == AlertLoops \in Nat

VARIABLES
  shortAction, continuousAction,
  led, ledLock,          \* what is written to the LED; the sleep lock is held
  ledSem, ledTimer, ticking,   \* timerSem; Timer::state is Running; the esp_timer runs
  lpc, cpc,              \* the next step of the thread, of each caller's clear
  ledCalls,
  due,       \* history: a timer has run out since the step began
  doubled,   \* history: the semaphore was given between its taking and the handling
  cutShort   \* history: a step was ended before a timer had run out

ledVars == <<shortAction, continuousAction, led, ledLock, ledSem, ledTimer, ticking, lpc, cpc, ledCalls, due, doubled, cutShort>>
ledTimerVars == <<ledTimer, ticking, due>>
lightVars == <<shortAction, continuousAction, led, ledLock, cutShort>>

Blinking  == {"empty", "alert"}
Breathing == {"charging", "full"}
Nothing   == [type |-> "none", state |-> "on", loops |-> 0]
Pending(type, loops) == [type |-> type, state |-> "pending", loops |-> loops]

LedInit ==
  /\ shortAction = Nothing /\ continuousAction = Nothing /\ led = "off" /\ ledLock = FALSE
  /\ ledSem = FALSE /\ ledTimer = TRUE /\ ticking = TRUE /\ lpc = "take" /\ cpc = [c \in Callers |-> "idle"]
  /\ ledCalls = 0 /\ due = FALSE /\ doubled = FALSE /\ cutShort = FALSE

-----------------------------------------------------------------------------
Give == ledSem' = TRUE /\ doubled' = (doubled \/ lpc \in {"stop", "halt", "handle"})

Blink(type) == shortAction' = Pending(type, 0) /\ Give /\ UNCHANGED continuousAction

(* mutant: a pattern waits for the next turn of the thread *)
SetContinuous_Silent(type) ==
  /\ type = "solid" \/ continuousAction.type # type
  /\ continuousAction' = Pending(type, AlertLoops) /\ UNCHANGED <<ledSem, doubled, shortAction>>

(* setSolid, blinkContinuous and breathe: one that is shown goes on. *)
SetContinuous(type) ==
  /\ type = "solid" \/ continuousAction.type # type
  /\ continuousAction' = Pending(type, AlertLoops) /\ UNCHANGED shortAction
  /\ IF shortAction.type = "none" THEN Give ELSE UNCHANGED <<ledSem, doubled>>

LedSetting ==
  /\ \E c \in Callers : cpc[c] = "idle" /\ ledCalls < MaxCalls /\ ledCalls' = ledCalls + 1
  /\ \/ \E type \in {"once", "twice"} : Blink(type)
     \/ \E type \in {"solid"} \cup Blinking \cup Breathing : SetContinuous(type)
  /\ UNCHANGED <<led, ledLock, ledTimerVars, lpc, cpc, cutShort>>

(* Timer::stop, in its two statements; those who find it Stopped go on. *)
LedStop(at, next, last) ==
  \/ at = "stop" /\ ledTimer' = FALSE /\ next = (IF ledTimer THEN "halt" ELSE last) /\ UNCHANGED <<ticking, due>>
  \/ at = "halt" /\ ticking' = FALSE /\ next = last /\ UNCHANGED <<ledTimer, due>>

LedClear(c) ==
  /\ \/ /\ cpc[c] = "idle" /\ ledCalls < MaxCalls /\ ledCalls' = ledCalls + 1
        /\ cpc' = [cpc EXCEPT ![c] = "stop"] /\ UNCHANGED <<ledTimerVars, lightVars>>
     \/ /\ \E next \in {"halt", "write"} : LedStop(cpc[c], next, "write") /\ cpc' = [cpc EXCEPT ![c] = next]
        /\ UNCHANGED <<lightVars, ledCalls>>
     \/ /\ cpc[c] = "write" /\ cpc' = [cpc EXCEPT ![c] = "idle"]
        /\ shortAction' = Nothing /\ continuousAction' = Nothing /\ led' = "off" /\ ledLock' = FALSE
        /\ UNCHANGED <<ledTimerVars, ledCalls, cutShort>>
  /\ UNCHANGED <<ledSem, lpc, doubled>>

-----------------------------------------------------------------------------
(* A step that has a time: the LED is written and the timer started. *)
Lights(color, lock) == led' = color /\ ledLock' = lock /\ lpc' = "start" /\ due' = FALSE

HandleShortAction ==
  /\ shortAction.type # "none" /\ shortAction # [Nothing EXCEPT !.type = "once", !.state = "off"]
  /\ IF shortAction.state = "on" THEN Lights("off", TRUE) ELSE Lights("short", TRUE)
  /\ shortAction' =
       IF shortAction.state = "off" THEN [shortAction EXCEPT !.type = "once", !.state = "on"]
       ELSE [shortAction EXCEPT !.state = IF @ = "on" THEN "off" ELSE "on"]
  /\ UNCHANGED continuousAction

(* The action that has no more steps. *)
Ends == continuousAction' = Nothing /\ UNCHANGED led

HandleContinuousAction ==
  LET a == continuousAction IN
  /\ shortAction \in {Nothing, [Nothing EXCEPT !.type = "once", !.state = "off"]} /\ shortAction' = Nothing
  /\ \/ /\ a.type \in {"none", "solid"} /\ led' = (IF a.type = "solid" THEN "solid" ELSE led)
        /\ continuousAction' = [a EXCEPT !.state = "on"]
        /\ ledLock' = FALSE /\ lpc' = "take" /\ UNCHANGED due
     \/ /\ a.type \in Breathing \/ (a.type \in Blinking /\ a.state = "pending")
        /\ continuousAction' = [a EXCEPT !.state = "on"] /\ Lights(a.type, TRUE)
     \/ /\ a.type \in Blinking /\ a.state = "on"
        /\ continuousAction' = [a EXCEPT !.state = "off"] /\ Lights("off", a.type = "alert")
     \/ /\ a.type \in Blinking /\ a.state = "off"
        /\ IF a.type = "alert" /\ a.loops = 1 THEN Ends /\ ledLock' = FALSE /\ lpc' = "take" /\ UNCHANGED due
           ELSE /\ continuousAction' = [a EXCEPT !.state = "on", !.loops = IF a.type = "alert" THEN @ - 1 ELSE @]
                /\ Lights(a.type, TRUE)

(* The step that the LED is in has begun, and has a time. *)
InStep ==
  IF shortAction.type # "none" THEN shortAction.state # "pending"
  ELSE continuousAction.type \in Blinking \cup Breathing /\ continuousAction.state # "pending"

LedLoop ==
  /\ \/ lpc = "take" /\ ledSem /\ ledSem' = FALSE /\ lpc' = "stop" /\ UNCHANGED <<ledTimerVars, lightVars>>
     \/ LedStop(lpc, lpc', "handle") /\ UNCHANGED <<ledSem, lightVars>>
     \/ /\ lpc = "handle" /\ (HandleShortAction \/ HandleContinuousAction)
        /\ cutShort' = (cutShort \/ (InStep /\ ~due)) /\ UNCHANGED <<ledSem, ledTimer, ticking>>
     \/ /\ lpc = "start" /\ ledTimer' = TRUE /\ lpc' = "arm" /\ UNCHANGED <<ledSem, lightVars, ticking, due>>
     \/ /\ lpc = "arm" /\ ticking' = TRUE /\ lpc' = "take" /\ UNCHANGED <<ledSem, lightVars, ledTimer, due>>
  /\ UNCHANGED <<cpc, ledCalls, doubled>>

(* The timer's interrupt. *)
LedTick ==
  /\ ticking /\ ticking' = FALSE /\ ledTimer' = FALSE /\ due' = TRUE /\ Give
  /\ UNCHANGED <<lightVars, lpc, cpc, ledCalls>>

LedNext == LedSetting \/ (\E c \in Callers : LedClear(c)) \/ LedLoop \/ LedTick

-----------------------------------------------------------------------------
LedTypeOK ==
  /\ led \in {"off", "short", "solid"} \cup Blinking \cup Breathing
  /\ lpc \in {"take", "stop", "halt", "handle", "start", "arm"} /\ cpc \in [Callers -> {"idle", "stop", "halt", "write"}]

Asleep == lpc = "take" /\ ~ledSem /\ ~ticking

(* While the LED has a step to make, something will wake its thread: the   *)
(* semaphore, the timer, or a clear that is about to take the step away,   *)
(* however the calls fall into the thread's turn.                          *)
StepsGoOn ==
  Asleep => \/ \E c \in Callers : cpc[c] \in {"halt", "write"}
            \/ shortAction = Nothing /\ continuousAction \in {Nothing, [Nothing EXCEPT !.type = "solid", !.loops = AlertLoops]}

(* An LED at rest shows its solid color or is dark, and lets the watch     *)
(* sleep: the last of the calls has been carried out, whatever it          *)
(* interrupted.                                                            *)
RestsAsAsked ==
  Asleep /\ (\A c \in Callers : cpc[c] = "idle") =>
    ~ledLock /\ led = (IF continuousAction.type = "solid" THEN "solid" ELSE "off")

(* A step lasts until a timer runs out, unless a call or the timer gave    *)
(* the semaphore when the thread had taken it and not yet looked: that     *)
(* makes a second turn, which ends the step the first began.               *)
StepsLast == cutShort => doubled

LedInv == LedTypeOK /\ StepsGoOn /\ RestsAsAsked /\ StepsLast
==================================================================================
