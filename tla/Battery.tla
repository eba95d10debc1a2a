-------------------------------- MODULE Battery --------------------------------
(***************************************************************************)
(* The battery (Devices/Battery, BatteryV3): a thread that waits for a     *)
(* semaphore, given by a timer's interrupt, by the interrupt of the USB    *)
(* pin and by setSleep, which the LVGL thread calls when the watch goes to *)
(* sleep and wakes.  The thread measures with a mutex held and starts the  *)
(* timer anew; setSleep stops the timer before it takes the mutex.  A      *)
(* statement of Timer (Periph/Timer) is a step of its own, an interrupt    *)
(* one step.                                                               *)
(***************************************************************************)
EXTENDS Naturals, Sequences

CONSTANT MaxWorld   \* bound of the model: changes of the charger and the cell

ASSUME BatteryAssumption == MaxWorld \in Nat

VARIABLES
  bpc,         \* the Battery thread: its next step, or "off"
  setpc,       \* the LVGL thread: its next step in setSleep, or "no"
  sem,         \* Battery::sem: TRUE when it can be taken
  tstate, armed,   \* the Timer's state; the esp_timer: its period, or "no"
  asleep,      \* Battery::sleep
  charge,      \* chargeHyst.get(), and lastCharging
  pending, held,   \* chargeHyst's pendingVal, or "none"; holdTime has passed since
  level, isShutdown,
  raced,       \* history: the timer that runs was started while being stopped
  plugged, full, cell,   \* external: the charger, its verdict, the cell
  world

timerVars == <<tstate, armed, raced>>
chargeVars == <<charge, pending, held>>
worldVars  == <<plugged, full, cell, world>>
battVars   == <<bpc, setpc, sem, timerVars, asleep, chargeVars, level, isShutdown, worldVars>>

Charging == {"Unplugged", "Charging", "Full"}
Level    == {"Critical", "VeryLow", "Low"}   \* Low, and all above it

BattTypeOK ==
  /\ bpc \in {"take", "halt", "measure", "start", "arm", "off"}
  /\ setpc \in {"no", "reconf", "stop", "halt", "lock"}
  /\ sem \in BOOLEAN /\ asleep \in BOOLEAN
  /\ tstate \in {"Running", "Stopped"}
  /\ armed \in {"no", "short", "long"}
  /\ charge \in Charging /\ pending \in Charging \cup {"none"} /\ held \in BOOLEAN
  /\ level \in Level /\ isShutdown \in BOOLEAN /\ raced \in BOOLEAN
  /\ plugged \in BOOLEAN /\ full \in BOOLEAN /\ cell \in Level /\ world \in 0..MaxWorld

Locked == bpc \in {"start", "arm", "off"}

Pins == IF ~plugged THEN "Unplugged" ELSE IF full THEN "Full" ELSE "Charging"

(* BatteryV3's constructor, and begin. *)
BattInit ==
  /\ bpc = "take" /\ setpc = "no" /\ sem = FALSE
  /\ tstate = "Running" /\ armed = "short" /\ asleep = FALSE
  /\ plugged \in BOOLEAN /\ full = FALSE /\ cell = "Low" /\ world = 0
  /\ charge = Pins /\ pending = "none" /\ held = FALSE
  /\ level = "Low" /\ isShutdown = FALSE /\ raced = FALSE

-----------------------------------------------------------------------------
(* The thread.                                                             *)

Thread == UNCHANGED <<setpc, asleep, worldVars>>

(* The semaphore is taken and the timer stopped; nothing is done to one    *)
(* that is stopped already.                                                *)
Take ==
  /\ bpc = "take" /\ sem /\ sem' = FALSE
  /\ bpc' = IF tstate = "Stopped" THEN "measure" ELSE "halt"
  /\ tstate' = "Stopped"
  /\ Thread /\ UNCHANGED <<armed, raced, chargeVars, level, isShutdown>>

Halt ==
  /\ bpc = "halt" /\ bpc' = "measure" /\ armed' = "no" /\ raced' = FALSE
  /\ Thread /\ UNCHANGED <<sem, tstate, chargeVars, level, isShutdown>>

(* TimeHysteresis::update: a value counts when it has stayed holdTime.     *)
(* (That the present value is pending is as good as that none is.)         *)
Update(v) ==
  IF v = charge THEN pending' = "none" /\ held' = FALSE /\ UNCHANGED charge
  ELSE IF pending # v THEN pending' = v /\ held' = FALSE /\ UNCHANGED charge
  ELSE IF held THEN charge' = v /\ pending' = "none" /\ held' = FALSE
  ELSE UNCHANGED chargeVars

(* Full stays Full while plugged. *)
CheckCharging == Update(IF plugged /\ charge = "Full" THEN "Full" ELSE Pins)

(* What a reader yields that LVGL replaces meanwhile nobody knows. *)
Readings == IF setpc = "reconf" THEN Level ELSE {cell}

Measures ==
  IF charge' # "Unplugged" THEN UNCHANGED <<level, isShutdown>> ELSE
  /\ level' \in Readings
  /\ isShutdown' = (level' = "Critical")

(* What is posted, a LevelChange as its level, a Charging event as its     *)
(* state: a change of the charging by checkCharging, after a fresh sample; *)
(* then what loop samples, afresh in sleep.                                *)
Posts ==
  LET changed == charge' # charge
      sampled == charge' = "Unplugged"
      first   == IF sampled /\ changed THEN <<level'>> ELSE <<>>
      second  == IF sampled /\ (asleep \/ (~changed /\ level' # level)) THEN <<level'>> ELSE <<>>
  IN  IF isShutdown' THEN <<level'>>
      ELSE first \o (IF changed THEN <<charge'>> ELSE <<>>) \o second

(* The mutex is taken, until the timer is started. *)
Measure ==
  /\ bpc = "measure"
  /\ CheckCharging /\ Measures
  /\ bpc' = IF isShutdown' THEN "off" ELSE "start"
  /\ Thread /\ UNCHANGED <<sem, timerVars>>

Right == IF charge # "Unplugged" \/ ~asleep THEN "short" ELSE "long"

(* startTimer: the timer was stopped before the mutex was taken; its       *)
(* period is set, its state, and then the esp_timer is started, which one  *)
(* that runs is not.                                                       *)
StartTimer ==
  /\ bpc = "start" /\ bpc' = "arm"
  /\ tstate' = "Running"
  /\ Thread /\ UNCHANGED <<sem, armed, raced, chargeVars, level, isShutdown>>

Arm ==
  /\ bpc = "arm" /\ bpc' = "take"
  /\ armed' = IF armed = "no" THEN Right ELSE armed
  /\ raced' = IF armed = "no" THEN tstate = "Stopped" ELSE raced
  /\ Thread /\ UNCHANGED <<sem, tstate, chargeVars, level, isShutdown>>

BattThread == Take \/ Halt \/ StartTimer \/ Arm

-----------------------------------------------------------------------------
(* setSleep, in the LVGL thread.                                           *)

Caller == UNCHANGED <<bpc, chargeVars, level, isShutdown, worldVars>>

(* The wake reconfigures the reader, without the mutex. *)
SetSleep ==
  /\ setpc = "no" /\ setpc' = (IF asleep THEN "reconf" ELSE "stop")
  /\ Caller /\ UNCHANGED <<sem, tstate, armed, raced, asleep>>

SetReconf ==
  /\ setpc = "reconf" /\ setpc' = "stop"
  /\ Caller /\ UNCHANGED <<sem, tstate, armed, raced, asleep>>

SetStop ==
  /\ setpc = "stop" /\ setpc' = (IF tstate = "Stopped" THEN "lock" ELSE "halt")
  /\ tstate' = "Stopped"
  /\ Caller /\ UNCHANGED <<sem, armed, raced, asleep>>

SetHalt ==
  /\ setpc = "halt" /\ setpc' = "lock" /\ armed' = "no" /\ raced' = FALSE
  /\ Caller /\ UNCHANGED <<sem, tstate, asleep>>

(* mutant: the thread is not called *)
SetFlag_Silent ==
  /\ setpc = "lock" /\ ~Locked /\ setpc' = "no"
  /\ asleep' = ~asleep /\ UNCHANGED sem
  /\ Caller /\ UNCHANGED <<tstate, armed, raced>>

SetFlag ==
  /\ setpc = "lock" /\ ~Locked /\ setpc' = "no"
  /\ asleep' = ~asleep /\ sem' = TRUE
  /\ Caller /\ UNCHANGED <<tstate, armed, raced>>

Setting == SetReconf \/ SetStop \/ SetHalt \/ SetFlag

-----------------------------------------------------------------------------
(* The interrupts, time, and the world.                                    *)

Expires ==
  /\ armed # "no" /\ armed' = "no" /\ tstate' = "Stopped" /\ sem' = TRUE /\ raced' = FALSE
  /\ UNCHANGED <<bpc, setpc, asleep, chargeVars, level, isShutdown, worldVars>>

HoldPasses ==
  /\ pending # "none" /\ ~held /\ held' = TRUE
  /\ UNCHANGED <<bpc, setpc, sem, timerVars, asleep, charge, pending, level, isShutdown, worldVars>>

(* The charger comes, with an interrupt, goes, or has filled the cell; the *)
(* cell drains, or fills.                                                  *)
World ==
  /\ world < MaxWorld /\ world' = world + 1
  /\ \/ plugged' = ~plugged /\ full' = FALSE /\ sem' = (sem \/ plugged') /\ UNCHANGED cell
     \/ plugged /\ full' = ~full /\ UNCHANGED <<plugged, cell, sem>>
     \/ cell' \in Level \ {cell} /\ UNCHANGED <<plugged, full, sem>>
  /\ UNCHANGED <<bpc, setpc, timerVars, asleep, chargeVars, level, isShutdown>>

BattNext == SetSleep \/ Setting \/ BattThread \/ Measure \/ Expires \/ HoldPasses \/ World

BattSpec == BattInit /\ [][BattNext]_battVars

-----------------------------------------------------------------------------
(* A thread that waits is called: by the semaphore given already, by a     *)
(* timer that runs, or by setSleep, which has stopped the timer and not    *)
(* yet given the semaphore.  And the timer's period fits, unless a stop    *)
(* fell between the two statements of the start (Timer.cpp 23-27).         *)
CalledInTime ==
  bpc = "take" =>
    \/ sem \/ setpc \in {"halt", "lock"}
    \/ armed # "no" /\ (armed = Right \/ raced)

(* The types, and the thread called in time. *)
BattInv == BattTypeOK /\ CalledInTime
================================================================================
