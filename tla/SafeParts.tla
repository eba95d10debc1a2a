--------------------------------- MODULE SafeParts ---------------------------------
(***************************************************************************)
(* Parts of the firmware that share nothing, side by side: the deadlines   *)
(* of the status service, the battery with the status center and the LVGL  *)
(* thread that sets it to sleep, the robot's camera, the Bluetooth server, *)
(* the buzzer, an LED, the phone's text, and the clock.                    *)
(* A behaviour is one part's, the others stay as they begin; so the states *)
(* are the sum of the parts' states and not their product.                 *)
(***************************************************************************)
EXTENDS StatusTimers, StatusCenter, Feed, GattServer, ChirpSystem,
        LEDController, TextSanitize, Clock

CONSTANT MaxSetSleeps   \* bound of the model: calls of Battery::setSleep

VARIABLES part, calls

timersVars == vars
powerVars  == <<battVars, centerVars, calls>>
partsVars  == <<part, timersVars, powerVars, feedVars, serverVars, soundVars, ledVars, textVars, clockVars>>

PartsInit ==
  /\ part \in {"timers", "power", "camera", "server", "sound", "led", "text", "clock"}
  /\ calls = 0
  /\ Init /\ BattInit /\ CenterInit /\ FeedInit /\ ServerInit /\ SoundInit
  /\ LedInit /\ TextInit /\ ClockInit
  /\ part # "timers" => wait = 0
  /\ part # "power" => ~plugged
  /\ part # "text" => textIn = <<>>

(* Sleep::sleep calls setSleep on its way in and on its way out. *)
BatterySleeps == SetSleep /\ calls < MaxSetSleeps /\ calls' = calls + 1 /\ UNCHANGED centerVars

Power ==
  \/ BatterySleeps
  \/ (Setting \/ BattThread \/ Expires \/ HoldPasses \/ World) /\ UNCHANGED <<calls, centerVars>>
  \/ (MeasureAndPost \/ Handle \/ Notify) /\ UNCHANGED calls

PartsNext ==
  /\ IF part = "timers" THEN Next ELSE UNCHANGED timersVars
  /\ IF part = "power" THEN Power ELSE UNCHANGED powerVars
  /\ IF part = "camera" THEN FeedNext ELSE UNCHANGED feedVars
  /\ IF part = "server" THEN ServerNext ELSE UNCHANGED serverVars
  /\ IF part = "sound" THEN SoundNext ELSE UNCHANGED soundVars
  /\ IF part = "led" THEN LedNext ELSE UNCHANGED ledVars
  /\ IF part = "text" THEN Sanitize ELSE UNCHANGED textVars
  /\ IF part = "clock" THEN ClockNext ELSE UNCHANGED clockVars
  /\ UNCHANGED part

PartsSpec == PartsInit /\ [][PartsNext]_partsVars

-----------------------------------------------------------------------------
(* What the watch sounds and shows of what it was told: a buzzer that is   *)
(* heard and let go, an LED that goes on and comes to rest as asked.       *)
OutputsInv ==
  /\ part = "sound" => SoundInv
  /\ part = "led" => LedInv
=====================================================================================
