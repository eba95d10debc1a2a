-------------------------------- MODULE ScreenParts --------------------------------
(***************************************************************************)
(* What LVGL's thread runs, side by side: the lock and the call screen in  *)
(* front of the phone's store, the status screens and the network test,    *)
(* the game with its popups, the settings, and the dice.  A behaviour is   *)
(* one part's, the others stay as they begin; so the states are the sum of *)
(* the parts' states and not their product.  The phone's part keeps its    *)
(* fairness: in the other parts none of the steps it is about is ever      *)
(* enabled.                                                                *)
(***************************************************************************)
EXTENDS PhoneScreens, StatusScreens, LunarLander, SettingsScreen, DiceScreen

VARIABLE part

phoneVars   == vars
screensVars == <<part, phoneVars, viewVars, landerVars, settingsVars, diceVars>>

(* Noon of a leap day, and the first hour of the last day of a long month. *)
ClockTimes ==
  {[hour |-> 12, day |-> 29, month |-> 1, year |-> 2024], [hour |-> 0, day |-> 31, month |-> 0, year |-> 2023]}

ScreensInit ==
  /\ part \in {"phone", "views", "lander", "settings", "dice"}
  /\ Init /\ ViewInit /\ LanderInit /\ SettingsInit /\ DiceInit
  /\ part # "dice" => \A i \in 1 .. MaxDice : dice[i] = 1
  /\ part # "settings" => nvs.sounds /\ nvs.rotate /\ nvs.h24 /\ now.hour = 0

ScreensNext ==
  /\ IF part = "phone" THEN Next ELSE UNCHANGED phoneVars
  /\ IF part = "views" THEN ViewNext ELSE UNCHANGED viewVars
  /\ IF part = "lander" THEN LanderNext ELSE UNCHANGED landerVars
  /\ IF part = "settings" THEN SettingsNext ELSE UNCHANGED settingsVars
  /\ IF part = "dice" THEN DiceNext ELSE UNCHANGED diceVars
  /\ UNCHANGED part

ScreensSpec == ScreensInit /\ [][ScreensNext]_screensVars /\ Fairness

-----------------------------------------------------------------------------
(* Every screen but the phone's: the status screens show the latest data,  *)
(* a popup of the game is answered by a press that was meant for it, off   *)
(* the settings the watch, its memory and its flash agree, and a shake     *)
(* rolls once.                                                             *)
ScreensInv ==
  /\ part = "views" => ViewInv
  /\ part = "lander" => LanderInv
  /\ part = "settings" => SettingsInv
  /\ part = "dice" => DiceInv
====================================================================================
