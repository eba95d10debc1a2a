------------------------------- MODULE SettingsScreen -------------------------------
(***************************************************************************)
(* The settings (Screens/Settings and Settings/): what the screen's        *)
(* elements hold, what the callbacks change at once in memory and in the   *)
(* hardware, and what leaving the screen writes; and the picker of time    *)
(* and date.  All of it is in LVGL's thread.  Left out: look, themes, date    *)
(* format, sleep time, minutes and seconds, which are kept like the rest.  *)
(***************************************************************************)
EXTENDS Naturals

CONSTANTS
  Times,       \* what the clock may show when the picker is opened
  MaxTouches   \* bound of the model: clicks and turns in a visit of the screen

VARIABLES
  ram, nvs,      \* the settings in memory and in flash
  watch,         \* the hardware and what the other components were told
  elements,      \* what the screen's elements hold, or NoElements
  picker,        \* TimePickerModal, or NoPicker
  shouldTransition,
  now, touches,
  switched,      \* history: the switches turned an odd number of times in this visit
  picked,        \* history: the time when the picker was opened, and whether it was touched
  leftInverted   \* history: the picker was closed, or its field left by a long press,
                 \* while the field inverted the keys

settingsVars == <<ram, nvs, watch, elements, picker, shouldTransition, now, touches, switched,
                  picked, leftInverted>>

Switches == {"sounds", "led", "motion", "rotate", "h24"}
Brightness == {40, 100}

NoElements == [sounds |-> FALSE, led |-> FALSE, motion |-> FALSE, rotate |-> FALSE, h24 |-> FALSE, bright |-> 0]

NoPicker ==
  [hour |-> 0, pm |-> FALSE, day |-> 0, month |-> 0, year |-> 0, h24 |-> FALSE, editing |-> "none", inversion |-> FALSE]

(* What boot makes of the settings it finds. *)
Applied(s) ==
  [bright |-> s.bright, tilt |-> s.motion, rotated |-> s.rotate, inverted |-> s.rotate,
   faceUp |-> s.rotate, led |-> s.led, quiet |-> FALSE]

SettingsInit ==
  /\ \E sounds, rotate, h24 \in BOOLEAN :
       nvs = [sounds |-> sounds, led |-> ~sounds, motion |-> ~sounds, rotate |-> rotate, h24 |-> h24, bright |-> 100]
  /\ ram = nvs /\ watch = Applied(nvs)
  /\ elements = NoElements /\ picker = NoPicker /\ shouldTransition = FALSE
  /\ now \in Times /\ touches = 0 /\ switched = {} /\ picked = [time |-> now, touched |-> FALSE] /\ leftInverted = FALSE

-----------------------------------------------------------------------------
(* The constructor gives two switches another's value, onStarting sets     *)
(* them right; onStart follows as the screen is loaded.                    *)
BuildUI == [ram EXCEPT !.led = ram.sounds, !.motion = ram.sounds]

OnStarting(built) ==
  [built EXCEPT !.bright = ram.bright, !.sounds = ram.sounds, !.led = ram.led,
                !.motion = ram.motion, !.rotate = ram.rotate]

Open ==
  /\ elements = NoElements /\ touches < MaxTouches
  /\ elements' = OnStarting(BuildUI) /\ shouldTransition' = FALSE
  /\ watch' = [watch EXCEPT !.quiet = TRUE]
  /\ UNCHANGED <<switched, ram, nvs, picker, now, touches, picked, leftInverted>>

Touch == touches < MaxTouches /\ touches' = touches + 1

Clickable == elements # NoElements /\ picker = NoPicker

(* A switch is turned, and its callback runs; that of the left-hand mode   *)
(* writes another's setting.                                               *)
Switch(s) ==
  LET value == ~elements[s] IN
  /\ Clickable /\ Touch
  /\ elements' = [elements EXCEPT ![s] = value]
  /\ ram' = CASE s = "sounds" -> ram
              [] s = "rotate" -> [ram EXCEPT !.motion = value]
              [] OTHER -> [ram EXCEPT ![s] = value]
  /\ watch' = CASE s = "led" -> [watch EXCEPT !.led = value]
                [] s = "rotate" -> [watch EXCEPT !.rotated = value, !.inverted = value]
                [] OTHER -> watch
  /\ switched' = IF s \in switched THEN switched \ {s} ELSE switched \cup {s}
  /\ leftInverted' = (leftInverted /\ s # "rotate")
  /\ UNCHANGED <<nvs, picker, shouldTransition, now, picked>>

Slide ==
  /\ Clickable /\ Touch
  /\ \E v \in Brightness : elements' = [elements EXCEPT !.bright = v] /\ watch' = [watch EXCEPT !.bright = v]
  /\ UNCHANGED <<switched, ram, nvs, picker, shouldTransition, now, picked, leftInverted>>

SaveAndExit ==
  /\ Clickable /\ shouldTransition' = TRUE
  /\ UNCHANGED <<switched, ram, nvs, watch, elements, picker, now, touches, picked, leftInverted>>

-----------------------------------------------------------------------------
(* TimePickerModal. *)
Leap(y) == (y % 4 = 0 /\ y % 100 # 0) \/ y % 400 = 0

DaysInMonth == <<31, 28, 31, 30, 31, 30, 31, 31, 30, 31, 30, 31>>

DaysLimit(m, y) == IF m = 1 /\ Leap(y) THEN 29 ELSE DaysInMonth[m + 1]

(* A day past the new limit becomes the limit. *)
SetDateLimits(p) ==
  LET limit == DaysLimit(p.month, p.year) IN [p EXCEPT !.day = IF @ > limit THEN limit ELSE @]

Years == 1900 .. 9999

(* The clock runs through dates that exist, of years the picker has.       *)
ASSUME SettingsAssumption ==
  /\ MaxTouches \in Nat
  /\ \A t \in Times : /\ t \in [hour : 0 .. 23, day : 1 .. 31, month : 0 .. 11, year : Years]
                      /\ t.day <= DaysLimit(t.month, t.year)

PickTime ==
  LET hh == now.hour % 12 IN
  /\ Clickable /\ Touch
  /\ picker' = SetDateLimits(
       [hour |-> IF ram.h24 THEN now.hour ELSE IF hh = 0 THEN 12 ELSE hh,
        pm |-> ~ram.h24 /\ now.hour >= 12, day |-> now.day, month |-> now.month, year |-> now.year,
        h24 |-> ram.h24, editing |-> "none", inversion |-> watch.inverted])
  /\ picked' = [time |-> now, touched |-> FALSE]
  /\ UNCHANGED <<switched, ram, nvs, watch, elements, shouldTransition, now, leftInverted>>

(* What the fields may be turned to, thinned out to what differs. *)
FieldRange(field) ==
  CASE field = "hour" -> IF picker.h24 THEN {0, 1, 12, 23} ELSE {1, 11, 12}
    [] field = "day" -> {1, 28, 29, 30, 31} \cap (1 .. DaysLimit(picker.month, picker.year))
    [] field = "year" -> {1900, 2000, 2023, 2024}

(* Enter on a field of digits: Up and Down count it, the other way round   *)
(* than they go through the fields.                                        *)
Edit(field) ==
  /\ picker # NoPicker /\ picker.editing = "none"
  /\ picker' = [picker EXCEPT !.editing = field]
  /\ watch' = [watch EXCEPT !.inverted = ~picker.inversion]
  /\ UNCHANGED <<switched, ram, nvs, elements, shouldTransition, now, touches, picked, leftInverted>>

Turn ==
  /\ picker # NoPicker /\ picker.editing # "none" /\ Touch
  /\ \E v \in FieldRange(picker.editing) :
       LET p == [picker EXCEPT ![picker.editing] = v] IN
       picker' = IF picker.editing = "year" THEN SetDateLimits(p) ELSE p
  /\ picked' = [picked EXCEPT !.touched = TRUE]
  /\ UNCHANGED <<switched, ram, nvs, watch, elements, shouldTransition, now, leftInverted>>

(* Enter again ends it; so does, in LVGL, a long press, with no key sent. *)
EndEdit ==
  /\ picker # NoPicker /\ picker.editing # "none"
  /\ picker' = [picker EXCEPT !.editing = "none"]
  /\ \/ watch' = [watch EXCEPT !.inverted = picker.inversion] /\ UNCHANGED leftInverted
     \/ leftInverted' = TRUE /\ UNCHANGED watch
  /\ UNCHANGED <<switched, ram, nvs, elements, shouldTransition, now, touches, picked>>

(* The two rollers change when Enter confirms them. *)
Roll ==
  /\ picker # NoPicker /\ picker.editing = "none" /\ Touch
  /\ \/ \E m \in {0, 1, 3} : picker' = SetDateLimits([picker EXCEPT !.month = m])
     \/ ~picker.h24 /\ picker' = [picker EXCEPT !.pm = ~@]
  /\ picked' = [picked EXCEPT !.touched = TRUE]
  /\ UNCHANGED <<switched, ram, nvs, watch, elements, shouldTransition, now, leftInverted>>

SaveTime ==
  /\ picker # NoPicker /\ picker.editing = "none" /\ picker' = NoPicker
  /\ now' = [hour |-> IF picker.h24 THEN picker.hour ELSE (picker.hour % 12) + (IF picker.pm THEN 12 ELSE 0),
             day |-> picker.day, month |-> picker.month, year |-> picker.year]
  /\ UNCHANGED <<switched, ram, nvs, watch, elements, shouldTransition, touches, picked, leftInverted>>

(* Alt with the picker open, in loop. *)
ClosePicker ==
  /\ picker # NoPicker /\ picker' = NoPicker
  /\ leftInverted' = (leftInverted \/ picker.editing # "none")
  /\ UNCHANGED <<switched, ram, nvs, watch, elements, shouldTransition, now, touches, picked>>

-----------------------------------------------------------------------------
(* onStop: "Save and Exit" or Alt in the loop, the menu is next; or the    *)
(* watch goes to sleep.                                                    *)
OnStop ==
  /\ elements # NoElements
  /\ ram' = elements /\ nvs' = ram'
  /\ watch' = [bright |-> elements.bright, tilt |-> elements.motion, rotated |-> elements.rotate,
               inverted |-> elements.rotate, faceUp |-> elements.rotate, led |-> elements.led, quiet |-> FALSE]
  /\ elements' = NoElements /\ picker' = NoPicker /\ shouldTransition' = FALSE
  /\ leftInverted' = FALSE /\ switched' = {} /\ UNCHANGED <<now, touches, picked>>

(* The battery is empty or taken out: memory is lost, flash is read again. *)
Restart ==
  /\ ram' = nvs /\ watch' = Applied(nvs) /\ elements' = NoElements /\ picker' = NoPicker /\ shouldTransition' = FALSE
  /\ leftInverted' = FALSE /\ switched' = {} /\ UNCHANGED <<nvs, now, touches, picked>>

SettingsNext ==
  \/ Open \/ (\E s \in Switches : Switch(s)) \/ Slide \/ SaveAndExit
  \/ PickTime \/ (\E f \in {"hour", "day", "year"} : Edit(f)) \/ Turn \/ EndEdit \/ Roll \/ SaveTime \/ ClosePicker
  \/ OnStop \/ Restart

-----------------------------------------------------------------------------
SettingsTypeOK ==
  /\ \A s \in Switches : ram[s] \in BOOLEAN /\ nvs[s] \in BOOLEAN
  /\ ram.bright \in Brightness /\ now.month \in 0 .. 11

(* Whatever was switched, slid and left half edited: off the screen the    *)
(* flash, the memory and the hardware say the same, and sounds are not     *)
(* held back.                                                              *)
SettingsTake == elements = NoElements => ram = nvs /\ watch = Applied(ram)

(* The screen shows the settings as they were found but for the switches   *)
(* turned: leaving it writes no other.                                     *)
OthersStay == elements # NoElements => \A s \in Switches : elements[s] # nvs[s] <=> s \in switched

(* Up and Down go the way the screen is turned, and the other way only     *)
(* while a field is edited, or was left as it was, until the screen is.    *)
KeysFollow ==
  (watch.inverted <=> watch.rotated) \/ leftInverted \/ (picker # NoPicker /\ picker.editing # "none")

(* Every fourth year is a leap year, and every fourth century.             *)
LongFebruary(y) == IF y % 100 = 0 THEN (y \div 100) % 4 = 0 ELSE y % 4 = 0

(* The picker sets dates that exist, and opened and saved again it changes *)
(* nothing, in either format of the hours.                                 *)
TimeStands ==
  /\ now.day <= (CASE now.month = 1 -> IF LongFebruary(now.year) THEN 29 ELSE 28
                   [] now.month \in {3, 5, 8, 10} -> 30 [] OTHER -> 31)
  /\ ~picked.touched => now = picked.time

SettingsInv == SettingsTypeOK /\ SettingsTake /\ OthersStay /\ KeysFollow /\ TimeStands
====================================================================================
