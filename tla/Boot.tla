------------------------------------ MODULE Boot ------------------------------------
(***************************************************************************)
(* From power on to the running watch (main.cpp): the bootloader's hook,   *)
(* the factory's hardware test (JigHWTest) that burns the fuses, their     *)
(* check (EfuseMeta), the pins they choose, and the construction of the    *)
(* services, whose threads run as soon as they are there.  Power may go at *)
(* any time, within the burning of the fuses too.                          *)
(***************************************************************************)
EXTENDS Naturals, Sequences, SequencesExt, FiniteSets

CONSTANTS
  MaxBoots,   \* bound of the model: times the watch is powered on
  MaxBroken   \* bound of the model: parts that are broken

ASSUME BootAssumption == MaxBoots \in Nat /\ MaxBroken \in Nat

VARIABLES
  pid, rev,          \* the fuses: sets of bits
  broken, low,       \* external: the parts that are, and whether the cell is empty
  boots, stage,      \* stage: off, check, test, ended, meta, init, running, stuck or shutdown
  step,              \* the next of the tests, or of what is constructed
  ref,               \* the battery's voltage reference is switched on
  hookPins, pins,    \* the revision the hook, and Pins, take the watch for
  made,              \* what init has constructed and registered
  passed,     \* history: the last test passed
  torn,       \* history: power went while the fuses were burnt
  unsound,    \* history: they were burnt in a watch with a broken part
  early       \* history: what a thread used before it was made

fuseVars == <<pid, rev>>
bootVars == <<fuseVars, broken, low, boots, stage, step, ref, hookPins, pins, made,
              passed, torn, unsound, early>>

PID == {0, 1}
HWRevision == {0, 1}

(* Blank, this product in four revisions and one to come, and another.     *)
Shipped == {<<{}, {}>>, <<{1}, {}>>} \cup {<<PID, r>> : r \in {{}, {0}, {1}, HWRevision, {2}}}

Tests == <<"rtc", "time1", "time2", "imu", "imuInterrupt", "spiffs", "battery", "voltRef", "version">>

BootInit ==
  /\ \E f \in Shipped : pid = f[1] /\ rev = f[2]
  /\ broken \in {b \in SUBSET ToSet(Tests) : Cardinality(b) <= MaxBroken} /\ low \in BOOLEAN
  /\ boots = 0 /\ stage = "off" /\ step = 1 /\ ref = FALSE
  /\ hookPins = "none" /\ pins = "none" /\ made = {}
  /\ passed = FALSE /\ torn = FALSE /\ unsound = FALSE /\ early = {}

-----------------------------------------------------------------------------
(* The hook takes what it does not know for the first revision. *)
Hook == IF pid = {} /\ rev = {} THEN "Revision2" ELSE IF rev = {1} THEN "Revision2" ELSE "Revision1"

PowerOn ==
  /\ stage = "off" /\ boots < MaxBoots /\ boots' = boots + 1
  /\ stage' = "check" /\ hookPins' = Hook
  /\ UNCHANGED <<fuseVars, broken, low, step, ref, pins, made, passed, torn, unsound, early>>

Off == stage' = "off" /\ step' = 1 /\ ref' = FALSE /\ hookPins' = "none" /\ pins' = "none" /\ made' = {}

(* Meanwhile the cell may run low or be charged, and what is broken be mended. *)
PowerOff ==
  /\ stage # "off" /\ Off
  /\ low' \in BOOLEAN /\ broken' \in SUBSET broken
  /\ UNCHANGED <<fuseVars, boots, passed, torn, unsound, early>>

(* checkJig: the jig is heard or is not. *)
CheckJig ==
  /\ stage = "check"
  /\ \/ stage' = "test" /\ pins' = "Revision2" /\ passed' = FALSE
     \/ stage' = "meta" /\ UNCHANGED <<pins, passed>>
  /\ UNCHANGED <<fuseVars, broken, low, boots, step, ref, hookPins, made, torn, unsound, early>>

-----------------------------------------------------------------------------
(* A check of the hardware fails if its part is broken. *)
Passes(t) == t \notin broken

(* The reference is on for its own check, and only a success turns it off. *)
Reference(t) == IF t = "battery" THEN FALSE ELSE IF t = "voltRef" THEN ~Passes(t) ELSE ref

(* onFail. *)
OnFail(t, on) == IF t = "voltRef" THEN FALSE ELSE on

(* The first check that fails ends the test. *)
Fails(t) == stage' = "ended" /\ ref' = OnFail(t, Reference(t)) /\ UNCHANGED <<step, passed>>

Goes(t) ==
  /\ ref' = Reference(t)
  /\ IF step = Len(Tests) THEN stage' = "ended" /\ passed' = TRUE /\ UNCHANGED step
                          ELSE step' = step + 1 /\ UNCHANGED <<stage, passed>>

RunTest ==
  LET t == Tests[step] IN
  /\ stage = "test" /\ t # "version"
  /\ IF Passes(t) THEN Goes(t) ELSE Fails(t)
  /\ UNCHANGED <<fuseVars, broken, low, boots, hookPins, pins, made, torn, unsound, early>>

(* EfuseMeta::write: a batch; a bit that is burnt already is refused. *)
Writable == PID \cap pid = {} /\ HWRevision \cap rev = {}

(* HWVersion: what is there must be this product's. *)
HWVersion ==
  LET foreign == (pid \notin {{}, PID}) \/ (rev \notin {{}, HWRevision})
      burns   == Passes("version") /\ ~foreign /\ rev = {} /\ Writable IN
  /\ stage = "test" /\ Tests[step] = "version"
  /\ IF burns THEN pid' = PID /\ rev' = HWRevision ELSE UNCHANGED fuseVars
  /\ unsound' = (unsound \/ (burns /\ broken # {}))
  /\ IF burns \/ (Passes("version") /\ ~foreign /\ rev # {}) THEN Goes("version") ELSE Fails("version")
  /\ UNCHANGED <<broken, low, boots, hookPins, pins, made, torn, early>>

(* Power goes within the commit: some of the bits are burnt. *)
TornCommit ==
  /\ stage = "test" /\ Tests[step] = "version" /\ Passes("version") /\ pid = {} /\ rev = {}
  /\ pid' \in SUBSET PID /\ rev' \in SUBSET HWRevision /\ torn' = TRUE
  /\ Off /\ UNCHANGED <<broken, low, boots, passed, unsound, early>>

-----------------------------------------------------------------------------
(* EfuseMeta::check compares the product only. *)
CheckMeta ==
  /\ stage = "meta" /\ stage' = (IF pid = PID /\ Passes("version") THEN "init" ELSE "stuck")
  /\ UNCHANGED <<fuseVars, broken, low, boots, step, ref, hookPins, pins, made, passed, torn, unsound, early>>

RevisionPins == IF rev \in {{}, {0}} THEN "Revision1" ELSE IF rev \in {{1}, {0, 1}} THEN "Revision2" ELSE "none"

(* What init constructs, in its order, and what each needs: to be built or *)
(* for what its thread, once it runs, may be asked to do.                  *)
Services ==
  <<"backlight", "audio", "imu", "display", "input", "lvgl", "lvglInput", "sleep", "status", "batteryObject", "battery", "time",
    "phoneObject", "phone", "boxStatus", "lvglThread", "batteryThread">>

BuildNeeds(s) ==
  CASE s = "sleep" -> {"lvgl", "imu", "backlight"}
    [] s = "status" -> {"audio"}
    [] s = "lvgl" -> {"display"}
    [] s = "lvglInput" -> {"lvgl"}
    [] s = "batteryObject" -> {"sleep"} \cup (IF low THEN {"lvgl", "backlight"} ELSE {})
    [] s = "lvglThread" -> {"status"}
    [] OTHER -> {}

(* A thread that runs, and what it may use: a tilt of the wrist, a         *)
(* notification, the phone's clock, a screen with the watch's sleep, an    *)
(* empty cell.                                                             *)
Uses ==
  {<<"imu", "sleep">>, <<"phoneObject", "phone">>, <<"phoneObject", "time">>} \cup
  {<<"lvglThread", s>> : s \in {"sleep", "input", "time", "battery", "backlight", "phone", "boxStatus", "status", "audio", "imu"}} \cup
  {<<"batteryThread", s>> : s \in {"lvgl", "lvglThread", "sleep", "backlight"}}

Construct ==
  LET s == Services[step] IN
  /\ stage = "init" /\ pins' = RevisionPins
  /\ made' = made \cup {s} /\ step' = step + 1
  /\ early' = early \cup {<<s, n>> : n \in BuildNeeds(s) \ made}
  /\ stage' = CASE pins' = "none" -> "stuck"
               [] pins' # "none" /\ s = "batteryObject" /\ low -> "shutdown"
               [] OTHER -> IF step = Len(Services) THEN "running" ELSE "init"
  /\ UNCHANGED <<fuseVars, broken, low, boots, ref, hookPins, passed, torn, unsound>>

(* What a thread asks for is not there: the watch restarts. *)
UsesEarly ==
  /\ stage \in {"init", "running"}
  /\ \E u \in Uses : /\ u[1] \in made /\ u[2] \notin made
                     /\ Off /\ early' = early \cup {u}
  /\ UNCHANGED <<fuseVars, broken, low, boots, passed, torn, unsound>>

BootNext ==
  \/ PowerOn \/ PowerOff \/ CheckJig \/ RunTest \/ HWVersion \/ TornCommit
  \/ CheckMeta \/ Construct \/ UsesEarly

BootSpec == BootInit /\ [][BootNext]_bootVars

-----------------------------------------------------------------------------
BootTypeOK ==
  /\ pid \subseteq 0..1 /\ rev \subseteq 0..2
  /\ broken \subseteq ToSet(Tests) /\ low \in BOOLEAN /\ boots \in 0..MaxBoots
  /\ stage \in {"off", "check", "test", "ended", "meta", "init", "running", "stuck", "shutdown"}
  /\ step \in 1..(Len(Services) + 1) /\ ref \in BOOLEAN
  /\ hookPins \in {"none", "Revision1", "Revision2"} /\ pins \in {"none", "Revision1", "Revision2"}
  /\ made \subseteq ToSet(Services)
  /\ passed \in BOOLEAN /\ torn \in BOOLEAN /\ unsound \in BOOLEAN

(* A watch the factory has passed comes up, with the pins of the board     *)
(* that was tested.  Not if power went while its fuses were burnt: a       *)
(* revision without its product reads as done and is passed, and then      *)
(* init refuses to start (JigHWTest.cpp 638, main.cpp 109).                *)
PassedBoots == passed /\ ~torn => stage # "stuck" /\ (stage = "running" => pins = "Revision2")

(* No watch with a broken part is given the fuses of a good one. *)
FusedIsSound == ~unsound

(* Whichever test fails, the reference does not stay on to drain the cell. *)
RefOff == stage = "ended" => ~ref

(* init makes what its threads use before the threads run, but for two     *)
(* gaps of a few statements: the IMU's thread may report a tilt before     *)
(* there is a SleepMan, and StatusCenter look for the notification of a    *)
(* Phone that is not a service yet.                                        *)
NothingEarly == early \subseteq {<<"imu", "sleep">>, <<"phoneObject", "phone">>}

(* Of every boot: the types, a passed watch that starts, sound parts       *)
(* behind the fuses, the reference off, nothing used before it is there.   *)
BootInv == BootTypeOK /\ PassedBoots /\ FusedIsSound /\ RefOff /\ NothingEarly

(* hooks.c 62-63 warns that a watch whose Pwdn is pulled low is lost, so   *)
(* the hook frees that pin; the board it takes the watch for must be the   *)
(* one whose pins the firmware then uses, "For Bit v3" (Pins.hpp).  It     *)
(* does not know revision 3, the one EfuseMeta burns.                      *)
HookAgrees == stage = "running" => hookPins = pins
=====================================================================================
