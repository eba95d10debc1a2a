------------------------------- MODULE SleepMan -------------------------------
(***************************************************************************)
(* Going to sleep and waking (Services/SleepMan and Services/Sleep).  The  *)
(* LVGL thread runs goSleep and blocks in it on wakeSem.  It is woken by   *)
(* the interrupt of the Alt button, by the IMU thread when the wrist is    *)
(* lifted, and by the Battery thread when the battery is critical, which   *)
(* then shows the shutdown screen itself and turns the watch off.  The IMU *)
(* reports one direction of tilt at a time: while awake the wrist being    *)
(* lowered, asleep its being lifted, unless the watch fell asleep lifted   *)
(* or woke lowered, when the opposite movement has to come first.          *)
(* Motion detection is enabled.  LVGL, IMU and Battery steps interleave.   *)
(***************************************************************************)
EXTENDS Naturals, Sequences

CONSTANTS
  MaxSleeps,  \* bound of the model: sleeps
  MaxMoves,   \* bound of the model: movements of the wrist
  MaxPresses, \* bound of the model: presses of Alt while awake or asleep
  QueueLen    \* bound of the model: the 12 places of SleepMan's queue

ASSUME SleepManAssumption == {MaxSleeps, MaxMoves, MaxPresses, QueueLen} \subseteq Nat

VARIABLES
  pc,            \* the LVGL thread: "run", or the next step of goSleep
  imuPc,         \* the IMU thread: "idle", or the next step of imuSignal
  battPc,        \* the Battery thread: "idle", or the next step of shutdown
  mut,           \* Battery::mut: its owner
  isShutdown,    \* Battery::shutdown
  inSleep, nsBlocked, waitForLower, waitForLift,  \* SleepMan's
  lowered,       \* buttonWakeWhileLowered
  direction,     \* what the LVGL thread is about to pass to setTiltDirection
  wakeSem,       \* Sleep::wakeSem: TRUE when it can be taken
  isr,           \* the interrupt handler of the button is installed
  tilt,          \* IMU::tiltDirection
  moved,         \* the IMU's latched tilt, unread
  wrist,         \* where the wrist is
  screen,        \* the screen shown
  queue,         \* SleepMan's events, each with the sleeps before it
  sleeps, moves, presses,
  asked,         \* history: a wake was asked for since inSleep was set
  spare,         \* history: a thread was let into wake, and could still give
                 \*   the semaphore, after the sleep had been woken from
  crossed,       \* history: imuSignal changed the tilt while goSleep did
  overlapped     \* history: the battery got critical while the home screen
                 \*   was being started

battVars == <<battPc, mut, isShutdown>>
flagVars == <<inSleep, nsBlocked, waitForLower, waitForLift, lowered, direction>>
semVars  == <<wakeSem, isr>>
imuVars  == <<imuPc, tilt, moved, wrist>>
bounds   == <<sleeps, moves, presses>>
history  == <<asked, spare, crossed, overlapped>>
vars == <<pc, battVars, flagVars, semVars, imuVars, screen, queue, bounds, history>>

Direction == {"lifted", "lowered"}
None == "none"
SleepSteps == {"stop", "arm", "sleep", "park", "start", "wait", "unpark", "preWake",
               "home", "wake", "rearm", "reset"}

TypeOK ==
  /\ pc \in SleepSteps \cup {"run"}
  /\ imuPc \in {"idle", "signal", "give", "arm", "armed"}
  /\ battPc \in {"idle", "screen", "wake", "give", "delay", "off"}
  /\ mut \in {None, "batt"} /\ isShutdown \in BOOLEAN
  /\ inSleep \in BOOLEAN /\ nsBlocked \in BOOLEAN
  /\ waitForLower \in BOOLEAN /\ waitForLift \in BOOLEAN /\ lowered \in BOOLEAN
  /\ direction \in Direction \cup {None}
  /\ wakeSem \in BOOLEAN /\ isr \in BOOLEAN
  /\ tilt \in Direction /\ moved \in Direction \cup {None}
  /\ wrist \in Direction \cup {"level"}
  /\ screen \in {"app", "stopped", "home", "shutdown"}
  /\ queue \in Seq([type : {"alt", "tilt"}, dir : Direction \cup {None}, after : 0..MaxSleeps])
  /\ Len(queue) <= QueueLen
  /\ sleeps \in 0..MaxSleeps /\ moves \in 0..MaxMoves /\ presses \in 0..MaxPresses
  /\ asked \in BOOLEAN /\ spare \in BOOLEAN /\ crossed \in BOOLEAN /\ overlapped \in BOOLEAN

Init ==
  /\ pc = "run" /\ imuPc = "idle" /\ battPc = "idle" /\ mut = None /\ isShutdown = FALSE
  /\ inSleep = FALSE /\ nsBlocked = FALSE /\ lowered = FALSE /\ direction = None
  /\ wrist \in Direction \cup {"level"}
  /\ waitForLower = FALSE /\ waitForLift = (wrist = "lowered")
  /\ tilt = IF wrist = "lowered" THEN "lifted" ELSE "lowered"
  /\ wakeSem = FALSE /\ isr = FALSE /\ moved = None
  /\ screen = "app" /\ queue = <<>>
  /\ sleeps = 0 /\ moves = 0 /\ presses = 0
  /\ asked = FALSE /\ spare = FALSE /\ crossed = FALSE /\ overlapped = FALSE

Powered == battPc # "off"

Post(type, dir) ==
  LET e == [type |-> type, dir |-> dir, after |-> sleeps]
  IN  queue' = IF Len(queue) < QueueLen THEN Append(queue, e) ELSE queue

Give == wakeSem' = TRUE /\ asked' = (asked \/ inSleep)

(* wake's test of inSleep passes although the sleep has been woken from. *)
Late == inSleep /\ pc \in {"unpark", "preWake", "home", "wake"}

-----------------------------------------------------------------------------
(* The wrist, the button and the IMU.                                      *)

(* The IMU latches a movement in its direction.  A sample (accelY) says    *)
(* where the wrist is, and it may be level.                                *)
Move ==
  /\ Powered /\ moves < MaxMoves /\ moves' = moves + 1
  /\ wrist' \in (Direction \cup {"level"}) \ {wrist}
  /\ moved' = IF wrist' = tilt THEN wrist' ELSE moved
  /\ UNCHANGED <<pc, battVars, flagVars, semVars, imuPc, tilt, screen, queue, sleeps, presses, history>>

(* Alt: Sleep's interrupt when it is installed; Input's event, of a press  *)
(* short enough to be acted on, when the Input thread is not paused.       *)
Press ==
  /\ Powered /\ presses < MaxPresses /\ presses' = presses + 1
  /\ \/ isr /\ Give /\ UNCHANGED queue
     \/ ~isr /\ Post("alt", None) /\ UNCHANGED <<wakeSem, asked>>
  /\ UNCHANGED <<pc, battVars, flagVars, isr, imuVars, screen, sleeps, moves, spare, crossed, overlapped>>

(* fetchEvents: a movement in the direction set now is posted and goes to  *)
(* imuSignal, which reads waitForLower and, in wake, inSleep.              *)
FetchEvents ==
  /\ Powered /\ imuPc = "idle" /\ moved # None
  /\ moved' = None
  /\ IF moved = tilt THEN Post("tilt", tilt) /\ imuPc' = "signal" ELSE UNCHANGED <<queue, imuPc>>
  /\ UNCHANGED <<pc, battVars, flagVars, semVars, tilt, wrist, screen, bounds, history>>

(* mutant: wake does not look at inSleep *)
ImuSignal_NoCheck ==
  /\ Powered /\ imuPc = "signal"
  /\ imuPc' = CASE waitForLower -> "arm" [] ~waitForLower -> "give" [] OTHER -> "idle"
  /\ spare' = (spare \/ (imuPc' = "give" /\ Late))
  /\ UNCHANGED <<pc, battVars, flagVars, semVars, tilt, moved, wrist, screen, queue, bounds,
                 asked, crossed, overlapped>>

ImuSignal ==
  /\ Powered /\ imuPc = "signal"
  /\ imuPc' = CASE waitForLower -> "arm" [] ~waitForLower /\ inSleep -> "give" [] OTHER -> "idle"
  /\ spare' = (spare \/ (imuPc' = "give" /\ Late))
  /\ UNCHANGED <<pc, battVars, flagVars, semVars, tilt, moved, wrist, screen, queue, bounds,
                 asked, crossed, overlapped>>

ImuWake ==
  /\ Powered /\ imuPc = "give"
  /\ nsBlocked' = FALSE /\ Give /\ imuPc' = "idle"
  /\ UNCHANGED <<pc, battVars, inSleep, waitForLower, waitForLift, lowered, direction, isr,
                 tilt, moved, wrist, screen, queue, bounds, spare, crossed, overlapped>>

ImuArm ==
  /\ Powered /\ imuPc = "arm"
  /\ tilt' = "lifted" /\ imuPc' = "armed"
  /\ crossed' = (crossed \/ pc \notin {"run", "sleep", "park", "start", "wait"})
  /\ UNCHANGED <<pc, battVars, flagVars, semVars, moved, wrist, screen, queue, bounds,
                 asked, spare, overlapped>>

ImuArmed ==
  /\ Powered /\ imuPc = "armed"
  /\ waitForLower' = FALSE /\ imuPc' = "idle"
  /\ crossed' = (crossed \/ pc \notin {"run", "sleep", "park", "start", "wait"})
  /\ UNCHANGED <<pc, battVars, inSleep, nsBlocked, waitForLift, lowered, direction, semVars,
                 tilt, moved, wrist, screen, queue, bounds, asked, spare, overlapped>>

-----------------------------------------------------------------------------
(* The Battery thread: sample finds the battery critical, with mut held.   *)
(* main.cpp's shutdown shows its screen, wakes, waits and turns off.       *)

Battery == UNCHANGED <<pc, inSleep, waitForLower, waitForLift, lowered, direction, isr,
                       imuVars, queue, bounds, crossed>>

BattCritical ==
  /\ battPc = "idle" /\ mut = None
  /\ mut' = "batt" /\ isShutdown' = TRUE /\ battPc' = "screen"
  /\ Battery /\ UNCHANGED <<nsBlocked, wakeSem, screen, asked, spare, overlapped>>

ShutdownScreen ==
  /\ battPc = "screen" /\ battPc' = "wake"
  /\ screen' = "shutdown"
  /\ overlapped' = (overlapped \/ pc \in {"stop", "preWake", "home"})
  /\ Battery /\ UNCHANGED <<mut, isShutdown, nsBlocked, wakeSem, asked, spare>>

ShutdownWake ==
  /\ battPc = "wake" /\ battPc' = IF inSleep THEN "give" ELSE "delay"
  /\ spare' = (spare \/ Late)
  /\ Battery /\ UNCHANGED <<mut, isShutdown, nsBlocked, wakeSem, screen, asked, overlapped>>

ShutdownGive ==
  /\ battPc = "give" /\ battPc' = "delay"
  /\ nsBlocked' = TRUE /\ Give
  /\ Battery /\ UNCHANGED <<mut, isShutdown, screen, spare, overlapped>>

Shutdown ==
  /\ battPc = "delay" /\ battPc' = "off"
  /\ Battery /\ UNCHANGED <<mut, isShutdown, nsBlocked, wakeSem, screen, asked, spare, overlapped>>

-----------------------------------------------------------------------------
(* The LVGL thread: SleepMan::loop.                                        *)

Lvgl == Powered /\ UNCHANGED <<battVars, imuPc, wrist, moves, presses>>

(* checkAutoSleep and handleInput remember that the watch goes to sleep    *)
(* lifted; goSleep begins unless the battery has shut down.                *)
GoSleep ==
  /\ sleeps < MaxSleeps
  /\ pc' = IF isShutdown THEN "run" ELSE "stop"

RememberLifted ==
  IF wrist = "lifted"
  THEN waitForLower' = TRUE /\ waitForLift' = FALSE
  ELSE UNCHANGED <<waitForLower, waitForLift>>

CheckAutoSleep ==
  /\ pc = "run" /\ RememberLifted /\ GoSleep
  /\ Lvgl /\ UNCHANGED <<inSleep, nsBlocked, lowered, direction, semVars, tilt, moved, screen,
                         queue, sleeps, history>>

HandleInput ==
  /\ pc = "run" /\ queue # <<>> /\ Head(queue).type = "alt"
  /\ queue' = Tail(queue)
  /\ RememberLifted /\ GoSleep
  /\ Lvgl /\ UNCHANGED <<inSleep, nsBlocked, lowered, direction, semVars, tilt, moved, screen,
                         sleeps, history>>

HandleMotion ==
  /\ pc = "run" /\ queue # <<>> /\ Head(queue).type = "tilt"
  /\ queue' = Tail(queue)
  /\ IF Head(queue).dir = "lowered"
     THEN GoSleep /\ UNCHANGED <<waitForLift, tilt>>
     ELSE /\ waitForLift' = FALSE
          /\ tilt' = IF waitForLift THEN "lowered" ELSE tilt
          /\ UNCHANGED pc
  /\ Lvgl /\ UNCHANGED <<inSleep, nsBlocked, waitForLower, lowered, direction, semVars, moved, screen,
                         sleeps, history>>

(* mutant: waitForLower is not looked at *)
StopScreen_AlwaysLift ==
  /\ pc = "stop" /\ pc' = "arm"
  /\ screen' = "stopped"
  /\ tilt' = "lowered" /\ moved' = None
  /\ direction' = "lifted"
  /\ crossed' = (crossed \/ imuPc \in {"arm", "armed"})
  /\ Lvgl /\ UNCHANGED <<inSleep, nsBlocked, waitForLower, waitForLift, lowered, semVars, queue,
                         sleeps, asked, spare, overlapped>>

(* stopScreen, then IMU::init, which clears what is latched. *)
StopScreen ==
  /\ pc = "stop" /\ pc' = "arm"
  /\ screen' = "stopped"
  /\ tilt' = "lowered" /\ moved' = None
  /\ direction' = IF waitForLower THEN "lowered" ELSE "lifted"
  /\ crossed' = (crossed \/ imuPc \in {"arm", "armed"})
  /\ Lvgl /\ UNCHANGED <<inSleep, nsBlocked, waitForLower, waitForLift, lowered, semVars, queue,
                         sleeps, asked, spare, overlapped>>

Arm ==
  /\ pc = "arm" /\ pc' = "sleep"
  /\ tilt' = direction /\ direction' = None
  /\ Lvgl /\ UNCHANGED <<inSleep, nsBlocked, waitForLower, waitForLift, lowered, semVars, moved, screen,
                         queue, sleeps, history>>

StartSleep ==
  /\ pc = "sleep" /\ pc' = "park"
  /\ inSleep' = TRUE /\ sleeps' = sleeps + 1 /\ asked' = FALSE
  /\ Lvgl /\ UNCHANGED <<nsBlocked, waitForLower, waitForLift, lowered, direction, semVars, tilt, moved,
                         screen, queue, spare, crossed, overlapped>>

(* Sleep::sleep and sleepStart.  Battery::setSleep needs mut, both ways. *)
Park ==
  /\ pc = "park" /\ mut = None /\ pc' = "start"
  /\ Lvgl /\ UNCHANGED <<flagVars, semVars, tilt, moved, screen, queue, sleeps, history>>

(* mutant: the semaphore is drained before the wait *)
InstallIsr_Drains ==
  /\ pc = "start" /\ pc' = "wait"
  /\ isr' = TRUE /\ wakeSem' = FALSE
  /\ Lvgl /\ UNCHANGED <<flagVars, tilt, moved, screen, queue, sleeps, history>>

InstallIsr ==
  /\ pc = "start" /\ pc' = "wait"
  /\ isr' = TRUE
  /\ Lvgl /\ UNCHANGED <<flagVars, wakeSem, tilt, moved, screen, queue, sleeps, history>>

TakeWake ==
  /\ pc = "wait" /\ wakeSem /\ pc' = "unpark"
  /\ wakeSem' = FALSE /\ isr' = FALSE
  /\ spare' = (spare \/ imuPc = "give" \/ battPc = "give")
  /\ Lvgl /\ UNCHANGED <<flagVars, tilt, moved, screen, queue, sleeps, asked, crossed, overlapped>>

Unpark ==
  /\ pc = "unpark" /\ mut = None /\ pc' = "preWake"
  /\ Lvgl /\ UNCHANGED <<flagVars, semVars, tilt, moved, screen, queue, sleeps, history>>

PreWake ==
  /\ pc = "preWake" /\ pc' = "home"
  /\ lowered' = (wrist = "lowered")
  /\ waitForLower' = (waitForLower /\ wrist # "lowered")
  /\ Lvgl /\ UNCHANGED <<inSleep, nsBlocked, waitForLift, direction, semVars, tilt, moved, screen,
                         queue, sleeps, history>>

HomeScreen ==
  /\ pc = "home" /\ pc' = "wake"
  /\ screen' = IF nsBlocked THEN screen ELSE "home"
  /\ overlapped' = (overlapped \/ isShutdown)
  /\ Lvgl /\ UNCHANGED <<flagVars, semVars, tilt, moved, queue, sleeps, asked, spare, crossed>>

EndSleep ==
  /\ pc = "wake" /\ pc' = "rearm"
  /\ nsBlocked' = FALSE /\ inSleep' = FALSE
  /\ Lvgl /\ UNCHANGED <<waitForLower, waitForLift, lowered, direction, semVars, tilt, moved, screen,
                         queue, sleeps, history>>

Rearm ==
  /\ pc = "rearm" /\ pc' = "reset"
  /\ tilt' = IF lowered THEN "lifted" ELSE "lowered"
  /\ waitForLift' = lowered /\ moved' = None
  /\ crossed' = (crossed \/ imuPc \in {"arm", "armed"})
  /\ Lvgl /\ UNCHANGED <<inSleep, nsBlocked, waitForLower, lowered, direction, semVars, screen, queue,
                         sleeps, asked, spare, overlapped>>

ResetEvents ==
  /\ pc = "reset" /\ pc' = "run"
  /\ queue' = <<>> /\ waitForLower' = FALSE
  /\ crossed' = (crossed \/ imuPc \in {"arm", "armed"})
  /\ Lvgl /\ UNCHANGED <<inSleep, nsBlocked, waitForLift, lowered, direction, semVars, tilt, moved, screen,
                         sleeps, asked, spare, overlapped>>

-----------------------------------------------------------------------------
IMU  == FetchEvents \/ ImuSignal \/ ImuWake \/ ImuArm \/ ImuArmed
BATT == BattCritical \/ ShutdownScreen \/ ShutdownWake \/ ShutdownGive \/ Shutdown
LVGL == \/ StopScreen \/ Arm \/ StartSleep \/ Park \/ InstallIsr \/ TakeWake
        \/ Unpark \/ PreWake \/ HomeScreen \/ EndSleep \/ Rearm \/ ResetEvents
Loop == CheckAutoSleep \/ HandleInput \/ HandleMotion
World == Move \/ Press

Next == IMU \/ BATT \/ LVGL \/ Loop \/ World

-----------------------------------------------------------------------------
ImuQuiet == imuPc = "idle" /\ moved = None

(* Asleep, the IMU reports the wrist being lifted, or first its being      *)
(* lowered if the watch fell asleep lifted; awake it reports its being     *)
(* lowered, or first its being lifted if it woke lowered.  Otherwise the   *)
(* watch would not wake, or not sleep, by the wrist again (SleepMan.h      *)
(* 55-59).  Not if imuSignal changed the tilt while goSleep did.           *)
Armed ==
  ImuQuiet /\ ~crossed /\ ~isShutdown =>
    /\ pc = "wait" /\ ~wakeSem => tilt = IF waitForLower THEN "lowered" ELSE "lifted"
    /\ pc = "run" /\ queue = <<>> => tilt = IF waitForLift THEN "lifted" ELSE "lowered"

(* A sleep ends because a wake was asked for during it: wake is refused    *)
(* when the watch is awake, lest the semaphore stay given and end the next *)
(* sleep at once (SleepMan.cpp 107-111).  The refusal and the giving being *)
(* two steps, that happens when a thread is let in just before the end.    *)
WokenForAReason == [][TakeWake => asked \/ spare]_vars

(* No input or movement from before a sleep, or of it, puts the watch to   *)
(* sleep after it.                                                         *)
FreshEventsOnly == pc = "run" => \A i \in DOMAIN queue : queue[i].after = sleeps

(* A watch that turns off shows why, asleep or not: unless the LVGL thread *)
(* was starting a screen of its own at that moment.                        *)
ShutdownShown == battPc \in {"wake", "give", "delay", "off"} /\ ~overlapped => screen = "shutdown"

(* Asked to, a sleeping watch wakes, or turns off. *)
Wakes == asked /\ inSleep ~> ~inSleep \/ ~Powered

(* Of every state: the types, the tilt detection armed the right way, no    *)
(* event from before a sleep after it, and a shutdown that is shown.        *)
Inv == TypeOK /\ FreshEventsOnly /\ Armed /\ ShutdownShown
===============================================================================
