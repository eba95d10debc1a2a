------------------------------ MODULE StatusScreens ------------------------------
(***************************************************************************)
(* The screens that show the box (Screens/Home, Screens/NetTest): the      *)
(* status face, the GPU page and the network test, with the menu for all   *)
(* others.  LVGL builds a screen, starts it, and lets it take one event    *)
(* per loop; the status service's thread changes the data and tells of it; *)
(* the network test has a worker of its own, which the screen waits for    *)
(* when it is left.                                                        *)
(***************************************************************************)
EXTENDS Naturals, Sequences, SequencesExt

CONSTANTS
  ScreenQueue,             \* the places of a screen's queue
  MaxUpdates, MaxKeys      \* bounds of the model: data fetched; keys pressed

ASSUME ViewAssumption == ScreenQueue \in Nat /\ MaxUpdates \in Nat /\ MaxKeys \in Nat

VARIABLES
  front, lvPc,             \* the current screen; LVGL's step in starting and stopping it
  screenQueue, listens,
  shown,                   \* the data on the screen, or 0 for none
  autoSleep, altLock,      \* SleepMan's
  latest, svcPc,           \* StatusService's data, counted; its thread
  runRequested, workerDone, wkPc,   \* NetTest's worker
  screenKeys, runsAsked, runs,
  dropped, missed    \* history: the screen's queue was full for an update; one was told
                     \* between the screen's reading and its listening

lvVars     == <<front, lvPc, screenQueue, listens, shown, autoSleep, altLock>>
workerVars == <<runRequested, workerDone, wkPc, runs>>
viewVars   == <<lvVars, latest, svcPc, workerVars, screenKeys, runsAsked, dropped, missed>>

Pages == {"face", "gpu", "net", "menu"}

ViewInit ==
  /\ front = "face" /\ lvPc = "new" /\ screenQueue = <<>> /\ listens = FALSE /\ shown = 0
  /\ autoSleep = TRUE /\ altLock = FALSE /\ latest = 0 /\ svcPc = "idle"
  /\ runRequested = FALSE /\ workerDone = TRUE /\ wkPc = "off" /\ runs = 0
  /\ screenKeys = 0 /\ runsAsked = 0 /\ dropped = FALSE /\ missed = FALSE

-----------------------------------------------------------------------------
(* The data changes under the lock, the event is posted after it; the face *)
(* and the GPU page listen to such events, and all to the buttons.         *)
Hears(what) == listens /\ (what \in {"updated", "other"} => front \in {"face", "gpu"})

Post(what) ==
  /\ screenQueue' = IF Hears(what) /\ Len(screenQueue) < ScreenQueue THEN Append(screenQueue, what) ELSE screenQueue
  /\ dropped' = (dropped \/ (what = "updated" /\ Hears(what) /\ Len(screenQueue) = ScreenQueue))

Fetched ==
  /\ \/ /\ svcPc = "idle" /\ latest < MaxUpdates /\ latest' = latest + 1 /\ svcPc' = "post"
        /\ UNCHANGED <<screenQueue, dropped, missed>>
     \/ /\ svcPc = "post" /\ svcPc' = "idle" /\ Post("updated") /\ UNCHANGED latest
        /\ missed' = (missed \/ (~listens /\ front = "gpu" /\ lvPc = "listen"))
     \/ /\ svcPc = "idle" /\ screenKeys < MaxKeys /\ Post("other") /\ UNCHANGED <<svcPc, latest, missed>>
  /\ UNCHANGED <<front, lvPc, listens, shown, autoSleep, altLock, workerVars, screenKeys, runsAsked>>

Key ==
  /\ screenKeys < MaxKeys /\ screenKeys' = screenKeys + 1
  /\ \E key \in {"select", "up", "down", "alt"} : Post(key)
  /\ UNCHANGED <<front, lvPc, listens, shown, autoSleep, altLock, latest, svcPc, workerVars, runsAsked, missed>>

-----------------------------------------------------------------------------
(* onStop of the screen in front, whose worker may have to be waited for.  *)
StopScreen(next) ==
  /\ listens' = FALSE /\ autoSleep' = TRUE /\ altLock' = FALSE
  /\ runRequested' = FALSE /\ lvPc' = next
  /\ wkPc' = IF wkPc = "poll" THEN "off" ELSE wkPc

(* mutant: the screen does not wait for its worker *)
WorkerEnds_Unwaited == TRUE

WorkerEnds == wkPc = "off"

(* startScreen: the old screen is stopped and deleted, the new one built. *)
Transition(to) == StopScreen("new") /\ front' = to /\ screenQueue' = <<>> /\ shown' = 0

Render == shown' = latest /\ dropped' = FALSE /\ missed' = FALSE

Starts ==
  /\ \/ /\ lvPc = "new" /\ WorkerEnds /\ lvPc' = "listen" /\ workerDone' = TRUE
        /\ IF front = "gpu" THEN Render ELSE UNCHANGED shown /\ dropped' = FALSE /\ missed' = FALSE
        /\ UNCHANGED <<listens, autoSleep, altLock, wkPc>>
     \/ /\ lvPc = "listen" /\ listens' = TRUE /\ lvPc' = (IF front = "face" THEN "take" ELSE "front")
        /\ autoSleep' = (front \notin {"gpu", "net"}) /\ wkPc' = (IF front = "net" THEN "poll" ELSE "off")
        /\ UNCHANGED <<shown, altLock, dropped, missed, workerDone>>
     \/ /\ lvPc = "take" /\ lvPc' = "front" /\ Render /\ autoSleep' = FALSE /\ altLock' = TRUE
        /\ UNCHANGED <<listens, wkPc, workerDone>>
  /\ UNCHANGED <<front, screenQueue, latest, svcPc, runRequested, runs, screenKeys, runsAsked>>

Leads == [face |-> [select |-> "menu", up |-> "net", down |-> "gpu"], gpu |-> [alt |-> "face", up |-> "face"],
          net |-> [alt |-> "face"], menu |-> [alt |-> "face"]]

Redraws(screen) == IF screen = "face" THEN {"updated"} ELSE IF screen = "gpu" THEN {"updated", "other"} ELSE {}

(* One event of the queue. *)
Loops ==
  /\ lvPc = "front" /\ screenQueue # <<>>
  /\ LET e == Head(screenQueue) IN
     \/ /\ e \in DOMAIN Leads[front] /\ Transition(Leads[front][e])
        /\ UNCHANGED <<runsAsked, dropped, missed>>
     \/ /\ e \notin DOMAIN Leads[front] /\ screenQueue' = Tail(screenQueue)
        /\ IF e \in Redraws(front) THEN Render
           ELSE UNCHANGED <<shown, dropped, missed>>
        /\ IF front = "net" /\ e = "select" /\ workerDone
           THEN runRequested' = TRUE /\ runsAsked' = runsAsked + 1 ELSE UNCHANGED <<runRequested, runsAsked>>
        /\ UNCHANGED <<front, lvPc, listens, autoSleep, altLock, wkPc>>
  /\ UNCHANGED <<latest, svcPc, workerDone, runs, screenKeys>>

(* SleepMan: goSleep stops the screen, which stays until the home screen   *)
(* takes its place.                                                        *)
SleepsAndWakes ==
  /\ \/ lvPc = "front" /\ (autoSleep \/ altLock) /\ StopScreen("asleep") /\ UNCHANGED <<front, screenQueue, shown>>
     \/ /\ lvPc = "asleep" /\ lvPc' = "new" /\ front' = "face" /\ screenQueue' = <<>> /\ shown' = 0
        /\ UNCHANGED <<listens, autoSleep, altLock, runRequested, wkPc>>
  /\ UNCHANGED <<latest, svcPc, workerDone, runs, screenKeys, runsAsked, dropped, missed>>

(* workerFunc; a worker that is to stop ends its turn. *)
Works ==
  /\ \/ wkPc = "poll" /\ runRequested /\ runRequested' = FALSE /\ wkPc' = "begin" /\ UNCHANGED <<workerDone, runs>>
     \/ wkPc = "begin" /\ workerDone' = FALSE /\ wkPc' = "run" /\ UNCHANGED <<runRequested, runs>>
     \/ /\ wkPc = "run" /\ workerDone' = TRUE /\ runs' = runs + 1
        /\ wkPc' = (IF front = "net" /\ lvPc = "front" THEN "poll" ELSE "off") /\ UNCHANGED runRequested
  /\ UNCHANGED <<lvVars, latest, svcPc, screenKeys, runsAsked, dropped, missed>>

ViewNext == Fetched \/ Key \/ Starts \/ Loops \/ SleepsAndWakes \/ Works

-----------------------------------------------------------------------------
ViewTypeOK ==
  /\ front \in Pages /\ lvPc \in {"new", "listen", "take", "front", "asleep"} /\ shown \in 0..latest
  /\ wkPc \in {"off", "poll", "begin", "run"}

(* A screen with nothing left to handle shows the service's data, except   *)
(* when its queue was full for the update, and but for the GPU page, which *)
(* reads before it listens and reads again only with the next event.       *)
ShowsLatest ==
  lvPc = "front" /\ front \in {"face", "gpu"} /\ svcPc = "idle" /\ (\A e \in ToSet(screenQueue) : e \notin {"updated", "other"})
    => shown = latest \/ dropped \/ (missed /\ front = "gpu")

(* Whatever screens were shown and slept through before, the watch goes to *)
(* sleep by itself only where no screen keeps it up, and by the button     *)
(* only on the face.                                                       *)
SleepsWhereItMay == lvPc = "front" => (autoSleep <=> front = "menu") /\ (altLock <=> front = "face")

(* The network is tested on its screen only, and not more often than asked. *)
TestsAsAsked == (wkPc # "off" => front = "net" \/ lvPc = "new") /\ runs <= runsAsked

ViewInv == ViewTypeOK /\ ShowsLatest /\ SleepsWhereItMay /\ TestsAsAsked
==================================================================================
