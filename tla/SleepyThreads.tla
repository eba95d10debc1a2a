----------------------------- MODULE SleepyThreads -----------------------------
(***************************************************************************)
(* The threads Sleep pauses while the watch sleeps (Util/Threaded): Input  *)
(* and Time are SleepyThreaded, which run sleepyLoop when an interval has  *)
(* passed and otherwise wait for pauseSem.  A paused thread stops itself   *)
(* and ends; resume starts another.  The LVGL thread, in Sleep::sleep,     *)
(* pauses them one after the other, waiting for each, and later resumes    *)
(* them in the same order.                                                 *)
(***************************************************************************)
EXTENDS Naturals

CONSTANTS
  Workers,   \* the number of threads
  MaxSleeps  \* bound of the model: sleeps

ASSUME SleepyThreadsAssumption == Workers \in Nat \ {0} /\ MaxSleeps \in Nat

VARIABLES
  phase,     \* the LVGL thread: awake, or what it does with worker `at`
  at,
  state, paused, pauseSem, stopSem,  \* by worker
  wpc,       \* by worker: its task: gone, or its next step
  due,       \* by worker: the interval since lastLoop has passed
  sleeps,
  early      \* history: by worker: resumed before its task had set Stopped

vars == <<phase, at, state, paused, pauseSem, stopSem, wpc, due, sleeps, early>>

Worker == 1..Workers

TypeOK ==
  /\ phase \in {"awake", "pause", "spin", "asleep", "resume", "start"}
  /\ at \in Worker
  /\ state \in [Worker -> {"Stopped", "Running", "Stopping"}]
  /\ paused \in [Worker -> BOOLEAN] /\ pauseSem \in [Worker -> BOOLEAN]
  /\ stopSem \in [Worker -> BOOLEAN]
  /\ wpc \in [Worker -> {"gone", "while", "loop", "work", "stop", "paused", "end", "give"}]
  /\ due \in [Worker -> BOOLEAN] /\ early \in [Worker -> BOOLEAN]
  /\ sleeps \in 0..MaxSleeps

Init ==
  /\ phase = "awake" /\ at = 1 /\ sleeps = 0
  /\ state = [w \in Worker |-> "Running"] /\ wpc = [w \in Worker |-> "while"]
  /\ paused = [w \in Worker |-> FALSE] /\ pauseSem = [w \in Worker |-> FALSE]
  /\ stopSem = [w \in Worker |-> FALSE] /\ due = [w \in Worker |-> TRUE]
  /\ early = [w \in Worker |-> FALSE]

-----------------------------------------------------------------------------
(* The LVGL thread.                                                        *)

Sleep == UNCHANGED <<stopSem, due>>

(* After a worker the next, after the last one the next phase. *)
Forth(again, next) ==
  IF at < Workers THEN at' = at + 1 /\ phase' = again ELSE at' = 1 /\ phase' = next

GoToSleep ==
  /\ phase = "awake" /\ sleeps < MaxSleeps
  /\ phase' = "pause" /\ sleeps' = sleeps + 1
  /\ Sleep /\ UNCHANGED <<at, state, paused, pauseSem, wpc, early>>

Pause ==
  /\ phase = "pause"
  /\ IF paused[at]
     THEN Forth("pause", "asleep") /\ UNCHANGED pauseSem
     ELSE pauseSem' = [pauseSem EXCEPT ![at] = TRUE] /\ phase' = "spin" /\ UNCHANGED at
  /\ Sleep /\ UNCHANGED <<state, paused, wpc, sleeps, early>>

Spin ==
  /\ phase = "spin" /\ paused[at]
  /\ Forth("pause", "asleep")
  /\ Sleep /\ UNCHANGED <<state, paused, pauseSem, wpc, sleeps, early>>

WakeUp ==
  /\ phase = "asleep" /\ phase' = "resume"
  /\ Sleep /\ UNCHANGED <<at, state, paused, pauseSem, wpc, sleeps, early>>

Resume ==
  /\ phase = "resume" /\ phase' = "start"
  /\ paused' = [paused EXCEPT ![at] = FALSE]
  /\ Sleep /\ UNCHANGED <<at, state, pauseSem, wpc, sleeps, early>>

(* Threaded::start does nothing unless the thread before has ended; all    *)
(* the one before may still have to do is to give stopSem.                 *)
Start ==
  /\ phase = "start"
  /\ IF state[at] = "Stopped"
     THEN /\ state' = [state EXCEPT ![at] = "Running"]
          /\ wpc' = [wpc EXCEPT ![at] = "while"]
          /\ UNCHANGED early
     ELSE early' = [early EXCEPT ![at] = TRUE] /\ UNCHANGED <<state, wpc>>
  /\ stopSem' = [stopSem EXCEPT ![at] = stopSem[at] \/ (wpc'[at] # wpc[at] /\ wpc[at] = "give")]
  /\ Forth("resume", "awake")
  /\ UNCHANGED <<paused, pauseSem, sleeps, due>>

-----------------------------------------------------------------------------
(* The task of a worker: threadFunc and SleepyThreaded::loop.              *)

Task(w, from, to) ==
  /\ wpc[w] = from /\ wpc' = [wpc EXCEPT ![w] = to]
  /\ UNCHANGED <<phase, at, sleeps, early>>

While(w) ==
  /\ Task(w, "while", IF state[w] = "Running" THEN "loop" ELSE "end")
  /\ UNCHANGED <<state, paused, pauseSem, stopSem, due>>

(* mutant: the semaphore stays given *)
LoopWait_Keeps(w) ==
  /\ ~due[w] /\ Task(w, "loop", IF pauseSem[w] THEN "stop" ELSE "while")
  /\ UNCHANGED pauseSem
  /\ UNCHANGED <<state, paused, stopSem, due>>

(* The interval has passed; or the semaphore is given, or waited for in    *)
(* vain.                                                                   *)
LoopDue(w) ==
  /\ due[w] /\ Task(w, "loop", "work")
  /\ due' = [due EXCEPT ![w] = FALSE]
  /\ UNCHANGED <<state, paused, pauseSem, stopSem>>

LoopWait(w) ==
  /\ ~due[w] /\ Task(w, "loop", IF pauseSem[w] THEN "stop" ELSE "while")
  /\ pauseSem' = [pauseSem EXCEPT ![w] = FALSE]
  /\ UNCHANGED <<state, paused, stopSem, due>>

Work(w) ==
  /\ Task(w, "work", "while")
  /\ UNCHANGED <<state, paused, pauseSem, stopSem, due>>

(* stop(0) in the thread itself: nobody else stops it, so stopMut is free. *)
StopSelf(w) ==
  /\ Task(w, "stop", "paused")
  /\ state' = [state EXCEPT ![w] = "Stopping"]
  /\ stopSem' = [stopSem EXCEPT ![w] = FALSE]
  /\ UNCHANGED <<paused, pauseSem, due>>

(* mutant: the thread ends without a word *)
SetPaused_Forgets(w) ==
  /\ Task(w, "paused", "while")
  /\ UNCHANGED paused
  /\ UNCHANGED <<state, pauseSem, stopSem, due>>

SetPaused(w) ==
  /\ Task(w, "paused", "while")
  /\ paused' = [paused EXCEPT ![w] = TRUE]
  /\ UNCHANGED <<state, pauseSem, stopSem, due>>

End(w) ==
  /\ Task(w, "end", "give")
  /\ state' = [state EXCEPT ![w] = "Stopped"]
  /\ UNCHANGED <<paused, pauseSem, stopSem, due>>

GiveStop(w) ==
  /\ Task(w, "give", "gone")
  /\ stopSem' = [stopSem EXCEPT ![w] = TRUE]
  /\ UNCHANGED <<state, paused, pauseSem, due>>

(* The interval passes: it is longer than one round of the loop. *)
Elapse(w) ==
  /\ ~due[w] /\ wpc[w] \notin {"work", "while"} /\ due' = [due EXCEPT ![w] = TRUE]
  /\ UNCHANGED <<phase, at, state, paused, pauseSem, stopSem, wpc, sleeps, early>>

-----------------------------------------------------------------------------
Lvgl == GoToSleep \/ Pause \/ Spin \/ WakeUp \/ Resume \/ Start

Run(w) == \/ While(w) \/ LoopDue(w) \/ LoopWait(w) \/ Work(w)
          \/ StopSelf(w) \/ SetPaused(w) \/ End(w) \/ GiveStop(w)

Next == Lvgl \/ \E w \in Worker : Run(w) \/ Elapse(w)

Spec == Init /\ [][Next]_vars

-----------------------------------------------------------------------------
(* While the watch sleeps no paused thread works: the pin of a button is   *)
(* then Sleep's, the bus and the events nobody's.  pause returns when the  *)
(* thread has said so itself, after its last work.                         *)
AsleepIsQuiet ==
  phase = "asleep" => \A w \in Worker : paused[w] /\ wpc[w] \in {"while", "end", "give", "gone"}
                                        /\ state[w] # "Running"

(* A thread that is awake runs; unless it was resumed before the one that  *)
(* was paused had ended, for then start does nothing, and pause would wait *)
(* for ever (Threaded.cpp 102-105).                                        *)
AwakeRuns ==
  phase = "awake" => \A w \in Worker : ~early[w] => state[w] = "Running" /\ wpc[w] \notin {"end", "give", "gone"}

(* The part that is proved for any number of threads and sleeps. *)
Inv == TypeOK /\ AsleepIsQuiet /\ AwakeRuns
================================================================================
