--------------------------- MODULE LivePartsProofs ---------------------------
(***************************************************************************)
(* Proofs about the parts that LiveParts sets side by side, each for every *)
(* value of its constants.                                                 *)
(***************************************************************************)
EXTENDS LiveParts, TLAPS, WellFoundedInduction

-----------------------------------------------------------------------------
(* StatusFetch: the alerts told.                                           *)
(* Of alerts that fire one is the newest: the least distance to MaxSince.  *)
LEMMA NewestFires ==
  ASSUME firing \subseteq 1..MaxSince, firing # {}
  PROVE  Newest \in firing /\ \A u \in firing : u =< Newest
<1>1. MaxSince \in Nat
  BY StatusFetchAssumption
<1> DEFINE T == {MaxSince - t : t \in firing}
<1>2. T \subseteq Nat /\ T # {}
  <2>1. \A t \in firing : MaxSince - t \in Nat
    BY <1>1
  <2>2. PICK t \in firing : TRUE
    OBVIOUS
  <2>3. MaxSince - t \in T
    BY <2>2
  <2> QED BY <2>1, <2>3
<1>3. PICK x \in T : \A y \in T : ~(<<y, x>> \in OpToRel(<, Nat))
  <2> HIDE DEF T
  <2> QED BY <1>2, NatLessThanWellFounded, WFMin
<1>4. x \in Nat /\ \A y \in T : y \in Nat /\ ~(y < x)
  BY <1>2, <1>3 DEF OpToRel
<1>5. PICK t \in firing : x = MaxSince - t
  OBVIOUS
<1>6. \A u \in firing : u =< t
  <2> TAKE u \in firing
  <2>1. ~(MaxSince - u < MaxSince - t)
    BY <1>4, <1>5
  <2> QED BY <1>1, <2>1
<1>7. \E n \in firing : \A u \in firing : u =< n
  BY <1>6
<1> QED BY <1>7 DEF Newest

(* The alerts that fire are later than none the box has named; a payload's *)
(* newest alert was among them; and of those that still fire none that was *)
(* announced, in whatever boot, is newer than the mark.                    *)
Past ==
  /\ firing \subseteq 1..boxTime
  /\ shown \subseteq 0..boxTime /\ announced \subseteq 0..boxTime
  /\ (shown = {}) = ~alertBaselineSet
  /\ alertBaselineSet => \A t \in announced \cap firing : t =< seenAlertSince

FetchIInv == FetchInv /\ Past

Marks == seenAlertSince \in Since /\ baseline \in Since /\ boxTime \in Since

LEMMA FetchInitIInv == FetchInit => FetchIInv
<1> SUFFICES ASSUME FetchInit PROVE FetchIInv
  OBVIOUS
<1>1. 0 \in Since /\ 0 \in 0..MaxFailures /\ 1 \in 1..MaxBoots
  BY StatusFetchAssumption DEF Since
<1>2. FetchTypeOK
  BY <1>1, Zenon DEF FetchInit, FetchTypeOK
<1>3. Past
  BY DEF FetchInit, Past
<1>4. SeenIsNewestShown /\ OldAlertsStaySilent /\ NewAlertsAnnounced
  BY DEF FetchInit, SeenIsNewestShown, OldAlertsStaySilent, NewAlertsAnnounced
<1> QED BY <1>2, <1>3, <1>4 DEF FetchIInv, FetchInv

(* A document with an alerts block: what it makes of the marks.            *)
LEMMA DocumentKeeps ==
  ASSUME FetchIInv, UNCHANGED <<firing, boxTime>>,
         shown' = shown \cup {Newest}, CheckAlerts(Newest)
  PROVE  /\ Past' /\ SeenIsNewestShown' /\ OldAlertsStaySilent' /\ NewAlertsAnnounced'
         /\ alertBaselineSet' \in BOOLEAN /\ repeated' \in BOOLEAN
         /\ seenAlertSince' \in Since /\ baseline' \in Since
         /\ shown' \subseteq Since /\ announced' \subseteq Since
<1> DEFINE t == Newest
<1>1. Marks /\ alertBaselineSet \in BOOLEAN /\ repeated \in BOOLEAN
  BY DEF FetchIInv, FetchInv, FetchTypeOK, Marks
<1>2. t \in 0..boxTime /\ (firing # {} => t \in firing) /\ \A u \in firing : u =< t
  <2>1. CASE firing = {}
    BY <1>1, <2>1 DEF Newest, Marks, Since
  <2>2. CASE firing # {}
    <3>1. firing \subseteq 1..MaxSince /\ firing \subseteq 1..boxTime
      BY DEF FetchIInv, Past, FetchInv, FetchTypeOK
    <3>2. t \in firing /\ \A u \in firing : u =< t
      BY <2>2, <3>1, NewestFires
    <3> HIDE DEF t
    <3>3. t \in 0..boxTime
      BY <1>1, <3>1, <3>2 DEF Marks, Since
    <3> QED BY <3>2, <3>3
  <2> QED BY <2>1, <2>2
<1> HIDE DEF t
<1>3. t \in Since /\ 0..boxTime \subseteq Since
  BY <1>1, <1>2, StatusFetchAssumption DEF Marks, Since
<1>4. CASE ~alertBaselineSet
  <2>1. /\ alertBaselineSet' /\ seenAlertSince' = t /\ baseline' = t
        /\ UNCHANGED <<announced, repeated>> /\ shown' = {t} /\ shown = {}
    BY <1>4 DEF CheckAlerts, SetBaseline, t, FetchIInv, Past
  <2>2. Past'
    BY <1>2, <2>1 DEF FetchIInv, Past
  <2>3. SeenIsNewestShown' /\ OldAlertsStaySilent' /\ NewAlertsAnnounced'
    BY <1>2, <2>1 DEF FetchIInv, FetchInv, SeenIsNewestShown, OldAlertsStaySilent, NewAlertsAnnounced
  <2> QED BY <1>1, <1>3, <2>1, <2>2, <2>3 DEF FetchIInv, Past, CheckAlerts, SetBaseline
<1>5. CASE alertBaselineSet /\ t > seenAlertSince
  <2>1. /\ alertBaselineSet' = alertBaselineSet /\ seenAlertSince' = t /\ baseline' = baseline
        /\ announced' = announced \cup {t} /\ shown' = shown \cup {t}
        /\ repeated' = (repeated \/ t \in announced \cup shown)
    BY <1>5 DEF CheckAlerts, Announce, Tell, t
  <2>2. t \notin announced \cup shown
    <3>1. t \notin shown
      BY <1>1, <1>2, <1>5 DEF FetchIInv, FetchInv, SeenIsNewestShown, Marks, Since
    <3>2. t \in firing
      BY <1>1, <1>2, <1>5 DEF Newest, t, Marks, Since
    <3>3. t \notin announced
      BY <1>1, <1>2, <1>5, <3>2 DEF FetchIInv, Past, Marks, Since
    <3> QED BY <3>1, <3>3
  <2>3. Past'
    BY <1>1, <1>2, <1>5, <2>1 DEF FetchIInv, Past, Marks, Since
  <2>4. SeenIsNewestShown'
    BY <1>1, <1>2, <1>3, <1>5, <2>1 DEF FetchIInv, FetchInv, Past, SeenIsNewestShown, Marks, Since
  <2>5. OldAlertsStaySilent' /\ NewAlertsAnnounced'
    BY <1>5, <2>1, <2>2 DEF FetchIInv, FetchInv, OldAlertsStaySilent, NewAlertsAnnounced
  <2>6. shown' \subseteq Since /\ announced' \subseteq Since
    BY <1>3, <2>1 DEF FetchIInv, Past
  <2> QED BY <1>1, <1>3, <2>1, <2>3, <2>4, <2>5, <2>6 DEF Marks
<1>6. CASE alertBaselineSet /\ ~(t > seenAlertSince)
  <2>1. /\ UNCHANGED <<alertBaselineSet, seenAlertSince, announced, repeated, baseline>>
        /\ shown' = shown \cup {t}
    BY <1>6 DEF CheckAlerts, t
  <2>2. t =< seenAlertSince
    BY <1>1, <1>3, <1>6 DEF Marks, Since
  <2>3. Past'
    BY <1>2, <1>6, <2>1 DEF FetchIInv, Past
  <2>4. SeenIsNewestShown' /\ OldAlertsStaySilent'
    BY <2>1, <2>2 DEF FetchIInv, FetchInv, SeenIsNewestShown, OldAlertsStaySilent
  <2>5. NewAlertsAnnounced'
    BY <1>6, <2>1 DEF FetchIInv, FetchInv, SeenIsNewestShown, NewAlertsAnnounced
  <2>6. shown' \subseteq Since /\ announced' \subseteq Since
    BY <1>3, <2>1 DEF FetchIInv, Past
  <2> QED BY <1>1, <2>1, <2>3, <2>4, <2>5, <2>6 DEF Marks
<1> QED BY <1>4, <1>5, <1>6

(* What leaves the alerts' marks and the box alone keeps what is said of   *)
(* them.                                                                   *)
Told == Past /\ SeenIsNewestShown /\ OldAlertsStaySilent /\ NewAlertsAnnounced

LEMMA ToldStays == Told /\ UNCHANGED <<firing, boxTime, alertVars>> => Told'
  BY DEF Told, alertVars, Past, SeenIsNewestShown, OldAlertsStaySilent, NewAlertsAnnounced

LEMMA FetchStep == FetchIInv /\ (FetchFails \/ FetchOk) => FetchIInv'
<1> SUFFICES ASSUME FetchIInv, FetchFails \/ FetchOk PROVE FetchIInv'
  OBVIOUS
<1>1. failures' \in 0..MaxFailures
  BY StatusFetchAssumption DEF FetchFails, FetchOk, FetchIInv, FetchInv, FetchTypeOK
<1>2. clockSet' \in BOOLEAN /\ clockSynced' \in BOOLEAN /\ haveLatest' \in BOOLEAN
  BY DEF FetchFails, FetchOk, SyncClock, FetchIInv, FetchInv, FetchTypeOK
<1>3. UNCHANGED <<firing, boxTime, sntpUp, boots>>
  BY DEF FetchFails, FetchOk, boxVars
<1>4. CASE UNCHANGED alertVars
  <2>1. Told'
    BY <1>3, <1>4, ToldStays DEF FetchIInv, FetchInv, Told
  <2>2. FetchTypeOK'
    BY <1>1, <1>2, <1>3, <1>4, Zenon DEF FetchIInv, FetchInv, FetchTypeOK, alertVars
  <2> QED BY <2>1, <2>2 DEF FetchIInv, FetchInv, Told
<1>5. CASE shown' = shown \cup {Newest} /\ CheckAlerts(Newest)
  <2>1. FetchTypeOK'
    BY <1>1, <1>2, <1>3, <1>5, DocumentKeeps, Zenon DEF FetchIInv, FetchInv, FetchTypeOK
  <2> QED BY <1>3, <1>5, <2>1, DocumentKeeps DEF FetchIInv, FetchInv
<1> QED BY <1>4, <1>5 DEF FetchFails, FetchOk

LEMMA FireStep == FetchIInv /\ Fire => FetchIInv'
<1> SUFFICES ASSUME FetchIInv, Fire PROVE FetchIInv'
  OBVIOUS
<1>1. boxTime \in Nat /\ boxTime' = boxTime + 1 /\ boxTime' \in Since /\ firing' = firing \cup {boxTime'}
  BY StatusFetchAssumption DEF FetchIInv, FetchInv, FetchTypeOK, Fire, Since
<1>2. firing' \subseteq 1..MaxSince
  BY <1>1, StatusFetchAssumption DEF FetchIInv, FetchInv, FetchTypeOK, Since
<1>3. UNCHANGED <<sntpUp, clockSet, clockSynced, failures, haveLatest, alertVars, boots>>
  BY DEF Fire, dataVars
<1>4. FetchTypeOK'
  BY <1>1, <1>2, <1>3, Zenon DEF FetchIInv, FetchInv, FetchTypeOK, alertVars
<1>5. Past'
  <2>1. firing' \subseteq 1..boxTime' /\ shown' \subseteq 0..boxTime' /\ announced' \subseteq 0..boxTime'
    BY <1>1, <1>3 DEF FetchIInv, Past, alertVars
  <2>2. announced' \cap firing' = announced \cap firing
    BY <1>1, <1>3 DEF FetchIInv, Past, alertVars
  <2> QED BY <1>3, <2>1, <2>2 DEF FetchIInv, Past, alertVars
<1>6. SeenIsNewestShown' /\ OldAlertsStaySilent' /\ NewAlertsAnnounced'
  BY <1>3 DEF FetchIInv, FetchInv, alertVars, SeenIsNewestShown, OldAlertsStaySilent, NewAlertsAnnounced
<1> QED BY <1>4, <1>5, <1>6 DEF FetchIInv, FetchInv

LEMMA ResolveStep == FetchIInv /\ (Resolve \/ SntpToggles) => FetchIInv'
<1> SUFFICES ASSUME FetchIInv, Resolve \/ SntpToggles PROVE FetchIInv'
  OBVIOUS
<1>1. firing' \subseteq firing /\ sntpUp' \in BOOLEAN
      /\ UNCHANGED <<boxTime, clockSet, clockSynced, failures, haveLatest, alertVars, boots>>
  BY DEF Resolve, SntpToggles, dataVars, FetchIInv, FetchInv, FetchTypeOK
<1>2. FetchTypeOK'
  BY <1>1, Zenon DEF FetchIInv, FetchInv, FetchTypeOK, alertVars
<1>3. Past'
  BY <1>1 DEF FetchIInv, Past, alertVars
<1>4. SeenIsNewestShown' /\ OldAlertsStaySilent' /\ NewAlertsAnnounced'
  BY <1>1 DEF FetchIInv, FetchInv, alertVars, SeenIsNewestShown, OldAlertsStaySilent, NewAlertsAnnounced
<1> QED BY <1>2, <1>3, <1>4 DEF FetchIInv, FetchInv

LEMMA RebootStep == FetchIInv /\ Reboot => FetchIInv'
<1> SUFFICES ASSUME FetchIInv, Reboot PROVE FetchIInv'
  OBVIOUS
<1>1. 0 \in Since /\ 0 \in 0..MaxFailures /\ boots' \in 1..MaxBoots
  BY StatusFetchAssumption DEF Since, Reboot, FetchIInv, FetchInv, FetchTypeOK
<1>2. FetchTypeOK'
  BY <1>1, Zenon DEF Reboot, boxVars, FetchIInv, FetchInv, FetchTypeOK
<1>3. Past'
  BY DEF Reboot, boxVars, FetchIInv, Past
<1>4. SeenIsNewestShown' /\ OldAlertsStaySilent' /\ NewAlertsAnnounced'
  BY DEF Reboot, FetchIInv, FetchInv, SeenIsNewestShown, OldAlertsStaySilent, NewAlertsAnnounced
<1> QED BY <1>2, <1>3, <1>4 DEF FetchIInv, FetchInv

LEMMA FetchStepIInv == FetchIInv /\ [FetchNext]_fetchVars => FetchIInv'
<1> SUFFICES ASSUME FetchIInv, UNCHANGED fetchVars PROVE FetchIInv'
  BY FetchStep, FireStep, ResolveStep, RebootStep DEF FetchNext
<1>1. Told'
  BY ToldStays DEF FetchIInv, FetchInv, Told, fetchVars, boxVars
<1>2. FetchTypeOK'
  BY Zenon DEF FetchIInv, FetchInv, FetchTypeOK, fetchVars, boxVars, dataVars, alertVars
<1> QED BY <1>1, <1>2 DEF FetchIInv, FetchInv, Told

(* No alert is announced twice over all boots, and every newer one of this *)
(* boot's payloads is, for any number of alerts and of boots.              *)
THEOREM AlertsToldOnce == FetchSpec => []FetchInv
<1>1. FetchIInv => FetchInv
  BY DEF FetchIInv
<1> QED BY FetchInitIInv, FetchStepIInv, <1>1, PTL DEF FetchSpec

-----------------------------------------------------------------------------
(* SleepyThreads: threads told to sleep.                                   *)
(* What a worker's task may be doing in each state; that it can only be    *)
(* stopping while the LVGL thread spins for it; who is paused in each      *)
(* phase; and that whoever is not runs.                                    *)
Tasks(w) ==
  /\ state[w] = "Running" => wpc[w] \in {"while", "loop", "work", "stop"}
  /\ state[w] = "Stopping" => wpc[w] \in {"paused", "while", "end"}
  /\ state[w] = "Stopped" => wpc[w] \in {"give", "gone"}

Stopping(w) ==
  /\ wpc[w] \in {"stop", "paused"} \/ pauseSem[w] => phase = "spin" /\ at = w /\ ~paused[w]
  /\ wpc[w] \in {"stop", "paused"} => ~pauseSem[w]
  /\ paused[w] => state[w] # "Running"

Phases(w) ==
  /\ phase \in {"pause", "spin"} /\ w < at => paused[w]
  /\ phase = "asleep" => paused[w]
  /\ phase = "resume" /\ w >= at => paused[w]
  /\ phase = "start" /\ w > at => paused[w]
  /\ phase = "start" /\ w = at => ~paused[w]
  /\ phase = "awake" \/ (phase = "pause" /\ w = at) => ~paused[w]
  /\ phase \in {"pause", "spin"} /\ w > at => ~paused[w]
  /\ phase \in {"resume", "start"} /\ w < at => ~paused[w]

Runs(w) ==
  ~paused[w] /\ ~early[w] /\ ~(phase \in {"spin", "start"} /\ at = w) => state[w] = "Running"

ThreadsIInv ==
  /\ TypeOK
  /\ phase \in {"awake", "asleep"} => at = 1
  /\ \A w \in Worker : Tasks(w) /\ Stopping(w) /\ Phases(w) /\ Runs(w)

LEMMA OneIsWorker == 1 \in Worker
  BY SleepyThreadsAssumption DEF Worker

LEMMA ThreadsInitInv == Init => ThreadsIInv
  BY OneIsWorker, SleepyThreadsAssumption
     DEF Init, ThreadsIInv, TypeOK, Tasks, Stopping, Phases, Runs, Worker

(* The LVGL thread goes from worker to worker. *)
LEMMA NextWorker ==
  ASSUME at \in Worker, NEW A, NEW B, Forth(A, B)
  PROVE  \/ at < Workers /\ at' = at + 1 /\ at' \in Worker /\ phase' = A
         \/ at = Workers /\ at' = 1 /\ at' \in Worker /\ phase' = B
  BY SleepyThreadsAssumption DEF Forth, Worker

LEMMA LvglStep ==
  ASSUME ThreadsIInv, Lvgl
  PROVE  ThreadsIInv'
<1> USE SleepyThreadsAssumption, OneIsWorker DEF ThreadsIInv, Sleep
<1>1. CASE GoToSleep
  BY <1>1 DEF GoToSleep, TypeOK, Tasks, Stopping, Phases, Runs, Worker
<1>2. CASE Pause
  <2>1. CASE paused[at]
    <3>1. Forth("pause", "asleep") /\ UNCHANGED <<state, paused, pauseSem, stopSem, wpc, due, sleeps, early>>
      BY <1>2, <2>1 DEF Pause
    <3>2. \A w \in Worker : w \in Nat /\ w <= Workers /\ at \in Nat
      BY DEF Worker, TypeOK
    <3> QED BY <2>1, <1>2, <3>1, <3>2, NextWorker DEF Pause, TypeOK, Tasks, Stopping, Phases, Runs
  <2>2. CASE ~paused[at]
    <3>1. /\ phase = "pause" /\ phase' = "spin" /\ at \in Worker
          /\ pauseSem' = [pauseSem EXCEPT ![at] = TRUE]
          /\ UNCHANGED <<at, state, paused, stopSem, wpc, due, sleeps, early>>
      BY <1>2, <2>2 DEF Pause, TypeOK
    <3>2. TypeOK'
      BY <3>1 DEF TypeOK
    <3>3. \A w \in Worker : w # at => pauseSem'[w] = pauseSem[w]
      BY <3>1 DEF TypeOK
    <3>4. ASSUME NEW w \in Worker PROVE Tasks(w)' /\ Runs(w)'
      BY <3>1 DEF Tasks, Runs
    <3>5. ASSUME NEW w \in Worker PROVE Stopping(w)'
      BY <2>2, <3>1, <3>3 DEF Stopping
    <3>6. ASSUME NEW w \in Worker PROVE Phases(w)'
      BY <2>2, <3>1 DEF Phases
    <3> QED BY <3>1, <3>2, <3>4, <3>5, <3>6
  <2> QED BY <2>1, <2>2
<1>3. CASE Spin
  <2>1. Forth("pause", "asleep") /\ UNCHANGED <<state, paused, pauseSem, stopSem, wpc, due, sleeps, early>>
    BY <1>3 DEF Spin
  <2>2. \A w \in Worker : w \in Nat /\ w <= Workers /\ at \in Nat
    BY DEF Worker, TypeOK
  <2> QED BY <1>3, <2>1, <2>2, NextWorker DEF Spin, TypeOK, Tasks, Stopping, Phases, Runs
<1>4. CASE WakeUp
  BY <1>4 DEF WakeUp, TypeOK, Tasks, Stopping, Phases, Runs, Worker
<1>5. CASE Resume
  <2>1. \A w \in Worker : w \in Nat /\ at \in Nat
    BY DEF Worker, TypeOK
  <2> QED BY <1>5, <2>1 DEF Resume, TypeOK, Tasks, Stopping, Phases, Runs
<1>6. CASE Start
  <2>1. Forth("resume", "awake") /\ phase = "start" /\ UNCHANGED <<paused, pauseSem, due, sleeps>>
    BY <1>6 DEF Start
  <2>2. \A w \in Worker : w \in Nat /\ w <= Workers /\ at \in Nat
    BY DEF Worker, TypeOK
  <2>3. CASE state[at] = "Stopped"
    BY <1>6, <2>1, <2>2, <2>3, NextWorker DEF Start, TypeOK, Tasks, Stopping, Phases, Runs
  <2>4. CASE state[at] # "Stopped"
    <3>1. /\ early' = [early EXCEPT ![at] = TRUE] /\ UNCHANGED <<state, wpc>>
          /\ stopSem' = [stopSem EXCEPT ![at] = stopSem[at] \/ (wpc'[at] # wpc[at] /\ wpc[at] = "give")]
      BY <1>6, <2>4 DEF Start
    <3>2. stopSem' = stopSem
      BY <3>1 DEF TypeOK
    <3>3. TypeOK'
      BY <2>1, <3>1, <3>2, NextWorker DEF TypeOK
    <3>4. \A w \in Worker : early'[w] = IF w = at THEN TRUE ELSE early[w]
      BY <3>1 DEF TypeOK
    <3>5. ASSUME NEW w \in Worker PROVE Tasks(w)' /\ Stopping(w)'
      BY <2>1, <3>1 DEF Tasks, Stopping
    <3>6. ASSUME NEW w \in Worker PROVE Phases(w)'
      BY <2>1, <2>2, <3>1, NextWorker DEF Phases, TypeOK
    <3>7. ASSUME NEW w \in Worker PROVE Runs(w)'
      BY <2>1, <2>2, <3>1, <3>4, NextWorker DEF Runs, TypeOK
    <3> QED BY <2>1, <3>3, <3>5, <3>6, <3>7, NextWorker DEF TypeOK
  <2> QED BY <2>3, <2>4
<1> QED BY <1>1, <1>2, <1>3, <1>4, <1>5, <1>6 DEF Lvgl

LEMMA WorkerStep ==
  ASSUME ThreadsIInv, NEW v \in Worker, Run(v) \/ Elapse(v)
  PROVE  ThreadsIInv'
<1> USE DEF ThreadsIInv, TypeOK, Tasks, Stopping, Phases, Runs, Task
<1>1. CASE While(v)     BY <1>1 DEF While
<1>2. CASE LoopDue(v)   BY <1>2 DEF LoopDue
<1>3. CASE LoopWait(v)  BY <1>3 DEF LoopWait
<1>4. CASE Work(v)      BY <1>4 DEF Work
<1>5. CASE StopSelf(v)  BY <1>5 DEF StopSelf
<1>6. CASE SetPaused(v)
  <2>1. /\ phase = "spin" /\ at = v /\ ~paused[v] /\ state[v] = "Stopping" /\ wpc[v] = "paused"
    BY <1>6 DEF SetPaused
  <2>2. /\ wpc' = [wpc EXCEPT ![v] = "while"] /\ paused' = [paused EXCEPT ![v] = TRUE]
        /\ UNCHANGED <<phase, at, state, pauseSem, stopSem, due, sleeps, early>>
    BY <1>6 DEF SetPaused
  <2>3. TypeOK'
    BY <2>2
  <2>4. \A w \in Worker : w # v => paused'[w] = paused[w] /\ wpc'[w] = wpc[w]
    BY <2>2
  <2>5. paused'[v] = TRUE /\ wpc'[v] = "while" /\ ~pauseSem[v]
    BY <2>2, <1>6 DEF SetPaused
  <2>6. ASSUME NEW w \in Worker PROVE Tasks(w)'
    BY <2>1, <2>2, <2>4, <2>5
  <2>7. ASSUME NEW w \in Worker PROVE Stopping(w)'
    BY <2>1, <2>2, <2>4, <2>5
  <2>8. ASSUME NEW w \in Worker PROVE Phases(w)'
    BY <2>1, <2>2, <2>4, <2>5 DEF Worker
  <2>9. ASSUME NEW w \in Worker PROVE Runs(w)'
    BY <2>1, <2>2, <2>4, <2>5
  <2> QED BY <2>1, <2>2, <2>3, <2>6, <2>7, <2>8, <2>9
<1>7. CASE End(v)       BY <1>7 DEF End
<1>8. CASE GiveStop(v)  BY <1>8 DEF GiveStop
<1>9. CASE Elapse(v)    BY <1>9 DEF Elapse
<1> QED BY <1>1, <1>2, <1>3, <1>4, <1>5, <1>6, <1>7, <1>8, <1>9 DEF Run

(* The invariant holds in every reachable state. *)
THEOREM ThreadsInductive == Spec => []ThreadsIInv
<1>1. Init => ThreadsIInv
  BY ThreadsInitInv
<1>2. ThreadsIInv /\ [Next]_vars => ThreadsIInv'
  <2> SUFFICES ASSUME ThreadsIInv, [Next]_vars PROVE ThreadsIInv'
    OBVIOUS
  <2>1. CASE Lvgl
    BY <2>1, LvglStep
  <2>2. ASSUME NEW w \in Worker, Run(w) \/ Elapse(w) PROVE ThreadsIInv'
    BY <2>2, WorkerStep
  <2>3. CASE UNCHANGED vars
    BY <2>3 DEF vars, ThreadsIInv, TypeOK, Tasks, Stopping, Phases, Runs
  <2> QED BY <2>1, <2>2, <2>3 DEF Next
<1> QED BY <1>1, <1>2, PTL DEF Spec

(* The variables keep their types. *)
THEOREM ThreadsTypeCorrect == Spec => []TypeOK
<1>1. ThreadsIInv => TypeOK
  BY DEF ThreadsIInv
<1> QED BY <1>1, ThreadsInductive, PTL

(* While the watch sleeps no paused thread works, however many there are   *)
(* and however their steps fall between those of the LVGL thread.          *)
THEOREM QuietAsleep == Spec => []AsleepIsQuiet
<1>1. ThreadsIInv => AsleepIsQuiet
  BY DEF ThreadsIInv, AsleepIsQuiet, TypeOK, Tasks, Stopping, Phases
<1> QED BY <1>1, ThreadsInductive, PTL

(* A thread resumed after the one paused had ended runs while awake. *)
THEOREM RunsAwake == Spec => []AwakeRuns
<1>1. ThreadsIInv => AwakeRuns
  BY DEF ThreadsIInv, AwakeRuns, TypeOK, Tasks, Phases, Runs
<1> QED BY <1>1, ThreadsInductive, PTL

(* All of it, as the runs check it. *)
THEOREM PausedAndResumed == Spec => []Inv
<1>1. TypeOK /\ AsleepIsQuiet /\ AwakeRuns <=> Inv
  BY DEF Inv
<1> QED BY <1>1, ThreadsTypeCorrect, QuietAsleep, RunsAwake, PTL

-----------------------------------------------------------------------------
(* ConMan: the advertising and the parameters of the link.                 *)
(*                                                                         *)
(* What is in a queue: an event of a type, one that reports success, a     *)
(* call.                                                                   *)
Has(s, type)   == \E i \in DOMAIN s : s[i].type = type
HasOk(s, type) == \E i \in DOMAIN s : s[i].type = type /\ s[i].ok
NotOk(s, type) == \E i \in DOMAIN s : s[i].type = type /\ ~s[i].ok
HasCall(c, do) == \E i \in DOMAIN c : c[i].do = do

Configs    == {"advData", "scanRsp"}
IsLink(e)  == e.type \in {"connect", "disconnect"}
IsAdv(e)   == e.type \in {"advStart", "connect"} \/ (e.type = "advStop" /\ e.ok)
SaysAdv(e) == e.type = "advStart" /\ e.ok

(* A connection that is queued last, or known with no end of it queued, is *)
(* there, and one that has ended or is not known is not.                   *)
LinkTold(s, up, con) ==
  /\ \A i \in DOMAIN s : s[i].type = "connect" /\ (\A j \in DOMAIN s : j > i => s[j].type # "disconnect") => up
  /\ \A i \in DOMAIN s : s[i].type = "disconnect" /\ (\A j \in DOMAIN s : j > i => s[j].type # "connect") => ~up
  /\ con /\ ~Has(s, "disconnect") => up
  /\ ~con /\ ~Has(s, "connect") => ~up

(* The last event about advertising tells whether the radio advertises,    *)
(* and with none queued the hint does.                                     *)
AdvTold(s, radio, hint, ref) ==
  /\ \A i \in DOMAIN s :
       IsAdv(s[i]) /\ (\A j \in DOMAIN s : j > i => ~IsAdv(s[j]))
         => (SaysAdv(s[i]) => radio) /\ (radio => SaysAdv(s[i]) \/ ref)
  /\ (\A i \in DOMAIN s : ~IsAdv(s[i])) => (hint => radio) /\ (radio => hint \/ ref)

(* The events of the configuration come before all others.                 *)
ConfigsLead(s) == \A i \in DOMAIN s : s[i].type \in Configs => \A j \in 1..i : s[j].type \in Configs

(* At most one update among the calls, and among the events, and each with *)
(* the parameters under way.                                               *)
OneCall(c)       == \A i, j \in DOMAIN c : c[i].do = "update" /\ c[j].do = "update" => i = j
OneAnswer(s)     == \A i, j \in DOMAIN s : s[i].type = "update" /\ s[j].type = "update" => i = j
Asks(c, p)       == \A i \in DOMAIN c : c[i].do = "update" => c[i].mode = p

-----------------------------------------------------------------------------
LEMMA AppendedTo ==
  ASSUME NEW S, NEW s \in Seq(S), NEW e \in S
  PROVE  /\ Append(s, e) \in Seq(S) /\ DOMAIN s = 1..Len(s) /\ Len(s) \in Nat
         /\ DOMAIN Append(s, e) = 1..(Len(s) + 1)
         /\ Append(s, e)[Len(s) + 1] = e /\ \A i \in 1..Len(s) : Append(s, e)[i] = s[i]
OBVIOUS

LEMMA TakenFrom ==
  ASSUME NEW S, NEW s \in Seq(S), s # <<>>
  PROVE  /\ Tail(s) \in Seq(S) /\ DOMAIN s = 1..Len(s) /\ Len(s) \in Nat /\ Len(s) >= 1 
         /\ Head(s) = s[1] /\ s[1] \in S
         /\ DOMAIN Tail(s) = 1..(Len(s) - 1)
         /\ \A i \in 1..(Len(s) - 1) : Tail(s)[i] = s[i + 1]
         /\ \A j \in 1..Len(s) : j = 1 \/ (j - 1 \in 1..(Len(s) - 1) /\ Tail(s)[j - 1] = s[j])
OBVIOUS

LEMMA JoinedTo ==
  ASSUME NEW S, NEW s \in Seq(S), NEW e \in S
  PROVE  s \o <<>> = s /\ s \o <<e>> = Append(s, e)
OBVIOUS

LEMMA EventPosted ==
  ASSUME NEW s \in Seq(BtEvent), NEW e \in BtEvent
  PROVE  LET z == Append(s, e)
         IN  /\ \A t : Has(z, t) <=> Has(s, t) \/ e.type = t
             /\ \A t : HasOk(z, t) <=> HasOk(s, t) \/ (e.type = t /\ e.ok)
             /\ \A t : NotOk(z, t) <=> NotOk(s, t) \/ (e.type = t /\ ~e.ok)
             /\ ConfigsLead(s) /\ e.type \notin Configs => ConfigsLead(z)
             /\ OneAnswer(s) /\ (e.type = "update" => ~Has(s, "update")) => OneAnswer(z)
<1> DEFINE z == Append(s, e)
<1>1. /\ DOMAIN s = 1..Len(s) /\ Len(s) \in Nat /\ DOMAIN z = 1..(Len(s) + 1)
      /\ z[Len(s) + 1] = e /\ \A i \in 1..Len(s) : z[i] = s[i]
  BY AppendedTo
<1> HIDE DEF z
<1>2. ASSUME NEW t PROVE Has(z, t) <=> Has(s, t) \/ e.type = t
  BY <1>1 DEF Has
<1>3. ASSUME NEW t PROVE HasOk(z, t) <=> HasOk(s, t) \/ (e.type = t /\ e.ok)
  BY <1>1 DEF HasOk
<1>6. ASSUME NEW t PROVE NotOk(z, t) <=> NotOk(s, t) \/ (e.type = t /\ ~e.ok)
  BY <1>1 DEF NotOk
<1>4. ConfigsLead(s) /\ e.type \notin Configs => ConfigsLead(z)
  BY <1>1 DEF ConfigsLead
<1>5. OneAnswer(s) /\ (e.type = "update" => ~Has(s, "update")) => OneAnswer(z)
  BY <1>1 DEF OneAnswer, Has
<1> QED BY <1>2, <1>3, <1>4, <1>5, <1>6 DEF z

LEMMA EventTaken ==
  ASSUME NEW s \in Seq(BtEvent), s # <<>>
  PROVE  LET z == Tail(s) IN
         /\ \A t : Has(s, t) <=> Has(z, t) \/ Head(s).type = t
         /\ \A t : HasOk(s, t) <=> HasOk(z, t) \/ (Head(s).type = t /\ Head(s).ok)
         /\ \A t : NotOk(z, t) => NotOk(s, t)
         /\ \A t : Head(s).type = t /\ ~Head(s).ok => NotOk(s, t)
         /\ ConfigsLead(s) => /\ ConfigsLead(z)
                              /\ Head(s).type \notin Configs => \A c \in Configs : ~Has(s, c)
         /\ OneAnswer(s) => OneAnswer(z) /\ (Head(s).type = "update" => ~Has(z, "update"))
<1> DEFINE z == Tail(s)
<1>1. /\ DOMAIN s = 1..Len(s) /\ Len(s) \in Nat /\ Len(s) >= 1 /\ Head(s) = s[1]
      /\ DOMAIN z = 1..(Len(s) - 1) /\ \A i \in 1..(Len(s) - 1) : z[i] = s[i + 1]
      /\ \A j \in 1..Len(s) : j = 1 \/ (j - 1 \in 1..(Len(s) - 1) /\ z[j - 1] = s[j])
  BY TakenFrom
<1> HIDE DEF z
<1>2. ASSUME NEW t PROVE Has(s, t) <=> Has(z, t) \/ Head(s).type = t
  <2>1. ASSUME NEW i \in DOMAIN z, z[i].type = t PROVE Has(s, t)
    <3>1. i + 1 \in DOMAIN s /\ s[i + 1] = z[i]
      BY <1>1
    <3> QED BY <2>1, <3>1 DEF Has
  <2>2. ASSUME NEW j \in DOMAIN s, s[j].type = t, j # 1 PROVE Has(z, t)
    <3>1. j - 1 \in DOMAIN z /\ s[j] = z[j - 1]
      BY <1>1, <2>2
    <3> QED BY <2>2, <3>1 DEF Has
  <2>3. 1 \in DOMAIN s /\ Head(s) = s[1]
    BY <1>1
  <2> QED BY <2>1, <2>2, <2>3 DEF Has
<1>3. ASSUME NEW t PROVE HasOk(s, t) <=> HasOk(z, t) \/ (Head(s).type = t /\ Head(s).ok)
  <2>1. ASSUME NEW i \in DOMAIN z, z[i].type = t, z[i].ok PROVE HasOk(s, t)
    <3>1. i + 1 \in DOMAIN s /\ s[i + 1] = z[i]
      BY <1>1
    <3> QED BY <2>1, <3>1 DEF HasOk
  <2>2. ASSUME NEW j \in DOMAIN s, s[j].type = t, s[j].ok, j # 1 PROVE HasOk(z, t)
    <3>1. j - 1 \in DOMAIN z /\ s[j] = z[j - 1]
      BY <1>1, <2>2
    <3> QED BY <2>2, <3>1 DEF HasOk
  <2>3. 1 \in DOMAIN s /\ Head(s) = s[1]
    BY <1>1
  <2> QED BY <2>1, <2>2, <2>3 DEF HasOk
<1>7. ASSUME NEW t, NEW i \in DOMAIN z, z[i].type = t, ~z[i].ok PROVE NotOk(s, t)
  <2>1. i + 1 \in DOMAIN s /\ s[i + 1] = z[i]
    BY <1>1
  <2> QED BY <1>7, <2>1 DEF NotOk
<1>8. ASSUME NEW t, NotOk(z, t) PROVE NotOk(s, t)
  BY <1>7, <1>8 DEF NotOk
<1>9. ASSUME NEW t, Head(s).type = t, ~Head(s).ok PROVE NotOk(s, t)
  <2>1. 1 \in DOMAIN s /\ s[1] = Head(s)
    BY <1>1
  <2> QED BY <1>9, <2>1 DEF NotOk
<1>4. ASSUME ConfigsLead(s) PROVE ConfigsLead(z)
  <2> SUFFICES ASSUME NEW i \in DOMAIN z, z[i].type \in Configs, NEW j \in 1..i PROVE z[j].type \in Configs
    BY DEF ConfigsLead
  <2>1. i + 1 \in DOMAIN s /\ s[i + 1].type \in Configs /\ j + 1 \in 1..(i + 1) /\ z[j] = s[j + 1]
    BY <1>1
  <2> QED BY <1>4, <2>1 DEF ConfigsLead
<1>5. ASSUME ConfigsLead(s), Head(s).type \notin Configs, NEW c \in Configs PROVE ~Has(s, c)
  BY <1>1, <1>5 DEF ConfigsLead, Has
<1>6. ASSUME OneAnswer(s) PROVE OneAnswer(z) /\ (Head(s).type = "update" => ~Has(z, "update"))
  <2>1. ASSUME NEW i \in DOMAIN z, NEW j \in DOMAIN z, z[i].type = "update", z[j].type = "update" PROVE i = j
    <3>1. i + 1 \in DOMAIN s /\ j + 1 \in DOMAIN s /\ s[i + 1] = z[i] /\ s[j + 1] = z[j]
      BY <1>1
    <3>2. i + 1 = j + 1
      BY <1>6, <2>1, <3>1 DEF OneAnswer
    <3> QED BY <1>1, <3>2
  <2>2. ASSUME NEW i \in DOMAIN z, z[i].type = "update", s[1].type = "update" PROVE FALSE
    <3>1. i + 1 \in DOMAIN s /\ 1 \in DOMAIN s /\ s[i + 1] = z[i] /\ i + 1 # 1
      BY <1>1
    <3> QED BY <1>6, <2>2, <3>1 DEF OneAnswer
  <2> QED BY <1>1, <2>1, <2>2 DEF OneAnswer, Has
<1> QED BY <1>2, <1>3, <1>4, <1>5, <1>6, <1>8, <1>9 DEF z

LEMMA CallMade ==
  ASSUME NEW c \in Seq(Call), NEW x \in Call
  PROVE  LET z == Append(c, x) IN
         /\ z \in Seq(Call) /\ \A d : HasCall(z, d) <=> HasCall(c, d) \/ x.do = d
         /\ OneCall(c) /\ (x.do = "update" => ~HasCall(c, "update")) => OneCall(z)
         /\ \A p : Asks(c, p) /\ (x.do = "update" => x.mode = p) => Asks(z, p)
<1> DEFINE z == Append(c, x)
<1>1. /\ z \in Seq(Call) /\ DOMAIN c = 1..Len(c) /\ Len(c) \in Nat /\ DOMAIN z = 1..(Len(c) + 1)
      /\ z[Len(c) + 1] = x /\ \A i \in 1..Len(c) : z[i] = c[i]
  BY AppendedTo
<1> HIDE DEF z
<1>2. ASSUME NEW d PROVE HasCall(z, d) <=> HasCall(c, d) \/ x.do = d
  BY <1>1 DEF HasCall
<1>3. OneCall(c) /\ (x.do = "update" => ~HasCall(c, "update")) => OneCall(z)
  BY <1>1 DEF OneCall, HasCall
<1>4. ASSUME NEW p, Asks(c, p), x.do = "update" => x.mode = p PROVE Asks(z, p)
  BY <1>1, <1>4 DEF Asks
<1> QED BY <1>1, <1>2, <1>3, <1>4 DEF z

LEMMA CallTaken ==
  ASSUME NEW c \in Seq(Call), c # <<>>
  PROVE  LET z == Tail(c) IN
         /\ z \in Seq(Call) /\ Head(c) \in Call
         /\ \A d : HasCall(c, d) <=> HasCall(z, d) \/ Head(c).do = d
         /\ OneCall(c) => OneCall(z) /\ (Head(c).do = "update" => ~HasCall(z, "update"))
         /\ \A p : Asks(c, p) => Asks(z, p) /\ (Head(c).do = "update" => Head(c).mode = p)
<1> DEFINE z == Tail(c)
<1>1. /\ z \in Seq(Call) /\ DOMAIN c = 1..Len(c) /\ Len(c) \in Nat /\ Len(c) >= 1
      /\ Head(c) = c[1] /\ c[1] \in Call
      /\ DOMAIN z = 1..(Len(c) - 1) /\ \A i \in 1..(Len(c) - 1) : z[i] = c[i + 1]
      /\ \A j \in 1..Len(c) : j = 1 \/ (j - 1 \in 1..(Len(c) - 1) /\ z[j - 1] = c[j])
  BY TakenFrom
<1> HIDE DEF z
<1>2. ASSUME NEW d PROVE HasCall(c, d) <=> HasCall(z, d) \/ Head(c).do = d
  <2>1. ASSUME NEW i \in DOMAIN z, z[i].do = d PROVE HasCall(c, d)
    <3>1. i + 1 \in DOMAIN c /\ c[i + 1] = z[i]
      BY <1>1
    <3> QED BY <2>1, <3>1 DEF HasCall
  <2>2. ASSUME NEW j \in DOMAIN c, c[j].do = d, j # 1 PROVE HasCall(z, d)
    <3>1. j - 1 \in DOMAIN z /\ c[j] = z[j - 1]
      BY <1>1, <2>2
    <3> QED BY <2>2, <3>1 DEF HasCall
  <2>3. 1 \in DOMAIN c /\ Head(c) = c[1]
    BY <1>1
  <2> QED BY <2>1, <2>2, <2>3 DEF HasCall
<1>3. ASSUME OneCall(c) PROVE OneCall(z) /\ (Head(c).do = "update" => ~HasCall(z, "update"))
  <2>1. ASSUME NEW i \in DOMAIN z, NEW j \in DOMAIN z, z[i].do = "update", z[j].do = "update" PROVE i = j
    <3>1. i + 1 \in DOMAIN c /\ j + 1 \in DOMAIN c /\ c[i + 1] = z[i] /\ c[j + 1] = z[j]
      BY <1>1
    <3>2. i + 1 = j + 1
      BY <1>3, <2>1, <3>1 DEF OneCall
    <3> QED BY <1>1, <3>2
  <2>2. ASSUME NEW i \in DOMAIN z, z[i].do = "update", c[1].do = "update" PROVE FALSE
    <3>1. i + 1 \in DOMAIN c /\ 1 \in DOMAIN c /\ c[i + 1] = z[i] /\ i + 1 # 1
      BY <1>1
    <3> QED BY <1>3, <2>2, <3>1 DEF OneCall
  <2> QED BY <1>1, <2>1, <2>2 DEF OneCall, HasCall
<1>4. ASSUME NEW p, Asks(c, p) PROVE Asks(z, p) /\ (Head(c).do = "update" => Head(c).mode = p)
  <2>1. \A i \in DOMAIN z : i + 1 \in DOMAIN c /\ c[i + 1] = z[i]
    BY <1>1
  <2> QED BY <1>1, <1>4, <2>1 DEF Asks
<1> QED BY <1>1, <1>2, <1>3, <1>4 DEF z

(* What is told of the link stays told, as events come and are taken.      *)
LEMMA LinkPosted ==
  ASSUME NEW s \in Seq(BtEvent), NEW e \in BtEvent, NEW up, NEW con, NEW up2, LinkTold(s, up, con),
         e.type = "connect" => up2, e.type = "disconnect" => ~up2, ~IsLink(e) => (up2 <=> up)
  PROVE  LinkTold(Append(s, e), up2, con)
<1> DEFINE z == Append(s, e)
<1>1. /\ DOMAIN s = 1..Len(s) /\ Len(s) \in Nat /\ DOMAIN z = 1..(Len(s) + 1)
      /\ z[Len(s) + 1] = e /\ \A i \in 1..Len(s) : z[i] = s[i]
  BY AppendedTo
<1>2. \A t : Has(z, t) <=> Has(s, t) \/ e.type = t
  BY EventPosted
<1> HIDE DEF z
<1>3. ASSUME NEW i \in DOMAIN z, z[i].type = "connect", \A j \in DOMAIN z : j > i => z[j].type # "disconnect"
      PROVE  up2
  <2>1. CASE i = Len(s) + 1
    BY <1>1, <1>3, <2>1
  <2>2. CASE i # Len(s) + 1
    <3>1. i \in DOMAIN s /\ z[i] = s[i] /\ Len(s) + 1 \in DOMAIN z /\ Len(s) + 1 > i
      BY <1>1, <2>2
    <3>2. e.type # "disconnect" /\ \A j \in DOMAIN s : j > i => s[j].type # "disconnect"
      BY <1>1, <1>3, <3>1
    <3> QED BY <1>3, <3>1, <3>2 DEF LinkTold, IsLink
  <2> QED BY <2>1, <2>2
<1>4. ASSUME NEW i \in DOMAIN z, z[i].type = "disconnect", \A j \in DOMAIN z : j > i => z[j].type # "connect"
      PROVE  ~up2
  <2>1. CASE i = Len(s) + 1
    BY <1>1, <1>4, <2>1
  <2>2. CASE i # Len(s) + 1
    <3>1. i \in DOMAIN s /\ z[i] = s[i] /\ Len(s) + 1 \in DOMAIN z /\ Len(s) + 1 > i
      BY <1>1, <2>2
    <3>2. e.type # "connect" /\ \A j \in DOMAIN s : j > i => s[j].type # "connect"
      BY <1>1, <1>4, <3>1
    <3> QED BY <1>4, <3>1, <3>2 DEF LinkTold, IsLink
  <2> QED BY <2>1, <2>2
<1>5. (con /\ ~Has(z, "disconnect") => up2) /\ (~con /\ ~Has(z, "connect") => ~up2)
  BY <1>2 DEF LinkTold, IsLink
<1> QED BY <1>3, <1>4, <1>5 DEF LinkTold, z

LEMMA LinkTaken ==
  ASSUME NEW s \in Seq(BtEvent), s # <<>>, NEW up, NEW con, NEW con2, LinkTold(s, up, con),
         Head(s).type = "connect" => con2, Head(s).type = "disconnect" => ~con2,
         ~IsLink(Head(s)) => (con2 <=> con)
  PROVE  LinkTold(Tail(s), up, con2)
<1> DEFINE z == Tail(s)
<1>1. /\ DOMAIN s = 1..Len(s) /\ Len(s) \in Nat /\ Len(s) >= 1 /\ Head(s) = s[1]
      /\ DOMAIN z = 1..(Len(s) - 1) /\ \A i \in 1..(Len(s) - 1) : z[i] = s[i + 1]
      /\ \A j \in 1..Len(s) : j = 1 \/ (j - 1 \in 1..(Len(s) - 1) /\ z[j - 1] = s[j])
  BY TakenFrom
<1>2. \A t : Has(s, t) <=> Has(z, t) \/ Head(s).type = t
  BY EventTaken
<1> HIDE DEF z
<1>3. ASSUME NEW t, NEW i \in DOMAIN z, \A j \in DOMAIN z : j > i => z[j].type # t
      PROVE  i + 1 \in DOMAIN s /\ s[i + 1] = z[i] /\ \A j \in DOMAIN s : j > i + 1 => s[j].type # t
  <2>1. ASSUME NEW j \in DOMAIN s, j > i + 1 PROVE s[j].type # t
    <3>1. j - 1 \in DOMAIN z /\ j - 1 > i /\ z[j - 1] = s[j]
      BY <1>1, <2>1
    <3> QED BY <1>3, <3>1
  <2> QED BY <1>1, <2>1
<1>4. ASSUME NEW t, ~Has(z, t) PROVE 1 \in DOMAIN s /\ \A j \in DOMAIN s : j > 1 => s[j].type # t
  <2>1. ASSUME NEW j \in DOMAIN s, j > 1 PROVE s[j].type # t
    <3>1. j - 1 \in DOMAIN z /\ z[j - 1] = s[j]
      BY <1>1, <2>1
    <3> QED BY <1>4, <3>1 DEF Has
  <2> QED BY <1>1, <2>1
<1>5. ASSUME NEW i \in DOMAIN z, z[i].type = "connect", \A j \in DOMAIN z : j > i => z[j].type # "disconnect"
      PROVE  up
  <2>1. /\ i + 1 \in DOMAIN s /\ s[i + 1].type = "connect"
        /\ \A j \in DOMAIN s : j > i + 1 => s[j].type # "disconnect"
    BY <1>3, <1>5, Zenon
  <2> QED BY <2>1 DEF LinkTold
<1>6. ASSUME NEW i \in DOMAIN z, z[i].type = "disconnect", \A j \in DOMAIN z : j > i => z[j].type # "connect"
      PROVE  ~up
  <2>1. /\ i + 1 \in DOMAIN s /\ s[i + 1].type = "disconnect"
        /\ \A j \in DOMAIN s : j > i + 1 => s[j].type # "connect"
    BY <1>3, <1>6, Zenon
  <2> QED BY <2>1 DEF LinkTold
<1>7. ASSUME con2, ~Has(z, "disconnect") PROVE up
  <2>1. CASE s[1].type = "connect"
    BY <1>4, <1>7, <2>1 DEF LinkTold
  <2>2. CASE s[1].type # "connect"
    BY <1>1, <1>2, <1>7, <2>2 DEF LinkTold, IsLink
  <2> QED BY <2>1, <2>2
<1>8. ASSUME ~con2, ~Has(z, "connect") PROVE ~up
  <2>1. CASE s[1].type = "disconnect"
    BY <1>4, <1>8, <2>1 DEF LinkTold
  <2>2. CASE s[1].type # "disconnect"
    BY <1>1, <1>2, <1>8, <2>2 DEF LinkTold, IsLink
  <2> QED BY <2>1, <2>2
<1> QED BY <1>5, <1>6, <1>7, <1>8 DEF LinkTold, z

LEMMA AdvPosted ==
  ASSUME NEW s \in Seq(BtEvent), NEW e \in BtEvent, NEW radio, NEW hint, NEW ref, NEW radio2, NEW ref2,
         AdvTold(s, radio, hint, ref), ref => ref2,
         IsAdv(e) => (SaysAdv(e) => radio2) /\ (radio2 => SaysAdv(e) \/ ref2),
         ~IsAdv(e) => (radio2 <=> radio)
  PROVE  AdvTold(Append(s, e), radio2, hint, ref2)
<1> DEFINE z == Append(s, e)
<1>1. /\ DOMAIN s = 1..Len(s) /\ Len(s) \in Nat /\ DOMAIN z = 1..(Len(s) + 1)
      /\ z[Len(s) + 1] = e /\ \A i \in 1..Len(s) : z[i] = s[i]
  BY AppendedTo
<1> HIDE DEF z
<1>2. ASSUME NEW i \in DOMAIN z, IsAdv(z[i]), \A j \in DOMAIN z : j > i => ~IsAdv(z[j])
      PROVE  (SaysAdv(z[i]) => radio2) /\ (radio2 => SaysAdv(z[i]) \/ ref2)
  <2>1. CASE i = Len(s) + 1
    BY <1>1, <1>2, <2>1
  <2>2. CASE i # Len(s) + 1
    <3>1. i \in DOMAIN s /\ z[i] = s[i] /\ Len(s) + 1 \in DOMAIN z /\ Len(s) + 1 > i
      BY <1>1, <2>2
    <3>2. ~IsAdv(e) /\ \A j \in DOMAIN s : j > i => ~IsAdv(s[j])
      BY <1>1, <1>2, <3>1
    <3> QED BY <1>2, <3>1, <3>2 DEF AdvTold
  <2> QED BY <2>1, <2>2
<1>3. ASSUME \A i \in DOMAIN z : ~IsAdv(z[i]) PROVE (hint => radio2) /\ (radio2 => hint \/ ref2)
  <2>1. ~IsAdv(e) /\ \A i \in DOMAIN s : ~IsAdv(s[i])
    BY <1>1, <1>3
  <2> QED BY <2>1 DEF AdvTold
<1> QED BY <1>2, <1>3 DEF AdvTold, z

LEMMA AdvTaken ==
  ASSUME NEW s \in Seq(BtEvent), s # <<>>, NEW radio, NEW hint, NEW ref, NEW hint2, NEW ref2,
         AdvTold(s, radio, hint, ref), ref => ref2,
         IsAdv(Head(s)) => (hint2 <=> SaysAdv(Head(s))), ~IsAdv(Head(s)) => (hint2 <=> hint)
  PROVE  AdvTold(Tail(s), radio, hint2, ref2)
<1> DEFINE z == Tail(s)
<1>1. /\ DOMAIN s = 1..Len(s) /\ Len(s) \in Nat /\ Len(s) >= 1 /\ Head(s) = s[1]
      /\ DOMAIN z = 1..(Len(s) - 1) /\ \A i \in 1..(Len(s) - 1) : z[i] = s[i + 1]
      /\ \A j \in 1..Len(s) : j = 1 \/ (j - 1 \in 1..(Len(s) - 1) /\ z[j - 1] = s[j])
  BY TakenFrom
<1> HIDE DEF z
<1>2. ASSUME NEW i \in DOMAIN z, IsAdv(z[i]), \A j \in DOMAIN z : j > i => ~IsAdv(z[j])
      PROVE  (SaysAdv(z[i]) => radio) /\ (radio => SaysAdv(z[i]) \/ ref2)
  <2>1. i + 1 \in DOMAIN s /\ s[i + 1] = z[i]
    BY <1>1
  <2>2. ASSUME NEW j \in DOMAIN s, j > i + 1 PROVE ~IsAdv(s[j])
    <3>1. j - 1 \in DOMAIN z /\ j - 1 > i /\ z[j - 1] = s[j]
      BY <1>1, <2>2
    <3> QED BY <1>2, <3>1
  <2> QED BY <1>2, <2>1, <2>2 DEF AdvTold
<1>3. ASSUME \A i \in DOMAIN z : ~IsAdv(z[i]) PROVE (hint2 => radio) /\ (radio => hint2 \/ ref2)
  <2>1. ASSUME NEW j \in DOMAIN s, j # 1 PROVE ~IsAdv(s[j])
    BY <1>1, <1>3, <2>1
  <2>2. 1 \in DOMAIN s /\ \A j \in DOMAIN s : j > 1 => ~IsAdv(s[j])
    BY <1>1, <2>1
  <2>3. CASE IsAdv(Head(s))
    BY <1>1, <2>2, <2>3 DEF AdvTold
  <2>4. CASE ~IsAdv(Head(s))
    BY <1>1, <2>1, <2>4 DEF AdvTold
  <2> QED BY <2>3, <2>4
<1> QED BY <1>2, <1>3 DEF AdvTold, z

-----------------------------------------------------------------------------
(* The invariant.                                                          *)

OnLink(t)  == pc[t] \in {"setCon", "conf", "stop"}
OffLink(t) == pc[t] \in {"want", "start"}

(* Where each thread may be, and what it then knows of the connection: the *)
(* BTC task always, LVGL's thread as long as nobody has meddled.           *)
Places ==
  /\ pc["btc"] # "go" /\ pc["lvgl"] # "stop"
  /\ OnLink("btc") => connected
  /\ OffLink("btc") => ~connected \/ meddled
  /\ \A t \in Threads : pc[t] = "conf" => choice[t] \in Mode
  /\ ~meddled => /\ pc["lvgl"] # "idle" => ~OnLink("btc")
                 /\ OffLink("lvgl") => ~connected
                 /\ OnLink("lvgl") => connected

(* Advertising is wanted exactly while there is no connection.             *)
Wants ==
  /\ ~meddled /\ connected /\ ~OnLink("btc") => ~wantAdv
  /\ ~connected /\ (\A c \in Configs : ~Has(events, c)) /\ pc["btc"] # "want" => wantAdv

(* The configuration's events come first, and none is lost.                *)
Configured ==
  /\ ConfigsLead(events) /\ (connected => \A c \in Configs : ~Has(events, c))
  /\ \A c \in Configs : c \in configsDone \/ Has(events, c)

(* An answer that a start has failed was a refusal.                        *)
Refusals == NotOk(events, "advStart") => refused

(* Advertising that is wanted has been started, or something is under way  *)
(* that starts it; and what is not wanted stops.                           *)
WantServed ==
  wantAdv /\ ~refused /\ ~OnLink("btc") =>
    \/ advertising \/ HasCall(calls, "start") \/ HasCall(calls, "stop")
    \/ HasOk(events, "advStart") \/ HasOk(events, "advStop") \/ Has(events, "connect")
    \/ OffLink("btc") \/ OffLink("lvgl")
UnwantedStops ==
  ~wantAdv /\ advertising /\ ~refused =>
    HasCall(calls, "stop") \/ HasOk(events, "advStop") \/ Has(events, "connect")

(* Parameters count as under way only while an update is.                  *)
Updating   == HasCall(calls, "update") \/ Has(events, "update")
CurrentOut == current # None => Updating

(* On a link that is there and was not disturbed: one update at a time,    *)
(* of the parameters under way; and what waits, is under way or is set, in *)
(* this order, is what the power mode asks for.                            *)
Steady == ~refused /\ ~meddled /\ ~leftover /\ connected /\ ~Has(events, "disconnect")

OneUpdate ==
  /\ current = None => ~Updating
  /\ OneCall(calls) /\ OneAnswer(events) /\ ~(HasCall(calls, "update") /\ Has(events, "update"))
  /\ Asks(calls, current) /\ (HasOk(events, "update") => linkMode = current)

Asked == IF lowPow THEN "low" ELSE "high"

ModeComes ==
  /\ \A t \in Threads : pc[t] = "conf" => choice[t] = Asked
  /\ (\A t \in Threads : pc[t] \notin {"go", "setCon", "conf"}) =>
        \/ queued = Asked
        \/ queued = None /\ current = Asked
        \/ queued = None /\ current = None /\ linkMode = Asked

ConIInv ==
  /\ ConTypeOK /\ PendingHasCurrent
  /\ LinkTold(events, link, connected) /\ AdvTold(events, radioAdv, advertising, refused)
  /\ Refusals /\ Configured /\ WantServed /\ UnwantedStops /\ Places /\ Wants /\ CurrentOut
  /\ Steady => OneUpdate /\ ModeComes

-----------------------------------------------------------------------------
LEMMA ConInitIInv == ConInit => ConIInv
<1> SUFFICES ASSUME ConInit PROVE ConIInv
  OBVIOUS
<1>1. PICK a \in Configs, b \in Configs : events = <<[type |-> a], [type |-> b]>> /\ a # b
  <2>1. PICK a \in Configs, b \in Configs : events = <<[type |-> a], [type |-> b]>>
    BY DEF ConInit, Configs
  <2>2. events[1] # events[2]
    BY DEF ConInit
  <2>3. a # b
    BY <2>1, <2>2
  <2> QED BY <2>1, <2>3
<1>2. /\ DOMAIN events = {1, 2} /\ Len(events) = 2 /\ events[1] = [type |-> a] /\ events[2] = [type |-> b]
  BY <1>1
<1>3. events[1].type = a /\ events[2].type = b /\ events \in Seq(BtEvent)
  <2>1. [type |-> a] \in BtEvent /\ [type |-> b] \in BtEvent
    BY DEF BtEvent, Configs
  <2> QED BY <1>1, <2>1
<1>4. \A t : Has(events, t) <=> t = a \/ t = b
  BY <1>2, <1>3 DEF Has
<1>5. \A c \in Configs : Has(events, c)
  BY <1>1, <1>4 DEF Configs
<1>6. ConfigsLead(events)
  <2> SUFFICES ASSUME NEW i \in DOMAIN events, NEW j \in 1..i PROVE events[j].type \in Configs
    BY DEF ConfigsLead
  <2>1. j \in {1, 2}
    BY <1>2
  <2> QED BY <1>3, <2>1
<1>7. \A i \in DOMAIN events : ~IsLink(events[i]) /\ ~IsAdv(events[i])
  BY <1>2, <1>3 DEF IsLink, IsAdv, Configs
<1>8. ~(\E i \in DOMAIN calls : TRUE) /\ \A d : ~HasCall(calls, d)
  BY DEF ConInit, HasCall
<1>9. 0 \in 0..MaxLinks /\ 0 \in 0..MaxModes /\ 0 \in 0..MaxFails
  BY ConAssumption
<1>10. ConTypeOK
  <2>1. calls \in Seq(Call)
    BY DEF ConInit
  <2>2. pc \in [Threads -> {"idle", "go", "setCon", "conf", "want", "start", "stop"}]
    BY DEF ConInit
  <2>3. choice \in [Threads -> Mode \cup {None}]
    BY DEF ConInit
  <2> QED BY <1>3, <1>9, <2>1, <2>2, <2>3, Zenon DEF ConInit, ConTypeOK
<1>11. LinkTold(events, link, connected) /\ AdvTold(events, radioAdv, advertising, refused)
  BY <1>7 DEF LinkTold, AdvTold, IsLink, ConInit
<1>12. Configured /\ Wants
  BY <1>5, <1>6 DEF Configured, Wants, ConInit, Configs
<1>15. Refusals
  BY <1>2, <1>3 DEF Refusals, NotOk, Configs
<1>13. pc["btc"] = "idle" /\ pc["lvgl"] = "idle" /\ \A t \in Threads : pc[t] = "idle"
  BY DEF ConInit, Threads
<1>14. Places
  BY <1>13 DEF Places, OnLink, OffLink
<1> QED BY <1>10, <1>11, <1>12, <1>14, <1>15
        DEF ConIInv, PendingHasCurrent, WantServed, UnwantedStops, CurrentOut, Steady, ConInit

(* The stack answers a call, as its event says. *)
LEMMA AnswerStep ==
  ASSUME ConIInv, calls # <<>>, NEW e \in BtEvent, NEW c \in Call, c = Head(calls), Answer(e), Stack,
         UNCHANGED <<link, links>>,
         radioAdv' \in BOOLEAN, linkMode' \in Mode \cup {None}, fails' \in 0..MaxFails, refused' \in BOOLEAN,
         refused => refused',
         \/ c.do = "start" /\ e.type = "advStart"
         \/ c.do = "stop" /\ e.type = "advStop"
         \/ c.do = "update" /\ e.type = "update",
         e.type # "update" => (refused' \/ e.ok),
         IsAdv(e) => (SaysAdv(e) => radioAdv') /\ (radioAdv' => SaysAdv(e) \/ refused'),
         ~IsAdv(e) => (radioAdv' <=> radioAdv),
         e.type = "update" /\ e.ok => linkMode' = c.mode,
         e.type # "update" \/ ~e.ok => linkMode' = linkMode
  PROVE  ConIInv'
<1>1. events \in Seq(BtEvent) /\ calls \in Seq(Call) /\ ConTypeOK
  BY DEF ConIInv, ConTypeOK
<1>2. events' = Append(events, e) /\ calls' = Tail(calls)
  BY DEF Answer
<1>3. /\ UNCHANGED <<modes, configsDone, connected, advertising, wantAdv, lowPow, current, queued>>
      /\ UNCHANGED <<pc, choice, meddled, leftover>>
  BY DEF Stack, manVars, confVars
<1>4. /\ \A t : Has(events', t) <=> Has(events, t) \/ e.type = t
      /\ \A t : HasOk(events', t) <=> HasOk(events, t) \/ (e.type = t /\ e.ok)
      /\ \A t : NotOk(events', t) <=> NotOk(events, t) \/ (e.type = t /\ ~e.ok)
      /\ ConfigsLead(events) /\ e.type \notin Configs => ConfigsLead(events')
      /\ OneAnswer(events) /\ (e.type = "update" => ~Has(events, "update")) => OneAnswer(events')
  BY <1>1, <1>2, EventPosted
<1>5. /\ \A d : HasCall(calls, d) <=> HasCall(calls', d) \/ c.do = d
      /\ OneCall(calls) => OneCall(calls') /\ (c.do = "update" => ~HasCall(calls', "update"))
      /\ \A p : Asks(calls, p) => Asks(calls', p) /\ (c.do = "update" => c.mode = p)
  BY <1>1, <1>2, CallTaken
<1>6. ConTypeOK'
  <2>1. events' \in Seq(BtEvent) /\ calls' \in Seq(Call)
    BY <1>1, <1>2, AppendedTo, TakenFrom
  <2>2. link' \in BOOLEAN /\ links' \in 0..MaxLinks
    BY <1>1 DEF ConTypeOK
  <2> QED BY <1>1, <1>3, <2>1, <2>2, ZenonT(40) DEF ConTypeOK
<1>7. PendingHasCurrent'
  BY <1>3 DEF ConIInv, PendingHasCurrent
<1>8. LinkTold(events', link', connected')
  <2>1. LinkTold(Append(events, e), link, connected)
    <3>1. ~IsLink(e)
      BY DEF IsLink
    <3> QED BY <1>1, <3>1, LinkPosted DEF ConIInv
  <2> QED BY <1>2, <1>3, <2>1
<1>9. AdvTold(events', radioAdv', advertising', refused')
  <2>1. AdvTold(Append(events, e), radioAdv', advertising, refused')
    BY <1>1, AdvPosted DEF ConIInv
  <2> QED BY <1>2, <1>3, <2>1
<1>10. Configured'
  <2>1. e.type \notin Configs
    BY DEF Configs
  <2> QED BY <1>3, <1>4, <2>1 DEF ConIInv, Configured, Configs
<1>17. Refusals'
  BY <1>3, <1>4 DEF ConIInv, Refusals
<1>11. WantServed'
  BY <1>3, <1>4, <1>5 DEF ConIInv, WantServed, OnLink, OffLink
<1>12. UnwantedStops'
  BY <1>3, <1>4, <1>5 DEF ConIInv, UnwantedStops
<1>13. Places'
  BY <1>3 DEF ConIInv, Places, OnLink, OffLink
<1>14. Wants'
  BY <1>3, <1>4 DEF ConIInv, Wants, OnLink, Configs
<1>15. CurrentOut'
  BY <1>3, <1>4, <1>5 DEF ConIInv, CurrentOut, Updating
<1>16. ASSUME Steady' PROVE OneUpdate' /\ ModeComes'
  <2>1. Steady
    BY <1>3, <1>4, <1>16 DEF Steady
  <2>2. OneUpdate /\ ModeComes
    BY <2>1 DEF ConIInv
  <2>3. OneUpdate'
    BY <1>3, <1>4, <1>5, <2>2 DEF OneUpdate, Updating
  <2>4. current = None => linkMode' = linkMode
    BY <1>5, <2>2 DEF OneUpdate, Updating
  <2>5. ModeComes'
    BY <1>3, <2>2, <2>4 DEF ModeComes, Asked
  <2> QED BY <2>3, <2>5
<1> QED BY <1>6, <1>7, <1>8, <1>9, <1>10, <1>11, <1>12, <1>13, <1>14, <1>15, <1>16, <1>17 DEF ConIInv

LEMMA StackStepIInv == ConIInv /\ StackStep => ConIInv'
<1> SUFFICES ASSUME ConIInv, StackStep PROVE ConIInv'
  OBVIOUS
<1>1. calls \in Seq(Call) /\ calls # <<>> /\ ConTypeOK
  BY DEF ConIInv, ConTypeOK, StackStep, StackStarts, StackStops, StackUpdates, StackRefuses
<1>2. Head(calls) \in Call
  BY <1>1
<1> DEFINE c == Head(calls)
<1>3. c.do \in {"start", "stop", "update"} /\ (c.do = "update" => c.mode \in Mode)
  BY <1>2 DEF Call
<1>4. /\ radioAdv \in BOOLEAN /\ linkMode \in Mode \cup {None} /\ fails \in 0..MaxFails /\ refused \in BOOLEAN
      /\ MaxFails \in Nat
  BY <1>1, ConAssumption DEF ConTypeOK
<1>5. \A ok \in BOOLEAN : \A t \in {"advStart", "advStop", "update"} : [type |-> t, ok |-> ok] \in BtEvent
  BY DEF BtEvent
<1> HIDE DEF c
<1>6. CASE StackStarts
  <2> DEFINE e == [type |-> "advStart", ok |-> TRUE]
  <2>1. /\ c.do = "start" /\ Answer(e) /\ Stack /\ radioAdv' = TRUE
        /\ UNCHANGED <<link, linkMode, links, fails, refused>>
    BY <1>6 DEF StackStarts, c
  <2>2. e \in BtEvent /\ e.type = "advStart" /\ e.ok = TRUE
    BY <1>5
  <2> HIDE DEF e
  <2>3. IsAdv(e) /\ SaysAdv(e)
    BY <2>2 DEF IsAdv, SaysAdv
  <2> QED BY <1>1, <1>2, <1>4, <2>1, <2>2, <2>3, AnswerStep, Zenon DEF c
<1>7. CASE StackStops
  <2> DEFINE e == [type |-> "advStop", ok |-> TRUE]
  <2>1. /\ c.do = "stop" /\ Answer(e) /\ Stack /\ radioAdv' = FALSE
        /\ UNCHANGED <<link, linkMode, links, fails, refused>>
    BY <1>7 DEF StackStops, c
  <2>2. e \in BtEvent /\ e.type = "advStop" /\ e.ok = TRUE
    BY <1>5
  <2> HIDE DEF e
  <2>3. IsAdv(e) /\ ~SaysAdv(e)
    BY <2>2 DEF IsAdv, SaysAdv
  <2> QED BY <1>1, <1>2, <1>4, <2>1, <2>2, <2>3, AnswerStep, Zenon DEF c
<1>8. CASE StackUpdates
  <2> DEFINE e == [type |-> "update", ok |-> TRUE]
  <2>1. /\ c.do = "update" /\ Answer(e) /\ Stack /\ linkMode' = c.mode
        /\ UNCHANGED <<radioAdv, link, links, fails, refused>>
    BY <1>8 DEF StackUpdates, c
  <2>2. e \in BtEvent /\ e.type = "update" /\ e.ok = TRUE
    BY <1>5
  <2> HIDE DEF e
  <2>3. ~IsAdv(e) /\ linkMode' \in Mode \cup {None}
    BY <1>3, <2>1, <2>2 DEF IsAdv
  <2> QED BY <1>1, <1>2, <1>4, <2>1, <2>2, <2>3, AnswerStep, Zenon DEF c
<1>9. CASE StackRefuses
  <2> DEFINE e == [type |-> CASE c.do = "start" -> "advStart" [] c.do = "stop" -> "advStop"
                              [] c.do = "update" -> "update", ok |-> FALSE]
  <2>1. /\ Answer(e) /\ Stack /\ UNCHANGED <<radioAdv, link, linkMode, links>>
        /\ refused' = (refused \/ c.do # "update")
        /\ fails' = fails \/ (fails < MaxFails /\ fails' = fails + 1)
    BY <1>9 DEF StackRefuses, c
  <2>2. \/ c.do = "start" /\ e.type = "advStart"
        \/ c.do = "stop" /\ e.type = "advStop"
        \/ c.do = "update" /\ e.type = "update"
    BY <1>3
  <2>3. e \in BtEvent /\ e.ok = FALSE
    BY <1>3, <1>5
  <2> HIDE DEF e
  <2>4. fails' \in 0..MaxFails
    BY <1>4, <2>1
  <2>5. /\ refused' \in BOOLEAN /\ (refused => refused') /\ (e.type # "update" => (refused' \/ e.ok))
    BY <2>1, <2>2, Zenon
  <2>6. IsAdv(e) => c.do = "start" /\ ~SaysAdv(e) /\ refused'
    BY <2>1, <2>2, <2>3 DEF IsAdv, SaysAdv
  <2>7. ~e.ok
    BY <2>3
  <2> QED BY <1>1, <1>2, <1>4, <2>1, <2>2, <2>3, <2>4, <2>5, <2>6, <2>7, AnswerStep, Zenon DEF c
<1> QED BY <1>6, <1>7, <1>8, <1>9 DEF StackStep

(* A central connects, or is gone. *)
LEMMA CentralIInv == ConIInv /\ Central => ConIInv'
<1> SUFFICES ASSUME ConIInv, Central PROVE ConIInv'
  OBVIOUS
<1>1. events \in Seq(BtEvent) /\ ConTypeOK /\ MaxLinks \in Nat
  BY ConAssumption DEF ConIInv, ConTypeOK
<1>2. /\ UNCHANGED <<modes, configsDone, connected, advertising, wantAdv, lowPow, current, queued>>
      /\ UNCHANGED <<pc, choice, meddled, leftover, calls, fails, refused>>
  BY DEF Central, CentralConnects, LinkLost, Stack, manVars, confVars
<1>3. /\ PendingHasCurrent' /\ Places'
  BY <1>2 DEF ConIInv, PendingHasCurrent, Places, OnLink, OffLink
<1>4. CASE CentralConnects
  <2> DEFINE e == [type |-> "connect"]
             a == [type |-> "advStop", ok |-> TRUE]
             s == Append(events, e)
  <2>1. /\ ~link /\ links' = links + 1 /\ links < MaxLinks /\ link' = TRUE /\ radioAdv' = FALSE
        /\ linkMode' = None
    BY <1>4 DEF CentralConnects
  <2>2. e \in BtEvent /\ a \in BtEvent /\ e.type = "connect" /\ a.type = "advStop" /\ a.ok = TRUE
    BY DEF BtEvent
  <2>3. s \in Seq(BtEvent)
    BY <1>1, <2>2
  <2>4. events' = s \/ events' = Append(s, a)
    <3>1. PICK also \in {<<>>, <<a>>} : events' = s \o also
      BY <1>4 DEF CentralConnects
    <3> HIDE DEF s, a
    <3> QED BY <2>2, <2>3, <3>1, JoinedTo
  <2> HIDE DEF e, a
  <2>5. /\ \A t : Has(s, t) <=> Has(events, t) \/ t = "connect"
        /\ \A t : NotOk(s, t) => NotOk(events, t) \/ t = "connect"
        /\ ConfigsLead(events) => ConfigsLead(s)
    BY <1>1, <2>2, EventPosted DEF Configs
  <2>6. LinkTold(s, link', connected) /\ AdvTold(s, radioAdv', advertising, refused)
    <3>1. LinkTold(s, link', connected)
      BY <1>1, <2>1, <2>2, LinkPosted DEF ConIInv, IsLink
    <3>2. IsAdv(e) /\ ~SaysAdv(e)
      BY <2>2 DEF IsAdv, SaysAdv
    <3>3. AdvTold(s, radioAdv', advertising, refused)
      BY <1>1, <2>1, <2>2, <3>2, AdvPosted DEF ConIInv
    <3> QED BY <3>1, <3>3
  <2> HIDE DEF s
  <2>7. LET z == Append(s, a)
        IN  /\ z \in Seq(BtEvent)
            /\ \A t : Has(z, t) <=> Has(s, t) \/ t = "advStop"
            /\ \A t : NotOk(z, t) => NotOk(s, t)
            /\ ConfigsLead(s) => ConfigsLead(z)
    BY <2>2, <2>3, EventPosted DEF Configs
  <2>8. LET z == Append(s, a) IN LinkTold(z, link', connected) /\ AdvTold(z, radioAdv', advertising, refused)
    <3>1. LinkTold(Append(s, a), link', connected)
      BY <2>2, <2>3, <2>6, LinkPosted DEF IsLink
    <3>2. IsAdv(a) /\ ~SaysAdv(a)
      BY <2>2 DEF IsAdv, SaysAdv
    <3>3. AdvTold(Append(s, a), radioAdv', advertising, refused)
      BY <2>1, <2>2, <2>3, <2>6, <3>2, AdvPosted
    <3> QED BY <3>1, <3>3
  <2>9. /\ LinkTold(events', link', connected') /\ AdvTold(events', radioAdv', advertising', refused')
        /\ events' \in Seq(BtEvent)
    BY <1>2, <2>3, <2>4, <2>6, <2>7, <2>8
  <2>10. /\ \A t : t # "advStop" => (Has(events', t) <=> Has(events, t) \/ t = "connect")
         /\ \A t : t # "connect" => (NotOk(events', t) => NotOk(events, t))
         /\ ConfigsLead(events) => ConfigsLead(events')
    BY <2>4, <2>5, <2>7
  <2>11. ConTypeOK'
    <3>1. links' \in 0..MaxLinks
      BY <1>1, <2>1 DEF ConTypeOK
    <3> QED BY <1>1, <1>2, <2>1, <2>9, <3>1, ZenonT(40) DEF ConTypeOK
  <2>12. Configured' /\ Refusals' /\ Wants'
    BY <1>2, <2>10 DEF ConIInv, Configured, Refusals, Wants, OnLink, Configs
  <2>13. WantServed' /\ UnwantedStops'
    BY <2>10 DEF WantServed, UnwantedStops
  <2>14. CurrentOut'
    BY <1>2, <2>10 DEF ConIInv, CurrentOut, Updating
  <2>15. ~Steady'
    BY <1>2, <2>1, <2>10 DEF ConIInv, Steady, LinkTold
  <2> QED BY <1>3, <2>9, <2>11, <2>12, <2>13, <2>14, <2>15 DEF ConIInv
<1>5. CASE LinkLost
  <2> DEFINE e == [type |-> "disconnect"]
  <2>1. link' = FALSE /\ UNCHANGED <<radioAdv, linkMode, links>> /\ events' = Append(events, e)
    BY <1>5 DEF LinkLost
  <2>2. e \in BtEvent /\ e.type = "disconnect"
    BY DEF BtEvent
  <2> HIDE DEF e
  <2>3. /\ \A t : Has(events', t) <=> Has(events, t) \/ t = "disconnect"
        /\ \A t : HasOk(events, t) => HasOk(events', t)
        /\ \A t : NotOk(events', t) => NotOk(events, t) \/ t = "disconnect"
        /\ ConfigsLead(events) => ConfigsLead(events')
    BY <1>1, <2>1, <2>2, EventPosted DEF Configs
  <2>4. LinkTold(Append(events, e), link', connected) /\ AdvTold(Append(events, e), radioAdv, advertising, refused)
    <3>1. LinkTold(Append(events, e), link', connected)
      BY <1>1, <2>1, <2>2, LinkPosted DEF ConIInv, IsLink
    <3>2. ~IsAdv(e)
      BY <2>2 DEF IsAdv
    <3>3. AdvTold(Append(events, e), radioAdv, advertising, refused)
      BY <1>1, <2>2, <3>2, AdvPosted DEF ConIInv
    <3> QED BY <3>1, <3>3
  <2>5. /\ LinkTold(events', link', connected') /\ AdvTold(events', radioAdv', advertising', refused')
        /\ events' \in Seq(BtEvent)
    BY <1>1, <1>2, <2>1, <2>2, <2>4
  <2>6. ConTypeOK'
    BY <1>1, <1>2, <2>1, <2>5, ZenonT(40) DEF ConTypeOK
  <2>7. Configured' /\ Refusals' /\ Wants'
    BY <1>2, <2>3 DEF ConIInv, Configured, Refusals, Wants, OnLink, Configs
  <2>8. WantServed' /\ UnwantedStops'
    BY <1>2, <2>3 DEF ConIInv, WantServed, UnwantedStops, OnLink, OffLink
  <2>9. CurrentOut'
    BY <1>2, <2>3 DEF ConIInv, CurrentOut, Updating
  <2>10. ~Steady'
    BY <2>3 DEF Steady
  <2> QED BY <1>3, <2>5, <2>6, <2>7, <2>8, <2>9, <2>10 DEF ConIInv
<1> QED BY <1>4, <1>5 DEF Central

(* What the stack may be asked, and what that adds. *)
LEMMA Issued ==
  ASSUME ConTypeOK, NEW c \in Call, Issue(c)
  PROVE  /\ calls' \in Seq(Call) /\ fails' \in 0..MaxFails /\ refused' \in BOOLEAN /\ (refused => refused')
         /\ ~refused' => /\ \A d : HasCall(calls', d) <=> HasCall(calls, d) \/ c.do = d
                         /\ OneCall(calls) /\ c.do # "update" => OneCall(calls')
                         /\ c.do # "update" => \A p : Asks(calls, p) => Asks(calls', p)
         /\ \A d : HasCall(calls, d) => HasCall(calls', d)
         /\ c.do # "update" => (HasCall(calls', "update") => HasCall(calls, "update"))
<1>1. calls \in Seq(Call) /\ fails \in 0..MaxFails /\ MaxFails \in Nat /\ refused \in BOOLEAN
  BY ConAssumption DEF ConTypeOK
<1> DEFINE z == Append(calls, c)
<1>2. /\ z \in Seq(Call) /\ \A d : HasCall(z, d) <=> HasCall(calls, d) \/ c.do = d
      /\ OneCall(calls) /\ c.do # "update" => OneCall(z)
      /\ c.do # "update" => \A p : Asks(calls, p) => Asks(z, p)
  BY <1>1, CallMade
<1> HIDE DEF z
<1>3. CASE calls' = z /\ UNCHANGED <<fails, refused>>
  BY <1>1, <1>2, <1>3, Zenon
<1>4. CASE fails < MaxFails /\ fails' = fails + 1 /\ refused' = TRUE /\ UNCHANGED calls
  <2>1. fails' \in 0..MaxFails
    BY <1>1, <1>4
  <2> QED BY <1>1, <1>4, <2>1
<1> QED BY <1>3, <1>4 DEF Issue, z

(* ... as are new parameters, which are then under way, and the only ones. *)
LEMMA Sent ==
  ASSUME ConTypeOK, NEW p \in Mode, Send(p)
  PROVE  /\ calls' \in Seq(Call) /\ fails' \in 0..MaxFails /\ refused' \in BOOLEAN /\ (refused => refused')
         /\ current' \in Mode \cup {None} /\ (current' # None => HasCall(calls', "update"))
         /\ \A d : HasCall(calls, d) => HasCall(calls', d)
         /\ ~refused' => /\ current' = p /\ current' # None /\ HasCall(calls', "update")
                         /\ ~HasCall(calls, "update") => OneCall(calls') /\ Asks(calls', p)
<1>1. calls \in Seq(Call) /\ fails \in 0..MaxFails /\ MaxFails \in Nat /\ refused \in BOOLEAN
  BY ConAssumption DEF ConTypeOK
<1> DEFINE c == [do |-> "update", mode |-> p]
           z == Append(calls, c)
<1>2. c \in Call /\ c.do = "update" /\ c.mode = p
  BY DEF Call
<1> HIDE DEF c
<1>3. ~HasCall(calls, "update") => OneCall(calls) /\ Asks(calls, p)
  BY DEF HasCall, OneCall, Asks
<1>4. /\ z \in Seq(Call) /\ \A d : HasCall(z, d) <=> HasCall(calls, d) \/ c.do = d
      /\ ~HasCall(calls, "update") => OneCall(z) /\ Asks(z, p)
  BY <1>1, <1>2, <1>3, CallMade
<1>5. p # None
  BY DEF Mode, None
<1> HIDE DEF z
<1>6. CASE current' = p /\ calls' = z /\ UNCHANGED <<fails, refused>>
  BY <1>1, <1>2, <1>4, <1>5, <1>6
<1>7. CASE fails < MaxFails /\ fails' = fails + 1 /\ refused' = TRUE /\ current' = None /\ UNCHANGED calls
  <2>1. fails' \in 0..MaxFails
    BY <1>1, <1>7
  <2> QED BY <1>1, <1>7, <2>1
<1> QED BY <1>6, <1>7 DEF Send, c, z

LEMMA HasAnswer == ASSUME NEW s, NEW t, HasOk(s, t) PROVE Has(s, t)
BY DEF HasOk, Has

(* The steps of the code, on either thread. *)
LEMMA WantAdvIInv == ASSUME ConIInv, NEW t \in Threads, WantAdv(t) PROVE ConIInv'
<1>1. ConTypeOK /\ t \in {"btc", "lvgl"} /\ pc[t] = "want" /\ wantAdv' = TRUE
  BY DEF ConIInv, WantAdv, Threads
<1>2. /\ UNCHANGED <<calls, events, modes, fails, connected, advertising, lowPow, choice, refused, meddled>>
      /\ UNCHANGED <<leftover, radioAdv, link, linkMode, links, configsDone, current, queued>>
      /\ pc' = [pc EXCEPT ![t] = IF advertising THEN "idle" ELSE "start"]
  BY DEF WantAdv, Code, Goto, confVars
<1>3. /\ pc'[t] = (IF advertising THEN "idle" ELSE "start")
      /\ \A u \in Threads : u # t => pc'[u] = pc[u]
      /\ pc' \in [Threads -> {"idle", "go", "setCon", "conf", "want", "start", "stop"}]
  BY <1>1, <1>2 DEF ConTypeOK
<1>4. OffLink(t) /\ (connected => meddled)
  BY <1>1 DEF ConIInv, Places, OffLink
<1>5. ConTypeOK'
  BY <1>1, <1>2, <1>3, ZenonT(40) DEF ConTypeOK
<1>6. PendingHasCurrent' /\ Configured' /\ Refusals' /\ CurrentOut' /\ UnwantedStops'
  BY <1>1, <1>2 DEF ConIInv, PendingHasCurrent, Configured, Refusals, CurrentOut, Updating, UnwantedStops
<1>7. LinkTold(events', link', connected') /\ AdvTold(events', radioAdv', advertising', refused')
  BY <1>2 DEF ConIInv
<1>8. WantServed'
  BY <1>1, <1>2, <1>3 DEF WantServed, OffLink, Threads
<1>9. Places'
  <2>1. \A u \in Threads : pc'[u] = "conf" => pc[u] = "conf"
    BY <1>3
  <2>2. /\ (OnLink("btc")' => OnLink("btc")) /\ (OnLink("lvgl")' => OnLink("lvgl"))
        /\ (OffLink("btc")' => OffLink("btc")) /\ (OffLink("lvgl")' => OffLink("lvgl"))
        /\ pc'["lvgl"] # "idle" => pc["lvgl"] # "idle"
        /\ pc'["btc"] # "go" /\ pc'["lvgl"] # "stop"
    BY <1>1, <1>3 DEF ConIInv, Places, OnLink, OffLink, Threads
  <2> QED BY <1>2, <2>1, <2>2 DEF ConIInv, Places
<1>10. Wants'
  BY <1>1, <1>2, <1>4 DEF Wants
<1>11. ~Steady'
  BY <1>2, <1>4 DEF Steady
<1> QED BY <1>5, <1>6, <1>7, <1>8, <1>9, <1>10, <1>11 DEF ConIInv

LEMMA StartAdvIInv == ASSUME ConIInv, NEW t \in Threads, StartAdv(t) PROVE ConIInv'
<1> DEFINE c == [do |-> "start"]
<1>1. ConTypeOK /\ t \in {"btc", "lvgl"} /\ pc[t] = "start" /\ Issue(c) /\ c \in Call /\ c.do = "start"
  BY DEF ConIInv, StartAdv, Threads, Call
<1>2. /\ UNCHANGED <<events, modes, connected, advertising, wantAdv, lowPow, choice, meddled>>
      /\ UNCHANGED <<leftover, radioAdv, link, linkMode, links, configsDone, current, queued>>
      /\ pc' = [pc EXCEPT ![t] = "idle"]
  BY DEF StartAdv, Code, Goto, confVars
<1>3. /\ pc'[t] = "idle" /\ \A u \in Threads : u # t => pc'[u] = pc[u]
      /\ pc' \in [Threads -> {"idle", "go", "setCon", "conf", "want", "start", "stop"}]
  BY <1>1, <1>2 DEF ConTypeOK
<1>4. connected => meddled
  BY <1>1 DEF ConIInv, Places, OffLink
<1> HIDE DEF c
<1>5. /\ calls' \in Seq(Call) /\ fails' \in 0..MaxFails /\ refused' \in BOOLEAN /\ (refused => refused')
      /\ ~refused' => HasCall(calls', "start")
      /\ \A d : HasCall(calls, d) => HasCall(calls', d)
  BY <1>1, Issued
<1>6. ConTypeOK'
  BY <1>1, <1>2, <1>3, <1>5, ZenonT(40) DEF ConTypeOK
<1>7. PendingHasCurrent' /\ Configured' /\ Refusals' /\ CurrentOut' /\ UnwantedStops'
  BY <1>1, <1>2, <1>5 DEF ConIInv, PendingHasCurrent, Configured, Refusals, CurrentOut, Updating, UnwantedStops
<1>8. LinkTold(events', link', connected') /\ AdvTold(events', radioAdv', advertising', refused')
  BY <1>2, <1>5 DEF ConIInv, AdvTold
<1>9. WantServed'
  BY <1>5 DEF WantServed
<1>10. Places'
  <2>1. \A u \in Threads : pc'[u] = "conf" => pc[u] = "conf"
    BY <1>3
  <2>2. /\ (OnLink("btc")' => OnLink("btc")) /\ (OnLink("lvgl")' => OnLink("lvgl"))
        /\ (OffLink("btc")' => OffLink("btc")) /\ (OffLink("lvgl")' => OffLink("lvgl"))
        /\ pc'["lvgl"] # "idle" => pc["lvgl"] # "idle"
        /\ pc'["btc"] # "go" /\ pc'["lvgl"] # "stop"
    BY <1>1, <1>3 DEF ConIInv, Places, OnLink, OffLink, Threads
  <2> QED BY <1>2, <2>1, <2>2 DEF ConIInv, Places
<1>11. Wants'
  <2>1. pc'["btc"] # "want" => pc["btc"] # "want"
    BY <1>1, <1>3 DEF Threads
  <2> QED BY <1>2, <1>4, <2>1 DEF ConIInv, Wants
<1>12. ~Steady'
  BY <1>2, <1>4 DEF Steady
<1> QED BY <1>6, <1>7, <1>8, <1>9, <1>10, <1>11, <1>12 DEF ConIInv

LEMMA StopAdvIInv == ASSUME ConIInv, NEW t \in Threads, StopAdv(t) PROVE ConIInv'
<1> DEFINE c == [do |-> "stop"]
<1>1. /\ ConTypeOK /\ t = "btc" /\ pc[t] = "stop" /\ OnLink("btc") /\ connected /\ wantAdv' = FALSE
      /\ c \in Call /\ c.do = "stop"
  BY DEF ConIInv, StopAdv, Threads, Call, Places, OnLink
<1>2. /\ UNCHANGED <<events, modes, connected, advertising, lowPow, choice, meddled>>
      /\ UNCHANGED <<leftover, radioAdv, link, linkMode, links, configsDone, current, queued>>
      /\ pc' = [pc EXCEPT ![t] = "idle"]
      /\ IF advertising THEN Issue(c) ELSE UNCHANGED <<calls, fails, refused>>
  BY DEF StopAdv, Code, Goto, confVars
<1>3. /\ pc'["btc"] = "idle" /\ pc'["lvgl"] = pc["lvgl"]
      /\ \A u \in Threads : pc'[u] \in {"go", "setCon", "conf"} <=> pc[u] \in {"go", "setCon", "conf"}
      /\ \A u \in Threads : pc'[u] = "conf" <=> pc[u] = "conf"
      /\ pc' \in [Threads -> {"idle", "go", "setCon", "conf", "want", "start", "stop"}]
  BY <1>1, <1>2 DEF ConTypeOK, Threads
<1> HIDE DEF c
<1>4. /\ calls' \in Seq(Call) /\ fails' \in 0..MaxFails /\ refused' \in BOOLEAN /\ (refused => refused')
      /\ ~refused' /\ advertising => HasCall(calls', "stop")
      /\ \A d : HasCall(calls, d) => HasCall(calls', d)
      /\ HasCall(calls', "update") => HasCall(calls, "update")
      /\ ~refused' => (OneCall(calls) => OneCall(calls')) /\ \A p : Asks(calls, p) => Asks(calls', p)
  <2>1. CASE advertising
    BY <1>1, <1>2, <2>1, Issued
  <2>2. CASE ~advertising
    BY <1>1, <1>2, <2>2 DEF ConTypeOK
  <2> QED BY <2>1, <2>2
<1>5. ConTypeOK'
  BY <1>1, <1>2, <1>3, <1>4, ZenonT(40) DEF ConTypeOK
<1>6. PendingHasCurrent' /\ Configured' /\ Refusals' /\ CurrentOut'
  BY <1>1, <1>2, <1>4 DEF ConIInv, PendingHasCurrent, Configured, Refusals, CurrentOut, Updating
<1>7. LinkTold(events', link', connected') /\ AdvTold(events', radioAdv', advertising', refused')
  BY <1>2, <1>4 DEF ConIInv, AdvTold
<1>8. WantServed' /\ UnwantedStops'
  BY <1>1, <1>2, <1>4 DEF WantServed, UnwantedStops
<1>9. Places'
  <2>1. OnLink("lvgl")' <=> OnLink("lvgl")
    BY <1>3 DEF OnLink
  <2>2. OffLink("lvgl")' <=> OffLink("lvgl")
    BY <1>3 DEF OffLink
  <2>3. ~OnLink("btc")' /\ ~OffLink("btc")'
    BY <1>3 DEF OnLink, OffLink
  <2> QED BY <1>2, <1>3, <2>1, <2>2, <2>3 DEF ConIInv, Places
<1>10. Wants'
  BY <1>1, <1>2 DEF Wants
<1>11. ASSUME Steady' PROVE OneUpdate' /\ ModeComes'
  <2>1. Steady /\ ~refused'
    BY <1>2, <1>4, <1>11 DEF Steady
  <2>2. OneUpdate /\ ModeComes
    BY <2>1 DEF ConIInv
  <2>3. OneUpdate'
    BY <1>2, <1>4, <2>1, <2>2 DEF OneUpdate, Updating
  <2>4. ModeComes'
    BY <1>2, <1>3, <2>2 DEF ModeComes, Asked
  <2> QED BY <2>3, <2>4
<1> QED BY <1>5, <1>6, <1>7, <1>8, <1>9, <1>10, <1>11 DEF ConIInv

LEMMA SetConIInv == ASSUME ConIInv, NEW t \in Threads, SetCon(t) PROVE ConIInv'
<1>1. ConTypeOK /\ t \in {"btc", "lvgl"} /\ pc[t] = "setCon"
  BY DEF ConIInv, SetCon, Threads
<1>2. /\ UNCHANGED <<calls, events, modes, fails, connected, advertising, wantAdv, lowPow, refused, meddled>>
      /\ UNCHANGED <<leftover, radioAdv, link, linkMode, links, configsDone, current, queued>>
      /\ pc' = [pc EXCEPT ![t] = "conf"] /\ choice' = [choice EXCEPT ![t] = Asked]
  BY DEF SetCon, Code, Goto, confVars, Asked
<1>3. /\ pc'[t] = "conf" /\ \A u \in Threads : u # t => pc'[u] = pc[u]
      /\ pc' \in [Threads -> {"idle", "go", "setCon", "conf", "want", "start", "stop"}]
  BY <1>1, <1>2 DEF ConTypeOK
<1>4. /\ choice'[t] = Asked /\ Asked \in Mode /\ \A u \in Threads : u # t => choice'[u] = choice[u]
      /\ choice' \in [Threads -> Mode \cup {None}]
  BY <1>1, <1>2 DEF ConTypeOK, Asked, Mode
<1>5. ConTypeOK'
  BY <1>1, <1>2, <1>3, <1>4 DEF ConTypeOK
<1>6. PendingHasCurrent' /\ Configured' /\ Refusals' /\ CurrentOut' /\ UnwantedStops'
  BY <1>1, <1>2 DEF ConIInv, PendingHasCurrent, Configured, Refusals, CurrentOut, Updating, UnwantedStops
<1>7. LinkTold(events', link', connected') /\ AdvTold(events', radioAdv', advertising', refused')
  BY <1>2 DEF ConIInv
<1>8. /\ OnLink("btc")' <=> OnLink("btc") 
      /\ OnLink("lvgl")' <=> OnLink("lvgl")
      /\ OffLink("btc")' <=> OffLink("btc") 
      /\ OffLink("lvgl")' <=> OffLink("lvgl")
      /\ pc'["lvgl"] # "idle" <=> pc["lvgl"] # "idle"
      /\ pc'["btc"] # "go" /\ pc'["lvgl"] # "stop" /\ (pc'["btc"] = "want" <=> pc["btc"] = "want")
  BY <1>1, <1>3 DEF ConIInv, Places, OnLink, OffLink, Threads
<1>9. WantServed' /\ Wants'
  BY <1>2, <1>8 DEF ConIInv, WantServed, Wants
<1>10. Places'
  <2>1. \A u \in Threads : pc'[u] = "conf" => choice'[u] \in Mode
    BY <1>3, <1>4 DEF ConIInv, Places
  <2> QED BY <1>2, <1>8, <2>1 DEF ConIInv, Places
<1>11. ASSUME Steady' PROVE OneUpdate' /\ ModeComes'
  <2>1. OneUpdate /\ ModeComes
    BY <1>2, <1>11 DEF ConIInv, Steady
  <2>2. OneUpdate'
    BY <1>2, <2>1 DEF OneUpdate, Updating
  <2>3. ModeComes'
    BY <1>2, <1>3, <1>4, <2>1 DEF ModeComes, Asked
  <2> QED BY <2>2, <2>3
<1> QED BY <1>5, <1>6, <1>7, <1>9, <1>10, <1>11 DEF ConIInv

LEMMA ConfIInv == ASSUME ConIInv, NEW t \in Threads, Conf(t) PROVE ConIInv'
<1>1. ConTypeOK /\ t \in {"btc", "lvgl"} /\ pc[t] = "conf" /\ choice[t] \in Mode
  BY DEF ConIInv, Conf, Threads, Places
<1>2. /\ UNCHANGED <<events, modes, connected, advertising, wantAdv, lowPow, meddled>>
      /\ UNCHANGED <<leftover, radioAdv, link, linkMode, links, configsDone>>
      /\ pc' = [pc EXCEPT ![t] = IF t = "btc" THEN "stop" ELSE "idle"] /\ choice' = [choice EXCEPT ![t] = None]
      /\ IF current # None
         THEN queued' = choice[t] /\ UNCHANGED <<current, calls, fails, refused>>
         ELSE Send(choice[t]) /\ UNCHANGED queued
  BY DEF Conf, Code, Goto
<1>3. /\ pc'[t] = (IF t = "btc" THEN "stop" ELSE "idle") /\ \A u \in Threads : u # t => pc'[u] = pc[u]
      /\ pc' \in [Threads -> {"idle", "go", "setCon", "conf", "want", "start", "stop"}]
  BY <1>1, <1>2 DEF ConTypeOK
<1>4. /\ \A u \in Threads : u # t => choice'[u] = choice[u]
      /\ choice' \in [Threads -> Mode \cup {None}]
  BY <1>1, <1>2 DEF ConTypeOK
<1>5. /\ calls' \in Seq(Call) /\ fails' \in 0..MaxFails /\ refused' \in BOOLEAN /\ (refused => refused')
      /\ \A d : HasCall(calls, d) => HasCall(calls', d)
      /\ current' \in Mode \cup {None} /\ queued' \in Mode \cup {None}
      /\ PendingHasCurrent' /\ CurrentOut'
  <2>1. CASE current # None
    BY <1>1, <1>2, <2>1 DEF ConTypeOK, PendingHasCurrent, CurrentOut, Updating, ConIInv
  <2>2. CASE current = None
    <3>1. queued' = None /\ queued' = queued
      BY <1>2, <2>2 DEF ConIInv, PendingHasCurrent
    <3> QED BY <1>1, <1>2, <2>2, <3>1, Sent DEF PendingHasCurrent, CurrentOut, Updating
  <2> QED BY <2>1, <2>2
<1>6. ConTypeOK'
  BY <1>1, <1>2, <1>3, <1>4, <1>5, ZenonT(40) DEF ConTypeOK
<1>7. Configured' /\ Refusals' /\ UnwantedStops'
  BY <1>2, <1>5 DEF ConIInv, Configured, Refusals, UnwantedStops
<1>8. LinkTold(events', link', connected') /\ AdvTold(events', radioAdv', advertising', refused')
  BY <1>2, <1>5 DEF ConIInv, AdvTold
<1>9. /\ OnLink("btc")' <=> OnLink("btc") 
      /\ OnLink("lvgl")' => OnLink("lvgl")
      /\ OffLink("btc")' <=> OffLink("btc") 
      /\ OffLink("lvgl")' <=> OffLink("lvgl")
      /\ pc'["lvgl"] # "idle" => pc["lvgl"] # "idle"
      /\ pc'["btc"] # "go" /\ pc'["lvgl"] # "stop" /\ (pc'["btc"] = "want" <=> pc["btc"] = "want")
  BY <1>1, <1>3 DEF ConIInv, Places, OnLink, OffLink, Threads
<1>10. WantServed' /\ Wants'
  BY <1>2, <1>5, <1>9 DEF ConIInv, WantServed, Wants
<1>11. Places'
  <2>1. \A u \in Threads : pc'[u] = "conf" => choice'[u] \in Mode
    BY <1>3, <1>4 DEF ConIInv, Places
  <2> QED BY <1>2, <1>9, <2>1 DEF ConIInv, Places
<1>12. ASSUME Steady' PROVE OneUpdate' /\ ModeComes'
  <2>1. Steady /\ ~refused'
    BY <1>2, <1>5, <1>12 DEF Steady
  <2>2. OneUpdate /\ ModeComes
    BY <2>1 DEF ConIInv
  <2>3. choice[t] = Asked /\ Asked # None
    BY <1>1, <2>2 DEF ModeComes, Mode, None
  <2>4. \A u \in Threads : pc'[u] = "conf" => choice'[u] = Asked'
    BY <1>2, <1>3, <1>4, <2>2 DEF ModeComes, Asked
  <2>5. CASE current # None
    <3>1. queued' = Asked' /\ UNCHANGED <<current, calls>>
      BY <1>2, <2>3, <2>5 DEF Asked
    <3> QED BY <1>2, <2>2, <2>4, <3>1 DEF OneUpdate, ModeComes, Updating
  <2>6. CASE current = None
    <3>1. /\ Send(choice[t]) /\ UNCHANGED queued /\ queued = None
      BY <1>2, <2>6 DEF ConIInv, PendingHasCurrent
    <3>2. ~Updating
      BY <2>2, <2>6 DEF OneUpdate
    <3>3. /\ current' = Asked /\ current' # None /\ OneCall(calls') /\ Asks(calls', Asked)
      BY <1>1, <2>1, <2>3, <3>1, <3>2, Sent DEF Updating
    <3>4. ~Has(events', "update") /\ ~HasOk(events', "update")
      BY <1>2, <3>2, HasAnswer DEF Updating
    <3>5. OneUpdate'
      BY <1>2, <2>2, <3>3, <3>4 DEF OneUpdate
    <3>6. ModeComes'
      BY <1>2, <2>4, <3>1, <3>3 DEF ModeComes, Asked
    <3> QED BY <3>5, <3>6
  <2> QED BY <2>5, <2>6
<1> QED BY <1>5, <1>6, <1>7, <1>8, <1>10, <1>11, <1>12 DEF ConIInv

(* What taking an event leaves. *)
LEMMA Handled ==
  ASSUME ConIInv, NEW type, Handle(type)
  PROVE  /\ pc["btc"] = "idle" /\ events # <<>> /\ Head(events).type = type /\ Has(events, type)
         /\ ~OnLink("btc") /\ ~OffLink("btc") /\ events' = Tail(events)
         /\ events \in Seq(BtEvent) /\ events' \in Seq(BtEvent) /\ Head(events) \in BtEvent
         /\ \A t : Has(events, t) <=> Has(events', t) \/ type = t
         /\ \A t : HasOk(events, t) <=> HasOk(events', t) \/ (type = t /\ Head(events).ok)
         /\ \A t : NotOk(events', t) => NotOk(events, t)
         /\ ~Head(events).ok => NotOk(events, type)
         /\ Refusals' \/ (refused /\ ~refused')
         /\ ConfigsLead(events')
         /\ type \notin Configs => \A c \in Configs : ~Has(events, c)
         /\ OneAnswer(events) => OneAnswer(events') /\ (type = "update" => ~Has(events', "update"))
<1>1. /\ pc["btc"] = "idle" /\ events # <<>> /\ Head(events).type = type /\ events' = Tail(events)
      /\ events \in Seq(BtEvent)
  BY DEF Handle, ConIInv, ConTypeOK
<1>2. /\ \A t : Has(events, t) <=> Has(events', t) \/ type = t
      /\ \A t : HasOk(events, t) <=> HasOk(events', t) \/ (type = t /\ Head(events).ok)
      /\ \A t : NotOk(events', t) => NotOk(events, t)
      /\ \A t : type = t /\ ~Head(events).ok => NotOk(events, t)
      /\ ConfigsLead(events) => /\ ConfigsLead(events')
                                /\ type \notin Configs => \A c \in Configs : ~Has(events, c)
      /\ OneAnswer(events) => OneAnswer(events') /\ (type = "update" => ~Has(events', "update"))
  BY <1>1, EventTaken
<1>3. events' \in Seq(BtEvent) /\ Head(events) \in BtEvent
  BY <1>1
<1>4. ~OnLink("btc") /\ ~OffLink("btc")
  BY <1>1 DEF OnLink, OffLink
<1>5. ConfigsLead(events)
  BY DEF ConIInv, Configured
<1>6. Refusals' \/ (refused /\ ~refused')
  BY <1>2 DEF ConIInv, Refusals
<1> QED BY <1>1, <1>2, <1>3, <1>4, <1>5, <1>6

LEMMA HandleConfigIInv == ConIInv /\ HandleConfig => ConIInv'
<1> SUFFICES ASSUME ConIInv, HandleConfig PROVE ConIInv'
  OBVIOUS
<1>1. PICK c \in Configs : Handle(c) /\ configsDone' = configsDone \cup {c}
  BY DEF HandleConfig, Configs
<1>2. /\ UNCHANGED <<radioAdv, link, linkMode, calls, links, modes, fails, connected, advertising, wantAdv>>
      /\ UNCHANGED <<lowPow, current, queued, choice, refused, meddled, leftover>>
      /\ pc' = [pc EXCEPT !["btc"] = IF configsDone' = Configs THEN "want" ELSE "idle"]
  BY DEF HandleConfig, Goto, boundVars, confVars, Configs
<1>3. ConTypeOK /\ ~connected /\ configsDone \subseteq Configs
  BY <1>1, Handled DEF ConIInv, Configured, ConTypeOK, Configs
<1>4. /\ pc'["btc"] = (IF configsDone' = Configs THEN "want" ELSE "idle") /\ pc'["lvgl"] = pc["lvgl"]
      /\ pc' \in [Threads -> {"idle", "go", "setCon", "conf", "want", "start", "stop"}]
      /\ \A u \in Threads : pc'[u] = "conf" => pc[u] = "conf"
  BY <1>2, <1>3 DEF ConTypeOK, Threads
<1>5. /\ \A t : t \notin Configs => (Has(events', t) <=> Has(events, t))
      /\ \A t : t \notin Configs => (HasOk(events', t) <=> HasOk(events, t))
      /\ \A t : Has(events, t) <=> Has(events', t) \/ c = t
  BY <1>1, Handled
<1>6. ConTypeOK'
  <2>1. configsDone' \subseteq {"advData", "scanRsp"}
    BY <1>1, <1>3 DEF Configs
  <2>2. events' \in Seq(BtEvent)
    BY <1>1, Handled
  <2> QED BY <1>2, <1>3, <1>4, <2>1, <2>2 DEF ConTypeOK
<1>7. PendingHasCurrent' /\ CurrentOut'
  BY <1>2, <1>5 DEF ConIInv, PendingHasCurrent, CurrentOut, Updating, Configs
<1>8. LinkTold(events', link', connected') /\ AdvTold(events', radioAdv', advertising', refused')
  <2>1. ~IsLink(Head(events)) /\ ~IsAdv(Head(events))
    BY <1>1, Handled DEF IsLink, IsAdv, Configs
  <2>2. LinkTold(Tail(events), link, connected)
    BY <1>1, <2>1, Handled, LinkTaken DEF ConIInv, IsLink
  <2>3. AdvTold(Tail(events), radioAdv, advertising, refused)
    BY <1>1, <2>1, Handled, AdvTaken DEF ConIInv
  <2>4. events' = Tail(events)
    BY <1>1, Handled
  <2> QED BY <1>2, <2>2, <2>3, <2>4
<1>9. Configured' /\ Refusals'
  <2>1. \A d \in Configs : d \in configsDone' \/ Has(events', d)
    BY <1>1, <1>5 DEF ConIInv, Configured
  <2> QED BY <1>1, <1>2, <1>3, <2>1, Handled DEF Configured
<1>10. WantServed' /\ UnwantedStops'
  <2>1. ~OnLink("btc") /\ ~OffLink("btc") /\ (OffLink("lvgl")' <=> OffLink("lvgl"))
    BY <1>1, <1>4, Handled DEF OffLink
  <2>2. "advStart" \notin Configs /\ "advStop" \notin Configs /\ "connect" \notin Configs
    BY DEF Configs
  <2> QED BY <1>2, <1>5, <2>1, <2>2 DEF ConIInv, WantServed, UnwantedStops
<1>11. Places'
  <2>1. ~OnLink("btc")' /\ (OnLink("lvgl")' <=> OnLink("lvgl")) /\ (OffLink("lvgl")' <=> OffLink("lvgl"))
    BY <1>4 DEF OnLink, OffLink
  <2> QED BY <1>2, <1>3, <1>4, <2>1 DEF ConIInv, Places
<1>12. Wants'
  <2>1. ASSUME \A d \in Configs : ~Has(events', d) PROVE pc'["btc"] = "want"
    <3>1. \A d \in Configs : d \in configsDone'
      BY <1>1, <1>5, <2>1 DEF ConIInv, Configured
    <3>2. configsDone' = Configs
      BY <1>1, <1>3, <3>1 DEF Configs
    <3> QED BY <1>4, <3>2
  <2> QED BY <1>2, <1>3, <2>1 DEF Wants
<1>13. ~Steady'
  BY <1>2, <1>3 DEF Steady
<1> QED BY <1>6, <1>7, <1>8, <1>9, <1>10, <1>11, <1>12, <1>13 DEF ConIInv

LEMMA ConnectIInv == ConIInv /\ Connect => ConIInv'
<1> SUFFICES ASSUME ConIInv, Connect PROVE ConIInv'
  OBVIOUS
<1>1. Handle("connect") /\ ConTypeOK
  BY DEF Connect, ConIInv
<1>2. /\ UNCHANGED <<radioAdv, link, linkMode, links, configsDone, calls, modes, fails, wantAdv, lowPow>>
      /\ UNCHANGED <<current, queued, choice, refused>>
      /\ advertising' = FALSE /\ connected' = TRUE
      /\ pc' = [pc EXCEPT !["btc"] = "setCon"] /\ meddled' = (meddled \/ pc["lvgl"] # "idle")
      /\ leftover' = (leftover \/ Updating)
  BY DEF Connect, Code, Goto, Race, confVars, Updating, HasCall, Has
<1>3. /\ pc'["btc"] = "setCon" /\ pc'["lvgl"] = pc["lvgl"]
      /\ pc' \in [Threads -> {"idle", "go", "setCon", "conf", "want", "start", "stop"}]
      /\ \A u \in Threads : pc'[u] = "conf" => pc[u] = "conf"
  BY <1>1, <1>2 DEF ConTypeOK, Threads
<1>4. /\ \A t : t # "connect" => (Has(events', t) <=> Has(events, t))
      /\ \A c \in Configs : ~Has(events', c)
      /\ ConfigsLead(events') /\ Refusals'
  BY <1>1, <1>2, Handled DEF Configs
<1>5. ConTypeOK'
  <2>1. events' \in Seq(BtEvent)
    BY <1>1, Handled
  <2>2. meddled' \in BOOLEAN /\ leftover' \in BOOLEAN
    BY <1>1, <1>2, ZenonT(40) DEF ConTypeOK
  <2>3. advertising' \in BOOLEAN /\ connected' \in BOOLEAN
    BY <1>2
  <2> QED BY <1>1, <1>2, <1>3, <2>1, <2>2, <2>3, ZenonT(40) DEF ConTypeOK
<1>6. PendingHasCurrent' /\ CurrentOut'
  BY <1>2, <1>4 DEF ConIInv, PendingHasCurrent, CurrentOut, Updating
<1>7. LinkTold(events', link', connected') /\ AdvTold(events', radioAdv', advertising', refused')
  <2>1. IsAdv(Head(events)) /\ ~SaysAdv(Head(events)) /\ IsLink(Head(events))
    BY <1>1, Handled DEF IsLink, IsAdv, SaysAdv
  <2>2. LinkTold(Tail(events), link, connected')
    <3>1. /\ LinkTold(events, link, connected) /\ events \in Seq(BtEvent) /\ events # <<>>
          /\ Head(events).type = "connect"
      BY <1>1, Handled DEF ConIInv
    <3>2. LinkTold(Tail(events), link, TRUE)
      BY <2>1, <3>1, LinkTaken
    <3> QED BY <1>2, <3>2
  <2>3. AdvTold(Tail(events), radioAdv, advertising', refused)
    BY <1>1, <1>2, <2>1, Handled, AdvTaken DEF ConIInv
  <2>4. events' = Tail(events)
    BY <1>1, Handled
  <2> QED BY <1>2, <2>2, <2>3, <2>4
<1>8. Configured'
  BY <1>2, <1>4 DEF ConIInv, Configured, Configs
<1>9. OnLink("btc")' /\ ~OffLink("btc")' /\ (OnLink("lvgl")' <=> OnLink("lvgl")) /\ (OffLink("lvgl")' <=> OffLink("lvgl"))
  BY <1>3 DEF OnLink, OffLink
<1>10. WantServed' /\ UnwantedStops' /\ Wants'
  BY <1>2, <1>9 DEF WantServed, UnwantedStops, Wants
<1>11. Places'
  <2>1. ~meddled' => ~meddled /\ pc["lvgl"] = "idle"
    BY <1>2
  <2>2. pc["lvgl"] = "idle" => ~OffLink("lvgl") /\ ~OnLink("lvgl")
    BY DEF OnLink, OffLink
  <2>3. \A u \in Threads : pc'[u] = "conf" => choice'[u] \in Mode
    BY <1>2, <1>3 DEF ConIInv, Places
  <2> QED BY <1>2, <1>3, <1>9, <2>1, <2>2, <2>3 DEF ConIInv, Places
<1>12. ASSUME Steady' PROVE OneUpdate' /\ ModeComes'
  <2>1. ~Updating /\ pc["lvgl"] = "idle"
    BY <1>2, <1>12 DEF Steady
  <2>2. current = None /\ ~Updating'
    BY <1>2, <1>4, <2>1 DEF ConIInv, CurrentOut, Updating
  <2>3. ~HasOk(events', "update")
    BY <2>2, HasAnswer DEF Updating
  <2>4. OneCall(calls') /\ OneAnswer(events') /\ Asks(calls', current')
    BY <2>2 DEF Updating, HasCall, Has, OneCall, OneAnswer, Asks
  <2>5. OneUpdate'
    BY <2>2, <2>3, <2>4 DEF OneUpdate, Updating
  <2>6. ModeComes'
    BY <1>1, <1>3, <2>1, Handled DEF ModeComes, Threads
  <2> QED BY <2>5, <2>6
<1> QED BY <1>4, <1>5, <1>6, <1>7, <1>8, <1>10, <1>11, <1>12 DEF ConIInv

LEMMA DisconnectIInv == ConIInv /\ Disconnect => ConIInv'
<1> SUFFICES ASSUME ConIInv, Disconnect PROVE ConIInv'
  OBVIOUS
<1>1. Handle("disconnect") /\ ConTypeOK
  BY DEF Disconnect, ConIInv
<1>2. /\ UNCHANGED <<radioAdv, link, linkMode, links, configsDone, calls, modes, fails, wantAdv, lowPow>>
      /\ UNCHANGED <<advertising, choice, refused, leftover>>
      /\ connected' = FALSE /\ current' = None /\ queued' = None
      /\ pc' = [pc EXCEPT !["btc"] = "want"] /\ meddled' = (meddled \/ pc["lvgl"] # "idle")
  BY DEF Disconnect, Code, Goto, Race
<1>3. /\ pc'["btc"] = "want" /\ pc'["lvgl"] = pc["lvgl"]
      /\ pc' \in [Threads -> {"idle", "go", "setCon", "conf", "want", "start", "stop"}]
      /\ \A u \in Threads : pc'[u] = "conf" => pc[u] = "conf"
  BY <1>1, <1>2 DEF ConTypeOK, Threads
<1>4. /\ \A t : t # "disconnect" => (Has(events', t) <=> Has(events, t))
      /\ \A t : t # "disconnect" => (HasOk(events', t) <=> HasOk(events, t))
      /\ ConfigsLead(events') /\ Refusals'
  BY <1>1, <1>2, Handled
<1>5. ConTypeOK'
  <2>1. events' \in Seq(BtEvent)
    BY <1>1, Handled
  <2>2. meddled' \in BOOLEAN
    BY <1>1, <1>2, ZenonT(40) DEF ConTypeOK
  <2>3. connected' \in BOOLEAN /\ current' \in Mode \cup {None} /\ queued' \in Mode \cup {None}
    BY <1>2
  <2> QED BY <1>1, <1>2, <1>3, <2>1, <2>2, <2>3, ZenonT(40) DEF ConTypeOK
<1>6. PendingHasCurrent' /\ CurrentOut'
  BY <1>2 DEF PendingHasCurrent, CurrentOut
<1>7. LinkTold(events', link', connected') /\ AdvTold(events', radioAdv', advertising', refused')
  <2>1. ~IsAdv(Head(events)) /\ IsLink(Head(events))
    BY <1>1, Handled DEF IsLink, IsAdv
  <2>2. LinkTold(Tail(events), link, connected')
    BY <1>1, <1>2, <2>1, Handled, LinkTaken DEF ConIInv
  <2>3. AdvTold(Tail(events), radioAdv, advertising, refused)
    BY <1>1, <1>2, <2>1, Handled, AdvTaken DEF ConIInv
  <2>4. events' = Tail(events)
    BY <1>1, Handled
  <2> QED BY <1>2, <2>2, <2>3, <2>4
<1>8. Configured'
  BY <1>2, <1>4 DEF ConIInv, Configured, Configs
<1>9. ~OnLink("btc")' /\ OffLink("btc")' /\ (OnLink("lvgl")' <=> OnLink("lvgl")) /\ (OffLink("lvgl")' <=> OffLink("lvgl"))
  BY <1>3 DEF OnLink, OffLink
<1>10. WantServed' /\ Wants'
  BY <1>2, <1>3, <1>9 DEF WantServed, Wants
<1>11. UnwantedStops'
  BY <1>2, <1>4 DEF ConIInv, UnwantedStops
<1>12. Places'
  <2>1. ~meddled' => ~meddled /\ pc["lvgl"] = "idle"
    BY <1>2
  <2>2. pc["lvgl"] = "idle" => ~OffLink("lvgl") /\ ~OnLink("lvgl")
    BY DEF OnLink, OffLink
  <2> QED BY <1>2, <1>3, <1>9, <2>1, <2>2 DEF ConIInv, Places
<1>13. ~Steady'
  BY <1>2 DEF Steady
<1> QED BY <1>4, <1>5, <1>6, <1>7, <1>8, <1>10, <1>11, <1>12, <1>13 DEF ConIInv

LEMMA AdvStartIInv == ConIInv /\ OnAdvStartComplete => ConIInv'
<1> SUFFICES ASSUME ConIInv, OnAdvStartComplete PROVE ConIInv'
  OBVIOUS
<1> DEFINE c == [do |-> "stop"]
           ok == Head(events).ok
<1>1. Handle("advStart") /\ ConTypeOK /\ c \in Call /\ c.do = "stop"
  BY DEF OnAdvStartComplete, ConIInv, Call
<1>2. /\ UNCHANGED <<radioAdv, link, linkMode, links, configsDone, modes, connected, wantAdv, lowPow>>
      /\ UNCHANGED <<current, queued, pc, choice, meddled, leftover>>
      /\ advertising' = ok /\ IF ok /\ ~wantAdv THEN Issue(c) ELSE UNCHANGED <<calls, fails, refused>>
  BY DEF OnAdvStartComplete, Code, confVars
<1>3. ok \in BOOLEAN
  <2>1. Head(events) \in BtEvent /\ Head(events).type = "advStart"
    BY <1>1, Handled
  <2> QED BY <2>1 DEF BtEvent
<1>4. /\ \A t : t # "advStart" => (Has(events', t) <=> Has(events, t))
      /\ \A t : t # "advStart" => (HasOk(events', t) <=> HasOk(events, t))
      /\ ConfigsLead(events') /\ \A d \in Configs : ~Has(events', d)
      /\ OneAnswer(events) => OneAnswer(events')
      /\ ~OnLink("btc") /\ ~ok => refused
  BY <1>1, Handled DEF ConIInv, Refusals, Configs
<1> HIDE DEF c, ok
<1>5. /\ calls' \in Seq(Call) /\ fails' \in 0..MaxFails /\ refused' \in BOOLEAN /\ (refused => refused')
      /\ ~refused' /\ ok /\ ~wantAdv => HasCall(calls', "stop")
      /\ \A d : HasCall(calls, d) => HasCall(calls', d)
      /\ HasCall(calls', "update") => HasCall(calls, "update")
      /\ ~refused' => (OneCall(calls) => OneCall(calls')) /\ \A p : Asks(calls, p) => Asks(calls', p)
  <2>1. CASE ok /\ ~wantAdv
    BY <1>1, <1>2, <2>1, Issued
  <2>2. CASE ~(ok /\ ~wantAdv)
    BY <1>1, <1>2, <2>2 DEF ConTypeOK
  <2> QED BY <2>1, <2>2
<1>6. ConTypeOK'
  <2>1. events' \in Seq(BtEvent) /\ advertising' \in BOOLEAN
    BY <1>1, <1>2, <1>3, Handled
  <2> QED BY <1>1, <1>2, <1>5, <2>1, ZenonT(40) DEF ConTypeOK
<1>7. PendingHasCurrent' /\ CurrentOut'
  BY <1>2, <1>4, <1>5 DEF ConIInv, PendingHasCurrent, CurrentOut, Updating
<1>8. LinkTold(events', link', connected') /\ AdvTold(events', radioAdv', advertising', refused')
  <2>1. IsAdv(Head(events)) /\ ~IsLink(Head(events)) /\ (SaysAdv(Head(events)) <=> ok)
    BY <1>1, <1>3, Handled DEF IsLink, IsAdv, SaysAdv, ok
  <2>2. LinkTold(Tail(events), link, connected)
    BY <1>1, <1>2, <2>1, Handled, LinkTaken DEF ConIInv, IsLink
  <2>3. AdvTold(Tail(events), radioAdv, advertising', refused')
    BY <1>1, <1>2, <1>5, <2>1, Handled, AdvTaken DEF ConIInv
  <2>4. events' = Tail(events)
    BY <1>1, Handled
  <2> QED BY <1>2, <2>2, <2>3, <2>4
<1>9. Configured' /\ Refusals'
  <2>1. Refusals'
    BY <1>1, <1>5, Handled
  <2> QED BY <1>2, <1>4, <2>1 DEF ConIInv, Configured, Configs
<1>10. WantServed' /\ UnwantedStops'
  BY <1>1, <1>2, <1>4, <1>5, Handled DEF WantServed, UnwantedStops
<1>11. Places'
  BY <1>2 DEF ConIInv, Places, OnLink, OffLink
<1>12. Wants'
  BY <1>2, <1>4 DEF ConIInv, Wants, OnLink, Configs
<1>13. ASSUME Steady' PROVE OneUpdate' /\ ModeComes'
  <2>1. Steady /\ ~refused'
    BY <1>2, <1>4, <1>5, <1>13 DEF Steady
  <2>2. OneUpdate /\ ModeComes
    BY <2>1 DEF ConIInv
  <2>3. OneUpdate'
    BY <1>2, <1>4, <1>5, <2>1, <2>2 DEF OneUpdate, Updating
  <2>4. ModeComes'
    BY <1>2, <2>2 DEF ModeComes, Asked
  <2> QED BY <2>3, <2>4
<1> QED BY <1>6, <1>7, <1>8, <1>9, <1>10, <1>11, <1>12, <1>13 DEF ConIInv

LEMMA AdvStopIInv == ConIInv /\ OnAdvStopComplete => ConIInv'
<1> SUFFICES ASSUME ConIInv, OnAdvStopComplete PROVE ConIInv'
  OBVIOUS
<1> DEFINE ok == Head(events).ok
<1>1. Handle("advStop") /\ ConTypeOK
  BY DEF OnAdvStopComplete, ConIInv
<1>2. /\ UNCHANGED <<radioAdv, link, linkMode, links, configsDone, calls, modes, fails, connected, wantAdv>>
      /\ UNCHANGED <<lowPow, current, queued, choice, refused, meddled, leftover>>
      /\ advertising' = (advertising /\ ~ok)
      /\ pc' = [pc EXCEPT !["btc"] = IF wantAdv /\ ~advertising' THEN "want" ELSE "idle"]
  BY DEF OnAdvStopComplete, Code, Goto, confVars
<1>3. ok \in BOOLEAN
  <2>1. Head(events) \in BtEvent /\ Head(events).type = "advStop"
    BY <1>1, Handled
  <2> QED BY <2>1 DEF BtEvent
<1>4. /\ pc'["btc"] = (IF wantAdv /\ ~advertising' THEN "want" ELSE "idle") /\ pc'["lvgl"] = pc["lvgl"]
      /\ pc' \in [Threads -> {"idle", "go", "setCon", "conf", "want", "start", "stop"}]
      /\ \A u \in Threads : pc'[u] = "conf" <=> pc[u] = "conf"
      /\ \A u \in Threads : pc'[u] \in {"go", "setCon", "conf"} <=> pc[u] \in {"go", "setCon", "conf"}
      /\ pc["btc"] = "idle" /\ ~OnLink("btc")
  <2>1. pc["btc"] = "idle" /\ ~OnLink("btc")
    BY <1>1, Handled
  <2> QED BY <1>1, <1>2, <2>1 DEF ConTypeOK, Threads
<1>5. /\ \A t : t # "advStop" => (Has(events', t) <=> Has(events, t))
      /\ \A t : t # "advStop" => (HasOk(events', t) <=> HasOk(events, t))
      /\ ~ok => (HasOk(events', "advStop") <=> HasOk(events, "advStop"))
      /\ ConfigsLead(events') /\ Refusals' /\ \A d \in Configs : ~Has(events', d)
      /\ OneAnswer(events) => OneAnswer(events')
  BY <1>1, <1>2, Handled DEF Configs
<1> HIDE DEF ok
<1>6. ConTypeOK'
  <2>1. events' \in Seq(BtEvent)
    BY <1>1, Handled
  <2>2. advertising' \in BOOLEAN
    BY <1>1, <1>2, ZenonT(40) DEF ConTypeOK
  <2> QED BY <1>1, <1>2, <1>4, <2>1, <2>2, ZenonT(40) DEF ConTypeOK
<1>7. PendingHasCurrent' /\ CurrentOut'
  BY <1>2, <1>5 DEF ConIInv, PendingHasCurrent, CurrentOut, Updating
<1>8. LinkTold(events', link', connected') /\ AdvTold(events', radioAdv', advertising', refused')
  <2>1. ~IsLink(Head(events)) /\ ~SaysAdv(Head(events)) /\ (IsAdv(Head(events)) <=> ok)
    BY <1>1, Handled DEF IsLink, IsAdv, SaysAdv, ok
  <2>2. LinkTold(Tail(events), link, connected)
    BY <1>1, <1>2, <2>1, Handled, LinkTaken DEF ConIInv, IsLink
  <2>3. AdvTold(Tail(events), radioAdv, advertising', refused)
    <3>1. /\ AdvTold(events, radioAdv, advertising, refused) /\ events \in Seq(BtEvent) /\ events # <<>>
      BY <1>1, Handled DEF ConIInv
    <3>2. CASE ok
      <4>1. IsAdv(Head(events)) /\ ~SaysAdv(Head(events))
        BY <2>1, <3>2
      <4>2. ~advertising' /\ (IsAdv(Head(events)) => (advertising' <=> SaysAdv(Head(events))))
        BY <1>2, <3>2, <4>1
      <4> QED BY <3>1, <4>1, <4>2, AdvTaken
    <3>3. CASE ~ok
      <4>1. AdvTold(Tail(events), radioAdv, advertising, refused)
        BY <2>1, <3>1, <3>3, AdvTaken
      <4>2. advertising' = advertising
        BY <1>1, <1>2, <3>3 DEF ConTypeOK
      <4> QED BY <4>1, <4>2
    <3> QED BY <3>2, <3>3
  <2>4. events' = Tail(events)
    BY <1>1, Handled
  <2> QED BY <1>2, <2>2, <2>3, <2>4
<1>9. Configured'
  BY <1>2, <1>5 DEF ConIInv, Configured, Configs
<1>10. ~OnLink("btc")' /\ (OnLink("lvgl")' <=> OnLink("lvgl")) /\ (OffLink("lvgl")' <=> OffLink("lvgl"))
  BY <1>4 DEF OnLink, OffLink
<1>11. WantServed' /\ UnwantedStops'
  <2>1. ASSUME wantAdv, ~advertising' PROVE OffLink("btc")'
    BY <1>4, <2>1 DEF OffLink
  <2> QED BY <1>2, <1>5, <2>1 DEF ConIInv, WantServed, UnwantedStops
<1>12. Places'
  <2>1. ASSUME OffLink("btc")' PROVE ~connected \/ meddled
    BY <1>4, <2>1 DEF ConIInv, Wants, OffLink
  <2> QED BY <1>2, <1>4, <1>10, <2>1 DEF ConIInv, Places
<1>13. Wants'
  BY <1>2, <1>4, <1>5, <1>10 DEF ConIInv, Wants, Configs
<1>14. ASSUME Steady' PROVE OneUpdate' /\ ModeComes'
  <2>1. Steady
    BY <1>2, <1>5, <1>14 DEF Steady
  <2>2. OneUpdate /\ ModeComes
    BY <2>1 DEF ConIInv
  <2>3. OneUpdate'
    BY <1>2, <1>5, <2>2 DEF OneUpdate, Updating
  <2>4. ModeComes'
    BY <1>2, <1>4, <2>2 DEF ModeComes, Asked
  <2> QED BY <2>3, <2>4
<1> QED BY <1>5, <1>6, <1>7, <1>8, <1>9, <1>11, <1>12, <1>13, <1>14 DEF ConIInv

LEMMA ConfDoneIInv == ConIInv /\ ConfDone => ConIInv'
<1> SUFFICES ASSUME ConIInv, ConfDone PROVE ConIInv'
  OBVIOUS
<1> DEFINE ok == Head(events).ok
           last == queued = None /\ (ok \/ current = None)
<1>1. Handle("update") /\ ConTypeOK /\ PendingHasCurrent
  BY DEF ConfDone, ConIInv
<1>2. /\ UNCHANGED <<radioAdv, link, linkMode, links, configsDone, modes, connected, advertising, wantAdv>>
      /\ UNCHANGED <<lowPow, pc, choice, meddled, leftover>>
  BY DEF ConfDone, Code
<1>3. \/ queued # None /\ Send(queued) /\ queued' = None
      \/ queued = None /\ current # None /\ ~ok /\ Send(current) /\ queued' = None
      \/ last /\ current' = None /\ queued' = None /\ UNCHANGED <<calls, fails, refused>>
  BY DEF ConfDone
<1>4. /\ \A t : t # "update" => (Has(events', t) <=> Has(events, t))
      /\ \A t : t # "update" => (HasOk(events', t) <=> HasOk(events, t))
      /\ Has(events, "update") /\ (ok => HasOk(events, "update"))
      /\ \A t : NotOk(events', t) => NotOk(events, t)
      /\ ConfigsLead(events') /\ \A d \in Configs : ~Has(events', d)
      /\ OneAnswer(events) => OneAnswer(events') /\ ~Has(events', "update")
      /\ events' \in Seq(BtEvent) /\ pc["btc"] = "idle"
  BY <1>1, Handled DEF Configs
<1> HIDE DEF ok
<1>5. \A p \in Mode \cup {None} : p # None => p \in Mode
  OBVIOUS
<1>6. /\ calls' \in Seq(Call) /\ fails' \in 0..MaxFails /\ refused' \in BOOLEAN /\ (refused => refused')
      /\ current' \in Mode \cup {None} /\ queued' = None
      /\ current' # None => HasCall(calls', "update")
      /\ \A d : HasCall(calls, d) => HasCall(calls', d)
  <2>1. CASE queued # None /\ Send(queued) /\ queued' = None
    <3>1. queued \in Mode
      BY <1>1, <1>5, <2>1 DEF ConTypeOK
    <3> QED BY <1>1, <2>1, <3>1, Sent
  <2>2. CASE current # None /\ Send(current) /\ queued' = None
    <3>1. current \in Mode
      BY <1>1, <1>5, <2>2 DEF ConTypeOK
    <3> QED BY <1>1, <2>2, <3>1, Sent
  <2>3. CASE current' = None /\ queued' = None /\ UNCHANGED <<calls, fails, refused>>
    BY <1>1, <2>3 DEF ConTypeOK
  <2> QED BY <1>3, <2>1, <2>2, <2>3
<1>7. ConTypeOK'
  <2>1. queued' \in Mode \cup {None}
    BY <1>6
  <2> QED BY <1>1, <1>2, <1>4, <1>6, <2>1, ZenonT(40) DEF ConTypeOK
<1>8. PendingHasCurrent' /\ CurrentOut'
  BY <1>6 DEF PendingHasCurrent, CurrentOut, Updating
<1>9. LinkTold(events', link', connected') /\ AdvTold(events', radioAdv', advertising', refused')
  <2>1. ~IsLink(Head(events)) /\ ~IsAdv(Head(events))
    BY <1>1, Handled DEF IsLink, IsAdv
  <2>2. LinkTold(Tail(events), link, connected)
    BY <1>1, <2>1, Handled, LinkTaken DEF ConIInv, IsLink
  <2>3. AdvTold(Tail(events), radioAdv, advertising, refused')
    BY <1>1, <1>6, <2>1, Handled, AdvTaken DEF ConIInv
  <2>4. events' = Tail(events)
    BY <1>1, Handled
  <2> QED BY <1>2, <2>2, <2>3, <2>4
<1>10. Configured' /\ Refusals'
  BY <1>2, <1>4, <1>6 DEF ConIInv, Configured, Configs, Refusals
<1>11. WantServed' /\ UnwantedStops'
  <2>1. (OnLink("btc")' <=> OnLink("btc")) /\ (OffLink("btc")' <=> OffLink("btc")) /\ (OffLink("lvgl")' <=> OffLink("lvgl"))
    BY <1>2 DEF OnLink, OffLink
  <2> QED BY <1>2, <1>4, <1>6, <2>1 DEF ConIInv, WantServed, UnwantedStops
<1>12. Places'
  BY <1>2 DEF ConIInv, Places, OnLink, OffLink
<1>13. Wants'
  <2>1. OnLink("btc")' <=> OnLink("btc")
    BY <1>2 DEF OnLink
  <2>2. \A d \in Configs : Has(events', d) <=> Has(events, d)
    BY <1>4 DEF Configs
  <2> QED BY <1>2, <2>1, <2>2 DEF ConIInv, Wants
<1>14. ASSUME Steady' PROVE OneUpdate' /\ ModeComes'
  <2>1. Steady /\ ~refused'
    BY <1>2, <1>4, <1>6, <1>14 DEF Steady
  <2>2. OneUpdate /\ ModeComes
    BY <2>1 DEF ConIInv
  <2>3. /\ ~HasCall(calls, "update") /\ ~Has(events', "update") /\ OneAnswer(events') /\ current # None
        /\ ~HasOk(events', "update")
    BY <1>4, <2>2, HasAnswer DEF OneUpdate, Updating
  <2>4. ASSUME NEW p \in Mode, Send(p), queued' = None,
               (\A t \in Threads : pc[t] \notin {"go", "setCon", "conf"}) => p = Asked
        PROVE  OneUpdate' /\ ModeComes'
    <3>1. current' = p /\ current' # None /\ OneCall(calls') /\ Asks(calls', p)
      BY <1>1, <2>1, <2>3, <2>4, Sent
    <3>2. OneUpdate'
      BY <2>3, <3>1 DEF OneUpdate
    <3>3. ModeComes'
      BY <1>2, <2>2, <2>4, <3>1 DEF ModeComes, Asked
    <3> QED BY <3>2, <3>3
  <2>5. Asked # None
    BY DEF Asked, None
  <2>6. CASE queued # None /\ Send(queued) /\ queued' = None
    <3>1. queued \in Mode
      BY <1>1, <1>5, <2>6 DEF ConTypeOK
    <3>2. (\A t \in Threads : pc[t] \notin {"go", "setCon", "conf"}) => queued = Asked
      BY <2>2, <2>6 DEF ModeComes
    <3> QED BY <2>4, <2>6, <3>1, <3>2
  <2>7. CASE queued = None /\ current # None /\ ~ok /\ Send(current) /\ queued' = None
    <3>1. current \in Mode
      BY <1>1, <1>5, <2>7 DEF ConTypeOK
    <3>2. (\A t \in Threads : pc[t] \notin {"go", "setCon", "conf"}) => current = Asked
      BY <2>2, <2>5, <2>7 DEF ModeComes
    <3> QED BY <2>4, <2>7, <3>1, <3>2
  <2>8. CASE last /\ current' = None /\ queued' = None /\ UNCHANGED <<calls, fails, refused>>
    <3>1. ok /\ queued = None /\ linkMode = current
      BY <1>4, <2>2, <2>3, <2>8 DEF OneUpdate
    <3>2. OneCall(calls') /\ Asks(calls', current')
      BY <2>3, <2>8 DEF HasCall, OneCall, Asks
    <3>3. OneUpdate'
      BY <2>3, <2>8, <3>2 DEF OneUpdate, Updating
    <3>4. ModeComes'
      BY <1>2, <2>2, <2>3, <2>5, <2>8, <3>1 DEF ModeComes, Asked
    <3> QED BY <3>3, <3>4
  <2> QED BY <1>3, <2>6, <2>7, <2>8
<1> QED BY <1>7, <1>8, <1>9, <1>10, <1>11, <1>12, <1>13, <1>14 DEF ConIInv

LEMMA GoPowIInv == ConIInv /\ GoPow => ConIInv'
<1> SUFFICES ASSUME ConIInv, GoPow PROVE ConIInv'
  OBVIOUS
<1>1. ConTypeOK /\ pc["lvgl"] = "idle" /\ MaxModes \in Nat
  BY ConAssumption DEF ConIInv, GoPow
<1>2. /\ UNCHANGED <<calls, events, fails, connected, advertising, wantAdv, choice, refused, leftover>>
      /\ UNCHANGED <<radioAdv, link, linkMode, links, configsDone, current, queued>>
      /\ lowPow' = ~lowPow /\ modes' = modes + 1 /\ modes < MaxModes
      /\ pc' = [pc EXCEPT !["lvgl"] = "go"] /\ meddled' = (meddled \/ pc["btc"] # "idle")
  BY DEF GoPow, Code, Goto, confVars
<1>3. /\ pc'["lvgl"] = "go" /\ pc'["btc"] = pc["btc"]
      /\ pc' \in [Threads -> {"idle", "go", "setCon", "conf", "want", "start", "stop"}]
      /\ \A u \in Threads : pc'[u] = "conf" => pc[u] = "conf"
  BY <1>1, <1>2 DEF ConTypeOK, Threads
<1>4. ConTypeOK'
  <2>1. lowPow' \in BOOLEAN /\ meddled' \in BOOLEAN
    BY <1>1, <1>2, ZenonT(40) DEF ConTypeOK
  <2>2. modes' \in 0..MaxModes
    BY <1>1, <1>2 DEF ConTypeOK
  <2> QED BY <1>1, <1>2, <1>3, <2>1, <2>2, ZenonT(40) DEF ConTypeOK
<1>5. PendingHasCurrent' /\ Configured' /\ Refusals' /\ CurrentOut' /\ UnwantedStops'
  BY <1>2 DEF ConIInv, PendingHasCurrent, Configured, Refusals, CurrentOut, Updating, UnwantedStops
<1>6. LinkTold(events', link', connected') /\ AdvTold(events', radioAdv', advertising', refused')
  BY <1>2 DEF ConIInv
<1>7. /\ (OnLink("btc")' <=> OnLink("btc")) /\ (OffLink("btc")' <=> OffLink("btc"))
      /\ ~OnLink("lvgl")' /\ ~OffLink("lvgl")' /\ ~OffLink("lvgl")
  BY <1>1, <1>3 DEF OnLink, OffLink
<1>8. WantServed'
  BY <1>2, <1>7 DEF ConIInv, WantServed
<1>9. meddled => meddled'
  BY <1>2
<1>10. Places'
  <2>1. ~meddled' => ~meddled /\ ~OnLink("btc")
    BY <1>2 DEF OnLink
  <2> QED BY <1>2, <1>3, <1>7, <1>9, <2>1 DEF ConIInv, Places
<1>11. Wants'
  BY <1>2, <1>3, <1>7, <1>9 DEF ConIInv, Wants
<1>12. ASSUME Steady' PROVE OneUpdate' /\ ModeComes'
  <2>1. Steady /\ pc["btc"] = "idle"
    BY <1>2, <1>12 DEF Steady
  <2>2. OneUpdate /\ ModeComes
    BY <2>1 DEF ConIInv
  <2>3. OneUpdate'
    BY <1>2, <2>2 DEF OneUpdate, Updating
  <2>4. ModeComes'
    BY <1>3, <2>1 DEF ModeComes, Threads
  <2> QED BY <2>3, <2>4
<1> QED BY <1>4, <1>5, <1>6, <1>8, <1>10, <1>11, <1>12 DEF ConIInv

LEMMA GoBranchIInv == ConIInv /\ GoBranch => ConIInv'
<1> SUFFICES ASSUME ConIInv, GoBranch PROVE ConIInv'
  OBVIOUS
<1>1. ConTypeOK /\ pc["lvgl"] = "go"
  BY DEF ConIInv, GoBranch
<1>2. /\ UNCHANGED <<calls, events, modes, fails, connected, advertising, wantAdv, lowPow, choice, refused>>
      /\ UNCHANGED <<meddled, leftover, radioAdv, link, linkMode, links, configsDone, current, queued>>
      /\ pc' = [pc EXCEPT !["lvgl"] = IF connected THEN "setCon" ELSE "want"]
  BY DEF GoBranch, Code, Goto, confVars
<1>3. /\ pc'["lvgl"] = (IF connected THEN "setCon" ELSE "want") /\ pc'["btc"] = pc["btc"]
      /\ pc' \in [Threads -> {"idle", "go", "setCon", "conf", "want", "start", "stop"}]
      /\ \A u \in Threads : pc'[u] = "conf" => pc[u] = "conf"
  BY <1>1, <1>2 DEF ConTypeOK, Threads
<1>4. ConTypeOK'
  BY <1>1, <1>2, <1>3 DEF ConTypeOK
<1>5. PendingHasCurrent' /\ Configured' /\ Refusals' /\ CurrentOut' /\ UnwantedStops'
  BY <1>2 DEF ConIInv, PendingHasCurrent, Configured, Refusals, CurrentOut, Updating, UnwantedStops
<1>6. LinkTold(events', link', connected') /\ AdvTold(events', radioAdv', advertising', refused')
  BY <1>2 DEF ConIInv
<1>7. /\ (OnLink("btc")' <=> OnLink("btc")) /\ (OffLink("btc")' <=> OffLink("btc"))
      /\ (OnLink("lvgl")' => connected) /\ (OffLink("lvgl")' => ~connected) /\ ~OffLink("lvgl")
  BY <1>1, <1>3 DEF OnLink, OffLink
<1>8. WantServed'
  BY <1>2, <1>7 DEF ConIInv, WantServed
<1>9. Places'
  <2>1. pc["lvgl"] # "idle" /\ pc'["lvgl"] # "stop"
    BY <1>1, <1>3
  <2> QED BY <1>2, <1>3, <1>7, <2>1 DEF ConIInv, Places
<1>10. Wants'
  BY <1>2, <1>3, <1>7 DEF ConIInv, Wants
<1>11. ASSUME Steady' PROVE OneUpdate' /\ ModeComes'
  <2>1. Steady /\ connected
    BY <1>2, <1>11 DEF Steady
  <2>2. OneUpdate /\ ModeComes
    BY <2>1 DEF ConIInv
  <2>3. OneUpdate'
    BY <1>2, <2>2 DEF OneUpdate, Updating
  <2>4. ModeComes'
    <3>1. pc'["lvgl"] = "setCon" /\ "lvgl" \in Threads
      BY <1>3, <2>1 DEF Threads
    <3>2. \A t \in Threads : pc'[t] = "conf" => choice'[t] = Asked'
      BY <1>2, <1>3, <2>2 DEF ModeComes, Asked
    <3> QED BY <3>1, <3>2 DEF ModeComes
  <2> QED BY <2>3, <2>4
<1> QED BY <1>4, <1>5, <1>6, <1>8, <1>9, <1>10, <1>11 DEF ConIInv

LEMMA ConStutter == ConIInv /\ UNCHANGED conVars => ConIInv'
<1> SUFFICES ASSUME ConIInv, UNCHANGED conVars PROVE ConIInv'
  OBVIOUS
<1>1. /\ UNCHANGED <<radioAdv, link, linkMode, calls, events, links, modes, fails, configsDone, connected>>
      /\ UNCHANGED <<advertising, wantAdv, lowPow, current, queued, pc, choice, refused, meddled, leftover>>
  BY DEF conVars, stackVars, boundVars, manVars, confVars
<1>2. ConTypeOK' /\ PendingHasCurrent' /\ Refusals' /\ Configured' /\ Wants' /\ Places'
  BY <1>1 DEF ConIInv, ConTypeOK, PendingHasCurrent, Refusals, Configured, Wants, Places, OnLink, OffLink
<1>3. LinkTold(events', link', connected') /\ AdvTold(events', radioAdv', advertising', refused')
  BY <1>1 DEF ConIInv
<1>4. WantServed' /\ UnwantedStops' /\ CurrentOut'
  BY <1>1 DEF ConIInv, WantServed, UnwantedStops, CurrentOut, Updating, OnLink, OffLink
<1>5. Steady' => OneUpdate' /\ ModeComes'
  BY <1>1 DEF ConIInv, Steady, OneUpdate, ModeComes, Updating, Asked
<1> QED BY <1>2, <1>3, <1>4, <1>5 DEF ConIInv

(* Nothing under way: what was told is so. *)
LEMMA ConManaged == ConIInv => ConInv
<1> SUFFICES ASSUME ConIInv PROVE ConInv
  OBVIOUS
<1>1. ConTypeOK /\ PendingHasCurrent
  BY DEF ConIInv
<1>2. ASSUME Quiet
      PROVE  /\ connected = link /\ (advertising => radioAdv) /\ (~refused => advertising = radioAdv)
             /\ \A t : ~Has(events, t) /\ ~HasOk(events, t) /\ ~HasCall(calls, t)
             /\ \A t \in Threads : pc[t] = "idle"
  <2>1. DOMAIN events = {} /\ DOMAIN calls = {} /\ \A t \in Threads : pc[t] = "idle"
    BY <1>2 DEF Quiet
  <2>2. \A t : ~Has(events, t) /\ ~HasOk(events, t) /\ ~HasCall(calls, t)
    BY <2>1 DEF Has, HasOk, HasCall
  <2>3. (connected => link) /\ (~connected => ~link)
    BY <2>2 DEF ConIInv, LinkTold
  <2>4. (advertising => radioAdv) /\ (radioAdv => (advertising \/ refused))
    BY <2>1 DEF ConIInv, AdvTold
  <2>5. connected \in BOOLEAN /\ link \in BOOLEAN /\ advertising \in BOOLEAN /\ radioAdv \in BOOLEAN
    BY <1>1 DEF ConTypeOK
  <2>6. connected = link
    BY <2>3, <2>5
  <2>7. ~refused => advertising = radioAdv
    BY <2>4, <2>5
  <2> QED BY <2>1, <2>2, <2>4, <2>6, <2>7
<1>3. HintTrue
  BY <1>2 DEF HintTrue
<1>4. ASSUME Quiet, ~refused, ~meddled PROVE radioAdv = ~link
  <2>1. pc["btc"] = "idle" /\ pc["lvgl"] = "idle"
    BY <1>2, <1>4 DEF Threads
  <2>2. ~OnLink("btc") /\ ~OffLink("btc") /\ ~OffLink("lvgl")
    BY <2>1 DEF OnLink, OffLink
  <2>3. connected => ~wantAdv
    BY <1>4, <2>2 DEF ConIInv, Wants
  <2>4. ~connected => wantAdv
    BY <1>2, <1>4, <2>1 DEF ConIInv, Wants
  <2>5. wantAdv => advertising
    BY <1>2, <1>4, <2>2 DEF ConIInv, WantServed
  <2>6. advertising => wantAdv
    BY <1>2, <1>4 DEF ConIInv, UnwantedStops
  <2>7. connected \in BOOLEAN /\ advertising \in BOOLEAN /\ connected = link /\ advertising = radioAdv
    BY <1>1, <1>2, <1>4 DEF ConTypeOK
  <2>8. advertising = ~connected
    BY <2>3, <2>4, <2>5, <2>6, <2>7, Zenon
  <2> QED BY <2>7, <2>8
<1>5. Discoverable
  BY <1>4 DEF Discoverable
<1>6. ASSUME Quiet, link, ~refused, ~meddled, ~leftover PROVE linkMode = Asked
  <2>1. Steady
    BY <1>2, <1>6 DEF Steady
  <2>2. OneUpdate /\ ModeComes
    BY <2>1 DEF ConIInv
  <2>3. current = None /\ queued = None
    BY <1>1, <1>2, <1>6 DEF ConIInv, CurrentOut, Updating, PendingHasCurrent
  <2>4. Asked # None
    BY DEF Asked, None
  <2> QED BY <1>2, <1>6, <2>2, <2>3, <2>4 DEF ModeComes
<1>7. LastModeWins
  BY <1>6 DEF LastModeWins, Asked
<1> QED BY <1>1, <1>3, <1>5, <1>7 DEF ConInv

(* ConManager and ConConf: parameters that wait, wait for an update that   *)
(* is under way; and when nothing is under way, `advertising` and          *)
(* `connected` are the truth, the watch advertises unless it is connected, *)
(* and the link has the parameters of the last power mode.                 *)
THEOREM LinkManaged == ConSpec => []ConInv
<1>1. ConIInv /\ [ConNext]_conVars => ConIInv'
  <2> SUFFICES ASSUME ConIInv, [ConNext]_conVars PROVE ConIInv'
    OBVIOUS
  <2>1. ASSUME NEW t \in Threads, Steps(t) PROVE ConIInv'
    BY <2>1, WantAdvIInv, StartAdvIInv, StopAdvIInv, SetConIInv, ConfIInv DEF Steps
  <2>2. CASE BTC
    <3>1. CASE Steps("btc")
      BY <2>1, <3>1 DEF Threads
    <3> QED BY <2>2, <3>1, HandleConfigIInv, ConnectIInv, DisconnectIInv, AdvStartIInv, AdvStopIInv,
               ConfDoneIInv DEF BTC
  <2>3. CASE LVGL
    <3>1. CASE Steps("lvgl")
      BY <2>1, <3>1 DEF Threads
    <3> QED BY <2>3, <3>1, GoPowIInv, GoBranchIInv DEF LVGL
  <2> QED BY <2>2, <2>3, StackStepIInv, CentralIInv, ConStutter DEF ConNext
<1> QED BY <1>1, ConInitIInv, ConManaged, PTL DEF ConSpec
==============================================================================
