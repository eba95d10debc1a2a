--------------------------------- MODULE LiveParts ---------------------------------
(***************************************************************************)
(* Parts of the firmware that share nothing, side by side as in SafeParts, *)
(* with the fairness that makes them end what they began: the threads that *)
(* sleep, what the status service makes of its documents, the battery with *)
(* its interrupts, and the manager of the Bluetooth link.                  *)
(***************************************************************************)
EXTENDS SleepyThreads, StatusFetch, Battery, ConMan

CONSTANT MaxSetSleeps   \* bound of the model: calls of Battery::setSleep

VARIABLES part, setSleeps

partVars == <<part, setSleeps, vars, fetchVars, battVars, conVars>>

PartsInit ==
  /\ part \in {"threads", "alerts", "battery", "link"} /\ setSleeps = 0
  /\ Init /\ FetchInit /\ BattInit /\ ConInit
  /\ part # "alerts" => ~sntpUp
  /\ part # "battery" => ~plugged
  /\ part # "link" => events[1].type = "advData"

Sleepers == part = "threads" /\ Next /\ UNCHANGED <<part, setSleeps, fetchVars, battVars, conVars>>

Alerts == part = "alerts" /\ FetchNext /\ UNCHANGED <<part, setSleeps, vars, battVars, conVars>>

BatterySleeps == SetSleep /\ setSleeps < MaxSetSleeps /\ setSleeps' = setSleeps + 1

Power ==
  /\ part = "battery"
  /\ \/ BatterySleeps
     \/ (Setting \/ BattThread \/ Measure \/ Expires \/ HoldPasses \/ World) /\ UNCHANGED setSleeps
  /\ UNCHANGED <<part, vars, fetchVars, conVars>>

Link == part = "link" /\ ConNext /\ UNCHANGED <<part, setSleeps, vars, fetchVars, battVars>>

-----------------------------------------------------------------------------
(* Threads run, and a thread that finds its interval not passed again and  *)
(* again gets to see the semaphore.                                        *)
ThreadsRun ==
  /\ WF_vars(part = "threads" /\ Lvgl /\ phase # "awake")
  /\ \A w \in Worker : WF_vars(part = "threads" /\ Run(w)) /\ SF_vars(part = "threads" /\ LoopWait(w))

(* The service keeps fetching, and a fetch that can succeed does sooner or  *)
(* later.                                                                   *)
FetchesRun ==
  /\ WF_fetchVars(part = "alerts" /\ (FetchFails \/ FetchOk))
  /\ SF_fetchVars(part = "alerts" /\ FetchOk)

(* The battery's thread runs and setSleep returns; time passes.            *)
BatteryRuns ==
  /\ WF_battVars(part = "battery" /\ (BattThread \/ Measure))
  /\ WF_battVars(part = "battery" /\ Setting)
  /\ WF_battVars(part = "battery" /\ Expires) /\ WF_battVars(part = "battery" /\ HoldPasses)

(* The Bluetooth stack carries out its calls, its task handles its events, *)
(* and a call of the LVGL thread once begun runs to its end.               *)
LinkRuns ==
  /\ WF_conVars(part = "link" /\ StackStep) /\ WF_conVars(part = "link" /\ BTC)
  /\ WF_conVars(part = "link" /\ GoBranch) /\ WF_conVars(part = "link" /\ Steps("lvgl"))

LivePartsSpec ==
  PartsInit /\ [][Sleepers \/ Alerts \/ Power \/ Link]_partVars
  /\ ThreadsRun /\ FetchesRun /\ BatteryRuns /\ LinkRuns

-----------------------------------------------------------------------------
(* The watch goes to sleep: both threads stop when they are told to.       *)
PauseReturns == (phase = "spin" /\ \A w \in Worker : ~early[w]) ~> phase = "asleep"

(* The clock that TLS needs is never taken for synced while it is not, so a *)
(* reachable box is fetched from again after any failures, provided the     *)
(* time server answers at times.                                            *)
FetchRecovers == []<>sntpUp => []<>((failures = 0 /\ haveLatest) \/ part # "alerts")

(* A cell that stays critical while nothing charges it shuts the watch     *)
(* down: no interleaving of setSleep with the thread and the timer's       *)
(* interrupt leaves the thread waiting for ever, and no flicker of the     *)
(* charger keeps its state from settling.                                  *)
ShutsDown == <>[](cell = "Critical" /\ ~plugged) => <>isShutdown
=====================================================================================
