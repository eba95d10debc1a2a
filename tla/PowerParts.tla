--------------------------------- MODULE PowerParts ---------------------------------
(***************************************************************************)
(* Power of the watch, one part of a behaviour's choosing: its boots, from *)
(* power on until everything runs; once it runs, its sleeps; and the       *)
(* motion sensor by which it wakes, and falls asleep, down to its bus.     *)
(***************************************************************************)
EXTENDS SleepMan, Boot, IMU

VARIABLE part

powerVars == <<part, vars, bootVars, sensorVars>>

PowerInit ==
  /\ part \in {"boot", "sleep", "imu"} /\ Init /\ BootInit /\ ImuInit
  /\ part # "sleep" => wrist = "level"
  /\ part # "boot" => pid = PID /\ rev = HWRevision /\ broken = {} /\ ~low
  /\ part # "imu" => position = "faceUp"

Boots == part = "boot" /\ BootNext /\ UNCHANGED <<part, vars, sensorVars>>

Sleeps == part = "sleep" /\ Next /\ UNCHANGED <<part, bootVars, sensorVars>>

Senses == part = "imu" /\ ImuNext /\ UNCHANGED <<part, vars, bootVars>>

(* Threads run; when the battery gets critical is the battery's business. *)
SleepersRun ==
  /\ WF_vars(part = "sleep" /\ IMU) /\ WF_vars(part = "sleep" /\ LVGL)
  /\ WF_vars(part = "sleep" /\ ShutdownScreen) /\ WF_vars(part = "sleep" /\ ShutdownWake)
  /\ WF_vars(part = "sleep" /\ ShutdownGive) /\ WF_vars(part = "sleep" /\ Shutdown)

PowerSpec == PowerInit /\ [][Boots \/ Sleeps \/ Senses]_powerVars /\ SleepersRun

-----------------------------------------------------------------------------
(* A watch the factory passed comes up, a watch that sleeps wakes the way  *)
(* it should, and the sensor watches for the wrist as it was told: what    *)
(* Boot, SleepMan and IMU state of every state.                            *)
PowerInv ==
  /\ part = "boot" => BootInv
  /\ part = "sleep" => Inv
  /\ part = "imu" => ImuInv
=====================================================================================
