------------------------------------ MODULE IMU ------------------------------------
(***************************************************************************)
(* The motion sensor (Devices/IMU, its register driver and Periph/I2C).    *)
(* The wrist tilt's registers are in a bank of their own: the driver       *)
(* switches the chip to it and back, and every transaction of the bus is   *)
(* locked but not the bracket of three.  The IMU's thread reads what is    *)
(* latched and LVGL's sets directions; screens sample, in one transaction. *)
(* A transaction may fail; its driver function is given up there.          *)
(***************************************************************************)
EXTENDS Naturals, Sequences, SequencesExt

CONSTANTS
  MaxTilts,   \* bound of the model: movements the chip latches
  MaxImuCalls,   \* bound of the model: calls of LVGL's thread
  MaxFaults   \* bound of the model: transactions that fail

VARIABLES
  bank, mask, latency, sens, route,   \* the chip's registers
  latched,       \* the chip: the tilt it has latched; INT2 is high
  edge2, sem1,   \* INT2's interrupt waits for an edge, or else for the level; sem1
  tiltEnable, tiltDirection, position,
  irqPc, src,    \* the IMU's thread: its next step, and the tilt it has read
  plan,          \* by thread: the calls and driver functions to come
  ops,           \* by thread: the transactions left of its driver function
  tilts, imuCalls, faults,
  collided,    \* history: a transaction fell into another thread's bracket, or a
                 \* call was begun while another thread had a direction to write
  ghost          \* history: a tilt was announced that the chip had not latched

chipVars == <<bank, mask, latency, sens, route, latched>>
intVars  == <<edge2, sem1>>
tiltVars == <<tiltEnable, tiltDirection, position>>
busVars  == <<plan, ops, faults, collided>>
sensorVars  == <<chipVars, intVars, tiltVars, irqPc, src, busVars, tilts, imuCalls, ghost>>

ImuThreads == {"imu", "lvgl"}
Masks == {"ypos", "yneg"}

F(f, v) == [f |-> f, v |-> v]
Op(o, v) == [do |-> o, v |-> v]

-----------------------------------------------------------------------------
(* The driver: what a function puts on the bus.  A read, a change and a    *)
(* write of a register is one transaction here: nothing else in it is      *)
(* ever set differently.  Left out is what is always written the same: the *)
(* threshold, the latching of interrupts, rates and filters.               *)
InBankB(op) == <<Op("bank", "B"), op, Op("bank", "user")>>

Transactions(f) ==
  CASE f.f \in {"mask", "latency"} -> InBankB(Op(f.f, f.v))
    [] f.f = "sources" -> <<Op("sources", "")>> \o InBankB(Op("readMask", ""))
    [] OTHER -> <<Op(f.f, f.v)>>

InUserBank(op) == op.do \notin {"mask", "latency", "readMask", "bank"}

(* A write of the other bank's register, or a read of it, goes astray. *)
Arrives(op) == op.do = "bank" \/ (InUserBank(op) <=> bank = "user")

Written(op) ==
  /\ bank' = IF op.do = "bank" THEN op.v ELSE IF op.do = "reset" /\ Arrives(op) THEN "user" ELSE bank
  /\ IF op.do = "reset" /\ Arrives(op)
     THEN mask' = "none" /\ latency' = "long" /\ sens' = "off" /\ route' = "off"
     ELSE /\ mask' = IF op.do = "mask" /\ Arrives(op) THEN op.v ELSE mask
          /\ latency' = IF op.do = "latency" /\ Arrives(op) THEN op.v ELSE latency
          /\ sens' = IF op.do = "sens" /\ Arrives(op) THEN op.v ELSE sens
          /\ route' = IF op.do = "route" /\ Arrives(op) THEN op.v ELSE route
  /\ latched' = IF op.do \in {"reset", "sources"} /\ Arrives(op) THEN "none" ELSE latched

(* What fetchEvents finds: the latched tilt, or what another register, or  *)
(* the stack, held.                                                        *)
Reads(t, op, ok) ==
  src' \in IF op.do # "sources" \/ t # "imu" THEN {src}
           ELSE IF ok /\ Arrives(op) THEN {[tilt |-> latched, real |-> TRUE]}
           ELSE {[tilt |-> x, real |-> FALSE] : x \in Masks \cup {"none"}}

CallNames == {"tilt", "wrist", "enable", "init"}

(* The transactions left of the driver function a thread is in, or is to   *)
(* begin.                                                                  *)
Left(t) ==
  IF ops[t] # <<>> THEN ops[t]
  ELSE IF plan[t] = <<>> \/ Head(plan[t]).f \in CallNames THEN <<>> ELSE Transactions(Head(plan[t]))

InBracket(t) == Op("bank", "user") \in ToSet(ops[t]) /\ Op("bank", "B") \notin ToSet(ops[t])

(* Directions and latencies a thread has yet to write. *)
Writing(t) ==
  \/ \E op \in ToSet(ops[t]) : op.do \in {"mask", "latency"}
  \/ \E f \in ToSet(plan[t]) : f.f \in {"mask", "latency", "tilt", "wrist"}

(* init gives up when the chip does not say who it is. *)
Transact(t) ==
  LET left == Left(t)
      op   == Head(left)
      rest == IF ops[t] = <<>> THEN Tail(plan[t]) ELSE plan[t] IN
  /\ left # <<>>
  /\ collided' = (collided \/ \E u \in ImuThreads \ {t} : InBracket(u))
  /\ \E ok \in BOOLEAN :
       /\ ~ok => faults < MaxFaults /\ imuCalls < MaxImuCalls   \* bound of the model
       /\ faults' = faults + (IF ok THEN 0 ELSE 1)
       /\ Reads(t, op, ok)
       /\ IF ok THEN Written(op) /\ ops' = [ops EXCEPT ![t] = Tail(left)]
                ELSE UNCHANGED chipVars /\ ops' = [ops EXCEPT ![t] = <<>>]
       /\ \/ (op.do # "id" \/ ~ok \/ Arrives(op)) /\ plan' = [plan EXCEPT ![t] = rest]
          \/ op.do = "id" /\ ~(ok /\ Arrives(op)) /\ plan' = [plan EXCEPT ![t] = <<>>]
  /\ UNCHANGED <<intVars, tiltVars, irqPc, tilts, imuCalls, ghost>>

-----------------------------------------------------------------------------
(* IMU's calls.                                                            *)
Axis(dir, pos) == IF (dir = "lifted") <=> (pos = "faceUp") THEN "ypos" ELSE "yneg"

Latency(dir) == IF dir = "lifted" THEN "long" ELSE "short"

SetTiltDirection(t, dir) ==
  IF ~tiltEnable THEN plan' = [plan EXCEPT ![t] = Tail(@)] /\ UNCHANGED tiltVars ELSE
  /\ tiltDirection' = dir
  /\ plan' = [plan EXCEPT ![t] = <<F("mask", Axis(dir, position)), F("latency", Latency(dir))>> \o Tail(@)]
  /\ UNCHANGED <<tiltEnable, position>>

SetWristPosition(t, pos) ==
  /\ position' = pos
  /\ plan' = [plan EXCEPT ![t] = <<F("mask", Axis(tiltDirection, pos))>> \o Tail(@)]
  /\ UNCHANGED <<tiltEnable, tiltDirection>>

EnableTiltDetection(t, enable) ==
  /\ tiltEnable' = enable
  /\ plan' = [plan EXCEPT ![t] =
       (IF tiltEnable = enable THEN <<>>
        ELSE IF enable THEN <<F("tilt", tiltDirection), F("sens", "on"), F("route", "on"),
                              F("sources", "")>>
        ELSE <<F("sens", "off"), F("route", "off")>>) \o Tail(@)]
  /\ UNCHANGED <<tiltDirection, position>>

InitPlan ==
  <<F("reset", ""), F("id", ""), F("sources", ""), F("route", "off"), F("sens", "on"), F("latency", "long"),
    F("mask", "none"), F("route", "on"), F("wrist", position), F("tilt", "lowered")>>

(* A thread begins the next of IMU's calls. *)
BeginsCall(t) ==
  LET f == Head(plan[t]) IN
  /\ ops[t] = <<>> /\ plan[t] # <<>> /\ f.f \in CallNames
  /\ CASE f.f = "tilt" -> SetTiltDirection(t, f.v)
       [] f.f = "wrist" -> SetWristPosition(t, f.v)
       [] f.f = "enable" -> EnableTiltDetection(t, f.v = "on")
       [] f.f = "init" -> plan' = [plan EXCEPT ![t] = InitPlan \o Tail(@)] /\ UNCHANGED tiltVars
  /\ collided' = (collided \/ \E u \in ImuThreads \ {t} : Writing(u))
  /\ UNCHANGED <<chipVars, intVars, irqPc, src, ops, faults, tilts, imuCalls, ghost>>

Quiet(t) == plan[t] = <<>> /\ ops[t] = <<>>

Plans(t, p) == plan' = [plan EXCEPT ![t] = p]

(* Bound of the model: nothing more is begun once a transaction collided *)
(* or failed.                                                              *)
Undisturbed == ~collided /\ faults = 0

(* LVGL's thread: the settings are left, the watch goes to sleep or wakes, *)
(* the wrist was lifted after a wake.                                      *)
LvglCalls ==
  /\ Undisturbed /\ Quiet("lvgl") /\ imuCalls < MaxImuCalls /\ imuCalls' = imuCalls + 1
  /\ \/ \E e \in {"on", "off"}, p \in {"faceUp", "faceDown"} : Plans("lvgl", <<F("enable", e), F("wrist", p)>>)
     \/ \E d \in {"lifted", "lowered"} : tiltEnable /\ Plans("lvgl", <<F("init", ""), F("tilt", d)>>)
     \/ Plans("lvgl", <<F("tilt", "lowered")>>)
  /\ UNCHANGED <<chipVars, intVars, tiltVars, irqPc, src, ops, faults, collided, tilts, ghost>>

-----------------------------------------------------------------------------
(* The chip latches a tilt; INT2's interrupt is set to wait for an edge.   *)
Tilt ==
  /\ Undisturbed /\ tilts < MaxTilts /\ tilts' = tilts + 1
  /\ sens = "on" /\ route = "on" /\ mask \in Masks
  /\ latched' = mask
  /\ IF ~edge2 \/ latched = "none" THEN edge2' = TRUE /\ sem1' = TRUE ELSE UNCHANGED intVars
  /\ UNCHANGED <<bank, mask, latency, sens, route, tiltVars, irqPc, src, busVars, imuCalls, ghost>>

(* thread1Func: while INT2 is high it fetches; the interrupt waits for the *)
(* level again after that.                                                 *)
Thread1Func ==
  /\ Quiet("imu")
  /\ \/ /\ irqPc = "take" /\ sem1 /\ sem1' = FALSE /\ irqPc' = "while"
        /\ UNCHANGED <<edge2, plan, ghost>>
     \/ /\ irqPc = "while" /\ latched # "none" /\ irqPc' = "fetch" /\ Plans("imu", <<F("sources", "")>>)
        /\ UNCHANGED <<intVars, ghost>>
     \/ /\ irqPc = "while" /\ latched = "none" /\ irqPc' = "arm" /\ UNCHANGED <<intVars, plan, ghost>>
     \/ /\ irqPc = "arm" /\ irqPc' = "take"
        /\ edge2' = (latched # "none") /\ sem1' = (sem1 \/ latched # "none")
        /\ UNCHANGED <<plan, ghost>>
     \/ /\ irqPc = "fetch" /\ irqPc' = "while"
        /\ IF src.tilt = Axis(tiltDirection, position)
           THEN ghost' = (ghost \/ ~src.real) /\ \E p \in {<<>>, <<F("tilt", "lifted")>>} : Plans("imu", p)
           ELSE UNCHANGED <<plan, ghost>>
        /\ UNCHANGED intVars
  /\ UNCHANGED <<chipVars, tiltVars, src, ops, faults, collided, tilts, imuCalls>>

-----------------------------------------------------------------------------
ImuInit ==
  /\ bank = "user" /\ sens = "on" /\ route = "on" /\ latched = "none"
  /\ tiltEnable = TRUE /\ tiltDirection = "lowered" /\ position \in {"faceUp", "faceDown"}
  /\ mask = Axis("lowered", position) /\ latency = Latency("lowered")
  /\ edge2 = FALSE /\ sem1 = FALSE /\ irqPc = "take" /\ src = [tilt |-> "none", real |-> TRUE]
  /\ plan = [t \in ImuThreads |-> <<>>] /\ ops = [t \in ImuThreads |-> <<>>]
  /\ tilts = 0 /\ imuCalls = 0 /\ faults = 0 /\ collided = FALSE /\ ghost = FALSE

ImuNext ==
  \/ \E t \in ImuThreads : BeginsCall(t) \/ Transact(t)
  \/ LvglCalls \/ Tilt \/ Thread1Func

-----------------------------------------------------------------------------
ImuTypeOK ==
  /\ bank \in {"user", "B"} /\ mask \in Masks \cup {"none"} /\ latency \in {"long", "short"}
  /\ sens \in {"on", "off"} /\ route \in {"on", "off"} /\ latched \in Masks \cup {"none"}
  /\ irqPc \in {"take", "while", "fetch", "arm"}

AllQuiet == \A t \in ImuThreads : Quiet(t)

(* The chip is out of its user bank only while a thread is within its      *)
(* bracket, however the threads' transactions fall between one another: a  *)
(* sample read at any other time is one.  Not after a failed transaction.  *)
BankReturns == bank = "B" /\ faults = 0 => \E t \in ImuThreads : InBracket(t)

(* The chip watches for the direction the firmware believes it does, in    *)
(* both positions of the watch, across sleeps and the setting being turned *)
(* off and on; else the watch would not wake or sleep by the wrist.  Not   *)
(* if two threads set it at once, or a transaction fell into another       *)
(* thread's bracket, or failed.                                            *)
ChipAgrees ==
  AllQuiet /\ ~collided /\ faults = 0 =>
    /\ mask = Axis(tiltDirection, position)
    /\ tiltEnable <=> sens = "on" /\ route = "on"
    /\ tiltEnable => latency = Latency(tiltDirection)

(* A tilt is announced, and the watch woken, only for one the chip had     *)
(* latched, but for those same two cases.                                  *)
NoGhosts == ghost => collided \/ faults > 0

(* A tilt that is latched is not left: the thread is at it or called. *)
NeverDeaf == irqPc = "take" /\ latched # "none" => sem1

ImuInv == ImuTypeOK /\ BankReturns /\ ChipAgrees /\ NoGhosts /\ NeverDeaf
====================================================================================
