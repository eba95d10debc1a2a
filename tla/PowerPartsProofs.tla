------------------------------ MODULE PowerPartsProofs ------------------------------
(***************************************************************************)
(* Proofs about the boots of the watch (Boot), its sleeps (SleepMan) and   *)
(* its motion sensor (IMU), for any number of boots, of broken parts, of   *)
(* sleeps, of movements, of presses, of the sensor's calls and faults, and *)
(* for every length of SleepMan's queue.                                   *)
(***************************************************************************)
EXTENDS PowerParts, SequenceTheorems, TLAPS

-----------------------------------------------------------------------------
(***************************************************************************)
(* IMU: the sensor's driver.  Two threads call it: LVGL's and the          *)
(* sensor's own.  The invariant says of each what it has still to do, and  *)
(* that, done to its end, it leaves the chip as the object says: so        *)
(* whatever was called and in whatever order, a sensor at rest is set up   *)
(* as the watch was told.  With it go the bank of the chip's registers,    *)
(* the other one within a bracket and only there, and the sources that the *)
(* thread looks at, which it has read anew.                                *)
(***************************************************************************)
(* The motion sensor: the driver functions and the calls a thread may have *)
(* to come, and what they are called with.                                 *)
FNames == {"mask", "latency", "sens", "route", "reset", "id", "sources", "tilt", "wrist", "enable", "init"}
(* The arguments of all of them.                                           *)
FValues == {"ypos", "yneg", "none", "long", "short", "on", "off", "lifted", "lowered", "faceUp", "faceDown", ""}
(* A function or a call with an argument of its own.                       *)
Fs == {x \in [f : FNames, v : FValues] :
         /\ x.f = "mask" => x.v \in Masks \cup {"none"}
         /\ x.f = "latency" => x.v \in {"long", "short"}
         /\ x.f \in {"sens", "route", "enable"} => x.v \in {"on", "off"}
         /\ x.f = "tilt" => x.v \in {"lifted", "lowered"}
         /\ x.f = "wrist" => x.v \in {"faceUp", "faceDown"}}

(* The transactions that turn to the embedded functions' bank and back,    *)
(* the one that reads the mask within it, and the driver function that     *)
(* reads the sources.                                                      *)
ToB == Op("bank", "B")
ToUser == Op("bank", "user")
ToRead == Op("readMask", "")
SourcesFirst == F("sources", "")
ToSources == Op("sources", "")
(* The transactions that belong within the bracket.                        *)
BankOps == {o \in [do : {"mask", "latency", "readMask"}, v : FValues] :
              /\ o.do = "mask" => o.v \in Masks \cup {"none"}
              /\ o.do = "latency" => o.v \in {"long", "short"}}

(* What can be left of a driver function. *)
OpsShape(s) ==
  \/ s = <<>>
  \/ s = <<ToUser>>
  \/ s = <<ToB, ToRead, ToUser>>
  \/ \E o \in BankOps : s = <<o, ToUser>>

(* The types: what each thread has to come, and where in a function it is. *)
ImuTypes ==
  /\ ImuTypeOK
  /\ tiltEnable \in BOOLEAN /\ tiltDirection \in {"lifted", "lowered"} /\ position \in {"faceUp", "faceDown"}
  /\ edge2 \in BOOLEAN /\ sem1 \in BOOLEAN /\ collided \in BOOLEAN /\ ghost \in BOOLEAN
  /\ src \in [tilt : Masks \cup {"none"}, real : BOOLEAN]
  /\ plan \in [ImuThreads -> Seq(Fs)]
  /\ DOMAIN ops = ImuThreads /\ \A t \in ImuThreads : OpsShape(ops[t])
  /\ faults \in Nat

(* No two threads collided at the driver and no transfer failed: what    *)
(* the properties ask for.                                                 *)
Clean == ~collided /\ faults = 0

(* The bank is the other one exactly within a bracket, and one thread's. *)
BankKept ==
  Clean => /\ \A t \in ImuThreads : InBracket(t) => bank = "B"
           /\ \A t, u \in ImuThreads : InBracket(t) /\ InBracket(u) => t = u

(* What a thread will still do, its function begun included. *)
Todo(t) ==
  IF ops[t] # <<>> /\ Head(ops[t]).do \in {"mask", "latency"}
  THEN <<F(Head(ops[t]).do, Head(ops[t]).v)>> \o plan[t] ELSE plan[t]

(* The mask the chip is to have, and its detector's power.                 *)
Wanted == Axis(tiltDirection, position)
OnOff == IF tiltEnable THEN "on" ELSE "off"

(* The chip is set up as the object says.                                  *)
Agree ==
  /\ mask = Wanted
  /\ sens = OnOff /\ route = OnOff
  /\ tiltEnable => latency = Latency(tiltDirection)

(* A thread with calls to come of which none has begun: the thread's tilt, *)
(* and what LVGL's thread calls.                                           *)
Unbegun(t, s) ==
  \/ s = <<>> \/ s = <<SourcesFirst>>
  \/ t = "imu" /\ s = <<F("tilt", "lifted")>>
  \/ t = "lvgl" /\ \/ s = <<F("tilt", "lowered")>>
                   \/ \E e \in {"on", "off"}, p \in {"faceUp", "faceDown"} : s = <<F("enable", e), F("wrist", p)>>
                   \/ tiltEnable /\ \E d \in {"lifted", "lowered"} : s = <<F("init", ""), F("tilt", d)>>

(* No function that writes comes after a call that begins it anew. *)
CallsLast(s) ==
  \A i, j \in 1 .. Len(s) : i < j =>
    /\ s[i].f \in CallNames => s[j].f \notin {"mask", "latency", "reset", "enable", "init"}
    /\ s[i].f \in {"enable", "init"} => s[j].f \in {"tilt", "wrist"}

(* What is left ends with a function that writes, or is nothing, or only   *)
(* reads the sources.                                                      *)
Ends(s) ==
  s = <<>> \/ s = <<SourcesFirst>> \/ s[Len(s)].f \in {"mask", "latency", "tilt", "wrist"}

(* Each register is as wanted or a function to come sets it; and what sets *)
(* it sets what is wanted, or is set again.                                *)
MaskDue(s) ==
  /\ mask = Wanted \/ \E i \in 1 .. Len(s) : s[i].f \in {"mask", "wrist"}
  /\ \A i \in 1 .. Len(s) : s[i].f = "mask" =>
       s[i].v = Wanted \/ \E j \in i + 1 .. Len(s) : s[j].f = "wrist"

LatencyDue(s) ==
  /\ tiltEnable => latency = Latency(tiltDirection) \/ \E i \in 1 .. Len(s) : s[i].f \in {"latency", "tilt"}
  /\ \A i \in 1 .. Len(s) : s[i].f = "latency" =>
       ~tiltEnable \/ s[i].v = Latency(tiltDirection) \/ \E j \in i + 1 .. Len(s) : s[j].f = "tilt"

SensDue(s) ==
  /\ sens = OnOff \/ \E i \in 1 .. Len(s) : s[i].f = "sens"
  /\ \A i \in 1 .. Len(s) : s[i].f = "sens" => s[i].v = OnOff

RouteDue(s) ==
  /\ route = OnOff \/ \E i \in 1 .. Len(s) : s[i].f = "route"
  /\ \A i \in 1 .. Len(s) : s[i].f = "route" =>
       s[i].v = OnOff \/ \E j \in i + 1 .. Len(s) : s[j].f = "route"

(* A reset is mended by the functions after it.                            *)
ResetMends(s) ==
  /\ \A i \in 1 .. Len(s) : s[i].f = "reset" =>
       \A f \in {"wrist", "tilt", "sens", "route"} : \E j \in i + 1 .. Len(s) : s[j].f = f
  /\ \A i \in 1 .. Len(s) : s[i].f \in {"init", "reset"} => tiltEnable

(* Done to its end, what is left leaves the chip as the object says.       *)
Completes(s) ==
  /\ CallsLast(s) /\ Ends(s) /\ MaskDue(s) /\ LatencyDue(s) /\ SensDue(s) /\ RouteDue(s) /\ ResetMends(s)

(* There are two threads.                                                  *)
Other(t) == IF t = "imu" THEN "lvgl" ELSE "imu"

(* One thread is at its calls, the other has not begun any. *)
ChipPlan ==
  Clean => \E t \in ImuThreads, s \in Seq(Fs), r \in Seq(Fs) :
             s = Todo(t) /\ r = Todo(Other(t)) /\ Completes(s) /\ Unbegun(Other(t), r)

(* The thread reads the sources anew before it looks at them.              *)
GhostPlan ==
  irqPc = "fetch" /\ Clean => (plan["imu"] = <<SourcesFirst>> /\ ops["imu"] = <<>>) \/ src.real

(* The invariant of the motion sensor.                                     *)
ImuIInv == ImuTypes /\ BankReturns /\ BankKept /\ ChipPlan /\ NoGhosts /\ GhostPlan /\ NeverDeaf

-----------------------------------------------------------------------------
(* Facts about sequences, by position: a tail's,                           *)
LEMMA TailAt ==
  ASSUME NEW S, NEW s \in Seq(S), s # <<>>
  PROVE  /\ Head(s) = s[1] /\ Head(s) \in S /\ Tail(s) \in Seq(S) /\ Len(Tail(s)) = Len(s) - 1
         /\ Len(s) \in Nat /\ Len(s) >= 1
         /\ \A i \in 1 .. Len(s) - 1 : Tail(s)[i] = s[i + 1]
  OBVIOUS

(* two that are joined,                                                    *)
LEMMA JoinAt ==
  ASSUME NEW S, NEW p \in Seq(S), NEW s \in Seq(S)
  PROVE  /\ p \o s \in Seq(S) /\ Len(p \o s) = Len(p) + Len(s)
         /\ \A i \in 1 .. Len(p) : (p \o s)[i] = p[i]
         /\ \A i \in 1 .. Len(s) : (p \o s)[Len(p) + i] = s[i]
  OBVIOUS

(* and one that begins with an item.                                       *)
LEMMA JoinOne ==
  ASSUME NEW S, NEW a \in S, NEW s \in Seq(S)
  PROVE  <<a>> \o s \in Seq(S) /\ Head(<<a>> \o s) = a /\ Tail(<<a>> \o s) = s /\ <<a>> \o s # <<>>
  OBVIOUS

(* The fields of functions and transactions.                               *)
LEMMA Fields ==
  /\ \A x \in Fs : x = F(x.f, x.v) /\ x.f \in FNames /\ x.v \in FValues
  /\ \A f, v : F(f, v).f = f /\ F(f, v).v = v
  /\ \A o, v : Op(o, v).do = o /\ Op(o, v).v = v
  BY DEF Fs, F, Op

(* The functions the code calls are functions.                             *)
LEMMA FsHave ==
  /\ \A m \in Masks \cup {"none"} : F("mask", m) \in Fs
  /\ \A l \in {"long", "short"} : F("latency", l) \in Fs
  /\ \A o \in {"on", "off"} : F("sens", o) \in Fs /\ F("route", o) \in Fs /\ F("enable", o) \in Fs
  /\ \A d \in {"lifted", "lowered"} : F("tilt", d) \in Fs
  /\ \A p \in {"faceUp", "faceDown"} : F("wrist", p) \in Fs
  /\ F("reset", "") \in Fs /\ F("id", "") \in Fs /\ F("sources", "") \in Fs /\ F("init", "") \in Fs
  BY DEF Fs, F, FNames, FValues, Masks

(* A function that goes to the other bank has one transaction within it.   *)
LEMMA BankFunctions ==
  /\ \A x \in Fs : x.f \in {"mask", "latency"} => Op(x.f, x.v) \in BankOps
  /\ ToRead \in BankOps
  /\ \A o \in BankOps : /\ o # ToB /\ o # ToUser /\ o.do \in {"mask", "latency", "readMask"} /\ ~InUserBank(o)
                        /\ o.do \in {"mask", "latency"} => F(o.do, o.v) \in Fs
<1>1. \A x \in Fs : x.f \in {"mask", "latency"} => Op(x.f, x.v) \in BankOps
  BY DEF BankOps, Fs, F, Op, FNames, FValues, Masks
<1>2. ToRead \in BankOps
  BY DEF BankOps, Op, FValues, ToRead
<1>3. ASSUME NEW o \in BankOps
      PROVE  o # ToB /\ o # ToUser /\ o.do \in {"mask", "latency", "readMask"} /\ ~InUserBank(o)
  <2>1. o.do \in {"mask", "latency", "readMask"}
    BY DEF BankOps
  <2>2. ToB.do = "bank" /\ ToUser.do = "bank"
    BY DEF ToB, ToUser, Op
  <2> QED
    BY <2>1, <2>2 DEF InUserBank
<1>4. ASSUME NEW o \in BankOps, o.do = "mask"
      PROVE  F(o.do, o.v) \in Fs
  BY <1>4, FsHave DEF BankOps
<1>5. ASSUME NEW o \in BankOps, o.do = "latency"
      PROVE  F(o.do, o.v) \in Fs
  BY <1>5, FsHave DEF BankOps
<1> QED
  BY <1>1, <1>2, <1>3, <1>4, <1>5

(* The heads and tails of short tuples,                                    *)
LEMMA Tuples ==
  \A a, b, c, d :
    /\ Head(<<a>>) = a /\ Tail(<<a>>) = <<>>
    /\ Head(<<a, b>>) = a /\ Tail(<<a, b>>) = <<b>>
    /\ Head(<<a, b, c>>) = a /\ Tail(<<a, b, c>>) = <<b, c>>
    /\ Head(<<a, b, c, d>>) = a /\ Tail(<<a, b, c, d>>) = <<b, c, d>>
  OBVIOUS

(* and their elements.                                                     *)
LEMMA TupleSets ==
  \A a, b, c :
    /\ ToSet(<<>>) = {} /\ ToSet(<<a>>) = {a} /\ ToSet(<<a, b>>) = {a, b} /\ ToSet(<<a, b, c>>) = {a, b, c}
  BY DEF ToSet

(* The latency and the axis of a direction.                                *)
LEMMA Directions ==
  /\ \A d \in {"lifted", "lowered"} : Latency(d) \in {"long", "short"}
  /\ \A d, p : Axis(d, p) \in Masks
  BY DEF Latency, Axis, Masks

-----------------------------------------------------------------------------
(* What a transaction is, by where its thread is in its driver function:   *)
(* the first of a function of the other bank,                              *)
BeginsBank(t, op, tail, rest) ==
  /\ ops[t] = <<>> /\ plan[t] # <<>> /\ Head(plan[t]).f \in {"mask", "latency"}
  /\ op = ToB /\ tail = <<Op(Head(plan[t]).f, Head(plan[t]).v), ToUser>> /\ rest = Tail(plan[t])
(* the read of the sources,                                                *)
BeginsSources(t, op, tail, rest) ==
  /\ ops[t] = <<>> /\ plan[t] # <<>> /\ Head(plan[t]).f = "sources"
  /\ op = ToSources /\ tail = <<ToB, ToRead, ToUser>> /\ rest = Tail(plan[t])
(* a function of one transaction,                                          *)
InOne(t, op, tail, rest) ==
  /\ ops[t] = <<>> /\ plan[t] # <<>> /\ Head(plan[t]).f \in {"sens", "route", "reset", "id"}
  /\ op = Op(Head(plan[t]).f, Head(plan[t]).v) /\ tail = <<>> /\ rest = Tail(plan[t])
(* the turn back,                                                          *)
EndsBank(t, op, tail, rest) ==
  ops[t] = <<ToUser>> /\ op = ToUser /\ tail = <<>> /\ rest = plan[t]
(* the turn to the bank after the sources were read,                       *)
ToReadMask(t, op, tail, rest) ==
  /\ ops[t] = <<ToB, ToRead, ToUser>>
  /\ op = ToB /\ tail = <<ToRead, ToUser>> /\ rest = plan[t]
(* or what is done within it.                                              *)
WithinBank(t, op, tail, rest) ==
  /\ op \in BankOps /\ ops[t] = <<op, ToUser>> /\ tail = <<ToUser>> /\ rest = plan[t]

(* A transaction is one of these.                                          *)
Kind(t, op, tail, rest) ==
  \/ BeginsBank(t, op, tail, rest) \/ BeginsSources(t, op, tail, rest) \/ InOne(t, op, tail, rest)
  \/ EndsBank(t, op, tail, rest) \/ ToReadMask(t, op, tail, rest) \/ WithinBank(t, op, tail, rest)

(* What it does, got through or not.                                       *)
Outcome(t, op, tail, rest, ok) ==
  /\ collided' = (collided \/ \E u \in ImuThreads \ {t} : InBracket(u))
  /\ faults' = faults + (IF ok THEN 0 ELSE 1)
  /\ Reads(t, op, ok)
  /\ ok => Written(op) /\ ops' = [ops EXCEPT ![t] = tail]
  /\ ~ok => UNCHANGED chipVars /\ ops' = [ops EXCEPT ![t] = <<>>]
  /\ \/ plan' = [plan EXCEPT ![t] = rest]
     \/ op.do = "id" /\ ~(ok /\ Arrives(op)) /\ plan' = [plan EXCEPT ![t] = <<>>]
  /\ UNCHANGED <<intVars, tiltVars, irqPc, ghost>>

(* The type of a thread's plan.                                            *)
LEMMA PlanTypes ==
  ASSUME ImuTypes, NEW t \in ImuThreads
  PROVE  plan[t] \in Seq(Fs) /\ OpsShape(ops[t])
  BY DEF ImuTypes

(* A transaction that begins a function,                                   *)
LEMMA Begins ==
  ASSUME ImuTypes, NEW t \in ImuThreads, ops[t] = <<>>, Left(t) # <<>>
  PROVE  \/ BeginsBank(t, Head(Left(t)), Tail(Left(t)), Tail(plan[t]))
         \/ BeginsSources(t, Head(Left(t)), Tail(Left(t)), Tail(plan[t]))
         \/ InOne(t, Head(Left(t)), Tail(Left(t)), Tail(plan[t]))
<1> DEFINE h == Head(plan[t])
<1>1. plan[t] # <<>> /\ h.f \notin CallNames /\ Left(t) = Transactions(h)
  BY DEF Left
<1>2. h \in Fs
  BY <1>1, PlanTypes, TailAt
<1>3. h.f \in FNames
  BY <1>2, Fields
<1> HIDE DEF h
<1>4. CASE h.f \in {"mask", "latency"}
  <2>1. Left(t) = <<ToB, Op(h.f, h.v), ToUser>>
    BY <1>1, <1>4 DEF Transactions, InBankB, ToB, ToUser
  <2>2. Head(Left(t)) = ToB /\ Tail(Left(t)) = <<Op(h.f, h.v), ToUser>>
    BY <2>1, Tuples
  <2> QED
    BY <1>1, <1>4, <2>2 DEF BeginsBank, h
<1>5. CASE h.f = "sources"
  <2>1. Left(t) = <<ToSources>> \o <<ToB, ToRead, ToUser>>
    BY <1>1, <1>5 DEF Transactions, InBankB, ToB, ToUser, ToRead, ToSources
  <2>2. \A a, b, c, d : Head(<<a>> \o <<b, c, d>>) = a /\ Tail(<<a>> \o <<b, c, d>>) = <<b, c, d>>
    <3> SUFFICES ASSUME NEW a, NEW b, NEW c, NEW d
                 PROVE  Head(<<a>> \o <<b, c, d>>) = a /\ Tail(<<a>> \o <<b, c, d>>) = <<b, c, d>>
      OBVIOUS
    <3>1. a \in {a, b, c, d} /\ <<b, c, d>> \in Seq({a, b, c, d})
      OBVIOUS
    <3> QED
      BY <3>1, JoinOne
  <2>3. /\ Head(Left(t)) = ToSources
        /\ Tail(Left(t)) = <<ToB, ToRead, ToUser>>
    BY <2>1, <2>2
  <2> QED
    BY <1>1, <1>5, <2>3 DEF BeginsSources, h
<1>6. CASE h.f \in {"sens", "route", "reset", "id"}
  <2>1. Left(t) = <<Op(h.f, h.v)>>
    BY <1>1, <1>6 DEF Transactions
  <2>2. Head(Left(t)) = Op(h.f, h.v) /\ Tail(Left(t)) = <<>>
    BY <2>1, Tuples
  <2> QED
    BY <1>1, <1>6, <2>2 DEF InOne, h
<1> QED
  BY <1>1, <1>3, <1>4, <1>5, <1>6 DEF FNames, CallNames

(* and one that goes on with it.                                           *)
LEMMA PlanGoes ==
  ASSUME ImuTypes, NEW t \in ImuThreads, ops[t] # <<>>
  PROVE  \/ EndsBank(t, Head(Left(t)), Tail(Left(t)), plan[t])
         \/ ToReadMask(t, Head(Left(t)), Tail(Left(t)), plan[t])
         \/ WithinBank(t, Head(Left(t)), Tail(Left(t)), plan[t])
<1>1. Left(t) = ops[t]
  BY DEF Left
<1>2. CASE ops[t] = <<ToUser>>
  BY <1>1, <1>2, Tuples DEF EndsBank
<1>3. CASE ops[t] = <<ToB, ToRead, ToUser>>
  <2>1. Head(ops[t]) = ToB /\ Tail(ops[t]) = <<ToRead, ToUser>>
    BY <1>3, Tuples
  <2> QED
    BY <1>1, <1>3, <2>1 DEF ToReadMask
<1>4. ASSUME NEW o \in BankOps, ops[t] = <<o, ToUser>>
      PROVE  WithinBank(t, Head(Left(t)), Tail(Left(t)), plan[t])
  <2>1. Head(ops[t]) = o /\ Tail(ops[t]) = <<ToUser>>
    BY <1>4, Tuples
  <2> QED
    BY <1>1, <1>4, <2>1 DEF WithinBank
<1> QED
  BY <1>2, <1>3, <1>4, PlanTypes DEF OpsShape

(* Short tuples are sequences,                                             *)
LEMMA TupleTypes ==
  ASSUME NEW S
  PROVE  /\ <<>> \in Seq(S) /\ \A a \in S : <<a>> \in Seq(S) /\ <<a>> # <<>>
         /\ \A a, b \in S : <<a, b>> \in Seq(S) /\ <<a, b>> # <<>>
         /\ \A a, b, c, d \in S : <<a, b, c, d>> \in Seq(S)
  OBVIOUS

(* and so is one of ten.                                                   *)
LEMMA TenTypes ==
  ASSUME NEW S, NEW a \in S, NEW b \in S, NEW c \in S, NEW d \in S, NEW e \in S,
         NEW f \in S, NEW g \in S, NEW h \in S, NEW i \in S, NEW j \in S
  PROVE  <<a, b, c, d, e, f, g, h, i, j>> \in Seq(S)
  OBVIOUS

(* So every transaction is of a kind and has an outcome.                   *)
LEMMA TransactHas ==
  ASSUME ImuTypes, NEW t \in ImuThreads, Transact(t)
  PROVE  \E ok, op, tail, rest : ok \in BOOLEAN /\ Kind(t, op, tail, rest) /\ Outcome(t, op, tail, rest, ok)
<1> DEFINE rest0 == IF ops[t] = <<>> THEN Tail(plan[t]) ELSE plan[t]
<1>1. Kind(t, Head(Left(t)), Tail(Left(t)), rest0)
  <2>1. Left(t) # <<>>
    BY DEF Transact
  <2>2. CASE ops[t] = <<>>
    BY <2>1, <2>2, Begins DEF Kind
  <2>3. CASE ops[t] # <<>>
    BY <2>3, PlanGoes DEF Kind
  <2> QED
    BY <2>2, <2>3
<1>3. \E ok \in BOOLEAN : Outcome(t, Head(Left(t)), Tail(Left(t)), rest0, ok)
  BY DEF Transact, Outcome
<1> QED
  BY <1>1, <1>3

-----------------------------------------------------------------------------
(* The types are kept: what is left after a transaction,                   *)
LEMMA KindTypes ==
  ASSUME ImuTypes, NEW t \in ImuThreads, NEW op, NEW tail, NEW rest, Kind(t, op, tail, rest)
  PROVE  /\ OpsShape(tail) /\ rest \in Seq(Fs)
         /\ \/ op \in BankOps \/ op \in {ToB, ToUser, ToSources}
            \/ \E f \in Fs : f.f \in {"sens", "route", "reset", "id"} /\ op = Op(f.f, f.v)
<1>1. plan[t] # <<>> => Head(plan[t]) \in Fs /\ Tail(plan[t]) \in Seq(Fs)
  BY PlanTypes, TailAt
<1>2. plan[t] \in Seq(Fs)
  BY PlanTypes
<1>3. CASE BeginsBank(t, op, tail, rest)
  <2>1. Op(Head(plan[t]).f, Head(plan[t]).v) \in BankOps
    BY <1>1, <1>3, BankFunctions DEF BeginsBank
  <2> QED
    BY <1>1, <1>3, <2>1 DEF BeginsBank, OpsShape
<1>4. CASE BeginsSources(t, op, tail, rest)
  BY <1>1, <1>4 DEF BeginsSources, OpsShape, ToSources
<1>5. CASE InOne(t, op, tail, rest)
  BY <1>1, <1>5 DEF InOne, OpsShape
<1>6. CASE EndsBank(t, op, tail, rest)
  BY <1>2, <1>6 DEF EndsBank, OpsShape
<1>7. CASE ToReadMask(t, op, tail, rest)
  BY <1>2, <1>7, BankFunctions DEF ToReadMask, OpsShape
<1>8. CASE WithinBank(t, op, tail, rest)
  BY <1>2, <1>8 DEF WithinBank, OpsShape
<1> QED
  BY <1>3, <1>4, <1>5, <1>6, <1>7, <1>8 DEF Kind

(* what it writes,                                                         *)
LEMMA WrittenTypes ==
  ASSUME ImuTypes, NEW op, Written(op),
         \/ op \in BankOps \/ op \in {ToB, ToUser, ToSources}
         \/ \E f \in Fs : f.f \in {"sens", "route", "reset", "id"} /\ op = Op(f.f, f.v)
  PROVE  /\ bank' \in {"user", "B"} /\ mask' \in Masks \cup {"none"} /\ latency' \in {"long", "short"}
         /\ sens' \in {"on", "off"} /\ route' \in {"on", "off"} /\ latched' \in Masks \cup {"none"}
<1>1. /\ op.do = "bank" => op.v \in {"user", "B"}
      /\ op.do = "mask" => op.v \in Masks \cup {"none"}
      /\ op.do = "latency" => op.v \in {"long", "short"}
      /\ op.do \in {"sens", "route"} => op.v \in {"on", "off"}
  <2>1. CASE op \in BankOps
    BY <2>1 DEF BankOps
  <2>2. CASE op \in {ToB, ToUser, ToSources}
    <3>1. /\ ToB.do = "bank" /\ ToB.v = "B" /\ ToUser.do = "bank" /\ ToUser.v = "user"
          /\ ToSources.do = "sources"
      BY DEF ToB, ToUser, ToSources, Op
    <3> QED
      BY <2>2, <3>1
  <2>3. ASSUME NEW f \in Fs, f.f \in {"sens", "route", "reset", "id"}, op = Op(f.f, f.v)
        PROVE  <1>1!:
    BY <2>3, Fields DEF Fs
  <2> QED
    BY <2>1, <2>2, <2>3
<1>2. /\ bank \in {"user", "B"} /\ mask \in Masks \cup {"none"} /\ latency \in {"long", "short"}
      /\ sens \in {"on", "off"} /\ route \in {"on", "off"} /\ latched \in Masks \cup {"none"}
  BY DEF ImuTypes, ImuTypeOK
<1> QED
  BY <1>1, <1>2 DEF Written

(* what it reads,                                                          *)
LEMMA ReadTypes ==
  ASSUME ImuTypes, NEW t, NEW op, NEW ok, Reads(t, op, ok)
  PROVE  src' \in [tilt : Masks \cup {"none"}, real : BOOLEAN]
<1>1. src \in [tilt : Masks \cup {"none"}, real : BOOLEAN] /\ latched \in Masks \cup {"none"}
  BY DEF ImuTypes, ImuTypeOK
<1> DEFINE real == [tilt |-> latched, real |-> TRUE]
<1>2. real \in [tilt : Masks \cup {"none"}, real : BOOLEAN]
  BY <1>1
<1>3. \A x \in Masks \cup {"none"} : [tilt |-> x, real |-> FALSE] \in [tilt : Masks \cup {"none"}, real : BOOLEAN]
  OBVIOUS
<1>4. src' = src \/ src' = real \/ \E x \in Masks \cup {"none"} : src' = [tilt |-> x, real |-> FALSE]
  BY DEF Reads
<1> HIDE DEF real
<1> QED
  BY <1>1, <1>2, <1>3, <1>4

(* and all of them.                                                        *)
LEMMA TransactTypes ==
  ASSUME ImuTypes, NEW t \in ImuThreads, Transact(t)
  PROVE  ImuTypes'
<1>1. PICK ok, op, tail, rest : ok \in BOOLEAN /\ Kind(t, op, tail, rest) /\ Outcome(t, op, tail, rest, ok)
  BY TransactHas
<1>2. /\ OpsShape(tail) /\ rest \in Seq(Fs)
      /\ \/ op \in BankOps \/ op \in {ToB, ToUser, ToSources}
         \/ \E f \in Fs : f.f \in {"sens", "route", "reset", "id"} /\ op = Op(f.f, f.v)
  BY <1>1, KindTypes
<1>3. ImuTypeOK'
  <2>1. CASE ok
    BY <1>1, <1>2, <2>1, WrittenTypes DEF Outcome, ImuTypes, ImuTypeOK
  <2>2. CASE ~ok
    BY <1>1, <2>2 DEF Outcome, ImuTypes, ImuTypeOK, chipVars
  <2> QED
    BY <2>1, <2>2
<1>4. src' \in [tilt : Masks \cup {"none"}, real : BOOLEAN]
  BY <1>1, ReadTypes DEF Outcome
<1>5. plan' \in [ImuThreads -> Seq(Fs)]
  <2>1. <<>> \in Seq(Fs)
    OBVIOUS
  <2>2. \E p \in Seq(Fs) : plan' = [plan EXCEPT ![t] = p]
    BY <1>1, <1>2, <2>1 DEF Outcome
  <2> QED
    BY <2>2 DEF ImuTypes
<1>6. DOMAIN ops' = ImuThreads /\ \A u \in ImuThreads : OpsShape(ops'[u])
  <2>1. \E s : OpsShape(s) /\ ops' = [ops EXCEPT ![t] = s]
    BY <1>1, <1>2 DEF Outcome, OpsShape
  <2> QED
    BY <2>1 DEF ImuTypes
<1>7. faults' \in Nat
  <2>1. faults \in Nat
    BY DEF ImuTypes
  <2> QED
    BY <1>1, <2>1 DEF Outcome
<1>8. collided' \in BOOLEAN
  BY <1>1, Zenon DEF Outcome
<1>9. UNCHANGED <<edge2, sem1, tiltEnable, tiltDirection, position, ghost>>
  BY <1>1 DEF Outcome, intVars, tiltVars
<1> QED
  BY <1>3, <1>4, <1>5, <1>6, <1>7, <1>8, <1>9 DEF ImuTypes

(* A call of IMU's that is begun: what it leaves to do. *)
CallPlan(f) ==
  IF f.f = "tilt" THEN (IF tiltEnable THEN <<F("mask", Axis(f.v, position)), F("latency", Latency(f.v))>> ELSE <<>>)
  ELSE IF f.f = "wrist" THEN <<F("mask", Axis(tiltDirection, f.v))>>
  ELSE IF f.f = "init" THEN InitPlan
  ELSE IF tiltEnable = (f.v = "on") THEN <<>>
  ELSE IF f.v = "on" THEN <<F("tilt", tiltDirection), F("sens", "on"), F("route", "on"), F("sources", "")>>
  ELSE <<F("sens", "off"), F("route", "off")>>

(* Nothing before a sequence is the sequence.                              *)
LEMMA EmptyJoin ==
  ASSUME NEW S, NEW s \in Seq(S)
  PROVE  <<>> \o s = s
  OBVIOUS

(* What a call that begins does to the object and to the plan.             *)
LEMMA BeginsDoes ==
  ASSUME ImuTypes, NEW t \in ImuThreads, BeginsCall(t)
  PROVE  /\ ops[t] = <<>> /\ plan[t] # <<>> /\ Head(plan[t]).f \in CallNames
         /\ plan' = [plan EXCEPT ![t] = CallPlan(Head(plan[t])) \o Tail(plan[t])]
         /\ tiltEnable' = IF Head(plan[t]).f = "enable" THEN Head(plan[t]).v = "on" ELSE tiltEnable
         /\ tiltDirection' = IF Head(plan[t]).f = "tilt" /\ tiltEnable THEN Head(plan[t]).v ELSE tiltDirection
         /\ position' = IF Head(plan[t]).f = "wrist" THEN Head(plan[t]).v ELSE position
         /\ collided' = (collided \/ \E u \in ImuThreads \ {t} : Writing(u))
         /\ UNCHANGED <<chipVars, intVars, irqPc, src, ops, faults, ghost>>
<1> DEFINE h == Head(plan[t])
<1>1. /\ ops[t] = <<>> /\ plan[t] # <<>> /\ h.f \in CallNames
      /\ collided' = (collided \/ \E u \in ImuThreads \ {t} : Writing(u))
      /\ UNCHANGED <<chipVars, intVars, irqPc, src, ops, faults, ghost>>
  BY DEF BeginsCall
<1>2. plan \in [ImuThreads -> Seq(Fs)] /\ plan[t] \in Seq(Fs) /\ Tail(plan[t]) \in Seq(Fs)
  BY <1>1, TailAt DEF ImuTypes
<1>3. <<>> \o Tail(plan[t]) = Tail(plan[t])
  BY <1>2, EmptyJoin
<1>4. CASE h.f = "tilt"
  <2>1. SetTiltDirection(t, h.v)
    BY <1>4 DEF BeginsCall
  <2>2. CASE tiltEnable
    BY <1>1, <1>2, <1>4, <2>1, <2>2 DEF SetTiltDirection, CallPlan
  <2>3. CASE ~tiltEnable
    BY <1>1, <1>2, <1>3, <1>4, <2>1, <2>3 DEF SetTiltDirection, CallPlan, tiltVars
  <2> QED
    BY <2>2, <2>3
<1>5. CASE h.f = "wrist"
  <2>1. SetWristPosition(t, h.v)
    BY <1>5 DEF BeginsCall
  <2> QED
    BY <1>1, <1>2, <1>5, <2>1 DEF SetWristPosition, CallPlan
<1>6. CASE h.f = "enable"
  <2>1. EnableTiltDetection(t, h.v = "on")
    BY <1>6 DEF BeginsCall
  <2> QED
    BY <1>1, <1>2, <1>6, <2>1 DEF EnableTiltDetection, CallPlan
<1>7. CASE h.f = "init"
  <2>1. plan' = [plan EXCEPT ![t] = InitPlan \o Tail(@)] /\ UNCHANGED tiltVars
    BY <1>7 DEF BeginsCall
  <2> QED
    BY <1>1, <1>2, <1>7, <2>1 DEF CallPlan, tiltVars
<1> QED
  BY <1>1, <1>4, <1>5, <1>6, <1>7 DEF CallNames

(* What it leaves to do is functions and calls,                            *)
LEMMA CallPlanTypes ==
  ASSUME ImuTypes, NEW f \in Fs, f.f \in CallNames
  PROVE  CallPlan(f) \in Seq(Fs)
<1>1. tiltDirection \in {"lifted", "lowered"} /\ position \in {"faceUp", "faceDown"}
  BY DEF ImuTypes
<1>2. f.f = "tilt" => f.v \in {"lifted", "lowered"}
  BY DEF Fs
<1>3. f.f = "tilt" => F("mask", Axis(f.v, position)) \in Fs /\ F("latency", Latency(f.v)) \in Fs
  BY <1>2, FsHave, Directions
<1>4. F("mask", Axis(tiltDirection, f.v)) \in Fs
  BY FsHave, Directions
<1>5. InitPlan \in Seq(Fs)
  <2>1. F("wrist", position) \in Fs /\ F("tilt", "lowered") \in Fs
    BY <1>1, FsHave
  <2>2. /\ F("reset", "") \in Fs /\ F("id", "") \in Fs /\ F("sources", "") \in Fs /\ F("route", "off") \in Fs
        /\ F("sens", "on") \in Fs /\ F("latency", "long") \in Fs /\ F("mask", "none") \in Fs /\ F("route", "on") \in Fs
    BY FsHave
  <2> QED
    BY <2>1, <2>2, TenTypes DEF InitPlan
<1>6. /\ F("tilt", tiltDirection) \in Fs /\ F("sens", "on") \in Fs /\ F("route", "on") \in Fs /\ F("sources", "") \in Fs
      /\ F("sens", "off") \in Fs /\ F("route", "off") \in Fs
  BY <1>1, FsHave
<1> DEFINE S4 == <<F("tilt", tiltDirection), F("sens", "on"), F("route", "on"), F("sources", "")>>
           S2 == <<F("sens", "off"), F("route", "off")>>
           ST == <<F("mask", Axis(f.v, position)), F("latency", Latency(f.v))>>
           SW == <<F("mask", Axis(tiltDirection, f.v))>>
<1>7. S4 \in Seq(Fs) /\ S2 \in Seq(Fs) /\ SW \in Seq(Fs) /\ <<>> \in Seq(Fs)
  BY <1>4, <1>6, TupleTypes
<1>8. f.f = "tilt" => ST \in Seq(Fs)
  BY <1>3, TupleTypes
<1> HIDE DEF S4, S2, ST, SW
<1>9. \/ CallPlan(f) = <<>> \/ CallPlan(f) = InitPlan \/ CallPlan(f) = S4 \/ CallPlan(f) = S2 \/ CallPlan(f) = SW
      \/ (f.f = "tilt" /\ CallPlan(f) = ST)
  <2>1. CASE f.f = "tilt"
    BY <2>1 DEF CallPlan, ST
  <2>2. CASE f.f = "wrist"
    BY <2>2 DEF CallPlan, SW
  <2>3. CASE f.f = "init"
    BY <2>3 DEF CallPlan
  <2>4. CASE f.f = "enable"
    BY <2>4, Zenon DEF CallPlan, S4, S2
  <2> QED
    BY <2>1, <2>2, <2>3, <2>4 DEF CallNames
<1> QED
  BY <1>5, <1>7, <1>8, <1>9

(* so the types are kept.                                                  *)
LEMMA BeginsTypes ==
  ASSUME ImuTypes, NEW t \in ImuThreads, BeginsCall(t)
  PROVE  ImuTypes'
<1> DEFINE h == Head(plan[t])
<1>1. /\ ops[t] = <<>> /\ plan[t] # <<>> /\ h.f \in CallNames
      /\ plan' = [plan EXCEPT ![t] = CallPlan(h) \o Tail(plan[t])]
      /\ tiltEnable' = IF h.f = "enable" THEN h.v = "on" ELSE tiltEnable
      /\ tiltDirection' = IF h.f = "tilt" /\ tiltEnable THEN h.v ELSE tiltDirection
      /\ position' = IF h.f = "wrist" THEN h.v ELSE position
      /\ collided' = (collided \/ \E u \in ImuThreads \ {t} : Writing(u))
      /\ UNCHANGED <<chipVars, intVars, irqPc, src, ops, faults, ghost>>
  BY BeginsDoes
<1>2. h \in Fs /\ Tail(plan[t]) \in Seq(Fs)
  BY <1>1, PlanTypes, TailAt
<1> HIDE DEF h
<1>3. CallPlan(h) \o Tail(plan[t]) \in Seq(Fs)
  BY <1>1, <1>2, CallPlanTypes, JoinAt
<1>4. plan' \in [ImuThreads -> Seq(Fs)]
  BY <1>1, <1>3 DEF ImuTypes
<1>5. tiltEnable' \in BOOLEAN /\ collided' \in BOOLEAN
  BY <1>1, Zenon DEF ImuTypes
<1>6. tiltDirection' \in {"lifted", "lowered"} /\ position' \in {"faceUp", "faceDown"}
  BY <1>1, <1>2 DEF ImuTypes, Fs
<1> QED
  BY <1>1, <1>4, <1>5, <1>6 DEF ImuTypes, ImuTypeOK, chipVars, intVars

(* A thread that plans calls keeps the type of the plans.                  *)
LEMMA PlansTypes ==
  ASSUME ImuTypes, NEW t \in ImuThreads, NEW p \in Seq(Fs), Plans(t, p)
  PROVE  plan' \in [ImuThreads -> Seq(Fs)]
  BY DEF Plans, ImuTypes

(* LVGL's thread plans calls it has not begun,                             *)
LEMMA LvglHas ==
  ASSUME LvglCalls
  PROVE  \E p \in Seq(Fs) : Plans("lvgl", p) /\ Unbegun("lvgl", p) /\ p # <<>>
<1>1. ASSUME NEW e \in {"on", "off"}, NEW p \in {"faceUp", "faceDown"}, Plans("lvgl", <<F("enable", e), F("wrist", p)>>)
      PROVE  \E q \in Seq(Fs) : Plans("lvgl", q) /\ Unbegun("lvgl", q) /\ q # <<>>
  <2>1. F("enable", e) \in Fs /\ F("wrist", p) \in Fs
    BY FsHave
  <2>2. <<F("enable", e), F("wrist", p)>> \in Seq(Fs) /\ <<F("enable", e), F("wrist", p)>> # <<>>
    BY <2>1, TupleTypes
  <2> QED
    BY <1>1, <2>2 DEF Unbegun
<1>2. ASSUME NEW d \in {"lifted", "lowered"}, tiltEnable, Plans("lvgl", <<F("init", ""), F("tilt", d)>>)
      PROVE  \E q \in Seq(Fs) : Plans("lvgl", q) /\ Unbegun("lvgl", q) /\ q # <<>>
  <2>1. F("init", "") \in Fs /\ F("tilt", d) \in Fs
    BY FsHave
  <2>2. <<F("init", ""), F("tilt", d)>> \in Seq(Fs) /\ <<F("init", ""), F("tilt", d)>> # <<>>
    BY <2>1, TupleTypes
  <2> QED
    BY <1>2, <2>2 DEF Unbegun
<1>3. ASSUME Plans("lvgl", <<F("tilt", "lowered")>>)
      PROVE  \E q \in Seq(Fs) : Plans("lvgl", q) /\ Unbegun("lvgl", q) /\ q # <<>>
  <2>1. F("tilt", "lowered") \in Fs
    BY FsHave
  <2>2. <<F("tilt", "lowered")>> \in Seq(Fs) /\ <<F("tilt", "lowered")>> # <<>>
    BY <2>1, TupleTypes
  <2> QED
    BY <1>3, <2>2 DEF Unbegun
<1> QED
  BY <1>1, <1>2, <1>3 DEF LvglCalls

(* and so does the sensor's own.                                           *)
LEMMA ThreadHas ==
  ASSUME Thread1Func
  PROVE  UNCHANGED plan \/ \E p \in Seq(Fs) : Plans("imu", p) /\ Unbegun("imu", p)
<1>1. SourcesFirst \in Fs /\ F("tilt", "lifted") \in Fs
  BY FsHave DEF SourcesFirst
<1>2. <<SourcesFirst>> \in Seq(Fs) /\ <<F("tilt", "lifted")>> \in Seq(Fs) /\ <<>> \in Seq(Fs)
  BY <1>1, TupleTypes
<1>3. /\ Unbegun("imu", <<SourcesFirst>>) /\ Unbegun("imu", <<F("tilt", "lifted")>>) /\ Unbegun("imu", <<>>)
  BY DEF Unbegun
<1> QED
  BY <1>2, <1>3 DEF Thread1Func, SourcesFirst

(* The steps that are not at the driver keep the types.                    *)
LEMMA OthersTypes ==
  ASSUME ImuTypes, LvglCalls \/ Tilt \/ Thread1Func
  PROVE  ImuTypes'
<1>1. CASE LvglCalls
  <2>1. plan' \in [ImuThreads -> Seq(Fs)]
    BY <1>1, LvglHas, PlansTypes DEF ImuThreads
  <2>2. UNCHANGED <<chipVars, intVars, tiltVars, irqPc, src, ops, faults, collided, ghost>>
    BY <1>1 DEF LvglCalls
  <2> QED
    BY <2>1, <2>2 DEF ImuTypes, ImuTypeOK, chipVars, intVars, tiltVars
<1>2. CASE Tilt
  <2>1. edge2' \in BOOLEAN /\ sem1' \in BOOLEAN
    BY <1>2 DEF Tilt, ImuTypes, intVars
  <2> QED
    BY <1>2, <2>1 DEF Tilt, ImuTypes, ImuTypeOK, tiltVars, busVars
<1>3. CASE Thread1Func
  <2>1. plan' \in [ImuThreads -> Seq(Fs)]
    BY <1>3, ThreadHas, PlansTypes DEF ImuThreads, ImuTypes
  <2>2. edge2' \in BOOLEAN /\ sem1' \in BOOLEAN /\ ghost' \in BOOLEAN
    BY <1>3, Zenon DEF Thread1Func, ImuTypes, intVars
  <2>3. irqPc' \in {"take", "while", "fetch", "arm"}
    BY <1>3 DEF Thread1Func
  <2>4. UNCHANGED <<chipVars, tiltVars, src, ops, faults, collided>>
    BY <1>3 DEF Thread1Func
  <2> QED
    BY <2>1, <2>2, <2>3, <2>4 DEF ImuTypes, ImuTypeOK, chipVars, tiltVars
<1> QED
  BY <1>1, <1>2, <1>3

-----------------------------------------------------------------------------
(* The bank: a thread is in a bracket when the turn back is left to do and *)
(* the turn there is not.                                                  *)
Bracket(s) == ToUser \in ToSet(s) /\ ToB \notin ToSet(s)

(* Where in a function that is,                                            *)
LEMMA Brackets ==
  /\ ~Bracket(<<>>) /\ Bracket(<<ToUser>>) /\ ~Bracket(<<ToB, ToRead, ToUser>>)
  /\ \A o \in BankOps : Bracket(<<o, ToUser>>)
<1>1. ToUser # ToB
  BY DEF ToUser, ToB, Op
<1>2. ~Bracket(<<>>) /\ Bracket(<<ToUser>>) /\ ~Bracket(<<ToB, ToRead, ToUser>>)
  BY <1>1, TupleSets DEF Bracket
<1>3. ASSUME NEW o \in BankOps
      PROVE  Bracket(<<o, ToUser>>)
  <2>1. ToSet(<<o, ToUser>>) = {o, ToUser} /\ o # ToB
    BY TupleSets, BankFunctions
  <2> QED
    BY <1>1, <2>1 DEF Bracket
<1> QED
  BY <1>2, <1>3

(* which is what the model calls it.                                       *)
LEMMA InBrackets ==
  \A t : InBracket(t) <=> Bracket(ops[t])
  BY DEF InBracket, Bracket, ToUser, ToB

(* The bank after a transaction, and whether its thread is in a bracket. *)
LEMMA BankAfter ==
  ASSUME ImuTypes, NEW t \in ImuThreads, Transact(t), faults' = 0
  PROVE  /\ faults = 0
         /\ \/ bank' = "B" /\ InBracket(t)' /\ ~InBracket(t)
            \/ bank' = "user" /\ ~InBracket(t)' /\ ops[t] = <<ToUser>>
            \/ bank' = bank /\ InBracket(t)' /\ InBracket(t)
            \/ bank' \in {bank, "user"} /\ ~InBracket(t)' /\ ~InBracket(t)
<1>1. PICK ok, op, tail, rest : ok \in BOOLEAN /\ Kind(t, op, tail, rest) /\ Outcome(t, op, tail, rest, ok)
  BY TransactHas
<1>2. ok /\ faults = 0
  BY <1>1 DEF Outcome, ImuTypes
<1>3. Written(op) /\ ops' = [ops EXCEPT ![t] = tail]
  BY <1>1, <1>2 DEF Outcome
<1>4. ops'[t] = tail
  BY <1>3 DEF ImuTypes
<1>6. (InBracket(t)' <=> Bracket(tail)) /\ (InBracket(t) <=> Bracket(ops[t]))
  BY <1>4 DEF InBracket, Bracket, ToUser, ToB
<1>7. /\ ToB.do = "bank" /\ ToB.v = "B" /\ ToUser.do = "bank" /\ ToUser.v = "user"
      /\ ToSources.do = "sources"
  BY DEF ToB, ToUser, ToSources, Op
<1>8. CASE BeginsBank(t, op, tail, rest)
  <2>1. Head(plan[t]) \in Fs
    BY <1>8, PlanTypes, TailAt DEF BeginsBank
  <2>2. Op(Head(plan[t]).f, Head(plan[t]).v) \in BankOps
    BY <1>8, <2>1, BankFunctions DEF BeginsBank
  <2>3. InBracket(t)' /\ bank' = "B"
    BY <1>3, <1>6, <1>7, <1>8, <2>2, Brackets DEF BeginsBank, Written
  <2> QED
    BY <1>2, <1>6, <1>8, <2>3, Brackets DEF BeginsBank
<1>9. CASE BeginsSources(t, op, tail, rest)
  BY <1>2, <1>3, <1>6, <1>7, <1>9, Brackets DEF BeginsSources, Written
<1>10. CASE InOne(t, op, tail, rest)
  <2>1. op.do # "bank"
    BY <1>10, Fields DEF InOne
  <2>2. bank' \in {bank, "user"}
    BY <1>3, <2>1 DEF Written
  <2> QED
    BY <1>2, <1>6, <1>10, <2>2, Brackets DEF InOne
<1>11. CASE EndsBank(t, op, tail, rest)
  BY <1>2, <1>3, <1>6, <1>7, <1>11, Brackets DEF EndsBank, Written
<1>12. CASE ToReadMask(t, op, tail, rest)
  <2>1. bank' = "B" /\ InBracket(t)'
    BY <1>3, <1>6, <1>7, <1>12, BankFunctions, Brackets DEF ToReadMask, Written
  <2>2. ~InBracket(t)
    BY <1>6, <1>12, Brackets DEF ToReadMask
  <2> QED
    BY <1>2, <2>1, <2>2
<1>13. CASE WithinBank(t, op, tail, rest)
  <2>1. op.do \in {"mask", "latency", "readMask"}
    BY <1>13, BankFunctions DEF WithinBank
  <2>2. bank' = bank
    BY <1>3, <2>1 DEF Written
  <2> QED
    BY <1>2, <1>6, <1>13, <2>2, Brackets DEF WithinBank
<1> QED
  BY <1>1, <1>8, <1>9, <1>10, <1>11, <1>12, <1>13 DEF Kind

(* The other thread is where it was.                                       *)
LEMMA OthersSame ==
  ASSUME ImuTypes, NEW t \in ImuThreads, Transact(t), NEW u \in ImuThreads \ {t}
  PROVE  ops'[u] = ops[u] /\ plan'[u] = plan[u] /\ (InBracket(u)' <=> InBracket(u))
<1>1. PICK ok, op, tail, rest : ok \in BOOLEAN /\ Kind(t, op, tail, rest) /\ Outcome(t, op, tail, rest, ok)
  BY TransactHas
<1>2. ops'[u] = ops[u]
  <2>1. \E s : ops' = [ops EXCEPT ![t] = s]
    BY <1>1 DEF Outcome
  <2> QED
    BY <2>1 DEF ImuTypes
<1>3. plan'[u] = plan[u]
  <2>1. \E p : plan' = [plan EXCEPT ![t] = p]
    BY <1>1 DEF Outcome
  <2> QED
    BY <2>1 DEF ImuTypes
<1> QED
  BY <1>2, <1>3 DEF InBracket

(* So the bank is kept by a transaction,                                   *)
LEMMA TransactBank ==
  ASSUME ImuTypes, BankReturns, BankKept, NEW t \in ImuThreads, Transact(t)
  PROVE  BankReturns' /\ BankKept'
<1>1. BankReturns'
  <2> SUFFICES ASSUME bank' = "B", faults' = 0
               PROVE  \E u \in ImuThreads : InBracket(u)'
    BY DEF BankReturns
  <2>1. CASE InBracket(t)'
    BY <2>1
  <2>2. CASE ~InBracket(t)'
    <3>1. bank = "B" /\ ~InBracket(t) /\ faults = 0
      BY <2>2, BankAfter
    <3>2. PICK u \in ImuThreads : InBracket(u)
      BY <3>1 DEF BankReturns
    <3>3. u \in ImuThreads \ {t}
      BY <3>1, <3>2
    <3> QED
      BY <3>2, <3>3, OthersSame
  <2> QED
    BY <2>1, <2>2
<1>2. BankKept'
  <2> SUFFICES ASSUME ~collided', faults' = 0
               PROVE  /\ \A u \in ImuThreads : InBracket(u)' => bank' = "B"
                      /\ \A u, v \in ImuThreads : InBracket(u)' /\ InBracket(v)' => u = v
    BY DEF BankKept, Clean
  <2>1. collided' = (collided \/ \E u \in ImuThreads \ {t} : InBracket(u))
    BY DEF Transact
  <2>2. ~collided /\ \A u \in ImuThreads \ {t} : ~InBracket(u)
    BY <2>1
  <2>3. \A u \in ImuThreads \ {t} : ~InBracket(u)'
    BY <2>2, OthersSame
  <2>4. InBracket(t)' => bank' = "B"
    BY <2>2, BankAfter DEF BankKept, Clean
  <2> QED
    BY <2>3, <2>4
<1> QED
  BY <1>1, <1>2

(* and by the steps that leave it alone                                    *)
LEMMA RestSame ==
  ASSUME (\E t \in ImuThreads : BeginsCall(t)) \/ LvglCalls \/ Tilt \/ Thread1Func \/ UNCHANGED sensorVars
  PROVE  UNCHANGED <<bank, ops, faults, src>> /\ (collided => collided')
<1>1. CASE \E t \in ImuThreads : BeginsCall(t)
  BY <1>1 DEF BeginsCall, chipVars
<1>2. CASE LvglCalls
  BY <1>2 DEF LvglCalls, chipVars
<1>3. CASE Tilt
  BY <1>3 DEF Tilt, busVars
<1>4. CASE Thread1Func
  BY <1>4 DEF Thread1Func, chipVars
<1>5. CASE UNCHANGED sensorVars
  BY <1>5 DEF sensorVars, busVars, chipVars
<1> QED
  BY <1>1, <1>2, <1>3, <1>4, <1>5

(* as well.                                                                *)
LEMMA RestBank ==
  ASSUME BankReturns, BankKept,
         (\E t \in ImuThreads : BeginsCall(t)) \/ LvglCalls \/ Tilt \/ Thread1Func \/ UNCHANGED sensorVars
  PROVE  BankReturns' /\ BankKept'
<1>1. UNCHANGED <<bank, ops, faults>> /\ (collided => collided')
  BY RestSame
<1> QED
  BY <1>1 DEF BankReturns, BankKept, Clean, InBracket

-----------------------------------------------------------------------------
(* Ghosts, and the interrupt: a transaction arrives in the bank it is      *)
(* meant for.                                                              *)
LEMMA ArrivesThere ==
  ASSUME ImuTypes, BankReturns, BankKept, NEW t \in ImuThreads, Transact(t), ~collided', faults' = 0
  PROVE  /\ ~collided /\ faults = 0
         /\ bank = "B" <=> InBracket(t)
<1>1. faults = 0
  BY BankAfter
<1>2. collided' = (collided \/ \E u \in ImuThreads \ {t} : InBracket(u))
  BY DEF Transact
<1>3. ~collided /\ \A u \in ImuThreads \ {t} : ~InBracket(u)
  BY <1>2
<1>4. bank = "B" => InBracket(t)
  BY <1>1, <1>3 DEF BankReturns
<1>5. InBracket(t) => bank = "B"
  BY <1>1, <1>3 DEF BankKept, Clean
<1> QED
  BY <1>1, <1>3, <1>4, <1>5

(* The first to do is the sources.                                         *)
LEMMA SourcesIs ==
  SourcesFirst.f = "sources"
  BY DEF F, SourcesFirst

(* A thread with only the sources to read reads them next,                 *)
LEMMA FetchFirst ==
  ASSUME NEW x, x.f = "sources", NEW t, plan[t] = <<x>>, ops[t] = <<>>,
         NEW op, NEW tail, NEW rest, Kind(t, op, tail, rest)
  PROVE  op.do = "sources"
<1>1. Head(plan[t]).f = "sources"
  BY Tuples
<1>2. ops[t] # <<ToUser>> /\ ops[t] # <<ToB, ToRead, ToUser>> /\ ops[t] # <<op, ToUser>>
  OBVIOUS
<1>3. BeginsSources(t, op, tail, rest)
  BY <1>1, <1>2 DEF Kind, BeginsBank, InOne, EndsBank, ToReadMask, WithinBank
<1> QED
  BY <1>3 DEF BeginsSources, ToSources, Op

(* so when they were read they are the chip's,                             *)
LEMMA TransactGhost ==
  ASSUME ImuTypes, BankReturns, BankKept, GhostPlan, NEW t \in ImuThreads, Transact(t)
  PROVE  GhostPlan'
<1> SUFFICES ASSUME irqPc' = "fetch", ~collided', faults' = 0
             PROVE  (plan'["imu"] = <<SourcesFirst>> /\ ops'["imu"] = <<>>) \/ src'.real
  BY DEF GhostPlan, Clean
<1>1. PICK ok, op, tail, rest : ok \in BOOLEAN /\ Kind(t, op, tail, rest) /\ Outcome(t, op, tail, rest, ok)
  BY TransactHas
<1>2. irqPc = "fetch" /\ Clean
  BY <1>1, ArrivesThere DEF Outcome, Clean
<1>3. ok
  BY <1>1, <1>2 DEF Outcome, Clean, ImuTypes
<1>4. (plan["imu"] = <<SourcesFirst>> /\ ops["imu"] = <<>>) \/ src.real
  BY <1>2 DEF GhostPlan
<1>5. CASE t # "imu"
  <2>1. src' = src
    BY <1>1, <1>5 DEF Outcome, Reads
  <2>2. plan'["imu"] = plan["imu"] /\ ops'["imu"] = ops["imu"]
    BY <1>5, OthersSame DEF ImuThreads
  <2> QED
    BY <1>4, <2>1, <2>2
<1>6. CASE t = "imu" /\ op.do = "sources"
  <2>1. ~InBracket(t)
    <3>1. op \notin BankOps /\ op # ToUser
      BY <1>6, BankFunctions, Fields DEF ToUser
    <3>2. ops[t] = <<>> \/ ops[t] = <<ToB, ToRead, ToUser>>
      BY <1>1, <3>1 DEF Kind, BeginsBank, BeginsSources, InOne, EndsBank, ToReadMask, WithinBank
    <3> QED
      BY <3>2, Brackets, InBrackets
  <2>2. bank = "user"
    BY <2>1, ArrivesThere DEF ImuTypes, ImuTypeOK
  <2>3. Arrives(op)
    BY <1>6, <2>2 DEF Arrives, InUserBank
  <2>4. src' = [tilt |-> latched, real |-> TRUE]
    BY <1>1, <1>3, <1>6, <2>3 DEF Outcome, Reads
  <2> QED
    BY <2>4
<1>7. CASE t = "imu" /\ op.do # "sources"
  <2>1. src' = src
    BY <1>1, <1>7 DEF Outcome, Reads
  <2>2. ~(plan[t] = <<SourcesFirst>> /\ ops[t] = <<>>)
    BY <1>1, <1>7, SourcesIs, FetchFirst
  <2> QED
    BY <1>4, <1>7, <2>1, <2>2
<1> QED
  BY <1>5, <1>6, <1>7

(* and nothing else changes that.                                          *)
LEMMA RestGhost ==
  ASSUME ImuTypes, GhostPlan,
         (\E t \in ImuThreads : BeginsCall(t)) \/ LvglCalls \/ Tilt \/ Thread1Func \/ UNCHANGED sensorVars
  PROVE  GhostPlan'
<1>1. collided => collided'
  BY RestSame
<1>2. UNCHANGED <<faults, src, ops>>
  BY RestSame
<1>3. CASE UNCHANGED sensorVars
  BY <1>1, <1>2, <1>3 DEF GhostPlan, sensorVars, busVars, Clean
<1>4. CASE Tilt
  BY <1>1, <1>2, <1>4 DEF GhostPlan, Tilt, busVars, Clean
<1>5. CASE LvglCalls
  <2>1. plan'["imu"] = plan["imu"]
    BY <1>5, LvglHas DEF Plans, ImuTypes, ImuThreads
  <2> QED
    BY <1>1, <1>2, <1>5, <2>1 DEF GhostPlan, LvglCalls, Clean
<1>6. ASSUME NEW t \in ImuThreads, BeginsCall(t)
      PROVE  GhostPlan'
  <2>1. /\ irqPc' = irqPc /\ ops[t] = <<>> /\ Head(plan[t]).f \in CallNames
        /\ plan' = [plan EXCEPT ![t] = CallPlan(Head(plan[t])) \o Tail(plan[t])]
    BY <1>6, BeginsDoes
  <2>2. t = "imu" => plan["imu"] # <<SourcesFirst>>
    <3> SUFFICES ASSUME t = "imu", plan["imu"] = <<SourcesFirst>>
                 PROVE  FALSE
      OBVIOUS
    <3> DEFINE x == SourcesFirst
    <3>0. x.f = "sources"
      BY DEF F, SourcesFirst
    <3> HIDE DEF x
    <3>1. Head(plan[t]).f = "sources"
      BY <3>0, Tuples DEF x
    <3> QED
      BY <2>1, <3>1 DEF CallNames
  <2>3. t # "imu" => plan'["imu"] = plan["imu"]
    BY <2>1 DEF ImuTypes, ImuThreads
  <2> QED
    BY <1>1, <1>2, <2>1, <2>2, <2>3 DEF GhostPlan, Clean
<1>7. CASE Thread1Func
  <2> SUFFICES ASSUME irqPc' = "fetch"
               PROVE  plan'["imu"] = <<SourcesFirst>> /\ ops'["imu"] = <<>>
    BY DEF GhostPlan
  <2>1. Quiet("imu") /\ Plans("imu", <<SourcesFirst>>)
    BY <1>7 DEF Thread1Func, SourcesFirst
  <2> QED
    BY <1>2, <2>1 DEF Quiet, Plans, ImuTypes, ImuThreads
<1> QED
  BY <1>3, <1>4, <1>5, <1>6, <1>7

(* No ghost is told to the watch,                                          *)
LEMMA NoGhostsKept ==
  ASSUME ImuTypes, NoGhosts, GhostPlan, ImuNext \/ UNCHANGED sensorVars
  PROVE  NoGhosts'
<1>1. (collided => collided') /\ (faults' = 0 => faults = 0)
  <2>1. ASSUME NEW t \in ImuThreads, Transact(t)
        PROVE  (collided => collided') /\ (faults' = 0 => faults = 0)
    BY <2>1, BankAfter DEF Transact
  <2> QED
    BY <2>1, RestSame DEF ImuNext
<1>2. faults \in Nat /\ faults' \in Nat
  <2>1. ASSUME NEW t \in ImuThreads, Transact(t)
        PROVE  faults' \in Nat
    BY <2>1, TransactTypes DEF ImuTypes
  <2> QED
    BY <2>1, RestSame DEF ImuNext, ImuTypes
<1>3. CASE ghost' = ghost
  BY <1>1, <1>2, <1>3 DEF NoGhosts
<1>4. CASE ghost' # ghost
  <2>1. Thread1Func
    BY <1>4 DEF ImuNext, BeginsCall, Transact, LvglCalls, Tilt, sensorVars
  <2>2. irqPc = "fetch" /\ ghost' = (ghost \/ ~src.real) /\ Quiet("imu")
    BY <1>4, <2>1 DEF Thread1Func
  <2>3. ~src.real
    BY <1>4, <2>2, Zenon DEF ImuTypes
  <2>4. ~Clean
    BY <2>2, <2>3 DEF GhostPlan, Quiet
  <2> QED
    BY <1>1, <1>2, <2>4 DEF NoGhosts, Clean
<1> QED
  BY <1>3, <1>4

(* and no interrupt is left waiting unseen.                                *)
LEMMA NeverDeafKept ==
  ASSUME ImuTypes, NeverDeaf, ImuNext \/ UNCHANGED sensorVars
  PROVE  NeverDeaf'
<1>1. ASSUME NEW t \in ImuThreads, Transact(t)
      PROVE  NeverDeaf'
  <2>1. PICK ok, op, tail, rest : ok \in BOOLEAN /\ Kind(t, op, tail, rest) /\ Outcome(t, op, tail, rest, ok)
    BY <1>1, TransactHas
  <2>2. latched' = latched \/ latched' = "none"
    BY <2>1 DEF Outcome, Written, chipVars
  <2>3. irqPc' = irqPc /\ sem1' = sem1
    BY <2>1 DEF Outcome, intVars
  <2> QED
    BY <2>2, <2>3 DEF NeverDeaf
<1>2. CASE LvglCalls \/ (\E t \in ImuThreads : BeginsCall(t)) \/ UNCHANGED sensorVars
  <2>1. UNCHANGED <<irqPc, sem1, latched>>
    BY <1>2 DEF LvglCalls, BeginsCall, chipVars, intVars, sensorVars
  <2> QED
    BY <2>1 DEF NeverDeaf
<1>3. CASE Tilt
  BY <1>3 DEF Tilt, NeverDeaf, intVars, ImuTypes
<1>4. CASE Thread1Func
  <2>1. irqPc' = "take" => irqPc = "arm" /\ sem1' = (sem1 \/ latched # "none")
    BY <1>4 DEF Thread1Func
  <2>2. latched' = latched
    BY <1>4 DEF Thread1Func, chipVars
  <2> QED
    BY <2>1, <2>2 DEF NeverDeaf
<1> QED
  BY <1>1, <1>2, <1>3, <1>4 DEF ImuNext

-----------------------------------------------------------------------------
(* The chip's registers and what is still to come: where the chip is as    *)
(* the object says, one call to come completes it,                         *)
LEMMA RestOne ==
  ASSUME Agree, NEW s, NEW x, s = <<x>>, x.f = "tilt" \/ x = SourcesFirst
  PROVE  Completes(s)
<1>1. x.f \in {"tilt", "sources"}
  <2>1. SourcesFirst.f = "sources"
    BY DEF F, SourcesFirst
  <2> QED
    BY <2>1
<1>2. Len(s) = 1 /\ s[1] = x /\ 1 .. Len(s) = {1}
  OBVIOUS
<1>3. CallsLast(s)
  BY <1>2 DEF CallsLast
<1>4. Ends(s)
  BY <1>2 DEF Ends
<1>5. MaskDue(s)
  BY <1>1, <1>2 DEF MaskDue, Agree
<1>6. LatencyDue(s)
  BY <1>1, <1>2 DEF LatencyDue, Agree
<1>7. SensDue(s) /\ RouteDue(s)
  BY <1>1, <1>2 DEF SensDue, RouteDue, Agree
<1>8. ResetMends(s)
  BY <1>1, <1>2 DEF ResetMends
<1> QED
  BY <1>3, <1>4, <1>5, <1>6, <1>7, <1>8 DEF Completes

(* so do two,                                                              *)
LEMMA RestTwo ==
  ASSUME Agree, NEW s, NEW x, NEW y, s = <<x, y>>,
         (x.f = "enable" /\ y.f = "wrist") \/ (x.f = "init" /\ y.f = "tilt" /\ tiltEnable)
  PROVE  Completes(s)
<1>1. x.f \in {"enable", "init"} /\ y.f \in {"wrist", "tilt"} /\ (x.f = "init" => tiltEnable)
  OBVIOUS
<1>2. Len(s) = 2 /\ s[1] = x /\ s[2] = y /\ 1 .. Len(s) = {1, 2}
  OBVIOUS
<1>3. CallsLast(s)
  BY <1>1, <1>2 DEF CallsLast, CallNames
<1>4. Ends(s)
  BY <1>1, <1>2 DEF Ends
<1>5. MaskDue(s)
  BY <1>1, <1>2 DEF MaskDue, Agree
<1>6. LatencyDue(s)
  BY <1>1, <1>2 DEF LatencyDue, Agree
<1>7. SensDue(s) /\ RouteDue(s)
  BY <1>1, <1>2 DEF SensDue, RouteDue, Agree
<1>8. ResetMends(s)
  BY <1>1, <1>2 DEF ResetMends
<1> QED
  BY <1>3, <1>4, <1>5, <1>6, <1>7, <1>8 DEF Completes

(* or none;                                                                *)
LEMMA RestNone ==
  ASSUME Agree
  PROVE  Completes(<<>>)
<1> DEFINE s == <<>>
<1>1. 1 .. Len(s) = {}
  OBVIOUS
<1> HIDE DEF s
<1>2. CallsLast(s) /\ MaskDue(s) /\ LatencyDue(s) /\ SensDue(s) /\ RouteDue(s) /\ ResetMends(s)
  BY <1>1 DEF CallsLast, MaskDue, LatencyDue, SensDue, RouteDue, ResetMends, Agree
<1>3. Ends(s)
  BY DEF Ends, s
<1> QED
  BY <1>2, <1>3 DEF Completes, s

(* that is every plan not yet begun.                                       *)
LEMMA AtRest ==
  ASSUME Agree, NEW t, NEW s, Unbegun(t, s)
  PROVE  Completes(s)
<1>1. CASE s = <<>>
  BY <1>1, RestNone
<1>2. CASE s = <<SourcesFirst>>
  BY <1>2, RestOne
<1>3. CASE s = <<F("tilt", "lifted")>> \/ s = <<F("tilt", "lowered")>>
  <2>1. F("tilt", "lifted").f = "tilt" /\ F("tilt", "lowered").f = "tilt"
    BY DEF F
  <2> QED
    BY <1>3, <2>1, RestOne
<1>4. ASSUME NEW e, NEW p, s = <<F("enable", e), F("wrist", p)>>
      PROVE  Completes(s)
  <2>1. F("enable", e).f = "enable" /\ F("wrist", p).f = "wrist"
    BY DEF F
  <2> QED
    BY <1>4, <2>1, RestTwo
<1>5. ASSUME NEW d, tiltEnable, s = <<F("init", ""), F("tilt", d)>>
      PROVE  Completes(s)
  <2>1. F("init", "").f = "init" /\ F("tilt", d).f = "tilt"
    BY DEF F
  <2> QED
    BY <1>5, <2>1, RestTwo
<1> QED
  BY <1>1, <1>2, <1>3, <1>4, <1>5 DEF Unbegun

(* A driver function ends, by what it writes. *)
Applies(h) ==
  /\ mask' = IF h.f = "mask" THEN h.v ELSE IF h.f = "reset" THEN "none" ELSE mask
  /\ latency' = IF h.f = "latency" THEN h.v ELSE IF h.f = "reset" THEN "long" ELSE latency
  /\ sens' = IF h.f = "sens" THEN h.v ELSE IF h.f = "reset" THEN "off" ELSE sens
  /\ route' = IF h.f = "route" THEN h.v ELSE IF h.f = "reset" THEN "off" ELSE route
  /\ h.f \notin CallNames

(* What is left still completes the chip when its first function is done.  *)
LEMMA OneDone ==
  ASSUME NEW s \in Seq(Fs), s # <<>>, Completes(s), Applies(Head(s)), UNCHANGED tiltVars
  PROVE  Completes(Tail(s))'
<1> DEFINE h == Head(s)
           r == Tail(s)
<1>1. /\ h = s[1] /\ r \in Seq(Fs) /\ Len(r) \in Nat /\ Len(s) = Len(r) + 1
      /\ \A i \in 1 .. Len(r) : r[i] = s[i + 1] /\ i + 1 \in 1 .. Len(s)
  BY TailAt
<1>2. \A i \in 2 .. Len(s) : i - 1 \in 1 .. Len(r) /\ r[i - 1] = s[i]
  BY <1>1
<1>3. 1 \in 1 .. Len(s) /\ \A i \in 1 .. Len(s) : i = 1 \/ i \in 2 .. Len(s)
  BY <1>1
<1>4. /\ tiltEnable' = tiltEnable /\ tiltDirection' = tiltDirection /\ position' = position
      /\ Wanted' = Wanted /\ OnOff' = OnOff
  BY DEF tiltVars, Wanted, OnOff
<1>5. /\ CallsLast(s) /\ Ends(s) /\ MaskDue(s) /\ LatencyDue(s) /\ SensDue(s) /\ RouteDue(s) /\ ResetMends(s)
  BY DEF Completes
<1>6. /\ mask' = IF h.f = "mask" THEN h.v ELSE IF h.f = "reset" THEN "none" ELSE mask
      /\ latency' = IF h.f = "latency" THEN h.v ELSE IF h.f = "reset" THEN "long" ELSE latency
      /\ sens' = IF h.f = "sens" THEN h.v ELSE IF h.f = "reset" THEN "off" ELSE sens
      /\ route' = IF h.f = "route" THEN h.v ELSE IF h.f = "reset" THEN "off" ELSE route
      /\ h.f \notin CallNames
  BY DEF Applies
<1>7. r = <<>> <=> Len(r) = 0
  BY <1>1
<1> HIDE DEF h, r
<1>a. \A i \in 1 .. Len(r) : (i + 1) + 1 = i + 2
  BY <1>1
<1>8. \A f : (\E j \in 2 .. Len(s) : s[j].f = f) => \E i \in 1 .. Len(r) : r[i].f = f
  BY <1>2
<1>9. \A f : \A i \in 1 .. Len(r) : (\E j \in i + 2 .. Len(s) : s[j].f = f) => \E j \in i + 1 .. Len(r) : r[j].f = f
  <2> SUFFICES ASSUME NEW f, NEW i \in 1 .. Len(r), NEW j \in i + 2 .. Len(s), s[j].f = f
               PROVE  \E k \in i + 1 .. Len(r) : r[k].f = f
    OBVIOUS
  <2>1. j - 1 \in i + 1 .. Len(r) /\ r[j - 1] = s[j]
    BY <1>1, <1>2
  <2> QED
    BY <2>1
<1>10. CallsLast(r)'
  <2> SUFFICES ASSUME NEW i \in 1 .. Len(r), NEW j \in 1 .. Len(r), i < j
               PROVE  /\ r[i].f \in CallNames => r[j].f \notin {"mask", "latency", "reset", "enable", "init"}
                      /\ r[i].f \in {"enable", "init"} => r[j].f \in {"tilt", "wrist"}
    BY DEF CallsLast
  <2>1. r[i] = s[i + 1] /\ r[j] = s[j + 1] /\ i + 1 \in 1 .. Len(s) /\ j + 1 \in 1 .. Len(s) /\ i + 1 < j + 1
    BY <1>1
  <2> QED
    BY <1>5, <2>1 DEF CallsLast
<1>11. Ends(r)'
  <2>1. CASE Len(r) = 0
    BY <1>7, <2>1 DEF Ends
  <2>2. CASE Len(r) > 0
    <3>1. r[Len(r)] = s[Len(s)] /\ s # <<>> /\ s # <<SourcesFirst>>
      BY <1>1, <2>2
    <3> QED
      BY <1>5, <3>1 DEF Ends
  <2> QED
    BY <1>1, <2>1, <2>2
<1>12. MaskDue(r)'
  <2>1. mask' = Wanted \/ \E i \in 1 .. Len(r) : r[i].f \in {"mask", "wrist"}
    <3>1. CASE h.f = "mask"
      <4>1. h.v = Wanted \/ \E j \in 2 .. Len(s) : s[j].f = "wrist"
        BY <1>1, <1>3, <1>5, <3>1 DEF MaskDue
      <4> QED
        BY <1>6, <1>8, <3>1, <4>1
    <3>2. CASE h.f = "reset"
      <4>1. \E j \in 2 .. Len(s) : s[j].f = "wrist"
        BY <1>1, <1>3, <1>5, <3>2 DEF ResetMends
      <4> QED
        BY <1>8, <4>1
    <3>3. CASE h.f \notin {"mask", "reset"}
      <4>1. mask' = mask
        BY <1>6, <3>3
      <4>2. mask = Wanted \/ \E i \in 1 .. Len(s) : s[i].f \in {"mask", "wrist"}
        BY <1>5 DEF MaskDue
      <4>3. h.f \notin {"mask", "wrist"}
        BY <1>6, <3>3 DEF CallNames
      <4> QED
        BY <1>1, <1>2, <1>3, <4>1, <4>2, <4>3
    <3> QED
      BY <3>1, <3>2, <3>3
  <2>2. ASSUME NEW i \in 1 .. Len(r), r[i].f = "mask"
        PROVE  r[i].v = Wanted \/ \E j \in i + 1 .. Len(r) : r[j].f = "wrist"
    <3>1. s[i + 1].v = Wanted \/ \E j \in i + 2 .. Len(s) : s[j].f = "wrist"
      BY <1>1, <1>a, <1>5, <2>2 DEF MaskDue
    <3> QED
      BY <1>1, <1>9, <3>1
  <2> QED
    BY <1>4, <2>1, <2>2 DEF MaskDue
<1>13. LatencyDue(r)'
  <2>1. ASSUME tiltEnable
        PROVE  latency' = Latency(tiltDirection) \/ \E i \in 1 .. Len(r) : r[i].f \in {"latency", "tilt"}
    <3>1. CASE h.f = "latency"
      <4>1. h.v = Latency(tiltDirection) \/ \E j \in 2 .. Len(s) : s[j].f = "tilt"
        BY <1>1, <1>3, <1>5, <2>1, <3>1 DEF LatencyDue
      <4> QED
        BY <1>6, <1>8, <3>1, <4>1
    <3>2. CASE h.f = "reset"
      <4>1. \E j \in 2 .. Len(s) : s[j].f = "tilt"
        BY <1>1, <1>3, <1>5, <3>2 DEF ResetMends
      <4> QED
        BY <1>8, <4>1
    <3>3. CASE h.f \notin {"latency", "reset"}
      <4>1. latency' = latency
        BY <1>6, <3>3
      <4>2. latency = Latency(tiltDirection) \/ \E i \in 1 .. Len(s) : s[i].f \in {"latency", "tilt"}
        BY <1>5, <2>1 DEF LatencyDue
      <4>3. h.f \notin {"latency", "tilt"}
        BY <1>6, <3>3 DEF CallNames
      <4> QED
        BY <1>1, <1>2, <1>3, <4>1, <4>2, <4>3
    <3> QED
      BY <3>1, <3>2, <3>3
  <2>2. ASSUME NEW i \in 1 .. Len(r), r[i].f = "latency"
        PROVE  ~tiltEnable \/ r[i].v = Latency(tiltDirection) \/ \E j \in i + 1 .. Len(r) : r[j].f = "tilt"
    <3>1. ~tiltEnable \/ s[i + 1].v = Latency(tiltDirection) \/ \E j \in i + 2 .. Len(s) : s[j].f = "tilt"
      BY <1>1, <1>a, <1>5, <2>2 DEF LatencyDue
    <3> QED
      BY <1>1, <1>9, <3>1
  <2> QED
    BY <1>4, <2>1, <2>2 DEF LatencyDue
<1>14. SensDue(r)'
  <2>1. sens' = OnOff \/ \E i \in 1 .. Len(r) : r[i].f = "sens"
    <3>1. CASE h.f = "sens"
      <4>1. h.v = OnOff
        BY <1>1, <1>3, <1>5, <3>1 DEF SensDue
      <4> QED
        BY <1>6, <3>1, <4>1
    <3>2. CASE h.f = "reset"
      <4>1. \E j \in 2 .. Len(s) : s[j].f = "sens"
        BY <1>1, <1>3, <1>5, <3>2 DEF ResetMends
      <4> QED
        BY <1>8, <4>1
    <3>3. CASE h.f \notin {"sens", "reset"}
      <4>1. sens = OnOff \/ \E i \in 1 .. Len(s) : s[i].f = "sens"
        BY <1>5 DEF SensDue
      <4> QED
        BY <1>1, <1>2, <1>3, <1>6, <3>3, <4>1
    <3> QED
      BY <3>1, <3>2, <3>3
  <2>2. ASSUME NEW i \in 1 .. Len(r), r[i].f = "sens"
        PROVE  r[i].v = OnOff
    BY <1>1, <1>5, <2>2 DEF SensDue
  <2> QED
    BY <1>4, <2>1, <2>2 DEF SensDue
<1>15. RouteDue(r)'
  <2>1. route' = OnOff \/ \E i \in 1 .. Len(r) : r[i].f = "route"
    <3>1. CASE h.f = "route"
      <4>1. h.v = OnOff \/ \E j \in 2 .. Len(s) : s[j].f = "route"
        BY <1>1, <1>3, <1>5, <3>1 DEF RouteDue
      <4> QED
        BY <1>6, <1>8, <3>1, <4>1
    <3>2. CASE h.f = "reset"
      <4>1. \E j \in 2 .. Len(s) : s[j].f = "route"
        BY <1>1, <1>3, <1>5, <3>2 DEF ResetMends
      <4> QED
        BY <1>8, <4>1
    <3>3. CASE h.f \notin {"route", "reset"}
      <4>1. route = OnOff \/ \E i \in 1 .. Len(s) : s[i].f = "route"
        BY <1>5 DEF RouteDue
      <4> QED
        BY <1>1, <1>2, <1>3, <1>6, <3>3, <4>1
    <3> QED
      BY <3>1, <3>2, <3>3
  <2>2. ASSUME NEW i \in 1 .. Len(r), r[i].f = "route"
        PROVE  r[i].v = OnOff \/ \E j \in i + 1 .. Len(r) : r[j].f = "route"
    <3>1. s[i + 1].v = OnOff \/ \E j \in i + 2 .. Len(s) : s[j].f = "route"
      BY <1>1, <1>a, <1>5, <2>2 DEF RouteDue
    <3> QED
      BY <1>1, <1>9, <3>1
  <2> QED
    BY <1>4, <2>1, <2>2 DEF RouteDue
<1>16. ResetMends(r)'
  <2>1. ASSUME NEW i \in 1 .. Len(r), r[i].f = "reset", NEW f \in {"wrist", "tilt", "sens", "route"}
        PROVE  \E j \in i + 1 .. Len(r) : r[j].f = f
    <3>0. i + 1 \in 1 .. Len(s) /\ s[i + 1].f = "reset"
      BY <1>1, <2>1
    <3>2. \E j \in (i + 1) + 1 .. Len(s) : s[j].f = f
      BY <1>5, <2>1, <3>0 DEF ResetMends
    <3>1. \E j \in i + 2 .. Len(s) : s[j].f = f
      BY <1>a, <3>2
    <3> QED
      BY <1>1, <1>9, <3>1
  <2>2. ASSUME NEW i \in 1 .. Len(r), r[i].f \in {"init", "reset"}
        PROVE  tiltEnable'
    BY <1>1, <1>4, <1>5, <2>2 DEF ResetMends
  <2> QED
    BY <2>1, <2>2 DEF ResetMends
<1> QED
  BY <1>10, <1>11, <1>12, <1>13, <1>14, <1>15, <1>16 DEF Completes, r

(* What is left when a call has begun, before what the call brings.        *)
Rest(s, r) ==
  /\ r \in Seq(Fs) /\ Len(r) \in Nat
  /\ \A i \in 1 .. Len(r) : r[i].f \notin {"mask", "latency", "reset", "enable", "init"}
  /\ \A i, j \in 1 .. Len(r) : i < j /\ r[i].f \in CallNames => r[j].f \notin {"mask", "latency", "reset", "enable", "init"}
  /\ Len(r) > 0 => r[Len(r)].f \in {"mask", "latency", "tilt", "wrist"}
  /\ \A f : (\E i \in 1 .. Len(s) : s[i].f = f) => s[1].f = f \/ \E i \in 1 .. Len(r) : r[i].f = f
  /\ \A i \in 1 .. Len(r) : r[i].f = "sens" => r[i].v = OnOff
  /\ \A i \in 1 .. Len(r) : r[i].f = "route" =>
       r[i].v = OnOff \/ \E j \in i + 1 .. Len(r) : r[j].f = "route"

(* What is left after a call that begins, of a plan that completes the     *)
(* chip.                                                                   *)
LEMMA RestHas ==
  ASSUME NEW s \in Seq(Fs), s # <<>>, Completes(s), s[1].f \in CallNames
  PROVE  /\ Rest(s, Tail(s))
         /\ s[1].f \in {"enable", "init"} =>
              Len(Tail(s)) > 0 /\ \A i \in 1 .. Len(Tail(s)) : Tail(s)[i].f \in {"tilt", "wrist"}
<1> DEFINE r == Tail(s)
<1>1. /\ r \in Seq(Fs) /\ Len(r) \in Nat /\ Len(s) = Len(r) + 1
      /\ \A i \in 1 .. Len(r) : r[i] = s[i + 1] /\ i + 1 \in 1 .. Len(s)
  BY TailAt
<1>2. \A i \in 2 .. Len(s) : i - 1 \in 1 .. Len(r) /\ r[i - 1] = s[i]
  BY <1>1
<1>3. 1 \in 1 .. Len(s) /\ \A i \in 1 .. Len(s) : i = 1 \/ i \in 2 .. Len(s)
  BY <1>1
<1>4. CallsLast(s) /\ Ends(s) /\ SensDue(s) /\ RouteDue(s)
  BY DEF Completes
<1>a. \A i \in 1 .. Len(r) : (i + 1) + 1 = i + 2 /\ 1 < i + 1
  BY <1>1
<1> HIDE DEF r
<1>5. \A i \in 1 .. Len(r) : r[i].f \notin {"mask", "latency", "reset", "enable", "init"}
  BY <1>1, <1>3, <1>4, <1>a DEF CallsLast
<1>6. s[Len(s)].f \in {"mask", "latency", "tilt", "wrist"}
  <2>1. s # <<SourcesFirst>>
    <3> SUFFICES ASSUME s = <<SourcesFirst>>
                 PROVE  FALSE
      OBVIOUS
    <3>1. s[1] = SourcesFirst
      OBVIOUS
    <3> QED
      BY <3>1, SourcesIs DEF CallNames
  <2> QED
    BY <1>4, <2>1 DEF Ends
<1>7. Len(r) > 0 => r[Len(r)].f \in {"mask", "latency", "tilt", "wrist"}
  BY <1>1, <1>6
<1>8. \A f : (\E i \in 1 .. Len(s) : s[i].f = f) => s[1].f = f \/ \E i \in 1 .. Len(r) : r[i].f = f
  BY <1>2, <1>3
<1>9. \A i \in 1 .. Len(r) : r[i].f = "sens" => r[i].v = OnOff
  BY <1>1, <1>4 DEF SensDue
<1>10. ASSUME NEW i \in 1 .. Len(r), r[i].f = "route"
       PROVE  r[i].v = OnOff \/ \E j \in i + 1 .. Len(r) : r[j].f = "route"
  <2>1. s[i + 1].v = OnOff \/ \E j \in i + 2 .. Len(s) : s[j].f = "route"
    BY <1>1, <1>a, <1>4, <1>10 DEF RouteDue
  <2>2. ASSUME NEW j \in i + 2 .. Len(s), s[j].f = "route"
        PROVE  \E k \in i + 1 .. Len(r) : r[k].f = "route"
    <3>1. j - 1 \in i + 1 .. Len(r) /\ r[j - 1] = s[j]
      BY <1>1, <1>2
    <3> QED
      BY <2>2, <3>1
  <2> QED
    BY <1>1, <2>1, <2>2
<1>11. Rest(s, r)
  BY <1>1, <1>5, <1>7, <1>8, <1>9, <1>10 DEF Rest
<1>12. ASSUME s[1].f \in {"enable", "init"}
       PROVE  Len(r) > 0 /\ \A i \in 1 .. Len(r) : r[i].f \in {"tilt", "wrist"}
  <2>1. Len(r) > 0
    BY <1>1, <1>6, <1>12
  <2> QED
    BY <1>1, <1>3, <1>4, <1>a, <1>12, <2>1 DEF CallsLast
<1> QED
  BY <1>11, <1>12 DEF r

(* The pieces of a plan: an item is of one or the other. *)
Joined(q, p, r) ==
  /\ Len(p) \in Nat /\ Len(r) \in Nat /\ Len(q) \in Nat
  /\ \A i \in 1 .. Len(p) : i \in 1 .. Len(q) /\ q[i] = p[i]
  /\ \A i \in 1 .. Len(q) : i \notin 1 .. Len(p) => \E k \in 1 .. Len(r) :
       /\ q[i] = r[k]
       /\ \A f : (\E j \in k + 1 .. Len(r) : r[j].f = f) => \E j \in i + 1 .. Len(q) : q[j].f = f
  /\ \A i, j \in 1 .. Len(q) : i < j /\ j \in 1 .. Len(p) => i \in 1 .. Len(p)
  /\ \A f : (\E i \in 1 .. Len(r) : r[i].f = f) => \E i \in 1 .. Len(q) : q[i].f = f
  /\ Len(r) > 0 => Len(q) \in 1 .. Len(q) /\ q[Len(q)] = r[Len(r)] /\ q # <<>>
  /\ Len(r) = 0 => Len(q) = Len(p)

(* A plan that is joined has these pieces.                                 *)
LEMMA Prefixed ==
  ASSUME NEW p \in Seq(Fs), NEW r \in Seq(Fs), NEW q, q = p \o r
  PROVE  Joined(q, p, r)
<1> DEFINE n == Len(p)
<1>1. /\ q \in Seq(Fs) /\ n \in Nat /\ Len(r) \in Nat /\ Len(q) = n + Len(r)
      /\ \A i \in 1 .. n : i \in 1 .. Len(q) /\ q[i] = p[i]
      /\ \A k \in 1 .. Len(r) : n + k \in 1 .. Len(q) /\ q[n + k] = r[k]
  BY JoinAt
<1> HIDE DEF n
<1>2. ASSUME NEW i \in 1 .. Len(q), i \notin 1 .. n
      PROVE  \E k \in 1 .. Len(r) :
               /\ q[i] = r[k]
               /\ \A f : (\E j \in k + 1 .. Len(r) : r[j].f = f) => \E j \in i + 1 .. Len(q) : q[j].f = f
  <2> DEFINE k == i - n
  <2>1. k \in 1 .. Len(r) /\ i = n + k /\ k \in Nat /\ i \in Nat
    BY <1>1, <1>2
  <2> HIDE DEF k
  <2>2. q[i] = r[k]
    BY <1>1, <2>1
  <2>3. ASSUME NEW f, NEW j \in k + 1 .. Len(r), r[j].f = f
        PROVE  \E m \in i + 1 .. Len(q) : q[m].f = f
    <3>1. j \in 1 .. Len(r) /\ n + j \in i + 1 .. Len(q)
      BY <1>1, <2>1
    <3>2. q[n + j] = r[j]
      BY <1>1, <3>1
    <3> QED
      BY <2>3, <3>1, <3>2
  <2> QED
    BY <2>1, <2>2, <2>3
<1>3. ASSUME NEW f, NEW i \in 1 .. Len(r), r[i].f = f
      PROVE  \E j \in 1 .. Len(q) : q[j].f = f
  BY <1>1, <1>3
<1>4. ASSUME Len(r) > 0
      PROVE  Len(q) \in 1 .. Len(q) /\ q[Len(q)] = r[Len(r)] /\ q # <<>>
  <2>1. Len(r) \in 1 .. Len(r)
    BY <1>1, <1>4
  <2>2. n + Len(r) \in 1 .. Len(q) /\ q[n + Len(r)] = r[Len(r)]
    BY <1>1, <2>1
  <2> QED
    BY <1>1, <2>2
<1>5. Len(r) = 0 => Len(q) = n
  BY <1>1
<1>6. \A i, j \in 1 .. Len(q) : i < j /\ j \in 1 .. n => i \in 1 .. n
  BY <1>1
<1>7. \A i \in 1 .. Len(q) : i \notin 1 .. n => \E k \in 1 .. Len(r) :
        /\ q[i] = r[k]
        /\ \A f : (\E j \in k + 1 .. Len(r) : r[j].f = f) => \E j \in i + 1 .. Len(q) : q[j].f = f
  BY <1>2
<1>8. \A f : (\E i \in 1 .. Len(r) : r[i].f = f) => \E i \in 1 .. Len(q) : q[i].f = f
  BY <1>3
<1>9. Len(q) \in Nat /\ \A i \in 1 .. n : i \in 1 .. Len(q) /\ q[i] = p[i]
  BY <1>1
<1>10. n \in Nat /\ Len(r) \in Nat
  BY <1>1
<1> QED
  BY <1>4, <1>5, <1>6, <1>7, <1>8, <1>9, <1>10 DEF Joined, n

(* A call that has begun leaves a plan that completes the chip: a tilt     *)
(* that is on,                                                             *)
LEMMA TiltBegun ==
  ASSUME NEW s \in Seq(Fs), s # <<>>, Completes(s), UNCHANGED chipVars,
         tiltEnable, NEW d \in {"lifted", "lowered"}, s[1].f = "tilt",
         tiltDirection' = d, UNCHANGED <<tiltEnable, position>>,
         NEW p \in Seq(Fs), Len(p) = 2,
         p[1].f = "mask" /\ p[2].f = "latency" /\ p[1].v = Axis(d, position) /\ p[2].v = Latency(d),
         NEW q, q = p \o Tail(s)
  PROVE  Completes(q)'
<1> DEFINE r == Tail(s)
           h == s[1]
<1>2. Rest(s, r)
  BY RestHas DEF CallNames
<1>3. h.f \in {"enable", "init"} => Len(r) > 0 /\ \A i \in 1 .. Len(r) : r[i].f \in {"tilt", "wrist"}
  BY RestHas DEF CallNames
<1>5. p[1].f = "mask" /\ p[2].f = "latency" /\ p[1].v = Axis(d, position) /\ p[2].v = Latency(d)
  OBVIOUS
<1>6. r \in Seq(Fs)
  BY <1>2 DEF Rest
<1>7. /\ MaskDue(s) /\ LatencyDue(s) /\ SensDue(s) /\ RouteDue(s) /\ ResetMends(s)
  BY DEF Completes
<1>8. UNCHANGED <<mask, latency, sens, route>>
  BY DEF chipVars
<1>a. q = p \o r /\ Len(p) = 2
  OBVIOUS
<1> HIDE DEF r, h
<1>9. /\ Len(r) \in Nat /\ Len(q) \in Nat
      /\ \A i \in 1 .. 2 : i \in 1 .. Len(q) /\ q[i] = p[i]
      /\ \A i \in 1 .. Len(q) : i \notin 1 .. 2 => \E k \in 1 .. Len(r) :
           /\ q[i] = r[k]
           /\ \A f : (\E j \in k + 1 .. Len(r) : r[j].f = f) => \E j \in i + 1 .. Len(q) : q[j].f = f
      /\ \A i, j \in 1 .. Len(q) : i < j /\ j \in 1 .. 2 => i \in 1 .. 2
      /\ \A f : (\E i \in 1 .. Len(r) : r[i].f = f) => \E i \in 1 .. Len(q) : q[i].f = f
      /\ Len(r) > 0 => Len(q) \in 1 .. Len(q) /\ q[Len(q)] = r[Len(r)] /\ q # <<>>
      /\ Len(r) = 0 => Len(q) = 2
  <2>1. Joined(q, p, r)
    BY <1>a, <1>6, Prefixed
  <2> QED
    BY <1>a, <2>1 DEF Joined
<1>i. Joined(q, p, r)
  BY <1>a, <1>6, Prefixed
<1>j. Len(r) \in Nat /\ Len(q) \in Nat /\ \A i \in 1 .. 2 : i \in 1 .. Len(q) /\ q[i] = p[i]
  BY <1>a, <1>i DEF Joined
<1>n. \A f : (\E i \in 1 .. Len(r) : r[i].f = f) => \E i \in 1 .. Len(q) : q[i].f = f
  BY <1>a, <1>i DEF Joined
<1>k. \A i \in 1 .. Len(q) : i \notin 1 .. 2 => \E k \in 1 .. Len(r) : q[i] = r[k]
  BY <1>a, <1>i DEF Joined
<1>l. \A i, j \in 1 .. Len(q) : i < j /\ j \in 1 .. 2 => i \in 1 .. 2
  BY <1>a, <1>i DEF Joined
<1>10. /\ \A i \in 1 .. Len(r) : r[i].f \notin {"mask", "latency", "reset", "enable", "init"}
       /\ Len(r) > 0 => r[Len(r)].f \in {"mask", "latency", "tilt", "wrist"}
       /\ \A f : (\E i \in 1 .. Len(s) : s[i].f = f) => h.f = f \/ \E i \in 1 .. Len(r) : r[i].f = f
  BY <1>2 DEF Rest, h
<1>b. \A i \in 1 .. Len(q) :
        (\/ i \in 1 .. 2 /\ q[i] = p[i]
         \/ i \notin 1 .. 2 /\ q[i].f \notin {"mask", "latency", "reset", "enable", "init"})
  <2> SUFFICES ASSUME NEW i \in 1 .. Len(q)
               PROVE  (\/ i \in 1 .. 2 /\ q[i] = p[i]
                       \/ i \notin 1 .. 2 /\ q[i].f \notin {"mask", "latency", "reset", "enable", "init"})
    OBVIOUS
  <2>1. CASE i \notin 1 .. 2
    <3>2. \E k \in 1 .. Len(r) : q[i] = r[k]
      BY <1>k, <2>1
    <3>1. PICK k \in 1 .. Len(r) : q[i] = r[k]
      BY <3>2
    <3> QED
      BY <1>10, <2>1, <3>1
  <2>2. CASE i \in 1 .. 2
    BY <1>9, <2>2
  <2> QED
    BY <2>1, <2>2
<1>c. \A i \in 1 .. 2 : i = 1 \/ i = 2
  OBVIOUS
<1>11. CallsLast(q)'
  <2> SUFFICES ASSUME NEW i \in 1 .. Len(q), NEW j \in 1 .. Len(q), i < j
               PROVE  /\ q[i].f \in CallNames => q[j].f \notin {"mask", "latency", "reset", "enable", "init"}
                      /\ q[i].f \in {"enable", "init"} => q[j].f \in {"tilt", "wrist"}
    BY DEF CallsLast
  <2>1. q[i].f \notin {"enable", "init"}
    BY <1>5, <1>b, <1>c
  <2>2. CASE j \in 1 .. 2
    BY <1>5, <1>b, <1>l, <2>1, <2>2, SMTT(30) DEF CallNames
  <2>3. CASE j \notin 1 .. 2
    BY <1>b, <2>1, <2>3
  <2> QED
    BY <2>2, <2>3
<1>12. Ends(q)'
  <2>1. CASE Len(r) = 0
    <3>1. Len(q) = 2 /\ q[2].f = "latency" /\ q # <<>>
      BY <1>5, <1>9, <2>1
    <3> QED
      BY <3>1 DEF Ends
  <2>2. CASE Len(r) > 0
    BY <1>9, <1>10, <2>2 DEF Ends
  <2> QED
    BY <1>9, <2>1, <2>2
<1>13. MaskDue(q)'
  <2>1. Wanted' = Axis(d, position)
    BY DEF Wanted
  <2>2. 1 \in 1 .. Len(q) /\ q[1].f \in {"mask", "wrist"}
    BY <1>5, <1>j, SMTT(30)
  <2>3. ASSUME NEW i \in 1 .. Len(q), q[i].f = "mask"
        PROVE  q[i].v = Axis(d, position)
    <3>1. i = 1
      BY <1>5, <1>b, <1>c, <2>3
    <3> QED
      BY <1>5, <1>9, <3>1, SMTT(30)
  <2> QED
    BY <2>1, <2>2, <2>3 DEF MaskDue
<1>14. LatencyDue(q)'
  <2>1. 2 \in 1 .. Len(q) /\ q[2].f \in {"latency", "tilt"}
    BY <1>5, <1>j
  <2>2. ASSUME NEW i \in 1 .. Len(q), q[i].f = "latency"
        PROVE  q[i].v = Latency(tiltDirection')
    <3>1. i = 2
      BY <1>5, <1>b, <1>c, <2>2
    <3> QED
      BY <1>5, <1>9, <3>1, SMTT(30)
  <2> QED
    BY <2>1, <2>2 DEF LatencyDue
<1>15. SensDue(q)'
  <2>1. OnOff' = OnOff
    BY DEF OnOff
  <2>2. sens = OnOff \/ \E i \in 1 .. Len(s) : s[i].f = "sens"
    BY <1>7 DEF SensDue
  <2>3. sens = OnOff \/ \E i \in 1 .. Len(r) : r[i].f = "sens"
    BY <1>10, <2>2 DEF h
  <2>4. sens = OnOff \/ \E i \in 1 .. Len(q) : q[i].f = "sens"
    BY <1>n, <2>3
  <2>5. ASSUME NEW i \in 1 .. Len(q), q[i].f = "sens"
        PROVE  q[i].v = OnOff
    <3>1. i \notin 1 .. 2
      BY <1>5, <1>b, <2>5
    <3>2. PICK k \in 1 .. Len(r) :
            /\ q[i] = r[k]
            /\ \A f : (\E j \in k + 1 .. Len(r) : r[j].f = f) => \E j \in i + 1 .. Len(q) : q[j].f = f
      BY <1>9, <3>1
    <3>3. r[k].v = OnOff
      BY <1>2, <2>5, <3>2, SMTT(30) DEF Rest
    <3> QED
      BY <3>2, <3>3
  <2> QED
    BY <1>8, <2>1, <2>4, <2>5 DEF SensDue
<1>16. RouteDue(q)'
  <2>1. OnOff' = OnOff
    BY DEF OnOff
  <2>2. route = OnOff \/ \E i \in 1 .. Len(s) : s[i].f = "route"
    BY <1>7 DEF RouteDue
  <2>3. route = OnOff \/ \E i \in 1 .. Len(r) : r[i].f = "route"
    BY <1>10, <2>2 DEF h
  <2>4. route = OnOff \/ \E i \in 1 .. Len(q) : q[i].f = "route"
    BY <1>n, <2>3
  <2>5. ASSUME NEW i \in 1 .. Len(q), q[i].f = "route"
        PROVE  q[i].v = OnOff \/ \E j \in i + 1 .. Len(q) : q[j].f = "route"
    <3>1. i \notin 1 .. 2
      BY <1>5, <1>b, <2>5
    <3>2. PICK k \in 1 .. Len(r) :
            /\ q[i] = r[k]
            /\ \A f : (\E j \in k + 1 .. Len(r) : r[j].f = f) => \E j \in i + 1 .. Len(q) : q[j].f = f
      BY <1>9, <3>1
    <3>3. r[k].v = OnOff \/ \E j \in k + 1 .. Len(r) : r[j].f = "route"
      BY <1>2, <2>5, <3>2 DEF Rest
    <3> QED
      BY <3>2, <3>3
  <2> QED
    BY <1>8, <2>1, <2>4, <2>5 DEF RouteDue
<1>17. ResetMends(q)'
  <2>1. \A i \in 1 .. Len(q) : q[i].f \notin {"reset", "init"}
    BY <1>5, <1>b
  <2> QED
    BY <2>1 DEF ResetMends
<1> QED
  BY <1>11, <1>12, <1>13, <1>14, <1>15, <1>16, <1>17 DEF Completes

(* the wrist's turn,                                                       *)
LEMMA WristBegun ==
  ASSUME NEW s \in Seq(Fs), s # <<>>, Completes(s), UNCHANGED chipVars,
         NEW w \in {"faceUp", "faceDown"}, s[1].f = "wrist",
         position' = w, UNCHANGED <<tiltEnable, tiltDirection>>,
         NEW p \in Seq(Fs), Len(p) = 1,
         p[1].f = "mask" /\ p[1].v = Axis(tiltDirection, w),
         NEW q, q = p \o Tail(s)
  PROVE  Completes(q)'
<1> DEFINE r == Tail(s)
           h == s[1]
<1>2. Rest(s, r)
  BY RestHas DEF CallNames
<1>3. h.f \in {"enable", "init"} => Len(r) > 0 /\ \A i \in 1 .. Len(r) : r[i].f \in {"tilt", "wrist"}
  BY RestHas DEF CallNames
<1>5. p[1].f = "mask" /\ p[1].v = Axis(tiltDirection, w)
  OBVIOUS
<1>6. r \in Seq(Fs)
  BY <1>2 DEF Rest
<1>7. /\ MaskDue(s) /\ LatencyDue(s) /\ SensDue(s) /\ RouteDue(s) /\ ResetMends(s)
  BY DEF Completes
<1>8. UNCHANGED <<mask, latency, sens, route>>
  BY DEF chipVars
<1>a. q = p \o r /\ Len(p) = 1
  OBVIOUS
<1> HIDE DEF r, h
<1>9. /\ Len(r) \in Nat /\ Len(q) \in Nat
      /\ \A i \in 1 .. 1 : i \in 1 .. Len(q) /\ q[i] = p[i]
      /\ \A i \in 1 .. Len(q) : i \notin 1 .. 1 => \E k \in 1 .. Len(r) :
           /\ q[i] = r[k]
           /\ \A f : (\E j \in k + 1 .. Len(r) : r[j].f = f) => \E j \in i + 1 .. Len(q) : q[j].f = f
      /\ \A i, j \in 1 .. Len(q) : i < j /\ j \in 1 .. 1 => i \in 1 .. 1
      /\ \A f : (\E i \in 1 .. Len(r) : r[i].f = f) => \E i \in 1 .. Len(q) : q[i].f = f
      /\ Len(r) > 0 => Len(q) \in 1 .. Len(q) /\ q[Len(q)] = r[Len(r)] /\ q # <<>>
      /\ Len(r) = 0 => Len(q) = 1
  <2>1. Joined(q, p, r)
    BY <1>a, <1>6, Prefixed
  <2> QED
    BY <1>a, <2>1 DEF Joined
<1>i. Joined(q, p, r)
  BY <1>a, <1>6, Prefixed
<1>j. Len(r) \in Nat /\ Len(q) \in Nat /\ \A i \in 1 .. 1 : i \in 1 .. Len(q) /\ q[i] = p[i]
  BY <1>a, <1>i DEF Joined
<1>n. \A f : (\E i \in 1 .. Len(r) : r[i].f = f) => \E i \in 1 .. Len(q) : q[i].f = f
  BY <1>a, <1>i DEF Joined
<1>k. \A i \in 1 .. Len(q) : i \notin 1 .. 1 => \E k \in 1 .. Len(r) : q[i] = r[k]
  BY <1>a, <1>i DEF Joined
<1>l. \A i, j \in 1 .. Len(q) : i < j /\ j \in 1 .. 1 => i \in 1 .. 1
  BY <1>a, <1>i DEF Joined
<1>10. /\ \A i \in 1 .. Len(r) : r[i].f \notin {"mask", "latency", "reset", "enable", "init"}
       /\ Len(r) > 0 => r[Len(r)].f \in {"mask", "latency", "tilt", "wrist"}
       /\ \A f : (\E i \in 1 .. Len(s) : s[i].f = f) => h.f = f \/ \E i \in 1 .. Len(r) : r[i].f = f
  BY <1>2 DEF Rest, h
<1>b. \A i \in 1 .. Len(q) :
        (\/ i \in 1 .. 1 /\ q[i] = p[i]
         \/ i \notin 1 .. 1 /\ q[i].f \notin {"mask", "latency", "reset", "enable", "init"})
  <2> SUFFICES ASSUME NEW i \in 1 .. Len(q)
               PROVE  (\/ i \in 1 .. 1 /\ q[i] = p[i]
                       \/ i \notin 1 .. 1 /\ q[i].f \notin {"mask", "latency", "reset", "enable", "init"})
    OBVIOUS
  <2>1. CASE i \notin 1 .. 1
    <3>2. \E k \in 1 .. Len(r) : q[i] = r[k]
      BY <1>k, <2>1
    <3>1. PICK k \in 1 .. Len(r) : q[i] = r[k]
      BY <3>2
    <3> QED
      BY <1>10, <2>1, <3>1
  <2>2. CASE i \in 1 .. 1
    BY <1>9, <2>2
  <2> QED
    BY <2>1, <2>2
<1>c. \A i \in 1 .. 1 : i = 1
  OBVIOUS
<1>11. CallsLast(q)'
  <2> SUFFICES ASSUME NEW i \in 1 .. Len(q), NEW j \in 1 .. Len(q), i < j
               PROVE  /\ q[i].f \in CallNames => q[j].f \notin {"mask", "latency", "reset", "enable", "init"}
                      /\ q[i].f \in {"enable", "init"} => q[j].f \in {"tilt", "wrist"}
    BY DEF CallsLast
  <2>1. q[i].f \notin {"enable", "init"}
    BY <1>5, <1>b, <1>c
  <2>2. CASE j \in 1 .. 1
    BY <1>9, <2>1, <2>2
  <2>3. CASE j \notin 1 .. 1
    BY <1>b, <2>1, <2>3
  <2> QED
    BY <2>2, <2>3
<1>12. Ends(q)'
  <2>1. CASE Len(r) = 0
    <3>1. Len(q) = 1 /\ q[1].f = "mask" /\ q # <<>>
      BY <1>5, <1>9, <2>1
    <3> QED
      BY <3>1 DEF Ends
  <2>2. CASE Len(r) > 0
    BY <1>9, <1>10, <2>2 DEF Ends
  <2> QED
    BY <1>9, <2>1, <2>2
<1>13. MaskDue(q)'
  <2>1. Wanted' = Axis(tiltDirection, w)
    BY DEF Wanted
  <2>2. 1 \in 1 .. Len(q) /\ q[1].f \in {"mask", "wrist"}
    BY <1>5, <1>j
  <2>3. ASSUME NEW i \in 1 .. Len(q), q[i].f = "mask"
        PROVE  q[i].v = Axis(tiltDirection, w)
    <3>1. i = 1
      BY <1>5, <1>b, <1>c, <2>3
    <3> QED
      BY <1>5, <1>9, <3>1
  <2> QED
    BY <2>1, <2>2, <2>3 DEF MaskDue
<1>14. LatencyDue(q)'
  <2>1. tiltEnable => latency = Latency(tiltDirection) \/ \E i \in 1 .. Len(s) : s[i].f \in {"latency", "tilt"}
    BY <1>7 DEF LatencyDue
  <2>2. tiltEnable => latency = Latency(tiltDirection) \/ \E i \in 1 .. Len(r) : r[i].f = "tilt"
    BY <1>10, <2>1 DEF h
  <2>3. tiltEnable => latency = Latency(tiltDirection) \/ \E i \in 1 .. Len(q) : q[i].f = "tilt"
    BY <1>n, <2>2
  <2>4. \A i \in 1 .. Len(q) : q[i].f # "latency"
    BY <1>5, <1>b
  <2> QED
    BY <1>8, <2>3, <2>4 DEF LatencyDue
<1>15. SensDue(q)'
  <2>1. OnOff' = OnOff
    BY DEF OnOff
  <2>2. sens = OnOff \/ \E i \in 1 .. Len(s) : s[i].f = "sens"
    BY <1>7 DEF SensDue
  <2>3. sens = OnOff \/ \E i \in 1 .. Len(r) : r[i].f = "sens"
    BY <1>10, <2>2 DEF h
  <2>4. sens = OnOff \/ \E i \in 1 .. Len(q) : q[i].f = "sens"
    BY <1>n, <2>3
  <2>5. ASSUME NEW i \in 1 .. Len(q), q[i].f = "sens"
        PROVE  q[i].v = OnOff
    <3>1. i \notin 1 .. 1
      BY <1>5, <1>b, <2>5
    <3>2. PICK k \in 1 .. Len(r) :
            /\ q[i] = r[k]
            /\ \A f : (\E j \in k + 1 .. Len(r) : r[j].f = f) => \E j \in i + 1 .. Len(q) : q[j].f = f
      BY <1>9, <3>1
    <3>3. r[k].v = OnOff
      BY <1>2, <2>5, <3>2, SMTT(30) DEF Rest
    <3> QED
      BY <3>2, <3>3
  <2> QED
    BY <1>8, <2>1, <2>4, <2>5 DEF SensDue
<1>16. RouteDue(q)'
  <2>1. OnOff' = OnOff
    BY DEF OnOff
  <2>2. route = OnOff \/ \E i \in 1 .. Len(s) : s[i].f = "route"
    BY <1>7 DEF RouteDue
  <2>3. route = OnOff \/ \E i \in 1 .. Len(r) : r[i].f = "route"
    BY <1>10, <2>2 DEF h
  <2>4. route = OnOff \/ \E i \in 1 .. Len(q) : q[i].f = "route"
    BY <1>n, <2>3
  <2>5. ASSUME NEW i \in 1 .. Len(q), q[i].f = "route"
        PROVE  q[i].v = OnOff \/ \E j \in i + 1 .. Len(q) : q[j].f = "route"
    <3>1. i \notin 1 .. 1
      BY <1>5, <1>b, <2>5, SMTT(30)
    <3>2. PICK k \in 1 .. Len(r) :
            /\ q[i] = r[k]
            /\ \A f : (\E j \in k + 1 .. Len(r) : r[j].f = f) => \E j \in i + 1 .. Len(q) : q[j].f = f
      BY <1>9, <3>1
    <3>3. r[k].v = OnOff \/ \E j \in k + 1 .. Len(r) : r[j].f = "route"
      BY <1>2, <2>5, <3>2, SMTT(30) DEF Rest
    <3> QED
      BY <3>2, <3>3
  <2> QED
    BY <1>8, <2>1, <2>4, <2>5 DEF RouteDue
<1>17. ResetMends(q)'
  <2>1. \A i \in 1 .. Len(q) : q[i].f \notin {"reset", "init"}
    BY <1>5, <1>b
  <2> QED
    BY <2>1 DEF ResetMends
<1> QED
  BY <1>11, <1>12, <1>13, <1>14, <1>15, <1>16, <1>17 DEF Completes

(* (nothing joined to nothing)                                             *)
LEMMA EmptyTwo ==
  ASSUME NEW p \in Seq(Fs), NEW r \in Seq(Fs), Len(p) = 0, Len(r) = 0
  PROVE  p \o r = <<>>
  OBVIOUS

(* a call that has nothing to do,                                          *)
LEMMA DropBegun ==
  ASSUME NEW s \in Seq(Fs), s # <<>>, Completes(s), UNCHANGED chipVars,
         UNCHANGED tiltVars, s[1].f \in {"tilt", "enable"}, s[1].f = "tilt" => ~tiltEnable,
         NEW p \in Seq(Fs), Len(p) = 0,
         s[1].f \in {"tilt", "enable"} /\ (s[1].f = "tilt" => ~tiltEnable),
         NEW q, q = p \o Tail(s)
  PROVE  Completes(q)'
<1> DEFINE r == Tail(s)
           h == s[1]
<1>2. Rest(s, r)
  BY RestHas DEF CallNames
<1>3. h.f \in {"enable", "init"} => Len(r) > 0 /\ \A i \in 1 .. Len(r) : r[i].f \in {"tilt", "wrist"}
  BY RestHas DEF CallNames
<1>5. s[1].f \in {"tilt", "enable"} /\ (s[1].f = "tilt" => ~tiltEnable)
  OBVIOUS
<1>6. r \in Seq(Fs)
  BY <1>2 DEF Rest
<1>7. /\ MaskDue(s) /\ LatencyDue(s) /\ SensDue(s) /\ RouteDue(s) /\ ResetMends(s)
  BY DEF Completes
<1>8. UNCHANGED <<mask, latency, sens, route>>
  BY DEF chipVars
<1>a. q = p \o r /\ Len(p) = 0
  OBVIOUS
<1> HIDE DEF r, h
<1>9. /\ Len(r) \in Nat /\ Len(q) \in Nat
      /\ \A i \in 1 .. 0 : i \in 1 .. Len(q) /\ q[i] = p[i]
      /\ \A i \in 1 .. Len(q) : i \notin 1 .. 0 => \E k \in 1 .. Len(r) :
           /\ q[i] = r[k]
           /\ \A f : (\E j \in k + 1 .. Len(r) : r[j].f = f) => \E j \in i + 1 .. Len(q) : q[j].f = f
      /\ \A i, j \in 1 .. Len(q) : i < j /\ j \in 1 .. 0 => i \in 1 .. 0
      /\ \A f : (\E i \in 1 .. Len(r) : r[i].f = f) => \E i \in 1 .. Len(q) : q[i].f = f
      /\ Len(r) > 0 => Len(q) \in 1 .. Len(q) /\ q[Len(q)] = r[Len(r)] /\ q # <<>>
      /\ Len(r) = 0 => Len(q) = 0
  <2>1. Joined(q, p, r)
    BY <1>a, <1>6, Prefixed
  <2> QED
    BY <1>a, <2>1 DEF Joined
<1>i. Joined(q, p, r)
  BY <1>a, <1>6, Prefixed
<1>j. Len(r) \in Nat /\ Len(q) \in Nat /\ \A i \in 1 .. 0 : i \in 1 .. Len(q) /\ q[i] = p[i]
  BY <1>a, <1>i DEF Joined
<1>n. \A f : (\E i \in 1 .. Len(r) : r[i].f = f) => \E i \in 1 .. Len(q) : q[i].f = f
  BY <1>a, <1>i DEF Joined
<1>k. \A i \in 1 .. Len(q) : i \notin 1 .. 0 => \E k \in 1 .. Len(r) : q[i] = r[k]
  BY <1>a, <1>i DEF Joined
<1>l. \A i, j \in 1 .. Len(q) : i < j /\ j \in 1 .. 0 => i \in 1 .. 0
  BY <1>a, <1>i DEF Joined
<1>10. /\ \A i \in 1 .. Len(r) : r[i].f \notin {"mask", "latency", "reset", "enable", "init"}
       /\ Len(r) > 0 => r[Len(r)].f \in {"mask", "latency", "tilt", "wrist"}
       /\ \A f : (\E i \in 1 .. Len(s) : s[i].f = f) => h.f = f \/ \E i \in 1 .. Len(r) : r[i].f = f
  BY <1>2 DEF Rest, h
<1>b. \A i \in 1 .. Len(q) :
        (\/ i \in 1 .. 0 /\ q[i] = p[i]
         \/ i \notin 1 .. 0 /\ q[i].f \notin {"mask", "latency", "reset", "enable", "init"})
  <2> SUFFICES ASSUME NEW i \in 1 .. Len(q)
               PROVE  (\/ i \in 1 .. 0 /\ q[i] = p[i]
                       \/ i \notin 1 .. 0 /\ q[i].f \notin {"mask", "latency", "reset", "enable", "init"})
    OBVIOUS
  <2>1. CASE i \notin 1 .. 0
    <3>1. q = r
      <4>1. p = <<>>
        BY <1>a
      <4> QED
        BY <1>a, <1>6, <4>1, EmptyJoin
    <3> QED
      BY <1>10, <2>1, <3>1
  <2>2. CASE i \in 1 .. 0
    BY <1>9, <2>2
  <2> QED
    BY <2>1, <2>2
<1>c. \A i \in 1 .. 0 : FALSE
  OBVIOUS
<1>d. \A i \in 1 .. Len(q) : q[i].f \notin {"mask", "latency", "reset", "enable", "init"}
  BY <1>b, <1>c
<1>11. CallsLast(q)'
  <2> SUFFICES ASSUME NEW i \in 1 .. Len(q), NEW j \in 1 .. Len(q), i < j
               PROVE  /\ q[i].f \in CallNames => q[j].f \notin {"mask", "latency", "reset", "enable", "init"}
                      /\ q[i].f \in {"enable", "init"} => q[j].f \in {"tilt", "wrist"}
    BY DEF CallsLast
  <2>1. q[i].f \notin {"enable", "init"}
    BY <1>d
  <2>2. CASE j \in 1 .. 0
    BY <1>9, <2>1, <2>2
  <2>3. CASE j \notin 1 .. 0
    BY <1>b, <2>1, <2>3
  <2> QED
    BY <2>2, <2>3
<1>12. Ends(q)'
  <2>1. CASE Len(r) = 0
    <3>1. q = <<>>
      BY <1>9, <2>1, <1>6, <1>a, EmptyTwo
    <3> QED
      BY <3>1 DEF Ends
  <2>2. CASE Len(r) > 0
    BY <1>9, <1>10, <2>2 DEF Ends
  <2> QED
    BY <1>9, <2>1, <2>2
<1>13. MaskDue(q)'
  <2>1. mask = Wanted \/ \E i \in 1 .. Len(s) : s[i].f \in {"mask", "wrist"}
    BY <1>7 DEF MaskDue
  <2>2. mask = Wanted \/ \E i \in 1 .. Len(r) : r[i].f = "wrist"
    BY <1>5, <1>10, <2>1 DEF h
  <2>3. mask = Wanted \/ \E i \in 1 .. Len(q) : q[i].f = "wrist"
    BY <1>n, <2>2
  <2>4. \A i \in 1 .. Len(q) : q[i].f # "mask"
    BY <1>d
  <2>5. Wanted' = Wanted
    BY DEF Wanted, tiltVars
  <2> QED
    BY <1>8, <2>3, <2>4, <2>5 DEF MaskDue
<1>14. LatencyDue(q)'
  <2>1. tiltEnable => latency = Latency(tiltDirection) \/ \E i \in 1 .. Len(s) : s[i].f \in {"latency", "tilt"}
    BY <1>7 DEF LatencyDue
  <2>2. tiltEnable => latency = Latency(tiltDirection) \/ \E i \in 1 .. Len(r) : r[i].f = "tilt"
    BY <1>5, <1>10, <2>1 DEF h
  <2>3. tiltEnable => latency = Latency(tiltDirection) \/ \E i \in 1 .. Len(q) : q[i].f = "tilt"
    BY <1>n, <2>2
  <2>4. \A i \in 1 .. Len(q) : q[i].f # "latency"
    BY <1>d
  <2> QED
    BY <1>8, <2>3, <2>4 DEF LatencyDue, tiltVars
<1>15. SensDue(q)'
  <2>1. OnOff' = OnOff
    BY DEF OnOff, tiltVars
  <2>2. sens = OnOff \/ \E i \in 1 .. Len(s) : s[i].f = "sens"
    BY <1>7 DEF SensDue
  <2>3. sens = OnOff \/ \E i \in 1 .. Len(r) : r[i].f = "sens"
    BY <1>5, <1>10, <2>2 DEF h
  <2>4. sens = OnOff \/ \E i \in 1 .. Len(q) : q[i].f = "sens"
    BY <1>n, <2>3
  <2>5. ASSUME NEW i \in 1 .. Len(q), q[i].f = "sens"
        PROVE  q[i].v = OnOff
    <3>1. i \notin 1 .. 0
      BY <1>5, <1>b, <2>5
    <3>2. PICK k \in 1 .. Len(r) :
            /\ q[i] = r[k]
            /\ \A f : (\E j \in k + 1 .. Len(r) : r[j].f = f) => \E j \in i + 1 .. Len(q) : q[j].f = f
      BY <1>9, <3>1
    <3>3. r[k].v = OnOff
      BY <1>2, <2>5, <3>2 DEF Rest
    <3> QED
      BY <3>2, <3>3
  <2> QED
    BY <1>8, <2>1, <2>4, <2>5 DEF SensDue
<1>16. RouteDue(q)'
  <2>1. OnOff' = OnOff
    BY DEF OnOff, tiltVars
  <2>2. route = OnOff \/ \E i \in 1 .. Len(s) : s[i].f = "route"
    BY <1>7 DEF RouteDue
  <2>3. route = OnOff \/ \E i \in 1 .. Len(r) : r[i].f = "route"
    BY <1>5, <1>10, <2>2 DEF h
  <2>4. route = OnOff \/ \E i \in 1 .. Len(q) : q[i].f = "route"
    BY <1>n, <2>3
  <2>5. ASSUME NEW i \in 1 .. Len(q), q[i].f = "route"
        PROVE  q[i].v = OnOff \/ \E j \in i + 1 .. Len(q) : q[j].f = "route"
    <3>1. i \notin 1 .. 0
      BY <1>5, <1>b, <2>5
    <3>2. PICK k \in 1 .. Len(r) :
            /\ q[i] = r[k]
            /\ \A f : (\E j \in k + 1 .. Len(r) : r[j].f = f) => \E j \in i + 1 .. Len(q) : q[j].f = f
      BY <1>9, <3>1
    <3>3. r[k].v = OnOff \/ \E j \in k + 1 .. Len(r) : r[j].f = "route"
      BY <1>2, <2>5, <3>2 DEF Rest
    <3> QED
      BY <3>2, <3>3
  <2> QED
    BY <1>8, <2>1, <2>4, <2>5 DEF RouteDue
<1>17. ResetMends(q)'
  <2>1. \A i \in 1 .. Len(q) : q[i].f \notin {"reset", "init"}
    <3> SUFFICES ASSUME NEW i \in 1 .. Len(q)
                 PROVE  q[i].f \notin {"reset", "init"}
      OBVIOUS
    <3>1. i \notin 1 .. 0
      OBVIOUS
    <3> QED
      BY <1>b, <3>1
  <2> QED
    BY <2>1 DEF ResetMends, tiltVars
<1> QED
  BY <1>11, <1>12, <1>13, <1>14, <1>15, <1>16, <1>17 DEF Completes

(* tilt switched on,                                                       *)
LEMMA OnBegun ==
  ASSUME NEW s \in Seq(Fs), s # <<>>, Completes(s), UNCHANGED chipVars,
         ~tiltEnable, tiltEnable' = TRUE, UNCHANGED <<tiltDirection, position>>, s[1].f = "enable",
         NEW p \in Seq(Fs), Len(p) = 4,
         s[1].f = "enable" /\ p[1].f = "tilt" /\ p[2].f = "sens" /\ p[2].v = "on" /\ p[3].f = "route" /\ p[3].v = "on" /\ p[4].f = "sources",
         NEW q, q = p \o Tail(s)
  PROVE  Completes(q)'
<1> DEFINE r == Tail(s)
           h == s[1]
<1>2. Rest(s, r)
  BY RestHas DEF CallNames
<1>3. h.f \in {"enable", "init"} => Len(r) > 0 /\ \A i \in 1 .. Len(r) : r[i].f \in {"tilt", "wrist"}
  BY RestHas DEF CallNames
<1>5. s[1].f = "enable" /\ p[1].f = "tilt" /\ p[2].f = "sens" /\ p[2].v = "on" /\ p[3].f = "route" /\ p[3].v = "on" /\ p[4].f = "sources"
  OBVIOUS
<1>6. r \in Seq(Fs)
  BY <1>2 DEF Rest
<1>7. /\ MaskDue(s) /\ LatencyDue(s) /\ SensDue(s) /\ RouteDue(s) /\ ResetMends(s)
  BY DEF Completes
<1>8. UNCHANGED <<mask, latency, sens, route>>
  BY DEF chipVars
<1>a. q = p \o r /\ Len(p) = 4
  OBVIOUS
<1> HIDE DEF r, h
<1>9. /\ Len(r) \in Nat /\ Len(q) \in Nat
      /\ \A i \in 1 .. 4 : i \in 1 .. Len(q) /\ q[i] = p[i]
      /\ \A i \in 1 .. Len(q) : i \notin 1 .. 4 => \E k \in 1 .. Len(r) :
           /\ q[i] = r[k]
           /\ \A f : (\E j \in k + 1 .. Len(r) : r[j].f = f) => \E j \in i + 1 .. Len(q) : q[j].f = f
      /\ \A i, j \in 1 .. Len(q) : i < j /\ j \in 1 .. 4 => i \in 1 .. 4
      /\ \A f : (\E i \in 1 .. Len(r) : r[i].f = f) => \E i \in 1 .. Len(q) : q[i].f = f
      /\ Len(r) > 0 => Len(q) \in 1 .. Len(q) /\ q[Len(q)] = r[Len(r)] /\ q # <<>>
      /\ Len(r) = 0 => Len(q) = 4
  <2>1. Joined(q, p, r)
    BY <1>a, <1>6, Prefixed
  <2> QED
    BY <1>a, <2>1 DEF Joined
<1>i. Joined(q, p, r)
  BY <1>a, <1>6, Prefixed
<1>j. Len(r) \in Nat /\ Len(q) \in Nat /\ \A i \in 1 .. 4 : i \in 1 .. Len(q) /\ q[i] = p[i]
  BY <1>a, <1>i DEF Joined
<1>n. \A f : (\E i \in 1 .. Len(r) : r[i].f = f) => \E i \in 1 .. Len(q) : q[i].f = f
  BY <1>a, <1>i DEF Joined
<1>k. \A i \in 1 .. Len(q) : i \notin 1 .. 4 => \E k \in 1 .. Len(r) : q[i] = r[k]
  BY <1>a, <1>i DEF Joined
<1>l. \A i, j \in 1 .. Len(q) : i < j /\ j \in 1 .. 4 => i \in 1 .. 4
  BY <1>a, <1>i DEF Joined
<1>10. /\ \A i \in 1 .. Len(r) : r[i].f \notin {"mask", "latency", "reset", "enable", "init"}
       /\ Len(r) > 0 => r[Len(r)].f \in {"mask", "latency", "tilt", "wrist"}
       /\ \A f : (\E i \in 1 .. Len(s) : s[i].f = f) => h.f = f \/ \E i \in 1 .. Len(r) : r[i].f = f
  BY <1>2 DEF Rest, h
<1>b. \A i \in 1 .. Len(q) :
        (\/ i \in 1 .. 4 /\ q[i] = p[i]
         \/ i \notin 1 .. 4 /\ q[i].f \notin {"mask", "latency", "reset", "enable", "init"})
  <2> SUFFICES ASSUME NEW i \in 1 .. Len(q)
               PROVE  (\/ i \in 1 .. 4 /\ q[i] = p[i]
                       \/ i \notin 1 .. 4 /\ q[i].f \notin {"mask", "latency", "reset", "enable", "init"})
    OBVIOUS
  <2>1. CASE i \notin 1 .. 4
    <3>2. \E k \in 1 .. Len(r) : q[i] = r[k]
      BY <1>k, <2>1
    <3>1. PICK k \in 1 .. Len(r) : q[i] = r[k]
      BY <3>2
    <3> QED
      BY <1>10, <2>1, <3>1
  <2>2. CASE i \in 1 .. 4
    BY <1>9, <2>2
  <2> QED
    BY <2>1, <2>2
<1>c. \A i \in 1 .. 4 : i = 1 \/ i = 2 \/ i = 3 \/ i = 4
  OBVIOUS
<1>11. CallsLast(q)'
  <2> SUFFICES ASSUME NEW i \in 1 .. Len(q), NEW j \in 1 .. Len(q), i < j
               PROVE  /\ q[i].f \in CallNames => q[j].f \notin {"mask", "latency", "reset", "enable", "init"}
                      /\ q[i].f \in {"enable", "init"} => q[j].f \in {"tilt", "wrist"}
    BY DEF CallsLast
  <2>1. q[i].f \notin {"enable", "init"}
    BY <1>5, <1>b, <1>c
  <2>2. CASE j \in 1 .. 4
    BY <1>5, <1>b, <1>c, <2>1, <2>2 DEF CallNames
  <2>3. CASE j \notin 1 .. 4
    BY <1>b, <2>1, <2>3
  <2> QED
    BY <2>2, <2>3
<1>12. Ends(q)'
  <2>1. CASE Len(r) = 0
    BY <1>3, <1>5, <2>1 DEF h
  <2>2. CASE Len(r) > 0
    BY <1>9, <1>10, <2>2 DEF Ends
  <2> QED
    BY <1>9, <2>1, <2>2
<1>13. MaskDue(q)'
  <2>1. mask = Wanted \/ \E i \in 1 .. Len(s) : s[i].f \in {"mask", "wrist"}
    BY <1>7 DEF MaskDue
  <2>2. mask = Wanted \/ \E i \in 1 .. Len(r) : r[i].f = "wrist"
    BY <1>5, <1>10, <2>1 DEF h
  <2>3. mask = Wanted \/ \E i \in 1 .. Len(q) : q[i].f = "wrist"
    BY <1>n, <2>2
  <2>4. \A i \in 1 .. Len(q) : q[i].f # "mask"
    BY <1>5, <1>b, <1>c
  <2>5. Wanted' = Wanted
    BY DEF Wanted
  <2> QED
    BY <1>8, <2>3, <2>4, <2>5 DEF MaskDue
<1>14. LatencyDue(q)'
  <2>1. 1 \in 1 .. Len(q) /\ q[1].f \in {"latency", "tilt"}
    BY <1>5, <1>j
  <2>2. \A i \in 1 .. Len(q) : q[i].f # "latency"
    BY <1>5, <1>b, <1>c
  <2> QED
    BY <2>1, <2>2 DEF LatencyDue
<1>15. SensDue(q)'
  <2>a. \A k \in 1 .. Len(r) : r[k].f \in {"tilt", "wrist"}
    BY <1>3, <1>5 DEF h
  <2>b. \A i \in 1 .. Len(q) : q[i].f = "sens" => i = 2
    <3> SUFFICES ASSUME NEW i \in 1 .. Len(q), q[i].f = "sens"
                 PROVE  i = 2
      OBVIOUS
    <3>1. CASE i \notin 1 .. 4
      BY <1>k, <2>a, <3>1
    <3>2. CASE i \in 1 .. 4
      BY <1>5, <1>c, <1>j, <3>2
    <3> QED
      BY <3>1, <3>2
  <2>1. 2 \in 1 .. Len(q) /\ q[2].f = "sens" /\ q[2].v = "on"
    BY <1>5, <1>j
  <2>2. OnOff' = "on"
    BY DEF OnOff
  <2> QED
    BY <2>b, <2>1, <2>2 DEF SensDue
<1>16. RouteDue(q)'
  <2>a. \A k \in 1 .. Len(r) : r[k].f \in {"tilt", "wrist"}
    BY <1>3, <1>5 DEF h
  <2>b. \A i \in 1 .. Len(q) : q[i].f = "route" => i = 3
    <3> SUFFICES ASSUME NEW i \in 1 .. Len(q), q[i].f = "route"
                 PROVE  i = 3
      OBVIOUS
    <3>1. CASE i \notin 1 .. 4
      BY <1>k, <2>a, <3>1
    <3>2. CASE i \in 1 .. 4
      BY <1>5, <1>c, <1>j, <3>2
    <3> QED
      BY <3>1, <3>2
  <2>1. 3 \in 1 .. Len(q) /\ q[3].f = "route" /\ q[3].v = "on"
    BY <1>5, <1>j
  <2>2. OnOff' = "on"
    BY DEF OnOff
  <2> QED
    BY <2>b, <2>1, <2>2 DEF RouteDue
<1>17. ResetMends(q)'
  <2>1. \A i \in 1 .. Len(q) : q[i].f \notin {"reset", "init"}
    BY <1>5, <1>b, <1>c
  <2> QED
    BY <2>1 DEF ResetMends
<1> QED
  BY <1>11, <1>12, <1>13, <1>14, <1>15, <1>16, <1>17 DEF Completes

(* off,                                                                    *)
LEMMA OffBegun ==
  ASSUME NEW s \in Seq(Fs), s # <<>>, Completes(s), UNCHANGED chipVars,
         tiltEnable' = FALSE, UNCHANGED <<tiltDirection, position>>, s[1].f = "enable",
         NEW p \in Seq(Fs), Len(p) = 2,
         s[1].f = "enable" /\ p[1].f = "sens" /\ p[1].v = "off" /\ p[2].f = "route" /\ p[2].v = "off",
         NEW q, q = p \o Tail(s)
  PROVE  Completes(q)'
<1> DEFINE r == Tail(s)
           h == s[1]
<1>2. Rest(s, r)
  BY RestHas DEF CallNames
<1>3. h.f \in {"enable", "init"} => Len(r) > 0 /\ \A i \in 1 .. Len(r) : r[i].f \in {"tilt", "wrist"}
  BY RestHas DEF CallNames
<1>5. s[1].f = "enable" /\ p[1].f = "sens" /\ p[1].v = "off" /\ p[2].f = "route" /\ p[2].v = "off"
  OBVIOUS
<1>6. r \in Seq(Fs)
  BY <1>2 DEF Rest
<1>7. /\ MaskDue(s) /\ LatencyDue(s) /\ SensDue(s) /\ RouteDue(s) /\ ResetMends(s)
  BY DEF Completes
<1>8. UNCHANGED <<mask, latency, sens, route>>
  BY DEF chipVars
<1>a. q = p \o r /\ Len(p) = 2
  OBVIOUS
<1> HIDE DEF r, h
<1>9. /\ Len(r) \in Nat /\ Len(q) \in Nat
      /\ \A i \in 1 .. 2 : i \in 1 .. Len(q) /\ q[i] = p[i]
      /\ \A i \in 1 .. Len(q) : i \notin 1 .. 2 => \E k \in 1 .. Len(r) :
           /\ q[i] = r[k]
           /\ \A f : (\E j \in k + 1 .. Len(r) : r[j].f = f) => \E j \in i + 1 .. Len(q) : q[j].f = f
      /\ \A i, j \in 1 .. Len(q) : i < j /\ j \in 1 .. 2 => i \in 1 .. 2
      /\ \A f : (\E i \in 1 .. Len(r) : r[i].f = f) => \E i \in 1 .. Len(q) : q[i].f = f
      /\ Len(r) > 0 => Len(q) \in 1 .. Len(q) /\ q[Len(q)] = r[Len(r)] /\ q # <<>>
      /\ Len(r) = 0 => Len(q) = 2
  <2>1. Joined(q, p, r)
    BY <1>a, <1>6, Prefixed
  <2> QED
    BY <1>a, <2>1 DEF Joined
<1>i. Joined(q, p, r)
  BY <1>a, <1>6, Prefixed
<1>j. Len(r) \in Nat /\ Len(q) \in Nat /\ \A i \in 1 .. 2 : i \in 1 .. Len(q) /\ q[i] = p[i]
  BY <1>a, <1>i DEF Joined
<1>n. \A f : (\E i \in 1 .. Len(r) : r[i].f = f) => \E i \in 1 .. Len(q) : q[i].f = f
  BY <1>a, <1>i DEF Joined
<1>k. \A i \in 1 .. Len(q) : i \notin 1 .. 2 => \E k \in 1 .. Len(r) : q[i] = r[k]
  BY <1>a, <1>i DEF Joined
<1>l. \A i, j \in 1 .. Len(q) : i < j /\ j \in 1 .. 2 => i \in 1 .. 2
  BY <1>a, <1>i DEF Joined
<1>10. /\ \A i \in 1 .. Len(r) : r[i].f \notin {"mask", "latency", "reset", "enable", "init"}
       /\ Len(r) > 0 => r[Len(r)].f \in {"mask", "latency", "tilt", "wrist"}
       /\ \A f : (\E i \in 1 .. Len(s) : s[i].f = f) => h.f = f \/ \E i \in 1 .. Len(r) : r[i].f = f
  BY <1>2 DEF Rest, h
<1>b. \A i \in 1 .. Len(q) :
        (\/ i \in 1 .. 2 /\ q[i] = p[i]
         \/ i \notin 1 .. 2 /\ q[i].f \notin {"mask", "latency", "reset", "enable", "init"})
  <2> SUFFICES ASSUME NEW i \in 1 .. Len(q)
               PROVE  (\/ i \in 1 .. 2 /\ q[i] = p[i]
                       \/ i \notin 1 .. 2 /\ q[i].f \notin {"mask", "latency", "reset", "enable", "init"})
    OBVIOUS
  <2>1. CASE i \notin 1 .. 2
    <3>2. \E k \in 1 .. Len(r) : q[i] = r[k]
      BY <1>k, <2>1
    <3>1. PICK k \in 1 .. Len(r) : q[i] = r[k]
      BY <3>2
    <3> QED
      BY <1>10, <2>1, <3>1
  <2>2. CASE i \in 1 .. 2
    BY <1>9, <2>2
  <2> QED
    BY <2>1, <2>2
<1>c. \A i \in 1 .. 2 : i = 1 \/ i = 2
  OBVIOUS
<1>11. CallsLast(q)'
  <2> SUFFICES ASSUME NEW i \in 1 .. Len(q), NEW j \in 1 .. Len(q), i < j
               PROVE  /\ q[i].f \in CallNames => q[j].f \notin {"mask", "latency", "reset", "enable", "init"}
                      /\ q[i].f \in {"enable", "init"} => q[j].f \in {"tilt", "wrist"}
    BY DEF CallsLast
  <2>1. q[i].f \notin {"enable", "init"}
    BY <1>5, <1>b, <1>c
  <2>2. CASE j \in 1 .. 2
    BY <1>5, <1>b, <1>c, <2>1, <2>2 DEF CallNames
  <2>3. CASE j \notin 1 .. 2
    BY <1>b, <2>1, <2>3
  <2> QED
    BY <2>2, <2>3
<1>12. Ends(q)'
  <2>1. CASE Len(r) = 0
    BY <1>3, <1>5, <2>1 DEF h
  <2>2. CASE Len(r) > 0
    BY <1>9, <1>10, <2>2 DEF Ends
  <2> QED
    BY <1>9, <2>1, <2>2
<1>13. MaskDue(q)'
  <2>1. mask = Wanted \/ \E i \in 1 .. Len(s) : s[i].f \in {"mask", "wrist"}
    BY <1>7 DEF MaskDue
  <2>2. mask = Wanted \/ \E i \in 1 .. Len(r) : r[i].f = "wrist"
    BY <1>5, <1>10, <2>1 DEF h
  <2>3. mask = Wanted \/ \E i \in 1 .. Len(q) : q[i].f = "wrist"
    BY <1>n, <2>2
  <2>4. \A i \in 1 .. Len(q) : q[i].f # "mask"
    BY <1>5, <1>b, <1>c
  <2>5. Wanted' = Wanted
    BY DEF Wanted
  <2> QED
    BY <1>8, <2>3, <2>4, <2>5 DEF MaskDue
<1>14. LatencyDue(q)'
  <2> QED
    BY DEF LatencyDue
<1>15. SensDue(q)'
  <2>a. \A k \in 1 .. Len(r) : r[k].f \in {"tilt", "wrist"}
    BY <1>3, <1>5 DEF h
  <2>b. \A i \in 1 .. Len(q) : q[i].f = "sens" => i = 1
    <3> SUFFICES ASSUME NEW i \in 1 .. Len(q), q[i].f = "sens"
                 PROVE  i = 1
      OBVIOUS
    <3>1. CASE i \notin 1 .. 2
      BY <1>k, <2>a, <3>1
    <3>2. CASE i \in 1 .. 2
      BY <1>5, <1>c, <1>j, <3>2
    <3> QED
      BY <3>1, <3>2
  <2>1. 1 \in 1 .. Len(q) /\ q[1].f = "sens" /\ q[1].v = "off"
    BY <1>5, <1>j
  <2>2. OnOff' = "off"
    BY DEF OnOff
  <2> QED
    BY <2>b, <2>1, <2>2 DEF SensDue
<1>16. RouteDue(q)'
  <2>a. \A k \in 1 .. Len(r) : r[k].f \in {"tilt", "wrist"}
    BY <1>3, <1>5 DEF h
  <2>b. \A i \in 1 .. Len(q) : q[i].f = "route" => i = 2
    <3> SUFFICES ASSUME NEW i \in 1 .. Len(q), q[i].f = "route"
                 PROVE  i = 2
      OBVIOUS
    <3>1. CASE i \notin 1 .. 2
      BY <1>k, <2>a, <3>1
    <3>2. CASE i \in 1 .. 2
      BY <1>5, <1>c, <1>j, <3>2
    <3> QED
      BY <3>1, <3>2
  <2>1. 2 \in 1 .. Len(q) /\ q[2].f = "route" /\ q[2].v = "off"
    BY <1>5, <1>j
  <2>2. OnOff' = "off"
    BY DEF OnOff
  <2> QED
    BY <2>b, <2>1, <2>2 DEF RouteDue
<1>17. ResetMends(q)'
  <2>1. \A i \in 1 .. Len(q) : q[i].f \notin {"reset", "init"}
    BY <1>5, <1>b, <1>c
  <2> QED
    BY <2>1 DEF ResetMends
<1> QED
  BY <1>11, <1>12, <1>13, <1>14, <1>15, <1>16, <1>17 DEF Completes

(* and the chip set up from its reset.                                     *)
LEMMA InitBegun ==
  ASSUME NEW s \in Seq(Fs), s # <<>>, Completes(s), UNCHANGED chipVars,
         UNCHANGED tiltVars, s[1].f = "init",
         NEW p \in Seq(Fs), Len(p) = 10,
         /\ s[1].f = "init"
         /\ p[1].f = "reset" /\ p[2].f = "id" /\ p[3].f = "sources" /\ p[4].f = "route"
         /\ p[5].f = "sens" /\ p[5].v = "on" /\ p[6].f = "latency" /\ p[7].f = "mask"
         /\ p[8].f = "route" /\ p[8].v = "on" /\ p[9].f = "wrist" /\ p[10].f = "tilt",
         NEW q, q = p \o Tail(s)
  PROVE  Completes(q)'
<1> DEFINE r == Tail(s)
           h == s[1]
<1>2. Rest(s, r)
  BY RestHas DEF CallNames
<1>3. h.f \in {"enable", "init"} => Len(r) > 0 /\ \A i \in 1 .. Len(r) : r[i].f \in {"tilt", "wrist"}
  BY RestHas DEF CallNames
<1>5. /\ s[1].f = "init"
         /\ p[1].f = "reset" /\ p[2].f = "id" /\ p[3].f = "sources" /\ p[4].f = "route"
         /\ p[5].f = "sens" /\ p[5].v = "on" /\ p[6].f = "latency" /\ p[7].f = "mask"
         /\ p[8].f = "route" /\ p[8].v = "on" /\ p[9].f = "wrist" /\ p[10].f = "tilt"
  OBVIOUS
<1>6. r \in Seq(Fs)
  BY <1>2 DEF Rest
<1>7. /\ MaskDue(s) /\ LatencyDue(s) /\ SensDue(s) /\ RouteDue(s) /\ ResetMends(s)
  BY DEF Completes
<1>8. UNCHANGED <<mask, latency, sens, route>>
  BY DEF chipVars
<1>a. q = p \o r /\ Len(p) = 10
  OBVIOUS
<1> HIDE DEF r, h
<1>9. /\ Len(r) \in Nat /\ Len(q) \in Nat
      /\ \A i \in 1 .. 10 : i \in 1 .. Len(q) /\ q[i] = p[i]
      /\ \A i \in 1 .. Len(q) : i \notin 1 .. 10 => \E k \in 1 .. Len(r) :
           /\ q[i] = r[k]
           /\ \A f : (\E j \in k + 1 .. Len(r) : r[j].f = f) => \E j \in i + 1 .. Len(q) : q[j].f = f
      /\ \A i, j \in 1 .. Len(q) : i < j /\ j \in 1 .. 10 => i \in 1 .. 10
      /\ \A f : (\E i \in 1 .. Len(r) : r[i].f = f) => \E i \in 1 .. Len(q) : q[i].f = f
      /\ Len(r) > 0 => Len(q) \in 1 .. Len(q) /\ q[Len(q)] = r[Len(r)] /\ q # <<>>
      /\ Len(r) = 0 => Len(q) = 10
  <2>1. Joined(q, p, r)
    BY <1>a, <1>6, Prefixed
  <2> QED
    BY <1>a, <2>1 DEF Joined
<1>i. Joined(q, p, r)
  BY <1>a, <1>6, Prefixed
<1>j. Len(r) \in Nat /\ Len(q) \in Nat /\ \A i \in 1 .. 10 : i \in 1 .. Len(q) /\ q[i] = p[i]
  BY <1>a, <1>i DEF Joined
<1>n. \A f : (\E i \in 1 .. Len(r) : r[i].f = f) => \E i \in 1 .. Len(q) : q[i].f = f
  BY <1>a, <1>i DEF Joined
<1>k. \A i \in 1 .. Len(q) : i \notin 1 .. 10 => \E k \in 1 .. Len(r) : q[i] = r[k]
  BY <1>a, <1>i DEF Joined
<1>l. \A i, j \in 1 .. Len(q) : i < j /\ j \in 1 .. 10 => i \in 1 .. 10
  BY <1>a, <1>i DEF Joined
<1>10. /\ \A i \in 1 .. Len(r) : r[i].f \notin {"mask", "latency", "reset", "enable", "init"}
       /\ Len(r) > 0 => r[Len(r)].f \in {"mask", "latency", "tilt", "wrist"}
       /\ \A f : (\E i \in 1 .. Len(s) : s[i].f = f) => h.f = f \/ \E i \in 1 .. Len(r) : r[i].f = f
  BY <1>2 DEF Rest, h
<1>b. \A i \in 1 .. Len(q) :
        (\/ i \in 1 .. 10 /\ q[i] = p[i]
         \/ i \notin 1 .. 10 /\ q[i].f \notin {"mask", "latency", "reset", "enable", "init"})
  <2> SUFFICES ASSUME NEW i \in 1 .. Len(q)
               PROVE  (\/ i \in 1 .. 10 /\ q[i] = p[i]
                       \/ i \notin 1 .. 10 /\ q[i].f \notin {"mask", "latency", "reset", "enable", "init"})
    OBVIOUS
  <2>1. CASE i \notin 1 .. 10
    <3>2. \E k \in 1 .. Len(r) : q[i] = r[k]
      BY <1>k, <2>1
    <3>1. PICK k \in 1 .. Len(r) : q[i] = r[k]
      BY <3>2
    <3> QED
      BY <1>10, <2>1, <3>1
  <2>2. CASE i \in 1 .. 10
    BY <1>9, <2>2
  <2> QED
    BY <2>1, <2>2
<1>c. \A i \in 1 .. 10 : i = 1 \/ i = 2 \/ i = 3 \/ i = 4 \/ i = 5 \/ i = 6 \/ i = 7 \/ i = 8 \/ i = 9 \/ i = 10
  OBVIOUS
<1>f. \A k \in 1 .. 10 :
        /\ p[k].f = "mask" => k = 7
        /\ p[k].f = "latency" => k = 6
        /\ p[k].f = "sens" => k = 5
        /\ p[k].f = "route" => k = 4 \/ k = 8
        /\ p[k].f = "reset" => k = 1
        /\ p[k].f \in CallNames => k = 9 \/ k = 10
        /\ p[k].f \notin {"enable", "init"}
  BY <1>5, <1>c DEF CallNames
<1>d. tiltEnable
  <2>1. 1 \in 1 .. Len(s)
    BY TailAt
  <2> QED
    BY <1>5, <1>7, <2>1 DEF ResetMends
<1>e. /\ 5 \in 1 .. Len(q) /\ q[5] = p[5] /\ 8 \in 1 .. Len(q) /\ q[8] = p[8]
      /\ 9 \in 1 .. Len(q) /\ q[9] = p[9] /\ 10 \in 1 .. Len(q) /\ q[10] = p[10]
  <2>1. 5 \in 1 .. 10 /\ 8 \in 1 .. 10 /\ 9 \in 1 .. 10 /\ 10 \in 1 .. 10
    OBVIOUS
  <2> QED
    BY <1>9, <2>1
<1>11. CallsLast(q)'
  <2> SUFFICES ASSUME NEW i \in 1 .. Len(q), NEW j \in 1 .. Len(q), i < j
               PROVE  /\ q[i].f \in CallNames => q[j].f \notin {"mask", "latency", "reset", "enable", "init"}
                      /\ q[i].f \in {"enable", "init"} => q[j].f \in {"tilt", "wrist"}
    BY DEF CallsLast
  <2>1. q[i].f \notin {"enable", "init"}
    BY <1>b, <1>f
  <2>2. CASE j \in 1 .. 10
    <3>1. i \in 1 .. 10
      BY <1>l, <2>2
    <3>2. q[i] = p[i] /\ q[j] = p[j]
      BY <1>j, <2>2, <3>1
    <3>3. ASSUME q[i].f \in CallNames
          PROVE  q[j].f = "tilt"
      <4>1. i = 9 \/ i = 10
        BY <1>f, <3>1, <3>2, <3>3
      <4>2. j = 10
        BY <2>2, <4>1
      <4> QED
        BY <1>5, <3>2, <4>2
    <3> QED
      BY <2>1, <3>3
  <2>3. CASE j \notin 1 .. 10
    BY <1>b, <2>1, <2>3
  <2> QED
    BY <2>2, <2>3
<1>12. Ends(q)'
  <2>1. CASE Len(r) = 0
    BY <1>3, <1>5, <2>1 DEF h
  <2>2. CASE Len(r) > 0
    BY <1>9, <1>10, <2>2 DEF Ends
  <2> QED
    BY <1>9, <2>1, <2>2
<1>13. MaskDue(q)'
  <2>1. 9 \in 1 .. Len(q) /\ q[9].f = "wrist"
    BY <1>5, <1>e
  <2>a. \A k \in 1 .. Len(r) : r[k].f \in {"tilt", "wrist"}
    BY <1>3, <1>5 DEF h
  <2>b. \A i \in 1 .. Len(q) : q[i].f = "mask" => i = 7
    <3> SUFFICES ASSUME NEW i \in 1 .. Len(q), q[i].f = "mask"
                 PROVE  i = 7
      OBVIOUS
    <3>1. CASE i \notin 1 .. 10
      BY <1>k, <2>a, <3>1
    <3>2. CASE i \in 1 .. 10
      BY <1>f, <1>j, <3>2
    <3> QED
      BY <3>1, <3>2
  <2>2. 9 \in 7 + 1 .. Len(q)
    BY <2>1
  <2> QED
    BY <2>b, <2>1, <2>2, SMTT(30) DEF MaskDue
<1>14. LatencyDue(q)'
  <2>1. 10 \in 1 .. Len(q) /\ q[10].f = "tilt"
    BY <1>5, <1>j, SMTT(30)
  <2>a. \A k \in 1 .. Len(r) : r[k].f \in {"tilt", "wrist"}
    BY <1>3, <1>5 DEF h
  <2>b. \A i \in 1 .. Len(q) : q[i].f = "latency" => i = 6
    <3> SUFFICES ASSUME NEW i \in 1 .. Len(q), q[i].f = "latency"
                 PROVE  i = 6
      OBVIOUS
    <3>1. CASE i \notin 1 .. 10
      BY <1>k, <2>a, <3>1
    <3>2. CASE i \in 1 .. 10
      BY <1>f, <1>j, <3>2
    <3> QED
      BY <3>1, <3>2
  <2>2. 10 \in 6 + 1 .. Len(q)
    BY <2>1
  <2> QED
    BY <2>b, <2>1, <2>2 DEF LatencyDue
<1>15. SensDue(q)'
  <2>1. 5 \in 1 .. Len(q) /\ q[5].f = "sens" /\ q[5].v = "on"
    BY <1>5, <1>j, SMTT(30)
  <2>a. \A k \in 1 .. Len(r) : r[k].f \in {"tilt", "wrist"}
    BY <1>3, <1>5 DEF h
  <2>b. \A i \in 1 .. Len(q) : q[i].f = "sens" => i = 5
    <3> SUFFICES ASSUME NEW i \in 1 .. Len(q), q[i].f = "sens"
                 PROVE  i = 5
      OBVIOUS
    <3>1. CASE i \notin 1 .. 10
      BY <1>k, <2>a, <3>1
    <3>2. CASE i \in 1 .. 10
      BY <1>f, <1>j, <3>2
    <3> QED
      BY <3>1, <3>2
  <2>2. OnOff' = "on"
    BY <1>d DEF OnOff, tiltVars
  <2> QED
    BY <2>b, <2>1, <2>2 DEF SensDue
<1>16. RouteDue(q)'
  <2>1. 8 \in 1 .. Len(q) /\ q[8].f = "route" /\ q[8].v = "on"
    BY <1>5, <1>j, SMTT(30)
  <2>a. \A k \in 1 .. Len(r) : r[k].f \in {"tilt", "wrist"}
    BY <1>3, <1>5 DEF h
  <2>b. \A i \in 1 .. Len(q) : q[i].f = "route" => (i = 4 \/ i = 8)
    <3> SUFFICES ASSUME NEW i \in 1 .. Len(q), q[i].f = "route"
                 PROVE  (i = 4 \/ i = 8)
      OBVIOUS
    <3>1. CASE i \notin 1 .. 10
      BY <1>k, <2>a, <3>1
    <3>2. CASE i \in 1 .. 10
      BY <1>f, <1>j, <3>2
    <3> QED
      BY <3>1, <3>2
  <2>2. OnOff' = "on"
    BY <1>d DEF OnOff, tiltVars
  <2>3. 8 \in 4 + 1 .. Len(q)
    BY <2>1
  <2> QED
    BY <2>b, <2>1, <2>2, <2>3 DEF RouteDue
<1>17. ResetMends(q)'
  <2>1. /\ 9 \in 1 + 1 .. Len(q) /\ q[9].f = "wrist" /\ 10 \in 1 + 1 .. Len(q) /\ q[10].f = "tilt"
        /\ 5 \in 1 + 1 .. Len(q) /\ q[5].f = "sens" /\ 8 \in 1 + 1 .. Len(q) /\ q[8].f = "route"
    <3>1. Len(q) \in Nat /\ Len(q) >= 10
      BY <1>e, <1>9
    <3>2. 9 \in 1 + 1 .. Len(q) /\ 10 \in 1 + 1 .. Len(q) /\ 5 \in 1 + 1 .. Len(q) /\ 8 \in 1 + 1 .. Len(q)
      BY <3>1, SMTT(30)
    <3>3. q[9].f = "wrist" /\ q[10].f = "tilt" /\ q[5].f = "sens" /\ q[8].f = "route"
      BY <1>5, <1>e
    <3> QED
      BY <3>2, <3>3
  <2>a. \A k \in 1 .. Len(r) : r[k].f \in {"tilt", "wrist"}
    BY <1>3, <1>5 DEF h
  <2>b. \A i \in 1 .. Len(q) : q[i].f = "reset" => i = 1
    <3> SUFFICES ASSUME NEW i \in 1 .. Len(q), q[i].f = "reset"
                 PROVE  i = 1
      OBVIOUS
    <3>1. CASE i \notin 1 .. 10
      BY <1>k, <2>a, <3>1
    <3>2. CASE i \in 1 .. 10
      BY <1>f, <1>j, <3>2
    <3> QED
      BY <3>1, <3>2
  <2>2. tiltEnable'
    BY <1>d DEF tiltVars
  <2>3. \A i \in 1 .. Len(q) : q[i].f = "reset" => \E j \in i + 1 .. Len(q) : q[j].f = "wrist"
    BY <2>b, <2>1
  <2>4. \A i \in 1 .. Len(q) : q[i].f = "reset" => \E j \in i + 1 .. Len(q) : q[j].f = "tilt"
    BY <2>b, <2>1
  <2>5. \A i \in 1 .. Len(q) : q[i].f = "reset" => \E j \in i + 1 .. Len(q) : q[j].f = "sens"
    BY <2>b, <2>1
  <2>6. \A i \in 1 .. Len(q) : q[i].f = "reset" => \E j \in i + 1 .. Len(q) : q[j].f = "route"
    BY <2>b, <2>1
  <2>7. ASSUME NEW i \in 1 .. Len(q), q[i].f = "reset", NEW f \in {"wrist", "tilt", "sens", "route"}
        PROVE  \E j \in i + 1 .. Len(q) : q[j].f = f
    <3>1. CASE f = "wrist"
      BY <2>3, <2>7, <3>1
    <3>2. CASE f = "tilt"
      BY <2>4, <2>7, <3>2
    <3>3. CASE f = "sens"
      BY <2>5, <2>7, <3>3
    <3>4. CASE f = "route"
      BY <2>6, <2>7, <3>4
    <3> QED
      BY <3>1, <3>2, <3>3, <3>4
  <2> QED
    BY <2>2, <2>7 DEF ResetMends
<1> QED
  BY <1>11, <1>12, <1>13, <1>14, <1>15, <1>16, <1>17 DEF Completes

-----------------------------------------------------------------------------
(* A transaction moves its thread's plan on, or leaves it.                 *)
Moves(s, r) == s # <<>> /\ r = Tail(s) /\ Applies(Head(s))
(* or it only goes on within its function.                                 *)
Stays(s, r) == r = s /\ UNCHANGED <<mask, latency, sens, route>>

(* That is what a transaction does.                                        *)
LEMMA TransactTodo ==
  ASSUME ImuTypes, BankReturns, BankKept, NEW t \in ImuThreads, Transact(t), ~collided', faults' = 0
  PROVE  Moves(Todo(t), Todo(t)') \/ Stays(Todo(t), Todo(t)')
<1>1. PICK ok, op, tail, rest : ok \in BOOLEAN /\ Kind(t, op, tail, rest) /\ Outcome(t, op, tail, rest, ok)
  BY TransactHas
<1>2. ok
  BY <1>1, ArrivesThere DEF Outcome, ImuTypes
<1>3. Written(op) /\ ops'[t] = tail
  BY <1>1, <1>2 DEF Outcome, ImuTypes
<1>4. (op.do = "id" => Arrives(op)) => plan'[t] = rest
  BY <1>1, <1>2 DEF Outcome, ImuTypes
<1>5. /\ ToB.do = "bank" /\ ToB.v = "B" /\ ToUser.do = "bank" /\ ToUser.v = "user"
      /\ ToSources.do = "sources" /\ ToRead.do = "readMask"
  BY DEF ToB, ToUser, ToSources, ToRead, Op
<1>6. bank = "B" <=> InBracket(t)
  BY ArrivesThere
<1>7. bank \in {"user", "B"}
  BY DEF ImuTypes, ImuTypeOK
<1>8. CASE BeginsBank(t, op, tail, rest)
  <2> DEFINE h == Head(plan[t])
             o == Op(h.f, h.v)
  <2>1. h \in Fs /\ plan[t] \in Seq(Fs) /\ plan[t] # <<>>
    BY <1>8, PlanTypes, TailAt DEF BeginsBank
  <2>2. o.do = h.f /\ o.v = h.v /\ h = F(h.f, h.v) /\ h.f \in {"mask", "latency"}
    BY <1>8, <2>1, Fields DEF BeginsBank
  <2>3. ops[t] = <<>> /\ ops'[t] = <<o, ToUser>> /\ plan'[t] = Tail(plan[t])
    BY <1>3, <1>4, <1>5, <1>8 DEF BeginsBank
  <2> HIDE DEF o, h
  <2>4. Todo(t) = plan[t]
    BY <2>3 DEF Todo
  <2>5. Head(ops'[t]) = o /\ ops'[t] # <<>>
    BY <2>3, Tuples
  <2>6. Todo(t)' = <<h>> \o plan'[t]
    BY <2>2, <2>5 DEF Todo
  <2>7. <<h>> \o Tail(plan[t]) = plan[t]
    BY <2>1 DEF h
  <2>8. UNCHANGED <<mask, latency, sens, route>>
    BY <1>3, <1>5, <1>8 DEF BeginsBank, Written
  <2> QED
    BY <2>3, <2>4, <2>6, <2>7, <2>8 DEF Stays
<1>9. CASE BeginsSources(t, op, tail, rest)
  <2>1. ops[t] = <<>> /\ ops'[t] = <<ToB, ToRead, ToUser>> /\ plan'[t] = Tail(plan[t]) /\ plan[t] # <<>>
    BY <1>3, <1>4, <1>5, <1>9 DEF BeginsSources
  <2>2. Todo(t) = plan[t]
    BY <2>1 DEF Todo
  <2>3. Head(ops'[t]) = ToB
    BY <2>1, Tuples
  <2>4. Todo(t)' = plan'[t]
    BY <1>5, <2>3 DEF Todo
  <2>5. Applies(Head(plan[t]))
    BY <1>3, <1>5, <1>9 DEF BeginsSources, Written, Applies, CallNames
  <2> QED
    BY <2>1, <2>2, <2>4, <2>5 DEF Moves
<1>10. CASE InOne(t, op, tail, rest)
  <2> DEFINE h == Head(plan[t])
  <2>1. op.do = h.f /\ op.v = h.v /\ h.f \in {"sens", "route", "reset", "id"} /\ ops[t] = <<>> /\ plan[t] # <<>>
    BY <1>10, Fields DEF InOne
  <2> HIDE DEF h
  <2>2. ~InBracket(t)
    BY <2>1, Brackets, InBrackets
  <2>3. Arrives(op)
    BY <1>6, <1>7, <2>1, <2>2 DEF Arrives, InUserBank
  <2>4. plan'[t] = Tail(plan[t]) /\ ops'[t] = <<>>
    BY <1>3, <1>4, <1>10, <2>3 DEF InOne
  <2>5. Todo(t) = plan[t] /\ Todo(t)' = plan'[t]
    BY <2>1, <2>4 DEF Todo
  <2>6. Applies(h)
    BY <1>3, <2>1, <2>3 DEF Written, Applies, CallNames
  <2> QED
    BY <2>1, <2>4, <2>5, <2>6 DEF Moves, h
<1>11. CASE EndsBank(t, op, tail, rest)
  <2>1. ops[t] = <<ToUser>> /\ ops'[t] = <<>> /\ plan'[t] = plan[t]
    BY <1>3, <1>4, <1>5, <1>11 DEF EndsBank
  <2>2. Head(ops[t]) = ToUser
    BY <2>1, Tuples
  <2>3. Todo(t) = plan[t] /\ Todo(t)' = plan'[t]
    BY <1>5, <2>1, <2>2 DEF Todo
  <2>4. UNCHANGED <<mask, latency, sens, route>>
    BY <1>3, <1>5, <1>11 DEF EndsBank, Written
  <2> QED
    BY <2>1, <2>3, <2>4 DEF Stays
<1>12. CASE ToReadMask(t, op, tail, rest)
  <2>1. ops[t] = <<ToB, ToRead, ToUser>> /\ ops'[t] = <<ToRead, ToUser>> /\ plan'[t] = plan[t]
    BY <1>3, <1>4, <1>5, <1>12 DEF ToReadMask
  <2>2. Head(ops[t]) = ToB /\ Head(ops'[t]) = ToRead
    BY <2>1, Tuples
  <2>3. Todo(t) = plan[t] /\ Todo(t)' = plan'[t]
    BY <1>5, <2>2 DEF Todo
  <2>4. UNCHANGED <<mask, latency, sens, route>>
    BY <1>3, <1>5, <1>12 DEF ToReadMask, Written
  <2> QED
    BY <2>1, <2>3, <2>4 DEF Stays
<1>13. CASE WithinBank(t, op, tail, rest)
  <2>1. op \in BankOps /\ ops[t] = <<op, ToUser>> /\ ops'[t] = <<ToUser>>
    BY <1>3, <1>13 DEF WithinBank
  <2>2. op.do \in {"mask", "latency", "readMask"} /\ ~InUserBank(op) /\ (op.do \in {"mask", "latency"} => F(op.do, op.v) \in Fs)
    BY <2>1, BankFunctions
  <2>3. bank = "B"
    BY <1>6, <2>1, Brackets, InBrackets
  <2>4. Arrives(op)
    BY <2>2, <2>3 DEF Arrives
  <2>5. plan'[t] = plan[t]
    BY <1>4, <1>13, <2>2 DEF WithinBank
  <2>6. Head(ops[t]) = op /\ ops[t] # <<>> /\ Head(ops'[t]) = ToUser
    BY <2>1, Tuples
  <2>7. Todo(t)' = plan[t]
    BY <1>5, <2>5, <2>6 DEF Todo
  <2>8. CASE op.do = "readMask"
    <3>1. Todo(t) = plan[t]
      BY <2>6, <2>8 DEF Todo
    <3>2. UNCHANGED <<mask, latency, sens, route>>
      BY <1>3, <2>8 DEF Written
    <3> QED
      BY <2>7, <3>1, <3>2 DEF Stays
  <2>9. CASE op.do \in {"mask", "latency"}
    <3> DEFINE f == F(op.do, op.v)
    <3>1. f \in Fs /\ f.f = op.do /\ f.v = op.v
      BY <2>2, <2>9, Fields
    <3>2. Todo(t) = <<f>> \o plan[t]
      BY <2>6, <2>9 DEF Todo
    <3> HIDE DEF f
    <3>3. plan[t] \in Seq(Fs)
      BY PlanTypes
    <3>4. Head(Todo(t)) = f /\ Tail(Todo(t)) = plan[t] /\ Todo(t) # <<>>
      BY <3>1, <3>2, <3>3, JoinOne
    <3>5. Applies(f)
      BY <1>3, <2>4, <2>9, <3>1 DEF Written, Applies, CallNames
    <3> QED
      BY <2>7, <3>4, <3>5 DEF Moves
  <2> QED
    BY <2>2, <2>8, <2>9
<1> QED
  BY <1>1, <1>8, <1>9, <1>10, <1>11, <1>12, <1>13 DEF Kind

(* What is to do is functions and calls.                                   *)
LEMMA TodoTypes ==
  ASSUME ImuTypes, NEW t \in ImuThreads
  PROVE  Todo(t) \in Seq(Fs)
<1>1. plan[t] \in Seq(Fs) /\ OpsShape(ops[t])
  BY PlanTypes
<1>2. CASE ops[t] # <<>> /\ Head(ops[t]).do \in {"mask", "latency"}
  <2>1. ops[t] # <<ToUser>> /\ ops[t] # <<ToB, ToRead, ToUser>>
    <3>1. ToB.do = "bank" /\ ToUser.do = "bank"
      BY DEF ToB, ToUser, Op
    <3> QED
      BY <1>2, <3>1, Tuples
  <2>2. PICK o \in BankOps : ops[t] = <<o, ToUser>>
    BY <1>1, <1>2, <2>1 DEF OpsShape
  <2>3. Head(ops[t]) = o
    BY <2>2, Tuples
  <2>4. F(o.do, o.v) \in Fs
    BY <1>2, <2>3, BankFunctions
  <2>5. Todo(t) = <<F(o.do, o.v)>> \o plan[t]
    BY <1>2, <2>3 DEF Todo
  <2> QED
    BY <1>1, <2>4, <2>5, JoinOne
<1>3. CASE ~(ops[t] # <<>> /\ Head(ops[t]).do \in {"mask", "latency"})
  BY <1>1, <1>3 DEF Todo
<1> QED
  BY <1>2, <1>3

(* A thread that is not writing has no function that writes to come,       *)
LEMMA NotWritingPlan ==
  ASSUME ImuTypes, NEW t \in ImuThreads, ~Writing(t)
  PROVE  /\ Todo(t) = plan[t] /\ plan[t] \in Seq(Fs)
         /\ \A i \in 1 .. Len(plan[t]) : plan[t][i].f \notin {"mask", "latency", "tilt", "wrist"}
<1>1. plan[t] \in Seq(Fs)
  BY PlanTypes
<1>2. \A i \in 1 .. Len(plan[t]) : plan[t][i] \in ToSet(plan[t])
  BY <1>1 DEF ToSet
<1>3. \A i \in 1 .. Len(plan[t]) : plan[t][i].f \notin {"mask", "latency", "tilt", "wrist"}
  BY <1>2 DEF Writing
<1>4. Todo(t) = plan[t]
  <2>1. CASE ops[t] = <<>>
    BY <2>1 DEF Todo
  <2>2. CASE ops[t] # <<>>
    <3>1. Head(ops[t]) \in ToSet(ops[t])
      <4>1. ToUser \in ToSet(<<ToUser>>) /\ ToB \in ToSet(<<ToB, ToRead, ToUser>>)
        BY TupleSets
      <4>2. \A o : o \in ToSet(<<o, ToUser>>)
        BY TupleSets
      <4>3. CASE ops[t] = <<ToUser>>
        BY <4>1, <4>3, Tuples
      <4>4. CASE ops[t] = <<ToB, ToRead, ToUser>>
        <5>1. Head(ops[t]) = ToB
          BY <4>4, Tuples
        <5> QED
          BY <4>1, <4>4, <5>1
      <4>5. ASSUME NEW o \in BankOps, ops[t] = <<o, ToUser>>
            PROVE  Head(ops[t]) \in ToSet(ops[t])
        <5>1. Head(ops[t]) = o
          BY <4>5, Tuples
        <5> QED
          BY <4>2, <4>5, <5>1
      <4> QED
        BY <2>2, <4>3, <4>4, <4>5, PlanTypes DEF OpsShape
    <3>2. Head(ops[t]).do \notin {"mask", "latency"}
      BY <3>1 DEF Writing
    <3> QED
      BY <3>2 DEF Todo
  <2> QED
    BY <2>1, <2>2
<1> QED
  BY <1>1, <1>3, <1>4

(* Not writing, a thread leaves the chip as it is wanted. *)
LEMMA NotWriting ==
  ASSUME ImuTypes, NEW t \in ImuThreads, ~Writing(t), Completes(Todo(t))
  PROVE  Agree /\ (Todo(t) = <<>> \/ Todo(t) = <<SourcesFirst>>)
<1>1. plan[t] \in Seq(Fs) /\ Todo(t) = plan[t]
  BY NotWritingPlan
<1>3. \A i \in 1 .. Len(plan[t]) : plan[t][i].f \notin {"mask", "latency", "tilt", "wrist"}
  BY NotWritingPlan
<1>4. Todo(t) = plan[t]
  BY NotWritingPlan
<1> DEFINE s == plan[t]
<1>5. Ends(s) /\ MaskDue(s) /\ LatencyDue(s) /\ SensDue(s) /\ RouteDue(s)
  BY <1>4 DEF Completes
<1> HIDE DEF s
<1>6. s \in Seq(Fs) /\ \A i \in 1 .. Len(s) : s[i].f \notin {"mask", "latency", "tilt", "wrist"}
  BY <1>1, <1>3 DEF s
<1>7. s = <<>> \/ s = <<SourcesFirst>>
  <2>1. s # <<>> => Len(s) \in 1 .. Len(s)
    BY <1>6
  <2> QED
    BY <1>5, <1>6, <2>1 DEF Ends
<1>8. \A i \in 1 .. Len(s) : s[i].f \notin {"sens", "route"}
  <2>1. CASE s = <<>>
    BY <2>1
  <2>2. CASE s = <<SourcesFirst>>
    BY <2>2, SourcesIs
  <2> QED
    BY <1>7, <2>1, <2>2
<1>9. Agree
  BY <1>5, <1>6, <1>8 DEF Agree, MaskDue, LatencyDue, SensDue, RouteDue
<1> QED
  BY <1>4, <1>7, <1>9 DEF s

(* Nor does one that has only calls to come. *)
LEMMA NotBegun ==
  ASSUME ImuTypes, NEW t \in ImuThreads, ~Writing(t), Unbegun(t, Todo(t))
  PROVE  Todo(t) = <<>> \/ Todo(t) = <<SourcesFirst>>
<1> DEFINE s == Todo(t)
<1>1. s \in Seq(Fs) /\ \A i \in 1 .. Len(s) : s[i].f \notin {"mask", "latency", "tilt", "wrist"}
  BY NotWritingPlan
<1>2. Unbegun(t, s)
  OBVIOUS
<1> HIDE DEF s
<1>3. ASSUME NEW a, a.f = "tilt", s = <<a>>
      PROVE  FALSE
  <2>1. s[1] = a /\ 1 \in 1 .. Len(s)
    BY <1>3
  <2> QED
    BY <1>1, <1>3, <2>1
<1>4. ASSUME NEW a, NEW b, b.f \in {"tilt", "wrist"}, s = <<a, b>>
      PROVE  FALSE
  <2>1. s[2] = b /\ 2 \in 1 .. Len(s)
    BY <1>4
  <2> QED
    BY <1>1, <1>4, <2>1
<1>5. \A v : F("tilt", v).f = "tilt" /\ F("wrist", v).f = "wrist"
  BY DEF F
<1>6. s # <<F("tilt", "lifted")>> /\ s # <<F("tilt", "lowered")>>
  BY <1>3, <1>5
<1>7. \A e, p : s # <<F("enable", e), F("wrist", p)>>
  BY <1>4, <1>5
<1>8. \A a, d : s # <<a, F("tilt", d)>>
  BY <1>4, <1>5
<1> QED
  BY <1>2, <1>6, <1>7, <1>8, Zenon DEF Unbegun, s

(* Where neither chip nor object changes, what completed it still does,    *)
LEMMA SameCompletes ==
  ASSUME NEW s, Completes(s), UNCHANGED <<mask, latency, sens, route>>, UNCHANGED tiltVars
  PROVE  Completes(s)'
<1>1. UNCHANGED <<mask, latency, sens, route, tiltEnable, tiltDirection, position>>
  BY DEF tiltVars
<1> QED
  BY <1>1 DEF Completes, CallsLast, Ends, MaskDue, LatencyDue, SensDue, RouteDue, ResetMends, Wanted, OnOff

(* and what had not begun has not.                                         *)
LEMMA SameUnbegun ==
  ASSUME NEW t, NEW s, Unbegun(t, s), UNCHANGED tiltVars
  PROVE  Unbegun(t, s)'
  BY DEF Unbegun, tiltVars

(* Each of the two threads has the other.                                  *)
LEMMA Others ==
  \A t \in ImuThreads : Other(t) \in ImuThreads /\ Other(t) # t /\ Other(Other(t)) = t
                        /\ \A u \in ImuThreads : u = t \/ u = Other(t)
  BY DEF Other, ImuThreads

(* A thread whose plan is left alone has the same to do.                   *)
LEMMA SameTodo ==
  ASSUME NEW u, plan'[u] = plan[u], ops'[u] = ops[u]
  PROVE  Todo(u)' = Todo(u)
  BY DEF Todo

(* So whatever call begins, what is left completes the chip.               *)
LEMMA BegunCompletes ==
  ASSUME ImuTypes, NEW t \in ImuThreads, BeginsCall(t), NEW s, s = plan[t], Completes(s),
         NEW q, q = plan'[t]
  PROVE  Completes(q)'
<1> DEFINE h == Head(s)
<1>1. /\ h.f \in CallNames /\ s # <<>> /\ s \in Seq(Fs) /\ h = s[1] /\ h \in Fs
      /\ plan' = [plan EXCEPT ![t] = CallPlan(h) \o Tail(s)]
      /\ tiltEnable' = IF h.f = "enable" THEN h.v = "on" ELSE tiltEnable
      /\ tiltDirection' = IF h.f = "tilt" /\ tiltEnable THEN h.v ELSE tiltDirection
      /\ position' = IF h.f = "wrist" THEN h.v ELSE position
      /\ UNCHANGED chipVars
  BY BeginsDoes, PlanTypes, TailAt
<1>2. q = CallPlan(h) \o Tail(s)
  BY <1>1 DEF ImuTypes
<1>3. CallPlan(h) \in Seq(Fs)
  BY <1>1, CallPlanTypes
<1> HIDE DEF h
<1>4. CASE h.f = "tilt" /\ tiltEnable
  <2> DEFINE a == F("mask", Axis(h.v, position))
             b == F("latency", Latency(h.v))
  <2>1. a.f = "mask" /\ b.f = "latency" /\ a.v = Axis(h.v, position) /\ b.v = Latency(h.v)
    BY Fields
  <2>2. CallPlan(h) = <<a, b>>
    BY <1>4 DEF CallPlan
  <2>3. h.v \in {"lifted", "lowered"}
    BY <1>1, <1>4 DEF Fs
  <2> HIDE DEF a, b
  <2>4. Len(<<a, b>>) = 2 /\ <<a, b>>[1] = a /\ <<a, b>>[2] = b
    OBVIOUS
  <2> QED
    BY <1>1, <1>2, <1>3, <1>4, <2>1, <2>2, <2>3, <2>4, TiltBegun
<1>5. CASE h.f = "wrist"
  <2> DEFINE a == F("mask", Axis(tiltDirection, h.v))
  <2>1. a.f = "mask" /\ a.v = Axis(tiltDirection, h.v)
    BY Fields
  <2>2. CallPlan(h) = <<a>>
    BY <1>5 DEF CallPlan
  <2>3. h.v \in {"faceUp", "faceDown"}
    BY <1>1, <1>5 DEF Fs
  <2> HIDE DEF a
  <2>4. Len(<<a>>) = 1 /\ <<a>>[1] = a
    OBVIOUS
  <2> QED
    BY <1>1, <1>2, <1>3, <1>5, <2>1, <2>2, <2>3, <2>4, WristBegun
<1>6. CASE (h.f = "tilt" /\ ~tiltEnable) \/ (h.f = "enable" /\ tiltEnable = (h.v = "on"))
  <2>1. CallPlan(h) = <<>>
    BY <1>6, Zenon DEF CallPlan
  <2>2. UNCHANGED tiltVars
    BY <1>1, <1>6 DEF tiltVars
  <2>3. h.f \in {"tilt", "enable"} /\ (h.f = "tilt" => ~tiltEnable)
    BY <1>6
  <2>4. Len(<<>>) = 0
    OBVIOUS
  <2> QED
    BY <1>1, <1>2, <1>3, <2>1, <2>2, <2>3, <2>4, DropBegun
<1>7. CASE h.f = "enable" /\ tiltEnable # (h.v = "on") /\ h.v = "on"
  <2> DEFINE a == F("tilt", tiltDirection)
             b == F("sens", "on")
             c == F("route", "on")
             d == F("sources", "")
  <2>1. a.f = "tilt" /\ b.f = "sens" /\ b.v = "on" /\ c.f = "route" /\ c.v = "on" /\ d.f = "sources"
    BY DEF F
  <2>2. CallPlan(h) = <<a, b, c, d>>
    BY <1>7, Zenon DEF CallPlan
  <2>3. ~tiltEnable /\ tiltEnable' = TRUE /\ UNCHANGED <<tiltDirection, position>>
    BY <1>1, <1>7 DEF ImuTypes
  <2> HIDE DEF a, b, c, d
  <2> DEFINE p == <<a, b, c, d>>
  <2>4. Len(p) = 4 /\ p[1] = a /\ p[2] = b /\ p[3] = c /\ p[4] = d
    OBVIOUS
  <2>5. p \in Seq(Fs) /\ q = p \o Tail(s)
    BY <1>2, <1>3, <2>2
  <2> HIDE DEF p
  <2>6. /\ p[1].f = "tilt" /\ p[2].f = "sens" /\ p[2].v = "on"
        /\ p[3].f = "route" /\ p[3].v = "on" /\ p[4].f = "sources"
    BY <2>1, <2>4
  <2>7. s[1].f = "enable" /\ UNCHANGED chipVars
    BY <1>1, <1>7
  <2> QED
    BY <1>1, <2>3, <2>4, <2>5, <2>6, <2>7, OnBegun
<1>8. CASE h.f = "enable" /\ tiltEnable # (h.v = "on") /\ h.v # "on"
  <2> DEFINE a == F("sens", "off")
             b == F("route", "off")
  <2>1. a.f = "sens" /\ a.v = "off" /\ b.f = "route" /\ b.v = "off"
    BY DEF F
  <2>2. CallPlan(h) = <<a, b>>
    BY <1>8, Zenon DEF CallPlan
  <2>3. tiltEnable' = FALSE /\ UNCHANGED <<tiltDirection, position>>
    BY <1>1, <1>8
  <2> HIDE DEF a, b
  <2>4. Len(<<a, b>>) = 2 /\ <<a, b>>[1] = a /\ <<a, b>>[2] = b
    OBVIOUS
  <2> QED
    BY <1>1, <1>2, <1>3, <1>8, <2>1, <2>2, <2>3, <2>4, OffBegun
<1>9. CASE h.f = "init"
  <2>1. CallPlan(h) = InitPlan
    BY <1>9 DEF CallPlan
  <2>2. UNCHANGED tiltVars
    BY <1>1, <1>9 DEF tiltVars
  <2>3. /\ Len(InitPlan) = 10
        /\ InitPlan[1].f = "reset" /\ InitPlan[2].f = "id" /\ InitPlan[3].f = "sources" /\ InitPlan[4].f = "route"
        /\ InitPlan[5].f = "sens" /\ InitPlan[5].v = "on" /\ InitPlan[6].f = "latency" /\ InitPlan[7].f = "mask"
        /\ InitPlan[8].f = "route" /\ InitPlan[8].v = "on" /\ InitPlan[9].f = "wrist" /\ InitPlan[10].f = "tilt"
    BY DEF InitPlan, F
  <2>4. s[1].f = "init"
    BY <1>1, <1>9
  <2> QED
    BY <1>1, <1>2, <1>3, <2>1, <2>2, <2>3, <2>4, InitBegun
<1>10. h.f = "tilt" \/ h.f = "wrist" \/ h.f = "enable" \/ h.f = "init"
  BY <1>1 DEF CallNames
<1> QED
  BY <1>4, <1>5, <1>6, <1>7, <1>8, <1>9, <1>10

(* What the plan of the chip says,                                         *)
LEMMA ChipGives ==
  ASSUME ChipPlan, Clean
  PROVE  \E t \in ImuThreads, s \in Seq(Fs), r \in Seq(Fs) :
           s = Todo(t) /\ r = Todo(Other(t)) /\ Completes(s) /\ Unbegun(Other(t), r)
  BY DEF ChipPlan

(* it says after a transaction,                                            *)
LEMMA ChipTransact ==
  ASSUME ImuTypes, BankReturns, BankKept, ChipPlan, NEW w \in ImuThreads, Transact(w)
  PROVE  ChipPlan'
<1> SUFFICES ASSUME ~collided', faults' = 0
             PROVE  ChipPlan'
  BY DEF ChipPlan, Clean
<1>1. Clean
  BY ArrivesThere DEF Clean
<1>2. PICK t \in ImuThreads, s \in Seq(Fs), r \in Seq(Fs) :
        s = Todo(t) /\ r = Todo(Other(t)) /\ Completes(s) /\ Unbegun(Other(t), r)
  BY <1>1, ChipGives
<1>3. UNCHANGED tiltVars
  BY DEF Transact
<1>4. \A u \in ImuThreads \ {w} : Todo(u)' = Todo(u)
  BY OthersSame, SameTodo
<1>5. CASE w = t
  <2>1. r = Todo(Other(t))' /\ Unbegun(Other(t), r)'
    <3>1. Todo(Other(t))' = Todo(Other(t))
      BY <1>4, <1>5, Others
    <3> QED
      BY <1>2, <1>3, <3>1, SameUnbegun
  <2>2. CASE Stays(s, Todo(t)')
    <3>1. s = Todo(t)' /\ Completes(s)'
      BY <1>2, <1>3, <2>2, SameCompletes DEF Stays
    <3> QED
      BY <2>1, <3>1 DEF ChipPlan
  <2>3. CASE Moves(s, Todo(t)')
    <3> DEFINE q == Tail(s)
    <3>1. q = Todo(t)' /\ q \in Seq(Fs)
      BY <2>3, TailAt DEF Moves
    <3>2. Completes(q)'
      BY <1>2, <1>3, <2>3, OneDone DEF Moves
    <3> HIDE DEF q
    <3> QED
      BY <2>1, <3>1, <3>2 DEF ChipPlan
  <2> QED
    BY <1>2, <1>5, <2>2, <2>3, TransactTodo
<1>6. CASE w = Other(t)
  <2>1. s = Todo(t)'
    BY <1>2, <1>4, <1>6, Others
  <2>2. CASE Stays(r, Todo(w)')
    <3>1. r = Todo(Other(t))' /\ Unbegun(Other(t), r)' /\ Completes(s)'
      BY <1>2, <1>3, <1>6, <2>2, SameCompletes, SameUnbegun DEF Stays
    <3> QED
      BY <2>1, <3>1 DEF ChipPlan
  <2>3. CASE Moves(r, Todo(w)')
    <3>1. r # <<>> /\ Head(r).f \notin CallNames
      BY <2>3 DEF Moves, Applies
    <3>2. r = <<SourcesFirst>>
      <4>1. \A v : /\ F("tilt", v).f \in CallNames /\ F("enable", v).f \in CallNames /\ F("init", v).f \in CallNames
        BY DEF F, CallNames
      <4>2. \A a : a.f \in CallNames => r # <<a>> /\ \A b : r # <<a, b>>
        BY <3>1, Tuples
      <4>3. \A v : r # <<F("tilt", v)>> /\ \A b : r # <<F("enable", v), b>> /\ r # <<F("init", v), b>>
        BY <4>1, <4>2
      <4> QED
        BY <1>2, <3>1, <4>3, Zenon DEF Unbegun
    <3>3. Head(r) = SourcesFirst /\ Tail(r) = <<>>
      BY <3>2, Tuples
    <3>4. UNCHANGED <<mask, latency, sens, route>>
      BY <2>3, <3>3, SourcesIs DEF Moves, Applies
    <3>5. Completes(s)'
      BY <1>2, <1>3, <3>4, SameCompletes
    <3> DEFINE e == <<>>
    <3>6. e = Todo(Other(t))' /\ e \in Seq(Fs)
      BY <1>6, <2>3, <3>3 DEF Moves
    <3>7. Unbegun(Other(t), e)'
      BY DEF Unbegun
    <3> HIDE DEF e
    <3> QED
      BY <2>1, <3>5, <3>6, <3>7 DEF ChipPlan
  <2> QED
    BY <1>2, <1>6, <2>2, <2>3, TransactTodo
<1> QED
  BY <1>5, <1>6, Others

(* after a call has begun,                                                 *)
LEMMA ChipBegins ==
  ASSUME ImuTypes, ChipPlan, NEW w \in ImuThreads, BeginsCall(w)
  PROVE  ChipPlan'
<1> SUFFICES ASSUME ~collided', faults' = 0
             PROVE  ChipPlan'
  BY DEF ChipPlan, Clean
<1>1. collided' = (collided \/ \E u \in ImuThreads \ {w} : Writing(u)) /\ faults' = faults /\ ops' = ops /\ ops[w] = <<>>
  BY BeginsDoes
<1>2. Clean /\ ~Writing(Other(w))
  BY <1>1, Others DEF Clean
<1>3. PICK t \in ImuThreads, s \in Seq(Fs), r \in Seq(Fs) :
        s = Todo(t) /\ r = Todo(Other(t)) /\ Completes(s) /\ Unbegun(Other(t), r)
  BY <1>2, ChipGives
<1>4. Todo(Other(w))' = Todo(Other(w))
  <2>1. plan'[Other(w)] = plan[Other(w)]
    <3>1. \E p : plan' = [plan EXCEPT ![w] = p]
      BY BeginsDoes
    <3>2. Other(w) \in ImuThreads /\ Other(w) # w
      BY Others
    <3> QED
      BY <3>1, <3>2 DEF ImuTypes
  <2> QED
    BY <1>1, <2>1, SameTodo
<1>5. Todo(w) = plan[w] /\ Todo(w)' = plan'[w]
  BY <1>1 DEF Todo
<1>6. Completes(plan[w]) /\ (Todo(Other(w)) = <<>> \/ Todo(Other(w)) = <<SourcesFirst>>)
  <2>1. CASE w = t
    BY <1>2, <1>3, <1>5, <2>1, NotBegun, Others
  <2>2. CASE w = Other(t)
    <3>1. ~Writing(t)
      BY <1>2, <2>2, Others
    <3>2. Agree /\ (s = <<>> \/ s = <<SourcesFirst>>)
      BY <1>3, <3>1, NotWriting
    <3>3. Completes(r)
      BY <1>3, <3>2, AtRest
    <3> QED
      BY <1>3, <1>5, <2>2, <3>2, <3>3, Others
  <2> QED
    BY <2>1, <2>2, Others
<1>8. PICK p : p = plan[w]
  OBVIOUS
<1>9. \E k \in Seq(Fs) : k = plan'[w] /\ Completes(k)'
  <2>1. plan'[w] \in Seq(Fs)
    BY BeginsTypes DEF ImuTypes
  <2>2. PICK k \in Seq(Fs) : k = plan'[w]
    BY <2>1
  <2>3. Completes(p)
    BY <1>6, <1>8
  <2>4. Completes(k)'
    BY <1>8, <2>2, <2>3, BegunCompletes
  <2> QED
    BY <2>2, <2>4
<1>10. PICK k \in Seq(Fs) : k = plan'[w] /\ Completes(k)'
  BY <1>9
<1>11. PICK m \in Seq(Fs) : m = Todo(Other(w))
  BY TodoTypes, Others
<1>12. Unbegun(Other(w), m)'
  BY <1>6, <1>11 DEF Unbegun
<1>13. m = Todo(Other(w))' /\ k = Todo(w)'
  BY <1>4, <1>5, <1>10, <1>11
<1> QED
  BY <1>10, <1>12, <1>13 DEF ChipPlan

(* after a step that leaves the threads' plans alone,                      *)
LEMMA ChipSame ==
  ASSUME ChipPlan, UNCHANGED <<mask, latency, sens, route, plan, ops, faults, collided>>, UNCHANGED tiltVars
  PROVE  ChipPlan'
<1> SUFFICES ASSUME Clean
             PROVE  ChipPlan'
  BY DEF ChipPlan, Clean
<1>1. PICK t \in ImuThreads, s \in Seq(Fs), r \in Seq(Fs) :
        s = Todo(t) /\ r = Todo(Other(t)) /\ Completes(s) /\ Unbegun(Other(t), r)
  BY ChipGives
<1>2. \A u : Todo(u)' = Todo(u)
  BY SameTodo
<1>3. Completes(s)' /\ Unbegun(Other(t), r)'
  BY <1>1, SameCompletes, SameUnbegun
<1>4. s = Todo(t)' /\ r = Todo(Other(t))'
  BY <1>1, <1>2
<1> QED
  BY <1>3, <1>4 DEF ChipPlan

(* and after one that makes a plan.                                        *)
LEMMA ChipPlans ==
  ASSUME ImuTypes, ChipPlan, NEW w \in ImuThreads, Quiet(w), NEW p \in Seq(Fs), Plans(w, p), Unbegun(w, p),
         UNCHANGED <<mask, latency, sens, route, ops, faults, collided>>, UNCHANGED tiltVars
  PROVE  ChipPlan'
<1> SUFFICES ASSUME Clean
             PROVE  ChipPlan'
  BY DEF ChipPlan, Clean
<1>1. PICK t \in ImuThreads, s \in Seq(Fs), r \in Seq(Fs) :
        s = Todo(t) /\ r = Todo(Other(t)) /\ Completes(s) /\ Unbegun(Other(t), r)
  BY ChipGives
<1>2. Todo(w)' = p /\ Todo(w) = <<>>
  BY DEF Todo, Quiet, Plans, ImuTypes
<1>3. \A u \in ImuThreads \ {w} : Todo(u)' = Todo(u)
  <2>1. \A u \in ImuThreads \ {w} : plan'[u] = plan[u] /\ ops'[u] = ops[u]
    BY DEF Plans, ImuTypes
  <2> QED
    BY <2>1, SameTodo
<1>4. CASE w = t
  <2>1. ~Writing(w)
    BY TupleSets DEF Writing, Quiet
  <2>2. Agree
    BY <1>1, <1>4, <2>1, NotWriting
  <2>3. Completes(p)
    BY <2>2, AtRest
  <2>4. Completes(p)' /\ Unbegun(Other(t), r)'
    BY <1>1, <2>3, SameCompletes, SameUnbegun
  <2>5. r = Todo(Other(t))'
    BY <1>1, <1>3, <1>4, Others
  <2> QED
    BY <1>2, <1>4, <2>4, <2>5 DEF ChipPlan
<1>5. CASE w = Other(t)
  <2>1. Completes(s)' /\ Unbegun(Other(t), p)'
    BY <1>1, <1>5, SameCompletes, SameUnbegun
  <2>2. s = Todo(t)'
    BY <1>1, <1>3, <1>5, Others
  <2> QED
    BY <1>2, <1>5, <2>1, <2>2 DEF ChipPlan
<1> QED
  BY <1>4, <1>5, Others

-----------------------------------------------------------------------------
LEMMA ImuInitIInv ==
  ASSUME ImuInit
  PROVE  ImuIInv
<1>1. ImuTypes
  <2>1. latency = "short"
    BY DEF ImuInit, Latency
  <2>2. mask \in Masks
    BY Directions DEF ImuInit
  <2>3. src \in [tilt : Masks \cup {"none"}, real : BOOLEAN]
    BY DEF ImuInit
  <2>4. plan \in [ImuThreads -> Seq(Fs)] /\ DOMAIN ops = ImuThreads /\ \A t \in ImuThreads : OpsShape(ops[t])
    BY DEF ImuInit, OpsShape
  <2> QED
    BY <2>1, <2>2, <2>3, <2>4 DEF ImuInit, ImuTypes, ImuTypeOK
<1>2. BankReturns /\ NoGhosts /\ NeverDeaf /\ GhostPlan
  BY DEF ImuInit, BankReturns, NoGhosts, NeverDeaf, GhostPlan
<1>3. BankKept
  <2>1. \A t \in ImuThreads : ~InBracket(t)
    BY TupleSets DEF ImuInit, InBracket
  <2> QED
    BY <2>1 DEF BankKept
<1>4. ChipPlan
  <2>1. Agree
    BY DEF Agree, Wanted, OnOff, ImuInit
  <2>2. \A t \in ImuThreads : Todo(t) = <<>>
    BY DEF ImuInit, Todo
  <2> DEFINE e == <<>>
  <2>3. e \in Seq(Fs) /\ Completes(e) /\ Unbegun("lvgl", e)
    BY <2>1, RestNone DEF Unbegun
  <2>4. e = Todo("imu") /\ e = Todo("lvgl") /\ Other("imu") = "lvgl" /\ "imu" \in ImuThreads
    BY <2>2 DEF ImuThreads, Other
  <2> HIDE DEF e
  <2> QED
    BY <2>3, <2>4 DEF ChipPlan
<1> QED
  BY <1>1, <1>2, <1>3, <1>4 DEF ImuIInv

(* Every step keeps the whole.                                             *)
LEMMA ImuStepIInv ==
  ASSUME ImuIInv, ImuNext \/ UNCHANGED sensorVars
  PROVE  ImuIInv'
<1>1. ImuTypes /\ BankReturns /\ BankKept /\ ChipPlan /\ NoGhosts /\ GhostPlan /\ NeverDeaf
  BY DEF ImuIInv
<1>2. NoGhosts' /\ NeverDeaf'
  BY <1>1, NoGhostsKept, NeverDeafKept
<1>3. ASSUME NEW t \in ImuThreads, Transact(t)
      PROVE  ImuTypes' /\ BankReturns' /\ BankKept' /\ ChipPlan' /\ GhostPlan'
  BY <1>1, <1>3, TransactTypes, TransactBank, TransactGhost, ChipTransact
<1>4. ASSUME NEW t \in ImuThreads, BeginsCall(t)
      PROVE  ImuTypes' /\ BankReturns' /\ BankKept' /\ ChipPlan' /\ GhostPlan'
  BY <1>1, <1>4, BeginsTypes, RestBank, RestGhost, ChipBegins
<1>5. CASE LvglCalls
  <2>1. ImuTypes' /\ BankReturns' /\ BankKept' /\ GhostPlan'
    BY <1>1, <1>5, OthersTypes, RestBank, RestGhost
  <2>2. PICK p \in Seq(Fs) : Plans("lvgl", p) /\ Unbegun("lvgl", p)
    BY <1>5, LvglHas
  <2>3. Quiet("lvgl") /\ UNCHANGED <<chipVars, tiltVars, ops, faults, collided>>
    BY <1>5 DEF LvglCalls
  <2>4. ChipPlan'
    BY <1>1, <2>2, <2>3, ChipPlans DEF chipVars, ImuThreads
  <2> QED
    BY <1>2, <2>1, <2>4 DEF ImuIInv
<1>6. CASE Tilt
  <2>1. ImuTypes' /\ BankReturns' /\ BankKept' /\ GhostPlan'
    BY <1>1, <1>6, OthersTypes, RestBank, RestGhost
  <2>2. UNCHANGED <<mask, latency, sens, route, plan, ops, faults, collided>> /\ UNCHANGED tiltVars
    BY <1>6 DEF Tilt, busVars
  <2>3. ChipPlan'
    BY <1>1, <2>2, ChipSame
  <2> QED
    BY <1>2, <2>1, <2>3 DEF ImuIInv
<1>7. CASE Thread1Func
  <2>1. ImuTypes' /\ BankReturns' /\ BankKept' /\ GhostPlan'
    BY <1>1, <1>7, OthersTypes, RestBank, RestGhost
  <2>2. Quiet("imu") /\ UNCHANGED <<chipVars, tiltVars, ops, faults, collided>>
    BY <1>7 DEF Thread1Func
  <2>3. UNCHANGED <<mask, latency, sens, route>>
    BY <2>2 DEF chipVars
  <2>4. ChipPlan'
    BY <1>1, <1>7, <2>2, <2>3, ThreadHas, ChipPlans, ChipSame DEF ImuThreads
  <2> QED
    BY <1>2, <2>1, <2>4 DEF ImuIInv
<1>8. CASE UNCHANGED sensorVars
  <2>1. ImuTypes'
    BY <1>1, <1>8 DEF ImuTypes, ImuTypeOK, sensorVars, chipVars, intVars, tiltVars, busVars
  <2>2. BankReturns' /\ BankKept' /\ GhostPlan'
    BY <1>1, <1>8, RestBank, RestGhost
  <2>3. ChipPlan'
    BY <1>1, <1>8, ChipSame DEF sensorVars, busVars, chipVars
  <2> QED
    BY <1>2, <2>1, <2>2, <2>3 DEF ImuIInv
<1> QED
  BY <1>2, <1>3, <1>4, <1>5, <1>6, <1>7, <1>8 DEF ImuNext, ImuIInv

(* And it says what the run checks.                                        *)
LEMMA ImuInvFollows ==
  ASSUME ImuIInv
  PROVE  ImuInv
<1>1. ImuTypes /\ BankReturns /\ ChipPlan /\ NoGhosts /\ NeverDeaf
  BY DEF ImuIInv
<1>2. ASSUME AllQuiet, Clean
      PROVE  Agree
  <2>1. PICK t \in ImuThreads, s \in Seq(Fs), r \in Seq(Fs) :
          s = Todo(t) /\ r = Todo(Other(t)) /\ Completes(s) /\ Unbegun(Other(t), r)
    BY <1>1, <1>2, ChipGives
  <2>2. ~Writing(t)
    BY <1>2, TupleSets DEF Writing, Quiet, AllQuiet
  <2> QED
    BY <1>1, <2>1, <2>2, NotWriting
<1>3. ChipAgrees
  BY <1>2 DEF ChipAgrees, Clean, Agree, Wanted, OnOff
<1> QED
  BY <1>1, <1>3 DEF ImuInv, ImuTypes

-----------------------------------------------------------------------------
USE BootAssumption, SleepManAssumption

(* Boot: what the factory passed.                                          *)

(* A watch whose fuses were never torn has those it was shipped with or    *)
(* all of this product's; one that passed has the latter, and a version    *)
(* check that works.                                                       *)
Fused ==
  /\ ~torn => <<pid, rev>> \in Shipped
  /\ passed => "version" \notin broken /\ (~torn => pid = PID /\ rev = HWRevision)

(* Where each stage stands in its list: the tests behind it were passed,   *)
(* the services behind it are there.                                       *)
Progress ==
  /\ made \subseteq ToSet(Services)
  /\ stage \in {"off", "check", "meta"} => step = 1
  /\ stage \in {"off", "check", "meta", "test"} => made = {}
  /\ stage = "test" => step \in 1..Len(Tests) /\ \A i \in 1..(step - 1) : Tests[i] \notin broken
  /\ stage \in {"init", "running"} => made = {Services[i] : i \in 1..(step - 1)}
  /\ stage = "init" => step \in 1..Len(Services)
  /\ stage = "running" => step = Len(Services) + 1

(* Its types, what outlasts a boot and what a boot goes through apart.      *)
LastingTypes ==
  /\ pid \subseteq 0..1 /\ rev \subseteq 0..2 /\ broken \subseteq ToSet(Tests)
  /\ boots \in 0..MaxBoots
  /\ passed \in BOOLEAN /\ torn \in BOOLEAN /\ unsound \in BOOLEAN

PassingTypes ==
  /\ low \in BOOLEAN
  /\ stage \in {"off", "check", "test", "ended", "meta", "init", "running", "stuck", "shutdown"}
  /\ step \in 1..(Len(Services) + 1)
  /\ hookPins \in {"none", "Revision1", "Revision2"} /\ pins \in {"none", "Revision1", "Revision2"}

BootIInv ==
  /\ LastingTypes /\ PassingTypes
  /\ PassedBoots /\ FusedIsSound /\ NothingEarly /\ ref = FALSE
  /\ Fused /\ Progress

Lengths == Len(Tests) = 9 /\ Len(Services) = 17

LEMMA LengthsHold == Lengths
  BY DEF Lengths, Tests, Services

LEMMA TestsSet == \A t \in ToSet(Tests) : \E i \in 1..9 : Tests[i] = t
  BY LengthsHold DEF ToSet, Lengths, Tests

LEMMA ServicesDiffer == \A i, j \in 1..17 : Services[i] = Services[j] => i = j
  BY DEF Services

(* What a service needs to be built comes before it in init.               *)
LEMMA BuiltInOrder ==
  ASSUME NEW i \in 1..17, NEW n \in BuildNeeds(Services[i])
  PROVE  \E j \in 1..(i - 1) : Services[j] = n
  BY DEF BuildNeeds, Services

(* And what its thread may use, but for the two gaps.                      *)
Gaps == {<<"imu", "sleep">>, <<"phoneObject", "phone">>}

LEMMA UsedInOrder ==
  ASSUME NEW u \in Uses \ Gaps
  PROVE  \E i \in 1..17 : Services[i] = u[1] /\ \E j \in 1..i : Services[j] = u[2]
  BY DEF Uses, Gaps, Services

LEMMA BootInitIInv == BootInit => BootIInv
<1> SUFFICES ASSUME BootInit PROVE BootIInv
  OBVIOUS
<1> USE LengthsHold DEF BootInit, Lengths
<1>1. LastingTypes
  <2>1. pid \subseteq 0..1 /\ rev \subseteq 0..2
    BY DEF Shipped, PID, HWRevision
  <2>2. broken \subseteq ToSet(Tests) /\ boots \in 0..MaxBoots
    OBVIOUS
  <2> QED BY <2>1, <2>2 DEF LastingTypes
<1>2. PassingTypes
  BY DEF PassingTypes
<1>3. Fused
  BY DEF Fused, Shipped
<1> QED
  BY <1>1, <1>2, <1>3 DEF BootIInv, PassedBoots, FusedIsSound, NothingEarly, Progress

LEMMA PowerOffIInv == BootIInv /\ (PowerOn \/ PowerOff \/ CheckJig) => BootIInv'
<1> SUFFICES ASSUME BootIInv, PowerOn \/ PowerOff \/ CheckJig PROVE BootIInv'
  OBVIOUS
<1> USE LengthsHold DEF BootIInv, FusedIsSound, NothingEarly, Lengths, fuseVars
<1>1. CASE PowerOn
  <2>1. LastingTypes'
    BY <1>1 DEF PowerOn, LastingTypes
  <2>2. PassingTypes'
    BY <1>1 DEF PowerOn, Hook, PassingTypes
  <2>3. Fused' /\ Progress' /\ PassedBoots'
    BY <1>1 DEF PowerOn, Fused, Progress, PassedBoots
  <2> QED BY <1>1, <2>1, <2>2, <2>3 DEF PowerOn
<1>2. CASE PowerOff
  <2>1. LastingTypes'
    BY <1>2 DEF PowerOff, Off, LastingTypes
  <2>2. PassingTypes'
    BY <1>2 DEF PowerOff, Off, PassingTypes
  <2>3. Fused' /\ Progress' /\ PassedBoots'
    BY <1>2 DEF PowerOff, Off, Fused, Progress, PassedBoots
  <2> QED BY <1>2, <2>1, <2>2, <2>3 DEF PowerOff, Off
<1>3. CASE CheckJig
  <2>1. LastingTypes'
    BY <1>3 DEF CheckJig, LastingTypes
  <2>2. PassingTypes'
    BY <1>3 DEF CheckJig, PassingTypes
  <2>3. Fused' /\ Progress' /\ PassedBoots'
    BY <1>3 DEF CheckJig, Fused, Progress, PassedBoots
  <2> QED BY <1>3, <2>1, <2>2, <2>3 DEF CheckJig
<1> QED BY <1>1, <1>2, <1>3

LEMMA RunTestIInv == BootIInv /\ RunTest => BootIInv'
<1> SUFFICES ASSUME BootIInv, RunTest PROVE BootIInv'
  OBVIOUS
<1> USE LengthsHold DEF BootIInv, FusedIsSound, NothingEarly, Lengths, fuseVars
<1> DEFINE t == Tests[step]
<1>1. /\ stage = "test" /\ step \in 1..8
      /\ t = "battery" \/ t = "voltRef" \/ t \notin {"battery", "voltRef"}
      /\ IF t \notin broken THEN Goes(t) ELSE Fails(t)
      /\ UNCHANGED <<fuseVars, broken, low, boots, hookPins, pins, made, torn, unsound, early>>
  <2>1. step \in 1..9
    BY DEF RunTest, Progress
  <2> QED BY <2>1 DEF RunTest, Tests, Passes
<1>2. ref' = FALSE
  BY <1>1 DEF Goes, Fails, OnFail, Reference, Passes
<1>3. CASE t \notin broken
  <2>1. step' = step + 1 /\ UNCHANGED <<stage, passed>>
    BY <1>1, <1>3 DEF Goes
  <2>2. \A i \in 1..step : Tests[i] \notin broken
    BY <1>1, <1>3 DEF Progress
  <2> HIDE DEF t
  <2>3. LastingTypes'
    BY <1>1, <2>1 DEF LastingTypes
  <2>4. PassingTypes'
    BY <1>1, <2>1 DEF PassingTypes
  <2>5. PassedBoots' /\ Fused' /\ Progress'
    BY <1>1, <2>1, <2>2 DEF PassedBoots, Fused, Progress
  <2> QED BY <1>1, <1>2, <2>3, <2>4, <2>5
<1>4. CASE t \in broken
  <2>1. stage' = "ended" /\ UNCHANGED <<step, passed>>
    BY <1>1, <1>4 DEF Fails
  <2> HIDE DEF t
  <2>2. LastingTypes'
    BY <1>1, <2>1 DEF LastingTypes
  <2>3. PassingTypes'
    BY <1>1, <2>1 DEF PassingTypes
  <2>4. PassedBoots' /\ Fused' /\ Progress'
    BY <1>1, <2>1 DEF PassedBoots, Fused, Progress
  <2> QED BY <1>1, <1>2, <2>2, <2>3, <2>4
<1> QED BY <1>3, <1>4

(* The last test: the fuses are burnt, were already, or are refused.       *)
LEMMA HWVersionIInv == BootIInv /\ HWVersion => BootIInv'
<1> SUFFICES ASSUME BootIInv, HWVersion PROVE BootIInv'
  OBVIOUS
<1> USE LengthsHold DEF BootIInv, NothingEarly, Lengths, fuseVars
<1> DEFINE foreign == (pid \notin {{}, PID}) \/ (rev \notin {{}, HWRevision})
           burns   == Passes("version") /\ ~foreign /\ rev = {} /\ Writable
           done    == Passes("version") /\ ~foreign /\ rev # {}
<1>1. /\ stage = "test" /\ Tests[step] = "version"
      /\ IF burns THEN pid' = PID /\ rev' = HWRevision ELSE UNCHANGED fuseVars
      /\ unsound' = (unsound \/ (burns /\ broken # {}))
      /\ IF burns \/ done THEN Goes("version") ELSE Fails("version")
      /\ UNCHANGED <<broken, low, boots, hookPins, pins, made, torn, early>>
  BY DEF HWVersion
<1>2. step = 9 /\ made = {} /\ \A i \in 1..8 : Tests[i] \notin broken
  <2>1. step \in 1..9 /\ made = {} /\ \A i \in 1..(step - 1) : Tests[i] \notin broken
    BY <1>1 DEF Progress
  <2>2. step = 9
    BY <1>1, <2>1 DEF Tests
  <2> QED BY <2>1, <2>2
<1>3. "version" \notin broken => broken = {}
  <2> SUFFICES ASSUME "version" \notin broken, NEW t \in broken PROVE FALSE
    OBVIOUS
  <2>1. PICK i \in 1..9 : Tests[i] = t
    BY TestsSet DEF LastingTypes
  <2>2. Tests[9] = "version"
    BY DEF Tests
  <2> QED BY <1>2, <2>1, <2>2
<1>4. /\ PID \subseteq 0..1 /\ HWRevision \subseteq 0..2 /\ PID # {} /\ HWRevision # {}
      /\ <<PID, HWRevision>> \in Shipped
  BY DEF PID, HWRevision, Shipped
<1>5. /\ ref' = FALSE /\ stage' = "ended" /\ UNCHANGED step
      /\ IF burns \/ done THEN passed' = TRUE ELSE UNCHANGED passed
  <2> HIDE DEF burns, done
  <2> QED BY <1>1, <1>2 DEF Goes, Fails, OnFail, Reference
<1>6. Progress' /\ PassedBoots'
  BY <1>1, <1>2, <1>5 DEF Progress, PassedBoots
<1>7. PassingTypes'
  BY <1>1, <1>5 DEF PassingTypes
<1>8. CASE burns
  <2>1. /\ pid' = PID /\ rev' = HWRevision /\ passed' = TRUE
        /\ "version" \notin broken /\ broken = {} /\ broken' = {}
    BY <1>1, <1>3, <1>5, <1>8 DEF Passes
  <2>2. ~unsound' /\ unsound' \in BOOLEAN
    BY <1>1, <2>1 DEF FusedIsSound
  <2> HIDE DEF burns, done
  <2>3. LastingTypes'
    BY <1>1, <1>4, <2>1, <2>2 DEF LastingTypes
  <2>4. Fused'
    BY <1>1, <1>4, <2>1 DEF Fused
  <2> QED BY <1>1, <1>5, <1>6, <1>7, <2>2, <2>3, <2>4 DEF FusedIsSound
<1>9. CASE ~burns
  <2>1. UNCHANGED <<pid, rev, broken, torn>> /\ ~unsound' /\ unsound' \in BOOLEAN
    <3> HIDE DEF burns
    <3> QED BY <1>1, <1>9 DEF FusedIsSound
  <2>2. done => rev = HWRevision /\ "version" \notin broken /\ (~torn => pid = PID)
    BY DEF Shipped, HWRevision, PID, Passes, Fused
  <2> HIDE DEF burns, done
  <2>3. LastingTypes'
    BY <1>1, <1>5, <2>1 DEF LastingTypes
  <2>4. Fused'
    BY <1>5, <1>9, <2>1, <2>2 DEF Fused
  <2> QED BY <1>1, <1>5, <1>6, <1>7, <2>1, <2>3, <2>4 DEF FusedIsSound
<1> QED BY <1>8, <1>9

LEMMA TornCommitIInv == BootIInv /\ (TornCommit \/ CheckMeta) => BootIInv'
<1> SUFFICES ASSUME BootIInv, TornCommit \/ CheckMeta PROVE BootIInv'
  OBVIOUS
<1> USE LengthsHold DEF BootIInv, FusedIsSound, NothingEarly, Lengths, fuseVars
<1>1. CASE TornCommit
  <2>1. pid' \subseteq 0..1 /\ rev' \subseteq 0..2
    BY <1>1 DEF TornCommit, PID, HWRevision
  <2>2. LastingTypes'
    BY <1>1, <2>1 DEF TornCommit, Off, LastingTypes
  <2>3. PassingTypes'
    BY <1>1 DEF TornCommit, Off, PassingTypes
  <2>4. Fused' /\ Progress' /\ PassedBoots'
    BY <1>1 DEF TornCommit, Off, Fused, Progress, PassedBoots
  <2> QED BY <1>1, <2>2, <2>3, <2>4 DEF TornCommit, Off
<1>2. CASE CheckMeta
  <2>1. {Services[i] : i \in 1..(1 - 1)} = {}
    OBVIOUS
  <2>2. stage = "meta" /\ step = 1 /\ made = {}
    BY <1>2 DEF CheckMeta, Progress
  <2>3. LastingTypes'
    BY <1>2 DEF CheckMeta, LastingTypes
  <2>4. PassingTypes'
    BY <1>2 DEF CheckMeta, PassingTypes
  <2>5. Fused' /\ PassedBoots'
    BY <1>2 DEF CheckMeta, Fused, PassedBoots, Passes
  <2>6. Progress'
    BY <1>2, <2>1, <2>2 DEF CheckMeta, Progress
  <2> QED BY <1>2, <2>3, <2>4, <2>5, <2>6 DEF CheckMeta
<1> QED BY <1>1, <1>2

LEMMA ConstructIInv == BootIInv /\ Construct => BootIInv'
<1> SUFFICES ASSUME BootIInv, Construct PROVE BootIInv'
  OBVIOUS
<1> USE LengthsHold DEF Lengths, BootIInv, fuseVars
<1> DEFINE s == Services[step]
<1>1. /\ stage = "init" /\ pins' = RevisionPins
      /\ made' = made \cup {s} /\ step' = step + 1
      /\ early' = early \cup {<<s, n>> : n \in BuildNeeds(s) \ made}
      /\ stage' = CASE pins' = "none" -> "stuck"
               [] pins' # "none" /\ s = "batteryObject" /\ low -> "shutdown"
               [] OTHER -> IF step = Len(Services) THEN "running" ELSE "init"
      /\ UNCHANGED <<fuseVars, broken, low, boots, ref, hookPins, passed, torn, unsound>>
  BY DEF Construct
<1>2. step \in 1..17 /\ made = {Services[i] : i \in 1..(step - 1)}
  BY <1>1 DEF Progress
<1>3. made' = {Services[i] : i \in 1..(step' - 1)}
  BY <1>1, <1>2
<1>4. s \in ToSet(Services)
  BY <1>2 DEF ToSet, Services
<1>5. BuildNeeds(s) \subseteq made
  BY <1>2, BuiltInOrder
<1>6. early' = early
  BY <1>1, <1>5
<1> HIDE DEF s
<1>7. /\ stage' \in {"stuck", "shutdown", "running", "init"}
      /\ stage' = "running" => step = 17
      /\ stage' = "init" => step # 17
      /\ stage' = "stuck" => pins' = "none"
  BY <1>1
<1>8. pins' \in {"none", "Revision1", "Revision2"}
      /\ (rev = HWRevision => pins' = "Revision2")
  <2>1. rev = HWRevision => rev \notin {{}, {0}} /\ rev \in {{1}, {0, 1}}
    BY DEF HWRevision
  <2> QED BY <1>1, <2>1 DEF RevisionPins
<1>9. LastingTypes'
  BY <1>1 DEF LastingTypes
<1>10. PassingTypes'
  BY <1>1, <1>2, <1>7, <1>8 DEF PassingTypes
<1>11. Progress' /\ Fused' /\ PassedBoots'
  BY <1>1, <1>2, <1>3, <1>4, <1>7, <1>8 DEF Progress, Fused, PassedBoots
<1> QED
  BY <1>1, <1>6, <1>9, <1>10, <1>11 DEF FusedIsSound, NothingEarly

LEMMA UsesEarlyIInv == BootIInv /\ UsesEarly => BootIInv'
<1> SUFFICES ASSUME BootIInv, UsesEarly PROVE BootIInv'
  OBVIOUS
<1> USE LengthsHold DEF Lengths
<1>1. PICK u \in Uses : u[1] \in made /\ u[2] \notin made /\ Off /\ early' = early \cup {u}
  BY DEF UsesEarly
<1>2. step \in 1..18 /\ made = {Services[i] : i \in 1..(step - 1)}
  BY DEF BootIInv, Progress, UsesEarly
<1>3. u \in Gaps
  <2> SUFFICES ASSUME u \notin Gaps PROVE FALSE
    OBVIOUS
  <2>1. PICK i \in 1..17 : Services[i] = u[1] /\ \E j \in 1..i : Services[j] = u[2]
    BY UsedInOrder
  <2>2. PICK j \in 1..i : Services[j] = u[2]
    BY <2>1
  <2>3. PICK k \in 1..(step - 1) : Services[k] = u[1]
    BY <1>1, <1>2
  <2>4. k = i
    BY <1>2, <2>1, <2>3, ServicesDiffer
  <2> QED BY <1>1, <1>2, <2>2, <2>4
<1>4. LastingTypes'
  BY <1>1 DEF BootIInv, LastingTypes, UsesEarly, fuseVars
<1>5. PassingTypes'
  BY <1>1 DEF BootIInv, PassingTypes, UsesEarly, Off
<1>6. PassedBoots' /\ Fused' /\ Progress'
  BY <1>1 DEF BootIInv, PassedBoots, Fused, Progress, UsesEarly, Off, fuseVars
<1> QED
  BY <1>1, <1>3, <1>4, <1>5, <1>6
  DEF BootIInv, FusedIsSound, NothingEarly, Gaps, UsesEarly, Off

LEMMA BootStepIInv == BootIInv /\ [BootNext]_bootVars => BootIInv'
<1> SUFFICES ASSUME BootIInv, UNCHANGED bootVars PROVE BootIInv'
  BY PowerOffIInv, RunTestIInv, HWVersionIInv, TornCommitIInv, ConstructIInv, UsesEarlyIInv
  DEF BootNext
<1> QED
  BY DEF bootVars, fuseVars, BootIInv, LastingTypes, PassingTypes, PassedBoots, FusedIsSound,
         NothingEarly, Fused, Progress

(* Whichever parts are broken, and whenever the power goes, a watch that   *)
(* the factory passed, its fuses untorn, starts with the pins of its       *)
(* board, only sound watches are fused, and nothing is used before init    *)
(* has made it but in the two gaps of a few statements.                    *)
THEOREM BootsSafely == BootSpec => []BootInv
<1>1. BootIInv => BootInv
  BY DEF BootIInv, BootInv, BootTypeOK, LastingTypes, PassingTypes, Progress, RefOff
<1> QED BY <1>1, BootInitIInv, BootStepIInv, PTL DEF BootSpec

-----------------------------------------------------------------------------
(* SleepMan: asleep and awake.                                             *)

Asleep == {"park", "start", "wait"}             \* from StartSleep to TakeWake
Waking == {"unpark", "preWake", "home", "wake"} \* from there to EndSleep

(* Where goSleep and the Battery's thread are, and what they have set.     *)
Steps ==
  /\ pc \in {"stop", "arm", "sleep"} => sleeps < MaxSleeps
  /\ pc = "arm" => direction # None
  /\ inSleep <=> pc \in Asleep \cup Waking
  /\ isShutdown <=> battPc # "idle"
  /\ pc = "stop" => ~(battPc \in {"wake", "give", "delay", "off"} /\ ~overlapped)
  /\ isr => pc = "wait"

(* The tilt the IMU reports is the one that goSleep chose, or will be once *)
(* imuSignal has made the second of its two changes.                       *)
TiltOf(lower) == IF lower THEN "lowered" ELSE "lifted"

TiltSet ==
  ~crossed =>
    /\ pc = "arm" => imuPc # "armed" /\ direction = TiltOf(waitForLower)
    /\ pc \in {"sleep"} \cup Asleep =>
         tilt = IF imuPc = "armed" THEN "lifted" ELSE TiltOf(waitForLower)
    /\ pc = "reset" => tilt = TiltOf(~waitForLift)
    /\ pc = "run" /\ ~isShutdown =>
         ~waitForLower /\ imuPc \notin {"arm", "armed"} /\ tilt = TiltOf(~waitForLift)

(* A thread about to give the semaphore was let in for this sleep, and a   *)
(* semaphore given was asked for, unless a thread was let in late.         *)
Given ==
  /\ imuPc = "give" \/ battPc = "give" => spare \/ pc \in Asleep
  /\ wakeSem => spare \/ (pc \in Asleep /\ asked)

PlaceTypes ==
  /\ pc \in SleepSteps \cup {"run"}
  /\ imuPc \in {"idle", "signal", "give", "arm", "armed"}
  /\ battPc \in {"idle", "screen", "wake", "give", "delay", "off"}
  /\ mut \in {None, "batt"} /\ direction \in Direction \cup {None}
  /\ tilt \in Direction /\ moved \in Direction \cup {None}
  /\ wrist \in Direction \cup {"level"}
  /\ screen \in {"app", "stopped", "home", "shutdown"}

CountTypes == sleeps \in 0..MaxSleeps /\ moves \in 0..MaxMoves /\ presses \in 0..MaxPresses

FlagTypes ==
  /\ isShutdown \in BOOLEAN /\ inSleep \in BOOLEAN /\ nsBlocked \in BOOLEAN
  /\ waitForLower \in BOOLEAN /\ waitForLift \in BOOLEAN /\ lowered \in BOOLEAN
  /\ wakeSem \in BOOLEAN /\ isr \in BOOLEAN
  /\ asked \in BOOLEAN /\ spare \in BOOLEAN /\ crossed \in BOOLEAN /\ overlapped \in BOOLEAN

QueueTypes ==
  /\ queue \in Seq([type : {"alt", "tilt"}, dir : Direction \cup {None}, after : 0..MaxSleeps])
  /\ Len(queue) <= QueueLen

SleepIInv ==
  /\ PlaceTypes /\ CountTypes /\ FlagTypes /\ QueueTypes
  /\ FreshEventsOnly /\ ShutdownShown /\ Steps /\ TiltSet /\ Given

(* What Post adds is an event of now. *)
LEMMA PostKeeps ==
  ASSUME QueueTypes, CountTypes, NEW type \in {"alt", "tilt"}, NEW dir \in Direction \cup {None},
         Post(type, dir), UNCHANGED sleeps
  PROVE  /\ QueueTypes'
         /\ (\A i \in DOMAIN queue : queue[i].after = sleeps)
              => \A i \in DOMAIN queue' : queue'[i].after = sleeps'
<1> DEFINE e == [type |-> type, dir |-> dir, after |-> sleeps]
           E == [type : {"alt", "tilt"}, dir : Direction \cup {None}, after : 0..MaxSleeps]
<1>1. e \in E /\ e.after = sleeps
  BY DEF CountTypes
<1> HIDE DEF e, E
<1>2. queue \in Seq(E) /\ Len(queue) <= QueueLen
  BY DEF QueueTypes, E
<1>3. CASE Len(queue) < QueueLen
  <2>1. queue' = Append(queue, e)
    BY <1>3 DEF Post, e
  <2>2. queue' \in Seq(E) /\ Len(queue') <= QueueLen
    BY <1>1, <1>2, <1>3, <2>1
  <2>3. \A i \in DOMAIN queue' : queue'[i] = e \/ (i \in DOMAIN queue /\ queue'[i] = queue[i])
    BY <1>1, <1>2, <2>1
  <2> QED BY <1>1, <2>2, <2>3 DEF QueueTypes, E
<1>4. CASE ~(Len(queue) < QueueLen)
  BY <1>4 DEF Post, QueueTypes
<1> QED BY <1>3, <1>4

LEMMA PlaceStep == SleepIInv /\ [Next]_vars => PlaceTypes'
<1> SUFFICES ASSUME SleepIInv, [Next]_vars PROVE PlaceTypes'
  OBVIOUS
<1> USE DEF SleepIInv, PlaceTypes, Steps, Direction, None, SleepSteps, battVars, flagVars,
            semVars, imuVars, bounds, history
<1>1. CASE IMU
  BY <1>1 DEF IMU, FetchEvents, ImuSignal, ImuWake, ImuArm, ImuArmed, Post, Give, Late
<1>2. CASE BATT
  BY <1>2 DEF BATT, BattCritical, ShutdownScreen, ShutdownWake, ShutdownGive, Shutdown, Battery,
    Give, Late
<1>3. CASE LVGL
  BY <1>3 DEF LVGL, StopScreen, Arm, StartSleep, Park, InstallIsr, TakeWake, Unpark, PreWake,
    HomeScreen, EndSleep, Rearm, ResetEvents, Lvgl
<1>4. CASE Loop
  BY <1>4 DEF Loop, CheckAutoSleep, HandleInput, HandleMotion, Lvgl, RememberLifted, GoSleep
<1>5. CASE World
  BY <1>5 DEF World, Move, Press, Post, Give
<1>6. CASE UNCHANGED vars
  BY <1>6 DEF vars
<1> QED BY <1>1, <1>2, <1>3, <1>4, <1>5, <1>6 DEF Next

LEMMA CountStep == SleepIInv /\ [Next]_vars => CountTypes'
<1> SUFFICES ASSUME SleepIInv, [Next]_vars PROVE CountTypes'
  OBVIOUS
<1> USE DEF SleepIInv, CountTypes, Steps, battVars, flagVars, semVars, imuVars, bounds, history
<1>1. CASE IMU
  BY <1>1 DEF IMU, FetchEvents, ImuSignal, ImuWake, ImuArm, ImuArmed, Post, Give, Late
<1>2. CASE BATT
  BY <1>2 DEF BATT, BattCritical, ShutdownScreen, ShutdownWake, ShutdownGive, Shutdown, Battery,
    Give, Late
<1>3. CASE LVGL
  BY <1>3 DEF LVGL, StopScreen, Arm, StartSleep, Park, InstallIsr, TakeWake, Unpark, PreWake,
    HomeScreen, EndSleep, Rearm, ResetEvents, Lvgl
<1>4. CASE Loop
  BY <1>4 DEF Loop, CheckAutoSleep, HandleInput, HandleMotion, Lvgl, RememberLifted, GoSleep
<1>5. CASE World
  BY <1>5 DEF World, Move, Press, Post, Give
<1>6. CASE UNCHANGED vars
  BY <1>6 DEF vars
<1> QED BY <1>1, <1>2, <1>3, <1>4, <1>5, <1>6 DEF Next

LEMMA FlagStep == SleepIInv /\ [Next]_vars => FlagTypes'
<1> SUFFICES ASSUME SleepIInv, [Next]_vars PROVE FlagTypes'
  OBVIOUS
<1> USE DEF SleepIInv, FlagTypes, battVars, flagVars, semVars, imuVars, bounds, history
<1>1. CASE FetchEvents
  BY <1>1, ZenonT(30) DEF FetchEvents, Post
<1>2. CASE ImuSignal
  BY <1>2, Zenon DEF ImuSignal, Late
<1>3. CASE ImuWake
  BY <1>3, Zenon DEF ImuWake, Give
<1>4. CASE ImuArm
  BY <1>4, Zenon DEF ImuArm
<1>5. CASE ImuArmed
  BY <1>5, Zenon DEF ImuArmed
<1>6. CASE BattCritical
  BY <1>6, Zenon DEF BattCritical, Battery
<1>7. CASE ShutdownScreen
  BY <1>7, Zenon DEF ShutdownScreen, Battery
<1>8. CASE ShutdownWake
  BY <1>8, Zenon DEF ShutdownWake, Battery, Late
<1>9. CASE ShutdownGive
  BY <1>9, Zenon DEF ShutdownGive, Battery, Give
<1>10. CASE Shutdown
  BY <1>10, ZenonT(30) DEF Shutdown, Battery
<1>11. CASE StopScreen
  BY <1>11, Zenon DEF StopScreen, Lvgl
<1>12. CASE Arm
  BY <1>12, ZenonT(30) DEF Arm, Lvgl
<1>13. CASE StartSleep
  BY <1>13, Zenon DEF StartSleep, Lvgl
<1>14. CASE Park
  BY <1>14, ZenonT(30) DEF Park, Lvgl
<1>15. CASE InstallIsr
  BY <1>15, Zenon DEF InstallIsr, Lvgl
<1>16. CASE TakeWake
  BY <1>16, Zenon DEF TakeWake, Lvgl
<1>17. CASE Unpark
  BY <1>17, ZenonT(30) DEF Unpark, Lvgl
<1>18. CASE PreWake
  BY <1>18, Zenon DEF PreWake, Lvgl
<1>19. CASE HomeScreen
  BY <1>19, Zenon DEF HomeScreen, Lvgl
<1>20. CASE EndSleep
  BY <1>20, Zenon DEF EndSleep, Lvgl
<1>21. CASE Rearm
  BY <1>21, Zenon DEF Rearm, Lvgl
<1>22. CASE ResetEvents
  BY <1>22, Zenon DEF ResetEvents, Lvgl
<1>23. CASE CheckAutoSleep
  BY <1>23, ZenonT(30) DEF CheckAutoSleep, Lvgl, RememberLifted, GoSleep
<1>24. CASE HandleInput
  BY <1>24, ZenonT(30) DEF HandleInput, Lvgl, RememberLifted, GoSleep
<1>25. CASE HandleMotion
  BY <1>25, ZenonT(30) DEF HandleMotion, Lvgl, GoSleep
<1>26. CASE Move
  BY <1>26, ZenonT(30) DEF Move
<1>27. CASE Press
  BY <1>27, Zenon DEF Press, Post, Give
<1>28. CASE UNCHANGED vars
  BY <1>28, ZenonT(30) DEF vars
<1> QED BY <1>1, <1>2, <1>3, <1>4, <1>5, <1>6, <1>7, <1>8, <1>9, <1>10, <1>11, <1>12, <1>13,
  <1>14, <1>15, <1>16, <1>17, <1>18, <1>19, <1>20, <1>21, <1>22, <1>23, <1>24, <1>25, <1>26,
  <1>27, <1>28 DEF Next, IMU, BATT, LVGL, Loop, World

LEMMA QueueStep == SleepIInv /\ [Next]_vars => QueueTypes'
<1> SUFFICES ASSUME SleepIInv, [Next]_vars PROVE QueueTypes'
  OBVIOUS
<1> USE DEF SleepIInv, QueueTypes, CountTypes, PlaceTypes, battVars, flagVars, semVars, imuVars,
            bounds, history
<1>1. CASE FetchEvents
  <2>1. CASE moved = tilt
    BY <1>1, <2>1, PostKeeps DEF FetchEvents
  <2>2. CASE moved # tilt
    BY <1>1, <2>2 DEF FetchEvents
  <2> QED BY <2>1, <2>2
<1>2. CASE ImuSignal
  BY <1>2 DEF ImuSignal, Late
<1>3. CASE ImuWake
  BY <1>3 DEF ImuWake, Give
<1>4. CASE ImuArm
  BY <1>4 DEF ImuArm
<1>5. CASE ImuArmed
  BY <1>5 DEF ImuArmed
<1>6. CASE BATT
  BY <1>6 DEF BATT, BattCritical, ShutdownScreen, ShutdownWake, ShutdownGive, Shutdown, Battery,
    Give, Late
<1>7. CASE StopScreen
  BY <1>7 DEF StopScreen, Lvgl
<1>8. CASE Arm
  BY <1>8 DEF Arm, Lvgl
<1>9. CASE StartSleep
  BY <1>9 DEF StartSleep, Lvgl
<1>10. CASE Park
  BY <1>10 DEF Park, Lvgl
<1>11. CASE InstallIsr
  BY <1>11 DEF InstallIsr, Lvgl
<1>12. CASE TakeWake
  BY <1>12 DEF TakeWake, Lvgl
<1>13. CASE Unpark
  BY <1>13 DEF Unpark, Lvgl
<1>14. CASE PreWake
  BY <1>14 DEF PreWake, Lvgl
<1>15. CASE HomeScreen
  BY <1>15 DEF HomeScreen, Lvgl
<1>16. CASE EndSleep
  BY <1>16 DEF EndSleep, Lvgl
<1>17. CASE Rearm
  BY <1>17 DEF Rearm, Lvgl
<1>18. CASE ResetEvents
  BY <1>18 DEF ResetEvents, Lvgl
<1>19. CASE CheckAutoSleep
  BY <1>19 DEF CheckAutoSleep, Lvgl, RememberLifted, GoSleep
<1>20. CASE HandleInput
  BY <1>20 DEF HandleInput, Lvgl, RememberLifted, GoSleep
<1>21. CASE HandleMotion
  BY <1>21 DEF HandleMotion, Lvgl, GoSleep
<1>22. CASE Move
  BY <1>22 DEF Move
<1>23. CASE Press
  <2>1. CASE isr
    BY <1>23, <2>1 DEF Press
  <2>2. CASE ~isr
    BY <1>23, <2>2, PostKeeps DEF Press
  <2> QED BY <2>1, <2>2
<1>24. CASE UNCHANGED vars
  BY <1>24 DEF vars
<1> QED BY <1>1, <1>2, <1>3, <1>4, <1>5, <1>6, <1>7, <1>8, <1>9, <1>10, <1>11, <1>12, <1>13,
  <1>14, <1>15, <1>16, <1>17, <1>18, <1>19, <1>20, <1>21, <1>22, <1>23, <1>24 DEF Next, IMU,
  LVGL, Loop, World

LEMMA FreshStep == SleepIInv /\ [Next]_vars => FreshEventsOnly'
<1> SUFFICES ASSUME SleepIInv, [Next]_vars PROVE FreshEventsOnly'
  OBVIOUS
<1> USE DEF SleepIInv, FreshEventsOnly, QueueTypes, CountTypes, battVars, flagVars, semVars,
            imuVars, bounds, history
<1>1. CASE FetchEvents
  <2>1. CASE moved = tilt
    BY <1>1, <2>1, PostKeeps DEF FetchEvents, PlaceTypes
  <2>2. CASE moved # tilt
    BY <1>1, <2>2 DEF FetchEvents, PlaceTypes
  <2> QED BY <2>1, <2>2
<1>2. CASE ImuSignal
  BY <1>2 DEF ImuSignal, Late
<1>3. CASE ImuWake
  BY <1>3 DEF ImuWake, Give
<1>4. CASE ImuArm
  BY <1>4 DEF ImuArm
<1>5. CASE ImuArmed
  BY <1>5 DEF ImuArmed
<1>6. CASE BATT
  BY <1>6 DEF BATT, BattCritical, ShutdownScreen, ShutdownWake, ShutdownGive, Shutdown, Battery,
    Give, Late
<1>7. CASE LVGL
  BY <1>7 DEF LVGL, StopScreen, Arm, StartSleep, Park, InstallIsr, TakeWake, Unpark, PreWake,
    HomeScreen, EndSleep, Rearm, ResetEvents, Lvgl
<1>8. CASE CheckAutoSleep
  BY <1>8 DEF CheckAutoSleep, Lvgl, RememberLifted, GoSleep
<1>9. CASE HandleInput
  BY <1>9, SMTT(30) DEF HandleInput, Lvgl, RememberLifted, GoSleep
<1>10. CASE HandleMotion
  BY <1>10, SMTT(30) DEF HandleMotion, Lvgl, GoSleep
<1>11. CASE Move
  BY <1>11 DEF Move
<1>12. CASE Press
  <2>1. CASE isr
    BY <1>12, <2>1 DEF Press
  <2>2. CASE ~isr
    BY <1>12, <2>2, PostKeeps DEF Press
  <2> QED BY <2>1, <2>2
<1>13. CASE UNCHANGED vars
  BY <1>13 DEF vars
<1> QED BY <1>1, <1>2, <1>3, <1>4, <1>5, <1>6, <1>7, <1>8, <1>9, <1>10, <1>11, <1>12, <1>13 DEF
  Next, IMU, Loop, World

LEMMA ShownStep == SleepIInv /\ [Next]_vars => ShutdownShown'
<1> SUFFICES ASSUME SleepIInv, [Next]_vars PROVE ShutdownShown'
  OBVIOUS
<1> USE DEF SleepIInv, ShutdownShown, Steps, battVars, flagVars, semVars, imuVars, bounds,
            history
<1>1. CASE IMU
  BY <1>1 DEF IMU, FetchEvents, ImuSignal, ImuWake, ImuArm, ImuArmed, Post, Give, Late
<1>2. CASE BATT
  BY <1>2 DEF BATT, BattCritical, ShutdownScreen, ShutdownWake, ShutdownGive, Shutdown, Battery,
    Give, Late
<1>3. CASE LVGL
  BY <1>3 DEF LVGL, StopScreen, Arm, StartSleep, Park, InstallIsr, TakeWake, Unpark, PreWake,
    HomeScreen, EndSleep, Rearm, ResetEvents, Lvgl
<1>4. CASE Loop
  BY <1>4 DEF Loop, CheckAutoSleep, HandleInput, HandleMotion, Lvgl, RememberLifted, GoSleep
<1>5. CASE World
  BY <1>5 DEF World, Move, Press, Post, Give
<1>6. CASE UNCHANGED vars
  BY <1>6 DEF vars
<1> QED BY <1>1, <1>2, <1>3, <1>4, <1>5, <1>6 DEF Next

LEMMA StepsStep == SleepIInv /\ [Next]_vars => Steps'
<1> SUFFICES ASSUME SleepIInv, [Next]_vars PROVE Steps'
  OBVIOUS
<1> USE DEF SleepIInv, Steps, CountTypes, Asleep, Waking, None, battVars, flagVars, semVars,
            imuVars, bounds, history
<1>1. CASE IMU
  BY <1>1 DEF IMU, FetchEvents, ImuSignal, ImuWake, ImuArm, ImuArmed, Post, Give, Late
<1>2. CASE BattCritical
  BY <1>2 DEF BattCritical, Battery
<1>3. CASE ShutdownScreen
  BY <1>3 DEF ShutdownScreen, Battery
<1>4. CASE ShutdownWake
  BY <1>4 DEF ShutdownWake, Battery, Late
<1>5. CASE ShutdownGive
  BY <1>5 DEF ShutdownGive, Battery, Give
<1>6. CASE Shutdown
  BY <1>6 DEF Shutdown, Battery
<1>7. CASE StopScreen
  BY <1>7 DEF StopScreen, Lvgl
<1>8. CASE Arm
  BY <1>8 DEF Arm, Lvgl
<1>9. CASE StartSleep
  BY <1>9 DEF StartSleep, Lvgl
<1>10. CASE Park
  BY <1>10 DEF Park, Lvgl
<1>11. CASE InstallIsr
  BY <1>11 DEF InstallIsr, Lvgl
<1>12. CASE TakeWake
  BY <1>12 DEF TakeWake, Lvgl
<1>13. CASE Unpark
  BY <1>13 DEF Unpark, Lvgl
<1>14. CASE PreWake
  BY <1>14 DEF PreWake, Lvgl
<1>15. CASE HomeScreen
  BY <1>15 DEF HomeScreen, Lvgl
<1>16. CASE EndSleep
  BY <1>16 DEF EndSleep, Lvgl
<1>17. CASE Rearm
  BY <1>17 DEF Rearm, Lvgl
<1>18. CASE ResetEvents
  BY <1>18 DEF ResetEvents, Lvgl
<1>19. CASE Loop
  BY <1>19 DEF Loop, CheckAutoSleep, HandleInput, HandleMotion, Lvgl, RememberLifted, GoSleep
<1>20. CASE World
  BY <1>20 DEF World, Move, Press, Post, Give
<1>21. CASE UNCHANGED vars
  BY <1>21 DEF vars
<1> QED BY <1>1, <1>2, <1>3, <1>4, <1>5, <1>6, <1>7, <1>8, <1>9, <1>10, <1>11, <1>12, <1>13,
  <1>14, <1>15, <1>16, <1>17, <1>18, <1>19, <1>20, <1>21 DEF Next, BATT, LVGL

LEMMA TiltStep == SleepIInv /\ [Next]_vars => TiltSet'
<1> SUFFICES ASSUME SleepIInv, [Next]_vars PROVE TiltSet'
  OBVIOUS
<1> USE DEF SleepIInv, TiltSet, Steps, TiltOf, Asleep, None, Direction, PlaceTypes, battVars,
            flagVars, semVars, imuVars, bounds, history
<1>1. CASE FetchEvents
  BY <1>1 DEF FetchEvents, Post
<1>2. CASE ImuSignal
  BY <1>2 DEF ImuSignal, Late
<1>3. CASE ImuWake
  BY <1>3 DEF ImuWake, Give
<1>4. CASE ImuArm
  BY <1>4 DEF ImuArm
<1>5. CASE ImuArmed
  BY <1>5 DEF ImuArmed
<1>6. CASE BATT
  BY <1>6 DEF BATT, BattCritical, ShutdownScreen, ShutdownWake, ShutdownGive, Shutdown, Battery,
    Give, Late
<1>7. CASE StopScreen
  BY <1>7 DEF StopScreen, Lvgl
<1>8. CASE Arm
  BY <1>8 DEF Arm, Lvgl
<1>9. CASE StartSleep
  BY <1>9 DEF StartSleep, Lvgl
<1>10. CASE Park
  BY <1>10 DEF Park, Lvgl
<1>11. CASE InstallIsr
  BY <1>11 DEF InstallIsr, Lvgl
<1>12. CASE TakeWake
  BY <1>12 DEF TakeWake, Lvgl
<1>13. CASE Unpark
  BY <1>13 DEF Unpark, Lvgl
<1>14. CASE PreWake
  BY <1>14 DEF PreWake, Lvgl
<1>15. CASE HomeScreen
  BY <1>15 DEF HomeScreen, Lvgl
<1>16. CASE EndSleep
  BY <1>16 DEF EndSleep, Lvgl
<1>17. CASE Rearm
  BY <1>17 DEF Rearm, Lvgl
<1>18. CASE ResetEvents
  BY <1>18 DEF ResetEvents, Lvgl
<1>19. CASE Loop
  BY <1>19 DEF Loop, CheckAutoSleep, HandleInput, HandleMotion, Lvgl, RememberLifted, GoSleep
<1>20. CASE World
  BY <1>20 DEF World, Move, Press, Post, Give
<1>21. CASE UNCHANGED vars
  BY <1>21 DEF vars
<1> QED BY <1>1, <1>2, <1>3, <1>4, <1>5, <1>6, <1>7, <1>8, <1>9, <1>10, <1>11, <1>12, <1>13,
  <1>14, <1>15, <1>16, <1>17, <1>18, <1>19, <1>20, <1>21 DEF Next, IMU, LVGL

LEMMA GivenStep == SleepIInv /\ [Next]_vars => Given'
<1> SUFFICES ASSUME SleepIInv, [Next]_vars PROVE Given'
  OBVIOUS
<1> USE DEF SleepIInv, Given, Steps, Asleep, Waking, battVars, flagVars, semVars, imuVars,
            bounds, history
<1>1. CASE FetchEvents
  BY <1>1 DEF FetchEvents, Post
<1>2. CASE ImuSignal
  BY <1>2 DEF ImuSignal, Late
<1>3. CASE ImuWake
  BY <1>3 DEF ImuWake, Give
<1>4. CASE ImuArm
  BY <1>4 DEF ImuArm
<1>5. CASE ImuArmed
  BY <1>5 DEF ImuArmed
<1>6. CASE BattCritical
  BY <1>6 DEF BattCritical, Battery
<1>7. CASE ShutdownScreen
  BY <1>7 DEF ShutdownScreen, Battery
<1>8. CASE ShutdownWake
  BY <1>8 DEF ShutdownWake, Battery, Late
<1>9. CASE ShutdownGive
  BY <1>9 DEF ShutdownGive, Battery, Give
<1>10. CASE Shutdown
  BY <1>10 DEF Shutdown, Battery
<1>11. CASE StopScreen
  BY <1>11 DEF StopScreen, Lvgl
<1>12. CASE Arm
  BY <1>12 DEF Arm, Lvgl
<1>13. CASE StartSleep
  BY <1>13 DEF StartSleep, Lvgl
<1>14. CASE Park
  BY <1>14 DEF Park, Lvgl
<1>15. CASE InstallIsr
  BY <1>15 DEF InstallIsr, Lvgl
<1>16. CASE TakeWake
  BY <1>16 DEF TakeWake, Lvgl
<1>17. CASE Unpark
  BY <1>17 DEF Unpark, Lvgl
<1>18. CASE PreWake
  BY <1>18 DEF PreWake, Lvgl
<1>19. CASE HomeScreen
  BY <1>19 DEF HomeScreen, Lvgl
<1>20. CASE EndSleep
  BY <1>20 DEF EndSleep, Lvgl
<1>21. CASE Rearm
  BY <1>21 DEF Rearm, Lvgl
<1>22. CASE ResetEvents
  BY <1>22 DEF ResetEvents, Lvgl
<1>23. CASE Loop
  BY <1>23 DEF Loop, CheckAutoSleep, HandleInput, HandleMotion, Lvgl, RememberLifted, GoSleep
<1>24. CASE Move
  BY <1>24 DEF Move
<1>25. CASE Press
  <2>1. CASE isr
    <3>1. asked' = (asked \/ inSleep) /\ inSleep /\ pc \in Asleep
      BY <1>25, <2>1 DEF Press, Give
    <3> QED BY <1>25, <3>1 DEF Press
  <2>2. CASE ~isr
    BY <1>25, <2>2 DEF Press
  <2> QED BY <2>1, <2>2
<1>26. CASE UNCHANGED vars
  BY <1>26 DEF vars
<1> QED BY <1>1, <1>2, <1>3, <1>4, <1>5, <1>6, <1>7, <1>8, <1>9, <1>10, <1>11, <1>12, <1>13,
  <1>14, <1>15, <1>16, <1>17, <1>18, <1>19, <1>20, <1>21, <1>22, <1>23, <1>24, <1>25, <1>26 DEF
  Next, IMU, BATT, LVGL, World

LEMMA SleepInitIInv == Init => SleepIInv
<1> SUFFICES ASSUME Init PROVE SleepIInv
  OBVIOUS
<1> USE DEF Init
<1>1. PlaceTypes
  BY DEF PlaceTypes, Direction, None, SleepSteps
<1>2. CountTypes /\ QueueTypes
  BY DEF CountTypes, QueueTypes
<1>3. FlagTypes
  BY Zenon DEF FlagTypes
<1>4. Steps /\ FreshEventsOnly /\ ShutdownShown
  BY DEF Steps, FreshEventsOnly, ShutdownShown, Asleep, Waking
<1>5. TiltSet
  BY DEF TiltSet, TiltOf, Asleep
<1>6. Given
  BY DEF Given
<1> QED BY <1>1, <1>2, <1>3, <1>4, <1>5, <1>6 DEF SleepIInv

LEMMA SleepStepIInv == SleepIInv /\ [Next]_vars => SleepIInv'
  BY PlaceStep, CountStep, FlagStep, QueueStep, FreshStep, ShownStep, StepsStep, TiltStep, GivenStep
  DEF SleepIInv

LEMMA SleepInvFollows == SleepIInv => Inv
<1> SUFFICES ASSUME SleepIInv PROVE Inv
  OBVIOUS
<1>1. TypeOK
  BY DEF SleepIInv, PlaceTypes, CountTypes, FlagTypes, QueueTypes, TypeOK
<1>2. Armed
  BY DEF SleepIInv, TiltSet, TiltOf, Armed, ImuQuiet, Asleep, PlaceTypes
<1> QED BY <1>1, <1>2 DEF SleepIInv, Inv

-----------------------------------------------------------------------------
(* The three side by side.                                                 *)
PowerIInv ==
  /\ part = "boot" => BootIInv
  /\ part = "sleep" => SleepIInv
  /\ part = "imu" => ImuIInv

LEMMA PowerInductive == PowerSpec => []PowerIInv
<1>1. PowerInit => PowerIInv
  BY BootInitIInv, SleepInitIInv, ImuInitIInv DEF PowerInit, PowerIInv
<1>2. PowerIInv /\ [Boots \/ Sleeps \/ Senses]_powerVars => PowerIInv'
  <2> SUFFICES ASSUME PowerIInv, [Boots \/ Sleeps \/ Senses]_powerVars PROVE PowerIInv'
    OBVIOUS
  <2>1. part' = part /\ [BootNext]_bootVars /\ [Next]_vars /\ (ImuNext \/ UNCHANGED sensorVars)
    BY DEF Boots, Sleeps, Senses, powerVars
  <2> QED BY <2>1, BootStepIInv, SleepStepIInv, ImuStepIInv DEF PowerIInv
<1> QED BY <1>1, <1>2, PTL DEF PowerSpec

(* However boots and power failures, sleeps, wakes, wrist movements, key   *)
(* presses and a battery turning critical fall between each other's steps: *)
(* a passed watch starts as the board it is; asleep and awake the motion   *)
(* sensor waits for the movement that is to come, nothing from before a    *)
(* sleep is acted on after it, and a watch that turns off shows why; and   *)
(* whatever calls of two threads meet on its bus, the sensor at rest is    *)
(* set up as the watch was told.                                           *)
THEOREM PoweredRight == PowerSpec => []PowerInv
<1>1. PowerIInv => PowerInv
  BY SleepInvFollows, ImuInvFollows
  DEF PowerIInv, PowerInv, BootIInv, BootInv, BootTypeOK, LastingTypes, PassingTypes, Progress, RefOff
<1> QED BY <1>1, PowerInductive, PTL

(* A sleep ends only because a wake was asked for in it, or because a      *)
(* thread had been let into wake just before an earlier sleep was over.    *)
THEOREM WokenForAReasonHolds == PowerSpec => WokenForAReason
<1>1. PowerIInv /\ [Boots \/ Sleeps \/ Senses]_powerVars => [TakeWake => asked \/ spare]_vars
  <2> SUFFICES ASSUME PowerIInv, [Boots \/ Sleeps \/ Senses]_powerVars, TakeWake PROVE asked \/ spare \/ UNCHANGED vars
    OBVIOUS
  <2>1. CASE part = "sleep"
    BY <2>1 DEF PowerIInv, SleepIInv, Given, TakeWake
  <2>2. CASE part # "sleep"
    BY <2>2 DEF Boots, Sleeps, Senses, powerVars
  <2> QED BY <2>1, <2>2
<1> QED BY <1>1, PowerInductive, PTL DEF PowerSpec, WokenForAReason
=====================================================================================
