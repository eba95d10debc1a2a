---------------------------------- MODULE Clock ----------------------------------
(***************************************************************************)
(* The clock (Services/Time) over the real-time chip (Devices/RTC): a time *)
(* base and when it was taken, renewed from the chip by the clock's own    *)
(* thread, and set by the threads that learn the time (the phone's, the    *)
(* box's, and LVGL for the user).  Nothing locks.  The chip is slow, but   *)
(* no second passes within one of these operations.  A time is seconds and *)
(* a year; of a date only the year can be more than the chip holds.        *)
(***************************************************************************)
EXTENDS Integers

CONSTANTS
  TimeSetters, SyncInterval,
  Offsets, Years,          \* bounds of the model: the times that are set
  MaxNow, MaxSets          \* bounds of the model: seconds; settings

ASSUME ClockAssumption ==
  "sync" \notin TimeSetters /\ SyncInterval \in Nat /\ Offsets \subseteq Int /\ Years \subseteq Int

VARIABLES
  seconds, rtc,            \* seconds since the start; the chip, ahead of them by what it was set to
  base, updateTime,        \* Time::time and updateTime
  tpc, holds,              \* each party's next step, and the time it is to store
  sets,
  alone,                   \* history: the operation under way has had no other beside it
  spoilt,                  \* history: the last one had, or could not read the chip
  asked, refused           \* history: the last time set; the chip has not taken it

clockVars == <<seconds, rtc, base, updateTime, tpc, holds, sets, alone, spoilt, asked, refused>>

TimeParties == TimeSetters \cup {"sync"}
TimeAt(t, s) == [sec |-> s + t.sec, year |-> t.year]
Idle == \A p \in TimeParties : tpc[p] = "idle"

NoTime == [sec |-> -1, year |-> 1899]   \* mktime of an empty tm

Dec2Bcd(dec) == (dec \div 10) * 16 + (dec % 10)
Bcd2Dec(bcd) == (bcd \div 16) * 10 + (bcd % 16)

(* The registers of the chip: of the year two digits and the century's bit. *)
RtcSetTime(t) == [sec |-> t.sec, digits |-> Dec2Bcd((t.year - 1900) % 100), century |-> t.year - 1900 >= 100]

(* mutant: the year without the century *)
RtcGetTime_NoCentury(r) == [sec |-> r.sec, year |-> 1900 + Bcd2Dec(r.digits)]

RtcGetTime(r) == [sec |-> r.sec, year |-> 1900 + Bcd2Dec(r.digits) + (IF r.century THEN 100 ELSE 0)]

ClockInit ==
  LET t == [sec |-> 0, year |-> 1999] IN
  /\ seconds = 0 /\ rtc = RtcSetTime(t) /\ base = t /\ updateTime = 0
  /\ tpc = [p \in TimeParties |-> "idle"] /\ holds = [p \in TimeParties |-> t] /\ sets = 0
  /\ alone = TRUE /\ spoilt = FALSE /\ asked = t /\ refused = FALSE

-----------------------------------------------------------------------------
Begin(p) ==
  /\ tpc[p] = "idle" /\ tpc' = [tpc EXCEPT ![p] = "chip"]
  /\ updateTime' = seconds /\ alone' = Idle

SetTime(p) ==
  \/ /\ Begin(p) /\ sets < MaxSets /\ sets' = sets + 1
     /\ \E off \in Offsets, y \in Years : holds' = [holds EXCEPT ![p] = [sec |-> off, year |-> y]]
     /\ UNCHANGED <<rtc, base, spoilt, asked, refused>>
  \/ /\ tpc[p] = "chip" /\ tpc' = [tpc EXCEPT ![p] = "base"]
     /\ \E ok \in BOOLEAN :
          /\ rtc' = IF ok THEN RtcSetTime(holds[p]) ELSE rtc
          /\ refused' = (~ok \/ holds[p].year \notin 1900..2099)
     /\ asked' = holds[p] /\ UNCHANGED <<base, updateTime, holds, sets, alone, spoilt>>
  \/ /\ tpc[p] = "base" /\ tpc' = [tpc EXCEPT ![p] = "idle"]
     /\ base' = TimeAt(holds[p], seconds) /\ spoilt' = ~alone
     /\ UNCHANGED <<rtc, updateTime, holds, sets, alone, asked, refused>>

(* updateFromRTC, when the thread's time has come. *)
Sync ==
  /\ \/ Begin("sync") /\ seconds - updateTime >= SyncInterval /\ UNCHANGED <<base, holds, spoilt>>
     \/ /\ tpc["sync"] = "chip" /\ tpc' = [tpc EXCEPT !["sync"] = "base"]
        /\ \E read \in {TimeAt(RtcGetTime(rtc), seconds), NoTime} : holds' = [holds EXCEPT !["sync"] = read]
        /\ UNCHANGED <<base, updateTime, alone, spoilt>>
     \/ /\ tpc["sync"] = "base" /\ tpc' = [tpc EXCEPT !["sync"] = "idle"]
        /\ base' = holds["sync"] /\ spoilt' = (~alone \/ holds["sync"] = NoTime)
        /\ UNCHANGED <<updateTime, holds, alone>>
  /\ UNCHANGED <<rtc, sets, asked, refused>>

Second ==
  /\ Idle /\ seconds < MaxNow /\ seconds - updateTime < SyncInterval /\ seconds' = seconds + 1
  /\ UNCHANGED <<rtc, base, updateTime, tpc, holds, sets, alone, spoilt, asked, refused>>

ClockNext == Second \/ ((Sync \/ \E p \in TimeSetters : SetTime(p)) /\ UNCHANGED seconds)

-----------------------------------------------------------------------------
(* What getTime gives now. *)
GetTime == [base EXCEPT !.sec = @ + (seconds - updateTime)]

(* At rest the clock is the chip's and shows the time last set, except     *)
(* until the next operation after two were under way at once, or the chip  *)
(* could not be read, and except for a time that the chip has not taken,   *)
(* which the clock shows until it is renewed.                              *)
ShowsTimeSet ==
  Idle => /\ spoilt \/ refused \/ GetTime = TimeAt(asked, seconds)
          /\ spoilt \/ GetTime \in {TimeAt(RtcGetTime(rtc), seconds), TimeAt(asked, seconds)}

(* While the chip is read the clock is behind, by what has passed since    *)
(* the base was taken and never by more than the thread's interval.        *)
BehindWhileRead ==
  tpc["sync"] # "idle" /\ alone /\ ~spoilt /\ ~refused =>
    TimeAt(asked, seconds).sec - GetTime.sec \in 0..SyncInterval

(* The chip keeps every time of its two centuries. *)
TwoCenturies == refused \/ RtcGetTime(rtc) = asked

ClockInv == ShowsTimeSet /\ BehindWhileRead /\ TwoCenturies
==================================================================================
