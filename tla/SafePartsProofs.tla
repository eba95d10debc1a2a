--------------------------- MODULE SafePartsProofs ---------------------------
(***************************************************************************)
(* Proofs about the parts that SafeParts sets side by side, each for every *)
(* value of its constants.                                                 *)
(***************************************************************************)
EXTENDS SafeParts, TLAPS

-----------------------------------------------------------------------------
(* Battery: its thread, its timer and setSleep.                            *)
(* A timer counts as stopped while its esp_timer runs only between the two *)
(* statements of a stop, or when setSleep's fell into a start; and between *)
(* its stop and its start nothing else arms it.                            *)
Stops ==
  /\ tstate = "Stopped" /\ armed # "no" => setpc = "halt" \/ bpc = "halt" \/ raced
  /\ bpc \in {"measure", "start", "arm"} /\ armed # "no" => setpc = "halt" \/ raced

BattIInv == BattTypeOK /\ CalledInTime /\ Stops

LEMMA BattInitIInv == BattInit => BattIInv
<1> SUFFICES ASSUME BattInit PROVE BattIInv
  OBVIOUS
<1>1. charge \in Charging
  BY DEF BattInit, Pins, Charging
<1>2. 0 \in 0..MaxWorld
  BY BatteryAssumption
<1>3. BattTypeOK
  BY <1>1, <1>2, Zenon DEF BattInit, BattTypeOK, Level
<1>4. Right = "short"
  BY DEF BattInit, Right
<1>5. CalledInTime /\ Stops
  BY <1>4 DEF BattInit, CalledInTime, Stops
<1> QED BY <1>3, <1>5 DEF BattIInv

LEMMA BattStepTypes == BattTypeOK /\ [BattNext]_battVars => BattTypeOK'
<1> SUFFICES ASSUME BattTypeOK, [BattNext]_battVars PROVE BattTypeOK'
  OBVIOUS
<1> USE BatteryAssumption DEF BattTypeOK
<1>1. CASE SetSleep
  BY <1>1 DEF SetSleep, Caller, chargeVars, worldVars
<1>2. CASE Setting
  BY <1>2, ZenonT(30) DEF Setting, SetReconf, SetStop, SetHalt, SetFlag, Caller, chargeVars, worldVars
<1>3. CASE Take
  BY <1>3, ZenonT(30) DEF Take, Thread, chargeVars, worldVars
<1>4. CASE StartTimer \/ Arm
  BY <1>4 DEF StartTimer, Arm, Thread, chargeVars, worldVars, Right
<1>5. CASE Measure
  <2>1. charge' \in Charging /\ pending' \in Charging \cup {"none"} /\ held' \in BOOLEAN
    BY <1>5 DEF Measure, CheckCharging, Update, Pins, chargeVars, Charging
  <2>2. level' \in Level /\ isShutdown' \in BOOLEAN
    BY <1>5 DEF Measure, Measures, Readings, Level
  <2> QED BY <1>5, <2>1, <2>2 DEF Measure, Thread, timerVars, worldVars
<1>6. CASE Expires \/ HoldPasses
  BY <1>6 DEF Expires, HoldPasses, chargeVars, worldVars, timerVars
<1>7. CASE World
  <2>1. world' \in 0..MaxWorld
    BY <1>7 DEF World
  <2>2. plugged' \in BOOLEAN /\ full' \in BOOLEAN /\ sem' \in BOOLEAN /\ cell' \in Level
    BY <1>7 DEF World
  <2> QED BY <1>7, <2>1, <2>2 DEF World, chargeVars, timerVars
<1>8. CASE UNCHANGED battVars
  BY <1>8 DEF battVars, timerVars, chargeVars, worldVars
<1>9. CASE Halt
  BY <1>9 DEF Halt, Thread, chargeVars, worldVars
<1> QED BY <1>1, <1>2, <1>3, <1>4, <1>5, <1>6, <1>7, <1>8, <1>9 DEF BattNext, BattThread

LEMMA BattStepCalled == BattIInv /\ [BattNext]_battVars => CalledInTime' /\ Stops'
<1> SUFFICES ASSUME BattIInv, [BattNext]_battVars PROVE CalledInTime' /\ Stops'
  OBVIOUS
<1> USE DEF BattIInv, BattTypeOK, CalledInTime, Stops, Right
<1>1. CASE SetSleep
  BY <1>1 DEF SetSleep, Caller, chargeVars
<1>2. CASE SetReconf \/ SetStop \/ SetHalt
  BY <1>2 DEF SetReconf, SetStop, SetHalt, Caller, chargeVars
<1>3. CASE SetFlag
  BY <1>3 DEF SetFlag, Caller, chargeVars, Locked
<1>4. CASE Take
  BY <1>4 DEF Take, Thread
<1>5. CASE StartTimer
  BY <1>5 DEF StartTimer, Thread, chargeVars
<1>6. CASE Arm
  BY <1>6 DEF Arm, Thread, chargeVars
<1>7. CASE Measure
  BY <1>7 DEF Measure, Thread, timerVars
<1>8. CASE Expires
  BY <1>8 DEF Expires
<1>9. CASE HoldPasses
  BY <1>9 DEF HoldPasses, timerVars
<1>10. CASE World
  BY <1>10 DEF World, chargeVars, timerVars
<1>11. CASE UNCHANGED battVars
  BY <1>11 DEF battVars, timerVars, chargeVars
<1>12. CASE Halt
  BY <1>12 DEF Halt, Thread
<1> QED
  BY <1>1, <1>2, <1>3, <1>4, <1>5, <1>6, <1>7, <1>8, <1>9, <1>10, <1>11, <1>12
  DEF BattNext, BattThread, Setting

(* The battery's thread never waits without something that will call it,   *)
(* however setSleep's stop and the interrupts fall between its steps.      *)
THEOREM AlwaysCalled == BattSpec => []BattInv
<1>1. BattIInv /\ [BattNext]_battVars => BattIInv'
  BY BattStepTypes, BattStepCalled DEF BattIInv
<1>2. BattIInv => BattInv
  BY DEF BattIInv, BattInv
<1> QED BY BattInitIInv, <1>1, <1>2, PTL DEF BattSpec

-----------------------------------------------------------------------------
(* The status center: the LED will be right, for the last of the events    *)
(* that wait and say anything says what the battery knows; if none does    *)
(* the LED is right already.                                               *)
Decisive == {"Full", "Charging", "VeryLow", "Low"}
Tells(e) == IF e = "VeryLow" THEN "Empty" ELSE IF e = "Low" THEN "Ok" ELSE e
ToShow == IF charge # "Unplugged" THEN charge ELSE IF level = "VeryLow" THEN "Empty" ELSE "Ok"

Silent(s) == \A i \in DOMAIN s : s[i] \notin Decisive
LastTells(s, v) ==
  \E i \in DOMAIN s : s[i] \in Decisive /\ Tells(s[i]) = v /\ \A j \in DOMAIN s : j > i => s[j] \notin Decisive

LastShows == ~lost /\ ~isShutdown => LastTells(events, ToShow) \/ (Silent(events) /\ battState = ToShow)

CenterFlags == ended \in BOOLEAN /\ lost \in BOOLEAN
CenterQueued == events \in Seq(Level \cup Charging \cup {Phone}) /\ Len(events) =< CenterQueue
CenterStates == battState \in {"Ok", "Empty", "Charging", "Full"}

CenterIInv == CenterQueued /\ CenterStates /\ CenterFlags /\ (isShutdown => bpc = "off") /\ LastShows

LEMMA ConcatTells ==
  ASSUME NEW S, NEW s \in Seq(S), NEW p \in Seq(S), NEW v, LastTells(p, v)
  PROVE  LastTells(s \o p, v)
<1>1. PICK i \in DOMAIN p : /\ p[i] \in Decisive /\ Tells(p[i]) = v
                            /\ \A j \in DOMAIN p : j > i => p[j] \notin Decisive
  BY DEF LastTells
<1> DEFINE q == s \o p
           k == Len(s) + i
<1>2. Len(s) \in Nat /\ Len(p) \in Nat /\ i \in 1..Len(p) /\ Len(q) = Len(s) + Len(p)
  OBVIOUS
<1>3. k \in DOMAIN q /\ q[k] = p[i]
  BY <1>2
<1>4. ASSUME NEW j \in DOMAIN q, j > k PROVE q[j] \notin Decisive
  <2>1. j - Len(s) \in DOMAIN p /\ j - Len(s) > i /\ q[j] = p[j - Len(s)]
    BY <1>2, <1>4
  <2> QED BY <1>1, <2>1
<1> HIDE DEF k
<1> QED BY <1>1, <1>3, <1>4 DEF LastTells

LEMMA TailTells ==
  ASSUME NEW S, NEW s \in Seq(S), s # <<>>, NEW v
  PROVE  /\ LastTells(s, v) => LastTells(Tail(s), v) \/ (Silent(Tail(s)) /\ Head(s) \in Decisive /\ Tells(Head(s)) = v)
         /\ Silent(s) => Silent(Tail(s)) /\ Head(s) \notin Decisive
<1> DEFINE t == Tail(s)
<1>1. Len(s) \in Nat /\ Len(t) = Len(s) - 1 /\ Head(s) = s[1] /\ 1 \in DOMAIN s
  OBVIOUS
<1>2. \A i \in DOMAIN t : i + 1 \in DOMAIN s /\ t[i] = s[i + 1]
  BY <1>1
<1>3. Silent(s) => Silent(t) /\ Head(s) \notin Decisive
  BY <1>1, <1>2 DEF Silent
<1>4. ASSUME LastTells(s, v) PROVE LastTells(t, v) \/ (Silent(t) /\ Head(s) \in Decisive /\ Tells(Head(s)) = v)
  <2>1. PICK i \in DOMAIN s : /\ s[i] \in Decisive /\ Tells(s[i]) = v
                              /\ \A j \in DOMAIN s : j > i => s[j] \notin Decisive
    BY <1>4 DEF LastTells
  <2>2. CASE i = 1
    <3>1. Silent(t)
      BY <1>1, <1>2, <2>1, <2>2 DEF Silent
    <3> QED BY <1>1, <2>1, <2>2, <3>1
  <2>3. CASE i # 1
    <3>1. i - 1 \in DOMAIN t /\ t[i - 1] = s[i]
      BY <1>1, <2>3
    <3>2. \A j \in DOMAIN t : j > i - 1 => t[j] \notin Decisive
      BY <1>1, <1>2, <2>1
    <3> QED BY <2>1, <3>1, <3>2 DEF LastTells
  <2> QED BY <2>2, <2>3
<1> QED BY <1>3, <1>4

LEMMA CenterInitIInv == BattInit /\ CenterInit => CenterIInv
<1> SUFFICES ASSUME BattInit, CenterInit PROVE CenterIInv
  OBVIOUS
<1> USE StatusCenterAssumption
<1>0. charge \in {"Unplugged", "Charging"} /\ level = "Low" /\ isShutdown = FALSE
  BY DEF BattInit, Pins
<1>1. CenterStates /\ CenterFlags
  BY DEF CenterInit, CenterStates, CenterFlags
<1>2. CASE charge = "Unplugged"
  <2>1. events = <<"Low">>
    BY <1>0, <1>2 DEF CenterInit
  <2>2. CenterQueued
    BY <2>1 DEF CenterQueued, Level, Charging
  <2>3. LastTells(events, ToShow)
    BY <1>0, <1>2, <2>1 DEF LastTells, ToShow, Decisive, Tells
  <2> QED BY <1>0, <1>1, <2>2, <2>3 DEF CenterIInv, LastShows
<1>3. CASE charge = "Charging"
  <2>1. events = <<"Low", "Charging">>
    BY <1>0, <1>3 DEF CenterInit
  <2>2. CenterQueued
    BY <2>1 DEF CenterQueued, Level, Charging
  <2>3. LastTells(events, ToShow)
    BY <1>0, <1>3, <2>1 DEF LastTells, ToShow, Decisive, Tells
  <2> QED BY <1>0, <1>1, <2>2, <2>3 DEF CenterIInv, LastShows
<1> QED BY <1>0, <1>2, <1>3

(* What a measurement posts says what it has found. *)
LEMMA PostsTell ==
  ASSUME BattTypeOK, BattTypeOK', Measure
  PROVE  /\ Posts \in Seq(Level \cup Charging)
         /\ ~isShutdown /\ ~isShutdown' => LastTells(Posts, ToShow') \/ (Posts = <<>> /\ ToShow' = ToShow)
<1> DEFINE changed == charge' # charge
           sampled == charge' = "Unplugged"
           again == asleep \/ (~changed /\ level' # level)
<1>1. charge' \in Charging /\ level' \in Level
  BY DEF BattTypeOK
<1>2. CASE isShutdown'
  BY <1>1, <1>2 DEF Posts
<1>3. CASE ~isShutdown'
  <2>1. sampled => level' \in {"VeryLow", "Low"}
    BY <1>1, <1>3 DEF Measure, Measures, Level
  <2>2. CASE changed /\ ~sampled
    <3>1. Posts = <<charge'>>
      BY <1>3, <2>2 DEF Posts
    <3>2. charge' \in Decisive /\ Tells(charge') = charge' /\ ToShow' = charge'
      BY <1>1, <2>2 DEF Charging, Decisive, Tells, ToShow
    <3>3. LastTells(Posts, ToShow')
      BY <3>1, <3>2 DEF LastTells
    <3> QED BY <1>1, <3>1, <3>3
  <2>3. CASE changed /\ sampled
    <3>1. Posts = <<level'>> \o <<charge'>> \o (IF asleep THEN <<level'>> ELSE <<>>)
      BY <1>3, <2>3, Zenon DEF Posts
    <3>2. level' \in Decisive /\ Tells(level') = ToShow' /\ charge' \notin Decisive
      BY <2>1, <2>3 DEF Decisive, Tells, ToShow
    <3>3. CASE asleep
      BY <1>1, <3>1, <3>2, <3>3 DEF LastTells
    <3>4. CASE ~asleep
      BY <1>1, <3>1, <3>2, <3>4 DEF LastTells
    <3> QED BY <3>3, <3>4
  <2>4. CASE ~changed /\ sampled /\ again
    <3>1. Posts = <<level'>>
      BY <1>3, <2>4 DEF Posts
    <3>2. level' \in Decisive /\ Tells(level') = ToShow'
      BY <2>1, <2>4 DEF Decisive, Tells, ToShow
    <3> QED BY <1>1, <3>1, <3>2 DEF LastTells
  <2>5. CASE ~changed /\ ~(sampled /\ again)
    <3>1. Posts = <<>>
      BY <1>3, <2>5 DEF Posts
    <3>2. ToShow' = ToShow
      BY <2>5 DEF ToShow
    <3> QED BY <3>1, <3>2
  <2> QED BY <2>2, <2>3, <2>4, <2>5
<1> QED BY <1>2, <1>3

LEMMA CenterMeasures ==
  ASSUME BattTypeOK, BattTypeOK', CenterIInv, MeasureAndPost
  PROVE  CenterIInv'
<1> DEFINE posts == Posts
           room == CenterQueue - Len(events)
           n == IF room < Len(posts) THEN room ELSE Len(posts)
<1> USE StatusCenterAssumption
<1>1. posts \in Seq(Level \cup Charging)
  BY PostsTell DEF MeasureAndPost
<1>2. /\ events' = events \o SubSeq(posts, 1, n) /\ lost' = (lost \/ room < Len(posts))
      /\ UNCHANGED <<battState, ended>>
  BY DEF MeasureAndPost, Receive
<1>3. bpc = "measure" /\ (isShutdown' => bpc' = "off")
  BY DEF MeasureAndPost, Measure
<1>4. ~isShutdown
  BY <1>3 DEF CenterIInv
<1>5. ~isShutdown' => LastTells(posts, ToShow') \/ (posts = <<>> /\ ToShow' = ToShow)
  BY <1>4, PostsTell DEF MeasureAndPost
<1> HIDE DEF posts
<1>6. events \in Seq(Level \cup Charging \cup {Phone}) /\ Len(events) <= CenterQueue /\ Len(events) \in Nat
  BY DEF CenterIInv, CenterQueued
<1>7. Len(posts) \in Nat /\ posts \in Seq(Level \cup Charging \cup {Phone})
  BY <1>1
<1>8. n \in 0..Len(posts) /\ n <= room
  BY <1>6, <1>7
<1>9. CenterQueued'
  <2> DEFINE p == SubSeq(posts, 1, n)
  <2>1. p \in Seq(Level \cup Charging \cup {Phone}) /\ Len(p) = n
    BY <1>7, <1>8
  <2> HIDE DEF p
  <2>2. events \o p \in Seq(Level \cup Charging \cup {Phone}) /\ Len(events \o p) = Len(events) + n
    BY <1>6, <2>1
  <2> QED BY <1>2, <1>6, <1>8, <2>2 DEF CenterQueued, p
<1>10. CenterStates' /\ CenterFlags'
  BY <1>2 DEF CenterIInv, CenterStates, CenterFlags
<1>11. ASSUME ~lost', ~isShutdown' PROVE LastTells(events, ToShow)' \/ (Silent(events)' /\ battState' = ToShow')
  <2>1. ~lost /\ n = Len(posts)
    BY <1>2, <1>11
  <2>2. SubSeq(posts, 1, n) = posts
    BY <1>7, <2>1
  <2>3. events' = events \o posts
    BY <1>2, <2>2
  <2>4. CASE LastTells(posts, ToShow')
    BY <1>6, <1>7, <2>3, <2>4, ConcatTells
  <2>5. CASE posts = <<>> /\ ToShow' = ToShow
    <3>1. events' = events
      BY <1>6, <2>3, <2>5
    <3> QED BY <1>2, <1>4, <2>1, <2>5, <3>1 DEF CenterIInv, LastShows, LastTells, Silent
  <2> QED BY <1>5, <1>11, <2>4, <2>5
<1> QED BY <1>3, <1>9, <1>10, <1>11 DEF CenterIInv, LastShows

LEMMA CenterHandles == ASSUME CenterIInv, Handle PROVE CenterIInv'
<1> DEFINE E == Level \cup Charging \cup {Phone}
<1>1. /\ events \in Seq(E) /\ events # <<>> /\ events' = Tail(events)
      /\ UNCHANGED <<charge, level, isShutdown, bpc, lost>>
  BY DEF CenterIInv, CenterQueued, Handle, battVars, chargeVars
<1>2. Head(events) \in E /\ Tail(events) \in Seq(E) /\ Len(Tail(events)) <= Len(events) /\ Len(events) \in Nat
      /\ Len(Tail(events)) \in Nat
  BY <1>1
<1>3. CenterQueued'
  BY <1>1, <1>2, StatusCenterAssumption DEF CenterIInv, CenterQueued
<1>4. battState' = IF Head(events) \in Decisive THEN Tells(Head(events)) ELSE battState
  BY <1>2 DEF Handle, ProcessBatt, Decisive, Tells, Level, Charging, Phone
<1>5. CenterStates'
  BY <1>4 DEF CenterIInv, CenterStates, Decisive, Tells
<1>6. CenterFlags'
  <2>1. CASE Head(events) = Phone
    BY <2>1 DEF Handle, CenterIInv, CenterFlags
  <2>2. CASE Head(events) # Phone
    BY <2>2 DEF Handle, ProcessBatt, CenterIInv, CenterFlags
  <2> QED BY <2>1, <2>2
<1>7. ToShow' = ToShow
  BY <1>1 DEF ToShow
<1>8. LastShows'
  <2> SUFFICES ASSUME ~lost', ~isShutdown' PROVE LastTells(events, ToShow)' \/ (Silent(events)' /\ battState' = ToShow')
    BY DEF LastShows
  <2>1. LastTells(events, ToShow) \/ (Silent(events) /\ battState = ToShow)
    BY <1>1 DEF CenterIInv, LastShows
  <2>2. LastTells(Tail(events), ToShow) \/ (Silent(Tail(events)) /\ battState' = ToShow)
    BY <1>1, <1>4, <2>1, TailTells
  <2>3. LastTells(events, ToShow)' = LastTells(Tail(events), ToShow) /\ Silent(events)' = Silent(Tail(events))
    BY <1>1, <1>7 DEF LastTells, Silent
  <2> QED BY <1>7, <2>2, <2>3
<1> QED BY <1>1, <1>3, <1>5, <1>6, <1>8 DEF CenterIInv

LEMMA CenterNotified == ASSUME CenterIInv, Notify PROVE CenterIInv'
<1> DEFINE E == Level \cup Charging \cup {Phone}
<1>1. /\ events \in Seq(E) /\ Len(events) \in Nat /\ Len(events) <= CenterQueue /\ Phone \in E
      /\ UNCHANGED <<charge, level, isShutdown, bpc, lost, battState, ended>>
  BY DEF CenterIInv, CenterQueued, Notify, battVars, chargeVars
<1>2. events' = events \/ (Len(events) < CenterQueue /\ events' = Append(events, Phone))
  BY DEF Notify
<1>3. CenterQueued'
  BY <1>1, <1>2, StatusCenterAssumption DEF CenterQueued
<1>4. ToShow' = ToShow /\ Phone \notin Decisive
  BY <1>1 DEF ToShow, Phone, Decisive
<1>5. (LastTells(events, ToShow) => LastTells(events, ToShow)') /\ (Silent(events) => Silent(events)')
  <2>1. CASE events' = events
    BY <1>4, <2>1 DEF LastTells, Silent
  <2>2. CASE events' = Append(events, Phone)
    <3>1. /\ DOMAIN events \subseteq DOMAIN events' /\ \A i \in DOMAIN events : events'[i] = events[i]
          /\ \A i \in DOMAIN events' : i \notin DOMAIN events => events'[i] = Phone
      BY <1>1, <2>2
    <3> QED BY <1>4, <3>1 DEF LastTells, Silent
  <2> QED BY <1>2, <2>1, <2>2
<1> QED BY <1>1, <1>3, <1>4, <1>5 DEF CenterIInv, CenterStates, CenterFlags, LastShows

(* A step of the battery that posts nothing has measured nothing. *)
LEMMA CenterLeft ==
  ASSUME CenterIInv, SetSleep \/ Setting \/ BattThread \/ Expires \/ HoldPasses \/ World, UNCHANGED centerVars
  PROVE  CenterIInv'
<1>1. UNCHANGED <<charge, level, isShutdown>> /\ (bpc = "off" => bpc' = "off")
  BY DEF SetSleep, Setting, SetReconf, SetStop, SetHalt, SetFlag, BattThread, Take, Halt, StartTimer, Arm,
         Expires, HoldPasses, World, Caller, Thread, chargeVars
<1> QED BY <1>1 DEF centerVars, CenterIInv, CenterQueued, CenterStates, CenterFlags, LastShows, LastTells, Silent, ToShow

LEMMA CenterInvFollows == CenterIInv => CenterInv
<1> SUFFICES ASSUME CenterIInv PROVE CenterInv
  OBVIOUS
<1>1. CenterTypeOK
  BY DEF CenterIInv, CenterTypeOK, CenterQueued, CenterStates, CenterFlags
<1>2. LedShows
  BY DEF CenterIInv, LedShows, LastShows, LastTells, ToShow
<1> QED BY <1>1, <1>2 DEF CenterInv

-----------------------------------------------------------------------------
(* Feed: the images of the camera.                                         *)
(* A frame's bounds are numbers. *)
LEMMA FeedBounds == Images \in Nat /\ MaxFrames \in Nat /\ None \notin Img
  BY FeedAssumption DEF None, Img

LEMMA FeedInitInv == FeedInit => FeedInv
<1>1. FeedInit => FeedTypeOK
  <2>1. 0 \in 0..MaxFrames
    BY FeedBounds
  <2> QED BY <2>1, Zenon DEF FeedInit, FeedTypeOK
<1>2. FeedInit => OneHand
  BY FeedBounds DEF FeedInit, OneHand
<1> QED BY <1>1, <1>2 DEF FeedInv

LEMMA FeedStepInv == FeedInv /\ [FeedNext]_feedVars => FeedInv'
<1> SUFFICES ASSUME FeedInv, [FeedNext]_feedVars PROVE FeedInv'
  OBVIOUS
<1> USE FeedBounds DEF FeedInv, FeedTypeOK, OneHand
<1>1. CASE ReadLoop
  <2>1. rxBuf' \in 0..MaxFrames
    BY <1>1 DEF ReadLoop
  <2> QED BY <1>1, <2>1 DEF ReadLoop
<1>2. CASE DecodeLoop
  <2>1. rxBuf' \in 0..MaxFrames
    BY <1>2 DEF DecodeLoop
  <2>2. CASE UNCHANGED <<freeImgs, freeImg>>
    BY <1>2, <2>1, <2>2, Zenon DEF DecodeLoop
  <2>3. CASE \E i \in freeImgs : freeImg' = i /\ freeImgs' = freeImgs \ {i}
    <3>1. PICK i \in freeImgs : freeImg' = i /\ freeImgs' = freeImgs \ {i}
      BY <2>3
    <3>2. i \in Img /\ i # readyFrame /\ i # frameIndex
      OBVIOUS
    <3> QED BY <1>2, <2>1, <3>1, <3>2 DEF DecodeLoop
  <2> QED BY <1>2, <2>2, <2>3 DEF DecodeLoop
<1>3. CASE DecodeError
  BY <1>3 DEF DecodeError
<1>4. CASE DecodeDone
  BY <1>4 DEF DecodeDone
<1>5. CASE NextFrame
  BY <1>5 DEF NextFrame
<1>6. CASE FrameShown
  BY <1>6 DEF FrameShown
<1>7. CASE ClearFrame
  BY <1>7 DEF ClearFrame
<1>8. CASE UNCHANGED feedVars
  BY <1>8 DEF feedVars
<1> QED BY <1>1, <1>2, <1>3, <1>4, <1>5, <1>6, <1>7, <1>8 DEF FeedNext

(* No image is filled while it is shown or waits for that, whatever the    *)
(* decoder and the screen do between each other's steps.                   *)
THEOREM OneHandAlways == FeedSpec => []FeedInv
  BY FeedInitInv, FeedStepInv, PTL DEF FeedSpec

LEMMA FeedStepLost ==
  ASSUME FeedInv, [FeedNext]_feedVars
  PROVE  \A i \in Lost' \ Lost : i = readyFrame
<1> USE FeedBounds DEF FeedInv, FeedTypeOK, OneHand, Lost
<1>1. CASE ReadLoop
  BY <1>1 DEF ReadLoop
<1>2. CASE DecodeLoop
  <2>1. freeImgs \subseteq freeImgs' \cup {freeImg'}
    BY <1>2 DEF DecodeLoop
  <2> QED BY <1>2, <2>1 DEF DecodeLoop
<1>3. CASE DecodeError
  BY <1>3 DEF DecodeError
<1>4. CASE DecodeDone
  BY <1>4 DEF DecodeDone
<1>5. CASE NextFrame
  BY <1>5 DEF NextFrame
<1>6. CASE FrameShown
  BY <1>6 DEF FrameShown
<1>7. CASE ClearFrame
  BY <1>7 DEF ClearFrame
<1>8. CASE UNCHANGED feedVars
  BY <1>8 DEF feedVars
<1> QED BY <1>1, <1>2, <1>3, <1>4, <1>5, <1>6, <1>7, <1>8 DEF FeedNext

(* The feed loses an image only with a frame that nobody took in time.     *)
THEOREM OnlyUntakenLost == FeedSpec => LostUntaken
<1>1. FeedInv /\ [FeedNext]_feedVars => [\A i \in Lost' \ Lost : i = readyFrame]_feedVars
  BY FeedStepLost
<1> QED BY <1>1, OneHandAlways, PTL DEF FeedSpec, LostUntaken

-----------------------------------------------------------------------------
(* The Bluetooth server: the questions and answers of its set-up, one      *)
(* after the other, and what goes with them.                               *)
NoDescr == \A i \in DOMAIN table : ~table[i].descr
TxLast  == table # <<>> /\ table[Len(table)].chr = "tx"
Answer(to, ok) == [to |-> to, ok |-> ok]

AsksService == requests = <<"service">> /\ replies = <<>>
SaysService == requests = <<>> /\ \E b \in BOOLEAN : replies = <<Answer("service", b)>>
AsksChars   == requests = <<"rx", "tx">> /\ replies = <<>>
SaysRx      == requests = <<"tx">> /\ \E b \in BOOLEAN : replies = <<Answer("rx", b)>>
AsksTx      == requests = <<"tx">> /\ replies = <<>>
SaysBoth    == requests = <<>> /\ \E b, c \in BOOLEAN : replies = <<Answer("rx", b), Answer("tx", c)>> /\ (c => TxLast)
SaysTx      == requests = <<>> /\ \E b \in BOOLEAN : replies = <<Answer("tx", b)>> /\ (b => TxLast)
Asked == AsksService \/ SaysService \/ AsksChars \/ SaysRx \/ AsksTx \/ SaysBoth \/ SaysTx
BeforeDescr == NoDescr /\ ctrlDescr = NoChar /\ pendingDescrs = <<>> /\ ~descrInFlight

AsksDescr ==
  /\ requests = <<"descr">> /\ replies = <<>> /\ NoDescr /\ TxLast
  /\ ctrlDescr = NoChar /\ pendingDescrs = <<"tx">> /\ "tx" \in charHndls
SaysDescr ==
  /\ requests = <<>> /\ ctrlDescr = NoChar /\ pendingDescrs = <<"tx">> /\ "tx" \in charHndls
  /\ \E b \in BOOLEAN : replies = <<Answer("descr", b)>> /\ (b <=> ~NoDescr)
IsSetUp == requests = <<>> /\ replies = <<>> /\ (ctrlDescr # NoChar <=> ~NoDescr)

SetUpInv == (Asked /\ BeforeDescr) \/ AsksDescr \/ SaysDescr \/ IsSetUp

TableInv ==
  /\ table \in Seq([chr : {"rx", "tx"}, descr : BOOLEAN])
  /\ \A i \in DOMAIN table : table[i].descr => table[i].chr = "tx"

HandlesInv == charHndls \subseteq {"rx", "tx"} /\ ctrlDescr \in {"tx", NoChar}

BuiltInv == SetUpInv /\ TableInv /\ HandlesInv

LEMMA TupleSteps ==
  /\ \A a : Tail(<<a>>) = <<>> /\ Head(<<a>>) = a /\ Append(<<>>, a) = <<a>> /\ <<a>> # <<>>
  /\ \A a, b : Tail(<<a, b>>) = <<b>> /\ Head(<<a, b>>) = a /\ Append(<<a>>, b) = <<a, b>> /\ <<a, b>> # <<>>
<1>1. \A a : Tail(<<a>>) = <<>> /\ Head(<<a>>) = a /\ Append(<<>>, a) = <<a>> /\ <<a>> # <<>>
  OBVIOUS
<1>2. \A a, b : Tail(<<a, b>>) = <<b>>
  OBVIOUS
<1>3. \A a, b : Head(<<a, b>>) = a /\ <<a, b>> # <<>>
  OBVIOUS
<1>4. ASSUME NEW a, NEW b PROVE Append(<<a>>, b) = <<a, b>>
  <2>1. <<a>> \in Seq({a, b}) /\ <<a, b>> \in Seq({a, b}) /\ b \in {a, b}
    OBVIOUS
  <2> DEFINE s == Append(<<a>>, b)
  <2>2. s \in Seq({a, b}) /\ Len(s) = 2 /\ s[1] = a /\ s[2] = b
    BY <2>1
  <2> HIDE DEF s
  <2>3. s = <<a, b>>
    BY <2>1, <2>2
  <2> QED BY <2>3 DEF s
<1> QED BY <1>1, <1>2, <1>3, <1>4

LEMMA TableGrows ==
  ASSUME TableInv, NoDescr, NEW c \in {"rx", "tx"}, table' = Append(table, [chr |-> c, descr |-> FALSE])
  PROVE  TableInv' /\ NoDescr' /\ (c = "tx" => TxLast')
<1> DEFINE e == [chr |-> c, descr |-> FALSE]
           E == [chr : {"rx", "tx"}, descr : BOOLEAN]
<1>1. e \in E /\ e.chr = c /\ e.descr = FALSE
  OBVIOUS
<1>2. table \in Seq(E) /\ \A i \in DOMAIN table : ~table[i].descr
  BY DEF TableInv, NoDescr
<1> HIDE DEF e, E
<1>3. table' = Append(table, e)
  BY DEF e
<1>4. table' \in Seq(E) /\ table' # <<>> /\ table'[Len(table')] = e
  BY <1>1, <1>2, <1>3
<1>5. \A i \in DOMAIN table' : table'[i] = e \/ (i \in DOMAIN table /\ table'[i] = table[i])
  BY <1>1, <1>2, <1>3
<1>6. \A i \in DOMAIN table' : ~table'[i].descr
  BY <1>1, <1>2, <1>5
<1> QED BY <1>1, <1>4, <1>6 DEF TableInv, NoDescr, TxLast, E

LEMMA ExceptIn ==
  ASSUME NEW S, NEW s \in Seq(S), NEW n \in DOMAIN s, NEW e \in S
  PROVE  [s EXCEPT ![n] = e] \in Seq(S)
OBVIOUS

LEMMA DescrGiven ==
  ASSUME TableInv, NoDescr, TxLast, table' = [table EXCEPT ![Len(table)].descr = TRUE]
  PROVE  TableInv' /\ ~NoDescr'
<1> DEFINE E == [chr : {"rx", "tx"}, descr : BOOLEAN]
           n == Len(table)
<1>1. table \in Seq(E) /\ n \in DOMAIN table /\ n \in Nat
  BY DEF TableInv, TxLast
<1>2. table[n] \in E
  <2> HIDE DEF E, n
  <2> QED BY <1>1
<1>3. table[n].chr = "tx"
  BY DEF TxLast
<1> DEFINE e == [table[n] EXCEPT !.descr = TRUE]
<1>4. e \in E /\ e.chr = "tx" /\ e.descr = TRUE
  BY <1>2, <1>3
<1>5. table' = [table EXCEPT ![n] = e]
  OBVIOUS
<1> HIDE DEF E, n, e
<1>6. table' \in Seq(E)
  <2>1. [table EXCEPT ![n] = e] \in Seq(E)
    BY <1>1, <1>4, ExceptIn
  <2> QED BY <1>5, <2>1
<1>7. DOMAIN table' = DOMAIN table /\ table'[n] = e /\ \A i \in DOMAIN table : i # n => table'[i] = table[i]
  BY <1>1, <1>5
<1> QED BY <1>1, <1>4, <1>6, <1>7 DEF TableInv, NoDescr, E

LEMMA ServerAnswers == ASSUME BuiltInv, Stack PROVE BuiltInv'
<1> USE DEF BuiltInv
<1>1. PICK ok \in BOOLEAN :
        /\ replies' = Append(replies, Answer(Head(requests), ok))
        /\ table' = IF ~ok \/ Head(requests) = "service" THEN table
                    ELSE IF Head(requests) = "descr" THEN [table EXCEPT ![Len(table)].descr = TRUE]
                    ELSE Append(table, [chr |-> Head(requests), descr |-> FALSE])
  BY DEF Stack, Answer
<1>2. requests # <<>> /\ requests' = Tail(requests) /\ UNCHANGED <<pendingDescrs, descrInFlight, charHndls, ctrlDescr>>
  BY DEF Stack
<1>3. HandlesInv'
  BY <1>2 DEF HandlesInv
<1>4. CASE AsksService /\ BeforeDescr
  <2>1. SaysService' /\ table' = table
    BY <1>1, <1>2, <1>4, TupleSteps DEF AsksService, SaysService
  <2> QED BY <1>2, <1>3, <1>4, <2>1 DEF SetUpInv, Asked, BeforeDescr, NoDescr, TableInv
<1>5. CASE AsksChars /\ BeforeDescr
  <2>1. Head(requests) = "rx" /\ SaysRx'
    BY <1>1, <1>2, <1>5, TupleSteps DEF AsksChars, SaysRx
  <2>2. TableInv' /\ NoDescr'
    <3>1. CASE ok
      BY <1>1, <1>5, <2>1, <3>1, TableGrows DEF BeforeDescr
    <3>2. CASE ~ok
      BY <1>1, <1>5, <3>2 DEF BeforeDescr, NoDescr, TableInv
    <3> QED BY <3>1, <3>2
  <2> QED BY <1>2, <1>3, <1>5, <2>1, <2>2 DEF SetUpInv, Asked, BeforeDescr
<1>6. CASE (AsksTx \/ SaysRx) /\ BeforeDescr
  <2>1. Head(requests) = "tx" /\ requests' = <<>>
    BY <1>2, <1>6, TupleSteps DEF AsksTx, SaysRx
  <2>2. TableInv' /\ NoDescr' /\ (ok => TxLast')
    <3>1. CASE ok
      BY <1>1, <1>6, <2>1, <3>1, TableGrows DEF BeforeDescr
    <3>2. CASE ~ok
      BY <1>1, <1>6, <3>2 DEF BeforeDescr, NoDescr, TableInv
    <3> QED BY <3>1, <3>2
  <2>3. SaysTx' \/ SaysBoth'
    <3>1. CASE AsksTx
      BY <1>1, <2>1, <2>2, <3>1, TupleSteps DEF AsksTx, SaysTx
    <3>2. CASE SaysRx
      <4>1. PICK b \in BOOLEAN : replies = <<Answer("rx", b)>>
        BY <3>2 DEF SaysRx
      <4>2. replies' = <<Answer("rx", b), Answer("tx", ok)>>
        BY <1>1, <2>1, <4>1, TupleSteps
      <4> QED BY <2>1, <2>2, <4>2 DEF SaysBoth
    <3> QED BY <1>6, <3>1, <3>2
  <2> QED BY <1>2, <1>3, <1>6, <2>2, <2>3 DEF SetUpInv, Asked, BeforeDescr
<1>7. CASE AsksDescr
  <2>1. Head(requests) = "descr" /\ requests' = <<>> /\ replies' = <<Answer("descr", ok)>>
    BY <1>1, <1>2, <1>7, TupleSteps DEF AsksDescr
  <2>2. TableInv' /\ (ok <=> ~NoDescr')
    <3>1. CASE ok
      BY <1>1, <1>7, <2>1, <3>1, DescrGiven DEF AsksDescr
    <3>2. CASE ~ok
      BY <1>1, <1>7, <3>2 DEF AsksDescr, NoDescr, TableInv
    <3> QED BY <3>1, <3>2
  <2> QED BY <1>2, <1>3, <1>7, <2>1, <2>2 DEF SetUpInv, AsksDescr, SaysDescr
<1> QED BY <1>2, <1>4, <1>5, <1>6, <1>7, TupleSteps
        DEF SetUpInv, Asked, SaysService, SaysBoth, SaysTx, SaysDescr, IsSetUp

LEMMA ServerHears ==
  ASSUME BuiltInv, replies # <<>>, replies' = Tail(replies), UNCHANGED table, NEW r, r = Head(replies),
         CASE r.to = "service" -> OnServiceCreated(r.ok)
           [] r.to = "descr" -> OnCharDescrCreated(r.ok)
           [] OTHER -> OnCharCreated(r.to, r.ok)
  PROVE  BuiltInv'
<1> USE DEF BuiltInv
<1>0. TableInv' /\ NoDescr' = NoDescr /\ TxLast' = TxLast
  BY DEF TableInv, NoDescr, TxLast
<1>1. CASE SaysService /\ BeforeDescr
  <2>1. PICK b \in BOOLEAN : replies = <<Answer("service", b)>>
    BY <1>1 DEF SaysService
  <2>2. r.to = "service" /\ r.ok = b /\ replies' = <<>>
    BY <2>1, TupleSteps DEF Answer
  <2>3. OnServiceCreated(b)
    BY <2>2
  <2>4. requests' = IF b THEN <<"rx", "tx">> ELSE <<>>
    BY <1>1, <2>3 DEF OnServiceCreated, Establish, Chars, Notifies, SaysService
  <2>5. AsksChars' \/ IsSetUp'
    BY <1>0, <1>1, <2>2, <2>3, <2>4 DEF AsksChars, IsSetUp, BeforeDescr, OnServiceCreated
  <2> QED BY <1>0, <1>1, <2>3, <2>5 DEF OnServiceCreated, SetUpInv, Asked, BeforeDescr, HandlesInv
<1>2. CASE (SaysRx \/ SaysBoth) /\ BeforeDescr
  <2>1. PICK b \in BOOLEAN : Head(replies) = Answer("rx", b)
    BY <1>2, TupleSteps DEF SaysRx, SaysBoth
  <2>2. r.to = "rx" /\ r.ok = b
    BY <2>1 DEF Answer
  <2>3. OnCharCreated("rx", b)
    BY <2>2
  <2>4. UNCHANGED <<requests, pendingDescrs, descrInFlight, ctrlDescr>> /\ charHndls' \subseteq charHndls \cup {"rx"}
    BY <2>3 DEF OnCharCreated, Notifies
  <2>5. AsksTx' \/ SaysTx'
    <3>1. CASE SaysRx
      BY <2>4, <3>1, TupleSteps DEF SaysRx, AsksTx
    <3>2. CASE SaysBoth
      <4>1. PICK a \in BOOLEAN, c \in BOOLEAN : replies = <<Answer("rx", a), Answer("tx", c)>> /\ (c => TxLast)
        BY <3>2 DEF SaysBoth
      <4>2. replies' = <<Answer("tx", c)>>
        BY <4>1, TupleSteps
      <4> QED BY <1>0, <2>4, <3>2, <4>1, <4>2 DEF SaysBoth, SaysTx
    <3> QED BY <1>2, <3>1, <3>2
  <2> QED BY <1>0, <1>2, <2>4, <2>5 DEF SetUpInv, Asked, BeforeDescr, HandlesInv
<1>3. CASE SaysTx /\ BeforeDescr
  <2>1. PICK b \in BOOLEAN : replies = <<Answer("tx", b)>> /\ (b => TxLast)
    BY <1>3 DEF SaysTx
  <2>2. r.to = "tx" /\ r.ok = b /\ replies' = <<>>
    BY <2>1, TupleSteps DEF Answer
  <2>3. OnCharCreated("tx", b)
    BY <2>2
  <2>4. CASE b
    <3>1. TryIssueNextDescr(<<"tx">>, FALSE) /\ charHndls' = charHndls \cup {"tx"} /\ ctrlDescr' = ctrlDescr
      BY <1>3, <2>3, <2>4, TupleSteps DEF OnCharCreated, Notifies, BeforeDescr, TryIssueNextDescr
    <3>2. pendingDescrs' = <<"tx">> /\ requests' = <<"descr">>
      BY <1>3, <3>1, TupleSteps DEF TryIssueNextDescr, SaysTx
    <3>3. AsksDescr'
      BY <1>0, <1>3, <2>1, <2>2, <2>4, <3>1, <3>2 DEF AsksDescr, BeforeDescr
    <3> QED BY <1>0, <3>1, <3>3 DEF SetUpInv, HandlesInv
  <2>5. CASE ~b
    <3>1. UNCHANGED <<requests, ctrlDescr, charHndls>>
      BY <2>3, <2>5 DEF OnCharCreated
    <3> QED BY <1>0, <1>3, <2>2, <3>1 DEF SetUpInv, IsSetUp, SaysTx, BeforeDescr, HandlesInv
  <2> QED BY <2>4, <2>5
<1>4. CASE SaysDescr
  <2>1. PICK b \in BOOLEAN : replies = <<Answer("descr", b)>> /\ (b <=> ~NoDescr)
    BY <1>4 DEF SaysDescr
  <2>2. r.to = "descr" /\ r.ok = b /\ replies' = <<>>
    BY <2>1, TupleSteps DEF Answer
  <2>3. OnCharDescrCreated(b)
    BY <2>2
  <2>4. pendingDescrs = <<"tx">> /\ "tx" \in charHndls /\ ctrlDescr = NoChar /\ requests = <<>>
    BY <1>4 DEF SaysDescr
  <2>5. /\ requests' = <<>> /\ charHndls' = charHndls
        /\ ctrlDescr' = IF b THEN "tx" ELSE NoChar
    BY <2>3, <2>4, TupleSteps DEF OnCharDescrCreated, TryIssueNextDescr
  <2>6. IsSetUp'
    BY <1>0, <2>1, <2>2, <2>5 DEF IsSetUp, NoChar
  <2> QED BY <1>0, <2>5, <2>6 DEF SetUpInv, HandlesInv
<1> QED BY <1>1, <1>2, <1>3, <1>4 DEF SetUpInv, Asked, AsksService, AsksChars, AsksTx, AsksDescr, IsSetUp

-----------------------------------------------------------------------------
(* A thread past its test of notifyEn belongs to a session that subscribed *)
(* or is held over from one before.                                        *)
SubscribedInv ==
  /\ notifyEn => subscribed /\ con # 0
  /\ \A s \in Senders : spc[s] \in {"con", "chunk"} /\ s \notin heldOver => subscribed /\ con # 0
  /\ \A s \in heldOver : spc[s] \in {"con", "chunk"}
  /\ got # <<>> => subscribed \/ stray

(* While one thread at a time prints, what the phone has of the message    *)
(* under way ends with the chunk before the thread's.                      *)
Within(s) == spc[s] = "chunk" /\ s \notin heldOver /\ chunk[s] > 1

MessageInv ==
  con # 0 /\ ~stray /\ ~mixed =>
    /\ \A s \in Senders : Within(s) => got # <<>> /\ got[Len(got)] = <<txBuf, chunk[s] - 1>>
    /\ (\A s \in Senders : ~Within(s)) => got = <<>> \/ got[Len(got)][2] = Chunks

Whole ==
  stray \/ mixed \/ \A i \in DOMAIN got :
    IF got[i][2] = 1 THEN i = 1 \/ got[i - 1][2] = Chunks
    ELSE i > 1 /\ got[i - 1] = <<got[i][1], got[i][2] - 1>>

SenderTypes ==
  /\ spc \in [Senders -> {"idle", "test", "con", "chunk"}] /\ chunk \in [Senders -> 1..Chunks]
  /\ got \in Seq(Int \X (1..Chunks)) /\ txBuf \in Int /\ prints \in Int
  /\ heldOver \subseteq Senders

AloneSends ==
  /\ \A s \in Senders : spc[s] \in {"test", "con"} => chunk[s] = 1
  /\ ~mixed => \A s, t \in Senders : spc[s] # "idle" /\ spc[t] # "idle" => s = t

SendersInv == SenderTypes /\ AloneSends /\ SubscribedInv /\ MessageInv /\ Whole

PartsInv ==
  /\ parts \in Nat /\ sessions \in 0..MaxSessions /\ con \in 0..sessions
  /\ con = 0 => writeData = <<>>
  /\ con # 0 => writeData = [i \in 1..parts |-> <<con, i>>]
  /\ WholeWrites

LEMMA ServerBuilds == BuiltInv /\ [ServerNext]_serverVars => BuiltInv'
<1> SUFFICES ASSUME BuiltInv, [ServerNext]_serverVars PROVE BuiltInv'
  OBVIOUS
<1>1. CASE Stack
  BY <1>1, ServerAnswers
<1>2. CASE SetUp /\ ~Stack
  BY <1>2, ServerHears DEF SetUp
<1>3. CASE UNCHANGED setUpVars
  <2>1. UNCHANGED <<requests, replies, table, pendingDescrs, descrInFlight, charHndls, ctrlDescr>>
    BY <1>3 DEF setUpVars
  <2> QED BY <2>1 DEF BuiltInv, SetUpInv, TableInv, HandlesInv, Asked, BeforeDescr, NoDescr, TxLast, AsksService, SaysService,
        AsksChars, SaysRx, AsksTx, SaysBoth, SaysTx, AsksDescr, SaysDescr, IsSetUp
<1>4. Session \/ Sending \/ UNCHANGED serverVars => UNCHANGED setUpVars
  BY DEF Session, OnConnect, OnDisconnect, Subscribe, PrepareWrite, OnExecWrite, Sending, serverVars
<1> QED BY <1>1, <1>2, <1>3, <1>4 DEF ServerNext

LEMMA ServerWrites == PartsInv /\ [ServerNext]_serverVars => PartsInv'
<1> SUFFICES ASSUME PartsInv, [ServerNext]_serverVars PROVE PartsInv'
  OBVIOUS
<1> USE GattServerAssumption DEF PartsInv, WholeWrites
<1>1. CASE OnConnect
  BY <1>1 DEF OnConnect
<1>2. CASE OnDisconnect
  BY <1>2 DEF OnDisconnect, phoneVars
<1>3. CASE PrepareWrite
  <2>1. writeData = [i \in 1..parts |-> <<con, i>>] /\ con # 0 /\ parts' = parts + 1 /\ parts \in Nat
    BY <1>3 DEF PrepareWrite
  <2>2. writeData' = Append(writeData, <<con, parts + 1>>)
    BY <1>3 DEF PrepareWrite
  <2>3. Append([i \in 1..parts |-> <<con, i>>], <<con, parts + 1>>) = [i \in 1..parts + 1 |-> <<con, i>>]
    BY <2>1
  <2> QED BY <1>3, <2>1, <2>2, <2>3 DEF PrepareWrite
<1>4. CASE OnExecWrite
  BY <1>4 DEF OnExecWrite
<1>5. CASE UNCHANGED <<con, writeData, posted, phoneVars>>
  BY <1>5 DEF phoneVars
<1>6. SetUp \/ Sending \/ (\E sub \in BOOLEAN : Subscribe(sub)) \/ UNCHANGED serverVars
        => UNCHANGED <<con, writeData, posted, sessions, parts>>
  BY DEF SetUp, Sending, Subscribe, serverVars, phoneVars
<1>7. CASE UNCHANGED <<con, writeData, posted, sessions, parts>>
  BY <1>7
<1> QED BY <1>1, <1>2, <1>3, <1>4, <1>6, <1>7 DEF ServerNext, Session
(* A chunk that goes to the phone is the last it has. *)
LEMMA ChunkSent ==
  ASSUME SenderTypes, NEW s \in Senders, got' = Append(got, <<txBuf, chunk[s]>>)
  PROVE  /\ got' \in Seq(Int \X (1..Chunks)) /\ got' # <<>> /\ Len(got') = Len(got) + 1
         /\ got'[Len(got')] = <<txBuf, chunk[s]>>
         /\ \A i \in DOMAIN got' : i = Len(got') \/ (i \in DOMAIN got /\ got'[i] = got[i])
         /\ got # <<>> => Len(got) \in DOMAIN got /\ got'[Len(got)] = got[Len(got)]
<1> DEFINE x == <<txBuf, chunk[s]>>
           E == Int \X (1..Chunks)
<1>1. x \in E /\ got \in Seq(E) /\ got' = Append(got, x)
  BY DEF SenderTypes
<1> HIDE DEF x, E
<1>2. got' \in Seq(E) /\ got' # <<>> /\ Len(got') = Len(got) + 1 /\ got'[Len(got')] = x
  BY <1>1, SMTT(30)
<1>3. \A i \in DOMAIN got' : i = Len(got') \/ (i \in DOMAIN got /\ got'[i] = got[i])
  BY <1>1
<1>4. got # <<>> => Len(got) \in DOMAIN got /\ got'[Len(got)] = got[Len(got)]
  BY <1>1
<1> QED BY <1>2, <1>3, <1>4 DEF x, E

LEMMA SenderStepTypes == SendersInv /\ [ServerNext]_serverVars => SenderTypes'
<1> SUFFICES ASSUME SendersInv, [ServerNext]_serverVars PROVE SenderTypes'
  OBVIOUS
<1> USE GattServerAssumption DEF SendersInv, SenderTypes, senderVars
<1>1. ASSUME NEW s \in Senders, Printf(s), UNCHANGED <<con, notifyEn, subscribed>> PROVE SenderTypes'
  BY <1>1 DEF Printf
<1>2. ASSUME NEW s \in Senders, SendNotif(s), UNCHANGED <<con, notifyEn, subscribed>> PROVE SenderTypes'
  BY <1>2 DEF SendNotif, Leave
<1>3. ASSUME NEW s \in Senders, SendChunk(s), UNCHANGED <<con, notifyEn, subscribed>> PROVE SenderTypes'
  <2>1. got' \in Seq(Int \X (1..Chunks))
    BY <1>3, ChunkSent DEF SendChunk
  <2>2. chunk' \in [Senders -> 1..Chunks]
    <3>1. CASE chunk[s] = Chunks
      BY <1>3, <3>1 DEF SendChunk
    <3>2. CASE chunk[s] # Chunks
      <4>1. chunk' = [chunk EXCEPT ![s] = chunk[s] + 1] /\ chunk[s] + 1 \in 1..Chunks
        BY <1>3, <3>2 DEF SendChunk
      <4> QED BY <4>1
    <3> QED BY <3>1, <3>2
  <2> QED BY <1>3, <2>1, <2>2 DEF SendChunk, Leave
<1>4. CASE OnConnect
  BY <1>4 DEF OnConnect
<1>5. CASE OnDisconnect
  BY <1>5 DEF OnDisconnect, phoneVars
<1>6. ASSUME NEW sub \in BOOLEAN, Subscribe(sub) PROVE SenderTypes'
  BY <1>6 DEF Subscribe
<1>7. CASE SetUp \/ PrepareWrite \/ OnExecWrite \/ UNCHANGED serverVars
  BY <1>7 DEF SetUp, PrepareWrite, OnExecWrite, serverVars, phoneVars
<1> QED BY <1>1, <1>2, <1>3, <1>4, <1>5, <1>6, <1>7 DEF ServerNext, Session, Sending, phoneVars

LEMMA SenderStepAlone == SendersInv /\ [ServerNext]_serverVars => AloneSends'
<1> SUFFICES ASSUME SendersInv, [ServerNext]_serverVars PROVE AloneSends'
  OBVIOUS
<1> USE GattServerAssumption DEF SendersInv, SenderTypes, AloneSends, senderVars
<1>1. ASSUME NEW s \in Senders, Printf(s), UNCHANGED <<con, notifyEn, subscribed>> PROVE AloneSends'
  BY <1>1 DEF Printf
<1>2. ASSUME NEW s \in Senders, SendNotif(s), UNCHANGED <<con, notifyEn, subscribed>> PROVE AloneSends'
  BY <1>2 DEF SendNotif, Leave
<1>3. ASSUME NEW s \in Senders, SendChunk(s), UNCHANGED <<con, notifyEn, subscribed>> PROVE AloneSends'
  BY <1>3 DEF SendChunk, Leave
<1>4. CASE OnConnect
  BY <1>4 DEF OnConnect
<1>5. CASE OnDisconnect
  BY <1>5 DEF OnDisconnect, phoneVars
<1>6. ASSUME NEW sub \in BOOLEAN, Subscribe(sub) PROVE AloneSends'
  BY <1>6 DEF Subscribe
<1>7. CASE SetUp \/ PrepareWrite \/ OnExecWrite \/ UNCHANGED serverVars
  BY <1>7 DEF SetUp, PrepareWrite, OnExecWrite, serverVars, phoneVars
<1> QED BY <1>1, <1>2, <1>3, <1>4, <1>5, <1>6, <1>7 DEF ServerNext, Session, Sending, phoneVars

LEMMA SenderStepSubscribed == SendersInv /\ [ServerNext]_serverVars => SubscribedInv'
<1> SUFFICES ASSUME SendersInv, [ServerNext]_serverVars PROVE SubscribedInv'
  OBVIOUS
<1> USE GattServerAssumption DEF SendersInv, SenderTypes, SubscribedInv, senderVars
<1>1. ASSUME NEW s \in Senders, Printf(s), UNCHANGED <<con, notifyEn, subscribed>> PROVE SubscribedInv'
  BY <1>1 DEF Printf
<1>2. ASSUME NEW s \in Senders, SendNotif(s), UNCHANGED <<con, notifyEn, subscribed>> PROVE SubscribedInv'
  BY <1>2 DEF SendNotif, Leave
<1>3. ASSUME NEW s \in Senders, SendChunk(s), UNCHANGED <<con, notifyEn, subscribed>> PROVE SubscribedInv'
  BY <1>3 DEF SendChunk, Leave
<1>4. CASE OnConnect
  BY <1>4 DEF OnConnect
<1>5. CASE OnDisconnect
  BY <1>5 DEF OnDisconnect, phoneVars
<1>6. ASSUME NEW sub \in BOOLEAN, Subscribe(sub) PROVE SubscribedInv'
  BY <1>6 DEF Subscribe
<1>7. CASE SetUp \/ PrepareWrite \/ OnExecWrite \/ UNCHANGED serverVars
  BY <1>7 DEF SetUp, PrepareWrite, OnExecWrite, serverVars, phoneVars
<1> QED BY <1>1, <1>2, <1>3, <1>4, <1>5, <1>6, <1>7 DEF ServerNext, Session, Sending, phoneVars

LEMMA SenderStepMessage == SendersInv /\ [ServerNext]_serverVars => MessageInv'
<1> SUFFICES ASSUME SendersInv, [ServerNext]_serverVars PROVE MessageInv'
  OBVIOUS
<1> USE GattServerAssumption DEF SendersInv, SenderTypes, SubscribedInv, MessageInv, Within, AloneSends, senderVars
<1>1. ASSUME NEW s \in Senders, Printf(s), UNCHANGED <<con, notifyEn, subscribed>> PROVE MessageInv'
  BY <1>1 DEF Printf
<1>2. ASSUME NEW s \in Senders, SendNotif(s), UNCHANGED <<con, notifyEn, subscribed>> PROVE MessageInv'
  BY <1>2 DEF SendNotif, Leave
<1>3. ASSUME NEW s \in Senders, SendChunk(s), UNCHANGED <<con, notifyEn, subscribed>> PROVE MessageInv'
  <2> SUFFICES ASSUME con # 0, ~stray', ~mixed
               PROVE  /\ \A q \in Senders : Within(q)' => got' # <<>> /\ got'[Len(got')] = <<txBuf, chunk'[q] - 1>>
                      /\ (\A q \in Senders : ~Within(q)') => got' = <<>> \/ got'[Len(got')][2] = Chunks
    BY <1>3 DEF SendChunk
  <2>1. s \notin heldOver /\ got' = Append(got, <<txBuf, chunk[s]>>) /\ spc[s] = "chunk" /\ txBuf' = txBuf
    BY <1>3 DEF SendChunk
  <2>2. got' # <<>> /\ got'[Len(got')] = <<txBuf, chunk[s]>>
    BY <2>1, ChunkSent
  <2>3. \A q \in Senders : q # s => spc[q] = "idle"
    BY <2>1
  <2>4. CASE chunk[s] = Chunks
    <3>1. \A q \in Senders : spc'[q] = "idle"
      BY <1>3, <2>3, <2>4, ZenonT(30) DEF SendChunk, Leave
    <3>2. got'[Len(got')][2] = Chunks
      BY <2>2, <2>4
    <3> QED BY <3>1, <3>2
  <2>5. CASE chunk[s] # Chunks
    <3>1. chunk' = [chunk EXCEPT ![s] = @ + 1] /\ UNCHANGED <<spc, heldOver>> /\ chunk[s] \in Nat \ {0}
      BY <1>3, <2>5 DEF SendChunk
    <3>2. chunk'[s] = chunk[s] + 1 /\ chunk'[s] > 1
      BY <3>1
    <3>3. Within(s)'
      BY <2>1, <3>1, <3>2
    <3>4. \A q \in Senders : Within(q)' => q = s
      BY <2>3, <3>1
    <3>5. got'[Len(got')] = <<txBuf, chunk'[s] - 1>>
      BY <2>2, <3>1, <3>2
    <3> HIDE DEF Within
    <3> QED BY <2>2, <3>3, <3>4, <3>5
  <2> QED BY <2>4, <2>5
<1>4. CASE OnConnect
  BY <1>4 DEF OnConnect
<1>5. CASE OnDisconnect
  BY <1>5 DEF OnDisconnect, phoneVars
<1>6. ASSUME NEW sub \in BOOLEAN, Subscribe(sub) PROVE MessageInv'
  BY <1>6 DEF Subscribe
<1>7. CASE SetUp \/ PrepareWrite \/ OnExecWrite \/ UNCHANGED serverVars
  BY <1>7 DEF SetUp, PrepareWrite, OnExecWrite, serverVars, phoneVars
<1> QED BY <1>1, <1>2, <1>3, <1>4, <1>5, <1>6, <1>7 DEF ServerNext, Session, Sending, phoneVars

LEMMA SenderStepWhole == SendersInv /\ [ServerNext]_serverVars => Whole'
<1> SUFFICES ASSUME SendersInv, [ServerNext]_serverVars PROVE Whole'
  OBVIOUS
<1> USE GattServerAssumption DEF SendersInv, SenderTypes, MessageInv, Within, AloneSends, Whole, senderVars
<1>1. ASSUME NEW s \in Senders, Printf(s), UNCHANGED <<con, notifyEn, subscribed>> PROVE Whole'
  BY <1>1 DEF Printf
<1>2. ASSUME NEW s \in Senders, SendNotif(s), UNCHANGED <<con, notifyEn, subscribed>> PROVE Whole'
  BY <1>2 DEF SendNotif, Leave
<1>3. ASSUME NEW s \in Senders, SendChunk(s), UNCHANGED <<con, notifyEn, subscribed>> PROVE Whole'
  <2> SUFFICES ASSUME ~stray', ~mixed, con # 0, NEW i \in DOMAIN got'
               PROVE  IF got'[i][2] = 1 THEN i = 1 \/ got'[i - 1][2] = Chunks
                      ELSE i > 1 /\ got'[i - 1] = <<got'[i][1], got'[i][2] - 1>>
    BY <1>3 DEF SendChunk
  <2>1. ~stray /\ s \notin heldOver /\ got' = Append(got, <<txBuf, chunk[s]>>) /\ spc[s] = "chunk"
    BY <1>3 DEF SendChunk
  <2> DEFINE n == Len(got)
  <2>2. /\ n \in Nat /\ Len(got') = n + 1 /\ got'[n + 1] = <<txBuf, chunk[s]>> /\ (got # <<>> <=> n # 0)
        /\ \A j \in 1..n : got'[j] = got[j]
    BY <2>1, ChunkSent
  <2>3. CASE i # n + 1
    <3>0. i \in DOMAIN got /\ i \in 1..n
      BY <2>1, <2>2, <2>3, ChunkSent
    <3>1. got'[i] = got[i] /\ (i > 1 => got'[i - 1] = got[i - 1])
      <4>1. i > 1 => i - 1 \in 1..n
        BY <2>2, <3>0, SMTT(30)
      <4> QED BY <2>2, <3>0, <4>1
    <3>2. IF got[i][2] = 1 THEN i = 1 \/ got[i - 1][2] = Chunks
          ELSE i > 1 /\ got[i - 1] = <<got[i][1], got[i][2] - 1>>
      BY <2>1, <3>0
    <3>3. CASE i = 1
      BY <3>1, <3>2, <3>3
    <3>4. CASE i # 1
      <4>1. i > 1
        BY <3>0, <3>4
      <4> QED BY <3>1, <3>2, <4>1
    <3> QED BY <3>3, <3>4
  <2>4. CASE i = n + 1
    <3>1. got'[i][2] = chunk[s] /\ got'[i][1] = txBuf /\ chunk[s] \in 1..Chunks
      BY <2>2, <2>4
    <3>2. CASE chunk[s] = 1
      <4>0. \A q \in Senders : q # s => spc[q] = "idle"
        BY <2>1
      <4>1. \A q \in Senders : ~Within(q)
        <5>1. ~(chunk[s] > 1)
          BY <3>2
        <5> QED BY <4>0, <5>1
      <4>2. got = <<>> \/ got[n][2] = Chunks
        BY <2>1, <4>1
      <4>3. CASE got = <<>>
        BY <2>2, <2>4, <3>1, <3>2, <4>3
      <4>4. CASE got # <<>>
        <5>1. n \in 1..n /\ got'[n] = got[n] /\ i - 1 = n
          BY <2>2, <2>4, <4>4
        <5> QED BY <3>1, <3>2, <4>2, <4>4, <5>1
      <4> QED BY <4>3, <4>4
    <3>3. CASE chunk[s] # 1
      <4>1. Within(s)
        BY <2>1, <3>1, <3>3
      <4>2. got # <<>> /\ got[n] = <<txBuf, chunk[s] - 1>>
        BY <2>1, <4>1
      <4> QED BY <2>2, <2>4, <3>1, <3>3, <4>2, SMTT(30)
    <3> QED BY <3>2, <3>3
  <2> QED BY <2>3, <2>4
<1>4. CASE OnConnect
  BY <1>4 DEF OnConnect
<1>5. CASE OnDisconnect
  BY <1>5 DEF OnDisconnect, phoneVars
<1>6. ASSUME NEW sub \in BOOLEAN, Subscribe(sub) PROVE Whole'
  BY <1>6 DEF Subscribe
<1>7. CASE SetUp \/ PrepareWrite \/ OnExecWrite \/ UNCHANGED serverVars
  BY <1>7 DEF SetUp, PrepareWrite, OnExecWrite, serverVars, phoneVars
<1> QED BY <1>1, <1>2, <1>3, <1>4, <1>5, <1>6, <1>7 DEF ServerNext, Session, Sending, phoneVars

ServerIInv == BuiltInv /\ SendersInv /\ PartsInv /\ notifyEn \in BOOLEAN

LEMMA ServerInitIInv == ServerInit => ServerIInv
<1> SUFFICES ASSUME ServerInit PROVE ServerIInv
  OBVIOUS
<1> USE GattServerAssumption DEF ServerInit
<1>1. BuiltInv
  BY DEF BuiltInv, SetUpInv, Asked, AsksService, BeforeDescr, NoDescr, TableInv, HandlesInv
<1>2. SenderTypes
  BY DEF SenderTypes
<1>3. AloneSends /\ SubscribedInv
  BY DEF AloneSends, SubscribedInv
<1>4. MessageInv /\ Whole
  BY DEF MessageInv, Whole
<1>5. PartsInv
  BY DEF PartsInv, WholeWrites
<1>6. notifyEn \in BOOLEAN
  OBVIOUS
<1> QED BY <1>1, <1>2, <1>3, <1>4, <1>5, <1>6 DEF ServerIInv, SendersInv

LEMMA ServerStepIInv == ServerIInv /\ [ServerNext]_serverVars => ServerIInv'
<1> SUFFICES ASSUME ServerIInv, [ServerNext]_serverVars PROVE ServerIInv'
  OBVIOUS
<1>1. BuiltInv' /\ PartsInv'
  BY ServerBuilds, ServerWrites DEF ServerIInv
<1>2. SendersInv'
  BY SenderStepTypes, SenderStepAlone, SenderStepSubscribed, SenderStepMessage, SenderStepWhole
     DEF ServerIInv, SendersInv
<1>3. notifyEn' \in {notifyEn, TRUE, FALSE}
  BY DEF ServerNext, SetUp, Session, OnConnect, OnDisconnect, Subscribe, PrepareWrite, OnExecWrite, Sending, serverVars
<1> QED BY <1>1, <1>2, <1>3 DEF ServerIInv

LEMMA ServerInvFollows == ServerIInv => ServerInv
<1> SUFFICES ASSUME ServerIInv PROVE ServerInv
  OBVIOUS
<1> USE DEF ServerIInv
<1>1. ToSet(Chars) = {"tx", "rx"}
  BY DEF ToSet, Chars
<1>2. ServerTypeOK
  BY <1>1, GattServerAssumption DEF ServerTypeOK, BuiltInv, HandlesInv, NoChar, PartsInv, SendersInv, SenderTypes
<1>3. DescriptorFollows
  <2>1. requests = <<>> /\ replies = <<>> => IsSetUp
    BY TupleSteps DEF BuiltInv, SetUpInv, Asked, AsksService, SaysService, AsksChars, SaysRx, AsksTx, SaysBoth, SaysTx,
       AsksDescr, SaysDescr
  <2> QED BY <2>1 DEF DescriptorFollows, BuiltInv, TableInv, Notifies, IsSetUp, NoDescr
<1>4. NotifiesSubscribers
  BY DEF NotifiesSubscribers, SendersInv, SubscribedInv, Whole
<1> QED BY <1>2, <1>3, <1>4 DEF ServerInv, PartsInv

-----------------------------------------------------------------------------
(* The buzzer: who is inside attach and detach, and who will be.           *)
Inside == {p \in Parties : half[p] # "no"}

(* The pin is as the flag says, or one party is to make it so. *)
PinFollows ==
  ~clashed =>
    /\ \A p, q \in Inside : p = q
    /\ Inside = {} => (on <=> attached)
    /\ \A p \in Inside : (attached <=> half[p] = "attach") /\ (on <=> ~attached)

SoundSteps ==
  /\ apc \in [Parties -> {"idle", "reset", "send", "end", "closed", "opening", "open", "stop",
                          "unpersist", "release", "sem", "get", "detach"}]
  /\ \A p \in Players : apc[p] \in {"idle", "reset", "send", "end"}
  /\ apc["lvgl"] \in {"closed", "opening", "open", "stop", "unpersist", "release"}
  /\ apc["thread"] \in {"sem", "get", "end", "detach"}
  /\ pwmPersistence <=> apc["lvgl"] \in {"opening", "open", "stop", "unpersist"}

(* A tone is followed by its end, which a play under way is to append. *)
TonesEnd == chirps # <<>> /\ chirps[Len(chirps)] = "tone" => \E p \in Players : apc[p] = "end"

(* Who is attached will be detached; what sounds or will is attached. *)
WillDetach == attached => apc["lvgl"] # "closed" \/ OnItsWay \/ apc["thread"] \in {"end", "detach"}

AttachedToSound ==
  /\ sounding \/ OnItsWay \/ pwmPersistence => attached \/ overtaken \/ apc["lvgl"] = "opening"
  /\ sounding => (OnItsWay \/ apc["lvgl"] = "stop") /\ apc["thread"] \in {"sem", "get"}

TonesTypes == chirps \in Seq({"tone", "end"}) /\ half \in [Parties -> {"no", "attach", "detach"}]
SoundFlags ==
  /\ timer \in BOOLEAN /\ timerSem \in BOOLEAN /\ sounding \in BOOLEAN
  /\ attached \in BOOLEAN /\ on \in BOOLEAN /\ pwmPersistence \in BOOLEAN

SoundIInv == TonesTypes /\ SoundFlags /\ SoundSteps /\ PinFollows /\ TonesEnd /\ WillDetach /\ AttachedToSound

LEMMA SoundInitIInv == SoundInit => SoundIInv
<1> SUFFICES ASSUME SoundInit PROVE SoundIInv
  OBVIOUS
<1> USE DEF SoundInit, Parties, Players
<1>1. TonesTypes
  BY DEF TonesTypes
<1>5. SoundFlags
  BY Zenon DEF SoundFlags
<1>2. SoundSteps
  BY DEF SoundSteps
<1>3. PinFollows
  BY DEF PinFollows, Inside
<1>4. TonesEnd /\ WillDetach /\ AttachedToSound
  BY DEF TonesEnd, WillDetach, AttachedToSound, OnItsWay
<1> QED BY <1>1, <1>2, <1>3, <1>4, <1>5 DEF SoundIInv

(* What is left of the queue ends as it did. *)
LEMMA TailEnds ==
  ASSUME NEW S, NEW s \in Seq(S), s # <<>>
  PROVE  /\ Tail(s) \in Seq(S)
         /\ Tail(s) # <<>> => Tail(s)[Len(Tail(s))] = s[Len(s)]
         /\ Tail(s) = <<>> => Head(s) = s[Len(s)]
<1>1. Tail(s) \in Seq(S) /\ Len(Tail(s)) = Len(s) - 1
  OBVIOUS
<1>2. \A i \in 1..Len(Tail(s)) : Tail(s)[i] = s[i + 1]
  BY <1>1
<1>3. Tail(s) # <<>> => Len(Tail(s)) \in 1..Len(Tail(s))
  BY <1>1
<1>4. Tail(s) = <<>> => Len(s) = 1
  <2>1. Len(s) \in Nat /\ Len(<<>>) = 0
    OBVIOUS
  <2>2. Tail(s) = <<>> => Len(Tail(s)) = Len(<<>>)
    BY Zenon
  <2> DEFINE n == Len(Tail(s))
             m == Len(s)
  <2>3. n = m - 1 /\ m \in Nat /\ (Tail(s) = <<>> => n = 0)
    BY <1>1, <2>1, <2>2, Zenon
  <2> HIDE DEF n, m
  <2>4. Tail(s) = <<>> => m = 1
    BY <2>3
  <2> QED BY <2>4 DEF m
<1> QED BY <1>1, <1>2, <1>3, <1>4

(* Who is outside of attach and detach may go in. *)
LEMMA FlagKeepsPin ==
  ASSUME TonesTypes, attached \in BOOLEAN, PinFollows, NEW p \in Parties, half[p] = "no", Attach(p) \/ Detach(p)
  PROVE  PinFollows'
<1> USE DEF TonesTypes, PinFollows, Inside
<1>1. CASE Attach(p)
  BY <1>1 DEF Attach, Flag
<1>2. CASE Detach(p)
  BY <1>2 DEF Detach, Flag
<1> QED BY <1>1, <1>2

LEMMA SoundStepTypes == SoundIInv /\ [SoundNext]_soundVars => TonesTypes'
<1> SUFFICES ASSUME SoundIInv, [SoundNext]_soundVars PROVE TonesTypes'
  OBVIOUS
<1> USE DEF SoundIInv, TonesTypes, Players, Parties, tonesVars, pwmVars
<1>1. ASSUME NEW p \in Players, Play(p) PROVE TonesTypes'
  BY <1>1 DEF Play, Attach, Flag, At, Go
<1>2. ASSUME NEW p \in Players, PlayQueues(p) PROVE TonesTypes'
  <2>1. UNCHANGED half
    BY <1>2 DEF PlayQueues
  <2>2. \/ chirps' = <<>>
        \/ chirps' = Append(chirps, "tone")
        \/ chirps' = Append(chirps, "end")
    BY <1>2 DEF PlayQueues
  <2>3. Append(chirps, "tone") \in Seq({"tone", "end"}) /\ Append(chirps, "end") \in Seq({"tone", "end"})
    OBVIOUS
  <2>4. <<>> \in Seq({"tone", "end"})
    OBVIOUS
  <2> QED BY <2>1, <2>2, <2>3, <2>4
<1>3. ASSUME NEW p \in Parties, Finish(p) PROVE TonesTypes'
  BY <1>3 DEF Finish
<1>4. CASE Theremin
  <2>1. half' \in [Parties -> {"no", "attach", "detach"}]
    BY <1>4 DEF Theremin, Attach, Detach, Flag, At, Go, ReleaseIfEmpty
  <2>2. chirps' = <<>> \/ chirps' = chirps
    BY <1>4 DEF Theremin
  <2>4. <<>> \in Seq({"tone", "end"})
    OBVIOUS
  <2> QED BY <2>1, <2>2, <2>4
<1>5. CASE Loop
  BY <1>5 DEF Loop, Detach, Flag, At, Go
<1>6. CASE ToneEnds
  BY <1>6 DEF ToneEnds
<1>7. CASE UNCHANGED soundVars
  BY <1>7 DEF soundVars
<1> QED BY <1>1, <1>2, <1>3, <1>4, <1>5, <1>6, <1>7 DEF SoundNext

LEMMA SoundStepFlags == SoundIInv /\ [SoundNext]_soundVars => SoundFlags'
<1> SUFFICES ASSUME SoundIInv, [SoundNext]_soundVars PROVE SoundFlags'
  OBVIOUS
<1> USE DEF SoundIInv, SoundFlags, Players, Parties, tonesVars, pwmVars
<1>1. ASSUME NEW p \in Players, Play(p) PROVE SoundFlags'
  BY <1>1 DEF Play, Attach, Flag, At, Go
<1>2. ASSUME NEW p \in Players, PlayQueues(p) PROVE SoundFlags'
  BY <1>2 DEF PlayQueues, At, Go
<1>3. ASSUME NEW p \in Parties, Finish(p) PROVE SoundFlags'
  BY <1>3 DEF Finish
<1>4. CASE Theremin
  BY <1>4 DEF Theremin, Attach, Detach, Flag, At, Go, ReleaseIfEmpty
<1>5. CASE Loop
  BY <1>5 DEF Loop, Detach, Flag, At, Go
<1>6. CASE ToneEnds
  BY <1>6 DEF ToneEnds
<1>7. CASE UNCHANGED soundVars
  BY <1>7 DEF soundVars
<1> QED BY <1>1, <1>2, <1>3, <1>4, <1>5, <1>6, <1>7 DEF SoundNext

LEMMA SoundStepSteps == SoundIInv /\ [SoundNext]_soundVars => SoundSteps'
<1> SUFFICES ASSUME SoundIInv, [SoundNext]_soundVars PROVE SoundSteps'
  OBVIOUS
<1> USE DEF SoundIInv, SoundSteps, SoundFlags, Players, Parties, tonesVars, pwmVars
<1>1. ASSUME NEW p \in Players, Play(p) PROVE SoundSteps'
  BY <1>1 DEF Play, Attach, Flag, At, Go
<1>2. ASSUME NEW p \in Players, PlayQueues(p) PROVE SoundSteps'
  BY <1>2 DEF PlayQueues, At, Go
<1>3. ASSUME NEW p \in Parties, Finish(p) PROVE SoundSteps'
  BY <1>3 DEF Finish
<1>4. CASE Theremin
  BY <1>4 DEF Theremin, Attach, Detach, Flag, At, Go, ReleaseIfEmpty
<1>5. CASE Loop
  BY <1>5 DEF Loop, Detach, Flag, At, Go
<1>6. CASE ToneEnds
  BY <1>6 DEF ToneEnds
<1>7. CASE UNCHANGED soundVars
  BY <1>7 DEF soundVars
<1> QED BY <1>1, <1>2, <1>3, <1>4, <1>5, <1>6, <1>7 DEF SoundNext

LEMMA SoundStepPin == SoundIInv /\ [SoundNext]_soundVars => PinFollows'
<1> SUFFICES ASSUME SoundIInv, [SoundNext]_soundVars PROVE PinFollows'
  OBVIOUS
<1> USE DEF SoundIInv, TonesTypes, SoundFlags, PinFollows, Inside, Players, Parties, tonesVars, pwmVars
<1>1. ASSUME NEW p \in Players, Play(p) PROVE PinFollows'
  BY <1>1, ZenonT(30) DEF Play, Attach, Flag, At, Go
<1>2. ASSUME NEW p \in Players, PlayQueues(p) PROVE PinFollows'
  BY <1>2 DEF PlayQueues, At, Go
<1>3. ASSUME NEW p \in Parties, Finish(p) PROVE PinFollows'
  BY <1>3 DEF Finish
<1>4. CASE Theremin
  <2>1. UNCHANGED pwmVars \/ (half["lvgl"] = "no" /\ (Attach("lvgl") \/ Detach("lvgl")))
    BY <1>4 DEF Theremin, At, ReleaseIfEmpty
  <2>2. CASE UNCHANGED pwmVars
    BY <2>2
  <2> QED BY <2>1, <2>2, FlagKeepsPin
<1>5. CASE Loop
  <2>1. UNCHANGED pwmVars \/ (half["thread"] = "no" /\ Detach("thread"))
    BY <1>5 DEF Loop, At
  <2>2. CASE UNCHANGED pwmVars
    BY <2>2
  <2> QED BY <2>1, <2>2, FlagKeepsPin
<1>6. CASE ToneEnds
  BY <1>6 DEF ToneEnds
<1>7. CASE UNCHANGED soundVars
  BY <1>7 DEF soundVars
<1> QED BY <1>1, <1>2, <1>3, <1>4, <1>5, <1>6, <1>7 DEF SoundNext

LEMMA SoundStepEnds == SoundIInv /\ [SoundNext]_soundVars => TonesEnd'
<1> SUFFICES ASSUME SoundIInv, [SoundNext]_soundVars PROVE TonesEnd'
  OBVIOUS
<1> USE DEF SoundIInv, TonesTypes, SoundSteps, TonesEnd, Players, Parties, tonesVars, pwmVars
<1>1. ASSUME NEW p \in Players, Play(p) PROVE TonesEnd'
  BY <1>1 DEF Play, Attach, Flag, At, Go
<1>2. ASSUME NEW p \in Players, PlayQueues(p) PROVE TonesEnd'
  BY <1>2 DEF PlayQueues, At, Go
<1>3. ASSUME NEW p \in Parties, Finish(p) PROVE TonesEnd'
  BY <1>3 DEF Finish
<1>4. CASE Theremin
  <2>1. chirps' \in {<<>>, chirps}
    BY <1>4 DEF Theremin
  <2>2. \A p \in Players : apc'[p] = apc[p]
    BY <1>4 DEF Theremin, Go
  <2> QED BY <2>1, <2>2
<1>5. CASE Loop
  <2>1. \A p \in Players : apc'[p] = apc[p]
    BY <1>5 DEF Loop, Go
  <2>2. chirps' = chirps \/ (chirps # <<>> /\ chirps' = Tail(chirps))
    BY <1>5 DEF Loop
  <2> QED BY <2>1, <2>2, TailEnds
<1>6. CASE ToneEnds
  BY <1>6 DEF ToneEnds
<1>7. CASE UNCHANGED soundVars
  BY <1>7 DEF soundVars
<1> QED BY <1>1, <1>2, <1>3, <1>4, <1>5, <1>6, <1>7 DEF SoundNext

LEMMA SoundStepWill == SoundIInv /\ [SoundNext]_soundVars => WillDetach'
<1> SUFFICES ASSUME SoundIInv, [SoundNext]_soundVars PROVE WillDetach'
  OBVIOUS
<1> USE DEF SoundIInv, SoundFlags, TonesTypes, SoundSteps, WillDetach, OnItsWay, TonesEnd, Players, Parties, tonesVars, pwmVars
<1>1. ASSUME NEW p \in Players, Play(p) PROVE WillDetach'
  BY <1>1 DEF Play, Attach, Flag, At, Go
<1>2. ASSUME NEW p \in Players, PlayQueues(p) PROVE WillDetach'
  BY <1>2 DEF PlayQueues, At, Go
<1>3. ASSUME NEW p \in Parties, Finish(p) PROVE WillDetach'
  BY <1>3 DEF Finish
<1>4. CASE Theremin
  BY <1>4 DEF Theremin, Attach, Detach, Flag, At, Go, ReleaseIfEmpty
<1>5. CASE Loop
  <2>1. CASE apc["thread"] = "sem"
    BY <1>5, <2>1 DEF Loop, At, Go, Detach, Flag
  <2>2. CASE apc["thread"] = "get"
    <3>1. chirps # <<>> /\ chirps' = Tail(chirps) /\ sounding' = (Head(chirps) = "tone") /\ UNCHANGED pwmVars
          /\ apc' = [apc EXCEPT !["thread"] = IF sounding' THEN "sem" ELSE "end"] /\ UNCHANGED pwmPersistence
      BY <1>5, <2>2 DEF Loop, At, Go
    <3>2. Head(chirps) \in {"tone", "end"}
      BY <3>1
    <3> QED BY <2>2, <3>1, <3>2, TailEnds
  <2>3. CASE apc["thread"] = "end"
    BY <1>5, <2>3 DEF Loop, At, Go, Detach, Flag
  <2>4. CASE apc["thread"] = "detach"
    BY <1>5, <2>4 DEF Loop, At, Go, Detach, Flag
  <2> QED BY <2>1, <2>2, <2>3, <2>4
<1>6. CASE ToneEnds
  BY <1>6 DEF ToneEnds
<1>7. CASE UNCHANGED soundVars
  BY <1>7 DEF soundVars
<1> QED BY <1>1, <1>2, <1>3, <1>4, <1>5, <1>6, <1>7 DEF SoundNext

LEMMA SoundStepAttached == SoundIInv /\ [SoundNext]_soundVars => AttachedToSound'
<1> SUFFICES ASSUME SoundIInv, [SoundNext]_soundVars PROVE AttachedToSound'
  OBVIOUS
<1> USE DEF SoundIInv, SoundFlags, TonesTypes, SoundSteps, AttachedToSound, OnItsWay, TonesEnd, Players, Parties, tonesVars, pwmVars
<1>1. ASSUME NEW p \in Players, Play(p) PROVE AttachedToSound'
  BY <1>1 DEF Play, Attach, Flag, At, Go
<1>2. ASSUME NEW p \in Players, PlayQueues(p) PROVE AttachedToSound'
  BY <1>2 DEF PlayQueues, At, Go
<1>3. ASSUME NEW p \in Parties, Finish(p) PROVE AttachedToSound'
  BY <1>3 DEF Finish
<1>4. CASE Theremin
  BY <1>4 DEF Theremin, Attach, Detach, Flag, At, Go, ReleaseIfEmpty
<1>5. CASE Loop
  <2>1. CASE apc["thread"] = "sem"
    BY <1>5, <2>1 DEF Loop, At, Go, Detach, Flag
  <2>2. CASE apc["thread"] = "get"
    <3>1. chirps # <<>> /\ chirps' = Tail(chirps) /\ sounding' = (Head(chirps) = "tone") /\ UNCHANGED pwmVars
          /\ apc' = [apc EXCEPT !["thread"] = IF sounding' THEN "sem" ELSE "end"] /\ UNCHANGED pwmPersistence
      BY <1>5, <2>2 DEF Loop, At, Go
    <3>2. Head(chirps) \in {"tone", "end"}
      BY <3>1
    <3> QED BY <2>2, <3>1, <3>2, TailEnds
  <2>3. CASE apc["thread"] = "end"
    BY <1>5, <2>3 DEF Loop, At, Go, Detach, Flag
  <2>4. CASE apc["thread"] = "detach"
    BY <1>5, <2>4 DEF Loop, At, Go, Detach, Flag
  <2> QED BY <2>1, <2>2, <2>3, <2>4
<1>6. CASE ToneEnds
  BY <1>6 DEF ToneEnds
<1>7. CASE UNCHANGED soundVars
  BY <1>7 DEF soundVars
<1> QED BY <1>1, <1>2, <1>3, <1>4, <1>5, <1>6, <1>7 DEF SoundNext

LEMMA SoundInvFollows == SoundIInv => SoundInv
<1> SUFFICES ASSUME SoundIInv PROVE SoundInv
  OBVIOUS
<1>1. SoundTypeOK
  BY DEF SoundIInv, TonesTypes, SoundFlags, SoundTypeOK
<1>2. QuietReleases
  <2> SUFFICES ASSUME At("lvgl", "closed"), At("thread", "get"), chirps = <<>>, \A p \in Players : At(p, "idle")
               PROVE  ~attached /\ (on => clashed)
    BY DEF QuietReleases
  <2>1. Inside = {} /\ ~OnItsWay
    BY DEF Inside, At, Parties, Players, OnItsWay
  <2>2. ~attached
    BY <2>1 DEF SoundIInv, WillDetach, At
  <2> QED BY <2>1, <2>2 DEF SoundIInv, PinFollows
<1>3. Audible
  <2> SUFFICES ASSUME sounding, ~overtaken, ~clashed, apc["lvgl"] # "opening"
               PROVE  on \/ \E p \in Parties : half[p] = "attach"
    BY DEF Audible
  <2>1. attached
    BY DEF SoundIInv, AttachedToSound
  <2> QED BY <2>1 DEF SoundIInv, PinFollows, Inside
<1> QED BY <1>1, <1>2, <1>3 DEF SoundInv

LEMMA SoundStepIInv == SoundIInv /\ [SoundNext]_soundVars => SoundIInv'
BY SoundStepTypes, SoundStepFlags, SoundStepSteps, SoundStepPin, SoundStepEnds, SoundStepWill, SoundStepAttached
   DEF SoundIInv

-----------------------------------------------------------------------------
(* The LED: what it shows of actions that have nothing more to do, and     *)
(* when the thread looks at a step.                                        *)
OnceOff == [Nothing EXCEPT !.type = "once", !.state = "off"]
Solid   == [Nothing EXCEPT !.type = "solid", !.loops = AlertLoops]

ActionTypes ==
  /\ shortAction \in [type : {"none", "once", "twice"}, state : {"pending", "on", "off"}, loops : {0}]
  /\ continuousAction \in [type : {"none", "solid"} \cup Blinking \cup Breathing,
                           state : {"pending", "on", "off"}, loops : Int]
  /\ shortAction.type = "none" => shortAction = Nothing
  /\ continuousAction.type = "none" => continuousAction = Nothing
  /\ continuousAction.type = "solid" => continuousAction.loops = AlertLoops /\ continuousAction.state # "off"

RestShows ==
  /\ shortAction = OnceOff => led = "off"
  /\ shortAction = Nothing /\ continuousAction.type \in Blinking /\ continuousAction.state = "off" => led = "off"
  /\ shortAction = Nothing /\ continuousAction = Nothing => led = "off" /\ ~ledLock
  /\ shortAction = Nothing /\ continuousAction = Solid => led = "solid" /\ ~ledLock

(* A step begun is looked at only after a timer has run out. *)
DueInTime ==
  ~doubled =>
    /\ lpc \in {"stop", "halt", "handle"} => ~ledSem
    /\ lpc \in {"stop", "halt", "handle"} \/ ledSem => due \/ ~InStep

LedIInv == LedTypeOK /\ StepsGoOn /\ StepsLast /\ ActionTypes /\ RestShows /\ DueInTime

LEMMA Apart ==
  /\ Nothing = [type |-> "none", state |-> "on", loops |-> 0]
  /\ OnceOff = [type |-> "once", state |-> "off", loops |-> 0]
  /\ Solid = [type |-> "solid", state |-> "on", loops |-> AlertLoops]
  /\ Nothing.type = "none" /\ OnceOff.type = "once" /\ Solid.type = "solid" /\ Nothing.state = "on"
<1>1. Nothing = [type |-> "none", state |-> "on", loops |-> 0]
  BY DEF Nothing
<1>2. OnceOff = [type |-> "once", state |-> "off", loops |-> 0]
  <2>1. OnceOff \in [type : {"once"}, state : {"off"}, loops : {0}]
    BY DEF OnceOff, Nothing
  <2> QED BY <2>1
<1>3. Solid = [type |-> "solid", state |-> "on", loops |-> AlertLoops]
  <2>1. Solid \in [type : {"solid"}, state : {"on"}, loops : {AlertLoops}]
    BY DEF Solid, Nothing
  <2> QED BY <2>1
<1> HIDE DEF Nothing, OnceOff, Solid
<1> QED BY <1>1, <1>2, <1>3

(* What a turn makes of the action that is shown continuously. *)
LEMMA Shown ==
  ASSUME ActionTypes, HandleContinuousAction
  PROVE  \/ /\ continuousAction = Nothing /\ continuousAction' = Nothing /\ led' = led
            /\ ledLock' = FALSE /\ lpc' = "take" /\ UNCHANGED due
         \/ /\ continuousAction.type = "solid" /\ continuousAction' = Solid /\ led' = "solid"
            /\ ledLock' = FALSE /\ lpc' = "take" /\ UNCHANGED due
         \/ /\ continuousAction.type \in Blinking /\ continuousAction.state = "off" /\ continuousAction' = Nothing
            /\ led' = led /\ ledLock' = FALSE /\ lpc' = "take" /\ UNCHANGED due
         \/ /\ continuousAction.type \in Blinking /\ continuousAction.state = "on"
            /\ continuousAction' = [continuousAction EXCEPT !.state = "off"] /\ led' = "off" /\ lpc' = "start"
         \/ /\ continuousAction.type \in Blinking \cup Breathing
            /\ \E n \in Int : continuousAction' = [type |-> continuousAction.type, state |-> "on", loops |-> n]
            /\ led' = continuousAction.type /\ lpc' = "start"
<1> DEFINE a == continuousAction
           Rec == [type : {"none", "solid"} \cup Blinking \cup Breathing, state : {"pending", "on", "off"}, loops : Int]
<1>1. /\ a \in Rec /\ (a.type = "none" => a = Nothing) /\ (a.type = "solid" => a.loops = AlertLoops)
  BY DEF ActionTypes
<1>2. a.type \in {"none", "solid"} \cup Blinking \cup Breathing /\ a.state \in {"pending", "on", "off"} /\ a.loops \in Int
  BY <1>1
<1>3. CASE a.type = "none"
  <2>1. continuousAction' = [a EXCEPT !.state = "on"] /\ led' = led /\ ledLock' = FALSE /\ lpc' = "take" /\ UNCHANGED due
    BY <1>3 DEF HandleContinuousAction, Blinking, Breathing
  <2>2. a = Nothing
    BY <1>1, <1>3
  <2>3. continuousAction' = Nothing
    BY <2>1, <2>2, Apart
  <2> QED BY <2>1, <2>2, <2>3
<1>4. CASE a.type = "solid"
  <2>1. continuousAction' = [a EXCEPT !.state = "on"] /\ led' = "solid" /\ ledLock' = FALSE /\ lpc' = "take" /\ UNCHANGED due
    BY <1>4 DEF HandleContinuousAction, Blinking, Breathing
  <2>2. [a EXCEPT !.state = "on"] = [type |-> "solid", state |-> "on", loops |-> AlertLoops]
    BY <1>1, <1>4
  <2> QED BY <1>4, <2>1, <2>2, Apart
<1>5. CASE a.type \in Breathing \/ (a.type \in Blinking /\ a.state = "pending")
  <2>1. continuousAction' = [a EXCEPT !.state = "on"] /\ led' = a.type /\ lpc' = "start"
    BY <1>5 DEF HandleContinuousAction, Blinking, Breathing, Lights
  <2>2. [a EXCEPT !.state = "on"] = [type |-> a.type, state |-> "on", loops |-> a.loops]
    BY <1>1
  <2> QED BY <1>2, <1>5, <2>1, <2>2
<1>6. CASE a.type \in Blinking /\ a.state = "on"
  BY <1>6 DEF HandleContinuousAction, Blinking, Breathing, Lights
<1>7. CASE a.type \in Blinking /\ a.state = "off" /\ a.type = "alert" /\ a.loops = 1
  BY <1>7 DEF HandleContinuousAction, Blinking, Breathing, Ends
<1>8. CASE a.type \in Blinking /\ a.state = "off" /\ ~(a.type = "alert" /\ a.loops = 1)
  <2> DEFINE n == IF a.type = "alert" THEN a.loops - 1 ELSE a.loops
  <2>1. continuousAction' = [a EXCEPT !.state = "on", !.loops = n] /\ led' = a.type /\ lpc' = "start"
    BY <1>8 DEF HandleContinuousAction, Blinking, Breathing, Lights
  <2>2. n \in Int
    BY <1>2
  <2> HIDE DEF n
  <2>3. continuousAction' \in [type : {a.type}, state : {"on"}, loops : {n}]
    BY <1>1, <2>1
  <2>4. continuousAction' = [type |-> a.type, state |-> "on", loops |-> n]
    BY <2>3
  <2> QED BY <1>8, <2>1, <2>2, <2>4
<1> QED BY <1>2, <1>3, <1>4, <1>5, <1>6, <1>7, <1>8

LEMMA LedInitIInv == LedInit => LedIInv
<1> SUFFICES ASSUME LedInit PROVE LedIInv
  OBVIOUS
<1> USE LEDControllerAssumption DEF LedInit, Nothing, Blinking, Breathing
<1>1. LedTypeOK /\ StepsGoOn /\ StepsLast
  BY DEF LedTypeOK, StepsGoOn, StepsLast, Asleep
<1>2. ActionTypes
  BY DEF ActionTypes
<1>3. RestShows
  BY DEF RestShows, OnceOff, Solid
<1>4. DueInTime
  BY DEF DueInTime
<1> QED BY <1>1, <1>2, <1>3, <1>4 DEF LedIInv

LEMMA LedStepTypes == LedIInv /\ [LedNext]_ledVars => LedTypeOK'
<1> SUFFICES ASSUME LedIInv, [LedNext]_ledVars PROVE LedTypeOK'
  OBVIOUS
<1> USE LEDControllerAssumption DEF LedIInv, LedTypeOK, ActionTypes, Blinking, Breathing, Nothing, ledTimerVars, lightVars
<1>1. CASE LedSetting
  BY <1>1 DEF LedSetting, Blink, SetContinuous, Give, Pending
<1>2. ASSUME NEW c \in Callers, LedClear(c) PROVE LedTypeOK'
  BY <1>2 DEF LedClear, LedStop
<1>3. CASE LedLoop /\ lpc = "take"
  BY <1>3 DEF LedLoop, LedStop
<1>4. CASE LedLoop /\ lpc \in {"stop", "halt"}
  BY <1>4 DEF LedLoop, LedStop
<1>5. CASE LedLoop /\ lpc = "handle" /\ HandleShortAction
  BY <1>5 DEF LedLoop, LedStop, HandleShortAction, Lights
<1>6. CASE LedLoop /\ lpc = "handle" /\ HandleContinuousAction
  BY <1>6 DEF LedLoop, LedStop, HandleContinuousAction, Lights, Ends
<1>7. CASE LedLoop /\ lpc \in {"start", "arm"}
  BY <1>7 DEF LedLoop, LedStop
<1>8. CASE LedTick
  BY <1>8 DEF LedTick, Give
<1>9. CASE UNCHANGED ledVars
  BY <1>9 DEF ledVars
<1> QED BY <1>1, <1>2, <1>3, <1>4, <1>5, <1>6, <1>7, <1>8, <1>9 DEF LedNext, LedLoop, LedStop

LEMMA LedStepActions == LedIInv /\ [LedNext]_ledVars => ActionTypes'
<1> SUFFICES ASSUME LedIInv, [LedNext]_ledVars PROVE ActionTypes'
  OBVIOUS
<1> USE LEDControllerAssumption DEF LedIInv, ActionTypes, Blinking, Breathing, Nothing, LedTypeOK, ledTimerVars, lightVars
<1>1. CASE LedSetting
  BY <1>1 DEF LedSetting, Blink, SetContinuous, Give, Pending
<1>2. ASSUME NEW c \in Callers, LedClear(c) PROVE ActionTypes'
  BY <1>2 DEF LedClear, LedStop
<1>3. CASE LedLoop /\ lpc = "take"
  BY <1>3 DEF LedLoop, LedStop
<1>4. CASE LedLoop /\ lpc \in {"stop", "halt"}
  BY <1>4 DEF LedLoop, LedStop
<1>5. CASE LedLoop /\ lpc = "handle" /\ HandleShortAction
  BY <1>5 DEF LedLoop, LedStop, HandleShortAction, Lights
<1>6. CASE LedLoop /\ lpc = "handle" /\ HandleContinuousAction
  <2>1. shortAction' = Nothing
    BY <1>6 DEF HandleContinuousAction
  <2> HIDE DEF Nothing, Solid
  <2>2. CASE continuousAction' \in {Nothing, Solid}
    <3>1. Solid.state # "off" /\ Solid.loops = AlertLoops /\ Nothing \in [type : {"none"}, state : {"on"}, loops : Int]
          /\ Solid \in [type : {"solid"}, state : {"on"}, loops : Int]
      BY Apart
    <3> QED BY <2>1, <2>2, <3>1, Apart
  <2>3. CASE /\ continuousAction.type \in Blinking /\ continuousAction' = [continuousAction EXCEPT !.state = "off"]
    BY <2>1, <2>3, Apart
  <2>4. ASSUME NEW n \in Int, continuousAction.type \in Blinking \cup Breathing,
               continuousAction' = [type |-> continuousAction.type, state |-> "on", loops |-> n]
        PROVE  ActionTypes'
    BY <2>1, <2>4, Apart
  <2> QED BY <1>6, <2>2, <2>3, <2>4, Shown
<1>7. CASE LedLoop /\ lpc \in {"start", "arm"}
  BY <1>7 DEF LedLoop, LedStop
<1>8. CASE LedTick
  BY <1>8 DEF LedTick, Give
<1>9. CASE UNCHANGED ledVars
  BY <1>9 DEF ledVars
<1> QED BY <1>1, <1>2, <1>3, <1>4, <1>5, <1>6, <1>7, <1>8, <1>9 DEF LedNext, LedLoop, LedStop

LEMMA LedStepGoesOn == LedIInv /\ [LedNext]_ledVars => StepsGoOn'
<1> SUFFICES ASSUME LedIInv, [LedNext]_ledVars PROVE StepsGoOn'
  OBVIOUS
<1> USE LEDControllerAssumption DEF LedIInv, LedTypeOK, ActionTypes, StepsGoOn, Asleep, Nothing, Blinking, Breathing, ledTimerVars, lightVars
<1>1. CASE LedSetting
  BY <1>1 DEF LedSetting, Blink, SetContinuous, Give, Pending
<1>2. ASSUME NEW c \in Callers, LedClear(c) PROVE StepsGoOn'
  BY <1>2 DEF LedClear, LedStop
<1>3. CASE LedLoop /\ lpc = "take"
  BY <1>3 DEF LedLoop, LedStop
<1>4. CASE LedLoop /\ lpc \in {"stop", "halt"}
  BY <1>4 DEF LedLoop, LedStop
<1>5. CASE LedLoop /\ lpc = "handle" /\ HandleShortAction
  BY <1>5 DEF LedLoop, LedStop, HandleShortAction, Lights
<1>6. CASE LedLoop /\ lpc = "handle" /\ HandleContinuousAction
  <2>1. shortAction' = Nothing /\ cpc' = cpc
    BY <1>6 DEF HandleContinuousAction, LedLoop
  <2>2. lpc' = "take" => continuousAction' \in {Nothing, Solid}
    <3> HIDE DEF Nothing
    <3> QED BY <1>6, Shown
  <2> QED BY <2>1, <2>2 DEF Solid
<1>7. CASE LedLoop /\ lpc \in {"start", "arm"}
  BY <1>7 DEF LedLoop, LedStop
<1>8. CASE LedTick
  BY <1>8 DEF LedTick, Give
<1>9. CASE UNCHANGED ledVars
  BY <1>9 DEF ledVars
<1> QED BY <1>1, <1>2, <1>3, <1>4, <1>5, <1>6, <1>7, <1>8, <1>9 DEF LedNext, LedLoop, LedStop

LEMMA LedStepRests == LedIInv /\ [LedNext]_ledVars => RestShows'
<1> SUFFICES ASSUME LedIInv, [LedNext]_ledVars PROVE RestShows'
  OBVIOUS
<1> USE LEDControllerAssumption DEF LedIInv, ActionTypes, RestShows, OnceOff, Solid, Nothing, Blinking, Breathing, ledTimerVars, lightVars
<1>1. CASE LedSetting
  <2>1. ASSUME NEW type \in {"once", "twice"}, Blink(type) PROVE RestShows'
    BY <1>1, <2>1 DEF LedSetting, Blink, Give, Pending
  <2>2. ASSUME NEW type \in {"solid"} \cup Blinking \cup Breathing, SetContinuous(type) PROVE RestShows'
    BY <1>1, <2>2 DEF LedSetting, SetContinuous, Give, Pending
  <2> QED BY <1>1, <2>1, <2>2 DEF LedSetting
<1>2. ASSUME NEW c \in Callers, LedClear(c) PROVE RestShows'
  <2>1. CASE cpc[c] = "write"
    <3>1. shortAction' = Nothing /\ continuousAction' = Nothing /\ led' = "off" /\ ledLock' = FALSE
      BY <1>2, <2>1 DEF LedClear, LedStop
    <3> HIDE DEF Nothing, OnceOff, Solid
    <3> QED BY <3>1, Apart
  <2>2. CASE cpc[c] # "write"
    BY <1>2, <2>2 DEF LedClear, LedStop
  <2> QED BY <2>1, <2>2
<1>3. CASE LedLoop /\ lpc = "take"
  BY <1>3 DEF LedLoop, LedStop
<1>4. CASE LedLoop /\ lpc \in {"stop", "halt"}
  BY <1>4 DEF LedLoop, LedStop
<1>5. CASE LedLoop /\ lpc = "handle" /\ HandleShortAction
  BY <1>5 DEF LedLoop, LedStop, HandleShortAction, Lights
<1>6. CASE LedLoop /\ lpc = "handle" /\ HandleContinuousAction
  <2>1. shortAction' = Nothing /\ shortAction \in {Nothing, OnceOff}
    BY <1>6 DEF HandleContinuousAction
  <2> HIDE DEF Nothing, OnceOff, Solid, ActionTypes
  <2>2. ActionTypes /\ HandleContinuousAction
    BY <1>6
  <2>3. CASE continuousAction = Nothing /\ continuousAction' = Nothing /\ led' = led /\ ledLock' = FALSE
    BY <2>1, <2>3, Apart
  <2>4. CASE continuousAction.type = "solid" /\ continuousAction' = Solid /\ led' = "solid" /\ ledLock' = FALSE
    BY <2>1, <2>4, Apart
  <2>5. CASE /\ continuousAction.type \in Blinking /\ continuousAction.state = "off" /\ continuousAction' = Nothing
             /\ led' = led /\ ledLock' = FALSE
    BY <2>1, <2>5, Apart
  <2>6. CASE /\ continuousAction.type \in Blinking
             /\ continuousAction' = [continuousAction EXCEPT !.state = "off"] /\ led' = "off"
    <3>1. continuousAction'.type \in Blinking
      BY <2>6 DEF ActionTypes
    <3> QED BY <2>1, <2>6, <3>1, Apart
  <2>7. CASE /\ continuousAction.type \in Blinking \cup Breathing
             /\ \E n \in Int : continuousAction' = [type |-> continuousAction.type, state |-> "on", loops |-> n]
    <3>1. continuousAction'.type \in Blinking \cup Breathing /\ continuousAction'.state = "on"
      BY <2>7
    <3> QED BY <2>1, <3>1, Apart
  <2> QED BY <2>2, <2>3, <2>4, <2>5, <2>6, <2>7, Shown
<1>7. CASE LedLoop /\ lpc \in {"start", "arm"}
  BY <1>7 DEF LedLoop, LedStop
<1>8. CASE LedTick
  BY <1>8 DEF LedTick, Give
<1>9. CASE UNCHANGED ledVars
  BY <1>9 DEF ledVars
<1> QED BY <1>1, <1>2, <1>3, <1>4, <1>5, <1>6, <1>7, <1>8, <1>9 DEF LedNext, LedLoop, LedStop

LEMMA LedStepDue == LedIInv /\ [LedNext]_ledVars => DueInTime'
<1> SUFFICES ASSUME LedIInv, [LedNext]_ledVars PROVE DueInTime'
  OBVIOUS
<1> USE LEDControllerAssumption DEF LedIInv, ActionTypes, DueInTime, InStep, Nothing, Blinking, Breathing, ledTimerVars, lightVars
<1>1. CASE LedSetting
  <2>1. ASSUME NEW type \in {"once", "twice"}, Blink(type) PROVE DueInTime'
    BY <1>1, <2>1 DEF LedSetting, Blink, Give, Pending
  <2>2. ASSUME NEW type \in {"solid"} \cup Blinking \cup Breathing, SetContinuous(type) PROVE DueInTime'
    BY <1>1, <2>2 DEF LedSetting, SetContinuous, Give, Pending
  <2> QED BY <1>1, <2>1, <2>2 DEF LedSetting
<1>2. ASSUME NEW c \in Callers, LedClear(c) PROVE DueInTime'
  BY <1>2 DEF LedClear, LedStop
<1>3. CASE LedLoop /\ lpc = "take"
  BY <1>3 DEF LedLoop, LedStop
<1>4. CASE LedLoop /\ lpc \in {"stop", "halt"}
  BY <1>4 DEF LedLoop, LedStop
<1>5. CASE LedLoop /\ lpc = "handle" /\ HandleShortAction
  BY <1>5 DEF LedLoop, LedStop, HandleShortAction, Lights
<1>6. CASE LedLoop /\ lpc = "handle" /\ HandleContinuousAction
  BY <1>6 DEF LedLoop, LedStop, HandleContinuousAction, Lights, Ends
<1>7. CASE LedLoop /\ lpc \in {"start", "arm"}
  BY <1>7 DEF LedLoop, LedStop
<1>8. CASE LedTick
  BY <1>8 DEF LedTick, Give
<1>9. CASE UNCHANGED ledVars
  BY <1>9 DEF ledVars
<1> QED BY <1>1, <1>2, <1>3, <1>4, <1>5, <1>6, <1>7, <1>8, <1>9 DEF LedNext, LedLoop, LedStop

LEMMA LedStepLasts == LedIInv /\ [LedNext]_ledVars => StepsLast'
<1> SUFFICES ASSUME LedIInv, [LedNext]_ledVars PROVE StepsLast'
  OBVIOUS
<1> USE LEDControllerAssumption DEF LedIInv, StepsLast, DueInTime, ledTimerVars, lightVars
<1>1. CASE LedSetting
  BY <1>1 DEF LedSetting, Blink, SetContinuous, Give, Pending
<1>2. ASSUME NEW c \in Callers, LedClear(c) PROVE StepsLast'
  BY <1>2 DEF LedClear, LedStop
<1>3. CASE LedLoop /\ lpc = "take"
  BY <1>3 DEF LedLoop, LedStop
<1>4. CASE LedLoop /\ lpc \in {"stop", "halt"}
  BY <1>4 DEF LedLoop, LedStop
<1>5. CASE LedLoop /\ lpc = "handle" /\ HandleShortAction
  BY <1>5 DEF LedLoop, LedStop, HandleShortAction, Lights
<1>6. CASE LedLoop /\ lpc = "handle" /\ HandleContinuousAction
  BY <1>6 DEF LedLoop, LedStop, HandleContinuousAction, Lights, Ends
<1>7. CASE LedLoop /\ lpc \in {"start", "arm"}
  BY <1>7 DEF LedLoop, LedStop
<1>8. CASE LedTick
  BY <1>8 DEF LedTick, Give
<1>9. CASE UNCHANGED ledVars
  BY <1>9 DEF ledVars
<1> QED BY <1>1, <1>2, <1>3, <1>4, <1>5, <1>6, <1>7, <1>8, <1>9 DEF LedNext, LedLoop, LedStop

LEMMA LedInvFollows == LedIInv => LedInv
<1> SUFFICES ASSUME LedIInv PROVE LedInv
  OBVIOUS
<1> USE DEF LedIInv
<1>1. ASSUME Asleep, \A c \in Callers : cpc[c] = "idle"
      PROVE  ~ledLock /\ led = (IF continuousAction.type = "solid" THEN "solid" ELSE "off")
  <2>1. shortAction = Nothing /\ continuousAction \in {Nothing, Solid}
    BY <1>1 DEF StepsGoOn, Solid
  <2>2. Nothing.type = "none" /\ Solid.type = "solid"
    BY DEF Nothing, Solid
  <2> QED BY <2>1, <2>2 DEF RestShows
<1> QED BY <1>1 DEF LedInv, RestsAsAsked

LEMMA LedStepIInv == LedIInv /\ [LedNext]_ledVars => LedIInv'
BY LedStepTypes, LedStepActions, LedStepGoesOn, LedStepRests, LedStepDue, LedStepLasts DEF LedIInv

-----------------------------------------------------------------------------
(* Clock: what the chip keeps, and what an operation that is alone is to   *)
(* store.                                                                  *)
TimeRec == [sec : Int, year : Int]
RtcRec  == [sec : Int, digits : Int, century : BOOLEAN]

ClockTypes ==
  /\ seconds \in Int /\ updateTime \in Int /\ seconds - updateTime \in 0..SyncInterval
  /\ base \in TimeRec /\ asked \in TimeRec /\ holds \in [TimeParties -> TimeRec]
  /\ rtc \in RtcRec
  /\ tpc \in [TimeParties -> {"idle", "chip", "base"}]

(* Of an operation that is alone: the seconds stand still, and what it is  *)
(* to store is the chip's time, or the one asked for.                      *)
AloneInv ==
  /\ ~Idle => updateTime = seconds
  /\ alone => \A p, q \in TimeParties : tpc[p] # "idle" /\ tpc[q] # "idle" => p = q
  /\ alone /\ tpc["sync"] = "base" => holds["sync"] \in {TimeAt(RtcGetTime(rtc), seconds), NoTime}
  /\ alone => \A p \in TimeSetters : tpc[p] = "base" => holds[p] = asked

ClockIInv == ClockTypes /\ AloneInv /\ ClockInv

(* A year's two digits are kept as they are. *)
LEMMA DigitsKept ==
  ASSUME NEW d \in 0..99
  PROVE  Dec2Bcd(d) \in Int /\ Bcd2Dec(Dec2Bcd(d)) = d
<1>1. PICK t \in 0..9, u \in 0..9 : d = 10 * t + u
  OBVIOUS
<1>2. d \div 10 = t /\ d % 10 = u
  BY <1>1
<1>3. (16 * t + u) \div 16 = t /\ (16 * t + u) % 16 = u
  OBVIOUS
<1> QED BY <1>1, <1>2, <1>3 DEF Dec2Bcd, Bcd2Dec

(* What is set within the two centuries is what the chip then gives. *)
LEMMA ChipKeeps ==
  ASSUME NEW t \in TimeRec
  PROVE  /\ RtcSetTime(t) \in RtcRec
         /\ t.year \in 1900..2099 => RtcGetTime(RtcSetTime(t)) = t
<1> DEFINE d == (t.year - 1900) % 100
<1>1. d \in 0..99 /\ t.year - 1900 \in Int
  BY DEF TimeRec
<1>2. t.year \in 1900..2099 => t.year = 1900 + d + (IF t.year - 1900 >= 100 THEN 100 ELSE 0)
  BY DEF TimeRec
<1> HIDE DEF d
<1>3. Dec2Bcd(d) \in Int /\ Bcd2Dec(Dec2Bcd(d)) = d
  BY <1>1, DigitsKept
<1>4. RtcSetTime(t) = [sec |-> t.sec, digits |-> Dec2Bcd(d), century |-> t.year - 1900 >= 100]
  BY DEF RtcSetTime, d
<1>5. RtcSetTime(t) \in RtcRec
  BY <1>3, <1>4, <1>1 DEF TimeRec, RtcRec
<1>6. ASSUME t.year \in 1900..2099 PROVE RtcGetTime(RtcSetTime(t)) = t
  <2>1. RtcGetTime(RtcSetTime(t)) = [sec |-> t.sec, year |-> t.year]
    <3> DEFINE r == RtcSetTime(t)
               y == t.year - 1900
    <3>0. r = [sec |-> t.sec, digits |-> Dec2Bcd(d), century |-> y >= 100] /\ y \in Int
      BY <1>1, <1>4
    <3> HIDE DEF r, y
    <3>3. y >= 100 => r.century = TRUE
      BY <3>0
    <3>4. ~(y >= 100) => ~r.century
      BY <3>0
    <3>1. CASE y >= 100
      <4>0. r.century = TRUE
        BY <3>1, <3>3
      <4>1. RtcGetTime(r) = [sec |-> t.sec, year |-> 1900 + d + 100]
        BY <1>1, <1>3, <3>0, <4>0 DEF RtcGetTime
      <4> QED BY <1>2, <1>6, <3>1, <4>1 DEF r, y
    <3>2. CASE ~(y >= 100)
      <4>0. ~r.century
        BY <3>2, <3>4
      <4>1. RtcGetTime(r) = [sec |-> t.sec, year |-> 1900 + d + 0]
        BY <1>1, <1>3, <3>0, <4>0 DEF RtcGetTime
      <4> QED BY <1>2, <1>6, <3>2, <4>1 DEF r, y
    <3> QED BY <3>1, <3>2
  <2> QED BY <2>1 DEF TimeRec
<1> QED BY <1>5, <1>6

LEMMA ChipGives == ASSUME NEW r \in RtcRec, NEW s \in Int PROVE TimeAt(RtcGetTime(r), s) \in TimeRec
<1>1. Bcd2Dec(r.digits) \in Int
  BY DEF Bcd2Dec, RtcRec
<1> QED BY <1>1 DEF RtcGetTime, TimeAt, TimeRec, RtcRec

LEMMA ClockInitIInv == ClockInit => ClockIInv
<1> SUFFICES ASSUME ClockInit PROVE ClockIInv
  OBVIOUS
<1> USE ClockAssumption
<1> DEFINE t == [sec |-> 0, year |-> 1999]
<1>1. t \in TimeRec /\ t.year \in 1900..2099
  BY DEF TimeRec
<1> HIDE DEF t
<1>2. rtc \in RtcRec /\ RtcGetTime(rtc) = t
  BY <1>1, ChipKeeps DEF ClockInit, t
<1>3. base = t /\ asked = t /\ seconds = 0 /\ updateTime = 0 /\ refused = FALSE
  BY DEF ClockInit, t
<1>4. Idle /\ ClockTypes
  BY <1>1, <1>2, <1>3 DEF ClockInit, t, Idle, ClockTypes, TimeParties
<1>5. AloneInv
  BY <1>4 DEF AloneInv, Idle, TimeParties
<1>6. GetTime = TimeAt(asked, seconds)
  BY <1>1, <1>3 DEF GetTime, TimeAt, TimeRec
<1>7. ClockInv
  BY <1>2, <1>3, <1>4, <1>6 DEF ClockInv, ShowsTimeSet, BehindWhileRead, TwoCenturies, Idle, TimeParties
<1> QED BY <1>4, <1>5, <1>7 DEF ClockIInv

LEMMA ClockStepTypes == ClockTypes /\ [ClockNext]_clockVars => ClockTypes'
<1> SUFFICES ASSUME ClockTypes, [ClockNext]_clockVars PROVE ClockTypes'
  OBVIOUS
<1> USE ClockAssumption DEF ClockTypes
<1>1. CASE Second
  BY <1>1 DEF Second
<1>2. ASSUME Sync, UNCHANGED seconds PROVE ClockTypes'
  <2>1. TimeAt(RtcGetTime(rtc), seconds) \in TimeRec /\ NoTime \in TimeRec
    BY ChipGives DEF NoTime, TimeRec
  <2>2. "sync" \in TimeParties
    BY DEF TimeParties
  <2>3. updateTime' \in {updateTime, seconds} /\ UNCHANGED <<rtc, asked>>
    BY <1>2 DEF Sync, Begin
  <2>4. tpc' \in [TimeParties -> {"idle", "chip", "base"}]
    BY <1>2, <2>2 DEF Sync, Begin
  <2>5. holds' \in [TimeParties -> TimeRec] /\ base' \in TimeRec
    BY <1>2, <2>1, <2>2 DEF Sync, Begin
  <2>6. seconds - updateTime' \in 0..SyncInterval /\ updateTime' \in Int
    <3>1. CASE updateTime' = updateTime
      BY <3>1
    <3>2. CASE updateTime' = seconds
      <4>1. seconds - seconds = 0 /\ 0 \in 0..SyncInterval
        OBVIOUS
      <4> QED BY <3>2, <4>1
    <3> QED BY <2>3, <3>1, <3>2
  <2> QED BY <1>2, <2>3, <2>4, <2>5, <2>6
<1>3. ASSUME NEW p \in TimeSetters, SetTime(p), UNCHANGED seconds PROVE ClockTypes'
  <2>1. p \in TimeParties /\ holds[p] \in TimeRec
    BY DEF TimeParties
  <2>2. updateTime' \in {updateTime, seconds} /\ asked' \in TimeRec
    BY <1>3, <2>1 DEF SetTime, Begin
  <2>3. tpc' \in [TimeParties -> {"idle", "chip", "base"}]
    BY <1>3, <2>1 DEF SetTime, Begin
  <2>4. holds' \in [TimeParties -> TimeRec]
    BY <1>3, <2>1 DEF SetTime, Begin, TimeRec
  <2>5. TimeAt(holds[p], seconds) \in TimeRec
    BY <2>1 DEF TimeAt, TimeRec
  <2>6. base' \in TimeRec
    BY <1>3, <2>5 DEF SetTime
  <2>7. rtc' \in RtcRec
    BY <1>3, <2>1, ChipKeeps DEF SetTime
  <2>8. seconds - updateTime' \in 0..SyncInterval /\ updateTime' \in Int
    <3>1. CASE updateTime' = updateTime
      BY <3>1
    <3>2. CASE updateTime' = seconds
      <4>1. seconds - seconds = 0 /\ 0 \in 0..SyncInterval
        OBVIOUS
      <4> QED BY <3>2, <4>1
    <3> QED BY <2>2, <3>1, <3>2
  <2> QED BY <1>3, <2>2, <2>3, <2>4, <2>6, <2>7, <2>8
<1>4. CASE UNCHANGED clockVars
  BY <1>4 DEF clockVars
<1> QED BY <1>1, <1>2, <1>3, <1>4 DEF ClockNext

(* The three steps of a renewal, and of a setting. *)
LEMMA SyncSteps ==
  ASSUME ClockTypes, Sync
  PROVE  /\ UNCHANGED <<rtc, asked, refused>>
         /\ \/ /\ tpc["sync"] = "idle" /\ tpc' = [tpc EXCEPT !["sync"] = "chip"] /\ updateTime' = seconds
               /\ alone' = Idle /\ UNCHANGED <<base, holds, spoilt>>
            \/ /\ tpc["sync"] = "chip" /\ tpc' = [tpc EXCEPT !["sync"] = "base"]
               /\ holds' = [holds EXCEPT !["sync"] = holds'["sync"]]
               /\ holds'["sync"] \in {TimeAt(RtcGetTime(rtc), seconds), NoTime}
               /\ UNCHANGED <<base, updateTime, alone, spoilt>>
            \/ /\ tpc["sync"] = "base" /\ tpc' = [tpc EXCEPT !["sync"] = "idle"] /\ base' = holds["sync"]
               /\ spoilt' = (~alone \/ holds["sync"] = NoTime) /\ UNCHANGED <<updateTime, holds, alone>>
<1>1. "sync" \in TimeParties
  BY DEF TimeParties
<1> QED BY <1>1 DEF Sync, Begin, ClockTypes

SetBegins(p) ==
  /\ tpc[p] = "idle" /\ tpc' = [tpc EXCEPT ![p] = "chip"] /\ updateTime' = seconds /\ alone' = Idle
  /\ \A q \in TimeParties : q # p => holds'[q] = holds[q]
  /\ UNCHANGED <<rtc, base, spoilt, asked, refused>>
SetTells(p) ==
  /\ tpc[p] = "chip" /\ tpc' = [tpc EXCEPT ![p] = "base"] /\ asked' = holds[p]
  /\ refused' \/ (rtc' = RtcSetTime(holds[p]) /\ holds[p].year \in 1900..2099)
  /\ UNCHANGED <<base, updateTime, holds, alone, spoilt>>
SetStores(p) ==
  /\ tpc[p] = "base" /\ tpc' = [tpc EXCEPT ![p] = "idle"]
  /\ base' = TimeAt(holds[p], seconds) /\ spoilt' = ~alone
  /\ UNCHANGED <<rtc, updateTime, holds, alone, asked, refused>>

LEMMA SetSteps ==
  ASSUME ClockTypes, NEW p \in TimeSetters, SetTime(p)
  PROVE  SetBegins(p) \/ SetTells(p) \/ SetStores(p)
<1>1. p \in TimeParties
  BY DEF TimeParties
<1>2. CASE tpc[p] = "idle"
  BY <1>1, <1>2 DEF SetTime, Begin, ClockTypes, SetBegins
<1>3. CASE tpc[p] = "chip"
  <2> DEFINE inRange == holds[p].year \in 1900..2099
  <2>1. PICK ok \in BOOLEAN : /\ rtc' = IF ok THEN RtcSetTime(holds[p]) ELSE rtc
                             /\ refused' = (~ok \/ ~inRange)
    BY <1>3 DEF SetTime, Begin
  <2>2. /\ tpc[p] = "chip" /\ tpc' = [tpc EXCEPT ![p] = "base"] /\ asked' = holds[p]
        /\ UNCHANGED <<base, updateTime, holds, alone, spoilt>>
    BY <1>3 DEF SetTime, Begin
  <2> HIDE DEF inRange
  <2>3. CASE refused'
    BY <2>2, <2>3 DEF SetTells
  <2>4. CASE ~refused'
    <3>1. ok /\ inRange
      BY <2>1, <2>4
    <3>2. rtc' = RtcSetTime(holds[p])
      BY <2>1, <3>1
    <3> QED BY <2>2, <3>1, <3>2 DEF SetTells, inRange
  <2> QED BY <2>3, <2>4
<1>4. CASE tpc[p] = "base"
  BY <1>4 DEF SetTime, Begin, SetStores
<1> QED BY <1>1, <1>2, <1>3, <1>4 DEF ClockTypes

LEMMA ClockStepAlone == ClockIInv /\ [ClockNext]_clockVars => AloneInv'
<1> SUFFICES ASSUME ClockIInv, [ClockNext]_clockVars PROVE AloneInv'
  OBVIOUS
<1> USE ClockAssumption
<1>0. ClockTypes /\ ClockTypes' /\ AloneInv
  BY ClockStepTypes DEF ClockIInv
<1>1. CASE Second
  BY <1>0, <1>1 DEF Second, AloneInv, Idle, TimeParties
<1>2. ASSUME Sync, UNCHANGED seconds PROVE AloneInv'
  <2>1. CASE tpc["sync"] = "idle"
    BY <1>0, <1>2, <2>1, SyncSteps DEF AloneInv, Idle, ClockTypes, TimeParties
  <2>2. CASE tpc["sync"] = "chip"
    BY <1>0, <1>2, <2>2, SyncSteps DEF AloneInv, Idle, ClockTypes, TimeParties
  <2>3. CASE tpc["sync"] = "base"
    BY <1>0, <1>2, <2>3, SyncSteps DEF AloneInv, Idle, ClockTypes, TimeParties
  <2> QED BY <1>0, <1>2, <2>1, <2>2, <2>3, SyncSteps
<1>3. ASSUME NEW p \in TimeSetters, SetTime(p), UNCHANGED seconds PROVE AloneInv'
  <2>0. p \in TimeParties /\ p # "sync"
    BY DEF TimeParties
  <2>1. CASE SetBegins(p)
    BY <1>0, <1>3, <2>0, <2>1 DEF SetBegins, AloneInv, Idle, ClockTypes, TimeParties
  <2>2. CASE SetTells(p)
    BY <1>0, <1>3, <2>0, <2>2 DEF SetTells, AloneInv, Idle, ClockTypes, TimeParties
  <2>3. CASE SetStores(p)
    BY <1>0, <1>3, <2>0, <2>3 DEF SetStores, AloneInv, Idle, ClockTypes, TimeParties
  <2> QED BY <1>0, <1>3, <2>1, <2>2, <2>3, SetSteps
<1>4. CASE UNCHANGED clockVars
  BY <1>0, <1>4 DEF clockVars, AloneInv, Idle
<1> QED BY <1>1, <1>2, <1>3, <1>4 DEF ClockNext

LEMMA ClockStepKeeps == ClockIInv /\ [ClockNext]_clockVars => TwoCenturies'
<1> SUFFICES ASSUME ClockIInv, [ClockNext]_clockVars PROVE TwoCenturies'
  OBVIOUS
<1>0. ClockTypes /\ TwoCenturies
  BY DEF ClockIInv, ClockInv
<1>1. ASSUME NEW p \in TimeSetters, SetTime(p), UNCHANGED seconds PROVE TwoCenturies'
  <2>1. holds[p] \in TimeRec
    BY <1>0 DEF ClockTypes, TimeParties
  <2>2. holds[p].year \in 1900..2099 => RtcGetTime(RtcSetTime(holds[p])) = holds[p]
    BY <2>1, ChipKeeps
  <2>3. SetBegins(p) \/ SetTells(p) \/ SetStores(p)
    BY <1>0, <1>1, SetSteps
  <2> QED BY <1>0, <2>2, <2>3 DEF SetBegins, SetTells, SetStores, TwoCenturies
<1>2. CASE Second \/ Sync \/ UNCHANGED clockVars
  BY <1>0, <1>2 DEF Second, Sync, clockVars, TwoCenturies
<1> QED BY <1>1, <1>2 DEF ClockNext

LEMMA ClockStepShows == ClockIInv /\ [ClockNext]_clockVars => ShowsTimeSet'
<1> SUFFICES ASSUME ClockIInv, [ClockNext]_clockVars, Idle', ~spoilt'
             PROVE  /\ refused' \/ GetTime' = TimeAt(asked, seconds)'
                    /\ GetTime' \in {TimeAt(RtcGetTime(rtc), seconds)', TimeAt(asked, seconds)'}
  BY DEF ShowsTimeSet
<1> USE ClockAssumption
<1>0. ClockTypes /\ AloneInv /\ ShowsTimeSet /\ TwoCenturies
  BY DEF ClockIInv, ClockInv
<1>1. CASE Second
  <2>1. Idle /\ ~spoilt
    BY <1>1 DEF Second
  <2>2. GetTime' = [GetTime EXCEPT !.sec = @ + 1]
    <3>1. GetTime = [sec |-> base.sec + (seconds - updateTime), year |-> base.year]
      BY <1>0 DEF GetTime, ClockTypes, TimeRec
    <3>2. GetTime' = [sec |-> base.sec + (seconds + 1 - updateTime), year |-> base.year]
      BY <1>0, <1>1 DEF Second, GetTime, ClockTypes, TimeRec
    <3> QED BY <1>0, <3>1, <3>2 DEF ClockTypes, TimeRec
  <2>3. TimeAt(asked, seconds)' = [TimeAt(asked, seconds) EXCEPT !.sec = @ + 1]
    BY <1>0, <1>1 DEF Second, TimeAt, ClockTypes, TimeRec
  <2>4. TimeAt(RtcGetTime(rtc), seconds)' = [TimeAt(RtcGetTime(rtc), seconds) EXCEPT !.sec = @ + 1]
    BY <1>0, <1>1 DEF Second, TimeAt, RtcGetTime, ClockTypes, RtcRec
  <2>5. refused' = refused
    BY <1>1 DEF Second
  <2> QED BY <1>0, <2>1, <2>2, <2>3, <2>4, <2>5 DEF ShowsTimeSet
<1>2. ASSUME Sync, UNCHANGED seconds
      PROVE  /\ refused' \/ GetTime' = TimeAt(asked, seconds)'
             /\ GetTime' \in {TimeAt(RtcGetTime(rtc), seconds)', TimeAt(asked, seconds)'}
  <2>1. tpc["sync"] = "base" /\ ~Idle
    BY <1>0, <1>2, SyncSteps DEF Idle, ClockTypes, TimeParties
  <2>2. alone /\ base' = TimeAt(RtcGetTime(rtc), seconds) /\ updateTime' = seconds
    BY <1>0, <1>2, <2>1, SyncSteps DEF AloneInv
  <2>3. GetTime' = base'
    BY <1>0, <1>2, <2>2 DEF GetTime, ClockTypes, RtcGetTime, TimeAt, RtcRec
  <2> QED BY <1>0, <1>2, <2>2, <2>3, SyncSteps DEF TwoCenturies
<1>3. ASSUME NEW p \in TimeSetters, SetTime(p), UNCHANGED seconds
      PROVE  /\ refused' \/ GetTime' = TimeAt(asked, seconds)'
             /\ GetTime' \in {TimeAt(RtcGetTime(rtc), seconds)', TimeAt(asked, seconds)'}
  <2>1. p \in TimeParties /\ tpc'[p] = "idle"
    BY DEF Idle, TimeParties
  <2>0. SetBegins(p) \/ SetTells(p) \/ SetStores(p)
    BY <1>0, <1>3, SetSteps
  <2>6. tpc[p] = "base"
    BY <1>0, <2>0, <2>1 DEF SetBegins, SetTells, SetStores, ClockTypes
  <2>2. SetStores(p) /\ ~Idle
    BY <2>0, <2>1, <2>6 DEF SetBegins, SetTells, Idle
  <2>4. alone
    BY <2>2 DEF SetStores
  <2>5. base' = TimeAt(asked, seconds) /\ updateTime' = seconds /\ asked' = asked
    BY <1>0, <2>2, <2>4 DEF AloneInv, SetStores
  <2>3. GetTime' = base'
    BY <1>0, <1>3, <2>5 DEF GetTime, ClockTypes, TimeAt, TimeRec
  <2> QED BY <1>3, <2>5, <2>3
<1>4. CASE UNCHANGED clockVars
  BY <1>0, <1>4 DEF clockVars, GetTime, Idle, ShowsTimeSet
<1> QED BY <1>1, <1>2, <1>3, <1>4 DEF ClockNext

LEMMA ClockStepBehind == ClockIInv /\ [ClockNext]_clockVars => BehindWhileRead'
<1> SUFFICES ASSUME ClockIInv, [ClockNext]_clockVars, tpc'["sync"] # "idle", alone', ~spoilt', ~refused'
             PROVE  TimeAt(asked, seconds).sec' - GetTime.sec' \in 0..SyncInterval
  BY DEF BehindWhileRead
<1> USE ClockAssumption
<1>0. ClockTypes /\ AloneInv /\ ShowsTimeSet /\ BehindWhileRead
  BY DEF ClockIInv, ClockInv
<1>1. CASE Second
  BY <1>0, <1>1 DEF Second, Idle, TimeParties
<1>2. ASSUME Sync, UNCHANGED seconds PROVE TimeAt(asked, seconds).sec' - GetTime.sec' \in 0..SyncInterval
  <2>1. CASE tpc["sync"] = "idle"
    <3>0. alone' = Idle /\ spoilt' = spoilt /\ refused' = refused
      BY <1>0, <1>2, <2>1, SyncSteps
    <3>1. Idle /\ ~spoilt /\ ~refused /\ base' = base /\ asked' = asked /\ updateTime' = seconds
      BY <1>0, <1>2, <2>1, <3>0, SyncSteps
    <3>2. GetTime = TimeAt(asked, seconds)
      BY <1>0, <3>1 DEF ShowsTimeSet
    <3>3. base.sec + (seconds - updateTime) = seconds + asked.sec
      BY <1>0, <3>2 DEF GetTime, TimeAt, ClockTypes, TimeRec
    <3>4. GetTime.sec' = base.sec /\ TimeAt(asked, seconds).sec' = seconds + asked.sec
      BY <1>0, <1>2, <3>1 DEF GetTime, TimeAt, ClockTypes, TimeRec
    <3>5. base.sec \in Int /\ asked.sec \in Int
      BY <1>0 DEF ClockTypes, TimeRec
    <3> QED BY <1>0, <3>3, <3>4, <3>5 DEF ClockTypes
  <2>2. CASE tpc["sync"] # "idle"
    <3>1. UNCHANGED <<base, asked, updateTime, alone, spoilt, refused>>
      BY <1>0, <1>2, <2>2, SyncSteps DEF ClockTypes, TimeParties
    <3> QED BY <1>0, <1>2, <2>2, <3>1 DEF BehindWhileRead, GetTime
  <2> QED BY <2>1, <2>2
<1>3. ASSUME NEW p \in TimeSetters, SetTime(p), UNCHANGED seconds
      PROVE  TimeAt(asked, seconds).sec' - GetTime.sec' \in 0..SyncInterval
  <2>0. p \in TimeParties /\ "sync" \in TimeParties /\ p # "sync"
    BY DEF TimeParties
  <2>3. SetBegins(p) \/ SetTells(p) \/ SetStores(p)
    BY <1>0, <1>3, SetSteps
  <2>4. tpc'["sync"] = tpc["sync"]
    <3>1. \/ tpc' = [tpc EXCEPT ![p] = "idle"]
          \/ tpc' = [tpc EXCEPT ![p] = "chip"]
          \/ tpc' = [tpc EXCEPT ![p] = "base"]
      BY <2>3 DEF SetBegins, SetTells, SetStores
    <3> QED BY <1>0, <2>0, <3>1 DEF ClockTypes
  <2>1. tpc["sync"] # "idle" /\ ~Idle
    BY <2>0, <2>4 DEF Idle
  <2>2. tpc[p] # "idle" /\ alone
    <3>1. CASE SetBegins(p)
      BY <2>1, <3>1 DEF SetBegins
    <3>2. CASE SetTells(p)
      BY <3>2 DEF SetTells
    <3>3. CASE SetStores(p)
      BY <3>3 DEF SetStores
    <3> QED BY <2>3, <3>1, <3>2, <3>3
  <2> QED BY <1>0, <2>0, <2>1, <2>2 DEF AloneInv
<1>4. CASE UNCHANGED clockVars
  BY <1>0, <1>4 DEF clockVars, GetTime, BehindWhileRead
<1> QED BY <1>1, <1>2, <1>3, <1>4 DEF ClockNext

LEMMA ClockStepIInv == ClockIInv /\ [ClockNext]_clockVars => ClockIInv'
BY ClockStepTypes, ClockStepAlone, ClockStepKeeps, ClockStepShows, ClockStepBehind DEF ClockIInv, ClockInv

-----------------------------------------------------------------------------
(* The parts side by side: each keeps its own invariant, in its own steps  *)
(* and in the others', which leave it alone.                               *)
LEMMA PowerKeeps ==
  ASSUME BattTypeOK, CenterIInv, [PartsNext]_partsVars
  PROVE  BattTypeOK' /\ CenterIInv'
<1>1. CASE Power
  <2>1. [BattNext]_battVars
    BY <1>1 DEF Power, BatterySleeps, MeasureAndPost, Handle, Notify, BattNext
  <2>2. BattTypeOK'
    BY <2>1, BattStepTypes
  <2>3. CASE MeasureAndPost \/ Handle \/ Notify
    BY <2>2, <2>3, CenterMeasures, CenterHandles, CenterNotified
  <2>4. CASE (SetSleep \/ Setting \/ BattThread \/ Expires \/ HoldPasses \/ World) /\ UNCHANGED centerVars
    BY <2>2, <2>4, CenterLeft
  <2> QED BY <1>1, <2>3, <2>4 DEF Power, BatterySleeps
<1>2. CASE UNCHANGED powerVars
  BY <1>2 DEF powerVars, battVars, timerVars, chargeVars, worldVars, centerVars, BattTypeOK, CenterIInv, CenterQueued, CenterStates,
     CenterFlags, LastShows, LastTells, Silent, ToShow
<1> QED BY <1>1, <1>2 DEF PartsNext, partsVars

(* The big LED shows what the battery knows, however measurements, the     *)
(* phone's notifications and the center's thread fall together             *)
(* (StatusCenter::run, Battery::loop).                                     *)
THEOREM ShowsTheBattery == PartsSpec => []CenterInv
<1>1. PartsInit => BattTypeOK /\ CenterIInv
  BY BattInitIInv, CenterInitIInv DEF PartsInit, BattIInv
<1>2. BattTypeOK /\ CenterIInv /\ [PartsNext]_partsVars => BattTypeOK' /\ CenterIInv'
  BY PowerKeeps
<1> QED BY <1>1, <1>2, CenterInvFollows, PTL DEF PartsSpec

(* The server's descriptor, its notifications and its long values are      *)
(* right for every number of threads that print and of chunks (Server,     *)
(* Char::sendNotif, Char::onWrite).                                        *)
THEOREM ServesWhole == PartsSpec => []ServerInv
<1>1. PartsInit => ServerIInv
  BY ServerInitIInv DEF PartsInit
<1>2. ServerIInv /\ [PartsNext]_partsVars => ServerIInv'
  <2>1. [PartsNext]_partsVars => [ServerNext]_serverVars
    BY DEF PartsNext, partsVars
  <2> QED BY <2>1, ServerStepIInv
<1> QED BY <1>1, <1>2, ServerInvFollows, PTL DEF PartsSpec

(* The buzzer is heard and let go, the LED goes on and comes to rest as it *)
(* was asked (ChirpSystem::attach and detach, LEDController::run).         *)
THEOREM OutputsAsTold == PartsSpec => []OutputsInv
<1>1. PartsInit => SoundIInv /\ LedIInv
  BY SoundInitIInv, LedInitIInv DEF PartsInit
<1>2. SoundIInv /\ LedIInv /\ [PartsNext]_partsVars => SoundIInv' /\ LedIInv'
  <2>1. [PartsNext]_partsVars => [SoundNext]_soundVars /\ [LedNext]_ledVars
    BY DEF PartsNext, partsVars
  <2> QED BY <2>1, SoundStepIInv, LedStepIInv
<1>3. SoundIInv /\ LedIInv => OutputsInv
  BY SoundInvFollows, LedInvFollows DEF OutputsInv
<1> QED BY <1>1, <1>2, <1>3, PTL DEF PartsSpec

(* The clock shows the time last set, and is the chip's, for all times     *)
(* that are set and every interval of the renewal (Time::setTime,          *)
(* RTC::getTime).                                                          *)
THEOREM ShowsTheTime == PartsSpec => []ClockInv
<1>1. PartsInit => ClockIInv
  BY ClockInitIInv DEF PartsInit
<1>2. ClockIInv /\ [PartsNext]_partsVars => ClockIInv'
  <2>1. [PartsNext]_partsVars => [ClockNext]_clockVars
    BY DEF PartsNext, partsVars
  <2> QED BY <2>1, ClockStepIInv
<1>3. ClockIInv => ClockInv
  BY DEF ClockIInv
<1> QED BY <1>1, <1>2, <1>3, PTL DEF PartsSpec

-----------------------------------------------------------------------------
(* StatusTimers: wrap-around arithmetic.                                   *)
USE StatusTimersAssumption DEF Word

(* Where each deadline lies, seen from now.                                 *)
DownInv       == netState = "Down" =>
                   /\ wait \in 0..MaxBackoff /\ OnTime
                   /\ nextConnectAt = Plus(now, wait - age)
ConnectingInv == netState = "Connecting" =>
                   /\ wait = JoinLimit + 1 /\ OnTime
                   /\ now = Plus(connectStartedAt, age)
ConnectedInv  == netState = "Connected" =>
                   /\ wait \in {0, FetchInterval}
                   /\ wait = FetchInterval =>
                        OnTime /\ nextFetchAt = Plus(now, wait - age)

TimersIInv == TypeOK /\ DownInv /\ ConnectingInv /\ ConnectedInv

-----------------------------------------------------------------------------
(* Addition stays inside the words.                                         *)
LEMMA PlusWord ==
  ASSUME NEW a \in Word, NEW d \in 0..Half
  PROVE  Plus(a, d) \in Word
  BY DEF Plus

(* A deadline d ahead is reached by a step of s exactly when s >= d ...     *)
LEMMA ReachedExact ==
  ASSUME NEW t \in Word, NEW d \in Nat, NEW s \in Nat, d < Half, s < Half
  PROVE  /\ Reached(Plus(t, s), Plus(t, d)) <=> s >= d
         /\ s =< d => Plus(t, d) = Plus(Plus(t, s), d - s)
  BY DEF Reached, Plus, Minus

(* ... and the time since a start is the sum of the steps since.            *)
LEMMA ElapsedExact ==
  ASSUME NEW t \in Word, NEW a \in Nat, NEW s \in Nat, a + s < Half
  PROVE  /\ Plus(Plus(t, a), s) = Plus(t, a + s)
         /\ Minus(Plus(t, a + s), t) = a + s
  BY DEF Plus, Minus

(* Scheduling a join d ahead of a new now establishes the invariant.        *)
LEMMA JoinAfterIInv ==
  ASSUME TimersIInv, now' \in Word, NEW d \in 0..MaxBackoff, JoinAfter(d)
  PROVE  TimersIInv'
<1>1. nextConnectAt' \in Word
  BY PlusWord DEF JoinAfter
<1>2. nextConnectAt' = Plus(now', wait' - age')
  BY DEF JoinAfter
<1>3. QED
  BY <1>1, <1>2 DEF TimersIInv, TypeOK, DownInv, ConnectingInv, ConnectedInv, OnTime, JoinAfter

-----------------------------------------------------------------------------
LEMMA TimersInitIInv == Init => TimersIInv
  BY DEF Init, TimersIInv, TypeOK, DownInv, ConnectingInv, ConnectedInv, OnTime, Plus

LEMMA PassDownIInv ==
  ASSUME TimersIInv, NEW step \in 1..MaxStep, PassDown(step)
  PROVE  TimersIInv'
<1> DEFINE d == wait - age
<1>1. /\ d \in Nat /\ d < Half /\ step \in 0..Half /\ step < Half
      /\ nextConnectAt = Plus(now, d) /\ now' = Plus(now, step)
  BY DEF TimersIInv, TypeOK, DownInv, OnTime, PassDown
<1>2. /\ now' \in Word
      /\ Reached(now', nextConnectAt) <=> step >= d
      /\ step =< d => nextConnectAt = Plus(now', d - step)
  <2>1. now \in Word /\ step \in Nat
    BY DEF TimersIInv, TypeOK
  <2> HIDE DEF d
  <2>2. /\ Reached(Plus(now, step), Plus(now, d)) <=> step >= d
        /\ step =< d => Plus(now, d) = Plus(Plus(now, step), d - step)
    BY <1>1, <2>1, ReachedExact
  <2>3. QED
    BY <1>1, <2>1, <2>2, PlusWord
<1>3. CASE Reached(now', nextConnectAt)
  <2>1. now' = Plus(connectStartedAt', age')
    BY <1>2, <1>3 DEF PassDown, Plus
  <2>2. QED
    BY <1>2, <1>3, <2>1 DEF PassDown, TimersIInv, TypeOK, DownInv, ConnectingInv, ConnectedInv, OnTime
<1>4. CASE ~Reached(now', nextConnectAt)
  <2>1. step < d /\ d - step = wait - (age + step)
    BY <1>1, <1>2, <1>4 DEF TimersIInv, TypeOK
  <2>2. QED
    BY <1>2, <1>4, <2>1
       DEF PassDown, NothingDue, deadlines, TimersIInv, TypeOK, DownInv, ConnectingInv, ConnectedInv, OnTime
<1>5. QED
  BY <1>3, <1>4

LEMMA PassConnectingIInv ==
  ASSUME TimersIInv, NEW step \in 1..MaxStep, PassConnecting(step)
  PROVE  TimersIInv'
<1>1. /\ age \in Nat /\ age =< JoinLimit /\ wait = JoinLimit + 1 /\ age + step < Half
      /\ now = Plus(connectStartedAt, age) /\ now' = Plus(now, step)
      /\ connectStartedAt \in Word /\ step \in Nat
  BY DEF TimersIInv, TypeOK, ConnectingInv, OnTime, PassConnecting
<1>2. /\ now' = Plus(connectStartedAt, age + step)
      /\ Minus(now', connectStartedAt) = age + step
      /\ now' \in Word
  BY <1>1, ElapsedExact, PlusWord DEF TimersIInv, TypeOK
<1>3. CASE JoinExpired(now')
  <2>1. PICK d \in 0..MaxBackoff : JoinAfter(d)
    BY <1>3 DEF PassConnecting
  <2>2. QED
    BY <1>2, <2>1, JoinAfterIInv
<1>4. CASE ~JoinExpired(now')
  BY <1>1, <1>2, <1>4 DEF PassConnecting, JoinExpired, NothingDue, deadlines,
     TimersIInv, TypeOK, DownInv, ConnectingInv, ConnectedInv, OnTime
<1>5. QED
  BY <1>3, <1>4

LEMMA PassConnectedIInv ==
  ASSUME TimersIInv, NEW step \in 1..MaxStep, PassConnected(step)
  PROVE  TimersIInv'
<1>1. now' = Plus(now, step) /\ now' \in Word /\ netState = "Connected"
  BY PlusWord DEF PassConnected, TimersIInv, TypeOK
<1>2. CASE Reached(now', nextFetchAt)
  <2>1. nextFetchAt' = Plus(now', FetchInterval) /\ nextFetchAt' \in Word
    BY <1>1, <1>2, PlusWord DEF PassConnected
  <2>2. QED
    BY <1>1, <1>2, <2>1
       DEF PassConnected, TimersIInv, TypeOK, DownInv, ConnectingInv, ConnectedInv, OnTime
<1>3. CASE ~Reached(now', nextFetchAt)
  <2>1. UNCHANGED <<netState, deadlines, wait>> /\ age' = age + step
    BY <1>3 DEF PassConnected, NothingDue
  <2>2. ASSUME wait = FetchInterval
        PROVE  age + step < wait /\ nextFetchAt = Plus(now', wait - (age + step))
    <3> DEFINE d == wait - age
    <3>1. d \in Nat /\ d < Half /\ step < Half /\ step \in Nat /\ nextFetchAt = Plus(now, d)
      BY <1>1, <2>2 DEF TimersIInv, TypeOK, ConnectedInv, OnTime
    <3>2. step < d /\ nextFetchAt = Plus(now', d - step)
      BY <1>1, <1>3, <3>1, ReachedExact DEF TimersIInv, TypeOK
    <3>3. d - step = wait - (age + step)
      BY DEF TimersIInv, TypeOK
    <3>4. QED
      BY <3>2, <3>3 DEF TimersIInv, TypeOK
  <2>3. QED
    BY <1>1, <2>1, <2>2
       DEF deadlines, TimersIInv, TypeOK, DownInv, ConnectingInv, ConnectedInv, OnTime
<1>4. QED
  BY <1>2, <1>3

LEMMA TimersStepIInv ==
  ASSUME TimersIInv, [Next]_vars
  PROVE  TimersIInv'
<1>1. ASSUME NEW step \in 1..MaxStep, PassDown(step) \/ PassConnecting(step) \/ PassConnected(step)
      PROVE  TimersIInv'
  BY <1>1, PassDownIInv, PassConnectingIInv, PassConnectedIInv
<1>2. CASE HandleConnected
  BY <1>2 DEF HandleConnected, TimersIInv, TypeOK, DownInv, ConnectingInv, ConnectedInv, OnTime
<1>3. CASE HandleDown
  <2>1. PICK d \in 0..MaxBackoff : JoinAfter(d)
    BY <1>3 DEF HandleDown
  <2>2. QED
    BY <1>3, <2>1, JoinAfterIInv DEF HandleDown, TimersIInv, TypeOK
<1>4. CASE HandleSleepOn
  BY <1>4 DEF HandleSleepOn, deadlines, TimersIInv, TypeOK, DownInv, ConnectingInv, ConnectedInv
<1>5. CASE HandleSleepOff
  <2>1. PICK d \in 0..MaxBackoff : JoinAfter(d)
    BY <1>5 DEF HandleSleepOff
  <2>2. QED
    BY <1>5, <2>1, JoinAfterIInv DEF HandleSleepOff
<1>6. CASE UNCHANGED vars
  BY <1>6 DEF vars, deadlines, TimersIInv, TypeOK, DownInv, ConnectingInv, ConnectedInv, OnTime, Plus
<1>7. QED
  BY <1>1, <1>2, <1>3, <1>4, <1>5, <1>6 DEF Next

(* For every word size and interval: no deadline of a join is passed over.  *)
THEOREM JoinsOnTime == Spec => []JoinsPunctual
<1>1. TimersIInv => JoinsPunctual
  BY DEF TimersIInv, DownInv, ConnectingInv, JoinsPunctual
<1>2. QED
  BY <1>1, TimersInitIInv, TimersStepIInv, PTL DEF Spec

(* For every word size and interval: the fetch interval is kept while the   *)
(* connection lasts.                                                        *)
THEOREM FetchesOnTime == Spec => []FetchesPunctual
<1>1. TimersIInv => FetchesPunctual
  BY DEF TimersIInv, ConnectedInv, FetchesPunctual
<1>2. QED
  BY <1>1, TimersInitIInv, TimersStepIInv, PTL DEF Spec

(* The invariant the runs check: the types, joins and fetches on time.      *)
THEOREM Punctual == Spec => []Inv
<1>1. TimersIInv => Inv
  BY DEF TimersIInv, Inv, DownInv, ConnectingInv, ConnectedInv, JoinsPunctual, FetchesPunctual
<1>2. QED
  BY <1>1, TimersInitIInv, TimersStepIInv, PTL DEF Spec
-----------------------------------------------------------------------------
(* A pass that starts a join does so after the whole backoff ...            *)
LEMMA PassDownNotEarly ==
  ASSUME TimersIInv, NEW step \in 1..MaxStep, PassDown(step), netState' # netState
  PROVE  age + Minus(now', now) >= wait
<1> DEFINE d == wait - age
<1>1. /\ d \in Nat /\ d < Half /\ step \in Nat /\ step < Half /\ now \in Word
      /\ nextConnectAt = Plus(now, d) /\ now' = Plus(now, step)
      /\ age \in Nat /\ wait \in Nat
  BY DEF TimersIInv, TypeOK, DownInv, OnTime, PassDown
<1>2. Reached(now', nextConnectAt)
  BY DEF PassDown, NothingDue
<1>3. step >= d
  <2> HIDE DEF d
  <2>1. QED
    BY <1>1, <1>2, ReachedExact
<1>4. Minus(now', now) = step
  BY <1>1 DEF Plus, Minus
<1>5. QED
  BY <1>1, <1>3, <1>4

(* ... and one that gives a join up does so after the whole limit.          *)
LEMMA PassConnectingNotEarly ==
  ASSUME TimersIInv, NEW step \in 1..MaxStep, PassConnecting(step), netState' # netState
  PROVE  age + Minus(now', now) >= wait
<1>1. /\ age \in Nat /\ wait = JoinLimit + 1 /\ age + step < Half
      /\ now = Plus(connectStartedAt, age) /\ now' = Plus(now, step)
      /\ connectStartedAt \in Word /\ now \in Word /\ step \in Nat /\ step < Half
  BY DEF TimersIInv, TypeOK, ConnectingInv, OnTime, PassConnecting
<1>2. Minus(now', connectStartedAt) = age + step
  BY <1>1, ElapsedExact
<1>3. age + step > JoinLimit
  BY <1>2 DEF PassConnecting, JoinExpired, NothingDue
<1>4. Minus(now', now) = step
  BY <1>1 DEF Plus, Minus
<1>5. QED
  BY <1>1, <1>3, <1>4

(* Whatever the counter reads and however it wraps, loop() starts no join   *)
(* before its backoff has passed and gives none up within its 30 seconds.   *)
THEOREM JoinsAreNotEarly == Spec => JoinsNotEarly
<1>1. ASSUME TimersIInv, [Next]_vars
      PROVE  [ActsOnPass({"Down", "Connecting"}) => age + Minus(now', now) >= wait]_vars
  <2>1. SUFFICES ASSUME netState \in {"Down", "Connecting"}, netState' # netState, now' # now
                 PROVE  age + Minus(now', now) >= wait
    BY DEF ActsOnPass
  <2>2. PICK step \in 1..MaxStep : PassDown(step) \/ PassConnecting(step)
    BY <1>1, <2>1 DEF Next, vars, PassConnected, HandleConnected, HandleDown,
       HandleSleepOn, HandleSleepOff
  <2>3. QED
    BY <1>1, <2>1, <2>2, PassDownNotEarly, PassConnectingNotEarly
<1>2. QED
  BY <1>1, TimersInitIInv, TimersStepIInv, PTL DEF Spec, JoinsNotEarly
===============================================================================
