------------------------------ MODULE WiFiProofs ------------------------------
(***************************************************************************)
(* Proofs about the two users of WiFi.  First StatusService with the home  *)
(* network, for every queue length, retry count, backoff range and number  *)
(* of sleep cycles; then the robot controller with its station, for every  *)
(* number of attempts, joins, places of its queues, presses and losses.    *)
(***************************************************************************)
EXTENDS StatusService, PerseCtrl, TLAPS

(* WiFiHome::stop() returns early when the state is Idle.  That is harmless *)
(* only because Idle implies a stopped radio, which is therefore part of    *)
(* the inductive invariant.                                                 *)
IdleMeansStopped == wifiState = "Idle" => radio = "stopped"

IInv == TypeOK /\ IdleMeansStopped /\ RadioOffUnlessWanted

USE WiFiHomeAssumption, StatusServiceAssumption

-----------------------------------------------------------------------------
(* A post leaves the queue a sequence of events, full or not.               *)
LEMMA PostType ==
  ASSUME NEW e \in QueueEvent, events \in Seq(QueueEvent), dropped \in BOOLEAN, Post(e)
  PROVE  events' \in Seq(QueueEvent) /\ dropped' \in BOOLEAN
<1>1. CASE Len(events) < QueueLen
  BY <1>1 DEF Post
<1>2. CASE ~(Len(events) < QueueLen)
  BY <1>2 DEF Post
<1>3. QED
  BY <1>1, <1>2

(* Taking an event leaves the rest.                                         *)
LEMMA TailType ==
  ASSUME NEW S, NEW s \in Seq(S), s # <<>>
  PROVE  Tail(s) \in Seq(S)
  OBVIOUS

(* connect(): in every case the WiFiHome state keeps its type, and Idle     *)
(* still means stopped.                                                     *)
LEMMA ConnectStep ==
  ASSUME TypeOK, IdleMeansStopped, Connect
  PROVE  /\ wifiState' \in WiFiState /\ retries' \in Nat /\ radio' \in Radio
         /\ sysEvt' \in Seq(DriverEvent)
         /\ IdleMeansStopped'
  BY SMTT(30) DEF TypeOK, IdleMeansStopped, Connect, WiFiState, Radio, DriverEvent, wifiVars

(* stop(): afterwards the radio is stopped, whichever way it returned.      *)
LEMMA StopStep ==
  ASSUME TypeOK, IdleMeansStopped, Stop
  PROVE  /\ wifiState' \in WiFiState /\ retries' \in Nat /\ radio' \in Radio
         /\ sysEvt' \in Seq(DriverEvent)
         /\ radio' = "stopped"
<1>1. sysEvt \o DisconnectNotice \in Seq(DriverEvent)
  <2>1. CASE radio \in {"joining", "up"}
    BY <2>1 DEF DisconnectNotice, DriverEvent, TypeOK
  <2>2. CASE radio \notin {"joining", "up"}
    BY <2>2 DEF DisconnectNotice, TypeOK
  <2>3. QED
    BY <2>1, <2>2
<1>2. CASE wifiState = "Idle"
  BY <1>2 DEF TypeOK, IdleMeansStopped, Stop, wifiVars
<1>3. CASE wifiState # "Idle"
  BY <1>1, <1>3 DEF TypeOK, Stop, WiFiState, Radio
<1>4. QED
  BY <1>2, <1>3

(* The backoff stays within its range.                                      *)
LEMMA BackoffRange ==
  ASSUME NEW b \in BackoffInit..BackoffMax
  PROVE  NextBackoff(b) \in BackoffInit..BackoffMax
  BY DEF NextBackoff

-----------------------------------------------------------------------------
LEMMA InitIInv == Init => IInv
<1> SUFFICES ASSUME Init PROVE IInv
  OBVIOUS
<1>1. sysEvt \in Seq(DriverEvent) /\ events \in Seq(QueueEvent)
  BY DEF Init
<1>2. connectBackoff \in BackoffInit..BackoffMax /\ sleeps \in 0..MaxSleeps
  BY DEF Init
<1>3. TypeOK
  BY <1>1, <1>2 DEF Init, TypeOK, WiFiState, Radio, NetState
<1>4. QED
  BY <1>3 DEF Init, IInv, IdleMeansStopped, RadioOffUnlessWanted

(* The driver and the sys_evt task turn the radio on only inside a session. *)
LEMMA SysEvtIInv ==
  ASSUME IInv, SysEvtTask /\ UNCHANGED <<svcVars, sleepVars>>
  PROVE  IInv'
<1> USE DEF IInv, svcVars, sleepVars, timerVars, queueVars
<1>1. CASE OnStaStart
  BY <1>1 DEF OnStaStart, Dispatch, EspConnect, TypeOK, IdleMeansStopped,
              RadioOffUnlessWanted, Radio, WiFiState
<1>2. CASE OnStaDisconnected
  <2> USE DEF OnStaDisconnected, Dispatch, EspConnect, GiveUp, LinkLost
  <2>1. sysEvt' \in Seq(DriverEvent) /\ retries' \in Nat /\ radio' \in Radio
        /\ wifiState' \in WiFiState
    BY <1>2 DEF TypeOK, Radio, WiFiState
  <2>2. events' \in Seq(QueueEvent) /\ dropped' \in BOOLEAN
    BY <1>2, PostType DEF TypeOK, QueueEvent, WiFiEvent
  <2>3. TypeOK'
    BY <2>1, <2>2 DEF TypeOK
  <2>4. (IdleMeansStopped /\ RadioOffUnlessWanted)'
    BY <1>2 DEF IdleMeansStopped, RadioOffUnlessWanted
  <2>5. QED
    BY <2>3, <2>4
<1>3. CASE OnStaGotIp
  <2> USE DEF OnStaGotIp, Dispatch
  <2>1. events' \in Seq(QueueEvent) /\ dropped' \in BOOLEAN
    BY <1>3, PostType DEF TypeOK, QueueEvent, WiFiEvent
  <2>2. QED
    BY <1>3, <2>1 DEF TypeOK, IdleMeansStopped, RadioOffUnlessWanted, WiFiState
<1>4. QED
  BY <1>1, <1>2, <1>3 DEF SysEvtTask

LEMMA EnvironmentIInv ==
  ASSUME IInv, Environment
  PROVE  IInv'
<1> USE DEF IInv, svcVars, sleepVars, timerVars, queueVars, wifiVars
<1>1. CASE Driver /\ UNCHANGED <<svcVars, sleepVars>>
  <2>1. sysEvt' \in Seq(DriverEvent) /\ radio # "stopped" /\ radio' \in Radio
    BY <1>1, SMTT(30) DEF Driver, DriverJoined, DriverDisconnected, TypeOK, Radio, DriverEvent
  <2>2. UNCHANGED <<wifiState, retries, events, dropped, netState, paused>>
    BY <1>1 DEF Driver, DriverJoined, DriverDisconnected
  <2>3. QED
    BY <1>1, <2>1, <2>2 DEF TypeOK, IdleMeansStopped, RadioOffUnlessWanted
<1>2. CASE Clock
  <2>1. UNCHANGED <<wifiVars, queueVars, pc, netState, paused, refreshNow,
                    connectBackoff, sleepVars>>
    BY <1>2 DEF Clock, ReachConnect, ReachJoinLimit, ReachFetch
  <2>2. (timerVars \in BOOLEAN \X BOOLEAN \X BOOLEAN)'
    BY <1>2 DEF Clock, ReachConnect, ReachJoinLimit, ReachFetch, TypeOK
  <2>3. QED
    BY <2>1, <2>2 DEF TypeOK, IdleMeansStopped, RadioOffUnlessWanted
<1>3. CASE RequestRefresh
  BY <1>3 DEF RequestRefresh, TypeOK, IdleMeansStopped, RadioOffUnlessWanted
<1>4. CASE SleepStart
  <2>1. events' \in Seq(QueueEvent) /\ dropped' \in BOOLEAN
    BY <1>4, PostType DEF SleepStart, TypeOK, QueueEvent, SleepEvent
  <2>2. QED
    BY <1>4, <2>1 DEF SleepStart, TypeOK, IdleMeansStopped, RadioOffUnlessWanted
<1>5. CASE SleepEnd
  <2>1. events' \in Seq(QueueEvent) /\ dropped' \in BOOLEAN
    BY <1>5, PostType DEF SleepEnd, TypeOK, QueueEvent, SleepEvent
  <2>2. QED
    BY <1>5, <2>1 DEF SleepEnd, TypeOK, IdleMeansStopped, RadioOffUnlessWanted
<1>6. QED
  BY <1>1, <1>2, <1>3, <1>4, <1>5 DEF Environment

LEMMA HandleEventsIInv ==
  ASSUME IInv, HandleEvents
  PROVE  IInv'
<1> USE DEF IInv, sleepVars, timerVars, queueVars, Take, NetState
<1>1. CASE HandleConnected
  BY <1>1, TailType DEF HandleConnected, TypeOK, IdleMeansStopped, RadioOffUnlessWanted, wifiVars
<1>2. ASSUME NEW e \in {"Failed", "Disconnected"}, HandleDown(e)
      PROVE  IInv'
  <2>1. NextBackoff(connectBackoff) \in BackoffInit..BackoffMax
    BY BackoffRange DEF TypeOK
  <2>2. QED
    BY <1>2, <2>1, StopStep, TailType
       DEF HandleDown, TypeOK, IdleMeansStopped, RadioOffUnlessWanted
<1>3. CASE HandleSleepOn
  BY <1>3, StopStep, TailType
     DEF HandleSleepOn, DropWifi, TypeOK, IdleMeansStopped, RadioOffUnlessWanted
<1>4. CASE HandleSleepOff
  BY <1>4, TailType DEF HandleSleepOff, TypeOK, IdleMeansStopped, RadioOffUnlessWanted, wifiVars
<1>5. CASE HandleNone
  BY <1>5 DEF HandleNone, TypeOK, IdleMeansStopped, RadioOffUnlessWanted, wifiVars
<1>6. QED
  BY <1>1, <1>2, <1>3, <1>4, <1>5 DEF HandleEvents

LEMMA StatusSvcIInv ==
  ASSUME IInv, StatusSvc
  PROVE  IInv'
<1> USE DEF IInv, sleepVars, timerVars, queueVars, Body, EndPass, NetState
<1>1. CASE HandleEvents
  BY <1>1, HandleEventsIInv
<1>2. CASE LoopConnect
  BY <1>2, ConnectStep
     DEF LoopConnect, TypeOK, IdleMeansStopped, RadioOffUnlessWanted
<1>3. CASE LoopJoinTimeout
  BY <1>3, StopStep
     DEF LoopJoinTimeout, DropWifi, TypeOK, IdleMeansStopped, RadioOffUnlessWanted
<1>4. CASE LoopFetch
  BY <1>4 DEF LoopFetch, TypeOK, IdleMeansStopped, RadioOffUnlessWanted, wifiVars
<1>5. CASE FetchDone
  BY <1>5 DEF FetchDone, TypeOK, IdleMeansStopped, RadioOffUnlessWanted, wifiVars
<1>6. CASE LoopNothing
  BY <1>6 DEF LoopNothing, TypeOK, IdleMeansStopped, RadioOffUnlessWanted, wifiVars
<1>7. QED
  BY <1>1, <1>2, <1>3, <1>4, <1>5, <1>6 DEF StatusSvc

(* The invariant holds of the service for every value of the constants.     *)
THEOREM Invariant == Spec => []IInv
<1>1. IInv /\ UNCHANGED vars => IInv'
  BY DEF IInv, TypeOK, IdleMeansStopped, RadioOffUnlessWanted, vars, wifiVars,
         queueVars, svcVars, sleepVars, timerVars
<1>2. IInv /\ [Next]_vars => IInv'
  BY <1>1, StatusSvcIInv, SysEvtIInv, EnvironmentIInv DEF Next
<1>3. QED
  BY InitIInv, <1>2, PTL DEF Spec

(* Type correctness of the service and of WiFiHome.                         *)
THEOREM TypeCorrect == Spec => []TypeOK
  BY Invariant, PTL DEF IInv

(* Services/StatusService and WiFiHome together never leave the radio on    *)
(* while the network is Off or Failed or the watch is asleep.               *)
THEOREM RadioOff == Spec => []RadioOffUnlessWanted
  BY Invariant, PTL DEF IInv

(* Both at once: the invariant the runs check.                              *)
THEOREM Safe == Spec => []Inv
<1>1. IInv => Inv
  BY DEF IInv, Inv
<1>2. QED
  BY <1>1, Invariant, PTL
-----------------------------------------------------------------------------
(* As long as the queue has lost nothing, the view is corrected.            *)

(* The last that is queued of the network is a join only of a session that  *)
(* has not failed since.                                                    *)
JoinLast ==
  \A i \in DOMAIN events :
    events[i] = "Connected" /\ (\A j \in DOMAIN events : j > i => events[j] \notin WiFiEvent)
      => wifiState # "Failed"

(* A join behind the service's back (the lease of a stopped session, handled *)
(* late) is on its way to it.                                               *)
JoinQueued ==
  netState \in {"Off", "Failed"} /\ wifiState = "Connected" => Queued({"Connected"})

Told == NothingLost => ViewLagsOnlyBehindEvents /\ JoinLast /\ JoinQueued

(* What is queued after a post that was not lost.                           *)
LEMMA PostAdds ==
  ASSUME events \in Seq(QueueEvent), dropped \in BOOLEAN, NEW e \in QueueEvent, Post(e), ~dropped'
  PROVE  /\ ~dropped
         /\ Len(events) \in Nat /\ DOMAIN events = 1..Len(events)
         /\ Len(events) + 1 \in DOMAIN events' /\ events'[Len(events) + 1] = e
         /\ \A i \in DOMAIN events' : i \in DOMAIN events \/ i = Len(events) + 1
         /\ \A i \in DOMAIN events : i \in DOMAIN events' /\ events'[i] = events[i]
<1>1. events' = Append(events, e) /\ ~dropped
  BY DEF Post
<1>2. QED
  BY <1>1

LEMMA WiFiPosted ==
  ASSUME events \in Seq(QueueEvent), dropped \in BOOLEAN, NEW e \in WiFiEvent, Post(e), ~dropped',
         e = "Connected" => wifiState' # "Failed"
  PROVE  JoinLast' /\ Queued(WiFiEvent)' /\ (e = "Connected" => Queued({"Connected"})')
<1> DEFINE n == Len(events) + 1
<1>1. /\ n \in DOMAIN events' /\ events'[n] = e
      /\ \A i \in DOMAIN events' : i < n \/ i = n
  <2>1. e \in QueueEvent
    BY DEF QueueEvent
  <2>2. QED
    BY <2>1, PostAdds
<1> HIDE DEF n
<1>2. JoinLast'
  BY <1>1 DEF JoinLast
<1>3. Queued(WiFiEvent)' /\ (e = "Connected" => Queued({"Connected"})')
  BY <1>1 DEF Queued
<1>4. QED
  BY <1>2, <1>3

LEMMA SleepPosted ==
  ASSUME events \in Seq(QueueEvent), dropped \in BOOLEAN, NEW e \in SleepEvent, Post(e), ~dropped',
         Told, UNCHANGED <<wifiState, netState>>
  PROVE  Told'
<1>1. e \in QueueEvent /\ e \notin WiFiEvent
  BY DEF QueueEvent, SleepEvent, WiFiEvent
<1>2. /\ ~dropped
      /\ Len(events) + 1 \in DOMAIN events' /\ events'[Len(events) + 1] = e
      /\ \A i \in DOMAIN events' : i \in DOMAIN events \/ i = Len(events) + 1
      /\ \A i \in DOMAIN events : i \in DOMAIN events' /\ events'[i] = events[i]
  BY <1>1, PostAdds
<1>3. JoinLast /\ JoinQueued /\ ViewLagsOnlyBehindEvents
  BY <1>2 DEF Told, NothingLost
<1>4. JoinLast'
  <2>1. SUFFICES ASSUME NEW i \in DOMAIN events', events'[i] = "Connected",
                        \A j \in DOMAIN events' : j > i => events'[j] \notin WiFiEvent
                 PROVE  wifiState' # "Failed"
    BY DEF JoinLast
  <2>2. i \in DOMAIN events /\ events[i] = "Connected"
    BY <1>1, <1>2, <2>1 DEF WiFiEvent
  <2>3. \A j \in DOMAIN events : j > i => events[j] \notin WiFiEvent
    BY <1>2, <2>1
  <2>4. QED
    BY <1>3, <2>2, <2>3 DEF JoinLast
<1>5. ASSUME NEW S, Queued(S) PROVE Queued(S)'
  BY <1>2, <1>5 DEF Queued
<1>6. JoinQueued' /\ ViewLagsOnlyBehindEvents'
  BY <1>3, <1>5 DEF JoinQueued, ViewLagsOnlyBehindEvents, Queued
<1>7. QED
  BY <1>4, <1>6 DEF Told

(* What is queued after an event was taken.                                 *)
LEMMA TakeLeaves ==
  ASSUME events \in Seq(QueueEvent), events # <<>>, events' = Tail(events)
  PROVE  /\ 1 \in DOMAIN events /\ events[1] = Head(events)
         /\ \A i \in DOMAIN events' : i + 1 \in DOMAIN events /\ events'[i] = events[i + 1] /\ i \in Nat
         /\ \A k \in DOMAIN events : k \in Nat /\ (k = 1 \/ (k - 1 \in DOMAIN events' /\ events'[k - 1] = events[k]))
  OBVIOUS

LEMMA JoinTaken ==
  ASSUME events \in Seq(QueueEvent), events # <<>>, events' = Tail(events), JoinLast,
         wifiState' = wifiState \/ wifiState' # "Failed"
  PROVE  JoinLast'
<1>1. SUFFICES ASSUME NEW i \in DOMAIN events', events'[i] = "Connected", wifiState' = "Failed",
                      \A j \in DOMAIN events' : j > i => events'[j] \notin WiFiEvent
               PROVE  FALSE
  BY DEF JoinLast
<1>2. i + 1 \in DOMAIN events /\ events[i + 1] = "Connected" /\ i \in Nat
  BY <1>1, TakeLeaves
<1>3. ASSUME NEW k \in DOMAIN events, k > i + 1 PROVE events[k] \notin WiFiEvent
  <2>1. k - 1 \in DOMAIN events' /\ events'[k - 1] = events[k] /\ k - 1 > i
    BY <1>2, <1>3, TakeLeaves
  <2>2. QED
    BY <1>1, <2>1
<1>4. QED
  BY <1>1, <1>2, <1>3 DEF JoinLast

LEMMA QueuedTaken ==
  ASSUME events \in Seq(QueueEvent), events # <<>>, events' = Tail(events), NEW S, Head(events) \notin S, Queued(S)
  PROVE  Queued(S)'
<1>1. PICK k \in DOMAIN events : events[k] \in S
  BY DEF Queued
<1>2. k - 1 \in DOMAIN events' /\ events'[k - 1] = events[k]
  BY <1>1, TakeLeaves
<1>3. QED
  BY <1>1, <1>2 DEF Queued

(* stop() always ends Idle.                                                 *)
LEMMA StopEndsIdle == Stop => wifiState' = "Idle"
  BY DEF Stop, wifiVars

LEMMA HandleEventsTold ==
  ASSUME IInv, Told, NothingLost', HandleEvents
  PROVE  Told'
<1>1. events \in Seq(QueueEvent)
  BY DEF IInv, TypeOK
<1>2. CASE HandleNone
  BY <1>2 DEF HandleNone, queueVars, wifiVars, Told, NothingLost, ViewLagsOnlyBehindEvents, JoinLast, JoinQueued, Queued
<1>3. ASSUME ~HandleNone
      PROVE  /\ events # <<>> /\ events' = Tail(events) /\ NothingLost
             /\ ViewLagsOnlyBehindEvents /\ JoinLast /\ JoinQueued
  <2>1. events # <<>> /\ events' = Tail(events) /\ UNCHANGED dropped
    BY <1>3 DEF HandleEvents, HandleConnected, HandleDown, HandleSleepOn, HandleSleepOff, Take
  <2>2. QED
    BY <2>1 DEF Told, NothingLost
<1>4. CASE HandleConnected
  <2>1. Head(events) = "Connected" /\ netState' = "Connected" /\ wifiState' = wifiState /\ ~HandleNone
    BY <1>4 DEF HandleConnected, Take, wifiVars, HandleNone
  <2>2. JoinLast'
    BY <1>1, <1>3, <2>1, JoinTaken
  <2>3. Queued(WiFiEvent)' \/ wifiState # "Failed"
    <3>1. SUFFICES ASSUME ~Queued(WiFiEvent)' PROVE wifiState # "Failed"
      OBVIOUS
    <3>2. 1 \in DOMAIN events /\ events[1] = "Connected"
      BY <1>1, <1>3, <2>1, TakeLeaves
    <3>3. ASSUME NEW k \in DOMAIN events, k > 1 PROVE events[k] \notin WiFiEvent
      <4>1. k - 1 \in DOMAIN events' /\ events'[k - 1] = events[k]
        BY <1>1, <1>3, <2>1, <3>3, TakeLeaves
      <4>2. QED
        BY <3>1, <4>1 DEF Queued
    <3>4. QED
      BY <1>3, <2>1, <3>2, <3>3 DEF JoinLast
  <2>4. ViewLagsOnlyBehindEvents' /\ JoinQueued'
    BY <2>1, <2>3 DEF ViewLagsOnlyBehindEvents, JoinQueued
  <2>5. QED
    BY <2>2, <2>4 DEF Told
<1>5. CASE HandleSleepOn \/ \E e \in {"Failed", "Disconnected"} : HandleDown(e)
  <2>1. netState' \in {"Off", "Failed"} /\ Stop /\ ~HandleNone
    BY <1>5 DEF HandleSleepOn, HandleDown, DropWifi, Take, HandleNone
  <2>2. wifiState' = "Idle"
    BY <2>1, StopEndsIdle
  <2>3. JoinLast'
    BY <1>1, <1>3, <2>1, <2>2, JoinTaken
  <2>4. ViewLagsOnlyBehindEvents' /\ JoinQueued'
    BY <2>1, <2>2 DEF ViewLagsOnlyBehindEvents, JoinQueued
  <2>5. QED
    BY <2>3, <2>4 DEF Told
<1>6. CASE HandleSleepOff
  <2>1. Head(events) = "SleepOff" /\ UNCHANGED <<netState, wifiState>> /\ ~HandleNone
    BY <1>6 DEF HandleSleepOff, Take, wifiVars, HandleNone
  <2>2. Head(events) \notin WiFiEvent /\ Head(events) \notin {"Connected"}
    BY <2>1 DEF WiFiEvent
  <2>3. JoinLast'
    BY <1>1, <1>3, <2>1, JoinTaken
  <2>4. (Queued(WiFiEvent) => Queued(WiFiEvent)') /\ (Queued({"Connected"}) => Queued({"Connected"})')
    BY <1>1, <1>3, <2>1, <2>2, QueuedTaken
  <2>5. ViewLagsOnlyBehindEvents' /\ JoinQueued'
    BY <1>3, <2>1, <2>4 DEF ViewLagsOnlyBehindEvents, JoinQueued
  <2>6. QED
    BY <2>3, <2>5 DEF Told
<1>7. QED
  BY <1>2, <1>4, <1>5, <1>6 DEF HandleEvents

LEMMA SysEvtTold ==
  ASSUME IInv, Told, NothingLost', SysEvtTask, UNCHANGED svcVars
  PROVE  Told'
<1>1. events \in Seq(QueueEvent) /\ dropped \in BOOLEAN /\ ~dropped' /\ netState' = netState
  BY DEF IInv, TypeOK, NothingLost, svcVars
<1>2. CASE UNCHANGED <<wifiState, queueVars>>
  BY <1>1, <1>2 DEF queueVars, Told, NothingLost, ViewLagsOnlyBehindEvents, JoinLast, JoinQueued, Queued
<1>3. ASSUME NEW e \in {"Failed", "Disconnected"}, wifiState' = "Failed", Post(e)
      PROVE  Told'
  <2>1. e \in WiFiEvent /\ e # "Connected"
    BY DEF WiFiEvent
  <2>2. JoinLast' /\ Queued(WiFiEvent)'
    BY <1>1, <1>3, <2>1, WiFiPosted
  <2>3. QED
    BY <1>3, <2>2 DEF Told, ViewLagsOnlyBehindEvents, JoinQueued
<1>4. CASE OnStaGotIp
  <2>1. wifiState' = "Connected" /\ Post("Connected") /\ "Connected" \in WiFiEvent
    BY <1>4 DEF OnStaGotIp, WiFiEvent
  <2>2. JoinLast' /\ Queued(WiFiEvent)' /\ Queued({"Connected"})'
    BY <1>1, <2>1, WiFiPosted
  <2>3. QED
    BY <2>2 DEF Told, ViewLagsOnlyBehindEvents, JoinQueued
<1>5. CASE OnStaStart
  BY <1>2, <1>5 DEF OnStaStart
<1>6. CASE OnStaDisconnected
  BY <1>2, <1>3, <1>6 DEF OnStaDisconnected, GiveUp, LinkLost
<1>7. QED
  BY <1>4, <1>5, <1>6 DEF SysEvtTask

LEMMA StepTold ==
  ASSUME IInv, Told, [Next]_vars, NothingLost'
  PROVE  Told'
<1>1. CASE UNCHANGED <<wifiState, netState, queueVars>>
  BY <1>1 DEF queueVars, Told, NothingLost, ViewLagsOnlyBehindEvents, JoinLast, JoinQueued, Queued
<1>2. CASE HandleEvents
  BY <1>2, HandleEventsTold
<1>3. CASE LoopConnect
  <2>1. /\ UNCHANGED <<events, dropped>> /\ netState \in {"Off", "Failed"} /\ netState' = "Connecting"
        /\ (wifiState' = "Connecting" \/ (wifiState' = wifiState /\ wifiState = "Connected"))
    BY <1>3 DEF LoopConnect, Body, queueVars, ConnectReady, Connect, wifiVars
  <2>2. JoinLast /\ JoinQueued
    BY <2>1 DEF Told, NothingLost
  <2>3. wifiState' = "Connecting" \/ Queued(WiFiEvent)'
    BY <2>1, <2>2 DEF JoinQueued, Queued, WiFiEvent
  <2>4. JoinLast'
    BY <2>1 DEF JoinLast
  <2>5. QED
    BY <2>1, <2>3, <2>4 DEF Told, ViewLagsOnlyBehindEvents, JoinQueued
<1>4. CASE LoopJoinTimeout
  <2>1. netState' = "Off" /\ wifiState' = "Idle"
    BY <1>4, StopEndsIdle DEF LoopJoinTimeout, DropWifi
  <2>2. QED
    BY <2>1 DEF Told, ViewLagsOnlyBehindEvents, JoinLast, JoinQueued
<1>5. CASE LoopFetch \/ FetchDone \/ LoopNothing
  BY <1>1, <1>5 DEF LoopFetch, FetchDone, LoopNothing, Body, wifiVars
<1>6. CASE SysEvtTask /\ UNCHANGED <<svcVars, sleepVars>>
  BY <1>6, SysEvtTold
<1>7. CASE SleepStart \/ SleepEnd
  <2>1. /\ events \in Seq(QueueEvent) /\ dropped \in BOOLEAN /\ ~dropped'
        /\ UNCHANGED <<wifiState, netState>>
    BY <1>7 DEF SleepStart, SleepEnd, wifiVars, svcVars, IInv, TypeOK, NothingLost
  <2>2. Post("SleepOn") \/ Post("SleepOff")
    BY <1>7 DEF SleepStart, SleepEnd
  <2>3. QED
    BY <2>1, <2>2, SleepPosted DEF SleepEvent
<1>8. CASE Clock \/ RequestRefresh
  BY <1>1, <1>8 DEF Clock, ReachConnect, ReachJoinLimit, ReachFetch, RequestRefresh, wifiVars
<1>9. CASE Driver /\ UNCHANGED <<svcVars, sleepVars>>
  BY <1>1, <1>9 DEF Driver, DriverJoined, DriverDisconnected, svcVars
<1>10. CASE UNCHANGED vars
  BY <1>1, <1>10 DEF vars, wifiVars, svcVars
<1>11. QED
  BY <1>2, <1>3, <1>4, <1>5, <1>6, <1>7, <1>8, <1>9, <1>10 DEF Next, StatusSvc, Environment

(* Until the queue of 8 loses one, the events keep the service's view right: *)
(* it lags behind WiFiHome only while one is queued that will correct it,   *)
(* whatever is left over of sessions that were stopped.  That nothing is    *)
(* lost depends on how long the thread does not look, and is left to TLC.   *)
THEOREM EventsKeepUp == Spec => [](NothingLost => EventsSuffice)
<1>1. Init => Told
  BY DEF Init, Told, ViewLagsOnlyBehindEvents, JoinLast, JoinQueued
<1>2. IInv /\ Told /\ [Next]_vars => Told'
  <2>1. SUFFICES ASSUME IInv, Told, [Next]_vars PROVE Told'
    OBVIOUS
  <2>2. CASE NothingLost'
    BY <2>1, <2>2, StepTold
  <2>3. CASE ~NothingLost'
    BY <2>3 DEF Told
  <2>4. QED
    BY <2>2, <2>3
<1>3. Spec => []Told
  BY <1>1, <1>2, Invariant, PTL DEF Spec
<1>4. Told => (NothingLost => EventsSuffice)
  BY DEF Told, EventsSuffice
<1>5. QED
  BY <1>3, <1>4, PTL

-----------------------------------------------------------------------------
(* The robot controller.                                                   *)

(* What the driver has still to report, and what it does meanwhile, fits   *)
(* what the station waits for.                                             *)
Done   == [id |-> "scanDone"]
Joined == [id |-> "connected"]
Left   == {[id |-> "disconnected", saQuery |-> b] : b \in BOOLEAN}

Waits(w, l, s, reports) == wifi = w /\ link = l /\ scan = s /\ drv \in reports

AtRest      == Waits("Disconnected", "off", FALSE, {<<>>})
Scans       == Waits("Scanning", "off", TRUE, {<<>>})
Scanned     == Waits("Scanning", "off", FALSE, {<<Done>>})
Joins       == Waits("Connecting", "joining", FALSE, {<<>>})
HasJoined   == Waits("Connecting", "up", FALSE, {<<Joined>>})
JoinFailed  == Waits("Connecting", "off", FALSE, {<<e>> : e \in Left} \cup {<<Joined, e>> : e \in Left})
IsUp        == Waits("Connected", "up", FALSE, {<<>>})
IsCut       == Waits("Connected", "off", FALSE, {<<e>> : e \in Left})
GivenUp     == Waits("ConnAbort", "off", FALSE,
                     {<<Done>>} \cup {<<e>> : e \in Left} \cup {<<Joined, e>> : e \in Left})

Fits == \/ AtRest \/ Scans \/ Scanned \/ Joins \/ HasJoined
        \/ JoinFailed \/ IsUp \/ IsCut \/ GivenUp

ReportsFit == ~crossed => Fits

(* The last retry is counted in the step that gives up.                    *)
TriesLeft == wifi = "Connecting" => connectTries <= ConnectRetries

(* Waiting for its thread the screen drops the service, whatever it says.  *)
Dropping == upc \in {"waitDrain", "waitAct", "waitLeave"}

Places ==
  /\ ppc # "gone" => pstate # "none"
  /\ upc \in {"leaveTcp", "leaveComm", "closed"} => pstate = "none"

(* A connection is an open socket the client has; a thread that has closed *)
(* it has still to forget it.                                              *)
Sockets ==
  ~foreign =>
    /\ connected => fdOpen
    /\ fdOpen => sock
    /\ \A t \in Thread : hangup[t] = "clear" /\ ~stale[t] => ~fdOpen

News == foreign \/ unheard \/ evts > 0

(* Who takes the robot for connected, the screen or the service it has not *)
(* dropped.                                                                *)
Believed == paired \/ ((ppc = "done" \/ pstate = "Success") /\ ~Dropping)

LossTold == Believed => connected \/ News

ToldAhead ==
  \A t \in Thread : hangup[t] = "close" /\ ~stale[t] /\ (Believed \/ (ppc = "open" /\ ~Dropping)) => News

PerseIInv == PerseTypeOK /\ TriesLeft /\ ReportsFit /\ Places /\ Sockets /\ LossTold /\ ToldAhead

USE WiFiSTAAssumption, PerseCtrlAssumption

-----------------------------------------------------------------------------
stationState == <<wifi, cached, attempted, connectTries, link, scan, drv, crossed>>

StaRest ==
  /\ wifi' = "Disconnected" /\ cached' = FALSE /\ attempted' = FALSE /\ connectTries' = 0
  /\ link' = "off" /\ scan' = FALSE /\ drv' = <<>> /\ crossed' = FALSE

(* What a step of the program may do to the station and the driver.        *)
StaMove ==
  \/ UNCHANGED stationState
  \/ StaConnect /\ UNCHANGED <<cached, attempted, connectTries, link, drv>>
  \/ Disconnect /\ UNCHANGED crossed
  \/ SysEvt
  \/ StaRadio
  \/ StaRest

(* ~PairService gives the station up, or leaves it alone.                  *)
LEMMA ResetMoves ==
  ASSUME NEW w, NEW n, Reset(w, n), crossed' = crossed
  PROVE  StaMove
<1>1. CASE pstate = "Pairing"
  BY <1>1 DEF Reset, StaMove
<1>2. CASE pstate # "Pairing"
  BY <1>2 DEF Reset, StaMove, stationState, stationVars, driverVars
<1>3. QED
  BY <1>1, <1>2

(* Every step of the program is one of these for the station.              *)
LEMMA StepMoves ==
  ASSUME PerseNext
  PROVE  StaMove
<1>1. CASE Station
  BY <1>1 DEF Station, StaMove
<1>2. CASE RobotLeaves
  BY <1>2 DEF RobotLeaves, StaMove, stationState, stationVars, driverVars
<1>3. CASE LwipGivesUp
  BY <1>3 DEF LwipGivesUp, StaMove, stationState, stationVars, driverVars, staVars
<1>4. CASE UiButton
  <2>1. CASE Press
    <3>1. CASE paired
      BY <2>1, <3>1 DEF Press, Unpair, StaMove, stationState, stationVars, driverVars
    <3>2. CASE ~paired
      BY <2>1, <3>2 DEF Press, NewPairService, StaMove
    <3>3. QED
      BY <3>1, <3>2
  <2>2. CASE Release
    <3>1. CASE paired
      BY <2>2, <3>1 DEF Release, Unpair, StaMove, stationState, stationVars, driverVars
    <3>2. CASE ~paired
      BY <2>2, <3>2, ResetMoves DEF Release, Unpair
    <3>3. QED
      BY <3>1, <3>2
  <2>3. CASE Alt
    BY <2>3, ResetMoves DEF Alt, UiLeave, Unpair
  <2>4. QED
    BY <1>4, <2>1, <2>2, <2>3 DEF UiButton
<1>5. CASE UiOpen
  BY <1>5 DEF UiOpen, StaMove, stationState, stationVars, driverVars, staVars
<1>6. CASE UiThread
  <2>1. CASE UiOff
    BY <2>1, ResetMoves DEF UiOff, OnTcpOff, Unpair
  <2>2. CASE UiDrained \/ UiAct \/ UiLeaveTcp
    BY <2>2 DEF UiDrained, UiAct, UiLeaveTcp, UiLoop, StaMove, stationState, stationVars, driverVars
  <2>3. CASE UiCheck
    <3>1. CASE pstate \in {"none", "Pairing"}
      BY <2>3, <3>1 DEF UiCheck, UiLoop, StaMove, stationState, stationVars, driverVars
    <3>2. CASE pstate \notin {"none", "Pairing"}
      BY <2>3, <3>2, ResetMoves DEF UiCheck, UiLoop
    <3>3. QED
      BY <3>1, <3>2
  <2>4. CASE ResetWaits
    BY <2>4 DEF ResetWaits, Waited, StaMove, stationState, stationVars, driverVars
  <2>5. CASE UiClose
    BY <2>5 DEF UiClose, StaMove, StaRest
  <2>6. QED
    BY <1>6, <2>1, <2>2, <2>3, <2>4, <2>5 DEF UiThread
<1>7. CASE PairThread
  <2>1. CASE PairGet
    <3>1. CASE Head(pairq) = "connectFail" /\ attempts < Attempts
      BY <2>1, <3>1 DEF PairGet, Retry, StaMove
    <3>2. CASE ~(Head(pairq) = "connectFail" /\ attempts < Attempts)
      BY <2>1, <3>2 DEF PairGet, Retry, StaMove, stationState
    <3>3. QED
      BY <3>1, <3>2
  <2>2. CASE PairSocket \/ PairConnects \/ PairDone \/ PairWaits \/ PairTimeout
    BY <2>2 DEF PairSocket, PairConnects, PairDone, PairWaits, PairTimeout,
                StaMove, stationState, stationVars, driverVars, staVars
  <2>3. CASE PairRefused \/ PairAbort
    BY <2>3 DEF PairRefused, PairAbort, StaMove
  <2>4. CASE PairAgain
    BY <2>4 DEF PairAgain, StaMove
  <2>5. QED
    BY <1>7, <2>1, <2>2, <2>3, <2>4 DEF PairThread
<1>8. CASE CommTest \/ CommRead
  BY <1>8 DEF CommTest, CommRead, StaMove, stationState, stationVars, driverVars, staVars
<1>9. CASE \E t \in Thread : HangingUp(t)
  BY <1>9 DEF HangingUp, StaMove, stationState, stationVars, driverVars, staVars
<1>10. QED
  BY <1>1, <1>2, <1>3, <1>4, <1>5, <1>6, <1>7, <1>8, <1>9 DEF PerseNext

-----------------------------------------------------------------------------
(* Short queues, as the prover computes with them.                         *)
LEMMA ShortQueues ==
  /\ \A a : Head(<<a>>) = a /\ Tail(<<a>>) = <<>> /\ <<a>> # <<>> /\ Append(<<>>, a) = <<a>>
  /\ \A a, b : Head(<<a, b>>) = a /\ Tail(<<a, b>>) = <<b>> /\ <<a, b>> # <<>> /\ Append(<<a>>, b) = <<a, b>>
<1>1. ASSUME NEW a
      PROVE  Head(<<a>>) = a /\ Tail(<<a>>) = <<>> /\ <<a>> # <<>> /\ Append(<<>>, a) = <<a>>
  OBVIOUS
<1>2. ASSUME NEW a, NEW b
      PROVE  Head(<<a, b>>) = a /\ Tail(<<a, b>>) = <<b>> /\ <<a, b>> # <<>> /\ Append(<<a>>, b) = <<a, b>>
  <2>1. Head(<<a, b>>) = a
    OBVIOUS
  <2>2. <<a, b>> # <<>>
    OBVIOUS
  <2>3. Tail(<<a, b>>) = <<b>>
    OBVIOUS
  <2>4. Append(<<a>>, b) = <<a, b>>
    <3> DEFINE s == Append(<<a>>, b)
    <3>1. <<a>> \in Seq({a, b}) /\ <<a, b>> \in Seq({a, b}) /\ b \in {a, b}
      OBVIOUS
    <3>2. s \in Seq({a, b}) /\ Len(s) = 2 /\ s[1] = a /\ s[2] = b
      BY <3>1
    <3> HIDE DEF s
    <3>3. s = <<a, b>>
      BY <3>1, <3>2
    <3>4. QED
      BY <3>3 DEF s
  <2>5. QED
    BY <2>1, <2>2, <2>3, <2>4
<1>3. QED
  BY <1>1, <1>2

LEMMA AppendType ==
  ASSUME NEW S, NEW s \in Seq(S), NEW e \in S
  PROVE  Append(s, e) \in Seq(S)
  OBVIOUS

LEMMA ConcatNothing ==
  ASSUME NEW S, NEW s \in Seq(S)
  PROVE  s \o <<>> = s
  OBVIOUS

StaTypes ==
  /\ wifi \in {"Connected", "Connecting", "Disconnected", "Scanning", "ConnAbort"}
  /\ cached \in BOOLEAN /\ attempted \in BOOLEAN
  /\ connectTries \in 0..ConnectRetries + 1
  /\ link \in {"off", "joining", "up"} /\ scan \in BOOLEAN /\ drv \in Seq(StaEvent)
  /\ crossed \in BOOLEAN

(* The reports named above are reports.                                    *)
LEMMA ReportTypes ==
  /\ Done \in StaEvent /\ Joined \in StaEvent /\ Left \subseteq StaEvent
  /\ \A b \in BOOLEAN : [id |-> "disconnected", saQuery |-> b] \in StaEvent
  BY DEF Done, Joined, Left, StaEvent

(* connect(): a scan from rest fits, any other is recorded as crossed.     *)
LEMMA ConnectMoves ==
  ASSUME StaTypes, TriesLeft, ReportsFit, StaConnect, UNCHANGED <<cached, attempted, connectTries, link, drv>>
  PROVE  StaTypes' /\ TriesLeft' /\ ReportsFit'
<1>1. CASE wifi \in {"Disconnected", "ConnAbort"}
  <2>1. scan' \in BOOLEAN /\ crossed' \in BOOLEAN
    BY <1>1 DEF StaConnect, StaTypes
  <2>2. StaTypes' /\ TriesLeft'
    BY <1>1, <2>1 DEF StaConnect, StaTypes, TriesLeft
  <2>3. ASSUME ~crossed'
        PROVE  Scans'
    <3>1. drv = <<>> /\ ~scan /\ link = "off"
      BY <1>1, <2>3 DEF StaConnect
    <3>2. scan' \in BOOLEAN /\ scan'
      BY <1>1, <2>1, <3>1 DEF StaConnect
    <3>3. scan' = TRUE
      BY <3>2
    <3>4. QED
      BY <1>1, <3>1, <3>3 DEF StaConnect, Scans, Waits
  <2>4. QED
    BY <2>2, <2>3 DEF ReportsFit, Fits
<1>2. CASE wifi \notin {"Disconnected", "ConnAbort"}
  BY <1>2 DEF StaConnect, StaTypes, TriesLeft, ReportsFit, Fits, Waits, AtRest, Scans, Scanned, Joins,
              HasJoined, JoinFailed, IsUp, IsCut, GivenUp
<1>3. QED
  BY <1>1, <1>2

(* disconnect(): the reports that the end of it will bring are queued.     *)
LEMMA DisconnectMoves ==
  ASSUME StaTypes, TriesLeft, ReportsFit, Disconnect, UNCHANGED crossed
  PROVE  StaTypes' /\ TriesLeft' /\ ReportsFit'
<1>1. CASE wifi = "Disconnected"
  BY <1>1 DEF Disconnect, StaTypes, TriesLeft, ReportsFit, Fits, Waits, AtRest, Scans, Scanned, Joins,
              HasJoined, JoinFailed, IsUp, IsCut, GivenUp, stationVars, driverVars
<1>2. CASE wifi # "Disconnected"
  <2>1. drv' \in Seq(StaEvent)
    <3>1. \/ drv' = drv \/ drv' = Append(drv, Done)
          \/ drv' = Append(drv, [id |-> "disconnected", saQuery |-> FALSE])
      BY <1>2 DEF Disconnect, EspDisconnect, Report, driverVars, Done
    <3>2. QED
      BY <3>1, ReportTypes, AppendType, Zenon DEF StaTypes
  <2>2. scan' \in BOOLEAN
    BY <1>2 DEF Disconnect, StaTypes, driverVars
  <2>3. StaTypes' /\ TriesLeft'
    BY <1>2, <2>1, <2>2 DEF Disconnect, EspDisconnect, StaTypes, TriesLeft, driverVars
  <2>4. ASSUME ~crossed
        PROVE  Fits'
    <3>1. CASE Scans
      <4>1. drv' = <<Done>> /\ scan' = FALSE /\ link' = "off" /\ wifi' = "ConnAbort"
        BY <1>2, <3>1, ShortQueues DEF Scans, Waits, Disconnect, Report, Done
      <4>2. QED
        BY <4>1 DEF Fits, GivenUp, Waits
    <3>2. CASE Scanned
      <4>1. drv' = <<Done>> /\ scan' = FALSE /\ link' = "off" /\ wifi' = "ConnAbort"
        BY <1>2, <3>2, ShortQueues DEF Scanned, Waits, Disconnect, Report, Done
      <4>2. QED
        BY <4>1 DEF Fits, GivenUp, Waits
    <3>3. CASE Joins
      <4>1. drv' = <<[id |-> "disconnected", saQuery |-> FALSE]>> /\ scan' = FALSE /\ link' = "off" /\ wifi' = "ConnAbort"
        BY <1>2, <3>3, ShortQueues DEF Joins, Waits, Disconnect, EspDisconnect, Report, Done
      <4>2. QED
        BY <4>1 DEF Fits, GivenUp, Waits, Left
    <3>4. CASE HasJoined
      <4>1. drv' = <<Joined, [id |-> "disconnected", saQuery |-> FALSE]>> /\ scan' = FALSE /\ link' = "off" /\ wifi' = "ConnAbort"
        BY <1>2, <3>4, ShortQueues DEF HasJoined, Waits, Disconnect, EspDisconnect, Report, Done
      <4>2. QED
        BY <4>1 DEF Fits, GivenUp, Waits, Left
    <3>5. CASE JoinFailed
      <4>1. drv' = drv /\ scan' = FALSE /\ link' = "off" /\ wifi' = "ConnAbort"
        BY <1>2, <3>5 DEF JoinFailed, Waits, Disconnect, EspDisconnect
      <4>2. QED
        BY <3>5, <4>1 DEF Fits, JoinFailed, GivenUp, Waits
    <3>6. CASE IsUp
      <4>1. drv' = <<[id |-> "disconnected", saQuery |-> FALSE]>> /\ scan' = FALSE /\ link' = "off" /\ wifi' = "Connected"
        BY <1>2, <3>6, ShortQueues DEF IsUp, Waits, Disconnect, EspDisconnect, Report, Done
      <4>2. QED
        BY <4>1 DEF Fits, IsCut, Waits, Left
    <3>7. CASE IsCut
      <4>1. drv' = drv /\ scan' = FALSE /\ link' = "off" /\ wifi' = "Connected"
        BY <1>2, <3>7 DEF IsCut, Waits, Disconnect, EspDisconnect
      <4>2. QED
        BY <3>7, <4>1 DEF Fits, IsCut, Waits
    <3>8. CASE GivenUp
      <4>1. drv' = drv /\ scan' = FALSE /\ link' = "off" /\ wifi' = "ConnAbort"
        BY <1>2, <3>8 DEF GivenUp, Waits, Disconnect, driverVars
      <4>2. QED
        BY <3>8, <4>1 DEF Fits, GivenUp, Waits
    <3>9. ~AtRest
      BY <1>2 DEF AtRest, Waits
    <3>10. QED
      BY <2>4, <3>1, <3>2, <3>3, <3>4, <3>5, <3>6, <3>7, <3>8, <3>9 DEF ReportsFit, Fits
  <2>5. QED
    BY <2>3, <2>4 DEF ReportsFit
<1>3. QED
  BY <1>1, <1>2


NoQuery == [id |-> "disconnected", saQuery |-> FALSE]

LEMMA HeadKnown ==
  ASSUME drv \in Seq(StaEvent), drv # <<>>
  PROVE  Head(drv).id \in {"connected", "disconnected", "scanDone"}
<1>1. Head(drv) \in StaEvent
  OBVIOUS
<1>2. QED
  BY <1>1 DEF StaEvent

(* One handler for each report.                                            *)
LEMMA SysEvtCases ==
  ASSUME SysEvt, StaTypes
  PROVE  /\ drv # <<>> /\ crossed' = crossed
         /\ \/ Head(drv).id = "connected" /\ OnConnected
            \/ Head(drv).id = "disconnected" /\ OnDisconnected(Head(drv).saQuery)
            \/ Head(drv).id = "scanDone" /\ OnScanDone
<1>1. drv # <<>> /\ crossed' = crossed
  BY DEF SysEvt
<1>2. Head(drv).id \in {"connected", "disconnected", "scanDone"}
  BY <1>1, HeadKnown DEF StaTypes
<1>3. CASE Head(drv).id = "connected"
  BY <1>1, <1>3 DEF SysEvt
<1>4. CASE Head(drv).id = "disconnected"
  BY <1>1, <1>4 DEF SysEvt
<1>5. CASE Head(drv).id = "scanDone"
  BY <1>1, <1>5 DEF SysEvt
<1>6. QED
  BY <1>1, <1>2, <1>3, <1>4, <1>5

(* The handlers keep types, and the retries that are left.                 *)
LEMMA OnConnectedTypes ==
  ASSUME StaTypes, TriesLeft, OnConnected, drv # <<>>, crossed' = crossed
  PROVE  StaTypes' /\ TriesLeft'
<1>1. Tail(drv) \in Seq(StaEvent)
  BY DEF StaTypes
<1>2. drv' \in Seq(StaEvent)
  <2>1. CASE wifi = "ConnAbort" /\ link = "off"
    <3>1. drv' = Tail(drv) \o <<>>
      BY <2>1 DEF OnConnected
    <3>2. QED
      BY <1>1, <3>1, ConcatNothing, Zenon
  <2>2. CASE wifi = "ConnAbort" /\ link # "off"
    <3>1. drv' = Tail(drv) \o <<NoQuery>>
      BY <2>2 DEF OnConnected, NoQuery
    <3>2. NoQuery \in StaEvent
      BY ReportTypes DEF NoQuery
    <3>3. \A e \in StaEvent : Tail(drv) \o <<e>> \in Seq(StaEvent)
      BY <1>1
    <3>4. QED
      BY <3>1, <3>2, <3>3, Zenon
  <2>3. CASE wifi # "ConnAbort"
    BY <1>1, <2>3 DEF OnConnected
  <2>4. QED
    BY <2>1, <2>2, <2>3
<1>3. UNCHANGED <<cached, attempted, connectTries, scan>>
  BY DEF OnConnected, stationVars
<1>4. link' \in {"off", "joining", "up"} /\ wifi' \in {"Connected", wifi}
  BY DEF OnConnected, stationVars, StaTypes
<1>5. wifi' = "Connecting" => wifi = "Connecting"
  BY <1>4
<1>6. QED
  BY <1>2, <1>3, <1>4, <1>5 DEF StaTypes, TriesLeft

LEMMA OnDisconnectedTypes ==
  ASSUME StaTypes, TriesLeft, NEW q, OnDisconnected(q), drv # <<>>, crossed' = crossed
  PROVE  StaTypes' /\ TriesLeft'
<1>1. drv' \in Seq(StaEvent)
  BY DEF StaTypes, OnDisconnected
<1>2. UNCHANGED <<cached, attempted>>
  BY DEF OnDisconnected
<1>3. scan' \in BOOLEAN
  BY DEF OnDisconnected, StaTypes
<1>4. CASE wifi = "Connecting" /\ ~(HasCachedSSID /\ q)
  <2>1. connectTries' = connectTries + 1 /\ connectTries \in 0..ConnectRetries + 1 /\ connectTries <= ConnectRetries
    BY <1>4 DEF OnDisconnected, StaTypes, TriesLeft
  <2>2. connectTries' \in 0..ConnectRetries + 1
    BY <2>1
  <2>3. \/ wifi' = "Disconnected" /\ link' = link
        \/ connectTries' =< ConnectRetries /\ wifi' = wifi /\ link' \in {"joining", link}
    BY <1>4 DEF OnDisconnected, EndWith, EspJoin
  <2>4. QED
    BY <1>1, <1>2, <1>3, <2>2, <2>3 DEF StaTypes, TriesLeft
<1>5. CASE ~(wifi = "Connecting" /\ ~(HasCachedSSID /\ q))
  <2>1. connectTries' = connectTries /\ link' = link /\ wifi' \in {"Scanning", "Disconnected"}
    BY <1>5 DEF OnDisconnected, EndWith
  <2>2. QED
    BY <1>1, <1>2, <1>3, <2>1 DEF StaTypes, TriesLeft
<1>6. QED
  BY <1>4, <1>5

LEMMA OnScanDoneTypes ==
  ASSUME StaTypes, TriesLeft, OnScanDone, drv # <<>>, crossed' = crossed
  PROVE  StaTypes' /\ TriesLeft'
<1>1. drv' \in Seq(StaEvent) /\ scan' = scan
  BY DEF StaTypes, OnScanDone
<1>2. CASE wifi = "Scanning"
  <2>1. PICK found \in BOOLEAN :
          /\ attempted' = HasCachedSSID
          /\ cached' = (HasCachedSSID \/ found)
          /\ IF cached' THEN wifi' = "Connecting" /\ connectTries' = 0 /\ EspJoin /\ NoPost
             ELSE EndWith("connectFail") /\ UNCHANGED <<connectTries, link>>
    BY <1>2 DEF OnScanDone
  <2>2. HasCachedSSID \in BOOLEAN
    BY DEF HasCachedSSID
  <2>3. attempted' \in BOOLEAN /\ cached' \in BOOLEAN
    BY <2>1, <2>2
  <2>4. \/ wifi' = "Connecting" /\ connectTries' = 0 /\ link' \in {"joining", link}
        \/ wifi' = "Disconnected" /\ connectTries' = connectTries /\ link' = link
    BY <2>1 DEF EspJoin, EndWith
  <2>5. QED
    BY <1>1, <2>3, <2>4 DEF StaTypes, TriesLeft
<1>3. CASE wifi # "Scanning"
  <2>1. UNCHANGED <<cached, attempted, connectTries, link>> /\ wifi' \in {"Disconnected", wifi}
    BY <1>3 DEF OnScanDone, EndWith, stationVars
  <2>2. QED
    BY <1>1, <2>1 DEF StaTypes, TriesLeft
<1>4. QED
  BY <1>2, <1>3

LEMMA FirstReport ==
  /\ \A a : drv = <<a>> => Head(drv) = a /\ Tail(drv) = <<>>
  /\ \A a, b : drv = <<a, b>> => Head(drv) = a /\ Tail(drv) = <<b>>
  BY ShortQueues, Zenon

LEMMA ReportIds ==
  /\ Done.id = "scanDone" /\ Joined.id = "connected"
  /\ \A e \in Left : e.id = "disconnected"
  BY DEF Done, Joined, Left

(* A join that ended, or one that is cut: the next scan, the next join, or *)
(* the end of it.                                                          *)
LEMMA LeftFits ==
  ASSUME StaTypes, NEW e \in Left, drv = <<e>>, link = "off", scan = FALSE, SysEvt
  PROVE  Fits'
<1>1. Head(drv).id = "disconnected" /\ Tail(drv) = <<>>
  BY FirstReport, ReportIds, Zenon
<1>2. OnDisconnected(Head(drv).saQuery)
  BY <1>1, SysEvtCases, Zenon
<1>3. PICK q : q = Head(drv).saQuery
  OBVIOUS
<1>4. OnDisconnected(q)
  BY <1>2, <1>3
<1>5. drv' = <<>>
  BY <1>1, <1>4 DEF OnDisconnected
<1>6. \/ wifi' = "Scanning" /\ scan' = (scan \/ link # "joining") /\ link' = link
      \/ wifi' = "Connecting" /\ link' = "joining" /\ scan' = scan
      \/ wifi' = "Disconnected" /\ link' = link /\ scan' = scan
  BY <1>4 DEF OnDisconnected, EndWith, EspJoin
<1>7. (scan \/ link # "joining") = TRUE
  OBVIOUS
<1>8. QED
  BY <1>5, <1>6, <1>7 DEF Fits, Scans, Joins, AtRest, Waits

(* The end of a scan: a join, or the end of it.                            *)
LEMMA DoneFits ==
  ASSUME StaTypes, drv = <<Done>>, link = "off", scan = FALSE, wifi \in {"Scanning", "ConnAbort"}, SysEvt
  PROVE  Fits'
<1>1. Head(drv).id = "scanDone" /\ Tail(drv) = <<>>
  BY FirstReport, ReportIds, Zenon
<1>2. OnScanDone
  BY <1>1, SysEvtCases, Zenon
<1>3. drv' = <<>> /\ scan' = FALSE
  BY <1>1, <1>2 DEF OnScanDone
<1>4. \/ wifi' = "Connecting" /\ link' = "joining"
      \/ wifi' = "Disconnected" /\ link' = link
  <2>1. CASE wifi = "ConnAbort"
    BY <1>2, <2>1 DEF OnScanDone, EndWith
  <2>2. CASE wifi = "Scanning"
    <3>1. PICK found \in BOOLEAN :
          IF cached' THEN wifi' = "Connecting" /\ connectTries' = 0 /\ EspJoin /\ NoPost
             ELSE EndWith("connectFail") /\ UNCHANGED <<connectTries, link>>
      BY <1>2, <2>2 DEF OnScanDone
    <3>2. QED
      BY <3>1 DEF EspJoin, EndWith
  <2>3. QED
    BY <2>1, <2>2
<1>5. QED
  BY <1>3, <1>4 DEF Fits, Joins, AtRest, Waits

(* A join that succeeded, perhaps with its end already behind it.          *)
LEMMA JoinedFits ==
  ASSUME StaTypes, NEW rest \in {<<>>} \cup {<<e>> : e \in Left}, Head(drv) = Joined, Tail(drv) = rest,
         wifi \in {"Connecting", "ConnAbort"}, link = (IF rest = <<>> THEN "up" ELSE "off"), scan = FALSE,
         wifi = "ConnAbort" => link = "off", SysEvt
  PROVE  Fits'
<1>1. OnConnected
  <2>1. Head(drv).id = "connected"
    BY ReportIds, Zenon
  <2>2. QED
    BY <2>1, SysEvtCases, Zenon
<1>2. scan' = FALSE
  BY <1>1 DEF OnConnected
<1>3. CASE wifi = "Connecting"
  <2>1. wifi' = "Connected" /\ link' = link /\ drv' = rest
    BY <1>1, <1>3 DEF OnConnected
  <2>2. CASE rest = <<>>
    BY <1>2, <2>1, <2>2 DEF Fits, IsUp, Waits
  <2>3. CASE rest # <<>>
    BY <1>2, <2>1, <2>3 DEF Fits, IsCut, Waits
  <2>4. QED
    BY <2>2, <2>3
<1>4. CASE wifi = "ConnAbort"
  <2>1. link = "off" /\ rest # <<>>
    BY <1>4
  <2>2. wifi' = wifi /\ link' = link /\ drv' = Tail(drv) \o <<>>
    BY <1>1, <1>4, <2>1 DEF OnConnected, stationVars
  <2>3. PICK e \in Left : rest = <<e>>
    BY <2>1
  <2>4. rest \in Seq(Left)
    BY <2>3
  <2>5. drv' = <<e>>
    BY <2>2, <2>3, <2>4, ConcatNothing, Zenon
  <2>6. QED
    BY <1>2, <1>4, <2>1, <2>2, <2>5 DEF Fits, GivenUp, Waits
<1>5. QED
  BY <1>3, <1>4

(* A report is handled by a station it fits.                               *)
LEMMA SysEvtFits ==
  ASSUME StaTypes, Fits, SysEvt
  PROVE  Fits'
<1>0. drv # <<>>
  BY SysEvtCases
<1>1. CASE AtRest \/ Scans \/ Joins \/ IsUp
  BY <1>0, <1>1 DEF AtRest, Scans, Joins, IsUp, Waits
<1>2. CASE Scanned
  BY <1>2, DoneFits DEF Scanned, Waits
<1>3. CASE HasJoined
  <2>1. drv = <<Joined>>
    BY <1>3 DEF HasJoined, Waits
  <2>2. Head(drv) = Joined /\ Tail(drv) = <<>>
    BY <2>1, FirstReport, Zenon
  <2>3. QED
    BY <1>3, <2>2, JoinedFits DEF HasJoined, Waits
<1>4. CASE \E e \in Left : drv = <<e>> /\ link = "off" /\ scan = FALSE
  BY <1>4, LeftFits
<1>5. CASE (\E e \in Left : drv = <<Joined, e>>) /\ link = "off" /\ scan = FALSE /\ wifi \in {"Connecting", "ConnAbort"}
  <2>1. PICK e \in Left : drv = <<Joined, e>>
    BY <1>5
  <2>2. Head(drv) = Joined /\ Tail(drv) = <<e>>
    BY <2>1, FirstReport, Zenon
  <2>3. <<e>> # <<>>
    BY ShortQueues
  <2>4. QED
    BY <1>5, <2>2, <2>3, JoinedFits
<1>6. CASE GivenUp /\ drv = <<Done>>
  BY <1>6, DoneFits DEF GivenUp, Waits
<1>7. CASE JoinFailed \/ IsCut \/ (GivenUp /\ drv # <<Done>>)
  <2>1. link = "off" /\ scan = FALSE
    BY <1>7 DEF JoinFailed, IsCut, GivenUp, Waits
  <2>2. CASE JoinFailed
    BY <1>4, <1>5, <2>1, <2>2 DEF JoinFailed, Waits
  <2>3. CASE IsCut
    BY <1>4, <2>1, <2>3 DEF IsCut, Waits
  <2>4. CASE GivenUp /\ drv # <<Done>>
    BY <1>4, <1>5, <2>1, <2>4 DEF GivenUp, Waits
  <2>5. QED
    BY <1>7, <2>2, <2>3, <2>4
<1>8. QED
  BY <1>1, <1>2, <1>3, <1>6, <1>7 DEF Fits

(* What the driver does by itself it reports.                              *)
LEMMA RadioMoves ==
  ASSUME StaTypes, TriesLeft, ReportsFit, StaRadio
  PROVE  StaTypes' /\ TriesLeft' /\ ReportsFit'
<1>1. UNCHANGED <<stationVars, crossed>>
  BY DEF StaRadio, ScanEnds, JoinEnds, LinkDrops, stationVars
<1>2. drv' \in Seq(StaEvent)
  <2>1. \E e \in StaEvent : drv' = Append(drv, e)
    <3>1. CASE ScanEnds
      BY <3>1, ReportTypes, Zenon DEF ScanEnds, Report, Done
    <3>2. CASE JoinEnds
      BY <3>2, ReportTypes, Zenon DEF JoinEnds, Report, Joined
    <3>3. CASE LinkDrops
      BY <3>3, ReportTypes, Zenon DEF LinkDrops, Report
    <3>4. QED
      BY <3>1, <3>2, <3>3 DEF StaRadio
  <2>2. QED
    BY <2>1, AppendType DEF StaTypes
<1>3. link' \in {"off", "joining", "up"} /\ scan' \in BOOLEAN
  BY DEF StaRadio, ScanEnds, JoinEnds, LinkDrops, StaTypes
<1>4. StaTypes' /\ TriesLeft'
  BY <1>1, <1>2, <1>3 DEF StaTypes, TriesLeft, stationVars
<1>5. ASSUME Fits
      PROVE  Fits'
  <2>1. CASE ScanEnds
    <3>1. scan' = FALSE /\ link' = link /\ drv' = Append(drv, Done) /\ Scans
      BY <1>5, <2>1 DEF ScanEnds, Report, Done, stationVars, Fits, AtRest, Scans, Scanned, Joins, HasJoined,
                        JoinFailed, IsUp, IsCut, GivenUp, Waits
    <3>2. drv' = <<Done>>
      BY <3>1, ShortQueues, Zenon DEF Scans, Waits
    <3>3. QED
      BY <1>1, <3>1, <3>2 DEF Fits, Scans, Scanned, Waits, stationVars
  <2>2. CASE JoinEnds
    <3>1. Joins /\ scan' = FALSE
      BY <1>5, <2>2 DEF JoinEnds, Fits, AtRest, Scans, Scanned, Joins, HasJoined,
                        JoinFailed, IsUp, IsCut, GivenUp, Waits
    <3>2. \/ link' = "up" /\ drv' = Append(drv, Joined)
          \/ link' = "off" /\ drv' = Append(drv, NoQuery)
      BY <2>2 DEF JoinEnds, Report, Joined, NoQuery
    <3>3. drv = <<>>
      BY <3>1 DEF Joins, Waits
    <3>4. \/ link' = "up" /\ drv' = <<Joined>>
          \/ link' = "off" /\ drv' = <<NoQuery>>
      BY <3>2, <3>3, ShortQueues, Zenon
    <3>5. NoQuery \in Left
      BY DEF NoQuery, Left
    <3>6. QED
      BY <1>1, <3>1, <3>4, <3>5 DEF Fits, Joins, HasJoined, JoinFailed, Waits, stationVars
  <2>3. CASE LinkDrops
    <3>1. (HasJoined \/ IsUp) /\ scan' = FALSE /\ link' = "off"
      BY <1>5, <2>3 DEF LinkDrops, Fits, AtRest, Scans, Scanned, Joins, HasJoined,
                        JoinFailed, IsUp, IsCut, GivenUp, Waits
    <3>2. PICK e \in Left : drv' = Append(drv, e)
      BY <2>3 DEF LinkDrops, Report, Left
    <3>3. CASE HasJoined
      <4>1. drv' = <<Joined, e>>
        BY <3>2, <3>3, ShortQueues, Zenon DEF HasJoined, Waits
      <4>2. QED
        BY <1>1, <3>1, <3>3, <4>1 DEF Fits, HasJoined, JoinFailed, Waits, stationVars
    <3>4. CASE IsUp
      <4>1. drv' = <<e>>
        BY <3>2, <3>4, ShortQueues, Zenon DEF IsUp, Waits
      <4>2. QED
        BY <1>1, <3>1, <3>4, <4>1 DEF Fits, IsUp, IsCut, Waits, stationVars
    <3>5. QED
      BY <3>1, <3>3, <3>4
  <2>4. QED
    BY <2>1, <2>2, <2>3 DEF StaRadio
<1>6. QED
  BY <1>1, <1>4, <1>5 DEF ReportsFit

(* Whatever a step does to the station, it still fits its driver.          *)
LEMMA StaMoveFits ==
  ASSUME StaTypes, TriesLeft, ReportsFit, StaMove
  PROVE  StaTypes' /\ TriesLeft' /\ ReportsFit'
<1>1. CASE UNCHANGED stationState
  BY <1>1 DEF stationState, StaTypes, TriesLeft, ReportsFit, Fits, AtRest, Scans, Scanned, Joins, HasJoined,
              JoinFailed, IsUp, IsCut, GivenUp, Waits
<1>2. CASE SysEvt
  <2>1. /\ drv # <<>> /\ crossed' = crossed
        /\ \/ Head(drv).id = "connected" /\ OnConnected
           \/ Head(drv).id = "disconnected" /\ OnDisconnected(Head(drv).saQuery)
           \/ Head(drv).id = "scanDone" /\ OnScanDone
    BY <1>2, SysEvtCases, Zenon
  <2>2. StaTypes' /\ TriesLeft'
    BY <2>1, OnConnectedTypes, OnDisconnectedTypes, OnScanDoneTypes, Zenon
  <2>3. ReportsFit'
    BY <1>2, <2>1, SysEvtFits DEF ReportsFit
  <2>4. QED
    BY <2>2, <2>3
<1>3. CASE StaRest
  <2>1. StaTypes'
    <3>1. cached' \in BOOLEAN /\ attempted' \in BOOLEAN /\ scan' \in BOOLEAN /\ crossed' \in BOOLEAN
      BY <1>3 DEF StaRest
    <3>2. drv' \in Seq(StaEvent) /\ connectTries' \in 0..ConnectRetries + 1
      BY <1>3 DEF StaRest
    <3>3. wifi' = "Disconnected" /\ link' = "off"
      BY <1>3 DEF StaRest
    <3>4. QED
      BY <3>1, <3>2, <3>3 DEF StaTypes
  <2>2. AtRest' /\ TriesLeft'
    BY <1>3 DEF StaRest, TriesLeft, AtRest, Waits
  <2>3. QED
    BY <2>1, <2>2 DEF ReportsFit, Fits
<1>4. QED
  BY <1>1, <1>2, <1>3, ConnectMoves, DisconnectMoves, RadioMoves DEF StaMove

-----------------------------------------------------------------------------
(* The queue of the service, and what is left of the model's bounds.       *)
QueueTypes ==
  /\ drops \in 0..MaxDrops /\ listening \in BOOLEAN
  /\ pairq \in Seq(WifiEvent) /\ Len(pairq) =< PairQueue

(* A post and a get keep the queue within its places.                      *)
LEMMA PostKeeps ==
  ASSUME QueueTypes, NEW e \in WifiEvent, StaPost(e)
  PROVE  pairq' \in Seq(WifiEvent) /\ Len(pairq') =< PairQueue
<1>1. CASE listening /\ Len(pairq) < PairQueue
  <2>1. pairq' = Append(pairq, e)
    BY <1>1 DEF StaPost
  <2>2. QED
    BY <1>1, <2>1 DEF QueueTypes
<1>2. CASE ~(listening /\ Len(pairq) < PairQueue)
  <2>1. pairq' = pairq
    BY <1>2 DEF StaPost
  <2>2. QED
    BY <2>1 DEF QueueTypes
<1>3. QED
  BY <1>1, <1>2

LEMMA TakeKeeps ==
  ASSUME QueueTypes, pairq # <<>>, pairq' = Tail(pairq)
  PROVE  pairq' \in Seq(WifiEvent) /\ Len(pairq') =< PairQueue
<1>1. Tail(pairq) \in Seq(WifiEvent) /\ Len(Tail(pairq)) = Len(pairq) - 1 /\ Len(pairq) \in Nat
  BY DEF QueueTypes
<1>2. QED
  BY <1>1 DEF QueueTypes

(* A handler posts at most one event.                                      *)
LEMMA SysEvtPosts ==
  ASSUME SysEvt, StaTypes
  PROVE  UNCHANGED <<drops, listening>> /\ (pairq' = pairq \/ \E e \in WifiEvent : StaPost(e))
<1>1. UNCHANGED <<drops, listening>>
  BY DEF SysEvt
<1> DEFINE Posts == pairq' = pairq \/ \E e \in WifiEvent : StaPost(e)
<1>0. "connectOk" \in WifiEvent /\ "connectFail" \in WifiEvent /\ "disconnect" \in WifiEvent /\ "probe" \in WifiEvent
  BY DEF WifiEvent
<1>2. CASE OnConnected
  <2>1. pairq' = pairq \/ StaPost("connectOk")
    BY <1>2 DEF OnConnected, NoPost
  <2>2. QED
    BY <1>0, <1>1, <2>1
<1>3. ASSUME NEW q, OnDisconnected(q)
      PROVE  Posts
  <2>1. \/ pairq' = pairq \/ StaPost("probe") \/ StaPost("connectFail") \/ StaPost("disconnect")
    BY <1>3 DEF OnDisconnected, NoPost, EndWith
  <2>2. QED
    BY <1>0, <2>1
<1>4. CASE OnScanDone
  <2>1. pairq' = pairq \/ StaPost("connectFail")
    BY <1>4 DEF OnScanDone, NoPost, EndWith
  <2>2. QED
    BY <1>0, <1>1, <2>1
<1>5. QED
  BY <1>1, <1>2, <1>3, <1>4, SysEvtCases, Zenon

(* The queue keeps its type in every step.                                 *)
LEMMA StepQueues ==
  ASSUME PerseNext, QueueTypes, StaTypes
  PROVE  QueueTypes'
<1>1. CASE Station
  <2>1. CASE SysEvt
    <3>1. UNCHANGED <<drops, listening>> /\ (pairq' = pairq \/ \E e \in WifiEvent : StaPost(e))
      BY <2>1, SysEvtPosts
    <3>2. pairq' \in Seq(WifiEvent) /\ Len(pairq') =< PairQueue
      BY <3>1, PostKeeps DEF QueueTypes
    <3>3. QED
      BY <3>1, <3>2 DEF QueueTypes
  <2>2. CASE StaRadio
    BY <2>2 DEF StaRadio, ScanEnds, JoinEnds, LinkDrops, QueueTypes
  <2>3. QED
    BY <1>1, <2>1, <2>2 DEF Station
<1>2. CASE RobotLeaves
  BY <1>2 DEF RobotLeaves, QueueTypes
<1>3. CASE LwipGivesUp
  BY <1>3 DEF LwipGivesUp, QueueTypes, staVars
<1>4. CASE UiButton
  <2>1. UNCHANGED <<drops, pairq>>
    BY <1>4 DEF UiButton, Ui
  <2>2. listening' \in BOOLEAN
    BY <1>4 DEF UiButton, Press, Release, Alt, Unpair, NewPairService, QueueTypes
  <2>3. QED
    BY <2>1, <2>2 DEF QueueTypes
<1>5. CASE UiOpen
  BY <1>5 DEF UiOpen, QueueTypes, staVars
<1>6. CASE UiThread
  <2>1. CASE UiOff
    BY <2>1 DEF UiOff, Unpair, QueueTypes, Ui
  <2>2. CASE UiDrained \/ UiCheck \/ UiAct \/ UiLeaveTcp
    BY <2>2 DEF UiDrained, UiCheck, UiAct, UiLeaveTcp, UiLoop, QueueTypes, Ui
  <2>3. CASE ResetWaits
    <3>1. drops' = drops /\ listening' = FALSE /\ pairq' = <<>>
      BY <2>3 DEF ResetWaits, Waited
    <3>2. listening' \in BOOLEAN
      BY <3>1
    <3>3. pairq' \in Seq(WifiEvent) /\ Len(pairq') =< PairQueue
      BY <3>1
    <3>4. QED
      BY <3>1, <3>2, <3>3 DEF QueueTypes
  <2>4. CASE UiClose
    BY <2>4 DEF UiClose, QueueTypes
  <2>5. QED
    BY <1>6, <2>1, <2>2, <2>3, <2>4 DEF UiThread
<1>7. CASE PairThread
  <2>1. CASE PairGet
    <3>1. UNCHANGED <<drops, listening>>
      BY <2>1 DEF PairGet
    <3>2. pairq' \in Seq(WifiEvent) /\ Len(pairq') =< PairQueue
      BY <2>1, TakeKeeps DEF PairGet
    <3>3. QED
      BY <3>1, <3>2 DEF QueueTypes
  <2>2. CASE PairSocket \/ PairConnects \/ PairDone \/ PairWaits \/ PairTimeout
    BY <2>2 DEF PairSocket, PairConnects, PairDone, PairWaits, PairTimeout, staVars, QueueTypes
  <2>3. CASE PairRefused \/ PairAbort \/ PairAgain
    BY <2>3 DEF PairRefused, PairAbort, PairAgain, QueueTypes
  <2>4. QED
    BY <1>7, <2>1, <2>2, <2>3 DEF PairThread
<1>8. CASE CommTest \/ CommRead
  BY <1>8 DEF CommTest, CommRead, staVars, QueueTypes
<1>9. CASE \E t \in Thread : HangingUp(t)
  BY <1>9 DEF HangingUp, staVars, QueueTypes
<1>10. QED
  BY <1>1, <1>2, <1>3, <1>4, <1>5, <1>6, <1>7, <1>8, <1>9 DEF PerseNext

-----------------------------------------------------------------------------
TcpTypes ==
  /\ sock \in BOOLEAN /\ connected \in BOOLEAN /\ fdOpen \in BOOLEAN
  /\ peer \in {"none", "up", "lost", "closed"}
  /\ hangup \in [Thread -> {"no", "test", "close", "clear"}]
  /\ evts \in 0..EvtQueue /\ unheard \in BOOLEAN
  /\ stale \in [Thread -> BOOLEAN] /\ foreign \in BOOLEAN

LoopTypes ==
  /\ upc \in {"drain", "check", "act", "waitDrain", "waitAct",
              "waitLeave", "leaveTcp", "leaveComm", "closed"}
  /\ paired \in BOOLEAN /\ held \in BOOLEAN /\ presses \in 0..MaxPresses
  /\ ppc \in {"gone", "drain", "socket", "open", "done", "abort", "again"}
  /\ pstate \in {"none", "Pairing", "Fail", "Success"}
  /\ stopping \in BOOLEAN /\ attempts \in 1..Attempts
  /\ cpc \in {"test", "read"}

(* The type invariant in four parts.                                       *)
LEMMA TypesAre == PerseTypeOK <=> StaTypes /\ QueueTypes /\ TcpTypes /\ LoopTypes
  BY DEF PerseTypeOK, StaTypeOK, StaTypes, QueueTypes, TcpTypes, LoopTypes

(* A step that leaves the sockets alone: a thread may begin to hang up.    *)
Calm ==
  /\ UNCHANGED <<sock, connected, fdOpen, stale, foreign>>
  /\ peer' \in {"none", "up", "lost", "closed"}
  /\ hangup' \in [Thread -> {"no", "test", "close", "clear"}]
  /\ \A t \in Thread : hangup'[t] \in {hangup[t], "test"}

(* Steps that are calm: nothing, a hang-up begun, a packet sent.           *)
LEMMA StillCalm ==
  ASSUME TcpTypes, UNCHANGED tcpVars
  PROVE  Calm
  BY DEF TcpTypes, tcpVars, Calm

LEMMA HangUpCalm ==
  ASSUME TcpTypes, NEW t \in Thread, HangUp(t)
  PROVE  /\ hangup' \in [Thread -> {"no", "test", "close", "clear"}]
         /\ \A u \in Thread : hangup'[u] \in {hangup[u], "test"}
  BY DEF TcpTypes, HangUp

LEMMA HangUpIfCalm ==
  ASSUME TcpTypes, NEW c, HangUpIf(c), Keep
  PROVE  Calm
<1>1. CASE c
  <2>1. HangUp("pair")
    BY <1>1 DEF HangUpIf
  <2>2. "pair" \in Thread
    BY DEF Thread
  <2>3. QED
    BY <2>1, <2>2, HangUpCalm DEF Calm, Keep, TcpTypes
<1>2. CASE ~c
  BY <1>2 DEF HangUpIf, Keep, Calm, TcpTypes
<1>3. QED
  BY <1>1, <1>2

LEMMA SendCalm ==
  ASSUME TcpTypes, SendPacket
  PROVE  Calm
<1>1. UNCHANGED <<sock, connected, fdOpen, stale, foreign>> /\ peer' \in {"none", "up", "lost", "closed"}
  BY DEF SendPacket, TcpTypes
<1>2. "ui" \in Thread
  BY DEF Thread
<1>3. CASE HangUp("ui")
  BY <1>1, <1>2, <1>3, HangUpCalm DEF Calm
<1>4. CASE hangup' = hangup
  BY <1>1, <1>4 DEF Calm, TcpTypes
<1>5. QED
  BY <1>3, <1>4 DEF SendPacket

LEMMA SendIfCalm ==
  ASSUME TcpTypes, NEW c, SendIf(c)
  PROVE  Calm
  BY SendCalm, StillCalm DEF SendIf

(* A calm step keeps screen and client in step if nobody comes to believe  *)
(* more, and no news is lost that matters.                                 *)
Expecting == Believed \/ (ppc = "open" /\ ~Dropping)

InStep == Sockets /\ LossTold /\ ToldAhead

LEMMA CalmKeeps ==
  ASSUME TcpTypes, InStep, Calm, Believed' => Believed, Expecting' => Expecting,
         Expecting' => (News => News')
  PROVE  InStep'
<1>1. Sockets'
  BY DEF InStep, Sockets, Calm
<1>2. LossTold'
  BY DEF InStep, LossTold, Calm, Expecting
<1>3. ToldAhead'
  <2>1. SUFFICES ASSUME NEW t \in Thread, hangup'[t] = "close", ~stale'[t], Expecting'
                 PROVE  News'
    BY DEF ToldAhead, Expecting
  <2>2. hangup[t] = "close" /\ ~stale[t]
    BY <2>1 DEF Calm
  <2>3. QED
    BY <2>1, <2>2 DEF InStep, ToldAhead, Expecting
<1>4. QED
  BY <1>1, <1>2, <1>3 DEF InStep

-----------------------------------------------------------------------------
Sides == TcpTypes /\ LoopTypes /\ Places /\ InStep

(* ~PairService begins: a service there is makes the screen wait.          *)
LEMMA ResetIs ==
  ASSUME LoopTypes, NEW w \in {"waitDrain", "waitAct", "waitLeave"},
         NEW n \in {"drain", "act", "leaveTcp"}, Reset(w, n)
  PROVE  /\ stopping' \in BOOLEAN
         /\ pstate = "none" => upc' = n
         /\ pstate # "none" => upc' = w
<1>1. CASE pstate = "none"
  BY <1>1 DEF Reset, LoopTypes
<1>2. CASE pstate # "none"
  BY <1>2 DEF Reset
<1>3. QED
  BY <1>1, <1>2

(* The wheel is pressed: the lights of a paired robot, or a new service.   *)
LEMMA PressKeeps ==
  ASSUME Sides, UiButton, Press
  PROVE  Sides'
<1>1. /\ upc = "drain" /\ upc' = upc /\ paired' = paired /\ cpc' = cpc /\ evts' = evts
      /\ presses' = presses + 1 /\ presses < MaxPresses /\ held' = TRUE
  BY DEF UiButton, Ui, Press
<1>2. held' \in BOOLEAN /\ presses' \in 0..MaxPresses
  <2>1. presses \in 0..MaxPresses
    BY DEF Sides, LoopTypes
  <2>2. presses' \in 0..MaxPresses
    BY <1>1, <2>1
  <2>3. held' \in BOOLEAN
    BY <1>1
  <2>4. QED
    BY <2>2, <2>3
<1>3. CASE paired
  <2>1. SendPacket /\ UNCHANGED <<ppc, pstate, attempts, unheard, stopping>>
    BY <1>3 DEF Press, Unpair
  <2>2. Calm
    BY <2>1, SendCalm DEF Sides
  <2>3. TcpTypes' /\ LoopTypes'
    BY <1>1, <1>2, <2>1, <2>2 DEF Sides, TcpTypes, LoopTypes, Calm
  <2>4. Places'
    BY <1>1, <2>1 DEF Sides, Places
  <2>5. Believed' = Believed /\ Expecting' = Expecting /\ News' = News
    BY <1>1, <2>1, <2>2 DEF Believed, Expecting, Dropping, News, Calm
  <2>6. QED
    BY <2>2, <2>3, <2>4, <2>5, CalmKeeps DEF Sides
<1>4. CASE ~paired
  <2>1. /\ pstate' = "Pairing" /\ ppc' = "drain" /\ attempts' = 1 /\ unheard' = FALSE
        /\ UNCHANGED <<stopping, hangup, peer, sock, connected, fdOpen, stale, foreign>>
    BY <1>4 DEF Press, NewPairService
  <2>2. Calm
    BY <2>1, StillCalm DEF Sides, tcpVars
  <2>3. unheard' \in BOOLEAN
    BY <2>1
  <2>4. TcpTypes' /\ LoopTypes'
    BY <1>1, <1>2, <2>1, <2>2, <2>3 DEF Sides, TcpTypes, LoopTypes, Calm
  <2>5. Places'
    BY <1>1, <2>1 DEF Sides, Places
  <2>6. ~Believed' /\ ~Expecting'
    BY <1>1, <1>4, <2>1 DEF Believed, Expecting
  <2>7. QED
    BY <2>2, <2>4, <2>5, <2>6, CalmKeeps DEF Sides
<1>5. QED
  BY <1>3, <1>4

(* The wheel is let go: a service there is is dropped.                     *)
LEMMA ReleaseKeeps ==
  ASSUME Sides, UiButton, Release
  PROVE  Sides'
<1>1. /\ upc = "drain" /\ paired' = paired /\ cpc' = cpc /\ evts' = evts
      /\ presses' = presses /\ held' = FALSE
      /\ UNCHANGED <<ppc, pstate, attempts, unheard>> /\ UNCHANGED tcpVars
  BY DEF UiButton, Ui, Release, Unpair
<1>2. Calm
  BY <1>1, StillCalm DEF Sides
<1>3. held' \in BOOLEAN
  BY <1>1
<1>4. /\ stopping' \in BOOLEAN
      /\ paired \/ pstate = "none" => upc' = upc
      /\ ~paired /\ pstate # "none" => upc' = "waitDrain"
  <2>1. CASE paired
    BY <2>1 DEF Release, Sides, LoopTypes
  <2>2. CASE ~paired
    <3>1. Reset("waitDrain", "drain")
      BY <2>2 DEF Release
    <3>2. QED
      BY <1>1, <2>2, <3>1, ResetIs DEF Sides
  <2>3. QED
    BY <2>1, <2>2
<1>5. upc' \in {"drain", "waitDrain"}
  BY <1>1, <1>4
<1>6. TcpTypes' /\ LoopTypes'
  BY <1>1, <1>2, <1>3, <1>4, <1>5 DEF Sides, TcpTypes, LoopTypes, Calm
<1>7. Places'
  BY <1>1, <1>5 DEF Sides, Places
<1>8. /\ Believed' => Believed
      /\ Expecting' => Expecting
      /\ News' = News
  BY <1>1, <1>2 DEF Believed, Expecting, Dropping, News, Calm
<1>9. QED
  BY <1>2, <1>6, <1>7, <1>8, CalmKeeps DEF Sides

(* The screen is left.                                                     *)
LEMMA AltKeeps ==
  ASSUME Sides, UiButton, Alt
  PROVE  Sides'
<1>1. /\ upc = "drain" /\ paired' = paired /\ cpc' = cpc /\ evts' = evts
      /\ presses' = presses + 1 /\ presses < MaxPresses /\ held' = held
      /\ UNCHANGED <<ppc, pstate, attempts, unheard>> /\ UNCHANGED tcpVars
      /\ Reset("waitLeave", "leaveTcp")
  BY DEF UiButton, Ui, Alt, UiLeave, Unpair
<1>2. Calm
  BY <1>1, StillCalm DEF Sides
<1>3. presses' \in 0..MaxPresses
  <2>1. presses \in 0..MaxPresses
    BY DEF Sides, LoopTypes
  <2>2. QED
    BY <1>1, <2>1
<1>4. /\ stopping' \in BOOLEAN
      /\ pstate = "none" => upc' = "leaveTcp"
      /\ pstate # "none" => upc' = "waitLeave"
  BY <1>1, ResetIs DEF Sides
<1>5. upc' \in {"leaveTcp", "waitLeave"}
  BY <1>4
<1>6. TcpTypes' /\ LoopTypes'
  BY <1>1, <1>2, <1>3, <1>4, <1>5 DEF Sides, TcpTypes, LoopTypes, Calm
<1>7. Places'
  BY <1>1, <1>4 DEF Sides, Places
<1>8. (Believed' => Believed) /\ (Expecting' => Expecting) /\ News' = News
  BY <1>1, <1>2, <1>5 DEF Believed, Expecting, Dropping, News, Calm
<1>9. QED
  BY <1>2, <1>6, <1>7, <1>8, CalmKeeps DEF Sides

(* News of a lost connection: neither screen nor service believes in it.   *)
LEMMA OffKeeps ==
  ASSUME Sides, UiOff
  PROVE  Sides'
<1>1. /\ upc = "drain" /\ paired' = FALSE /\ cpc' = cpc /\ evts > 0 /\ evts' = evts - 1
      /\ UNCHANGED <<ppc, pstate, attempts, unheard, presses, held>> /\ UNCHANGED tcpVars
      /\ Reset("waitDrain", "drain")
  BY DEF UiOff, OnTcpOff, Ui, Unpair
<1>2. Calm
  BY <1>1, StillCalm DEF Sides
<1>3. paired' \in BOOLEAN
  BY <1>1
<1>4. /\ stopping' \in BOOLEAN
      /\ pstate = "none" => upc' = "drain"
      /\ pstate # "none" => upc' = "waitDrain"
  BY <1>1, ResetIs DEF Sides
<1>5. upc' \in {"drain", "waitDrain"}
  BY <1>4
<1>6. evts' \in 0..EvtQueue
  <2>1. evts \in 0..EvtQueue
    BY DEF Sides, TcpTypes
  <2>2. QED
    BY <1>1, <2>1
<1>7. TcpTypes' /\ LoopTypes'
  BY <1>1, <1>2, <1>3, <1>4, <1>5, <1>6 DEF Sides, TcpTypes, LoopTypes, Calm
<1>8. Places'
  BY <1>1, <1>5 DEF Sides, Places
<1>9. ~Believed' /\ ~Expecting'
  <2>1. CASE pstate = "none"
    <3>1. ppc = "gone"
      BY <2>1 DEF Sides, Places
    <3>2. QED
      BY <1>1, <2>1, <3>1 DEF Believed, Expecting
  <2>2. CASE pstate # "none"
    BY <1>1, <1>4, <2>2 DEF Believed, Expecting, Dropping
  <2>3. QED
    BY <2>1, <2>2
<1>10. QED
  BY <1>2, <1>7, <1>8, <1>9, CalmKeeps DEF Sides

(* The outcome of a pairing is shown: the service believed it before.      *)
LEMMA CheckKeeps ==
  ASSUME Sides, UiCheck
  PROVE  Sides'
<1>1. upc = "check" /\ UNCHANGED <<cpc, held, presses, evtVars, ppc, pstate, attempts>>
  BY DEF UiCheck, UiLoop, Ui
<1>2. Calm
  BY SendIfCalm DEF UiCheck, Sides
<1>3. /\ stopping' \in BOOLEAN /\ paired' \in BOOLEAN
      /\ upc' \in {"drain", "waitAct"}
      /\ paired' => paired \/ pstate = "Success"
  <2>1. CASE pstate \in {"none", "Pairing"}
    BY <2>1 DEF UiCheck, Sides, LoopTypes
  <2>2. CASE pstate \in {"Fail", "Success"}
    <3>1. Reset("waitAct", "act") /\ paired' = (pstate = "Success")
      BY <2>2 DEF UiCheck
    <3>2. stopping' \in BOOLEAN /\ upc' = "waitAct"
      BY <2>2, <3>1, ResetIs DEF Sides
    <3>3. paired' \in BOOLEAN
      BY <3>1
    <3>4. paired' => pstate = "Success"
      BY <3>1
    <3>5. QED
      BY <3>2, <3>3, <3>4
  <2>3. QED
    BY <2>1, <2>2 DEF UiCheck
<1>4. TcpTypes' /\ LoopTypes'
  BY <1>1, <1>2, <1>3 DEF Sides, TcpTypes, LoopTypes, Calm, evtVars
<1>5. Places'
  BY <1>1, <1>3 DEF Sides, Places
<1>6. ~Dropping /\ News' = News
  BY <1>1, <1>2 DEF Dropping, News, Calm, evtVars
<1>7. (Believed' => Believed) /\ (Expecting' => Expecting)
  BY <1>1, <1>3, <1>6 DEF Believed, Expecting
<1>8. QED
  BY <1>2, <1>4, <1>5, <1>6, <1>7, CalmKeeps DEF Sides

LEMMA LoopKeeps ==
  ASSUME Sides, UiDrained \/ UiAct \/ UiLeaveTcp
  PROVE  Sides'
<1>1. /\ UNCHANGED <<cpc, held, presses, evtVars, pairVars, paired>>
      /\ upc \in {"drain", "act", "leaveTcp"} /\ upc' \in {"check", "drain", "leaveComm"}
      /\ upc' = "leaveComm" => upc = "leaveTcp"
  BY DEF UiDrained, UiAct, UiLeaveTcp, UiLoop, Ui
<1>2. Calm
  <2>1. CASE UiDrained
    BY <2>1, StillCalm DEF UiDrained, Sides
  <2>2. CASE UiAct
    BY <2>2, SendIfCalm DEF UiAct, Sides
  <2>3. CASE UiLeaveTcp
    <3>1. "ui" \in Thread
      BY DEF Thread
    <3>2. QED
      BY <2>3, <3>1, HangUpCalm DEF UiLeaveTcp, Sides, TcpTypes, Keep, Calm
  <2>4. QED
    BY <2>1, <2>2, <2>3
<1>3. TcpTypes' /\ LoopTypes'
  BY <1>1, <1>2 DEF Sides, TcpTypes, LoopTypes, Calm, evtVars, pairVars
<1>4. Places'
  BY <1>1 DEF Sides, Places, pairVars
<1>5. Believed' = Believed /\ Expecting' = Expecting /\ News' = News
  BY <1>1, <1>2 DEF Believed, Expecting, Dropping, News, Calm, evtVars, pairVars
<1>6. QED
  BY <1>2, <1>3, <1>4, <1>5, CalmKeeps DEF Sides

(* The service is gone with its thread.                                    *)
LEMMA WaitedKeeps ==
  ASSUME Sides, ResetWaits
  PROVE  Sides'
<1>1. /\ ppc = "gone" /\ pstate' = "none" /\ stopping' = FALSE /\ attempts' = 1
      /\ UNCHANGED <<ppc, paired, held, presses, evtVars, cpc>> /\ UNCHANGED tcpVars
      /\ upc' \in {"drain", "act", "leaveTcp"}
  BY DEF ResetWaits, Waited, tcpVars
<1>2. Calm
  BY <1>1, StillCalm DEF Sides
<1>3. stopping' \in BOOLEAN
  BY <1>1
<1>4. TcpTypes' /\ LoopTypes'
  BY <1>1, <1>2, <1>3 DEF Sides, TcpTypes, LoopTypes, Calm, evtVars
<1>5. Places'
  BY <1>1 DEF Sides, Places
<1>6. (Believed' => Believed) /\ (Expecting' => Expecting) /\ News' = News
  BY <1>1, <1>2 DEF Believed, Expecting, News, Calm, evtVars
<1>7. QED
  BY <1>2, <1>4, <1>5, <1>6, CalmKeeps DEF Sides

(* The screen is gone, and the client with it.                             *)
LEMMA CloseKeeps ==
  ASSUME Sides, UiClose
  PROVE  Sides'
<1>1. /\ upc = "leaveComm" /\ upc' = "closed" /\ evts' = 0 /\ attempts' = 1 /\ peer' = "none"
      /\ UNCHANGED <<hangup, ppc, pstate, stopping, held, presses, cpc>>
  BY DEF UiClose
<1>2. ~sock' /\ ~connected' /\ ~fdOpen' /\ ~foreign' /\ ~unheard' /\ ~paired'
  BY DEF UiClose
<1>3. /\ sock' \in BOOLEAN /\ connected' \in BOOLEAN /\ fdOpen' \in BOOLEAN /\ foreign' \in BOOLEAN
      /\ unheard' \in BOOLEAN /\ paired' \in BOOLEAN
  BY DEF UiClose
<1>4. stale' \in [Thread -> BOOLEAN]
  BY DEF UiClose
<1>5. TcpTypes'
  BY <1>1, <1>3, <1>4 DEF Sides, TcpTypes
<1>6. LoopTypes'
  BY <1>1, <1>3 DEF Sides, LoopTypes
<1>7. pstate = "none" /\ ppc = "gone"
  BY <1>1 DEF Sides, Places
<1>8. Places'
  BY <1>1, <1>7 DEF Places
<1>9. ~Believed' /\ ~Expecting'
  BY <1>1, <1>2, <1>7 DEF Believed, Expecting
<1>10. InStep'
  BY <1>2, <1>9 DEF InStep, Sockets, LossTold, ToldAhead, Expecting
<1>11. QED
  BY <1>5, <1>6, <1>8, <1>10 DEF Sides

(* The screen's thread.                                                    *)
LEMMA ScreenKeeps ==
  ASSUME Sides, UiThread \/ UiButton \/ UiOpen
  PROVE  Sides'
<1>1. CASE UiThread
  BY <1>1, OffKeeps, CheckKeeps, LoopKeeps, WaitedKeeps, CloseKeeps DEF UiThread
<1>2. CASE UiButton
  BY <1>2, PressKeeps, ReleaseKeeps, AltKeeps DEF UiButton
<1>3. CASE UiOpen
  <2>1. /\ UNCHANGED <<tcpVars, pairVars, evtVars, cpc, paired, held, presses>>
        /\ upc = "closed" /\ upc' = "drain"
    BY <1>3 DEF UiOpen
  <2>2. Calm
    BY <2>1, StillCalm DEF Sides
  <2>3. TcpTypes' /\ LoopTypes'
    BY <2>1, <2>2 DEF Sides, TcpTypes, LoopTypes, Calm, evtVars, pairVars
  <2>4. Places'
    BY <2>1 DEF Sides, Places, pairVars
  <2>5. Believed' = Believed /\ Expecting' = Expecting /\ News' = News
    BY <2>1, <2>2 DEF Believed, Expecting, Dropping, News, Calm, evtVars, pairVars
  <2>6. QED
    BY <2>2, <2>3, <2>4, <2>5, CalmKeeps DEF Sides
<1>4. QED
  BY <1>1, <1>2, <1>3

(* The service takes an event: it may end in failure or begin again.       *)
LEMMA PairGetKeeps ==
  ASSUME Sides, PairGet
  PROVE  Sides'
<1>1. /\ ppc = "drain" /\ ppc' \in {"socket", "drain"}
      /\ UNCHANGED <<evtVars, uiVars, cpc>>
  BY DEF PairGet
<1>2. Calm
  BY HangUpIfCalm DEF PairGet, Sides
<1>3. /\ pstate' \in {pstate, "Fail"} /\ stopping' \in BOOLEAN /\ attempts' \in 1..Attempts
  <2>1. CASE Head(pairq) = "connectFail" /\ attempts < Attempts
    <3>1. attempts' = attempts + 1 /\ UNCHANGED <<pstate, stopping>>
      BY <2>1 DEF PairGet, Retry
    <3>2. attempts \in 1..Attempts
      BY DEF Sides, LoopTypes
    <3>3. attempts' \in 1..Attempts
      BY <2>1, <3>1, <3>2
    <3>4. QED
      BY <3>1, <3>3 DEF Sides, LoopTypes
  <2>2. CASE Head(pairq) = "connectFail" /\ ~(attempts < Attempts)
    BY <2>2 DEF PairGet, Retry, EndPairing, Sides, LoopTypes
  <2>3. CASE Head(pairq) # "connectFail"
    BY <2>3 DEF PairGet, Sides, LoopTypes
  <2>4. QED
    BY <2>1, <2>2, <2>3
<1>4. TcpTypes' /\ LoopTypes'
  BY <1>1, <1>2, <1>3 DEF Sides, TcpTypes, LoopTypes, Calm, evtVars, uiVars
<1>5. Places'
  BY <1>1, <1>3 DEF Sides, Places, uiVars
<1>6. (Believed' => Believed) /\ (Expecting' => Expecting) /\ News' = News
  BY <1>1, <1>2, <1>3 DEF Believed, Expecting, Dropping, News, Calm, evtVars, uiVars
<1>7. QED
  BY <1>2, <1>4, <1>5, <1>6, CalmKeeps DEF Sides

(* The outcome of an attempt.                                              *)
LEMMA PairEndsKeep ==
  ASSUME Sides, PairDone \/ PairRefused
  PROVE  Sides'
<1>1. /\ ppc' = "drain" /\ stopping' = TRUE /\ attempts' = attempts
      /\ \/ ppc = "done" /\ pstate' = "Success"
         \/ ppc \in {"socket", "open"} /\ pstate' = "Fail"
      /\ UNCHANGED <<evtVars, uiVars, cpc>> /\ UNCHANGED tcpVars
  BY DEF PairDone, PairRefused, PairStep, EndPairing
<1>2. Calm
  BY <1>1, StillCalm DEF Sides
<1>3. stopping' \in BOOLEAN
  BY <1>1
<1>4. TcpTypes' /\ LoopTypes'
  BY <1>1, <1>2, <1>3 DEF Sides, TcpTypes, LoopTypes, Calm, evtVars, uiVars
<1>5. Places'
  BY <1>1 DEF Sides, Places, uiVars
<1>6. (Believed' => Believed) /\ (Expecting' => Expecting) /\ News' = News
  BY <1>1, <1>2 DEF Believed, Expecting, Dropping, News, Calm, evtVars, uiVars
<1>7. QED
  BY <1>2, <1>4, <1>5, <1>6, CalmKeeps DEF Sides

(* The rest of the service's thread believes nothing new.                  *)
LEMMA PairMovesKeep ==
  ASSUME Sides, PairWaits \/ PairTimeout \/ PairAbort \/ PairAgain
  PROVE  Sides'
<1>1. /\ ppc # "gone" /\ ppc # "done" /\ ppc' \in {"gone", "drain", "abort", "again"}
      /\ UNCHANGED <<pstate, stopping, attempts, evtVars, uiVars, cpc>>
  BY DEF PairWaits, PairTimeout, PairAbort, PairAgain, PairStep, LoopEnd
<1>2. Calm
  <2>1. CASE PairAbort
    BY <2>1, HangUpIfCalm DEF PairAbort, Sides
  <2>2. CASE ~PairAbort
    BY <2>2, StillCalm DEF PairWaits, PairTimeout, PairAgain, Sides
  <2>3. QED
    BY <2>1, <2>2
<1>3. TcpTypes' /\ LoopTypes'
  BY <1>1, <1>2 DEF Sides, TcpTypes, LoopTypes, Calm, evtVars, uiVars
<1>4. Places'
  BY <1>1 DEF Sides, Places, uiVars
<1>5. (Believed' => Believed) /\ (Expecting' => Expecting) /\ News' = News
  BY <1>1, <1>2 DEF Believed, Expecting, Dropping, News, Calm, evtVars, uiVars
<1>6. QED
  BY <1>2, <1>3, <1>4, <1>5, CalmKeeps DEF Sides

(* A new socket: whoever is about to close or forget one has tested another. *)
LEMMA PairSocketKeeps ==
  ASSUME Sides, PairSocket
  PROVE  Sides'
<1>1. /\ ppc = "socket" /\ ppc' = "open"
      /\ UNCHANGED <<pstate, stopping, attempts, evts, unheard, uiVars, cpc, connected, hangup, foreign>>
      /\ sock' = TRUE /\ fdOpen' = TRUE /\ peer' = "none"
      /\ stale' = [t \in Thread |-> hangup[t] \in {"close", "clear"}]
  BY DEF PairSocket, PairStep, evtVars
<1>2. LoopTypes' /\ Places'
  BY <1>1 DEF Sides, LoopTypes, Places, uiVars
<1>3. Believed' = Believed
  BY <1>1 DEF Believed, Dropping, uiVars
<1>4. sock' \in BOOLEAN /\ fdOpen' \in BOOLEAN /\ stale' \in [Thread -> BOOLEAN]
  BY <1>1
<1>5. TcpTypes'
  BY <1>1, <1>4 DEF Sides, TcpTypes
<1>6. \A t \in Thread : hangup'[t] \in {"close", "clear"} => stale'[t]
  BY <1>1
<1>7. Sockets'
  BY <1>1, <1>6 DEF Sockets
<1>8. LossTold' /\ ToldAhead'
  BY <1>1, <1>3, <1>6 DEF Sides, InStep, LossTold, ToldAhead, News
<1>9. QED
  BY <1>2, <1>5, <1>7, <1>8 DEF Sides, InStep

(* The connection is there: nobody need be told of its end who believes in *)
(* it only now.                                                            *)
LEMMA PairConnectsKeeps ==
  ASSUME Sides, PairConnects
  PROVE  Sides'
<1>1. /\ ppc = "open" /\ ppc' = "done" /\ fdOpen /\ peer' = "up"
      /\ UNCHANGED <<pstate, stopping, attempts, evtVars, uiVars, cpc, sock, fdOpen, hangup, stale, foreign>>
  BY DEF PairConnects, PairStep
<1>2. connected' /\ connected' \in BOOLEAN
  BY DEF PairConnects
<1>3. LoopTypes' /\ Places'
  BY <1>1 DEF Sides, LoopTypes, Places, uiVars
<1>4. TcpTypes'
  BY <1>1, <1>2 DEF Sides, TcpTypes, evtVars
<1>5. Sockets'
  BY <1>1, <1>2 DEF Sides, InStep, Sockets
<1>6. LossTold'
  BY <1>2 DEF LossTold
<1>7. ToldAhead'
  <2>1. Expecting' => Expecting
    BY <1>1 DEF Expecting, Believed, Dropping, uiVars
  <2>2. News' = News
    BY <1>1 DEF News, evtVars
  <2>3. QED
    BY <1>1, <2>1, <2>2 DEF Sides, InStep, ToldAhead, Expecting
<1>8. QED
  BY <1>3, <1>4, <1>5, <1>6, <1>7 DEF Sides, InStep

(* The service's thread.                                                   *)
LEMMA PairKeeps ==
  ASSUME Sides, PairThread
  PROVE  Sides'
  BY PairGetKeeps, PairEndsKeep, PairMovesKeep, PairSocketKeeps, PairConnectsKeeps DEF PairThread

(* Steps that touch neither the screen nor the service.                    *)
LEMMA OthersKeep ==
  ASSUME Sides, Station \/ RobotLeaves \/ LwipGivesUp \/ CommTest \/ CommRead
  PROVE  Sides'
<1>1. UNCHANGED <<evtVars, uiVars, pairVars>> /\ cpc' \in {"test", "read"}
  BY DEF Station, RobotLeaves, LwipGivesUp, CommTest, CommRead, Sides, LoopTypes
<1>2. Calm
  <2>1. CASE Station \/ CommTest
    BY <2>1, StillCalm DEF Station, CommTest, Sides
  <2>2. CASE RobotLeaves \/ LwipGivesUp
    BY <2>2 DEF RobotLeaves, LwipGivesUp, Sides, TcpTypes, Calm
  <2>3. CASE CommRead
    <3>1. UNCHANGED <<sock, connected, fdOpen, stale, foreign, peer>> /\ (HangUp("comm") \/ hangup' = hangup)
      BY <2>3 DEF CommRead
    <3>2. "comm" \in Thread
      BY DEF Thread
    <3>3. QED
      BY <3>1, <3>2, HangUpCalm DEF Sides, TcpTypes, Calm
  <2>4. QED
    BY <2>1, <2>2, <2>3
<1>3. TcpTypes' /\ LoopTypes'
  BY <1>1, <1>2 DEF Sides, TcpTypes, LoopTypes, Calm, evtVars, uiVars, pairVars
<1>4. Places'
  BY <1>1 DEF Sides, Places, uiVars, pairVars
<1>5. Believed' = Believed /\ Expecting' = Expecting /\ News' = News
  BY <1>1, <1>2 DEF Believed, Expecting, Dropping, News, Calm, evtVars, uiVars, pairVars
<1>6. QED
  BY <1>2, <1>3, <1>4, <1>5, CalmKeeps DEF Sides

(* A thread that hangs up: it tells first, then the flag falls, and what   *)
(* it closes and forgets is what it tested, or the history says so.        *)
LEMMA HangingUpKeeps ==
  ASSUME Sides, NEW t \in Thread, HangingUp(t)
  PROVE  Sides'
<1>1. UNCHANGED <<pairVars, uiVars, cpc>>
  BY DEF HangingUp
<1>2. LoopTypes' /\ Places' /\ Believed' = Believed /\ Expecting' = Expecting
  BY <1>1 DEF Sides, LoopTypes, Places, Believed, Expecting, Dropping, pairVars, uiVars
<1>3. hangup \in [Thread -> {"no", "test", "close", "clear"}] /\ stale \in [Thread -> BOOLEAN]
  BY DEF Sides, TcpTypes
<1>4. CASE HangUpTest(t)
  <2>1. /\ UNCHANGED <<sock, connected, fdOpen, peer, stale, foreign>>
        /\ hangup' = [hangup EXCEPT ![t] = IF sock THEN "close" ELSE "no"]
    BY <1>4 DEF HangUpTest
  <2>2. /\ evts' \in 0..EvtQueue /\ unheard' \in BOOLEAN
        /\ News => News'
        /\ sock => News'
    <3>1. CASE ~sock
      BY <1>4, <2>1, <3>1 DEF HangUpTest, evtVars, News, Sides, TcpTypes
    <3>2. CASE sock /\ evts < EvtQueue /\ evts' = evts + 1 /\ unheard' = unheard
      <4>1. evts \in 0..EvtQueue /\ unheard \in BOOLEAN
        BY DEF Sides, TcpTypes
      <4>2. evts' \in 0..EvtQueue /\ evts' > 0
        BY <3>2, <4>1
      <4>3. QED
        BY <3>2, <4>1, <4>2 DEF News
    <3>3. CASE sock /\ unheard' = TRUE /\ evts' = evts
      BY <3>3 DEF News, Sides, TcpTypes
    <3>4. QED
      BY <1>4, <3>1, <3>2, <3>3 DEF HangUpTest, PostOff
  <2>3. hangup' \in [Thread -> {"no", "test", "close", "clear"}]
    BY <1>3, <2>1
  <2>4. \A u \in Thread : /\ hangup'[u] = "clear" => hangup[u] = "clear"
                          /\ hangup'[u] = "close" => hangup[u] = "close" \/ sock
    BY <1>3, <2>1
  <2>5. TcpTypes'
    BY <2>1, <2>2, <2>3 DEF Sides, TcpTypes
  <2>6. Sockets'
    BY <2>1, <2>4 DEF Sides, InStep, Sockets
  <2>7. LossTold'
    BY <1>2, <2>1, <2>2 DEF Sides, InStep, LossTold
  <2>8. ToldAhead'
    <3>1. SUFFICES ASSUME NEW u \in Thread, hangup'[u] = "close", ~stale'[u], Expecting'
                   PROVE  News'
      BY DEF ToldAhead, Expecting
    <3>2. ~stale[u] /\ Expecting
      BY <1>2, <2>1, <3>1
    <3>3. CASE sock
      BY <2>2, <3>3
    <3>4. CASE ~sock
      BY <2>2, <2>4, <3>1, <3>2, <3>4 DEF Sides, InStep, ToldAhead, Expecting
    <3>5. QED
      BY <3>3, <3>4
  <2>9. QED
    BY <1>2, <2>5, <2>6, <2>7, <2>8 DEF Sides, InStep
<1>5. CASE HangUpClose(t)
  <2>1. /\ hangup[t] = "close" /\ hangup' = [hangup EXCEPT ![t] = "clear"]
        /\ ~connected' /\ connected' \in BOOLEAN
        /\ UNCHANGED <<sock, peer, stale, evts, unheard>>
    BY <1>5 DEF HangUpClose, evtVars
  <2>2. fdOpen' \in BOOLEAN /\ foreign' \in BOOLEAN
    <3>1. fdOpen' = (fdOpen /\ ~sock) /\ foreign' = (foreign \/ (stale[t] /\ sock))
      BY <1>5 DEF HangUpClose
    <3>2. QED
      BY <3>1
  <2>3. /\ foreign => foreign'
        /\ stale[t] /\ sock => foreign'
        /\ ~foreign' => ~fdOpen'
    <3>1. fdOpen' = (fdOpen /\ ~sock) /\ foreign' = (foreign \/ (stale[t] /\ sock))
      BY <1>5 DEF HangUpClose
    <3>2. ~foreign => (fdOpen => sock)
      BY DEF Sides, InStep, Sockets
    <3>3. QED
      BY <3>1, <3>2
  <2>4. hangup' \in [Thread -> {"no", "test", "close", "clear"}]
    BY <1>3, <2>1
  <2>5. \A u \in Thread : hangup'[u] = "close" => hangup[u] = "close"
    BY <1>3, <2>1
  <2>6. TcpTypes'
    BY <2>1, <2>2, <2>4 DEF Sides, TcpTypes
  <2>7. Sockets'
    BY <2>1, <2>3 DEF Sockets
  <2>8. News => News'
    BY <2>1, <2>3 DEF News
  <2>9. ASSUME Believed
        PROVE  News'
    <3>1. CASE ~stale[t]
      BY <2>1, <2>8, <2>9, <3>1 DEF Sides, InStep, ToldAhead
    <3>2. CASE stale[t] /\ sock
      BY <2>3, <3>2 DEF News
    <3>3. CASE ~sock
      <4>1. foreign \/ ~connected
        BY <3>3 DEF Sides, InStep, Sockets
      <4>2. News
        BY <2>9, <4>1 DEF Sides, InStep, LossTold, News
      <4>3. QED
        BY <2>8, <4>2
    <3>4. QED
      BY <3>1, <3>2, <3>3
  <2>10. LossTold'
    BY <1>2, <2>9 DEF LossTold
  <2>11. ToldAhead'
    BY <1>2, <2>1, <2>5, <2>8 DEF Sides, InStep, ToldAhead, Expecting
  <2>12. QED
    BY <1>2, <2>6, <2>7, <2>10, <2>11 DEF Sides, InStep
<1>6. CASE HangUpClear(t)
  <2>1. /\ hangup[t] = "clear" /\ hangup' = [hangup EXCEPT ![t] = "no"]
        /\ ~sock' /\ sock' \in BOOLEAN
        /\ stale' = [stale EXCEPT ![t] = FALSE]
        /\ UNCHANGED <<connected, fdOpen, evts, unheard>>
    BY <1>6 DEF HangUpClear, evtVars
  <2>2. peer' \in {"none", "up", "lost", "closed"}
    BY <1>6 DEF HangUpClear, Sides, TcpTypes
  <2>3. foreign' = (foreign \/ (stale[t] /\ sock))
    BY <1>6 DEF HangUpClear
  <2>4. foreign' \in BOOLEAN
    BY <2>3
  <2>5. /\ hangup' \in [Thread -> {"no", "test", "close", "clear"}]
        /\ stale' \in [Thread -> BOOLEAN]
    BY <1>3, <2>1
  <2>6. \A u \in Thread : hangup'[u] \in {"close", "clear"} => hangup'[u] = hangup[u] /\ stale'[u] = stale[u]
    BY <1>3, <2>1
  <2>7. TcpTypes'
    BY <2>1, <2>2, <2>4, <2>5 DEF Sides, TcpTypes
  <2>8. ASSUME ~foreign'
        PROVE  ~foreign /\ ~fdOpen /\ ~connected
    <3>1. ~foreign /\ ~(stale[t] /\ sock)
      BY <2>3, <2>8
    <3>2. (connected => fdOpen) /\ (fdOpen => sock) /\ (~stale[t] => ~fdOpen)
      BY <2>1, <3>1 DEF Sides, InStep, Sockets
    <3>3. QED
      BY <3>1, <3>2
  <2>9. Sockets'
    BY <2>1, <2>8 DEF Sockets
  <2>10. News => News'
    BY <2>1, <2>3 DEF News
  <2>11. LossTold'
    BY <1>2, <2>1, <2>10 DEF Sides, InStep, LossTold
  <2>12. ToldAhead'
    BY <1>2, <2>6, <2>10 DEF Sides, InStep, ToldAhead, Expecting
  <2>13. QED
    BY <1>2, <2>7, <2>9, <2>11, <2>12 DEF Sides, InStep
<1>7. QED
  BY <1>4, <1>5, <1>6 DEF HangingUp

-----------------------------------------------------------------------------
(* When the watch starts there is no screen and no station.                *)
LEMMA PerseInitIInv == PerseInit => PerseIInv
<1> SUFFICES ASSUME PerseInit PROVE PerseIInv
  OBVIOUS
<1>1. StaTypes
  <2>1. cached \in BOOLEAN /\ attempted \in BOOLEAN /\ scan \in BOOLEAN /\ crossed \in BOOLEAN
    BY DEF PerseInit, Idle
  <2>2. drv \in Seq(StaEvent) /\ connectTries \in 0..ConnectRetries + 1
    BY DEF PerseInit, Idle
  <2>3. wifi = "Disconnected" /\ link = "off"
    BY DEF PerseInit, Idle
  <2>4. QED
    BY <2>1, <2>2, <2>3 DEF StaTypes
<1>2. QueueTypes
  <2>1. listening \in BOOLEAN
    BY DEF PerseInit, Idle
  <2>2. drops \in 0..MaxDrops /\ pairq \in Seq(WifiEvent) /\ Len(pairq) =< PairQueue
    BY DEF PerseInit, Idle
  <2>3. QED
    BY <2>1, <2>2 DEF QueueTypes
<1>3. TcpTypes
  <2>1. /\ sock \in BOOLEAN /\ connected \in BOOLEAN /\ fdOpen \in BOOLEAN
        /\ unheard \in BOOLEAN /\ foreign \in BOOLEAN
    BY DEF PerseInit
  <2>2. /\ hangup \in [Thread -> {"no", "test", "close", "clear"}]
        /\ stale \in [Thread -> BOOLEAN]
    BY DEF PerseInit
  <2>3. evts \in 0..EvtQueue /\ peer = "none"
    BY DEF PerseInit
  <2>4. QED
    BY <2>1, <2>2, <2>3 DEF TcpTypes
<1>4. LoopTypes
  <2>1. paired \in BOOLEAN /\ held \in BOOLEAN /\ stopping \in BOOLEAN
    BY DEF PerseInit
  <2>2. presses \in 0..MaxPresses /\ attempts \in 1..Attempts
    BY DEF PerseInit
  <2>3. upc = "closed" /\ ppc = "gone" /\ pstate = "none" /\ cpc = "test"
    BY DEF PerseInit
  <2>4. QED
    BY <2>1, <2>2, <2>3 DEF LoopTypes
<1>5. TriesLeft /\ ReportsFit
  BY DEF PerseInit, Idle, TriesLeft, ReportsFit, Fits, AtRest, Waits
<1>6. Places /\ Sockets
  BY DEF PerseInit, Places, Sockets
<1>7. ~Believed
  BY DEF PerseInit, Believed
<1>8. LossTold /\ ToldAhead
  BY <1>7 DEF PerseInit, LossTold, ToldAhead
<1>9. QED
  BY <1>1, <1>2, <1>3, <1>4, <1>5, <1>6, <1>8, TypesAre DEF PerseIInv

LEMMA SidesSame ==
  ASSUME Sides, UNCHANGED perseVars
  PROVE  Sides'
<1>1. UNCHANGED <<tcpVars, pairVars, uiVars, evtVars, cpc>>
  BY DEF perseVars
<1>2. Calm
  BY <1>1, StillCalm DEF Sides
<1>3. TcpTypes' /\ LoopTypes'
  BY <1>1, <1>2 DEF Sides, TcpTypes, LoopTypes, Calm, evtVars, uiVars, pairVars
<1>4. Places'
  BY <1>1 DEF Sides, Places, uiVars, pairVars
<1>5. Believed' = Believed /\ Expecting' = Expecting /\ News' = News
  BY <1>1, <1>2 DEF Believed, Expecting, Dropping, News, Calm, evtVars, uiVars, pairVars
<1>6. QED
  BY <1>2, <1>3, <1>4, <1>5, CalmKeeps DEF Sides

(* The invariant is inductive: station, queue, and the two sides.          *)
LEMMA PerseStep == PerseIInv /\ [PerseNext]_perseVars => PerseIInv'
<1> SUFFICES ASSUME PerseIInv, [PerseNext]_perseVars PROVE PerseIInv'
  OBVIOUS
<1>1. StaTypes /\ QueueTypes /\ Sides /\ TriesLeft /\ ReportsFit
  BY TypesAre DEF PerseIInv, Sides, InStep
<1>2. CASE PerseNext
  <2>1. StaTypes' /\ TriesLeft' /\ ReportsFit'
    BY <1>1, <1>2, StepMoves, StaMoveFits
  <2>2. QueueTypes'
    BY <1>1, <1>2, StepQueues
  <2>3. Sides'
    BY <1>1, <1>2, ScreenKeeps, PairKeeps, OthersKeep, HangingUpKeeps DEF PerseNext
  <2>4. PerseTypeOK'
    BY <2>1, <2>2, <2>3 DEF PerseTypeOK, StaTypeOK, StaTypes, QueueTypes, TcpTypes, LoopTypes, Sides
  <2>5. QED
    BY <2>1, <2>3, <2>4 DEF PerseIInv, Sides, InStep
<1>3. CASE UNCHANGED perseVars
  <2>1. StaTypes' /\ TriesLeft' /\ ReportsFit'
    <3>1. StaMove
      BY <1>3 DEF perseVars, staVars, StaMove, stationState, stationVars, driverVars
    <3>2. QED
      BY <1>1, <3>1, StaMoveFits
  <2>2. QueueTypes'
    BY <1>1, <1>3 DEF perseVars, staVars, QueueTypes
  <2>3. Sides'
    BY <1>1, <1>3, SidesSame
  <2>4. PerseTypeOK'
    BY <2>1, <2>2, <2>3 DEF PerseTypeOK, StaTypeOK, StaTypes, QueueTypes, TcpTypes, LoopTypes, Sides
  <2>5. QED
    BY <2>1, <2>3, <2>4 DEF PerseIInv, Sides, InStep
<1>4. QED
  BY <1>2, <1>3

(* Of the robot's screen, in every state: the inductive invariant.         *)
THEOREM PerseInvariant == PerseSpec => []PerseIInv
<1>1. QED
  BY PerseInitIInv, PerseStep, PTL DEF PerseSpec

(* With every report handled, what fits agrees.                            *)
LEMMA FitsAgrees ==
  ASSUME ReportsFit
  PROVE  StationAgrees
<1>1. SUFFICES ASSUME drv = <<>>, Fits
               PROVE  /\ wifi = "Connected" <=> link = "up"
                      /\ wifi = "Connecting" <=> link = "joining"
                      /\ wifi \in {"Scanning", "ConnAbort"} => scan
  BY DEF StationAgrees, ReportsFit
<1>2. AtRest \/ Scans \/ Joins \/ IsUp
  BY <1>1, ShortQueues DEF Fits, AtRest, Scans, Scanned, Joins, HasJoined, JoinFailed, IsUp, IsCut, GivenUp, Waits
<1>3. QED
  BY <1>2 DEF AtRest, Scans, Joins, IsUp, Waits

(* In every state the station agrees with its driver and the screen with  *)
(* its client.                                                            *)
THEOREM RobotShown == PerseSpec => []PerseInv
<1>1. PerseIInv => PerseInv
  <2>1. SUFFICES ASSUME PerseIInv PROVE PerseInv
    OBVIOUS
  <2>2. StationAgrees
    BY <2>1, FitsAgrees DEF PerseIInv
  <2>3. ViewAgrees
    BY <2>1 DEF PerseIInv, LossTold, Believed, News, ViewAgrees
  <2>4. QED
    BY <2>1, <2>2, <2>3 DEF PerseIInv, PerseInv
<1>2. QED
  BY <1>1, PerseInvariant, PTL
================================================================================
