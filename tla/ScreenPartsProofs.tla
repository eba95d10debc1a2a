------------------------- MODULE ScreenPartsProofs -------------------------
(***************************************************************************)
(* Proofs about what LVGL's thread runs: the status screens and the        *)
(* network test, the game, the settings, the dice, and the lock and the    *)
(* call screen in front of the phone's store.  Each part has an inductive  *)
(* invariant of its own, kept by its own steps; the steps of the other     *)
(* parts leave its variables alone, so side by side all of them hold.      *)
(***************************************************************************)
EXTENDS ScreenParts, FiniteSetTheorems, SequenceTheorems, WellFoundedInduction, TLAPS

(* The elements of a queue: none of the empty one,                         *)
LEMMA ToSetEmpty == ToSet(<<>>) = {}
  BY DEF ToSet

(* one more when one is appended,                                          *)
LEMMA ToSetAppend ==
  ASSUME NEW S, NEW s \in Seq(S), NEW e \in S
  PROVE  Append(s, e) \in Seq(S) /\ Len(Append(s, e)) = Len(s) + 1 /\ ToSet(Append(s, e)) = ToSet(s) \cup {e}
<1>1. Append(s, e) \in Seq(S) /\ Len(Append(s, e)) = Len(s) + 1
  OBVIOUS
<1>2. ASSUME NEW x PROVE x \in ToSet(Append(s, e)) <=> x \in ToSet(s) \cup {e}
  <2>1. ASSUME x \in ToSet(Append(s, e)) PROVE x \in ToSet(s) \cup {e}
    <3>1. PICK i \in 1 .. Len(s) + 1 : Append(s, e)[i] = x
      BY <1>1, <2>1 DEF ToSet
    <3> QED BY <3>1 DEF ToSet
  <2>2. ASSUME x \in ToSet(s) \cup {e} PROVE x \in ToSet(Append(s, e))
    <3>1. CASE x = e
      <4>1. Append(s, e)[Len(s) + 1] = x /\ Len(s) + 1 \in DOMAIN Append(s, e)
        BY <3>1, <1>1
      <4> QED BY <4>1 DEF ToSet
    <3>2. CASE x \in ToSet(s)
      <4>1. PICK i \in 1 .. Len(s) : s[i] = x
        BY <3>2 DEF ToSet
      <4>2. Append(s, e)[i] = x /\ i \in DOMAIN Append(s, e)
        BY <4>1, <1>1
      <4> QED BY <4>2 DEF ToSet
    <3> QED BY <2>2, <3>1, <3>2
  <2> QED BY <2>1, <2>2
<1> QED BY <1>1, <1>2

(* and the head's gone, or still there, when the head is taken.            *)
LEMMA ToSetTail ==
  ASSUME NEW S, NEW s \in Seq(S), s # <<>>
  PROVE  /\ Head(s) \in S /\ Tail(s) \in Seq(S) /\ Len(Tail(s)) = Len(s) - 1 /\ Len(s) \in Nat \ {0}
         /\ ToSet(s) = {Head(s)} \cup ToSet(Tail(s))
<1>1. Head(s) \in S /\ Tail(s) \in Seq(S) /\ Len(Tail(s)) = Len(s) - 1 /\ Len(s) \in Nat \ {0}
  OBVIOUS
<1>2. \A i \in 1 .. Len(s) - 1 : Tail(s)[i] = s[i + 1]
  OBVIOUS
<1>3. ASSUME NEW x PROVE x \in ToSet(s) <=> x \in {Head(s)} \cup ToSet(Tail(s))
  <2>1. ASSUME x \in ToSet(s), x # Head(s) PROVE x \in ToSet(Tail(s))
    <3>1. PICK i \in 1 .. Len(s) : s[i] = x
      BY <2>1 DEF ToSet
    <3>2. i # 1 /\ i - 1 \in 1 .. Len(s) - 1
      BY <1>1, <2>1, <3>1
    <3>3. Tail(s)[i - 1] = x /\ i - 1 \in DOMAIN Tail(s)
      BY <1>1, <1>2, <3>1, <3>2
    <3> QED BY <3>3 DEF ToSet
  <2>2. ASSUME x \in ToSet(Tail(s)) PROVE x \in ToSet(s)
    <3>1. PICK i \in 1 .. Len(s) - 1 : Tail(s)[i] = x
      BY <1>1, <2>2 DEF ToSet
    <3>2. s[i + 1] = x /\ i + 1 \in DOMAIN s
      BY <1>1, <1>2, <3>1
    <3> QED BY <3>2 DEF ToSet
  <2>3. Head(s) \in ToSet(s)
    BY <1>1 DEF ToSet
  <2> QED BY <2>1, <2>2, <2>3
<1> QED BY <1>1, <1>3

-----------------------------------------------------------------------------
(* The status screens: where a screen is between its construction and its  *)
(* end, what it has still to be told, and what the worker of the network   *)
(* test still owes.                                                        *)
Told == {"updated", "other", "select", "up", "down", "alt"}

(* The types of what the three threads share.                              *)
ViewData ==
  /\ ViewTypeOK /\ latest \in Nat /\ svcPc \in {"idle", "post"}
  /\ screenQueue \in Seq(Told) /\ Len(screenQueue) <= ScreenQueue

(* The flags, and the history's.                                           *)
ViewFlags ==
  /\ listens \in BOOLEAN /\ autoSleep \in BOOLEAN /\ altLock \in BOOLEAN /\ dropped \in BOOLEAN /\ missed \in BOOLEAN
  /\ runRequested \in BOOLEAN /\ workerDone \in BOOLEAN

(* What is shown is the latest, or the screen is yet to be told, or was    *)
(* not heard: the first for the face and the second for the GPU page.      *)
Due == shown = latest \/ dropped \/ svcPc = "post" \/ "updated" \in ToSet(screenQueue)

Freshness ==
  /\ listens <=> lvPc \in {"take", "front"}
  /\ lvPc = "take" => front = "face" /\ autoSleep
  /\ lvPc # "front" => ~altLock
  /\ front = "face" /\ lvPc = "front" => Due
  /\ front = "gpu" /\ lvPc \in {"listen", "front"} => Due \/ missed

(* The worker owes the run it was asked for, and the one it is at.         *)
Owed == (IF wkPc \in {"begin", "run"} THEN 1 ELSE 0) + (IF runRequested THEN 1 ELSE 0)

(* No run but those asked for; and the worker runs only while its screen   *)
(* is there or about to be.                                                *)
Turns ==
  /\ runs \in Nat /\ runsAsked \in Nat /\ runs + Owed <= runsAsked
  /\ wkPc # "off" => front = "net" \/ lvPc = "new"

(* The invariant of the status screens: all of this, and that only a       *)
(* screen the watch may sleep on lets it sleep.                            *)
ViewIInv == ViewData /\ ViewFlags /\ Freshness /\ SleepsWhereItMay /\ Turns

LEMMA ViewInitIInv == ViewInit => ViewIInv
<1> SUFFICES ASSUME ViewInit PROVE ViewIInv
  OBVIOUS
<1>1. ViewTypeOK /\ latest \in Nat /\ svcPc \in {"idle", "post"}
  BY DEF ViewInit, ViewTypeOK, Pages
<1>3. screenQueue \in Seq(Told) /\ Len(screenQueue) <= ScreenQueue
  BY ViewAssumption DEF ViewInit
<1>4. ViewFlags
  BY DEF ViewInit, ViewFlags
<1>2. Freshness /\ SleepsWhereItMay /\ Turns
  BY DEF ViewInit, Freshness, SleepsWhereItMay, Turns, Owed
<1> QED BY <1>1, <1>2, <1>3, <1>4 DEF ViewIInv, ViewData

(* A post reaches the screen's queue or is dropped.                        *)
LEMMA Posted ==
  ASSUME ViewData, ViewFlags, NEW what \in Told, Post(what)
  PROVE  /\ screenQueue' \in Seq(Told) /\ Len(screenQueue') <= ScreenQueue
         /\ ToSet(screenQueue) \subseteq ToSet(screenQueue') /\ ToSet(screenQueue') \subseteq ToSet(screenQueue) \cup {what}
         /\ dropped' \in BOOLEAN /\ (dropped => dropped')
         /\ what = "updated" /\ listens /\ front \in {"face", "gpu"} => dropped' \/ "updated" \in ToSet(screenQueue')
<1> USE ViewAssumption DEF ViewData
<1>1. CASE Hears(what) /\ Len(screenQueue) < ScreenQueue
  <2>1. screenQueue' = Append(screenQueue, what) /\ Len(screenQueue) # ScreenQueue
    BY <1>1 DEF Post
  <2>2. dropped' \in BOOLEAN /\ (dropped => dropped')
    BY DEF Post, ViewFlags
  <2> QED BY <2>1, <2>2, <1>1, ToSetAppend
<1>2. CASE ~(Hears(what) /\ Len(screenQueue) < ScreenQueue)
  <2>1. screenQueue' = screenQueue
    BY <1>2 DEF Post
  <2>2. dropped' \in BOOLEAN /\ (dropped => dropped')
    BY DEF Post, ViewFlags
  <2>3. what = "updated" /\ listens /\ front \in {"face", "gpu"} => dropped'
    <3>1. ASSUME what = "updated", listens, front \in {"face", "gpu"} PROVE dropped'
      <4>1. Hears(what)
        BY <3>1 DEF Hears
      <4>2. Len(screenQueue) \in Nat /\ Len(screenQueue) = ScreenQueue
        BY <4>1, <1>2
      <4> QED BY <3>1, <4>1, <4>2 DEF Post
    <3> QED BY <3>1
  <2> QED BY <2>1, <2>2, <2>3
<1> QED BY <1>1, <1>2

(* What a screen's loop does with the event at the head of its queue.      *)
LoopLeads == \E to \in Pages : Transition(to) /\ UNCHANGED <<runsAsked, dropped, missed>>

(* ... or takes it and stays, drawing what it has to draw.                 *)
LoopTakes ==
  /\ screenQueue' = Tail(screenQueue)
  /\ \/ Render /\ Head(screenQueue) \in Redraws(front)
     \/ UNCHANGED <<shown, dropped, missed>> /\ Head(screenQueue) \notin Redraws(front)
  /\ \/ runRequested' = TRUE /\ runsAsked' = runsAsked + 1
     \/ UNCHANGED <<runRequested, runsAsked>>
  /\ UNCHANGED <<front, lvPc, listens, autoSleep, altLock, wkPc>>

(* A turn of a screen's loop is one of the two.                            *)
LEMMA LoopsEither ==
  ASSUME ViewData, Loops
  PROVE  /\ lvPc = "front" /\ screenQueue # <<>> /\ (LoopLeads \/ LoopTakes)
         /\ UNCHANGED <<latest, svcPc, workerDone, runs, screenKeys>>
<1>1. ASSUME Head(screenQueue) \in DOMAIN Leads[front], Transition(Leads[front][Head(screenQueue)])
      PROVE  \E to \in Pages : Transition(to)
  <2>1. front \in Pages
    BY DEF ViewData, ViewTypeOK
  <2>2. Leads[front][Head(screenQueue)] \in Pages
    BY <1>1, <2>1 DEF Leads, Pages
  <2> QED BY <1>1, <2>2
<1> QED BY <1>1 DEF Loops, LoopLeads, LoopTakes

(* Each part of the invariant is kept by every step: the types,            *)
LEMMA ViewStepData == ViewIInv /\ [ViewNext]_viewVars => ViewData'
<1> SUFFICES ASSUME ViewIInv, [ViewNext]_viewVars PROVE ViewData'
  OBVIOUS
<1> USE ViewAssumption DEF ViewIInv, ViewData, ViewTypeOK, Pages, workerVars
<1>1. CASE Fetched /\ svcPc = "idle" /\ svcPc' = "post" /\ UNCHANGED <<screenQueue, dropped, missed>>
  BY <1>1 DEF Fetched
<1>2. CASE Fetched /\ svcPc = "post" /\ Post("updated")
  <2>1. "updated" \in Told
    BY DEF Told
  <2> QED BY <1>2, <2>1, Posted DEF Fetched
<1>3. CASE Fetched /\ svcPc = "idle" /\ Post("other")
  <2>1. "other" \in Told
    BY DEF Told
  <2> QED BY <1>3, <2>1, Posted DEF Fetched
<1>4. CASE Key
  <2>1. PICK key \in {"select", "up", "down", "alt"} : Post(key)
    BY <1>4 DEF Key
  <2>2. key \in Told /\ key \notin {"updated", "other"}
    BY DEF Told
  <2> QED BY <1>4, <2>1, <2>2, Posted DEF Key
<1>5. CASE Starts /\ lvPc = "new"
  BY <1>5, ToSetEmpty DEF Starts, WorkerEnds, Render
<1>6. CASE Starts /\ lvPc = "listen"
  BY <1>6 DEF Starts
<1>7. CASE Starts /\ lvPc = "take"
  BY <1>7, ToSetEmpty DEF Starts, Render
<1>8. CASE Loops /\ LoopLeads
  <2>1. PICK to \in Pages : Transition(to)
    BY <1>8 DEF LoopLeads
  <2>2. UNCHANGED <<latest, svcPc, workerDone, runs, screenKeys, runsAsked, dropped, missed>>
    BY <1>8, LoopsEither DEF LoopLeads
  <2>3. screenQueue' = <<>> /\ Len(screenQueue') = 0 /\ shown' = 0 /\ front' \in Pages /\ lvPc' = "new"
    BY <2>1 DEF Transition, StopScreen
  <2>4. wkPc' \in {"off", "poll", "begin", "run"}
    BY <2>1 DEF Transition, StopScreen
  <2> QED BY <2>2, <2>3, <2>4
<1>9. CASE Loops /\ LoopTakes
  <2>1. lvPc = "front" /\ screenQueue # <<>> /\ UNCHANGED <<latest, svcPc, workerDone, runs, screenKeys>>
    BY <1>9, LoopsEither
  <2>2. /\ Head(screenQueue) \in Told /\ Tail(screenQueue) \in Seq(Told)
        /\ Len(Tail(screenQueue)) = Len(screenQueue) - 1 /\ Len(screenQueue) \in Nat
        /\ ToSet(screenQueue) = {Head(screenQueue)} \cup ToSet(Tail(screenQueue))
    BY <2>1, ToSetTail
  <2> QED BY <1>9, <2>1, <2>2 DEF LoopTakes, Render, Redraws
<1>10. CASE SleepsAndWakes /\ lvPc = "front"
  BY <1>10 DEF SleepsAndWakes, StopScreen
<1>11. CASE SleepsAndWakes /\ lvPc = "asleep"
  BY <1>11, ToSetEmpty DEF SleepsAndWakes
<1>12. CASE Works
  BY <1>12 DEF Works, lvVars
<1>13. CASE UNCHANGED viewVars
  BY <1>13 DEF viewVars, lvVars, workerVars
<1>14. Loops => LoopLeads \/ LoopTakes
  BY LoopsEither
<1> QED BY <1>1, <1>2, <1>3, <1>4, <1>5, <1>6, <1>7, <1>8, <1>9, <1>10, <1>11, <1>12, <1>13, <1>14 DEF ViewNext, Fetched, Starts, SleepsAndWakes

(* the flags,                                                              *)
LEMMA ViewStepFlags == ViewIInv /\ [ViewNext]_viewVars => ViewFlags'
<1> SUFFICES ASSUME ViewIInv, [ViewNext]_viewVars PROVE ViewFlags'
  OBVIOUS
<1> USE ViewAssumption DEF ViewIInv, ViewFlags, ViewData, workerVars
<1>1. CASE Fetched /\ svcPc = "idle" /\ svcPc' = "post" /\ UNCHANGED <<screenQueue, dropped, missed>>
  BY <1>1 DEF Fetched
<1>2. CASE Fetched /\ svcPc = "post" /\ Post("updated")
  <2>1. "updated" \in Told
    BY DEF Told
  <2> QED BY <1>2, <2>1, Posted DEF Fetched
<1>3. CASE Fetched /\ svcPc = "idle" /\ Post("other")
  <2>1. "other" \in Told
    BY DEF Told
  <2> QED BY <1>3, <2>1, Posted DEF Fetched
<1>4. CASE Key
  <2>1. PICK key \in {"select", "up", "down", "alt"} : Post(key)
    BY <1>4 DEF Key
  <2>2. key \in Told /\ key \notin {"updated", "other"}
    BY DEF Told
  <2> QED BY <1>4, <2>1, <2>2, Posted DEF Key
<1>5. CASE Starts /\ lvPc = "new"
  BY <1>5, ToSetEmpty DEF Starts, WorkerEnds, Render
<1>6. CASE Starts /\ lvPc = "listen"
  BY <1>6 DEF Starts
<1>7. CASE Starts /\ lvPc = "take"
  BY <1>7, ToSetEmpty DEF Starts, Render
<1>8. CASE Loops /\ LoopLeads
  <2>1. PICK to \in Pages : Transition(to)
    BY <1>8 DEF LoopLeads
  <2>2. UNCHANGED <<latest, svcPc, workerDone, runs, screenKeys, runsAsked, dropped, missed>>
    BY <1>8, LoopsEither DEF LoopLeads
  <2> QED BY <2>1, <2>2, ToSetEmpty DEF Transition, StopScreen
<1>9. CASE Loops /\ LoopTakes
  <2>1. lvPc = "front" /\ screenQueue # <<>> /\ UNCHANGED <<latest, svcPc, workerDone, runs, screenKeys>>
    BY <1>9, LoopsEither
  <2>2. /\ Head(screenQueue) \in Told /\ Tail(screenQueue) \in Seq(Told)
        /\ Len(Tail(screenQueue)) = Len(screenQueue) - 1 /\ Len(screenQueue) \in Nat
        /\ ToSet(screenQueue) = {Head(screenQueue)} \cup ToSet(Tail(screenQueue))
    BY <2>1, ToSetTail
  <2> QED BY <1>9, <2>1, <2>2 DEF LoopTakes, Render, Redraws
<1>10. CASE SleepsAndWakes /\ lvPc = "front"
  BY <1>10 DEF SleepsAndWakes, StopScreen
<1>11. CASE SleepsAndWakes /\ lvPc = "asleep"
  BY <1>11, ToSetEmpty DEF SleepsAndWakes
<1>12. CASE Works
  BY <1>12 DEF Works, lvVars
<1>13. CASE UNCHANGED viewVars
  BY <1>13 DEF viewVars, lvVars, workerVars
<1>14. Loops => LoopLeads \/ LoopTakes
  BY LoopsEither
<1> QED BY <1>1, <1>2, <1>3, <1>4, <1>5, <1>6, <1>7, <1>8, <1>9, <1>10, <1>11, <1>12, <1>13, <1>14 DEF ViewNext, Fetched, Starts, SleepsAndWakes

(* what is shown against what is still to be told,                         *)
LEMMA ViewStepFresh == ViewIInv /\ [ViewNext]_viewVars => Freshness'
<1> SUFFICES ASSUME ViewIInv, [ViewNext]_viewVars PROVE Freshness'
  OBVIOUS
<1> USE ViewAssumption DEF ViewIInv, ViewData, ViewTypeOK, ViewFlags, Freshness, Due, workerVars
<1>1. CASE Fetched /\ svcPc = "idle" /\ svcPc' = "post" /\ UNCHANGED <<screenQueue, dropped, missed>>
  BY <1>1 DEF Fetched
<1>2. CASE Fetched /\ svcPc = "post" /\ Post("updated")
  <2>1. "updated" \in Told
    BY DEF Told
  <2> QED BY <1>2, <2>1, Posted DEF Fetched
<1>3. CASE Fetched /\ svcPc = "idle" /\ Post("other")
  <2>1. "other" \in Told
    BY DEF Told
  <2> QED BY <1>3, <2>1, Posted DEF Fetched
<1>4. CASE Key
  <2>1. PICK key \in {"select", "up", "down", "alt"} : Post(key)
    BY <1>4 DEF Key
  <2>2. key \in Told /\ key \notin {"updated", "other"}
    BY DEF Told
  <2> QED BY <1>4, <2>1, <2>2, Posted DEF Key
<1>5. CASE Starts /\ lvPc = "new"
  BY <1>5, ToSetEmpty DEF Starts, WorkerEnds, Render
<1>6. CASE Starts /\ lvPc = "listen"
  <2> USE <1>6 DEF Starts
  <2>1. UNCHANGED <<front, screenQueue, latest, svcPc, shown, altLock, dropped, missed>> /\ listens' = TRUE /\ ~altLock
    OBVIOUS
  <2>2. lvPc' = (IF front = "face" THEN "take" ELSE "front") /\ autoSleep' = (front \notin {"gpu", "net"})
    OBVIOUS
  <2>3. CASE front = "face"
    <3>1. lvPc' = "take" /\ front' = "face" /\ autoSleep'
      BY <2>1, <2>2, <2>3
    <3> QED BY <2>1, <3>1
  <2>4. CASE front # "face"
    <3>1. lvPc' = "front" /\ front' = front
      BY <2>1, <2>2, <2>4
    <3> QED BY <2>1, <2>4, <3>1
  <2> QED BY <2>3, <2>4
<1>7. CASE Starts /\ lvPc = "take"
  BY <1>7, ToSetEmpty DEF Starts, Render
<1>8. CASE Loops /\ LoopLeads
  <2>1. PICK to \in Pages : Transition(to)
    BY <1>8 DEF LoopLeads
  <2>2. UNCHANGED <<latest, svcPc, workerDone, runs, screenKeys, runsAsked, dropped, missed>>
    BY <1>8, LoopsEither DEF LoopLeads
  <2> QED BY <2>1, <2>2, ToSetEmpty DEF Transition, StopScreen
<1>9. CASE Loops /\ LoopTakes
  <2>1. lvPc = "front" /\ screenQueue # <<>> /\ UNCHANGED <<latest, svcPc, workerDone, runs, screenKeys>>
    BY <1>9, LoopsEither
  <2>2. /\ Head(screenQueue) \in Told /\ Tail(screenQueue) \in Seq(Told)
        /\ Len(Tail(screenQueue)) = Len(screenQueue) - 1 /\ Len(screenQueue) \in Nat
        /\ ToSet(screenQueue) = {Head(screenQueue)} \cup ToSet(Tail(screenQueue))
    BY <2>1, ToSetTail
  <2> QED BY <1>9, <2>1, <2>2 DEF LoopTakes, Render, Redraws
<1>10. CASE SleepsAndWakes /\ lvPc = "front"
  BY <1>10 DEF SleepsAndWakes, StopScreen
<1>11. CASE SleepsAndWakes /\ lvPc = "asleep"
  BY <1>11, ToSetEmpty DEF SleepsAndWakes
<1>12. CASE Works
  BY <1>12 DEF Works, lvVars
<1>13. CASE UNCHANGED viewVars
  BY <1>13 DEF viewVars, lvVars, workerVars
<1>14. Loops => LoopLeads \/ LoopTakes
  BY LoopsEither
<1> QED BY <1>1, <1>2, <1>3, <1>4, <1>5, <1>6, <1>7, <1>8, <1>9, <1>10, <1>11, <1>12, <1>13, <1>14 DEF ViewNext, Fetched, Starts, SleepsAndWakes

(* the screens that may sleep,                                             *)
LEMMA ViewStepSleeps == ViewIInv /\ [ViewNext]_viewVars => SleepsWhereItMay'
<1> SUFFICES ASSUME ViewIInv, [ViewNext]_viewVars PROVE SleepsWhereItMay'
  OBVIOUS
<1> USE ViewAssumption DEF ViewIInv, Freshness, SleepsWhereItMay, ViewData, ViewTypeOK, Pages, ViewFlags, workerVars
<1>1. CASE Fetched /\ svcPc = "idle" /\ svcPc' = "post" /\ UNCHANGED <<screenQueue, dropped, missed>>
  BY <1>1 DEF Fetched
<1>2. CASE Fetched /\ svcPc = "post" /\ Post("updated")
  <2>1. "updated" \in Told
    BY DEF Told
  <2> QED BY <1>2, <2>1, Posted DEF Fetched
<1>3. CASE Fetched /\ svcPc = "idle" /\ Post("other")
  <2>1. "other" \in Told
    BY DEF Told
  <2> QED BY <1>3, <2>1, Posted DEF Fetched
<1>4. CASE Key
  <2>1. PICK key \in {"select", "up", "down", "alt"} : Post(key)
    BY <1>4 DEF Key
  <2>2. key \in Told /\ key \notin {"updated", "other"}
    BY DEF Told
  <2> QED BY <1>4, <2>1, <2>2, Posted DEF Key
<1>5. CASE Starts /\ lvPc = "new"
  BY <1>5, ToSetEmpty DEF Starts, WorkerEnds, Render
<1>6. CASE Starts /\ lvPc = "listen"
  BY <1>6 DEF Starts
<1>7. CASE Starts /\ lvPc = "take"
  BY <1>7, ToSetEmpty DEF Starts, Render
<1>8. CASE Loops /\ LoopLeads
  <2>1. PICK to \in Pages : Transition(to)
    BY <1>8 DEF LoopLeads
  <2>2. UNCHANGED <<latest, svcPc, workerDone, runs, screenKeys, runsAsked, dropped, missed>>
    BY <1>8, LoopsEither DEF LoopLeads
  <2> QED BY <2>1, <2>2, ToSetEmpty DEF Transition, StopScreen
<1>9. CASE Loops /\ LoopTakes
  <2>1. lvPc = "front" /\ screenQueue # <<>> /\ UNCHANGED <<latest, svcPc, workerDone, runs, screenKeys>>
    BY <1>9, LoopsEither
  <2>2. /\ Head(screenQueue) \in Told /\ Tail(screenQueue) \in Seq(Told)
        /\ Len(Tail(screenQueue)) = Len(screenQueue) - 1 /\ Len(screenQueue) \in Nat
        /\ ToSet(screenQueue) = {Head(screenQueue)} \cup ToSet(Tail(screenQueue))
    BY <2>1, ToSetTail
  <2> QED BY <1>9, <2>1, <2>2 DEF LoopTakes, Render, Redraws
<1>10. CASE SleepsAndWakes /\ lvPc = "front"
  BY <1>10 DEF SleepsAndWakes, StopScreen
<1>11. CASE SleepsAndWakes /\ lvPc = "asleep"
  BY <1>11, ToSetEmpty DEF SleepsAndWakes
<1>12. CASE Works
  BY <1>12 DEF Works, lvVars
<1>13. CASE UNCHANGED viewVars
  BY <1>13 DEF viewVars, lvVars, workerVars
<1>14. Loops => LoopLeads \/ LoopTakes
  BY LoopsEither
<1> QED BY <1>1, <1>2, <1>3, <1>4, <1>5, <1>6, <1>7, <1>8, <1>9, <1>10, <1>11, <1>12, <1>13, <1>14 DEF ViewNext, Fetched, Starts, SleepsAndWakes

(* and the runs against the runs asked for.                                *)
LEMMA ViewStepTurns == ViewIInv /\ [ViewNext]_viewVars => Turns'
<1> SUFFICES ASSUME ViewIInv, [ViewNext]_viewVars PROVE Turns'
  OBVIOUS
<1> USE ViewAssumption DEF ViewIInv, Turns, Owed, ViewData, ViewTypeOK, ViewFlags, workerVars
<1>1. CASE Fetched /\ svcPc = "idle" /\ svcPc' = "post" /\ UNCHANGED <<screenQueue, dropped, missed>>
  BY <1>1 DEF Fetched
<1>2. CASE Fetched /\ svcPc = "post" /\ Post("updated")
  <2>1. "updated" \in Told
    BY DEF Told
  <2> QED BY <1>2, <2>1, Posted DEF Fetched
<1>3. CASE Fetched /\ svcPc = "idle" /\ Post("other")
  <2>1. "other" \in Told
    BY DEF Told
  <2> QED BY <1>3, <2>1, Posted DEF Fetched
<1>4. CASE Key
  <2>1. PICK key \in {"select", "up", "down", "alt"} : Post(key)
    BY <1>4 DEF Key
  <2>2. key \in Told /\ key \notin {"updated", "other"}
    BY DEF Told
  <2> QED BY <1>4, <2>1, <2>2, Posted DEF Key
<1>5. CASE Starts /\ lvPc = "new"
  BY <1>5, ToSetEmpty DEF Starts, WorkerEnds, Render
<1>6. CASE Starts /\ lvPc = "listen"
  BY <1>6 DEF Starts
<1>7. CASE Starts /\ lvPc = "take"
  BY <1>7, ToSetEmpty DEF Starts, Render
<1>8. CASE Loops /\ LoopLeads
  <2>1. PICK to \in Pages : Transition(to)
    BY <1>8 DEF LoopLeads
  <2>2. UNCHANGED <<latest, svcPc, workerDone, runs, screenKeys, runsAsked, dropped, missed>>
    BY <1>8, LoopsEither DEF LoopLeads
  <2>3. runRequested' = FALSE /\ lvPc' = "new" /\ wkPc' = (IF wkPc = "poll" THEN "off" ELSE wkPc)
    BY <2>1 DEF Transition, StopScreen
  <2>4. (wkPc' \in {"begin", "run"}) <=> (wkPc \in {"begin", "run"})
    BY <2>3
  <2> QED BY <2>2, <2>3, <2>4
<1>9. CASE Loops /\ LoopTakes
  <2>1. lvPc = "front" /\ screenQueue # <<>> /\ UNCHANGED <<latest, svcPc, workerDone, runs, screenKeys>>
    BY <1>9, LoopsEither
  <2>2. /\ Head(screenQueue) \in Told /\ Tail(screenQueue) \in Seq(Told)
        /\ Len(Tail(screenQueue)) = Len(screenQueue) - 1 /\ Len(screenQueue) \in Nat
        /\ ToSet(screenQueue) = {Head(screenQueue)} \cup ToSet(Tail(screenQueue))
    BY <2>1, ToSetTail
  <2> QED BY <1>9, <2>1, <2>2 DEF LoopTakes, Render, Redraws
<1>10. CASE SleepsAndWakes /\ lvPc = "front"
  BY <1>10 DEF SleepsAndWakes, StopScreen
<1>11. CASE SleepsAndWakes /\ lvPc = "asleep"
  BY <1>11, ToSetEmpty DEF SleepsAndWakes
<1>12. CASE Works
  BY <1>12 DEF Works, lvVars
<1>13. CASE UNCHANGED viewVars
  BY <1>13 DEF viewVars, lvVars, workerVars
<1>14. Loops => LoopLeads \/ LoopTakes
  BY LoopsEither
<1> QED BY <1>1, <1>2, <1>3, <1>4, <1>5, <1>6, <1>7, <1>8, <1>9, <1>10, <1>11, <1>12, <1>13, <1>14 DEF ViewNext, Fetched, Starts, SleepsAndWakes

LEMMA ViewStepIInv == ViewIInv /\ [ViewNext]_viewVars => ViewIInv'
BY ViewStepData, ViewStepFlags, ViewStepFresh, ViewStepSleeps, ViewStepTurns DEF ViewIInv

(* It says what the run checks.                                            *)
LEMMA ViewInvFollows == ViewIInv => ViewInv
<1> SUFFICES ASSUME ViewIInv PROVE ViewInv
  OBVIOUS
<1>1. ViewTypeOK /\ SleepsWhereItMay
  BY DEF ViewIInv, ViewData
<1>2. ShowsLatest
  BY DEF ViewIInv, ViewFlags, Freshness, Due, ShowsLatest
<1>3. TestsAsAsked
  BY DEF ViewIInv, Turns, Owed, TestsAsAsked
<1> QED BY <1>1, <1>2, <1>3 DEF ViewInv

-----------------------------------------------------------------------------
(* The game: what the buttons' events on their two ways have still to say. *)
PadEvents == [btn : Buttons, press : BOOLEAN]

LanderTypes ==
  /\ LanderTypeOK /\ gameEvts \in Seq(PadEvents) /\ padEvts \in Seq(PadEvents)
  /\ lastKey \in Buttons /\ edge \in Buttons /\ reached \in [Buttons -> {"queued", "applied", "lost"}]

(* The flags of the game and of its popups.                                *)
LanderFlags ==
  /\ action \in BOOLEAN /\ encoder \in BOOLEAN /\ fire \in BOOLEAN /\ angleDir \in BOOLEAN /\ noFuel \in BOOLEAN
  /\ gameOver \in BOOLEAN /\ paused \in BOOLEAN /\ exitFlag \in BOOLEAN
  /\ releaseWait \in BOOLEAN /\ unseen \in BOOLEAN /\ anew \in BOOLEAN

(* A button with an event in the game's queue is not as the game believes, *)
(* and the last of its events says how it is, if none was lost.            *)
LastTells ==
  \A i \in 1 .. Len(gameEvts) :
    LET b == gameEvts[i].btn IN
    /\ reached[b] # "applied"
    /\ reached[b] = "queued" /\ (\A j \in i + 1 .. Len(gameEvts) : gameEvts[j].btn # b)
         => (gameEvts[i].press <=> b \in down)

Steered ==
  /\ fire => "select" \in down \/ reached["select"] # "applied"
  /\ angleDir => "turn" \in down \/ reached["turn"] # "applied"

(* A popup that was shown while the game knew of the hand, and Select not  *)
(* pressed since: the encoder is not down by Select, nor will it be, but   *)
(* for the hand the popup waits to be let go.                              *)
HandKnown ==
  modal # "none" /\ ~anew /\ ~unseen =>
    /\ ~PressBehind
    /\ ~releaseWait => ~(lastKey = "select" /\ action) /\ (encoder => edge # "select")

(* Asked to leave, the game's loop does not turn to the encoder again.     *)
LeavesAtOnce == exitFlag => turn # "encoder"

(* The invariant of the game.                                              *)
LanderIInv ==
  /\ LanderTypes /\ LanderFlags /\ LastTells /\ Steered /\ HandKnown /\ LeavesAtOnce
  /\ StandsForPopup /\ AnsweredAnew

LEMMA LanderInitIInv == LanderInit => LanderIInv
<1> SUFFICES ASSUME LanderInit PROVE LanderIInv
  OBVIOUS
<1>1. LanderTypes
  <2>1. LanderTypeOK /\ lastKey \in Buttons /\ edge \in Buttons
    BY DEF LanderInit, LanderTypeOK, Buttons
  <2>2. gameEvts \in Seq(PadEvents) /\ padEvts \in Seq(PadEvents)
    BY DEF LanderInit
  <2>3. reached \in [Buttons -> {"queued", "applied", "lost"}]
    BY DEF LanderInit
  <2> QED BY <2>1, <2>2, <2>3 DEF LanderTypes
<1>2. LanderFlags
  BY DEF LanderInit, LanderFlags
<1>3. LastTells /\ Steered
  BY DEF LanderInit, LastTells, Steered
<1>4. HandKnown /\ LeavesAtOnce /\ StandsForPopup /\ AnsweredAnew
  BY DEF LanderInit, HandKnown, LeavesAtOnce, StandsForPopup, AnsweredAnew
<1> QED BY <1>1, <1>2, <1>3, <1>4 DEF LanderIInv

(* A popup is shown with the hand known of, or as unseen.                  *)
LEMMA PopupKnows ==
  ASSUME LanderTypes, LanderFlags, NEW which, NEW wait \in BOOLEAN, Popup(which, wait),
         UNCHANGED <<padEvts, lastKey, action, encoder, edge>>
  PROVE  HandKnown'
<1>1. PressBehind' <=> PressBehind
  BY DEF PressBehind
<1>2. CASE wait
  BY <1>1, <1>2 DEF Popup, HandKnown
<1>3. CASE ~wait
  <2>1. PressBehind => SelectAbout
    BY DEF PressBehind, SelectAbout
  <2> QED BY <1>1, <1>3, <2>1 DEF Popup, HandKnown, SelectAbout
<1> QED BY <1>2, <1>3

(* What the game's queue and its history say after a push ...              *)
LEMMA PushTells ==
  ASSUME LanderTypes, LastTells, NEW b \in Buttons, Push(b)
  PROVE  /\ LastTells' /\ gameEvts' \in Seq(PadEvents) /\ reached' \in [Buttons -> {"queued", "applied", "lost"}]
         /\ reached'[b] # "applied" /\ \A c \in Buttons \ {b} : reached'[c] = reached[c] /\ (c \in down' <=> c \in down)
<1> DEFINE e == [btn |-> b, press |-> b \notin down]
<1>1. e \in PadEvents /\ e.btn = b /\ (e.press <=> b \notin down)
  BY DEF PadEvents
<1>2. reached' = [reached EXCEPT ![b] = IF Len(gameEvts) < GameQueue THEN "queued" ELSE "lost"]
  BY DEF Push
<1>3. /\ reached' \in [Buttons -> {"queued", "applied", "lost"}] /\ \A c \in Buttons \ {b} : reached'[c] = reached[c]
      /\ reached'[b] = (IF Len(gameEvts) < GameQueue THEN "queued" ELSE "lost")
  BY <1>2 DEF LanderTypes
<1>4. (\A c \in Buttons \ {b} : c \in down' <=> c \in down) /\ (b \in down' <=> b \notin down)
  <2>1. CASE b \in down
    BY <2>1 DEF Push
  <2>2. CASE b \notin down
    BY <2>2 DEF Push
  <2> QED BY <2>1, <2>2
<1>5. \A i \in 1 .. Len(gameEvts) : gameEvts[i] \in PadEvents /\ gameEvts[i].btn \in Buttons
  <2>1. \A i \in 1 .. Len(gameEvts) : gameEvts[i] \in PadEvents
    BY DEF LanderTypes
  <2> QED BY <2>1 DEF PadEvents
<1>6. CASE Len(gameEvts) < GameQueue
  <2>1. gameEvts' = Append(gameEvts, e)
    BY <1>6 DEF Push
  <2> HIDE DEF e
  <2>2. /\ gameEvts' \in Seq(PadEvents) /\ Len(gameEvts') = Len(gameEvts) + 1 /\ Len(gameEvts) \in Nat
        /\ gameEvts'[Len(gameEvts) + 1] = e /\ \A i \in 1 .. Len(gameEvts) : gameEvts'[i] = gameEvts[i]
    BY <1>1, <2>1 DEF LanderTypes
  <2>3. ASSUME NEW i \in 1 .. Len(gameEvts')
        PROVE  /\ reached'[gameEvts'[i].btn] # "applied"
               /\ reached'[gameEvts'[i].btn] = "queued" /\ (\A j \in i + 1 .. Len(gameEvts') : gameEvts'[j].btn # gameEvts'[i].btn)
                    => (gameEvts'[i].press <=> gameEvts'[i].btn \in down')
    <3>1. CASE i = Len(gameEvts) + 1
      BY <3>1, <2>2, <1>1, <1>3, <1>4, <1>6
    <3>2. CASE i \in 1 .. Len(gameEvts) /\ gameEvts[i].btn = b
      <4>1. Len(gameEvts) + 1 \in i + 1 .. Len(gameEvts')
        BY <3>2, <2>2
      <4> QED BY <3>2, <4>1, <2>2, <1>1, <1>3, <1>6
    <3>3. CASE i \in 1 .. Len(gameEvts) /\ gameEvts[i].btn # b
      <4>1. gameEvts'[i] = gameEvts[i] /\ gameEvts[i].btn \in Buttons \ {b}
        BY <3>3, <2>2, <1>5
      <4>2. \A j \in i + 1 .. Len(gameEvts) : j \in i + 1 .. Len(gameEvts') /\ gameEvts'[j] = gameEvts[j]
        BY <3>3, <2>2
      <4> QED BY <3>3, <4>1, <4>2, <1>3, <1>4 DEF LastTells
    <3> QED BY <2>2, <3>1, <3>2, <3>3
  <2>4. LastTells'
    BY <2>3 DEF LastTells
  <2> QED BY <1>3, <1>4, <1>6, <2>2, <2>4
<1>7. CASE ~(Len(gameEvts) < GameQueue)
  <2>1. gameEvts' = gameEvts /\ reached'[b] = "lost"
    BY <1>3, <1>7 DEF Push
  <2>2. ASSUME NEW i \in 1 .. Len(gameEvts')
        PROVE  /\ reached'[gameEvts'[i].btn] # "applied"
               /\ reached'[gameEvts'[i].btn] = "queued" /\ (\A j \in i + 1 .. Len(gameEvts') : gameEvts'[j].btn # gameEvts'[i].btn)
                    => (gameEvts'[i].press <=> gameEvts'[i].btn \in down')
    <3>1. CASE gameEvts[i].btn = b
      BY <3>1, <2>1
    <3>2. CASE gameEvts[i].btn # b
      <4>1. gameEvts[i].btn \in Buttons \ {b}
        BY <3>2, <2>1, <1>5
      <4> QED BY <4>1, <2>1, <1>3, <1>4 DEF LastTells
    <3> QED BY <3>1, <3>2
  <2>3. LastTells'
    BY <2>2 DEF LastTells
  <2> QED BY <1>3, <1>4, <2>1, <2>3 DEF LanderTypes
<1> QED BY <1>6, <1>7

(* ... and after the event at its head was heeded or dropped.              *)
LEMMA HeadTells ==
  ASSUME LanderTypes, LastTells, gameEvts # <<>>, gameEvts' = Tail(gameEvts), UNCHANGED down,
         NEW how \in {"applied", "lost"}, Reaches(Head(gameEvts), how)
  PROVE  /\ LastTells' /\ gameEvts' \in Seq(PadEvents) /\ reached' \in [Buttons -> {"queued", "applied", "lost"}]
         /\ Head(gameEvts) \in PadEvents /\ Head(gameEvts).btn \in Buttons /\ Head(gameEvts).press \in BOOLEAN
         /\ \A c \in Buttons \ {Head(gameEvts).btn} : reached'[c] = reached[c]
         /\ reached'[Head(gameEvts).btn] = "applied" => how = "applied" /\ (Head(gameEvts).press <=> Head(gameEvts).btn \in down)
<1> DEFINE e == Head(gameEvts)
           b == e.btn
<1>1. /\ e \in PadEvents /\ Tail(gameEvts) \in Seq(PadEvents) /\ Len(Tail(gameEvts)) = Len(gameEvts) - 1
      /\ Len(gameEvts) \in Nat \ {0} /\ gameEvts[1] = e
  BY ToSetTail DEF LanderTypes
<1>2. b \in Buttons /\ e.press \in BOOLEAN
  BY <1>1 DEF PadEvents
<1>3. \A i \in 1 .. Len(gameEvts) - 1 : gameEvts'[i] = gameEvts[i + 1] /\ gameEvts'[i] \in ToSet(Tail(gameEvts))
  <2>1. \A i \in 1 .. Len(gameEvts) - 1 : Tail(gameEvts)[i] = gameEvts[i + 1]
    BY <1>1 DEF LanderTypes
  <2>2. DOMAIN Tail(gameEvts) = 1 .. Len(gameEvts) - 1
    BY <1>1
  <2> QED BY <2>1, <2>2 DEF ToSet
<1>4. reached[b] # "applied" /\ 1 \in 1 .. Len(gameEvts)
  BY <1>1 DEF LastTells
<1>5. \A x \in ToSet(Tail(gameEvts)) : \E j \in 2 .. Len(gameEvts) : gameEvts[j] = x
  <2>1. ASSUME NEW x \in ToSet(Tail(gameEvts)) PROVE \E j \in 2 .. Len(gameEvts) : gameEvts[j] = x
    <3>1. PICK i \in 1 .. Len(gameEvts) - 1 : Tail(gameEvts)[i] = x
      BY <1>1 DEF ToSet
    <3>2. gameEvts[i + 1] = x /\ i + 1 \in 2 .. Len(gameEvts)
      BY <1>1, <1>3, <3>1
    <3> QED BY <3>2
  <2> QED BY <2>1
<1>6. CASE reached[b] = "queued" /\ \A f \in ToSet(Tail(gameEvts)) : f.btn # b
  <2>1. reached' = [reached EXCEPT ![b] = how]
    BY <1>6 DEF Reaches
  <2>2. /\ reached' \in [Buttons -> {"queued", "applied", "lost"}] /\ reached'[b] = how
        /\ \A c \in Buttons \ {b} : reached'[c] = reached[c]
    BY <1>2, <2>1 DEF LanderTypes
  <2>3. e.press <=> b \in down
    <3>1. \A j \in 1 + 1 .. Len(gameEvts) : gameEvts[j].btn # b
      <4>1. ASSUME NEW j \in 2 .. Len(gameEvts) PROVE gameEvts[j].btn # b
        <5>1. j - 1 \in 1 .. Len(gameEvts) - 1 /\ (j - 1) + 1 = j
          BY <1>1
        <5> QED BY <5>1, <1>3, <1>6
      <4> QED BY <4>1
    <3> QED BY <3>1, <1>1, <1>4, <1>6 DEF LastTells
  <2>4. ASSUME NEW i \in 1 .. Len(gameEvts')
        PROVE  /\ reached'[gameEvts'[i].btn] # "applied"
               /\ reached'[gameEvts'[i].btn] = "queued" /\ (\A j \in i + 1 .. Len(gameEvts') : gameEvts'[j].btn # gameEvts'[i].btn)
                    => (gameEvts'[i].press <=> gameEvts'[i].btn \in down')
    <3>1. i \in 1 .. Len(gameEvts) - 1 /\ i + 1 \in 1 .. Len(gameEvts) /\ gameEvts'[i] = gameEvts[i + 1]
      BY <1>1, <1>3
    <3>2. gameEvts[i + 1].btn \in Buttons \ {b}
      <4>1. gameEvts[i + 1] \in PadEvents
        BY <3>1 DEF LanderTypes
      <4> QED BY <4>1, <3>1, <1>3, <1>6 DEF PadEvents
    <3>3. (\A j \in i + 1 .. Len(gameEvts') : gameEvts'[j].btn # gameEvts'[i].btn)
             => \A j \in (i + 1) + 1 .. Len(gameEvts) : gameEvts[j].btn # gameEvts[i + 1].btn
      <4>1. ASSUME NEW j \in (i + 1) + 1 .. Len(gameEvts)
            PROVE  j - 1 \in i + 1 .. Len(gameEvts') /\ gameEvts'[j - 1] = gameEvts[j]
        BY <1>1, <1>3, <3>1
      <4> QED BY <4>1, <3>1
    <3> QED BY <3>1, <3>2, <3>3, <2>2 DEF LastTells
  <2>5. LastTells'
    BY <2>4 DEF LastTells
  <2> QED BY <1>1, <1>2, <2>2, <2>3, <2>5
<1>7. CASE ~(reached[b] = "queued" /\ \A f \in ToSet(Tail(gameEvts)) : f.btn # b)
  <2>1. reached' = reached
    BY <1>7 DEF Reaches
  <2>4. ASSUME NEW i \in 1 .. Len(gameEvts')
        PROVE  /\ reached'[gameEvts'[i].btn] # "applied"
               /\ reached'[gameEvts'[i].btn] = "queued" /\ (\A j \in i + 1 .. Len(gameEvts') : gameEvts'[j].btn # gameEvts'[i].btn)
                    => (gameEvts'[i].press <=> gameEvts'[i].btn \in down')
    <3>1. i \in 1 .. Len(gameEvts) - 1 /\ i + 1 \in 1 .. Len(gameEvts) /\ gameEvts'[i] = gameEvts[i + 1]
      BY <1>1, <1>3
    <3>3. (\A j \in i + 1 .. Len(gameEvts') : gameEvts'[j].btn # gameEvts'[i].btn)
             => \A j \in (i + 1) + 1 .. Len(gameEvts) : gameEvts[j].btn # gameEvts[i + 1].btn
      <4>1. ASSUME NEW j \in (i + 1) + 1 .. Len(gameEvts)
            PROVE  j - 1 \in i + 1 .. Len(gameEvts') /\ gameEvts'[j - 1] = gameEvts[j]
        BY <1>1, <1>3, <3>1
      <4> QED BY <4>1, <3>1
    <3> QED BY <3>1, <3>3, <2>1 DEF LastTells
  <2>5. LastTells'
    BY <2>4 DEF LastTells
  <2> QED BY <1>1, <1>2, <1>4, <2>1, <2>5 DEF LanderTypes
<1> QED BY <1>6, <1>7

(* The encoder moves the focus of a popup,                                 *)
EncoderMoves ==
  /\ Encoder /\ modal # "none" /\ encoder' /\ ~encoder /\ lastKey = "turn" /\ choice' \in {"yes", "no"}
  /\ UNCHANGED <<flyVars, gameOver, paused, exitFlag, modal, releaseWait, unseen, answer>>

(* ... it lets a popup's button be clicked,                                *)
EncoderClicks == Encoder /\ modal # "none" /\ ~encoder' /\ encoder /\ lastKey # "turn" /\ Click

(* ... or it has nothing to say.                                           *)
EncoderRests == Encoder /\ UNCHANGED <<gameVars, answer>>

(* The actions' alternatives, each with the guard it has.                  *)
LEMMA ActionsApart ==
  ASSUME LanderFlags, [LanderNext]_landerVars
  PROVE  \/ (\E b \in Buttons : Push(b)) \/ PadLoop \/ UNCHANGED landerVars
         \/ LoopEvent /\ (gameEvts = <<>> \/ modal # "none" \/ modal = "none")
         \/ LoopFly /\ exitFlag
         \/ LoopFly /\ ~exitFlag /\ (gameOver \/ paused)
         \/ /\ LoopFly /\ ~exitFlag /\ ~gameOver /\ ~paused /\ Flies
            /\ \/ NoPopup /\ fire' = (fire /\ ~noFuel) /\ UNCHANGED <<gameOver, angleDir>>
               \/ fire' = FALSE /\ UNCHANGED angleDir /\ \E wait \in BOOLEAN : Crashed(wait)
         \/ LoopFly /\ ~exitFlag /\ ~gameOver /\ ~paused /\ Lands
         \/ EncoderMoves \/ EncoderClicks \/ EncoderRests
<1>1. CASE LoopFly
  <2>1. ASSUME LoopFly, ~exitFlag, ~gameOver, ~paused, Flies
        PROVE  \/ NoPopup /\ fire' = (fire /\ ~noFuel) /\ UNCHANGED <<gameOver, angleDir>>
               \/ fire' = FALSE /\ UNCHANGED angleDir /\ \E wait \in BOOLEAN : Crashed(wait)
    <3>1. (fire /\ ~noFuel) \in BOOLEAN /\ FALSE \in BOOLEAN
      OBVIOUS
    <3> QED BY <2>1, <3>1 DEF Flies
  <2>2. CASE exitFlag
    BY <1>1, <2>2
  <2>3. CASE ~exitFlag /\ (gameOver \/ paused)
    BY <1>1, <2>3
  <2>4. CASE ~exitFlag /\ ~gameOver /\ ~paused
    <3>1. Flies \/ Lands
      BY <1>1, <2>4 DEF LoopFly
    <3> QED BY <1>1, <2>1, <2>4, <3>1
  <2> QED BY <2>2, <2>3, <2>4
<1>2. CASE Encoder
  BY <1>2 DEF Encoder, EncoderMoves, EncoderClicks, EncoderRests
<1> QED BY <1>1, <1>2 DEF LanderNext

(* Each part of the invariant is kept by every step: what the game's queue *)
(* says of the buttons,                                                    *)
LEMMA LanderStepTells == LanderIInv /\ [LanderNext]_landerVars => LastTells'
<1> SUFFICES ASSUME LanderIInv, [LanderNext]_landerVars PROVE LastTells'
  OBVIOUS
<1> USE DEF LanderIInv, LastTells, LanderTypes, padVars, flyVars, popVars, gameVars
<1>1. ASSUME NEW b \in Buttons, Push(b) PROVE LastTells'
  BY <1>1, PushTells
<1>2. CASE PadLoop
  BY <1>2 DEF PadLoop
<1>3. CASE LoopEvent /\ gameEvts = <<>>
  BY <1>3 DEF LoopEvent
<1>4. CASE LoopEvent /\ gameEvts # <<>> /\ modal # "none"
  <2>1. Reaches(Head(gameEvts), "lost") /\ gameEvts' = Tail(gameEvts) /\ UNCHANGED down /\ "lost" \in {"applied", "lost"}
    BY <1>4 DEF LoopEvent, Steers
  <2> QED BY <1>4, <2>1, HeadTells, Zenon DEF LanderIInv
<1>5. CASE LoopEvent /\ gameEvts # <<>> /\ modal = "none"
  <2>1. Reaches(Head(gameEvts), "applied") /\ gameEvts' = Tail(gameEvts) /\ UNCHANGED down /\ "applied" \in {"applied", "lost"}
    BY <1>5 DEF LoopEvent, Steers
  <2> QED BY <1>5, <2>1, HeadTells, Zenon DEF LanderIInv
<1>6. CASE LoopFly /\ exitFlag
  BY <1>6 DEF LoopFly
<1>7. CASE LoopFly /\ ~exitFlag /\ (gameOver \/ paused)
  BY <1>7 DEF LoopFly
<1>8. CASE LoopFly /\ ~exitFlag /\ ~gameOver /\ ~paused /\ Flies /\ NoPopup /\ fire' = (fire /\ ~noFuel) /\ UNCHANGED <<gameOver, angleDir>>
  BY <1>8 DEF LoopFly, Flies, NoPopup
<1>9. ASSUME NEW wait \in BOOLEAN, LoopFly, ~exitFlag, ~gameOver, ~paused, Flies, Crashed(wait), fire' = FALSE, UNCHANGED angleDir PROVE LastTells'
  BY <1>9 DEF LoopFly, Flies, Crashed
<1>10. CASE LoopFly /\ ~exitFlag /\ ~gameOver /\ ~paused /\ Lands
  BY <1>10 DEF LoopFly, Lands, ResetLevel, NoPopup
<1>11. CASE EncoderMoves
  BY <1>11 DEF Encoder, EncoderMoves
<1>12. CASE EncoderClicks
  BY <1>12 DEF Encoder, EncoderClicks, Click, ResetLevel
<1>13. CASE EncoderRests
  BY <1>13 DEF Encoder, EncoderRests
<1>14. CASE UNCHANGED landerVars
  BY <1>14 DEF landerVars
<1> QED BY <1>1, <1>2, <1>3, <1>4, <1>5, <1>6, <1>7, <1>8, <1>9, <1>10, <1>11, <1>12, <1>13, <1>14, ActionsApart

(* the types,                                                              *)
LEMMA LanderStepTypes == LanderIInv /\ [LanderNext]_landerVars => LanderTypes'
<1> SUFFICES ASSUME LanderIInv, [LanderNext]_landerVars PROVE LanderTypes'
  OBVIOUS
<1> USE DEF LanderIInv, LanderTypes, LanderTypeOK, padVars, flyVars, popVars, gameVars
<1>1. ASSUME NEW b \in Buttons, Push(b) PROVE LanderTypes'
  <2>1. gameEvts' \in Seq(PadEvents) /\ reached' \in [Buttons -> {"queued", "applied", "lost"}]
    BY <1>1, PushTells
  <2>2. [btn |-> b, press |-> b \notin down] \in PadEvents
    BY DEF PadEvents
  <2>3. padEvts' \in Seq(PadEvents) /\ down' \subseteq Buttons
    BY <1>1, <2>2 DEF Push, LanderTypeOK
  <2> QED BY <1>1, <2>1, <2>3 DEF Push, LanderTypeOK
<1>2. CASE PadLoop
  <2>1. Head(padEvts) \in PadEvents /\ Tail(padEvts) \in Seq(PadEvents)
    BY <1>2, ToSetTail DEF PadLoop
  <2> QED BY <1>2, <2>1 DEF PadLoop, LanderTypeOK, PadEvents
<1>3. CASE LoopEvent /\ gameEvts = <<>>
  BY <1>3 DEF LoopEvent
<1>4. CASE LoopEvent /\ gameEvts # <<>> /\ modal # "none"
  <2>1. Reaches(Head(gameEvts), "lost") /\ gameEvts' = Tail(gameEvts) /\ UNCHANGED down /\ "lost" \in {"applied", "lost"}
    BY <1>4 DEF LoopEvent, Steers
  <2>2. gameEvts' \in Seq(PadEvents) /\ reached' \in [Buttons -> {"queued", "applied", "lost"}]
    BY <1>4, <2>1, HeadTells
  <2> QED BY <1>4, <2>2 DEF LoopEvent, Steers, LanderTypeOK
<1>5. CASE LoopEvent /\ gameEvts # <<>> /\ modal = "none"
  <2>1. Reaches(Head(gameEvts), "applied") /\ gameEvts' = Tail(gameEvts) /\ UNCHANGED down /\ "applied" \in {"applied", "lost"}
    BY <1>5 DEF LoopEvent, Steers
  <2>2. gameEvts' \in Seq(PadEvents) /\ reached' \in [Buttons -> {"queued", "applied", "lost"}]
    BY <1>5, <2>1, HeadTells
  <2>3. modal' \in {"none", "paused", "over"} /\ choice' \in {"yes", "no"} /\ turn' = "fly"
    BY <1>5 DEF LoopEvent, Steers, Popup, NoPopup, LanderTypeOK
  <2> QED BY <1>5, <2>2, <2>3 DEF LoopEvent, LanderTypeOK
<1>6. CASE LoopFly /\ exitFlag
  BY <1>6 DEF LoopFly
<1>7. CASE LoopFly /\ ~exitFlag /\ (gameOver \/ paused)
  BY <1>7 DEF LoopFly
<1>8. CASE LoopFly /\ ~exitFlag /\ ~gameOver /\ ~paused /\ Flies /\ NoPopup /\ fire' = (fire /\ ~noFuel) /\ UNCHANGED <<gameOver, angleDir>>
  BY <1>8 DEF LoopFly, Flies, NoPopup
<1>9. ASSUME NEW wait \in BOOLEAN, LoopFly, ~exitFlag, ~gameOver, ~paused, Flies, Crashed(wait), fire' = FALSE, UNCHANGED angleDir PROVE LanderTypes'
  BY <1>9 DEF LoopFly, Flies, Crashed, Popup
<1>10. CASE LoopFly /\ ~exitFlag /\ ~gameOver /\ ~paused /\ Lands
  BY <1>10 DEF LoopFly, Lands, ResetLevel, NoPopup
<1>11. CASE EncoderMoves
  BY <1>11 DEF Encoder, EncoderMoves
<1>12. CASE EncoderClicks
  BY <1>12 DEF Encoder, EncoderClicks, Click, ResetLevel
<1>13. CASE EncoderRests
  BY <1>13 DEF Encoder, EncoderRests
<1>14. CASE UNCHANGED landerVars
  BY <1>14 DEF landerVars
<1> QED BY <1>1, <1>2, <1>3, <1>4, <1>5, <1>6, <1>7, <1>8, <1>9, <1>10, <1>11, <1>12, <1>13, <1>14, ActionsApart

(* the flags,                                                              *)
LEMMA LanderStepFlags == LanderIInv /\ [LanderNext]_landerVars => LanderFlags'
<1> SUFFICES ASSUME LanderIInv, [LanderNext]_landerVars PROVE LanderFlags'
  OBVIOUS
<1> USE DEF LanderIInv, LanderFlags, padVars, flyVars, popVars, gameVars
<1>1. ASSUME NEW b \in Buttons, Push(b) PROVE LanderFlags'
  BY <1>1 DEF Push
<1>2. CASE PadLoop
  <2>1. Head(padEvts) \in PadEvents
    BY <1>2, ToSetTail DEF PadLoop, LanderTypes
  <2> QED BY <1>2, <2>1 DEF PadLoop, PadEvents
<1>3. CASE LoopEvent /\ gameEvts = <<>>
  BY <1>3 DEF LoopEvent
<1>4. CASE LoopEvent /\ gameEvts # <<>> /\ modal # "none"
  BY <1>4 DEF LoopEvent, Steers
<1>5. CASE LoopEvent /\ gameEvts # <<>> /\ modal = "none"
  <2>1. Reaches(Head(gameEvts), "applied") /\ gameEvts' = Tail(gameEvts) /\ UNCHANGED down /\ "applied" \in {"applied", "lost"}
    BY <1>5 DEF LoopEvent, Steers
  <2>2. Head(gameEvts).press \in BOOLEAN
    BY <1>5, <2>1, HeadTells
  <2>3. fire' \in BOOLEAN /\ angleDir' \in BOOLEAN /\ paused' \in BOOLEAN
    BY <1>5, <2>2 DEF LoopEvent, Steers
  <2>4. releaseWait' \in BOOLEAN /\ unseen' \in BOOLEAN /\ anew' \in BOOLEAN
    BY <1>5, <2>2 DEF LoopEvent, Steers, Popup, NoPopup, PressBehind, SelectAbout
  <2> QED BY <1>5, <2>3, <2>4 DEF LoopEvent, Steers
<1>6. CASE LoopFly /\ exitFlag
  BY <1>6 DEF LoopFly
<1>7. CASE LoopFly /\ ~exitFlag /\ (gameOver \/ paused)
  BY <1>7 DEF LoopFly
<1>8. CASE LoopFly /\ ~exitFlag /\ ~gameOver /\ ~paused /\ Flies /\ NoPopup /\ fire' = (fire /\ ~noFuel) /\ UNCHANGED <<gameOver, angleDir>>
  BY <1>8 DEF LoopFly, Flies, NoPopup
<1>9. ASSUME NEW wait \in BOOLEAN, LoopFly, ~exitFlag, ~gameOver, ~paused, Flies, Crashed(wait), fire' = FALSE, UNCHANGED angleDir PROVE LanderFlags'
  <2>1. releaseWait' \in BOOLEAN /\ unseen' \in BOOLEAN /\ anew' \in BOOLEAN
    BY <1>9 DEF Crashed, Popup, PressBehind, SelectAbout
  <2> QED BY <1>9, <2>1 DEF LoopFly, Flies, Crashed
<1>10. CASE LoopFly /\ ~exitFlag /\ ~gameOver /\ ~paused /\ Lands
  BY <1>10 DEF LoopFly, Lands, ResetLevel, NoPopup
<1>11. CASE EncoderMoves
  BY <1>11 DEF Encoder, EncoderMoves
<1>12. CASE EncoderClicks
  <2>1. CASE releaseWait
    BY <1>12, <2>1 DEF EncoderClicks, Encoder, Click
  <2>2. CASE ~releaseWait
    <3>1. encoder' \in BOOLEAN /\ exitFlag' \in BOOLEAN /\ paused' \in BOOLEAN
      BY <1>12, <2>2 DEF EncoderClicks, Encoder, Click
    <3>2. fire' \in BOOLEAN /\ angleDir' \in BOOLEAN /\ noFuel' \in BOOLEAN /\ gameOver' \in BOOLEAN
      BY <1>12, <2>2 DEF EncoderClicks, Click, ResetLevel
    <3> QED BY <1>12, <2>2, <3>1, <3>2 DEF EncoderClicks, Encoder, Click
  <2> QED BY <2>1, <2>2
<1>13. CASE EncoderRests
  BY <1>13 DEF Encoder, EncoderRests
<1>14. CASE UNCHANGED landerVars
  BY <1>14 DEF landerVars
<1> QED BY <1>1, <1>2, <1>3, <1>4, <1>5, <1>6, <1>7, <1>8, <1>9, <1>10, <1>11, <1>12, <1>13, <1>14, ActionsApart

(* the engine and the turning against the hand,                            *)
LEMMA LanderStepSteered == LanderIInv /\ [LanderNext]_landerVars => Steered'
<1> SUFFICES ASSUME LanderIInv, [LanderNext]_landerVars PROVE Steered'
  OBVIOUS
<1> USE DEF LanderIInv, Steered, LanderTypes, LastTells, LanderFlags, padVars, flyVars, popVars, gameVars
<1>1. ASSUME NEW b \in Buttons, Push(b) PROVE Steered'
  <2>1. /\ reached'[b] # "applied" /\ \A c \in Buttons \ {b} : reached'[c] = reached[c] /\ (c \in down' <=> c \in down)
        /\ UNCHANGED <<fire, angleDir>>
    BY <1>1, PushTells DEF Push
  <2>2. "select" \in Buttons /\ "turn" \in Buttons
    BY DEF Buttons
  <2> QED BY <2>1, <2>2
<1>2. CASE PadLoop
  BY <1>2 DEF PadLoop
<1>3. CASE LoopEvent /\ gameEvts = <<>>
  BY <1>3 DEF LoopEvent
<1>4. CASE LoopEvent /\ gameEvts # <<>> /\ modal # "none"
  <2>1. Reaches(Head(gameEvts), "lost") /\ gameEvts' = Tail(gameEvts) /\ UNCHANGED <<down, fire, angleDir>> /\ "lost" \in {"applied", "lost"}
    BY <1>4 DEF LoopEvent, Steers
  <2>2. /\ \A c \in Buttons \ {Head(gameEvts).btn} : reached'[c] = reached[c]
        /\ reached'[Head(gameEvts).btn] # "applied"
    BY <1>4, <2>1, HeadTells
  <2>3. "select" \in Buttons /\ "turn" \in Buttons
    BY DEF Buttons
  <2> QED BY <2>1, <2>2, <2>3
<1>5. CASE LoopEvent /\ gameEvts # <<>> /\ modal = "none"
  <2>1. /\ Reaches(Head(gameEvts), "applied") /\ gameEvts' = Tail(gameEvts) /\ UNCHANGED down /\ "applied" \in {"applied", "lost"}
        /\ fire' = (IF Head(gameEvts).btn = "select" THEN Head(gameEvts).press ELSE fire)
        /\ angleDir' = (IF Head(gameEvts).btn = "turn" THEN Head(gameEvts).press ELSE angleDir)
    BY <1>5 DEF LoopEvent, Steers
  <2>2. /\ \A c \in Buttons \ {Head(gameEvts).btn} : reached'[c] = reached[c]
        /\ reached'[Head(gameEvts).btn] = "applied" => (Head(gameEvts).press <=> Head(gameEvts).btn \in down)
    BY <1>5, <2>1, HeadTells
  <2>3. "select" \in Buttons /\ "turn" \in Buttons
    BY DEF Buttons
  <2> QED BY <2>1, <2>2, <2>3
<1>6. CASE LoopFly /\ exitFlag
  BY <1>6 DEF LoopFly
<1>7. CASE LoopFly /\ ~exitFlag /\ (gameOver \/ paused)
  BY <1>7 DEF LoopFly
<1>8. CASE LoopFly /\ ~exitFlag /\ ~gameOver /\ ~paused /\ Flies /\ NoPopup /\ fire' = (fire /\ ~noFuel) /\ UNCHANGED <<gameOver, angleDir>>
  BY <1>8 DEF LoopFly, Flies, NoPopup
<1>9. ASSUME NEW wait \in BOOLEAN, LoopFly, ~exitFlag, ~gameOver, ~paused, Flies, Crashed(wait), fire' = FALSE, UNCHANGED angleDir PROVE Steered'
  BY <1>9 DEF LoopFly, Flies, Crashed
<1>10. CASE LoopFly /\ ~exitFlag /\ ~gameOver /\ ~paused /\ Lands
  BY <1>10 DEF LoopFly, Lands, ResetLevel, NoPopup
<1>11. CASE EncoderMoves
  BY <1>11 DEF Encoder, EncoderMoves
<1>12. CASE EncoderClicks
  BY <1>12 DEF Encoder, EncoderClicks, Click, ResetLevel
<1>13. CASE EncoderRests
  BY <1>13 DEF Encoder, EncoderRests
<1>14. CASE UNCHANGED landerVars
  BY <1>14 DEF landerVars
<1> QED BY <1>1, <1>2, <1>3, <1>4, <1>5, <1>6, <1>7, <1>8, <1>9, <1>10, <1>11, <1>12, <1>13, <1>14, ActionsApart

(* what a popup knows of the hand,                                         *)
LEMMA LanderStepKnown == LanderIInv /\ [LanderNext]_landerVars => HandKnown'
<1> SUFFICES ASSUME LanderIInv, [LanderNext]_landerVars PROVE HandKnown'
  OBVIOUS
<1> USE DEF LanderIInv, HandKnown, LanderTypes, LanderFlags, padVars, flyVars, popVars, gameVars
<1>1. ASSUME NEW b \in Buttons, Push(b) PROVE HandKnown'
  <2> DEFINE e == [btn |-> b, press |-> b \notin down]
  <2>1. e \in PadEvents /\ e.btn = b /\ (e.press <=> b \notin down)
    BY DEF PadEvents
  <2>2. padEvts' = Append(padEvts, e) /\ anew' = (anew \/ (b = "select" /\ e.press))
    BY <1>1 DEF Push
  <2> HIDE DEF e
  <2>3. ToSet(padEvts') = ToSet(padEvts) \cup {e}
    BY <2>1, <2>2, ToSetAppend DEF LanderTypes
  <2>4. ~anew' /\ ~PressBehind => ~anew /\ ~PressBehind'
    BY <2>1, <2>2, <2>3 DEF PressBehind
  <2>5. ~anew' => ~anew
    BY <2>2
  <2> QED BY <1>1, <2>4, <2>5 DEF Push
<1>2. CASE PadLoop
  <2>1. Head(padEvts) \in PadEvents /\ ToSet(padEvts) = {Head(padEvts)} \cup ToSet(padEvts')
    BY <1>2, ToSetTail DEF PadLoop, LanderTypes
  <2>2. ~PressBehind => ~PressBehind' /\ ~(Head(padEvts).btn = "select" /\ Head(padEvts).press)
    BY <2>1 DEF PressBehind
  <2> QED BY <1>2, <2>2 DEF PadLoop
<1>3. CASE LoopEvent /\ gameEvts = <<>>
  BY <1>3 DEF LoopEvent, PressBehind
<1>4. CASE LoopEvent /\ gameEvts # <<>> /\ modal # "none"
  BY <1>4 DEF LoopEvent, Steers, PressBehind
<1>5. CASE LoopEvent /\ gameEvts # <<>> /\ modal = "none"
  <2>1. UNCHANGED <<padEvts, lastKey, action, encoder, edge>>
    BY <1>5 DEF LoopEvent
  <2>2. CASE Popup("paused", fire)
    <3>1. fire \in BOOLEAN
      BY DEF LanderFlags
    <3> QED BY <2>1, <2>2, <3>1, PopupKnows
  <2>3. CASE NoPopup
    BY <1>5, <2>3 DEF NoPopup
  <2> QED BY <1>5, <2>2, <2>3 DEF LoopEvent, Steers
<1>6. CASE LoopFly /\ exitFlag
  BY <1>6 DEF LoopFly
<1>7. CASE LoopFly /\ ~exitFlag /\ (gameOver \/ paused)
  BY <1>7 DEF LoopFly, PressBehind
<1>8. CASE LoopFly /\ ~exitFlag /\ ~gameOver /\ ~paused /\ Flies /\ NoPopup /\ fire' = (fire /\ ~noFuel) /\ UNCHANGED <<gameOver, angleDir>>
  BY <1>8 DEF LoopFly, Flies, NoPopup, PressBehind
<1>9. ASSUME NEW wait \in BOOLEAN, LoopFly, ~exitFlag, ~gameOver, ~paused, Flies, Crashed(wait), fire' = FALSE, UNCHANGED angleDir PROVE HandKnown'
  <2>1. UNCHANGED <<padEvts, lastKey, action, encoder, edge>> /\ Popup("over", wait)
    BY <1>9 DEF LoopFly, Crashed
  <2> QED BY <2>1, PopupKnows
<1>10. CASE LoopFly /\ ~exitFlag /\ ~gameOver /\ ~paused /\ Lands
  BY <1>10 DEF LoopFly, Lands, ResetLevel, NoPopup, PressBehind
<1>11. CASE EncoderMoves
  BY <1>11 DEF Encoder, EncoderMoves, PressBehind
<1>12. CASE EncoderClicks
  BY <1>12 DEF Encoder, EncoderClicks, Click, ResetLevel, PressBehind
<1>13. CASE EncoderRests
  BY <1>13 DEF Encoder, EncoderRests, PressBehind
<1>14. CASE UNCHANGED landerVars
  BY <1>14 DEF landerVars, PressBehind
<1> QED BY <1>1, <1>2, <1>3, <1>4, <1>5, <1>6, <1>7, <1>8, <1>9, <1>10, <1>11, <1>12, <1>13, <1>14, ActionsApart

(* the leaving,                                                            *)
LEMMA LanderStepLeaves == LanderIInv /\ [LanderNext]_landerVars => LeavesAtOnce'
<1> SUFFICES ASSUME LanderIInv, [LanderNext]_landerVars PROVE LeavesAtOnce'
  OBVIOUS
<1> USE DEF LanderIInv, LeavesAtOnce, LanderFlags, padVars, flyVars, popVars, gameVars
<1>1. ASSUME NEW b \in Buttons, Push(b) PROVE LeavesAtOnce'
  BY <1>1 DEF Push
<1>2. CASE PadLoop
  BY <1>2 DEF PadLoop
<1>3. CASE LoopEvent /\ gameEvts = <<>>
  BY <1>3 DEF LoopEvent
<1>4. CASE LoopEvent /\ gameEvts # <<>> /\ modal # "none"
  BY <1>4 DEF LoopEvent, Steers
<1>5. CASE LoopEvent /\ gameEvts # <<>> /\ modal = "none"
  BY <1>5 DEF LoopEvent, Steers
<1>6. CASE LoopFly /\ exitFlag
  BY <1>6 DEF LoopFly
<1>7. CASE LoopFly /\ ~exitFlag /\ (gameOver \/ paused)
  BY <1>7 DEF LoopFly
<1>8. CASE LoopFly /\ ~exitFlag /\ ~gameOver /\ ~paused /\ Flies /\ NoPopup /\ fire' = (fire /\ ~noFuel) /\ UNCHANGED <<gameOver, angleDir>>
  BY <1>8 DEF LoopFly, Flies, NoPopup
<1>9. ASSUME NEW wait \in BOOLEAN, LoopFly, ~exitFlag, ~gameOver, ~paused, Flies, Crashed(wait), fire' = FALSE, UNCHANGED angleDir PROVE LeavesAtOnce'
  BY <1>9 DEF LoopFly, Flies, Crashed
<1>10. CASE LoopFly /\ ~exitFlag /\ ~gameOver /\ ~paused /\ Lands
  BY <1>10 DEF LoopFly, Lands, ResetLevel, NoPopup
<1>11. CASE EncoderMoves
  BY <1>11 DEF Encoder, EncoderMoves
<1>12. CASE EncoderClicks
  BY <1>12 DEF Encoder, EncoderClicks, Click, ResetLevel
<1>13. CASE EncoderRests
  BY <1>13 DEF Encoder, EncoderRests
<1>14. CASE UNCHANGED landerVars
  BY <1>14 DEF landerVars
<1> QED BY <1>1, <1>2, <1>3, <1>4, <1>5, <1>6, <1>7, <1>8, <1>9, <1>10, <1>11, <1>12, <1>13, <1>14, ActionsApart

(* that the lander stands while a popup is up,                             *)
LEMMA LanderStepStands == LanderIInv /\ [LanderNext]_landerVars => StandsForPopup'
<1> SUFFICES ASSUME LanderIInv, [LanderNext]_landerVars PROVE StandsForPopup'
  OBVIOUS
<1> USE DEF LanderIInv, StandsForPopup, LanderFlags, LeavesAtOnce, LanderTypes, LanderTypeOK, padVars, flyVars, popVars, gameVars
<1>1. ASSUME NEW b \in Buttons, Push(b) PROVE StandsForPopup'
  BY <1>1 DEF Push
<1>2. CASE PadLoop
  BY <1>2 DEF PadLoop
<1>3. CASE LoopEvent /\ gameEvts = <<>>
  BY <1>3 DEF LoopEvent
<1>4. CASE LoopEvent /\ gameEvts # <<>> /\ modal # "none"
  BY <1>4 DEF LoopEvent, Steers
<1>5. CASE LoopEvent /\ gameEvts # <<>> /\ modal = "none"
  BY <1>5 DEF LoopEvent, Steers, Popup, NoPopup
<1>6. CASE LoopFly /\ exitFlag
  BY <1>6 DEF LoopFly
<1>7. CASE LoopFly /\ ~exitFlag /\ (gameOver \/ paused)
  BY <1>7 DEF LoopFly
<1>8. CASE LoopFly /\ ~exitFlag /\ ~gameOver /\ ~paused /\ Flies /\ NoPopup /\ fire' = (fire /\ ~noFuel) /\ UNCHANGED <<gameOver, angleDir>>
  BY <1>8 DEF LoopFly, Flies, NoPopup
<1>9. ASSUME NEW wait \in BOOLEAN, LoopFly, ~exitFlag, ~gameOver, ~paused, Flies, Crashed(wait), fire' = FALSE, UNCHANGED angleDir PROVE StandsForPopup'
  BY <1>9 DEF LoopFly, Flies, Crashed, Popup
<1>10. CASE LoopFly /\ ~exitFlag /\ ~gameOver /\ ~paused /\ Lands
  BY <1>10 DEF LoopFly, Lands, ResetLevel, NoPopup
<1>11. CASE EncoderMoves
  BY <1>11 DEF Encoder, EncoderMoves
<1>12. CASE EncoderClicks
  BY <1>12 DEF Encoder, EncoderClicks, Click, ResetLevel
<1>13. CASE EncoderRests
  BY <1>13 DEF Encoder, EncoderRests
<1>14. CASE UNCHANGED landerVars
  BY <1>14 DEF landerVars
<1> QED BY <1>1, <1>2, <1>3, <1>4, <1>5, <1>6, <1>7, <1>8, <1>9, <1>10, <1>11, <1>12, <1>13, <1>14, ActionsApart

(* and that a popup is answered by a press meant for it.                   *)
LEMMA LanderStepAnswers == LanderIInv /\ [LanderNext]_landerVars => AnsweredAnew'
<1> SUFFICES ASSUME LanderIInv, [LanderNext]_landerVars PROVE AnsweredAnew'
  OBVIOUS
<1> USE DEF LanderIInv, AnsweredAnew, HandKnown, LanderFlags, padVars, flyVars, popVars, gameVars
<1>1. ASSUME NEW b \in Buttons, Push(b) PROVE AnsweredAnew'
  BY <1>1 DEF Push
<1>2. CASE PadLoop
  BY <1>2 DEF PadLoop
<1>3. CASE LoopEvent /\ gameEvts = <<>>
  BY <1>3 DEF LoopEvent
<1>4. CASE LoopEvent /\ gameEvts # <<>> /\ modal # "none"
  BY <1>4 DEF LoopEvent, Steers
<1>5. CASE LoopEvent /\ gameEvts # <<>> /\ modal = "none"
  BY <1>5 DEF LoopEvent, Steers
<1>6. CASE LoopFly /\ exitFlag
  BY <1>6 DEF LoopFly
<1>7. CASE LoopFly /\ ~exitFlag /\ (gameOver \/ paused)
  BY <1>7 DEF LoopFly
<1>8. CASE LoopFly /\ ~exitFlag /\ ~gameOver /\ ~paused /\ Flies /\ NoPopup /\ fire' = (fire /\ ~noFuel) /\ UNCHANGED <<gameOver, angleDir>>
  BY <1>8 DEF LoopFly, Flies, NoPopup
<1>9. ASSUME NEW wait \in BOOLEAN, LoopFly, ~exitFlag, ~gameOver, ~paused, Flies, Crashed(wait), fire' = FALSE, UNCHANGED angleDir PROVE AnsweredAnew'
  BY <1>9 DEF LoopFly, Flies, Crashed
<1>10. CASE LoopFly /\ ~exitFlag /\ ~gameOver /\ ~paused /\ Lands
  BY <1>10 DEF LoopFly, Lands, ResetLevel, NoPopup
<1>11. CASE EncoderMoves
  BY <1>11 DEF Encoder, EncoderMoves
<1>12. CASE EncoderClicks
  BY <1>12 DEF Encoder, EncoderClicks, Click, ResetLevel
<1>13. CASE EncoderRests
  BY <1>13 DEF Encoder, EncoderRests
<1>14. CASE UNCHANGED landerVars
  BY <1>14 DEF landerVars
<1> QED BY <1>1, <1>2, <1>3, <1>4, <1>5, <1>6, <1>7, <1>8, <1>9, <1>10, <1>11, <1>12, <1>13, <1>14, ActionsApart

LEMMA LanderStepIInv == LanderIInv /\ [LanderNext]_landerVars => LanderIInv'
BY LanderStepTells, LanderStepTypes, LanderStepFlags, LanderStepSteered, LanderStepKnown, LanderStepLeaves, LanderStepStands,
   LanderStepAnswers DEF LanderIInv

(* The invariant says what the run checks.                                 *)
LEMMA LanderInvFollows == LanderIInv => LanderInv
BY DEF LanderIInv, LanderTypes, Steered, HandsOff, LanderInv

-----------------------------------------------------------------------------
(* The settings: what the screen's elements hold, and what the picker made *)
(* of the time it was opened with.                                         *)
Held == [sounds : BOOLEAN, led : BOOLEAN, motion : BOOLEAN, rotate : BOOLEAN, h24 : BOOLEAN, bright : Brightness]

(* What the watch does of the settings.                                    *)
Watches ==
  [bright : Brightness, tilt : BOOLEAN, rotated : BOOLEAN, inverted : BOOLEAN, faceUp : BOOLEAN, led : BOOLEAN, quiet : BOOLEAN]

(* The times and dates the chip can hold, whether they exist or not,       *)
Dates == [hour : 0 .. 23, day : 1 .. 31, month : 0 .. 11, year : Years]

(* and what the picker can show.                                           *)
Pickers ==
  [hour : 0 .. 23, pm : BOOLEAN, day : 1 .. 31, month : 0 .. 11, year : Years, h24 : BOOLEAN,
   editing : {"none", "hour", "day", "year"}, inversion : BOOLEAN]

(* The types of the settings where they are held,                          *)
HeldTypes ==
  /\ ram \in Held /\ nvs \in Held /\ watch \in Watches /\ leftInverted \in BOOLEAN /\ switched \subseteq Switches
  /\ elements = NoElements \/ elements \in Held

(* and of the picker and the clock.                                        *)
PickerTypes ==
  /\ now \in Dates /\ picked \in [time : Dates, touched : BOOLEAN]
  /\ picker = NoPicker \/ picker \in Pickers

(* Off the screen there is no picker and nothing switched.                 *)
ClosedTogether == elements = NoElements => switched = {} /\ picker = NoPicker

(* The picker gives the keys back as they were, and that is as the screen  *)
(* is turned or as another field left them.                                *)
KeysBack == picker # NoPicker => (picker.inversion <=> watch.rotated) \/ leftInverted

(* The hour that is saved of what the picker shows.                        *)
HourOf(p) == IF p.h24 THEN p.hour ELSE (p.hour % 12) + (IF p.pm THEN 12 ELSE 0)

(* A date whose day the month of that year has.                            *)
Exists(d) == d.day <= DaysLimit(d.month, d.year)

(* What the picker shows exists, its hours are of its format, and          *)
(* untouched it stands for the clock's time.                               *)
PickerTells ==
  /\ Exists(now)
  /\ ~picked.touched => now = picked.time
  /\ picker # NoPicker =>
       /\ Exists(picker)
       /\ ~picker.h24 => picker.hour \in 1 .. 12
       /\ ~picked.touched =>
            HourOf(picker) = now.hour /\ picker.day = now.day /\ picker.month = now.month /\ picker.year = now.year

(* The invariant of the settings.                                          *)
SettingsIInv ==
  /\ HeldTypes /\ PickerTypes /\ ClosedTogether /\ SettingsTake /\ OthersStay /\ KeysFollow /\ KeysBack /\ PickerTells

(* No screen and no picker are not one.                                    *)
LEMMA NoneAreNone ==
  /\ NoElements \notin Held /\ NoPicker \notin Pickers
  /\ NoElements.bright = 0 /\ NoPicker.day = 0
  BY DEF NoElements, NoPicker, Held, Pickers, Brightness

(* A year is a number; its range stays folded up.                          *)
LEMMA YearsAreNumbers == \A y \in Years : y \in Nat
  BY DEF Years

(* The code's test for a leap year is the calendar's.                      *)
LEMMA LeapByCenturies == \A y \in Years : Leap(y) <=> LongFebruary(y)
<1> SUFFICES ASSUME NEW y \in Years PROVE Leap(y) <=> LongFebruary(y)
  OBVIOUS
<1> HIDE DEF Years
<1>3. y \in Nat
  BY YearsAreNumbers
<1>1. y % 400 = 0 <=> y % 100 = 0 /\ (y \div 100) % 4 = 0
  BY <1>3
<1>2. y % 100 = 0 => y % 4 = 0
  BY <1>3
<1> QED BY <1>1, <1>2 DEF Leap, LongFebruary

(* A month has 28 to 31 days.                                              *)
LEMMA DaysOfMonths == \A m \in 0 .. 11, y \in Years : DaysLimit(m, y) \in 28 .. 31
<1> SUFFICES ASSUME NEW m \in 0 .. 11, NEW y \in Years PROVE DaysLimit(m, y) \in 28 .. 31
  OBVIOUS
<1>1. \A i \in 1 .. 12 : DaysInMonth[i] \in 28 .. 31
  BY DEF DaysInMonth
<1>2. DaysInMonth[m + 1] \in 28 .. 31
  BY <1>1
<1> QED BY <1>2 DEF DaysLimit

(* The limit takes the day down to the month's last, and nothing else.     *)
LEMMA Limits ==
  ASSUME NEW p \in Pickers
  PROVE  LET q == SetDateLimits(p) IN
         /\ q \in Pickers /\ Exists(q)
         /\ q.hour = p.hour /\ q.pm = p.pm /\ q.month = p.month /\ q.year = p.year /\ q.h24 = p.h24
         /\ q.editing = p.editing /\ q.inversion = p.inversion
         /\ Exists(p) => q.day = p.day
<1> DEFINE limit == DaysLimit(p.month, p.year)
           q == SetDateLimits(p)
<1>1. limit \in 28 .. 31 /\ p.day \in 1 .. 31
  <2>1. p.month \in 0 .. 11 /\ p.year \in Years /\ p.day \in 1 .. 31
    BY DEF Pickers
  <2> QED BY <2>1, DaysOfMonths
<1>2. q = [p EXCEPT !.day = IF p.day > limit THEN limit ELSE p.day]
  BY DEF SetDateLimits
<1> HIDE DEF limit
<1>3. q \in Pickers
  <2> DEFINE day == IF p.day > limit THEN limit ELSE p.day
  <2>1. day \in 1 .. 31
    BY <1>1
  <2>2. q = [p EXCEPT !.day = day]
    BY <1>2
  <2> HIDE DEF day
  <2> QED BY <2>1, <2>2 DEF Pickers
<1>4. /\ q.hour = p.hour /\ q.pm = p.pm /\ q.month = p.month /\ q.year = p.year /\ q.h24 = p.h24
      /\ q.editing = p.editing /\ q.inversion = p.inversion /\ q.day = (IF p.day > limit THEN limit ELSE p.day)
  BY <1>2 DEF Pickers
<1>5. q.day <= limit /\ (p.day <= limit => q.day = p.day)
  BY <1>1, <1>4
<1>6. Exists(q) /\ (Exists(p) => q.day = p.day)
  BY <1>4, <1>5 DEF Exists, limit
<1> HIDE DEF q
<1>7. /\ q \in Pickers /\ Exists(q)
      /\ q.hour = p.hour /\ q.pm = p.pm /\ q.month = p.month /\ q.year = p.year /\ q.h24 = p.h24
      /\ q.editing = p.editing /\ q.inversion = p.inversion
      /\ Exists(p) => q.day = p.day
  BY <1>3, <1>4, <1>6
<1> QED BY <1>7 DEF q

(* The two formats of the hours stand for the same hours.                  *)
LEMMA HoursStand ==
  ASSUME NEW h \in 0 .. 23
  PROVE  LET hh == h % 12
             shows == IF hh = 0 THEN 12 ELSE hh IN
         shows \in 1 .. 12 /\ (shows % 12) + (IF h >= 12 THEN 12 ELSE 0) = h
  OBVIOUS

(* A setting that is switched is the only one that changes.                *)
LEMMA Switched ==
  ASSUME NEW r \in Held, NEW s \in Switches, NEW v \in BOOLEAN
  PROVE  LET q == [r EXCEPT ![s] = v] IN
         q \in Held /\ q[s] = v /\ q.bright = r.bright /\ \A c \in Switches \ {s} : q[c] = r[c]
<1>1. CASE s = "sounds"
  BY <1>1 DEF Held, Switches
<1>2. CASE s = "led"
  BY <1>2 DEF Held, Switches
<1>3. CASE s = "motion"
  BY <1>3 DEF Held, Switches
<1>4. CASE s = "rotate"
  BY <1>4 DEF Held, Switches
<1>5. CASE s = "h24"
  BY <1>5 DEF Held, Switches
<1> QED BY <1>1, <1>2, <1>3, <1>4, <1>5 DEF Switches

(* A switch is on or off.                                                  *)
LEMMA SwitchesHeld == \A r \in Held : \A s \in Switches : r[s] \in BOOLEAN
  BY DEF Held, Switches

(* The settings applied, the keys are as the screen is turned.             *)
LEMMA AppliedWatches == \A r \in Held : Applied(r) \in Watches /\ Applied(r).inverted = Applied(r).rotated
<1> SUFFICES ASSUME NEW r \in Held PROVE Applied(r) \in Watches /\ Applied(r).inverted = Applied(r).rotated
  OBVIOUS
<1>1. r.bright \in Brightness /\ r.motion \in BOOLEAN /\ r.rotate \in BOOLEAN /\ r.led \in BOOLEAN
  BY DEF Held
<1> QED BY <1>1 DEF Applied, Watches

(* What the actions of the screen do, each in terms of these records.      *)
LEMMA OpenDoes ==
  ASSUME HeldTypes, Open
  PROVE  /\ elements = NoElements /\ elements' \in Held /\ \A s \in Switches : elements'[s] = ram[s]
         /\ watch' \in Watches /\ watch'.inverted = watch.inverted /\ watch'.rotated = watch.rotated
         /\ UNCHANGED <<switched, ram, nvs, picker, now, picked, leftInverted>>
<1> USE DEF HeldTypes
<1>1. elements' = OnStarting(BuildUI)
  BY DEF Open
<1>2. BuildUI \in Held /\ BuildUI.h24 = ram.h24
  BY DEF BuildUI, Held
<1> DEFINE b == BuildUI
<1> HIDE DEF b
<1>3. b \in Held /\ b.h24 = ram.h24 /\ elements' = OnStarting(b)
  BY <1>1, <1>2 DEF b
<1>4. OnStarting(b) \in Held
  BY <1>3 DEF OnStarting, Held
<1>5. \A s \in Switches : OnStarting(b)[s] = ram[s]
  BY <1>3 DEF OnStarting, Held, Switches
<1>6. watch' \in Watches /\ watch'.inverted = watch.inverted /\ watch'.rotated = watch.rotated
  BY DEF Open, Watches
<1> QED BY <1>3, <1>4, <1>5, <1>6 DEF Open

(* A switch goes to the memory and to the watch;                           *)
LEMMA SwitchDoes ==
  ASSUME HeldTypes, NEW s \in Switches, Switch(s)
  PROVE  /\ elements # NoElements /\ picker = NoPicker /\ elements \in Held /\ elements' \in Held /\ ram' \in Held /\ watch' \in Watches
         /\ elements'[s] = ~elements[s] /\ \A c \in Switches \ {s} : elements'[c] = elements[c]
         /\ IF s = "rotate" THEN watch'.inverted = watch'.rotated
            ELSE watch'.inverted = watch.inverted /\ watch'.rotated = watch.rotated
         /\ switched' = (IF s \in switched THEN switched \ {s} ELSE switched \cup {s})
         /\ leftInverted' = (leftInverted /\ s # "rotate")
         /\ UNCHANGED <<nvs, picker, now, picked>>
<1> USE DEF HeldTypes
<1>1. elements # NoElements /\ picker = NoPicker /\ elements \in Held /\ elements[s] \in BOOLEAN
  BY SwitchesHeld DEF Switch, Clickable
<1> DEFINE v == ~elements[s]
<1>2. v \in BOOLEAN /\ "motion" \in Switches
  BY DEF Switches
<1>3. elements' = [elements EXCEPT ![s] = v]
  BY DEF Switch
<1>4. ram' \in {ram, [ram EXCEPT ![s] = v], [ram EXCEPT !["motion"] = v]}
  BY DEF Switch
<1>5. watch' = (CASE s = "led" -> [watch EXCEPT !.led = v]
                  [] s = "rotate" -> [watch EXCEPT !.rotated = v, !.inverted = v]
                  [] OTHER -> watch)
  BY DEF Switch
<1> HIDE DEF v
<1>6. elements' \in Held /\ elements'[s] = v /\ \A c \in Switches \ {s} : elements'[c] = elements[c]
  <2> DEFINE q == [elements EXCEPT ![s] = v]
  <2>1. q \in Held /\ q[s] = v /\ \A c \in Switches \ {s} : q[c] = elements[c]
    BY <1>1, <1>2, Switched
  <2>2. elements' = q
    BY <1>3
  <2> HIDE DEF q
  <2> QED BY <2>1, <2>2
<1>7. ram' \in Held
  BY <1>2, <1>4, Switched
<1>8. /\ watch' \in Watches
      /\ IF s = "rotate" THEN watch'.inverted = watch'.rotated
         ELSE watch'.inverted = watch.inverted /\ watch'.rotated = watch.rotated
  <2>1. CASE s = "led"
    BY <1>2, <1>5, <2>1 DEF Watches
  <2>2. CASE s = "rotate"
    BY <1>2, <1>5, <2>2 DEF Watches
  <2>3. CASE s \notin {"led", "rotate"}
    BY <1>5, <2>3
  <2> QED BY <2>1, <2>2, <2>3
<1> QED BY <1>1, <1>6, <1>7, <1>8 DEF v, Switch

(* the slider only to the watch and its element.                           *)
LEMMA SlideDoes ==
  ASSUME HeldTypes, Slide
  PROVE  /\ elements # NoElements /\ elements' \in Held /\ \A s \in Switches : elements'[s] = elements[s]
         /\ watch' \in Watches /\ watch'.inverted = watch.inverted /\ watch'.rotated = watch.rotated
         /\ UNCHANGED <<switched, ram, nvs, picker, now, picked, leftInverted>>
<1>1. elements # NoElements /\ elements \in Held /\ watch \in Watches
  BY DEF Slide, Clickable, HeldTypes
<1>2. PICK v \in Brightness : elements' = [elements EXCEPT !.bright = v] /\ watch' = [watch EXCEPT !.bright = v]
  BY DEF Slide
<1>3. elements' \in Held /\ \A s \in Switches : elements'[s] = elements[s]
  BY <1>1, <1>2 DEF Held, Switches
<1>4. watch' \in Watches /\ watch'.inverted = watch.inverted /\ watch'.rotated = watch.rotated
  BY <1>1, <1>2 DEF Watches
<1> QED BY <1>1, <1>3, <1>4 DEF Slide

(* The keys inverted, nothing else of the watch is touched.                *)
LEMMA InvertedWatches ==
  ASSUME NEW w \in Watches, NEW v \in BOOLEAN
  PROVE  LET q == [w EXCEPT !.inverted = v] IN q \in Watches /\ q.inverted = v /\ q.rotated = w.rotated
  BY DEF Watches

(* A field of the picker is opened, the keys inverted,                     *)
LEMMA EditDoes ==
  ASSUME HeldTypes, PickerTypes, NEW f \in {"hour", "day", "year"}, Edit(f)
  PROVE  /\ picker # NoPicker /\ picker \in Pickers /\ picker' \in Pickers
         /\ picker'.editing = f /\ picker'.inversion = picker.inversion /\ picker'.hour = picker.hour /\ picker'.pm = picker.pm
         /\ picker'.day = picker.day /\ picker'.month = picker.month /\ picker'.year = picker.year /\ picker'.h24 = picker.h24
         /\ watch' \in Watches /\ watch'.rotated = watch.rotated
         /\ UNCHANGED <<switched, ram, nvs, elements, now, picked, leftInverted>>
<1>1. picker # NoPicker /\ picker \in Pickers /\ picker' = [picker EXCEPT !.editing = f]
  BY DEF Edit, PickerTypes
<1>2. /\ picker' \in Pickers /\ picker'.editing = f /\ picker'.inversion = picker.inversion
      /\ picker'.hour = picker.hour /\ picker'.pm = picker.pm /\ picker'.h24 = picker.h24
      /\ picker'.day = picker.day /\ picker'.month = picker.month /\ picker'.year = picker.year
  BY <1>1 DEF Pickers
<1>3. watch \in Watches /\ watch' = [watch EXCEPT !.inverted = ~picker.inversion] /\ (~picker.inversion) \in BOOLEAN
  BY DEF Edit, HeldTypes
<1>4. watch' \in Watches /\ watch'.rotated = watch.rotated
  BY <1>3, InvertedWatches
<1> QED BY <1>1, <1>2, <1>4 DEF Edit

(* and closed, the keys given back.                                        *)
LEMMA EndEditDoes ==
  ASSUME HeldTypes, PickerTypes, EndEdit
  PROVE  /\ picker # NoPicker /\ picker \in Pickers /\ picker' \in Pickers
         /\ picker'.editing = "none" /\ picker'.inversion = picker.inversion /\ picker'.hour = picker.hour /\ picker'.pm = picker.pm
         /\ picker'.day = picker.day /\ picker'.month = picker.month /\ picker'.year = picker.year /\ picker'.h24 = picker.h24
         /\ watch' \in Watches /\ watch'.rotated = watch.rotated
         /\ \/ watch'.inverted = picker.inversion /\ leftInverted' = leftInverted
            \/ leftInverted' = TRUE
         /\ UNCHANGED <<switched, ram, nvs, elements, now, picked>>
<1>1. picker # NoPicker /\ picker \in Pickers /\ picker' = [picker EXCEPT !.editing = "none"]
  BY DEF EndEdit, PickerTypes
<1>2. /\ picker' \in Pickers /\ picker'.editing = "none" /\ picker'.inversion = picker.inversion
      /\ picker'.hour = picker.hour /\ picker'.pm = picker.pm /\ picker'.h24 = picker.h24
      /\ picker'.day = picker.day /\ picker'.month = picker.month /\ picker'.year = picker.year
  BY <1>1 DEF Pickers
<1>3. watch \in Watches /\ picker.inversion \in BOOLEAN
  BY <1>1 DEF HeldTypes, Pickers
<1>4. CASE watch' = [watch EXCEPT !.inverted = picker.inversion] /\ UNCHANGED leftInverted
  <2>1. watch' \in Watches /\ watch'.rotated = watch.rotated /\ watch'.inverted = picker.inversion
    BY <1>3, <1>4, InvertedWatches
  <2> QED BY <1>1, <1>2, <1>4, <2>1 DEF EndEdit
<1>5. CASE leftInverted' = TRUE /\ UNCHANGED watch
  BY <1>1, <1>2, <1>3, <1>5 DEF EndEdit
<1> QED BY <1>4, <1>5 DEF EndEdit

(* A field that is turned stays in its range, and the date one that exists. *)
LEMMA TurnDoes ==
  ASSUME HeldTypes, PickerTypes, PickerTells, Turn
  PROVE  /\ picker # NoPicker /\ picker' \in Pickers /\ Exists(picker')
         /\ picker'.editing = picker.editing /\ picker.editing # "none" /\ picker'.inversion = picker.inversion
         /\ ~picker'.h24 => picker'.hour \in 1 .. 12
         /\ picked' \in [time : Dates, touched : {TRUE}]
         /\ UNCHANGED <<switched, ram, nvs, watch, elements, now, leftInverted>>
<1>1. /\ picker # NoPicker /\ picker \in Pickers /\ picker.editing # "none"
      /\ Exists(picker) /\ (~picker.h24 => picker.hour \in 1 .. 12)
  BY DEF Turn, PickerTypes, PickerTells
<1>2. picked' \in [time : Dates, touched : {TRUE}]
  BY DEF Turn, PickerTypes
<1>3. picker.editing \in {"hour", "day", "year"} /\ picker.month \in 0 .. 11 /\ picker.year \in Years
  BY <1>1 DEF Pickers
<1>4. PICK v \in FieldRange(picker.editing) :
        LET p == [picker EXCEPT ![picker.editing] = v] IN
        picker' = IF picker.editing = "year" THEN SetDateLimits(p) ELSE p
  BY DEF Turn
<1>5. CASE picker.editing = "hour"
  <2>1. v \in 0 .. 23 /\ (~picker.h24 => v \in 1 .. 12)
    BY <1>4, <1>5 DEF FieldRange
  <2>2. picker' = [picker EXCEPT !.hour = v]
    BY <1>4, <1>5
  <2>3. /\ picker' \in Pickers /\ picker'.hour = v /\ picker'.h24 = picker.h24 /\ picker'.editing = picker.editing
        /\ picker'.inversion = picker.inversion /\ picker'.day = picker.day /\ picker'.month = picker.month
        /\ picker'.year = picker.year
    BY <1>1, <2>1, <2>2 DEF Pickers
  <2> QED BY <1>1, <1>2, <2>1, <2>3 DEF Turn, Exists
<1>6. CASE picker.editing = "day"
  <2>1. v \in 1 .. DaysLimit(picker.month, picker.year) /\ DaysLimit(picker.month, picker.year) \in 28 .. 31
    BY <1>3, <1>4, <1>6, DaysOfMonths DEF FieldRange
  <2>4. v \in 1 .. 31 /\ v <= DaysLimit(picker.month, picker.year)
    BY <2>1
  <2>2. v \in 1 .. 31 /\ v <= DaysLimit(picker.month, picker.year) /\ picker' = [picker EXCEPT !.day = v]
    BY <1>4, <1>6, <2>4
  <2>3. /\ picker' \in Pickers /\ picker'.hour = picker.hour /\ picker'.h24 = picker.h24 /\ picker'.editing = picker.editing
        /\ picker'.inversion = picker.inversion /\ picker'.day = v /\ picker'.month = picker.month
        /\ picker'.year = picker.year
    BY <1>1, <2>2 DEF Pickers
  <2> QED BY <1>1, <1>2, <2>2, <2>3 DEF Turn, Exists
<1>7. CASE picker.editing = "year"
  <2> DEFINE p == [picker EXCEPT !.year = v]
  <2>1. v \in Years
    BY <1>4, <1>7 DEF FieldRange, Years
  <2>2. picker' = SetDateLimits(p)
    BY <1>4, <1>7
  <2>3. p \in Pickers /\ p.hour = picker.hour /\ p.h24 = picker.h24 /\ p.editing = picker.editing /\ p.inversion = picker.inversion
    BY <1>1, <2>1 DEF Pickers
  <2> HIDE DEF p
  <2>4. /\ picker' \in Pickers /\ Exists(picker') /\ picker'.hour = p.hour /\ picker'.h24 = p.h24
        /\ picker'.editing = p.editing /\ picker'.inversion = p.inversion
    BY <2>2, <2>3, Limits
  <2> QED BY <1>1, <1>2, <2>3, <2>4 DEF Turn
<1> QED BY <1>3, <1>5, <1>6, <1>7

(* The month is rolled, and the date still exists.                         *)
LEMMA RollDoes ==
  ASSUME HeldTypes, PickerTypes, PickerTells, Roll
  PROVE  /\ picker # NoPicker /\ picker' \in Pickers /\ Exists(picker')
         /\ picker'.editing = "none" /\ picker.editing = "none" /\ picker'.inversion = picker.inversion
         /\ ~picker'.h24 => picker'.hour \in 1 .. 12
         /\ picked' \in [time : Dates, touched : {TRUE}]
         /\ UNCHANGED <<switched, ram, nvs, watch, elements, now, leftInverted>>
<1>1. /\ picker # NoPicker /\ picker \in Pickers /\ picker.editing = "none"
      /\ Exists(picker) /\ (~picker.h24 => picker.hour \in 1 .. 12)
  BY DEF Roll, PickerTypes, PickerTells
<1>2. picked' \in [time : Dates, touched : {TRUE}]
  BY DEF Roll, PickerTypes
<1>3. ASSUME NEW m \in {0, 1, 3}, picker' = SetDateLimits([picker EXCEPT !.month = m])
      PROVE  picker' \in Pickers /\ Exists(picker') /\ picker'.hour = picker.hour /\ picker'.h24 = picker.h24
             /\ picker'.editing = picker.editing /\ picker'.inversion = picker.inversion
  <2> DEFINE p == [picker EXCEPT !.month = m]
  <2>1. m \in 0 .. 11
    BY <1>3
  <2>2. p \in Pickers /\ p.hour = picker.hour /\ p.h24 = picker.h24 /\ p.editing = picker.editing /\ p.inversion = picker.inversion
    BY <1>1, <2>1 DEF Pickers
  <2>3. picker' = SetDateLimits(p)
    BY <1>3
  <2> HIDE DEF p
  <2> QED BY <2>2, <2>3, Limits
<1>4. ASSUME picker' = [picker EXCEPT !.pm = ~picker.pm]
      PROVE  picker' \in Pickers /\ Exists(picker') /\ picker'.hour = picker.hour /\ picker'.h24 = picker.h24
             /\ picker'.editing = picker.editing /\ picker'.inversion = picker.inversion
  <2>1. /\ picker' \in Pickers /\ picker'.hour = picker.hour /\ picker'.h24 = picker.h24 /\ picker'.editing = picker.editing
        /\ picker'.inversion = picker.inversion /\ picker'.day = picker.day /\ picker'.month = picker.month
        /\ picker'.year = picker.year
    BY <1>1, <1>4 DEF Pickers
  <2> QED BY <1>1, <2>1 DEF Exists
<1> QED BY <1>1, <1>2, <1>3, <1>4 DEF Roll

(* The picker opens with the clock's time in the format of the watch,      *)
LEMMA PickTimeDoes ==
  ASSUME HeldTypes, PickerTypes, PickerTells, PickTime
  PROVE  /\ elements # NoElements /\ picker = NoPicker /\ picker' \in Pickers /\ Exists(picker')
         /\ picker'.editing = "none" /\ picker'.inversion = watch.inverted
         /\ ~picker'.h24 => picker'.hour \in 1 .. 12
         /\ HourOf(picker') = now.hour /\ picker'.day = now.day /\ picker'.month = now.month /\ picker'.year = now.year
         /\ picked' = [time |-> now, touched |-> FALSE]
         /\ UNCHANGED <<switched, ram, nvs, watch, elements, now, leftInverted>>
<1> DEFINE hh == now.hour % 12
           shows == IF hh = 0 THEN 12 ELSE hh
           hour == IF ram.h24 THEN now.hour ELSE shows
           p == [hour |-> hour, pm |-> ~ram.h24 /\ now.hour >= 12, day |-> now.day, month |-> now.month, year |-> now.year,
                 h24 |-> ram.h24, editing |-> "none", inversion |-> watch.inverted]
<1>1. /\ now.hour \in 0 .. 23 /\ now.day \in 1 .. 31 /\ now.month \in 0 .. 11 /\ now.year \in Years
      /\ ram.h24 \in BOOLEAN /\ watch.inverted \in BOOLEAN
  <2>1. now.hour \in 0 .. 23 /\ now.day \in 1 .. 31 /\ now.month \in 0 .. 11 /\ now.year \in Years
    BY DEF PickerTypes, Dates
  <2>2. ram.h24 \in BOOLEAN /\ watch.inverted \in BOOLEAN
    BY DEF HeldTypes, Held, Watches
  <2> QED BY <2>1, <2>2
<1>2. shows \in 1 .. 12 /\ (shows % 12) + (IF now.hour >= 12 THEN 12 ELSE 0) = now.hour
  BY <1>1, HoursStand
<1>3. hour \in 0 .. 23 /\ (~ram.h24 => hour \in 1 .. 12)
  <2> HIDE DEF shows
  <2> QED BY <1>1, <1>2
<1>4. picker' = SetDateLimits(p) /\ picked' = [time |-> now, touched |-> FALSE] /\ elements # NoElements /\ picker = NoPicker
  BY DEF PickTime, Clickable
<1>5. HourOf(p) = now.hour
  BY <1>1, <1>2 DEF HourOf
<1>6. /\ p.hour = hour /\ p.pm = (~ram.h24 /\ now.hour >= 12) /\ p.day = now.day /\ p.month = now.month /\ p.year = now.year
      /\ p.h24 = ram.h24 /\ p.editing = "none" /\ p.inversion = watch.inverted
  OBVIOUS
<1>7. p \in Pickers
  <2> DEFINE pm == ~ram.h24 /\ now.hour >= 12
  <2>1. pm \in BOOLEAN
    OBVIOUS
  <2> HIDE DEF pm, hour
  <2> QED BY <1>1, <1>3, <2>1 DEF Pickers, pm
<1>8. Exists(p)
  BY <1>6 DEF PickerTells, Exists
<1> HIDE DEF p
<1>9. /\ picker' \in Pickers /\ Exists(picker') /\ picker'.hour = p.hour /\ picker'.pm = p.pm /\ picker'.month = p.month
      /\ picker'.year = p.year /\ picker'.h24 = p.h24 /\ picker'.editing = p.editing /\ picker'.inversion = p.inversion
      /\ picker'.day = p.day
  BY <1>4, <1>7, <1>8, Limits
<1>10. HourOf(picker') = HourOf(p)
  BY <1>9 DEF HourOf
<1> HIDE DEF hour
<1> QED BY <1>3, <1>4, <1>5, <1>6, <1>9, <1>10 DEF PickTime

(* and saves it in the chip's.                                             *)
LEMMA SaveTimeDoes ==
  ASSUME PickerTypes, PickerTells, SaveTime
  PROVE  /\ picker # NoPicker /\ picker' = NoPicker /\ now' \in Dates /\ Exists(now')
         /\ ~picked.touched => now' = now
         /\ picker.editing = "none"
         /\ UNCHANGED <<switched, ram, nvs, watch, elements, picked, leftInverted>>
<1>1. picker # NoPicker /\ picker \in Pickers /\ Exists(picker)
  BY DEF SaveTime, PickerTypes, PickerTells
<1>2. now' = [hour |-> HourOf(picker), day |-> picker.day, month |-> picker.month, year |-> picker.year]
  BY DEF SaveTime, HourOf
<1>3. /\ picker.hour \in 0 .. 23 /\ picker.day \in 1 .. 31 /\ picker.month \in 0 .. 11 /\ picker.year \in Years
      /\ picker.h24 \in BOOLEAN /\ picker.pm \in BOOLEAN
  BY <1>1 DEF Pickers
<1>4. HourOf(picker) \in 0 .. 23
  BY <1>3 DEF HourOf
<1>5. now' \in Dates /\ Exists(now')
  BY <1>1, <1>2, <1>3, <1>4 DEF Dates, Exists
<1>6. ASSUME ~picked.touched PROVE now' = now
  <2>1. HourOf(picker) = now.hour /\ picker.day = now.day /\ picker.month = now.month /\ picker.year = now.year /\ now \in Dates
    BY <1>1, <1>6 DEF PickerTells, PickerTypes
  <2>2. now = [hour |-> now.hour, day |-> now.day, month |-> now.month, year |-> now.year]
    BY <2>1 DEF Dates
  <2> QED BY <1>2, <2>1, <2>2
<1> QED BY <1>1, <1>5, <1>6 DEF SaveTime

(* The screen left, memory, flash and watch agree;                         *)
LEMMA OnStopDoes ==
  ASSUME HeldTypes, OnStop
  PROVE  /\ elements' = NoElements /\ picker' = NoPicker /\ ram' \in Held /\ nvs' = ram' /\ watch' = Applied(ram')
         /\ leftInverted' = FALSE /\ switched' = {} /\ UNCHANGED <<now, picked>>
  BY DEF OnStop, HeldTypes, Applied

(* so they do after a restart.                                             *)
LEMMA RestartDoes ==
  ASSUME HeldTypes, Restart
  PROVE  /\ elements' = NoElements /\ picker' = NoPicker /\ ram' \in Held /\ nvs' = ram' /\ watch' = Applied(ram')
         /\ leftInverted' = FALSE /\ switched' = {} /\ UNCHANGED <<now, picked>>
  BY DEF Restart, HeldTypes

LEMMA SettingsInitIInv == SettingsInit => SettingsIInv
<1> SUFFICES ASSUME SettingsInit PROVE SettingsIInv
  OBVIOUS
<1>1. nvs \in Held /\ ram = nvs
  BY DEF SettingsInit, Held, Brightness
<1>2. watch = Applied(nvs) /\ watch \in Watches /\ (watch.inverted <=> watch.rotated)
  BY <1>1, AppliedWatches DEF SettingsInit
<1>3. now \in Dates /\ Exists(now) /\ picked \in [time : Dates, touched : BOOLEAN] /\ picked.time = now
  BY SettingsAssumption DEF SettingsInit, Dates, Exists
<1>4. elements = NoElements /\ picker = NoPicker /\ switched = {} /\ leftInverted = FALSE
  BY DEF SettingsInit
<1>5. HeldTypes /\ PickerTypes
  BY <1>1, <1>2, <1>3, <1>4 DEF HeldTypes, PickerTypes
<1>6. ClosedTogether /\ SettingsTake /\ OthersStay /\ KeysFollow /\ KeysBack
  BY <1>1, <1>2, <1>4 DEF ClosedTogether, SettingsTake, OthersStay, KeysFollow, KeysBack
<1>7. PickerTells
  BY <1>3, <1>4 DEF PickerTells
<1> QED BY <1>5, <1>6, <1>7 DEF SettingsIInv

(* Each part of the invariant is kept by every step: the types,            *)
LEMMA SettingsStepHeld == SettingsIInv /\ [SettingsNext]_settingsVars => HeldTypes'
<1> SUFFICES ASSUME SettingsIInv, [SettingsNext]_settingsVars PROVE HeldTypes'
  OBVIOUS
<1> USE DEF SettingsIInv
<1>1. CASE Open
  BY <1>1, OpenDoes, NoneAreNone, AppliedWatches DEF HeldTypes
<1>2. ASSUME NEW s \in Switches, Switch(s) PROVE HeldTypes'
  BY <1>2, SwitchDoes, NoneAreNone, AppliedWatches DEF HeldTypes
<1>3. CASE Slide
  BY <1>3, SlideDoes, NoneAreNone, AppliedWatches DEF HeldTypes
<1>4. CASE SaveAndExit
  BY <1>4, NoneAreNone, AppliedWatches DEF SaveAndExit, Clickable, HeldTypes
<1>5. CASE PickTime
  BY <1>5, PickTimeDoes, NoneAreNone, AppliedWatches DEF HeldTypes
<1>6. ASSUME NEW f \in {"hour", "day", "year"}, Edit(f) PROVE HeldTypes'
  BY <1>6, EditDoes, NoneAreNone, AppliedWatches DEF HeldTypes
<1>7. CASE Turn
  BY <1>7, TurnDoes, NoneAreNone, AppliedWatches DEF HeldTypes
<1>8. CASE EndEdit
  BY <1>8, EndEditDoes, NoneAreNone, AppliedWatches DEF HeldTypes
<1>9. CASE Roll
  BY <1>9, RollDoes, NoneAreNone, AppliedWatches DEF HeldTypes
<1>10. CASE SaveTime
  BY <1>10, SaveTimeDoes, NoneAreNone, AppliedWatches DEF HeldTypes
<1>11. CASE ClosePicker
  BY <1>11, NoneAreNone, AppliedWatches DEF ClosePicker, HeldTypes
<1>12. CASE OnStop
  BY <1>12, OnStopDoes, NoneAreNone, AppliedWatches DEF HeldTypes
<1>13. CASE Restart
  BY <1>13, RestartDoes, NoneAreNone, AppliedWatches DEF HeldTypes
<1>14. CASE UNCHANGED settingsVars
  BY <1>14, NoneAreNone, AppliedWatches DEF settingsVars, HeldTypes
<1> QED BY <1>1, <1>2, <1>3, <1>4, <1>5, <1>6, <1>7, <1>8, <1>9, <1>10, <1>11, <1>12, <1>13, <1>14 DEF SettingsNext

(* nothing open off the screen,                                            *)
LEMMA SettingsStepClosed == SettingsIInv /\ [SettingsNext]_settingsVars => ClosedTogether'
<1> SUFFICES ASSUME SettingsIInv, [SettingsNext]_settingsVars PROVE ClosedTogether'
  OBVIOUS
<1> USE DEF SettingsIInv
<1>1. CASE Open
  BY <1>1, OpenDoes, NoneAreNone, AppliedWatches DEF ClosedTogether, HeldTypes
<1>2. ASSUME NEW s \in Switches, Switch(s) PROVE ClosedTogether'
  BY <1>2, SwitchDoes, NoneAreNone, AppliedWatches DEF ClosedTogether, HeldTypes
<1>3. CASE Slide
  BY <1>3, SlideDoes, NoneAreNone, AppliedWatches DEF ClosedTogether, HeldTypes
<1>4. CASE SaveAndExit
  BY <1>4, NoneAreNone, AppliedWatches DEF SaveAndExit, Clickable, ClosedTogether, HeldTypes
<1>5. CASE PickTime
  BY <1>5, PickTimeDoes, NoneAreNone, AppliedWatches DEF ClosedTogether, HeldTypes
<1>6. ASSUME NEW f \in {"hour", "day", "year"}, Edit(f) PROVE ClosedTogether'
  BY <1>6, EditDoes, NoneAreNone, AppliedWatches DEF ClosedTogether, HeldTypes
<1>7. CASE Turn
  BY <1>7, TurnDoes, NoneAreNone, AppliedWatches DEF ClosedTogether, HeldTypes
<1>8. CASE EndEdit
  BY <1>8, EndEditDoes, NoneAreNone, AppliedWatches DEF ClosedTogether, HeldTypes
<1>9. CASE Roll
  BY <1>9, RollDoes, NoneAreNone, AppliedWatches DEF ClosedTogether, HeldTypes
<1>10. CASE SaveTime
  BY <1>10, SaveTimeDoes, NoneAreNone, AppliedWatches DEF ClosedTogether, HeldTypes
<1>11. CASE ClosePicker
  BY <1>11, NoneAreNone, AppliedWatches DEF ClosePicker, ClosedTogether, HeldTypes
<1>12. CASE OnStop
  BY <1>12, OnStopDoes, NoneAreNone, AppliedWatches DEF ClosedTogether, HeldTypes
<1>13. CASE Restart
  BY <1>13, RestartDoes, NoneAreNone, AppliedWatches DEF ClosedTogether, HeldTypes
<1>14. CASE UNCHANGED settingsVars
  BY <1>14, NoneAreNone, AppliedWatches DEF settingsVars, ClosedTogether, HeldTypes
<1> QED BY <1>1, <1>2, <1>3, <1>4, <1>5, <1>6, <1>7, <1>8, <1>9, <1>10, <1>11, <1>12, <1>13, <1>14 DEF SettingsNext

(* a setting takes where it is held,                                       *)
LEMMA SettingsStepTake == SettingsIInv /\ [SettingsNext]_settingsVars => SettingsTake'
<1> SUFFICES ASSUME SettingsIInv, [SettingsNext]_settingsVars PROVE SettingsTake'
  OBVIOUS
<1> USE DEF SettingsIInv
<1>1. CASE Open
  BY <1>1, OpenDoes, NoneAreNone, AppliedWatches DEF SettingsTake, ClosedTogether
<1>2. ASSUME NEW s \in Switches, Switch(s) PROVE SettingsTake'
  BY <1>2, SwitchDoes, NoneAreNone, AppliedWatches DEF SettingsTake, ClosedTogether
<1>3. CASE Slide
  BY <1>3, SlideDoes, NoneAreNone, AppliedWatches DEF SettingsTake, ClosedTogether
<1>4. CASE SaveAndExit
  BY <1>4, NoneAreNone, AppliedWatches DEF SaveAndExit, Clickable, SettingsTake, ClosedTogether
<1>5. CASE PickTime
  BY <1>5, PickTimeDoes, NoneAreNone, AppliedWatches DEF SettingsTake, ClosedTogether
<1>6. ASSUME NEW f \in {"hour", "day", "year"}, Edit(f) PROVE SettingsTake'
  BY <1>6, EditDoes, NoneAreNone, AppliedWatches DEF SettingsTake, ClosedTogether
<1>7. CASE Turn
  BY <1>7, TurnDoes, NoneAreNone, AppliedWatches DEF SettingsTake, ClosedTogether
<1>8. CASE EndEdit
  BY <1>8, EndEditDoes, NoneAreNone, AppliedWatches DEF SettingsTake, ClosedTogether
<1>9. CASE Roll
  BY <1>9, RollDoes, NoneAreNone, AppliedWatches DEF SettingsTake, ClosedTogether
<1>10. CASE SaveTime
  BY <1>10, SaveTimeDoes, NoneAreNone, AppliedWatches DEF SettingsTake, ClosedTogether
<1>11. CASE ClosePicker
  BY <1>11, NoneAreNone, AppliedWatches DEF ClosePicker, SettingsTake, ClosedTogether
<1>12. CASE OnStop
  BY <1>12, OnStopDoes, NoneAreNone, AppliedWatches DEF SettingsTake, ClosedTogether
<1>13. CASE Restart
  BY <1>13, RestartDoes, NoneAreNone, AppliedWatches DEF SettingsTake, ClosedTogether
<1>14. CASE UNCHANGED settingsVars
  BY <1>14, NoneAreNone, AppliedWatches DEF settingsVars, SettingsTake, ClosedTogether
<1> QED BY <1>1, <1>2, <1>3, <1>4, <1>5, <1>6, <1>7, <1>8, <1>9, <1>10, <1>11, <1>12, <1>13, <1>14 DEF SettingsNext

(* and the others stay,                                                    *)
LEMMA SettingsStepStay == SettingsIInv /\ [SettingsNext]_settingsVars => OthersStay'
<1> SUFFICES ASSUME SettingsIInv, [SettingsNext]_settingsVars PROVE OthersStay'
  OBVIOUS
<1> USE DEF SettingsIInv
<1>1. CASE Open
  BY <1>1, OpenDoes, NoneAreNone, AppliedWatches DEF OthersStay, ClosedTogether, SettingsTake
<1>2. ASSUME NEW s \in Switches, Switch(s) PROVE OthersStay'
  <2>1. /\ elements # NoElements /\ elements \in Held /\ elements' \in Held /\ nvs' = nvs
        /\ elements'[s] = ~elements[s] /\ \A c \in Switches \ {s} : elements'[c] = elements[c]
        /\ switched' = (IF s \in switched THEN switched \ {s} ELSE switched \cup {s})
    BY <1>2, SwitchDoes
  <2>2. \A c \in Switches : elements[c] \in BOOLEAN /\ nvs[c] \in BOOLEAN /\ (elements[c] # nvs[c] <=> c \in switched)
    BY <2>1, SwitchesHeld DEF OthersStay, HeldTypes
  <2>3. ASSUME NEW c \in Switches PROVE elements'[c] # nvs'[c] <=> c \in switched'
    <3>1. CASE c = s
      <4>1. (elements[s] # nvs[s]) <=> (s \in switched)
        BY <2>2
      <4>2. ((~elements[s]) # nvs[s]) <=> ~(elements[s] # nvs[s])
        BY <2>2
      <4>3. s \in switched' <=> s \notin switched
        BY <2>1
      <4>4. elements'[c] = ~elements[s] /\ nvs'[c] = nvs[s]
        BY <2>1, <3>1
      <4>6. (elements'[c] # nvs'[c]) <=> ((~elements[s]) # nvs[s])
        BY <4>4
      <4>5. (elements'[c] # nvs'[c]) <=> (s \notin switched)
        BY <4>1, <4>2, <4>6
      <4> QED BY <3>1, <4>3, <4>5
    <3>2. CASE c # s
      <4>1. c \in switched' <=> c \in switched
        BY <2>1, <3>2
      <4> QED BY <2>1, <2>2, <3>2, <4>1
    <3> QED BY <3>1, <3>2
  <2> QED BY <2>3 DEF OthersStay
<1>3. CASE Slide
  BY <1>3, SlideDoes, NoneAreNone, AppliedWatches DEF OthersStay, ClosedTogether, SettingsTake
<1>4. CASE SaveAndExit
  BY <1>4, NoneAreNone, AppliedWatches DEF SaveAndExit, Clickable, OthersStay, ClosedTogether, SettingsTake
<1>5. CASE PickTime
  BY <1>5, PickTimeDoes, NoneAreNone, AppliedWatches DEF OthersStay, ClosedTogether, SettingsTake
<1>6. ASSUME NEW f \in {"hour", "day", "year"}, Edit(f) PROVE OthersStay'
  BY <1>6, EditDoes, NoneAreNone, AppliedWatches DEF OthersStay, ClosedTogether, SettingsTake
<1>7. CASE Turn
  BY <1>7, TurnDoes, NoneAreNone, AppliedWatches DEF OthersStay, ClosedTogether, SettingsTake
<1>8. CASE EndEdit
  BY <1>8, EndEditDoes, NoneAreNone, AppliedWatches DEF OthersStay, ClosedTogether, SettingsTake
<1>9. CASE Roll
  BY <1>9, RollDoes, NoneAreNone, AppliedWatches DEF OthersStay, ClosedTogether, SettingsTake
<1>10. CASE SaveTime
  BY <1>10, SaveTimeDoes, NoneAreNone, AppliedWatches DEF OthersStay, ClosedTogether, SettingsTake
<1>11. CASE ClosePicker
  BY <1>11, NoneAreNone, AppliedWatches DEF ClosePicker, OthersStay, ClosedTogether, SettingsTake
<1>12. CASE OnStop
  BY <1>12, OnStopDoes, NoneAreNone, AppliedWatches DEF OthersStay, ClosedTogether, SettingsTake
<1>13. CASE Restart
  BY <1>13, RestartDoes, NoneAreNone, AppliedWatches DEF OthersStay, ClosedTogether, SettingsTake
<1>14. CASE UNCHANGED settingsVars
  BY <1>14, NoneAreNone, AppliedWatches DEF settingsVars, OthersStay, ClosedTogether, SettingsTake
<1> QED BY <1>1, <1>2, <1>3, <1>4, <1>5, <1>6, <1>7, <1>8, <1>9, <1>10, <1>11, <1>12, <1>13, <1>14 DEF SettingsNext

(* the keys follow the screen's turn,                                      *)
LEMMA SettingsStepKeys == SettingsIInv /\ [SettingsNext]_settingsVars => KeysFollow'
<1> SUFFICES ASSUME SettingsIInv, [SettingsNext]_settingsVars PROVE KeysFollow'
  OBVIOUS
<1> USE DEF SettingsIInv
<1>1. CASE Open
  BY <1>1, OpenDoes, NoneAreNone, AppliedWatches DEF KeysFollow, KeysBack, ClosedTogether, SettingsTake, HeldTypes
<1>2. ASSUME NEW s \in Switches, Switch(s) PROVE KeysFollow'
  BY <1>2, SwitchDoes, NoneAreNone, AppliedWatches DEF KeysFollow, KeysBack, ClosedTogether, SettingsTake, HeldTypes
<1>3. CASE Slide
  BY <1>3, SlideDoes, NoneAreNone, AppliedWatches DEF KeysFollow, KeysBack, ClosedTogether, SettingsTake, HeldTypes
<1>4. CASE SaveAndExit
  BY <1>4, NoneAreNone, AppliedWatches DEF SaveAndExit, Clickable, KeysFollow, KeysBack, ClosedTogether, SettingsTake, HeldTypes
<1>5. CASE PickTime
  BY <1>5, PickTimeDoes, NoneAreNone, AppliedWatches DEF KeysFollow, KeysBack, ClosedTogether, SettingsTake, HeldTypes
<1>6. ASSUME NEW f \in {"hour", "day", "year"}, Edit(f) PROVE KeysFollow'
  BY <1>6, EditDoes, NoneAreNone, AppliedWatches DEF KeysFollow, KeysBack, ClosedTogether, SettingsTake, HeldTypes
<1>7. CASE Turn
  BY <1>7, TurnDoes, NoneAreNone, AppliedWatches DEF KeysFollow, KeysBack, ClosedTogether, SettingsTake, HeldTypes
<1>8. CASE EndEdit
  BY <1>8, EndEditDoes, NoneAreNone, AppliedWatches DEF KeysFollow, KeysBack, ClosedTogether, SettingsTake, HeldTypes
<1>9. CASE Roll
  BY <1>9, RollDoes, NoneAreNone, AppliedWatches DEF KeysFollow, KeysBack, ClosedTogether, SettingsTake, HeldTypes
<1>10. CASE SaveTime
  BY <1>10, SaveTimeDoes, NoneAreNone, AppliedWatches DEF KeysFollow, KeysBack, ClosedTogether, SettingsTake, HeldTypes
<1>11. CASE ClosePicker
  BY <1>11, NoneAreNone, AppliedWatches DEF ClosePicker, KeysFollow, KeysBack, ClosedTogether, SettingsTake, HeldTypes
<1>12. CASE OnStop
  BY <1>12, OnStopDoes, NoneAreNone, AppliedWatches DEF KeysFollow, KeysBack, ClosedTogether, SettingsTake, HeldTypes
<1>13. CASE Restart
  BY <1>13, RestartDoes, NoneAreNone, AppliedWatches DEF KeysFollow, KeysBack, ClosedTogether, SettingsTake, HeldTypes
<1>14. CASE UNCHANGED settingsVars
  BY <1>14, NoneAreNone, AppliedWatches DEF settingsVars, KeysFollow, KeysBack, ClosedTogether, SettingsTake, HeldTypes
<1> QED BY <1>1, <1>2, <1>3, <1>4, <1>5, <1>6, <1>7, <1>8, <1>9, <1>10, <1>11, <1>12, <1>13, <1>14 DEF SettingsNext

(* and are given back,                                                     *)
LEMMA SettingsStepBack == SettingsIInv /\ [SettingsNext]_settingsVars => KeysBack'
<1> SUFFICES ASSUME SettingsIInv, [SettingsNext]_settingsVars PROVE KeysBack'
  OBVIOUS
<1> USE DEF SettingsIInv
<1>1. CASE Open
  BY <1>1, OpenDoes, NoneAreNone, AppliedWatches DEF KeysFollow, KeysBack, ClosedTogether
<1>2. ASSUME NEW s \in Switches, Switch(s) PROVE KeysBack'
  BY <1>2, SwitchDoes, NoneAreNone, AppliedWatches DEF KeysFollow, KeysBack, ClosedTogether
<1>3. CASE Slide
  BY <1>3, SlideDoes, NoneAreNone, AppliedWatches DEF KeysFollow, KeysBack, ClosedTogether
<1>4. CASE SaveAndExit
  BY <1>4, NoneAreNone, AppliedWatches DEF SaveAndExit, Clickable, KeysFollow, KeysBack, ClosedTogether
<1>5. CASE PickTime
  BY <1>5, PickTimeDoes, NoneAreNone, AppliedWatches DEF KeysFollow, KeysBack, ClosedTogether
<1>6. ASSUME NEW f \in {"hour", "day", "year"}, Edit(f) PROVE KeysBack'
  BY <1>6, EditDoes, NoneAreNone, AppliedWatches DEF KeysFollow, KeysBack, ClosedTogether
<1>7. CASE Turn
  BY <1>7, TurnDoes, NoneAreNone, AppliedWatches DEF KeysFollow, KeysBack, ClosedTogether
<1>8. CASE EndEdit
  BY <1>8, EndEditDoes, NoneAreNone, AppliedWatches DEF KeysFollow, KeysBack, ClosedTogether
<1>9. CASE Roll
  BY <1>9, RollDoes, NoneAreNone, AppliedWatches DEF KeysFollow, KeysBack, ClosedTogether
<1>10. CASE SaveTime
  BY <1>10, SaveTimeDoes, NoneAreNone, AppliedWatches DEF KeysFollow, KeysBack, ClosedTogether
<1>11. CASE ClosePicker
  BY <1>11, NoneAreNone, AppliedWatches DEF ClosePicker, KeysFollow, KeysBack, ClosedTogether
<1>12. CASE OnStop
  BY <1>12, OnStopDoes, NoneAreNone, AppliedWatches DEF KeysFollow, KeysBack, ClosedTogether
<1>13. CASE Restart
  BY <1>13, RestartDoes, NoneAreNone, AppliedWatches DEF KeysFollow, KeysBack, ClosedTogether
<1>14. CASE UNCHANGED settingsVars
  BY <1>14, NoneAreNone, AppliedWatches DEF settingsVars, KeysFollow, KeysBack, ClosedTogether
<1> QED BY <1>1, <1>2, <1>3, <1>4, <1>5, <1>6, <1>7, <1>8, <1>9, <1>10, <1>11, <1>12, <1>13, <1>14 DEF SettingsNext

(* the picker's types,                                                     *)
LEMMA SettingsStepPicker == SettingsIInv /\ [SettingsNext]_settingsVars => PickerTypes'
<1> SUFFICES ASSUME SettingsIInv, [SettingsNext]_settingsVars PROVE PickerTypes'
  OBVIOUS
<1> USE DEF SettingsIInv
<1>1. CASE Open
  BY <1>1, OpenDoes, NoneAreNone, AppliedWatches DEF PickerTypes
<1>2. ASSUME NEW s \in Switches, Switch(s) PROVE PickerTypes'
  BY <1>2, SwitchDoes, NoneAreNone, AppliedWatches DEF PickerTypes
<1>3. CASE Slide
  BY <1>3, SlideDoes, NoneAreNone, AppliedWatches DEF PickerTypes
<1>4. CASE SaveAndExit
  BY <1>4, NoneAreNone, AppliedWatches DEF SaveAndExit, Clickable, PickerTypes
<1>5. CASE PickTime
  <2>1. picker' \in Pickers /\ picked' = [time |-> now, touched |-> FALSE] /\ now' = now
    BY <1>5, PickTimeDoes
  <2>2. picked' \in [time : Dates, touched : BOOLEAN]
    BY <2>1 DEF PickerTypes
  <2> QED BY <2>1, <2>2 DEF PickerTypes
<1>6. ASSUME NEW f \in {"hour", "day", "year"}, Edit(f) PROVE PickerTypes'
  BY <1>6, EditDoes, NoneAreNone, AppliedWatches DEF PickerTypes
<1>7. CASE Turn
  BY <1>7, TurnDoes, NoneAreNone, AppliedWatches DEF PickerTypes
<1>8. CASE EndEdit
  BY <1>8, EndEditDoes, NoneAreNone, AppliedWatches DEF PickerTypes
<1>9. CASE Roll
  BY <1>9, RollDoes, NoneAreNone, AppliedWatches DEF PickerTypes
<1>10. CASE SaveTime
  BY <1>10, SaveTimeDoes, NoneAreNone, AppliedWatches DEF PickerTypes
<1>11. CASE ClosePicker
  BY <1>11, NoneAreNone, AppliedWatches DEF ClosePicker, PickerTypes
<1>12. CASE OnStop
  BY <1>12, OnStopDoes, NoneAreNone, AppliedWatches DEF PickerTypes
<1>13. CASE Restart
  BY <1>13, RestartDoes, NoneAreNone, AppliedWatches DEF PickerTypes
<1>14. CASE UNCHANGED settingsVars
  BY <1>14, NoneAreNone, AppliedWatches DEF settingsVars, PickerTypes
<1> QED BY <1>1, <1>2, <1>3, <1>4, <1>5, <1>6, <1>7, <1>8, <1>9, <1>10, <1>11, <1>12, <1>13, <1>14 DEF SettingsNext

(* and the time it stands for.                                             *)
LEMMA SettingsStepTells == SettingsIInv /\ [SettingsNext]_settingsVars => PickerTells'
<1> SUFFICES ASSUME SettingsIInv, [SettingsNext]_settingsVars PROVE PickerTells'
  OBVIOUS
<1> USE DEF SettingsIInv
<1>1. CASE Open
  BY <1>1, OpenDoes, NoneAreNone, AppliedWatches DEF PickerTells, Exists, HourOf, ClosedTogether
<1>2. ASSUME NEW s \in Switches, Switch(s) PROVE PickerTells'
  BY <1>2, SwitchDoes, NoneAreNone, AppliedWatches DEF PickerTells, Exists, HourOf, ClosedTogether
<1>3. CASE Slide
  BY <1>3, SlideDoes, NoneAreNone, AppliedWatches DEF PickerTells, Exists, HourOf, ClosedTogether
<1>4. CASE SaveAndExit
  BY <1>4, NoneAreNone, AppliedWatches DEF SaveAndExit, Clickable, PickerTells, Exists, HourOf, ClosedTogether
<1>5. CASE PickTime
  BY <1>5, PickTimeDoes, NoneAreNone, AppliedWatches DEF PickerTells, Exists, HourOf, ClosedTogether
<1>6. ASSUME NEW f \in {"hour", "day", "year"}, Edit(f) PROVE PickerTells'
  BY <1>6, EditDoes, NoneAreNone, AppliedWatches DEF PickerTells, Exists, HourOf, ClosedTogether
<1>7. CASE Turn
  BY <1>7, TurnDoes, NoneAreNone, AppliedWatches DEF PickerTells, Exists, HourOf, ClosedTogether
<1>8. CASE EndEdit
  BY <1>8, EndEditDoes, NoneAreNone, AppliedWatches DEF PickerTells, Exists, HourOf, ClosedTogether
<1>9. CASE Roll
  BY <1>9, RollDoes, NoneAreNone, AppliedWatches DEF PickerTells, Exists, HourOf, ClosedTogether
<1>10. CASE SaveTime
  BY <1>10, SaveTimeDoes, NoneAreNone, AppliedWatches DEF PickerTells, Exists, HourOf, ClosedTogether
<1>11. CASE ClosePicker
  BY <1>11, NoneAreNone, AppliedWatches DEF ClosePicker, PickerTells, Exists, HourOf, ClosedTogether
<1>12. CASE OnStop
  BY <1>12, OnStopDoes, NoneAreNone, AppliedWatches DEF PickerTells, Exists, HourOf, ClosedTogether
<1>13. CASE Restart
  BY <1>13, RestartDoes, NoneAreNone, AppliedWatches DEF PickerTells, Exists, HourOf, ClosedTogether
<1>14. CASE UNCHANGED settingsVars
  BY <1>14, NoneAreNone, AppliedWatches DEF settingsVars, PickerTells, Exists, HourOf, ClosedTogether
<1> QED BY <1>1, <1>2, <1>3, <1>4, <1>5, <1>6, <1>7, <1>8, <1>9, <1>10, <1>11, <1>12, <1>13, <1>14 DEF SettingsNext

LEMMA SettingsStepIInv == SettingsIInv /\ [SettingsNext]_settingsVars => SettingsIInv'
BY SettingsStepHeld, SettingsStepClosed, SettingsStepTake, SettingsStepStay, SettingsStepKeys, SettingsStepBack,
   SettingsStepPicker, SettingsStepTells DEF SettingsIInv

(* The invariant says what the run checks.                                 *)
LEMMA SettingsInvFollows == SettingsIInv => SettingsInv
<1> SUFFICES ASSUME SettingsIInv PROVE SettingsInv
  OBVIOUS
<1>1. SettingsTypeOK
  BY SwitchesHeld DEF SettingsIInv, HeldTypes, PickerTypes, Held, Dates, SettingsTypeOK
<1>2. TimeStands
  <2>1. now.month \in 0 .. 11 /\ now.year \in Years /\ now.day \in 1 .. 31
    BY DEF SettingsIInv, PickerTypes, Dates
  <2>2. now.day <= DaysLimit(now.month, now.year) /\ (~picked.touched => now = picked.time)
    BY DEF SettingsIInv, PickerTells, Exists
  <2>3. Leap(now.year) <=> LongFebruary(now.year)
    BY <2>1, LeapByCenturies
  <2>4. DaysLimit(now.month, now.year) = (CASE now.month = 1 -> IF LongFebruary(now.year) THEN 29 ELSE 28
                   [] now.month \in {3, 5, 8, 10} -> 30 [] OTHER -> 31)
    <3>1. \A m \in 0 .. 11 : DaysInMonth[m + 1] = (CASE m = 1 -> 28 [] m \in {3, 5, 8, 10} -> 30 [] OTHER -> 31)
      BY DEF DaysInMonth
    <3> QED BY <2>1, <2>3, <3>1 DEF DaysLimit
  <2> QED BY <2>2, <2>4 DEF TimeStands
<1> QED BY <1>1, <1>2 DEF SettingsIInv, SettingsInv

-----------------------------------------------------------------------------
USE DiceAssumption

(* The dice: what the reader has counted since the last roll was begun.    *)
DiceTypes ==
  /\ DiceTypeOK /\ dice \in [1 .. MaxDice -> 1 .. Sides] /\ calm \in 0 .. StillSamples
  /\ readPc \in {"sample", "hit", "nohit", "jolt", "still", "flag", "arm"}
  /\ dicePc \in {"loop", "start", "still", "clear"} /\ holding \in {"no", "new", "yes"}
  /\ dicePc # "loop" => ~rolling

(* The flags of the two threads, and the history's.                        *)
DiceFlags ==
  /\ armed \in BOOLEAN /\ shakeFlag \in BOOLEAN /\ rolling \in BOOLEAN /\ late \in BOOLEAN /\ raced \in BOOLEAN
  /\ restless \in BOOLEAN

(* The watch has not been still for long enough since the last roll began, *)
(* and no roll was begun while the reader was at a sample.                 *)
Restless == ~raced /\ calm < StillSamples

(* Until the watch was still for long enough the detector is not armed,    *)
(* and counts no more still samples than there were.                       *)
CountsStill ==
  Restless =>
    /\ ~armed /\ readPc # "arm"
    /\ readPc = "still" => calm > 0
    /\ dicePc # "still" /\ readPc # "jolt" => stillCount + (IF readPc = "still" THEN 1 ELSE 0) <= calm

(* And no shake is about when a roll's result was read, but one the reader *)
(* was at before.                                                          *)
LooksAfter ==
  Restless =>
    /\ readPc \in {"hit", "nohit", "flag"} => late
    /\ dicePc = "loop" /\ ~rolling /\ holding # "new" => ~shakeFlag /\ readPc \notin {"hit", "flag"}

(* The invariant of the dice.                                              *)
DiceIInv == DiceTypes /\ DiceFlags /\ CountsStill /\ LooksAfter /\ OneShakeOneRoll /\ TotalShown

LEMMA DiceInitIInv == DiceInit => DiceIInv
<1> SUFFICES ASSUME DiceInit PROVE DiceIInv
  OBVIOUS
<1>1. DiceTypes
  BY DEF DiceInit, DiceTypes, DiceTypeOK
<1>2. DiceFlags
  BY DEF DiceInit, DiceFlags
<1>3. CountsStill /\ LooksAfter
  BY DEF DiceInit, CountsStill, LooksAfter, Restless
<1>4. OneShakeOneRoll /\ TotalShown
  BY DEF DiceInit, OneShakeOneRoll, TotalShown
<1> QED BY <1>1, <1>2, <1>3, <1>4 DEF DiceIInv

(* Each part of the invariant is kept by every step: the types,            *)
LEMMA DiceStepTypes == DiceIInv /\ [DiceNext]_diceVars => DiceTypes'
<1> SUFFICES ASSUME DiceIInv, [DiceNext]_diceVars PROVE DiceTypes'
  OBVIOUS
<1> USE DEF DiceIInv, shakeVars, rollVars, DiceTypes, DiceTypeOK
<1>1. ASSUME NEW jolt \in BOOLEAN, Sample(jolt) PROVE DiceTypes'
  BY <1>1 DEF Sample
<1>2. CASE Reader /\ Armed
  BY <1>2 DEF Reader, Armed
<1>3. CASE Reader /\ Disarmed /\ readPc = "jolt"
  BY <1>3 DEF Reader, Disarmed
<1>4. CASE Reader /\ Disarmed /\ readPc = "still" /\ stillCount + 1 < StillSamples
  BY <1>4 DEF Reader, Disarmed
<1>5. CASE Reader /\ Disarmed /\ readPc = "still" /\ stillCount + 1 >= StillSamples
  BY <1>5 DEF Reader, Disarmed
<1>6. CASE Reader /\ Disarmed /\ readPc = "arm"
  BY <1>6 DEF Reader, Disarmed
<1>7. CASE Reader /\ readPc = "flag" /\ readPc' = "sample" /\ shakeFlag' = TRUE /\ UNCHANGED <<hits, stillCount, armed>>
  BY <1>7 DEF Reader
<1>8. CASE StartRoll /\ UNCHANGED readPc /\ dicePc = "start"
  BY <1>8 DEF StartRoll
<1>9. CASE StartRoll /\ UNCHANGED readPc /\ dicePc = "still"
  BY <1>9 DEF StartRoll
<1>10. CASE StartRoll /\ UNCHANGED readPc /\ dicePc = "clear"
  BY <1>10 DEF StartRoll
<1>11. ASSUME NEW b \in {"select", "up", "down"}, Input(b), UNCHANGED readPc PROVE DiceTypes'
  BY <1>11 DEF Input, Press
<1>12. CASE Rolls /\ UNCHANGED readPc
  <2>1. dice' \in [1 .. MaxDice -> 1 .. Sides]
    BY <1>12 DEF Rolls, RandomizeFaces
  <2> QED BY <1>12, <2>1 DEF Rolls
<1>13. CASE TakesShake /\ UNCHANGED readPc
  BY <1>13 DEF TakesShake, Press
<1>14. CASE HoldOver /\ UNCHANGED readPc
  BY <1>14 DEF HoldOver
<1>15. CASE UNCHANGED diceVars
  BY <1>15 DEF diceVars
<1> QED BY <1>1, <1>2, <1>3, <1>4, <1>5, <1>6, <1>7, <1>8, <1>9, <1>10, <1>11, <1>12, <1>13, <1>14, <1>15 DEF DiceNext, Reader, Disarmed, StartRoll

(* the flags,                                                              *)
LEMMA DiceStepFlags == DiceIInv /\ [DiceNext]_diceVars => DiceFlags'
<1> SUFFICES ASSUME DiceIInv, [DiceNext]_diceVars PROVE DiceFlags'
  OBVIOUS
<1> USE DEF DiceIInv, shakeVars, rollVars, DiceFlags
<1>1. ASSUME NEW jolt \in BOOLEAN, Sample(jolt) PROVE DiceFlags'
  BY <1>1 DEF Sample
<1>2. CASE Reader /\ Armed
  BY <1>2 DEF Reader, Armed
<1>3. CASE Reader /\ Disarmed /\ readPc = "jolt"
  BY <1>3 DEF Reader, Disarmed
<1>4. CASE Reader /\ Disarmed /\ readPc = "still" /\ stillCount + 1 < StillSamples
  BY <1>4 DEF Reader, Disarmed
<1>5. CASE Reader /\ Disarmed /\ readPc = "still" /\ stillCount + 1 >= StillSamples
  BY <1>5 DEF Reader, Disarmed
<1>6. CASE Reader /\ Disarmed /\ readPc = "arm"
  BY <1>6 DEF Reader, Disarmed
<1>7. CASE Reader /\ readPc = "flag" /\ readPc' = "sample" /\ shakeFlag' = TRUE /\ UNCHANGED <<hits, stillCount, armed>>
  BY <1>7 DEF Reader
<1>8. CASE StartRoll /\ UNCHANGED readPc /\ dicePc = "start"
  <2>1. late' \in BOOLEAN /\ raced' \in BOOLEAN
    BY <1>8 DEF StartRoll
  <2>2. armed' \in BOOLEAN /\ UNCHANGED <<shakeFlag, rolling, restless>>
    BY <1>8 DEF StartRoll
  <2> QED BY <2>1, <2>2
<1>9. CASE StartRoll /\ UNCHANGED readPc /\ dicePc = "still"
  BY <1>9 DEF StartRoll
<1>10. CASE StartRoll /\ UNCHANGED readPc /\ dicePc = "clear"
  BY <1>10 DEF StartRoll
<1>11. ASSUME NEW b \in {"select", "up", "down"}, Input(b), UNCHANGED readPc PROVE DiceFlags'
  BY <1>11 DEF Input, Press
<1>12. CASE Rolls /\ UNCHANGED readPc
  BY <1>12 DEF Rolls
<1>13. CASE TakesShake /\ UNCHANGED readPc
  BY <1>13 DEF TakesShake, Press
<1>14. CASE HoldOver /\ UNCHANGED readPc
  BY <1>14 DEF HoldOver
<1>15. CASE UNCHANGED diceVars
  BY <1>15 DEF diceVars
<1> QED BY <1>1, <1>2, <1>3, <1>4, <1>5, <1>6, <1>7, <1>8, <1>9, <1>10, <1>11, <1>12, <1>13, <1>14, <1>15 DEF DiceNext, Reader, Disarmed, StartRoll

(* the count of still samples,                                             *)
LEMMA DiceStepCounts == DiceIInv /\ [DiceNext]_diceVars => CountsStill'
<1> SUFFICES ASSUME DiceIInv, [DiceNext]_diceVars PROVE CountsStill'
  OBVIOUS
<1> USE DEF DiceIInv, shakeVars, rollVars, CountsStill, Restless, DiceTypes, DiceTypeOK
<1>1. ASSUME NEW jolt \in BOOLEAN, Sample(jolt) PROVE CountsStill'
  BY <1>1 DEF Sample
<1>2. CASE Reader /\ Armed
  BY <1>2 DEF Reader, Armed
<1>3. CASE Reader /\ Disarmed /\ readPc = "jolt"
  <2>1. Restless' => Restless /\ ~(dicePc = "still" /\ readPc \in {"still", "arm"})
    BY <1>3 DEF Reader, Restless
  <2>2. UNCHANGED <<dicePc, calm>>
    BY <1>3 DEF Reader
  <2> QED BY <1>3, <2>1, <2>2 DEF Disarmed
<1>4. CASE Reader /\ Disarmed /\ readPc = "still" /\ stillCount + 1 < StillSamples
  <2>1. Restless' => Restless /\ ~(dicePc = "still" /\ readPc \in {"still", "arm"})
    BY <1>4 DEF Reader, Restless
  <2>2. UNCHANGED <<dicePc, calm>>
    BY <1>4 DEF Reader
  <2> QED BY <1>4, <2>1, <2>2 DEF Disarmed
<1>5. CASE Reader /\ Disarmed /\ readPc = "still" /\ stillCount + 1 >= StillSamples
  <2>1. Restless' => Restless /\ ~(dicePc = "still" /\ readPc \in {"still", "arm"})
    BY <1>5 DEF Reader, Restless
  <2>2. UNCHANGED <<dicePc, calm>>
    BY <1>5 DEF Reader
  <2> QED BY <1>5, <2>1, <2>2 DEF Disarmed
<1>6. CASE Reader /\ Disarmed /\ readPc = "arm"
  BY <1>6 DEF Reader, Disarmed
<1>7. CASE Reader /\ readPc = "flag" /\ readPc' = "sample" /\ shakeFlag' = TRUE /\ UNCHANGED <<hits, stillCount, armed>>
  BY <1>7 DEF Reader
<1>8. CASE StartRoll /\ UNCHANGED readPc /\ dicePc = "start"
  BY <1>8 DEF StartRoll
<1>9. CASE StartRoll /\ UNCHANGED readPc /\ dicePc = "still"
  BY <1>9 DEF StartRoll
<1>10. CASE StartRoll /\ UNCHANGED readPc /\ dicePc = "clear"
  BY <1>10 DEF StartRoll
<1>11. ASSUME NEW b \in {"select", "up", "down"}, Input(b), UNCHANGED readPc PROVE CountsStill'
  BY <1>11 DEF Input, Press
<1>12. CASE Rolls /\ UNCHANGED readPc
  BY <1>12 DEF Rolls
<1>13. CASE TakesShake /\ UNCHANGED readPc
  BY <1>13 DEF TakesShake, Press
<1>14. CASE HoldOver /\ UNCHANGED readPc
  BY <1>14 DEF HoldOver
<1>15. CASE UNCHANGED diceVars
  BY <1>15 DEF diceVars
<1> QED BY <1>1, <1>2, <1>3, <1>4, <1>5, <1>6, <1>7, <1>8, <1>9, <1>10, <1>11, <1>12, <1>13, <1>14, <1>15 DEF DiceNext, Reader, Disarmed, StartRoll

(* the shake that is left about,                                           *)
LEMMA DiceStepLooks == DiceIInv /\ [DiceNext]_diceVars => LooksAfter'
<1> SUFFICES ASSUME DiceIInv, [DiceNext]_diceVars PROVE LooksAfter'
  OBVIOUS
<1> USE DEF DiceIInv, shakeVars, rollVars, LooksAfter, CountsStill, Restless, DiceTypes, DiceTypeOK
<1>1. ASSUME NEW jolt \in BOOLEAN, Sample(jolt) PROVE LooksAfter'
  BY <1>1 DEF Sample
<1>2. CASE Reader /\ Armed
  <2>1. Restless' => Restless
    BY <1>2 DEF Reader, Restless
  <2>2. UNCHANGED <<dicePc, rolling, holding, shakeFlag>>
    BY <1>2 DEF Reader, Armed
  <2>3. readPc \in {"hit", "nohit"} /\ readPc' \in {"sample", "flag"} /\ (readPc' = "flag" => readPc = "hit")
    BY <1>2 DEF Armed
  <2>4. readPc' = "flag" => late' = late
    <3>1. late' = (late /\ readPc' # "sample")
      BY <1>2 DEF Reader
    <3> QED BY <3>1 DEF DiceFlags
  <2> QED BY <2>1, <2>2, <2>3, <2>4
<1>3. CASE Reader /\ Disarmed /\ readPc = "jolt"
  BY <1>3 DEF Reader, Disarmed
<1>4. CASE Reader /\ Disarmed /\ readPc = "still" /\ stillCount + 1 < StillSamples
  BY <1>4 DEF Reader, Disarmed
<1>5. CASE Reader /\ Disarmed /\ readPc = "still" /\ stillCount + 1 >= StillSamples
  BY <1>5 DEF Reader, Disarmed
<1>6. CASE Reader /\ Disarmed /\ readPc = "arm"
  BY <1>6 DEF Reader, Disarmed
<1>7. CASE Reader /\ readPc = "flag" /\ readPc' = "sample" /\ shakeFlag' = TRUE /\ UNCHANGED <<hits, stillCount, armed>>
  BY <1>7 DEF Reader
<1>8. CASE StartRoll /\ UNCHANGED readPc /\ dicePc = "start"
  BY <1>8 DEF StartRoll
<1>9. CASE StartRoll /\ UNCHANGED readPc /\ dicePc = "still"
  BY <1>9 DEF StartRoll
<1>10. CASE StartRoll /\ UNCHANGED readPc /\ dicePc = "clear"
  BY <1>10 DEF StartRoll
<1>11. ASSUME NEW b \in {"select", "up", "down"}, Input(b), UNCHANGED readPc PROVE LooksAfter'
  BY <1>11 DEF Input, Press
<1>12. CASE Rolls /\ UNCHANGED readPc
  BY <1>12 DEF Rolls
<1>13. CASE TakesShake /\ UNCHANGED readPc
  BY <1>13 DEF TakesShake, Press
<1>14. CASE HoldOver /\ UNCHANGED readPc
  BY <1>14 DEF HoldOver
<1>15. CASE UNCHANGED diceVars
  BY <1>15 DEF diceVars
<1> QED BY <1>1, <1>2, <1>3, <1>4, <1>5, <1>6, <1>7, <1>8, <1>9, <1>10, <1>11, <1>12, <1>13, <1>14, <1>15 DEF DiceNext, Reader, Disarmed, StartRoll

(* that one shake rolls once,                                              *)
LEMMA DiceStepOnce == DiceIInv /\ [DiceNext]_diceVars => OneShakeOneRoll'
<1> SUFFICES ASSUME DiceIInv, [DiceNext]_diceVars PROVE OneShakeOneRoll'
  OBVIOUS
<1> USE DEF DiceIInv, shakeVars, rollVars, OneShakeOneRoll, LooksAfter, Restless
<1>1. ASSUME NEW jolt \in BOOLEAN, Sample(jolt) PROVE OneShakeOneRoll'
  BY <1>1 DEF Sample
<1>2. CASE Reader /\ Armed
  BY <1>2 DEF Reader, Armed
<1>3. CASE Reader /\ Disarmed /\ readPc = "jolt"
  BY <1>3 DEF Reader, Disarmed
<1>4. CASE Reader /\ Disarmed /\ readPc = "still" /\ stillCount + 1 < StillSamples
  BY <1>4 DEF Reader, Disarmed
<1>5. CASE Reader /\ Disarmed /\ readPc = "still" /\ stillCount + 1 >= StillSamples
  BY <1>5 DEF Reader, Disarmed
<1>6. CASE Reader /\ Disarmed /\ readPc = "arm"
  BY <1>6 DEF Reader, Disarmed
<1>7. CASE Reader /\ readPc = "flag" /\ readPc' = "sample" /\ shakeFlag' = TRUE /\ UNCHANGED <<hits, stillCount, armed>>
  BY <1>7 DEF Reader
<1>8. CASE StartRoll /\ UNCHANGED readPc /\ dicePc = "start"
  BY <1>8 DEF StartRoll
<1>9. CASE StartRoll /\ UNCHANGED readPc /\ dicePc = "still"
  BY <1>9 DEF StartRoll
<1>10. CASE StartRoll /\ UNCHANGED readPc /\ dicePc = "clear"
  BY <1>10 DEF StartRoll
<1>11. ASSUME NEW b \in {"select", "up", "down"}, Input(b), UNCHANGED readPc PROVE OneShakeOneRoll'
  BY <1>11 DEF Input, Press
<1>12. CASE Rolls /\ UNCHANGED readPc
  BY <1>12 DEF Rolls
<1>13. CASE TakesShake /\ UNCHANGED readPc
  BY <1>13 DEF TakesShake, Press
<1>14. CASE HoldOver /\ UNCHANGED readPc
  BY <1>14 DEF HoldOver
<1>15. CASE UNCHANGED diceVars
  BY <1>15 DEF diceVars
<1> QED BY <1>1, <1>2, <1>3, <1>4, <1>5, <1>6, <1>7, <1>8, <1>9, <1>10, <1>11, <1>12, <1>13, <1>14, <1>15 DEF DiceNext, Reader, Disarmed, StartRoll

(* and that the total shown is the dice's.                                 *)
LEMMA DiceStepTotal == DiceIInv /\ [DiceNext]_diceVars => TotalShown'
<1> SUFFICES ASSUME DiceIInv, [DiceNext]_diceVars PROVE TotalShown'
  OBVIOUS
<1> USE DEF DiceIInv, shakeVars, rollVars, TotalShown, DiceTypes
<1>1. ASSUME NEW jolt \in BOOLEAN, Sample(jolt) PROVE TotalShown'
  BY <1>1 DEF Sample
<1>2. CASE Reader /\ Armed
  BY <1>2 DEF Reader, Armed
<1>3. CASE Reader /\ Disarmed /\ readPc = "jolt"
  BY <1>3 DEF Reader, Disarmed
<1>4. CASE Reader /\ Disarmed /\ readPc = "still" /\ stillCount + 1 < StillSamples
  BY <1>4 DEF Reader, Disarmed
<1>5. CASE Reader /\ Disarmed /\ readPc = "still" /\ stillCount + 1 >= StillSamples
  BY <1>5 DEF Reader, Disarmed
<1>6. CASE Reader /\ Disarmed /\ readPc = "arm"
  BY <1>6 DEF Reader, Disarmed
<1>7. CASE Reader /\ readPc = "flag" /\ readPc' = "sample" /\ shakeFlag' = TRUE /\ UNCHANGED <<hits, stillCount, armed>>
  BY <1>7 DEF Reader
<1>8. CASE StartRoll /\ UNCHANGED readPc /\ dicePc = "start"
  BY <1>8 DEF StartRoll
<1>9. CASE StartRoll /\ UNCHANGED readPc /\ dicePc = "still"
  BY <1>9 DEF StartRoll
<1>10. CASE StartRoll /\ UNCHANGED readPc /\ dicePc = "clear"
  BY <1>10 DEF StartRoll
<1>11. ASSUME NEW b \in {"select", "up", "down"}, Input(b), UNCHANGED readPc PROVE TotalShown'
  BY <1>11 DEF Input, Press, UpdateLabels
<1>12. CASE Rolls /\ UNCHANGED readPc
  BY <1>12 DEF Rolls, UpdateLabels
<1>13. CASE TakesShake /\ UNCHANGED readPc
  BY <1>13 DEF TakesShake, Press
<1>14. CASE HoldOver /\ UNCHANGED readPc
  BY <1>14 DEF HoldOver
<1>15. CASE UNCHANGED diceVars
  BY <1>15 DEF diceVars
<1> QED BY <1>1, <1>2, <1>3, <1>4, <1>5, <1>6, <1>7, <1>8, <1>9, <1>10, <1>11, <1>12, <1>13, <1>14, <1>15 DEF DiceNext, Reader, Disarmed, StartRoll

LEMMA DiceStepIInv == DiceIInv /\ [DiceNext]_diceVars => DiceIInv'
BY DiceStepTypes, DiceStepFlags, DiceStepCounts, DiceStepLooks, DiceStepOnce, DiceStepTotal DEF DiceIInv

(* The invariant says what the run checks.                                 *)
LEMMA DiceInvFollows == DiceIInv => DiceInv
BY DEF DiceIInv, DiceTypes, DiceInv

-----------------------------------------------------------------------------
(* The lock and the call screen in front of the phone's store.             *)
USE PhoneNotifsAssumption, PhoneStoreAssumption, PhoneScreensAssumption

(* The versions a deque holds of a uid; the store's are StoredOf.          *)
VersOf(ns, u) == {ns[i].ver : i \in {j \in DOMAIN ns : ns[j].uid = u}}

LEMMA HasVers ==
  ASSUME NEW ns, NEW u
  PROVE  Has(ns, u) <=> VersOf(ns, u) # {}
BY DEF Has, VersOf

(* Of a deque with distinct uids, the one found is the only one.           *)
LEMMA FoundVers ==
  ASSUME NEW ns, NEW u, Has(ns, u), Distinct(ns)
  PROVE  VersOf(ns, u) = {ns[FindNotif(ns, u)].ver}
<1>1. FindNotif(ns, u) \in DOMAIN ns /\ ns[FindNotif(ns, u)].uid = u
  BY DEF FindNotif, Has
<1> DEFINE f == FindNotif(ns, u)
<1> HIDE DEF f
<1>2. f \in DOMAIN ns /\ ns[f].uid = u
  BY <1>1 DEF f
<1>3. \A j \in DOMAIN ns : ns[j].uid = u => j = f
  BY <1>2 DEF Distinct
<1>4. VersOf(ns, u) = {ns[f].ver}
  BY <1>2, <1>3 DEF VersOf
<1> QED BY <1>4 DEF f

(* onModify of a stored uid changes that one's content,                    *)
LEMMA ReplaceVers ==
  ASSUME NEW S, NEW ns \in Seq(S), NEW n \in S
  PROVE  /\ Replace(ns, n) \in Seq(S) /\ Len(Replace(ns, n)) = Len(ns)
         /\ Distinct(ns) => Distinct(Replace(ns, n))
         /\ \A u : u # n.uid => VersOf(Replace(ns, n), u) = VersOf(ns, u)
<1> DEFINE r == Replace(ns, n)
<1>1. DOMAIN ns = 1..Len(ns) /\ Len(ns) \in Nat
  OBVIOUS
<1>2. r \in [1..Len(ns) -> S]
  BY <1>1 DEF Replace
<1>3. r \in Seq(S) /\ Len(r) = Len(ns)
  BY <1>1, <1>2
<1>4. \A i \in DOMAIN ns : r[i] = IF ns[i].uid = n.uid THEN n ELSE ns[i]
  BY DEF Replace
<1>5. DOMAIN r = DOMAIN ns
  BY <1>1, <1>2
<1> HIDE DEF r
<1>6. \A i \in DOMAIN ns : r[i].uid = ns[i].uid
  BY <1>4
<1>7. Distinct(ns) => Distinct(r)
  BY <1>5, <1>6 DEF Distinct
<1>8. ASSUME NEW u, u # n.uid PROVE VersOf(r, u) = VersOf(ns, u)
  BY <1>4, <1>5, <1>6, <1>8 DEF VersOf
<1> QED BY <1>3, <1>7, <1>8 DEF r

(* a new one goes to the end,                                              *)
LEMMA AppendVers ==
  ASSUME NEW S, NEW ns \in Seq(S), NEW n \in S
  PROVE  /\ Append(ns, n) \in Seq(S) /\ Len(Append(ns, n)) = Len(ns) + 1
         /\ Distinct(ns) /\ ~Has(ns, n.uid) => Distinct(Append(ns, n))
         /\ \A u : u # n.uid => VersOf(Append(ns, n), u) = VersOf(ns, u)
<1> DEFINE r == Append(ns, n)
<1>1. DOMAIN ns = 1..Len(ns) /\ Len(ns) \in Nat
  OBVIOUS
<1>2. /\ r \in Seq(S) /\ Len(r) = Len(ns) + 1
      /\ \A i \in 1..Len(ns) : r[i] = ns[i]
      /\ r[Len(ns) + 1] = n
  BY AppendProperties
<1> HIDE DEF r
<1>3. DOMAIN r = 1..(Len(ns) + 1)
  BY <1>2
<1>4. \A i \in DOMAIN r : (i \in DOMAIN ns /\ r[i] = ns[i]) \/ (i = Len(ns) + 1 /\ r[i] = n)
  BY <1>1, <1>2, <1>3
<1>5. \A i \in DOMAIN ns : i \in DOMAIN r /\ r[i] = ns[i]
  BY <1>1, <1>2, <1>3
<1>6. ASSUME Distinct(ns), ~Has(ns, n.uid) PROVE Distinct(r)
  BY <1>4, <1>6 DEF Distinct, Has
<1>7. ASSUME NEW u, u # n.uid PROVE VersOf(r, u) = VersOf(ns, u)
  BY <1>4, <1>5, <1>7 DEF VersOf
<1> QED BY <1>2, <1>6, <1>7 DEF r

(* the oldest leaves from the front,                                       *)
LEMMA TailVers ==
  ASSUME NEW S, NEW ns \in Seq(S), ns # <<>>
  PROVE  /\ Tail(ns) \in Seq(S) /\ Len(Tail(ns)) = Len(ns) - 1
         /\ Distinct(ns) => Distinct(Tail(ns))
         /\ Head(ns) \in S
         /\ \A u : u # Head(ns).uid => VersOf(Tail(ns), u) = VersOf(ns, u)
<1> DEFINE r == Tail(ns)
<1>1. DOMAIN ns = 1..Len(ns) /\ Len(ns) \in Nat /\ Len(ns) > 0
  OBVIOUS
<1>2. /\ r \in Seq(S) /\ Len(r) = Len(ns) - 1
      /\ \A i \in 1..(Len(ns) - 1) : r[i] = ns[i + 1]
  BY HeadTailProperties
<1>h. Head(ns) = ns[1] /\ Head(ns) \in S
  OBVIOUS
<1> HIDE DEF r
<1>3. DOMAIN r = 1..(Len(ns) - 1)
  BY <1>2
<1>4. \A i \in DOMAIN r : i + 1 \in DOMAIN ns /\ r[i] = ns[i + 1]
  BY <1>1, <1>2, <1>3
<1>5. \A j \in DOMAIN ns : j = 1 \/ (j - 1 \in DOMAIN r /\ r[j - 1] = ns[j])
  BY <1>1, <1>2, <1>3
<1>6. ASSUME Distinct(ns) PROVE Distinct(r)
  <2> SUFFICES ASSUME NEW i \in DOMAIN r, NEW j \in DOMAIN r, r[i].uid = r[j].uid PROVE i = j
    BY DEF Distinct
  <2>1. i + 1 = j + 1
    BY <1>4, <1>6 DEF Distinct
  <2>2. i \in Int /\ j \in Int
    BY <1>3
  <2> QED BY <2>1, <2>2
<1>7. ASSUME NEW u, u # Head(ns).uid PROVE VersOf(r, u) = VersOf(ns, u)
  <2>1. ASSUME NEW x \in VersOf(r, u) PROVE x \in VersOf(ns, u)
    BY <1>4 DEF VersOf
  <2>2. ASSUME NEW x \in VersOf(ns, u) PROVE x \in VersOf(r, u)
    <3>1. PICK j \in DOMAIN ns : ns[j].uid = u /\ x = ns[j].ver
      BY DEF VersOf
    <3>2. j # 1
      BY <3>1, <1>7, <1>h
    <3>3. j - 1 \in DOMAIN r /\ r[j - 1] = ns[j]
      BY <3>2, <1>5
    <3> QED BY <3>1, <3>3 DEF VersOf
  <2> QED BY <2>1, <2>2
<1> QED BY <1>2, <1>h, <1>6, <1>7 DEF r

(* and a removed one from wherever it is.                                  *)
LEMMA EraseVers ==
  ASSUME NEW S, NEW ns \in Seq(S), NEW v
  PROVE  /\ Erase(ns, v) \in Seq(S) /\ Len(Erase(ns, v)) =< Len(ns)
         /\ Distinct(ns) => Distinct(Erase(ns, v))
         /\ \A u : u # v => VersOf(Erase(ns, v), u) = VersOf(ns, u)
         /\ ~Has(ns, v) => Erase(ns, v) = ns
<1>1. CASE ~Has(ns, v)
  BY <1>1 DEF Erase
<1>2. CASE Has(ns, v)
  <2> DEFINE k == FindNotif(ns, v)
             a == SubSeq(ns, 1, k - 1)
             b == SubSeq(ns, k + 1, Len(ns))
             r == a \o b
             at(j) == IF j < k THEN j ELSE j + 1
             to(i) == IF i < k THEN i ELSE i - 1
  <2>1. k \in 1..Len(ns) /\ ns[k].uid = v
    BY <1>2 DEF FindNotif, Has
  <2>2. Erase(ns, v) = r
    BY <1>2 DEF Erase, RemoveAt
  <2> HIDE DEF k
  <2>3. a \in Seq(S) /\ Len(a) = k - 1 /\ \A j \in 1..(k - 1) : a[j] = ns[j]
    BY <2>1
  <2>4. b \in Seq(S) /\ Len(b) = Len(ns) - k /\ \A j \in 1..(Len(ns) - k) : b[j] = ns[k + j]
    BY <2>1
  <2> HIDE DEF a, b
  <2>5. Len(ns) \in Nat /\ k \in Nat /\ DOMAIN ns = 1..Len(ns)
    BY <2>1
  <2>6. r \in Seq(S) /\ Len(r) = Len(ns) - 1
    <3>1. r \in Seq(S) /\ Len(r) = Len(a) + Len(b)
      BY <2>3, <2>4, ConcatProperties
    <3> HIDE DEF r
    <3> QED BY <3>1, <2>3, <2>4, <2>5
  <2>7. \A j \in 1..(Len(ns) - 1) : r[j] = ns[at(j)]
    <3> TAKE j \in 1..(Len(ns) - 1)
    <3>1. CASE j < k
      <4>1. j \in 1..Len(a) /\ j \in 1..(k - 1)
        BY <2>3, <2>5, <3>1
      <4>2. r[j] = a[j]
        BY <2>3, <2>4, <4>1, ConcatProperties
      <4> QED BY <2>3, <3>1, <4>1, <4>2
    <3>2. CASE ~(j < k)
      <4>1. j \in (Len(a) + 1)..(Len(a) + Len(b)) /\ j - Len(a) \in 1..(Len(ns) - k) /\ k + (j - Len(a)) = j + 1
        BY <2>3, <2>4, <2>5, <3>2
      <4>2. r[j] = b[j - Len(a)]
        BY <2>3, <2>4, <4>1, ConcatProperties
      <4>3. b[j - Len(a)] = ns[j + 1]
        BY <2>4, <4>1
      <4> QED BY <3>2, <4>2, <4>3
    <3> QED BY <3>1, <3>2
  <2> HIDE DEF r
  <2>8. DOMAIN r = 1..(Len(ns) - 1)
    BY <2>6
  <2>9. \A j \in DOMAIN r : at(j) \in DOMAIN ns /\ r[j] = ns[at(j)]
    BY <2>1, <2>5, <2>7, <2>8
  <2>10. \A i \in DOMAIN ns : i # k => to(i) \in DOMAIN r /\ at(to(i)) = i
    BY <2>1, <2>5, <2>8
  <2>11. \A i, j \in DOMAIN r : at(i) = at(j) => i = j
    BY <2>1, <2>5, <2>8
  <2> HIDE DEF at, to
  <2>12. Distinct(ns) => Distinct(r)
    BY <2>9, <2>11 DEF Distinct
  <2>13. ASSUME NEW u, u # v PROVE VersOf(r, u) = VersOf(ns, u)
    <3>1. ASSUME NEW x \in VersOf(r, u) PROVE x \in VersOf(ns, u)
      BY <2>9 DEF VersOf
    <3>2. ASSUME NEW x \in VersOf(ns, u) PROVE x \in VersOf(r, u)
      <4>1. PICK j \in DOMAIN ns : ns[j].uid = u /\ x = ns[j].ver
        BY DEF VersOf
      <4>2. j # k
        BY <4>1, <2>13, <2>1
      <4>3. to(j) \in DOMAIN r /\ r[to(j)] = ns[j]
        BY <4>2, <2>9, <2>10
      <4> QED BY <4>1, <4>3 DEF VersOf
    <3> QED BY <3>1, <3>2
  <2> QED BY <1>2, <2>2, <2>5, <2>6, <2>12, <2>13
<1> QED BY <1>1, <1>2

-----------------------------------------------------------------------------
(* The inductive invariant.                                                *)

StoreTypes ==
  /\ store \in Seq(Stored) /\ Len(store) =< MaxNotifs
  /\ todo \in [Threads -> Seq(PhoneEvent)]
  /\ adding \in Seq(Stored)
  /\ made \in 0 .. MaxCalls

LockTypes ==
  /\ screen \in {"other", "built", "prepared", "lock", "call"}
  /\ pc \in {"loop", "timers"}
  /\ queue \in Seq(PhoneEvent \cup {Event("Other", "all")}) /\ Len(queue) =< QueueLen
  /\ skin \in BOOLEAN /\ leaving \in BOOLEAN
  /\ items \subseteq [uid : Uids \cup {NoUid}, ver : 0 .. MaxCalls]
  /\ IsFiniteSet(items) /\ Cardinality(items) =< MaxNotifs
  /\ dismissed \subseteq Uids /\ untold \subseteq Uids /\ refused \subseteq Uids

RingTypes ==
  /\ callScreen \in {"other", "built", "call", "leaving"}
  /\ call \in Uids \cup {NoUid}
  /\ evts \in Seq(PhoneEvent \cup {Event("AltPress", "all"), Event("Other", "all")})
  /\ Len(evts) =< QueueLen
  /\ unheard \in BOOLEAN

(* What an event is about; an event a thread has still to post; and the    *)
(* last event of the queue about a uid: it says whether the store has it.  *)
Concerns(e, u) == e.action = "Cleared" \/ (e.action \in {"Added", "Changed", "Removed"} /\ e.id = u)
Stores(e) == e.action \in {"Added", "Changed"}
Pending(u) == \E t \in Threads : todo[t] # <<>> /\ Concerns(Head(todo[t]), u)
LastAbout(q, u, i) == Concerns(q[i], u) /\ \A j \in DOMAIN q : j > i => ~Concerns(q[j], u)
NoneAbout(q, u) == \A i \in DOMAIN q : ~Concerns(q[i], u)
Says(q, u, has) == \A i \in DOMAIN q : LastAbout(q, u, i) => (has <=> Stores(q[i]))

(* A thread posts one event per call, and the store has a uid once. *)
OneEach == (\A t \in Threads : Len(todo[t]) =< 1) /\ Distinct(store)

(* One of the two screens runs; only the lock screen listens, and it has   *)
(* built its items or is on its way out.                                   *)
Places ==
  /\ callScreen # "other" <=> screen = "call"
  /\ screen # "lock" => queue = <<>>
  /\ screen \in {"built", "prepared", "lock"} => skin \/ leaving

(* What is not still to be posted, lost or overtaken is in the queue. *)
LastTold == \A u \in Uids \ untold : ~Pending(u) => Says(queue, u, Has(store, u))

(* With nothing about it under way, a uid's item is what the store holds,  *)
Shown ==
  screen \in {"prepared", "lock"} /\ skin =>
    \A u \in Uids \ (untold \cup dismissed \cup refused \cup Calls) :
      ~Pending(u) /\ NoneAbout(queue, u) => Lock!ItemsOf(u) = VersOf(store, u)

(* and a call in the store has made the screen leave.                      *)
Called ==
  screen \in {"built", "prepared", "lock"} =>
    \A u \in Calls \ untold : ~Pending(u) /\ NoneAbout(queue, u) /\ Has(store, u) => leaving

PhoneIInv == StoreTypes /\ LockTypes /\ RingTypes /\ OneEach /\ Places /\ LastTold /\ Shown /\ Called

-----------------------------------------------------------------------------
(* Events appended to a queue and taken from it.                           *)

LEMMA AppendAbout ==
  ASSUME NEW S, NEW q \in Seq(S), NEW e \in S, NEW u
  PROVE  /\ \A has : Concerns(e, u) /\ (has <=> Stores(e)) => Says(Append(q, e), u, has)
         /\ \A has : ~Concerns(e, u) /\ Says(q, u, has) => Says(Append(q, e), u, has)
         /\ NoneAbout(Append(q, e), u) => NoneAbout(q, u) /\ ~Concerns(e, u)
<1> DEFINE r == Append(q, e)
           n == Len(q)
<1>1. n \in Nat /\ DOMAIN q = 1 .. n
  OBVIOUS
<1>2. DOMAIN r = 1 .. (n + 1) /\ r[n + 1] = e /\ \A i \in 1 .. n : r[i] = q[i]
  <2>1. r \in Seq(S) /\ Len(r) = n + 1
    OBVIOUS
  <2> QED BY <2>1
<1> HIDE DEF r, n
<1>3. n + 1 \in DOMAIN r /\ \A i \in 1 .. n : i \in DOMAIN r /\ n + 1 > i
  BY <1>1, <1>2
<1>4. \A i \in DOMAIN r : i \in 1 .. n \/ i = n + 1
  BY <1>1, <1>2
<1>5. ASSUME NEW has, Concerns(e, u), has <=> Stores(e) PROVE Says(r, u, has)
  <2> SUFFICES ASSUME NEW i \in DOMAIN r, LastAbout(r, u, i) PROVE has <=> Stores(r[i])
    BY DEF Says
  <2>1. CASE i \in 1 .. n
    <3>1. n + 1 \in DOMAIN r /\ n + 1 > i /\ Concerns(r[n + 1], u)
      BY <2>1, <1>2, <1>3, <1>5
    <3> QED BY <3>1 DEF LastAbout
  <2>2. CASE i = n + 1
    BY <2>2, <1>2, <1>5
  <2> QED BY <2>1, <2>2, <1>4
<1>6. ASSUME NEW has, ~Concerns(e, u), Says(q, u, has) PROVE Says(r, u, has)
  <2> SUFFICES ASSUME NEW i \in DOMAIN r, LastAbout(r, u, i) PROVE has <=> Stores(r[i])
    BY DEF Says
  <2>1. i \in 1 .. n
    BY <1>2, <1>4, <1>6 DEF LastAbout
  <2>2. LastAbout(q, u, i)
    BY <2>1, <1>1, <1>2, <1>3 DEF LastAbout
  <2> QED BY <2>1, <2>2, <1>1, <1>2, <1>6 DEF Says
<1>7. ASSUME NoneAbout(r, u) PROVE NoneAbout(q, u) /\ ~Concerns(e, u)
  BY <1>1, <1>2, <1>3, <1>7 DEF NoneAbout
<1> QED BY <1>5, <1>6, <1>7 DEF r

LEMMA TailAbout ==
  ASSUME NEW S, NEW q \in Seq(S), q # <<>>, NEW u
  PROVE  /\ \A has : Says(q, u, has) => Says(Tail(q), u, has)
         /\ NoneAbout(Tail(q), u) /\ ~Concerns(Head(q), u) => NoneAbout(q, u)
         /\ \A has : NoneAbout(Tail(q), u) /\ Concerns(Head(q), u) /\ Says(q, u, has)
              => (has <=> Stores(Head(q)))
<1> DEFINE r == Tail(q)
           n == Len(q)
<1>1. n \in Nat /\ n > 0 /\ DOMAIN q = 1 .. n /\ Head(q) = q[1]
  OBVIOUS
<1>2. DOMAIN r = 1 .. (n - 1) /\ \A i \in 1 .. (n - 1) : r[i] = q[i + 1]
  <2>1. r \in Seq(S) /\ Len(r) = n - 1 /\ \A i \in 1 .. (n - 1) : r[i] = q[i + 1]
    BY HeadTailProperties
  <2> QED BY <2>1
<1> HIDE DEF r, n
<1>3. \A j \in DOMAIN q : j = 1 \/ (j > 1 /\ j - 1 \in DOMAIN r /\ r[j - 1] = q[j])
  BY <1>1, <1>2
<1>4. \A i \in DOMAIN r : i + 1 \in DOMAIN q /\ r[i] = q[i + 1] /\ \A j \in DOMAIN q : j > i + 1 => j # 1 /\ j - 1 > i
  BY <1>1, <1>2
<1>5. ASSUME NEW has, Says(q, u, has) PROVE Says(r, u, has)
  <2> SUFFICES ASSUME NEW i \in DOMAIN r, LastAbout(r, u, i) PROVE has <=> Stores(r[i])
    BY DEF Says
  <2>1. LastAbout(q, u, i + 1)
    BY <1>3, <1>4 DEF LastAbout
  <2> QED BY <2>1, <1>4, <1>5 DEF Says
<1>6. ASSUME NoneAbout(r, u), ~Concerns(Head(q), u) PROVE NoneAbout(q, u)
  BY <1>1, <1>3, <1>6 DEF NoneAbout
<1>7. ASSUME NEW has, NoneAbout(r, u), Concerns(Head(q), u), Says(q, u, has)
      PROVE  has <=> Stores(Head(q))
  <2>1. 1 \in DOMAIN q /\ LastAbout(q, u, 1)
    BY <1>1, <1>3, <1>7 DEF LastAbout, NoneAbout
  <2> QED BY <2>1, <1>1, <1>7 DEF Says
<1> QED BY <1>5, <1>6, <1>7 DEF r

LEMMA EmptyAbout ==
  ASSUME NEW u
  PROVE  NoneAbout(<<>>, u) /\ \A has : Says(<<>>, u, has)
BY DEF NoneAbout, Says

(* The uids an event of the phone is about are those it concerns.          *)
LEMMA AboutConcerns ==
  ASSUME NEW e \in PhoneEvent, NEW u \in Uids
  PROVE  u \in Lock!About(e) <=> Concerns(e, u)
BY DEF PhoneEvent, Event, Concerns, Lock!About

-----------------------------------------------------------------------------
(* A call of a source.                                                     *)

(* A thread with nothing to post has es to post: of that, and of what the  *)
(* others have still to post.                                              *)
LEMMA PostsLater ==
  ASSUME StoreTypes, OneEach,
         NEW t \in Threads, NEW es \in Seq(PhoneEvent), Len(es) =< 1,
         todo[t] = <<>>, todo' = [todo EXCEPT ![t] = es]
  PROVE  /\ todo' \in [Threads -> Seq(PhoneEvent)]
         /\ \A s \in Threads : Len(todo'[s]) =< 1
         /\ \A u : Pending(u)' <=> Pending(u) \/ (es # <<>> /\ Concerns(Head(es), u))
<1>1. todo \in [Threads -> Seq(PhoneEvent)] /\ \A s \in Threads : Len(todo[s]) =< 1
  BY DEF StoreTypes, OneEach
<1>2. \A s \in Threads : todo'[s] = IF s = t THEN es ELSE todo[s]
  BY <1>1
<1>3. todo' \in [Threads -> Seq(PhoneEvent)]
  BY <1>1
<1>4. \A s \in Threads : Len(todo'[s]) =< 1
  BY <1>1, <1>2
<1>5. ASSUME NEW u PROVE Pending(u)' <=> Pending(u) \/ (es # <<>> /\ Concerns(Head(es), u))
  <2>1. Pending(u)' <=> \E s \in Threads : todo'[s] # <<>> /\ Concerns(Head(todo'[s]), u)
    BY DEF Pending, Concerns
  <2>2. Pending(u) <=> \E s \in Threads : todo[s] # <<>> /\ Concerns(Head(todo[s]), u)
    BY DEF Pending
  <2> QED BY <2>1, <2>2, <1>2
<1> QED BY <1>3, <1>4, <1>5

LEMMA SingleEvent ==
  ASSUME NEW e \in PhoneEvent
  PROVE  <<e>> \in Seq(PhoneEvent) /\ Len(<<e>>) =< 1 /\ <<e>> # <<>> /\ Head(<<e>>) = e
OBVIOUS

LEMMA EventsOfPhone ==
  ASSUME NEW a \in {"Added", "Changed", "Removed"}, NEW v \in Uids
  PROVE  /\ Event(a, v) \in PhoneEvent /\ Event("Cleared", "all") \in PhoneEvent
         /\ \A u : Concerns(Event(a, v), u) <=> u = v
         /\ \A u : Concerns(Event("Cleared", "all"), u)
BY DEF PhoneEvent, Event, Concerns

(* A change of the store is one its event is about.                        *)
SourceKeeps ==
  \A u \in Uids : ~Pending(u)' => ~Pending(u) /\ VersOf(store', u) = VersOf(store, u)

LEMMA AddStepKeeps ==
  ASSUME StoreTypes, OneEach, AddStep
  PROVE  StoreTypes' /\ OneEach' /\ SourceKeeps
<1> DEFINE n == Head(adding)
<1>1. /\ store \in Seq(Stored) /\ Len(store) \in Nat /\ Len(store) =< MaxNotifs
      /\ adding \in Seq(Stored) /\ adding # <<>>
      /\ todo["adder"] = <<>> /\ "adder" \in Threads
      /\ made' = made /\ made' \in 0 .. MaxCalls /\ Distinct(store)
  BY DEF StoreTypes, OneEach, AddStep, Threads
<1>2. n \in Stored /\ n.uid \in Uids /\ n.empty = FALSE
  <2>1. n \in Stored
    BY <1>1
  <2> HIDE DEF n
  <2> QED BY <2>1 DEF Stored
<1>3. CASE ~Has(store, n.uid) /\ Excess(store) > 0
  <2> DEFINE v == Head(store).uid
  <2>1. /\ store' = Tail(store) /\ adding' = adding
        /\ todo' = [todo EXCEPT !["adder"] = <<Event("Removed", v)>>]
    BY <1>3 DEF AddStep
  <2>2. store # <<>>
    BY <1>1, <1>3 DEF Excess
  <2>3. /\ Tail(store) \in Seq(Stored) /\ Len(Tail(store)) = Len(store) - 1 /\ Distinct(Tail(store))
        /\ Head(store) \in Stored
        /\ \A u : u # v => VersOf(Tail(store), u) = VersOf(store, u)
    BY <1>1, <2>2, TailVers
  <2>4. v \in Uids
    BY <2>3 DEF Stored
  <2> HIDE DEF v
  <2>5. Event("Removed", v) \in PhoneEvent /\ \A u : Concerns(Event("Removed", v), u) <=> u = v
    BY <2>4, EventsOfPhone
  <2>6. /\ todo' \in [Threads -> Seq(PhoneEvent)]
        /\ \A s \in Threads : Len(todo'[s]) =< 1
        /\ \A u : Pending(u)' <=> Pending(u) \/ (<<Event("Removed", v)>> # <<>> /\ Concerns(Head(<<Event("Removed", v)>>), u))
    BY <1>1, <2>1, <2>5, SingleEvent, PostsLater
  <2>7. \A u : Pending(u)' <=> Pending(u) \/ u = v
    BY <2>5, <2>6, SingleEvent
  <2>8. StoreTypes'
    BY <1>1, <2>1, <2>3, <2>6 DEF StoreTypes
  <2>9. OneEach'
    BY <2>1, <2>3, <2>6 DEF OneEach
  <2>10. SourceKeeps
    BY <2>1, <2>3, <2>7 DEF SourceKeeps
  <2> QED BY <2>8, <2>9, <2>10
<1>4. CASE ~(~Has(store, n.uid) /\ Excess(store) > 0)
  <2> DEFINE a == IF Has(store, n.uid) THEN "Changed" ELSE "Added"
  <2>1. /\ store' = OnModify(store, n) /\ adding' = <<>>
        /\ todo' = [todo EXCEPT !["adder"] = <<Event(a, n.uid)>>]
    BY <1>4 DEF AddStep
  <2>2. /\ store' \in Seq(Stored) /\ Len(store') =< MaxNotifs /\ Distinct(store')
        /\ \A u : u # n.uid => VersOf(store', u) = VersOf(store, u)
    <3> HIDE DEF n
    <3>1. CASE Has(store, n.uid)
      <4>1. store' = Replace(store, n)
        BY <2>1, <3>1 DEF OnModify
      <4> QED BY <4>1, <1>1, <1>2, ReplaceVers
    <3>2. CASE ~Has(store, n.uid)
      <4>1. Excess(store) = 0 /\ Len(store) < MaxNotifs
        BY <1>1, <1>4, <3>2 DEF Excess
      <4>2. SubSeq(store, 1, Len(store)) = store
        BY <1>1
      <4>3. store' = Append(store, n)
        <5>1. store' = Append(SubSeq(store, Excess(store) + 1, Len(store)), n)
          BY <2>1, <3>2, <1>2 DEF OnModify, OnAdd
        <5> QED BY <5>1, <4>1, <4>2
      <4>4. /\ Append(store, n) \in Seq(Stored) /\ Len(Append(store, n)) = Len(store) + 1
            /\ Distinct(Append(store, n))
            /\ \A u : u # n.uid => VersOf(Append(store, n), u) = VersOf(store, u)
        BY <1>1, <1>2, <3>2, AppendVers
      <4>5. Len(store) + 1 =< MaxNotifs
        BY <4>1, <1>1
      <4> QED BY <4>3, <4>4, <4>5
    <3> QED BY <3>1, <3>2
  <2>3. a \in {"Added", "Changed", "Removed"}
    OBVIOUS
  <2> HIDE DEF a, n
  <2> DEFINE v == n.uid
  <2>4. v \in Uids
    BY <1>2
  <2>5. Event(a, v) \in PhoneEvent /\ \A u : Concerns(Event(a, v), u) <=> u = v
    BY <2>3, <2>4, EventsOfPhone
  <2> HIDE DEF v
  <2>h. todo' = [todo EXCEPT !["adder"] = <<Event(a, v)>>]
    BY <2>1 DEF v
  <2>6. /\ todo' \in [Threads -> Seq(PhoneEvent)]
        /\ \A s \in Threads : Len(todo'[s]) =< 1
        /\ \A u : Pending(u)' <=> Pending(u) \/ (<<Event(a, v)>> # <<>> /\ Concerns(Head(<<Event(a, v)>>), u))
    BY <1>1, <2>h, <2>5, SingleEvent, PostsLater
  <2>7. \A u : Pending(u)' <=> Pending(u) \/ u = v
    BY <2>5, <2>6, SingleEvent
  <2>8. StoreTypes'
    <3>1. adding' \in Seq(Stored)
      BY <2>1
    <3> QED BY <3>1, <1>1, <2>2, <2>6 DEF StoreTypes
  <2>9. OneEach'
    BY <2>2, <2>6 DEF OneEach
  <2>10. SourceKeeps
    BY <2>2, <2>7 DEF SourceKeeps, v
  <2> QED BY <2>8, <2>9, <2>10
<1> QED BY <1>3, <1>4

LEMMA ClearKeeps ==
  ASSUME StoreTypes, OneEach, Clear
  PROVE  StoreTypes' /\ OneEach' /\ SourceKeeps
<1> DEFINE es == ClearEvents(store)
<1>1. /\ store' = <<>> /\ adding' = adding /\ made' = made + 1 /\ made < MaxCalls
      /\ todo["session"] = <<>> /\ todo' = [todo EXCEPT !["session"] = es] /\ "session" \in Threads
  BY DEF Clear, Call, Threads
<1>2. Event("Cleared", "all") \in PhoneEvent /\ \A u : Concerns(Event("Cleared", "all"), u)
  BY DEF PhoneEvent, Concerns, Event
<1>3. /\ es \in Seq(PhoneEvent) /\ Len(es) =< 1
      /\ es = <<>> => store = <<>>
      /\ es # <<>> => Head(es) = Event("Cleared", "all")
  BY <1>2, SingleEvent DEF ClearEvents
<1> HIDE DEF es
<1>4. /\ todo' \in [Threads -> Seq(PhoneEvent)]
      /\ \A s \in Threads : Len(todo'[s]) =< 1
      /\ \A u : Pending(u)' <=> Pending(u) \/ (es # <<>> /\ Concerns(Head(es), u))
  BY <1>1, <1>3, PostsLater
<1>5. made' \in 0 .. MaxCalls
  BY <1>1 DEF StoreTypes
<1>6. store' \in Seq(Stored) /\ Len(store') =< MaxNotifs /\ Distinct(store')
  BY <1>1 DEF Distinct
<1>7. StoreTypes' /\ OneEach'
  BY <1>1, <1>4, <1>5, <1>6 DEF StoreTypes, OneEach
<1>8. SourceKeeps
  BY <1>1, <1>2, <1>3, <1>4 DEF SourceKeeps
<1> QED BY <1>7, <1>8

LEMMA OfferKeeps ==
  ASSUME StoreTypes, OneEach, NEW v \in Uids, Offer(v)
  PROVE  StoreTypes' /\ OneEach' /\ SourceKeeps
<1>1. /\ store' = store /\ todo' = todo /\ made' = made + 1 /\ made < MaxCalls
      /\ adding' = <<[uid |-> v, ver |-> made + 1, empty |-> FALSE]>>
  BY DEF Offer, Call
<1>2. made \in Nat /\ made' \in 0 .. MaxCalls /\ made + 1 \in 1 .. MaxCalls
  BY <1>1 DEF StoreTypes
<1>3. [uid |-> v, ver |-> made + 1, empty |-> FALSE] \in Stored
  BY <1>2 DEF Stored
<1>4. adding' \in Seq(Stored)
  BY <1>1, <1>3
<1>5. StoreTypes' /\ OneEach'
  BY <1>1, <1>2, <1>4 DEF StoreTypes, OneEach
<1>6. SourceKeeps
  BY <1>1 DEF SourceKeeps, Pending
<1> QED BY <1>5, <1>6

LEMMA RemoveKeeps ==
  ASSUME StoreTypes, OneEach, NEW v \in Uids, RemoveNotif(v)
  PROVE  StoreTypes' /\ OneEach' /\ SourceKeeps
<1> DEFINE es == OnRemoveEvents(store, v)
<1>1. /\ store' = Erase(store, v) /\ adding' = adding /\ made' = made + 1 /\ made < MaxCalls
      /\ todo["remover"] = <<>> /\ todo' = [todo EXCEPT !["remover"] = es] /\ "remover" \in Threads
  BY DEF RemoveNotif, Call, Threads
<1>2. Event("Removed", v) \in PhoneEvent /\ \A u : Concerns(Event("Removed", v), u) <=> u = v
  BY EventsOfPhone
<1>3. /\ es \in Seq(PhoneEvent) /\ Len(es) =< 1
      /\ es = <<>> => ~Has(store, v)
      /\ es # <<>> => Head(es) = Event("Removed", v)
  BY <1>2, SingleEvent DEF OnRemoveEvents
<1> HIDE DEF es
<1>4. /\ todo' \in [Threads -> Seq(PhoneEvent)]
      /\ \A s \in Threads : Len(todo'[s]) =< 1
      /\ \A u : Pending(u)' <=> Pending(u) \/ (es # <<>> /\ Concerns(Head(es), u))
  BY <1>1, <1>3, PostsLater
<1>5. made' \in 0 .. MaxCalls
  BY <1>1 DEF StoreTypes
<1>6. /\ store \in Seq(Stored) /\ Len(store) =< MaxNotifs /\ Distinct(store)
  BY DEF StoreTypes, OneEach
<1>7. /\ Erase(store, v) \in Seq(Stored) /\ Len(Erase(store, v)) =< Len(store)
      /\ Distinct(Erase(store, v))
      /\ \A u : u # v => VersOf(Erase(store, v), u) = VersOf(store, u)
      /\ ~Has(store, v) => Erase(store, v) = store
  BY <1>6, EraseVers
<1>8. Len(store') =< MaxNotifs
  <2>1. Len(store) \in Nat /\ Len(store') \in Nat
    BY <1>1, <1>6, <1>7
  <2> QED BY <2>1, <1>1, <1>6, <1>7
<1>9. StoreTypes' /\ OneEach'
  BY <1>1, <1>4, <1>5, <1>6, <1>7, <1>8 DEF StoreTypes, OneEach
<1>10. SourceKeeps
  BY <1>1, <1>2, <1>3, <1>4, <1>7 DEF SourceKeeps
<1> QED BY <1>9, <1>10

LEMMA SourceCallKeeps ==
  ASSUME StoreTypes, OneEach, SourceCall
  PROVE  StoreTypes' /\ OneEach' /\ SourceKeeps
BY AddStepKeeps, ClearKeeps, OfferKeeps, RemoveKeeps DEF SourceCall

-----------------------------------------------------------------------------
(* A post: the lock screen hears its event or not, and who is not untold   *)
(* afterwards was told the truth or has missed nothing.                    *)
LockHears == screen = "lock" /\ Len(queue) < QueueLen

LEMMA TailOfOne ==
  ASSUME NEW S, NEW s \in Seq(S), s # <<>>, Len(s) =< 1
  PROVE  Tail(s) = <<>>
<1>1. Tail(s) \in Seq(S) /\ Len(Tail(s)) = Len(s) - 1
  BY HeadTailProperties
<1>2. Len(s) \in Nat /\ Len(s) # 0
  OBVIOUS
<1>3. Len(Tail(s)) = 0
  <2> DEFINE r == Tail(s)
  <2> HIDE DEF r
  <2>1. Len(r) = Len(s) - 1
    BY <1>1 DEF r
  <2>2. Len(r) = 0
    BY <2>1, <1>2
  <2> QED BY <2>2 DEF r
<1> QED BY <1>1, <1>3, EmptySeq

LEMMA PostDoes ==
  ASSUME StoreTypes, LockTypes, OneEach, NEW t \in Threads, PostEvent(t), NEW e, e = Head(todo[t])
  PROVE  /\ StoreTypes' /\ OneEach' /\ store' = store
         /\ e \in PhoneEvent
         /\ \A u : ~Pending(u)' /\ ~Concerns(e, u) => ~Pending(u)
         /\ UNCHANGED <<screen, pc, skin, items, leaving, dismissed, refused, callScreen, call>>
         /\ queue' = IF LockHears THEN Append(queue, e) ELSE queue
         /\ untold' \subseteq Uids
         /\ \A u \in Uids \ untold' : ~Concerns(e, u) => u \notin untold
         /\ \A u \in Uids \ untold' : Concerns(e, u) /\ LockHears => (Has(store, u) <=> Stores(e))
         /\ \A u \in Uids \ untold' : Concerns(e, u) /\ ~LockHears =>
              screen # "lock" /\ Lock!ItemsOf(u) = VersOf(store, u) /\ u \notin Calls
<1>1. /\ todo[t] # <<>> /\ todo' = [todo EXCEPT ![t] = Tail(todo[t])]
      /\ store' = store /\ adding' = adding /\ made' = made
  BY DEF PostEvent, Lock!PostEvent, Lock!Posts
<1>2. todo \in [Threads -> Seq(PhoneEvent)] /\ \A s \in Threads : Len(todo[s]) =< 1
  BY DEF StoreTypes, OneEach
<1>3. e \in PhoneEvent
  <2>1. todo[t] \in Seq(PhoneEvent)
    BY <1>2
  <2> QED BY <1>1, <2>1
<1>4. Tail(todo[t]) = <<>>
  BY <1>1, <1>2, TailOfOne
<1>5. todo' \in [Threads -> Seq(PhoneEvent)] /\ \A s \in Threads : todo'[s] = IF s = t THEN <<>> ELSE todo[s]
  <2>1. <<>> \in Seq(PhoneEvent)
    OBVIOUS
  <2> QED BY <1>1, <1>2, <1>4, <2>1
<1>6. StoreTypes' /\ OneEach'
  BY <1>1, <1>2, <1>5 DEF StoreTypes, OneEach
<1>7. \A u : ~Pending(u)' /\ ~Concerns(e, u) => ~Pending(u)
  <2> SUFFICES ASSUME NEW u, Pending(u), ~Concerns(e, u) PROVE Pending(u)'
    OBVIOUS
  <2>1. PICK s \in Threads : todo[s] # <<>> /\ Concerns(Head(todo[s]), u)
    BY DEF Pending
  <2>2. s # t
    BY <2>1
  <2>3. todo'[s] = todo[s]
    BY <2>2, <1>5
  <2> QED BY <2>1, <2>3 DEF Pending
<1>8. UNCHANGED <<screen, pc, skin, items, leaving, dismissed, refused, callScreen, call>>
  BY DEF PostEvent, Lock!PostEvent, Ring!PostEvent, Lock!screenVars
<1>9. queue' = IF LockHears THEN Append(queue, e) ELSE queue
  BY DEF PostEvent, Lock!PostEvent, Lock!Deliver, Lock!Heard, LockHears
<1>10. untold' = (untold \ {u \in Lock!About(e) : LockHears /\ Lock!Truthful(e, u)})
                   \cup {u \in Lock!About(e) : IF LockHears THEN ~Lock!Truthful(e, u) ELSE Lock!Misses(u)}
  BY DEF PostEvent, Lock!PostEvent, Lock!Deliver, Lock!Heard, LockHears
<1>11. Lock!About(e) \subseteq Uids /\ \A u \in Uids : u \in Lock!About(e) <=> Concerns(e, u)
  <2>1. Lock!About(e) \subseteq Uids
    BY <1>3 DEF PhoneEvent, Event, Lock!About
  <2> QED BY <2>1, <1>3, AboutConcerns
<1>12. ASSUME NEW u PROVE Lock!Truthful(e, u) <=> (Has(store, u) <=> Stores(e))
  <2>1. Lock!Truthful(e, u) <=> (Lock!Has(store, u) <=> Stores(e))
    <3>1. Lock!Has(store, u) \in BOOLEAN /\ (e.action \in {"Added", "Changed"}) \in BOOLEAN
      BY DEF Lock!Has
    <3> QED BY <3>1 DEF Lock!Truthful, Stores
  <2>2. Lock!Has(store, u) <=> Has(store, u)
    BY DEF Lock!Has, Has
  <2> QED BY <2>1, <2>2
<1>13. \A u : Lock!Misses(u) <=> screen = "lock" \/ Lock!ItemsOf(u) # VersOf(store, u) \/ u \in Calls
  BY DEF Lock!Misses, Lock!StoredOf, VersOf
<1>14. untold' \subseteq Uids
  BY <1>10, <1>11 DEF LockTypes
<1>15. ASSUME NEW u \in Uids \ untold'
       PROVE  /\ ~Concerns(e, u) => u \notin untold
              /\ Concerns(e, u) /\ LockHears => (Has(store, u) <=> Stores(e))
              /\ Concerns(e, u) /\ ~LockHears =>
                   screen # "lock" /\ Lock!ItemsOf(u) = VersOf(store, u) /\ u \notin Calls
  <2>1. ~Concerns(e, u) => u \notin untold
    BY <1>10, <1>11, <1>15
  <2>2. Concerns(e, u) /\ LockHears => Lock!Truthful(e, u)
    BY <1>10, <1>11, <1>15
  <2>3. Concerns(e, u) /\ ~LockHears => ~Lock!Misses(u)
    BY <1>10, <1>11, <1>15
  <2> QED BY <2>1, <2>2, <2>3, <1>12, <1>13
<1> QED BY <1>1, <1>3, <1>6, <1>7, <1>8, <1>9, <1>14, <1>15

(* Ignoring or rejecting the call erases it; the other steps of LVGL leave *)
(* the store as it is.                                                     *)
LEMMA RingRunsKeeps ==
  ASSUME StoreTypes, OneEach, RingRuns
  PROVE  StoreTypes' /\ OneEach'
<1>1. todo' = todo /\ adding' = adding /\ made' = made
  BY DEF RingRuns, Ring!Lvgl, Ring!Listen, Ring!LeaveEmpty, Ring!LoopEvent, Ring!Press, Ring!Leave, Ring!storeVars
<1>2. store' = store \/ store' = Erase(store, call)
  BY DEF RingRuns, Ring!Lvgl, Ring!Listen, Ring!LeaveEmpty, Ring!LoopEvent, Ring!Press, Ring!Dispose, Ring!storeVars,
         Erase, Ring!Erase, Has, Ring!Has, FindNotif, Ring!FindNotif, RemoveAt, Ring!RemoveAt
<1>3. store' \in Seq(Stored) /\ Len(store') =< MaxNotifs /\ Distinct(store')
  <2>1. store \in Seq(Stored) /\ Len(store) =< MaxNotifs /\ Distinct(store)
    BY DEF StoreTypes, OneEach
  <2>2. CASE store' = store
    BY <2>1, <2>2
  <2>3. CASE store' = Erase(store, call)
    <3> DEFINE r == Erase(store, call)
    <3>1. r \in Seq(Stored) /\ Len(r) =< Len(store) /\ Distinct(r)
      BY <2>1, EraseVers
    <3> HIDE DEF r
    <3>2. Len(r) \in Nat /\ Len(store) \in Nat
      BY <3>1, <2>1
    <3>3. Len(r) =< MaxNotifs
      BY <3>1, <3>2, <2>1
    <3> QED BY <2>3, <3>1, <3>3 DEF r
  <2> QED BY <1>2, <2>2, <2>3
<1> QED BY <1>1, <1>3 DEF StoreTypes, OneEach

LEMMA StoreStays ==
  ASSUME PostInput \/ LockRuns \/ Rings \/ UNCHANGED vars
  PROVE  UNCHANGED storeVars
<1>1. CASE PostInput
  BY <1>1 DEF PostInput, Lock!PostOther, Ring!PostButton, Lock!storeVars, Ring!storeVars, storeVars
<1>2. CASE LockRuns
  BY <1>2 DEF LockRuns, Lock!Lvgl, Lock!Construct, Lock!Prepare, Lock!Listen, Lock!LoopEvent, Lock!LoopEnd,
     Lock!NextLoop, Lock!Dismiss, Lock!Unlock, Lock!StopScreen, Lock!storeVars, storeVars
<1>3. CASE Rings
  BY <1>3 DEF Rings, Lock!ShowCall, Lock!StopScreen, Lock!storeVars, storeVars
<1>4. CASE UNCHANGED vars
  BY <1>4 DEF vars
<1> QED BY <1>1, <1>2, <1>3, <1>4

LEMMA StoreStep ==
  ASSUME StoreTypes, LockTypes, OneEach, [Next]_vars
  PROVE  StoreTypes' /\ OneEach'
<1>1. CASE Source
  BY <1>1, SourceCallKeeps DEF Source
<1>2. ASSUME NEW t \in Threads, PostEvent(t) PROVE StoreTypes' /\ OneEach'
  BY <1>2, PostDoes
<1>3. CASE RingRuns
  BY <1>3, RingRunsKeeps
<1>4. CASE PostInput \/ LockRuns \/ Rings \/ UNCHANGED vars
  <2>1. UNCHANGED <<store, todo, adding, made>>
    BY <1>4, StoreStays DEF storeVars
  <2> QED BY <2>1 DEF StoreTypes, OneEach
<1> QED BY <1>1, <1>2, <1>3, <1>4 DEF Next

-----------------------------------------------------------------------------
(* The items: finite, and no more than MaxNotifs.                          *)

LEMMA ImageCount ==
  ASSUME NEW S, IsFiniteSet(S), NEW f, NEW T, f \in [S -> T]
  PROVE  IsFiniteSet({f[x] : x \in S}) /\ Cardinality({f[x] : x \in S}) =< Cardinality(S)
<1> DEFINE R == {f[x] : x \in S}
<1>1. f \in Surjection(S, R)
  <2>1. f \in [S -> R]
    OBVIOUS
  <2> QED BY <2>1 DEF Surjection
<1> HIDE DEF R
<1> QED BY <1>1, FS_Surjection DEF R

(* The instance of the lock screen counts as its user does. *)
LEMMA SameCount ==
  ASSUME NEW S
  PROVE  Lock!Cardinality(S) = Cardinality(S)
BY DEF Lock!Cardinality, Cardinality

ItemSet == [uid : Uids \cup {NoUid}, ver : 0 .. MaxCalls]

Fits(its) == its \subseteq ItemSet /\ IsFiniteSet(its) /\ Cardinality(its) =< MaxNotifs

LEMMA FitsSubset ==
  ASSUME NEW its, Fits(its), NEW jts, jts \subseteq its
  PROVE  Fits(jts)
<1>1. IsFiniteSet(its) /\ Cardinality(its) \in Nat /\ Cardinality(its) =< MaxNotifs /\ its \subseteq ItemSet
  BY FS_CardinalityType DEF Fits
<1>2. IsFiniteSet(jts) /\ Cardinality(jts) =< Cardinality(its)
  BY <1>1, FS_Subset
<1>3. Cardinality(jts) \in Nat
  BY <1>2, FS_CardinalityType
<1>4. Cardinality(jts) =< MaxNotifs
  BY <1>1, <1>2, <1>3
<1> QED BY <1>1, <1>2, <1>4 DEF Fits

LEMMA FitsEmpty == Fits({})
<1>1. IsFiniteSet({}) /\ Cardinality({}) = 0
  BY FS_EmptySet
<1> QED BY <1>1 DEF Fits

LEMMA FitsUpdate ==
  ASSUME NEW its, Fits(its), NEW uid, NEW ver \in 0 .. MaxCalls
  PROVE  Fits(Lock!Update(its, uid, ver))
<1> DEFINE f == [it \in its |-> IF it.uid = uid THEN [it EXCEPT !.ver = ver] ELSE it]
           r == {f[it] : it \in its}
<1>1. IsFiniteSet(its) /\ Cardinality(its) \in Nat /\ Cardinality(its) =< MaxNotifs /\ its \subseteq ItemSet
  BY FS_CardinalityType DEF Fits
<1>2. f \in [its -> ItemSet]
  <2>1. \A it \in its : it \in ItemSet /\ [it EXCEPT !.ver = ver] \in ItemSet
    BY <1>1 DEF ItemSet
  <2> QED BY <2>1
<1>3. Lock!Update(its, uid, ver) = r
  BY DEF Lock!Update
<1>4. r \subseteq ItemSet
  BY <1>2
<1> HIDE DEF f
<1>5. IsFiniteSet(r) /\ Cardinality(r) =< Cardinality(its)
  BY <1>1, <1>2, ImageCount
<1> HIDE DEF r
<1>6. Cardinality(r) \in Nat
  BY <1>5, FS_CardinalityType
<1>7. Cardinality(r) =< MaxNotifs
  BY <1>1, <1>5, <1>6
<1> QED BY <1>3, <1>4, <1>5, <1>7 DEF Fits

LEMMA FitsAdd ==
  ASSUME NEW its, Fits(its), NEW uid \in Uids \cup {NoUid}, NEW ver \in 0 .. MaxCalls
  PROVE  Fits(Lock!NotifAdd(its, uid, ver))
<1>1. CASE Lock!ShowsUid(its, uid)
  BY <1>1, FitsUpdate DEF Lock!NotifAdd
<1>2. CASE ~Lock!ShowsUid(its, uid) /\ Cardinality(its) >= MaxNotifs
  BY <1>2, SameCount DEF Lock!NotifAdd
<1>3. CASE ~Lock!ShowsUid(its, uid) /\ ~(Cardinality(its) >= MaxNotifs)
  <2> DEFINE it == [uid |-> uid, ver |-> ver]
             r == its \cup {it}
  <2>1. Lock!NotifAdd(its, uid, ver) = r
    BY <1>3, SameCount DEF Lock!NotifAdd
  <2>2. IsFiniteSet(its) /\ Cardinality(its) \in Nat /\ its \subseteq ItemSet /\ it \in ItemSet
    BY FS_CardinalityType DEF Fits, ItemSet
  <2> HIDE DEF it
  <2>3. IsFiniteSet(r) /\ (Cardinality(r) = Cardinality(its) \/ Cardinality(r) = Cardinality(its) + 1)
    BY <2>2, FS_AddElement
  <2>4. r \subseteq ItemSet
    BY <2>2
  <2> HIDE DEF r
  <2>5. Cardinality(r) =< MaxNotifs
    BY <1>3, <2>2, <2>3
  <2> QED BY <2>1, <2>3, <2>4, <2>5 DEF Fits
<1> QED BY <1>1, <1>2, <1>3

LEMMA FitsCopy ==
  ASSUME StoreTypes
  PROVE  Fits({[uid |-> store[i].uid, ver |-> store[i].ver] : i \in DOMAIN store})
<1> DEFINE n == Len(store)
           f == [i \in 1 .. n |-> [uid |-> store[i].uid, ver |-> store[i].ver]]
           r == {f[i] : i \in 1 .. n}
<1>1. store \in Seq(Stored) /\ n \in Nat /\ n =< MaxNotifs /\ DOMAIN store = 1 .. n
  BY DEF StoreTypes
<1>2. f \in [1 .. n -> ItemSet]
  <2>1. \A i \in 1 .. n : store[i] \in Stored
    BY <1>1
  <2>2. 1 .. MaxCalls \subseteq 0 .. MaxCalls
    OBVIOUS
  <2>3. \A i \in 1 .. n : store[i].uid \in Uids /\ store[i].ver \in 0 .. MaxCalls
    BY <2>1, <2>2 DEF Stored
  <2> QED BY <2>3 DEF ItemSet
<1>3. {[uid |-> store[i].uid, ver |-> store[i].ver] : i \in DOMAIN store} = r
  BY <1>1
<1>4. r \subseteq ItemSet
  BY <1>2
<1> HIDE DEF f
<1>5. IsFiniteSet(1 .. n) /\ Cardinality(1 .. n) = n
  <2> HIDE DEF n
  <2>1. n \in Int /\ 1 \in Int /\ (IF 1 > n THEN 0 ELSE n - 1 + 1) = n
    BY <1>1
  <2> QED BY <2>1, FS_Interval
<1>6. IsFiniteSet(r) /\ Cardinality(r) =< n
  <2> HIDE DEF n
  <2>1. f \in [1 .. n -> ItemSet] /\ IsFiniteSet(1 .. n)
    BY <1>2, <1>5
  <2>2. IsFiniteSet(r) /\ Cardinality(r) =< Cardinality(1 .. n)
    BY <2>1, ImageCount, ZenonT(30)
  <2> QED BY <2>2, <1>5
<1> HIDE DEF r
<1>7. Cardinality(r) \in Nat
  BY <1>6, FS_CardinalityType
<1>8. Cardinality(r) =< MaxNotifs
  BY <1>1, <1>6, <1>7
<1> QED BY <1>3, <1>4, <1>6, <1>8 DEF Fits

-----------------------------------------------------------------------------
(* What an event does to the items.                                        *)

LEMMA SameFind ==
  ASSUME NEW ns, NEW u
  PROVE  (Lock!Has(ns, u) <=> Has(ns, u)) /\ Lock!FindNotif(ns, u) = FindNotif(ns, u)
BY DEF Lock!Has, Has, Lock!FindNotif, FindNotif

(* notifAdd leaves the other items alone, and an item of the uid shows ver. *)
LEMMA AddDoes ==
  ASSUME NEW its, Fits(its), NEW uid, NEW ver
  PROVE  /\ \A it \in Lock!NotifAdd(its, uid, ver) : it.uid # uid => it \in its
         /\ \A it \in its : it.uid # uid => it \in Lock!NotifAdd(its, uid, ver)
         /\ \A it \in Lock!NotifAdd(its, uid, ver) : it.uid = uid => it.ver = ver
<1> DEFINE r == Lock!NotifAdd(its, uid, ver)
           new(it) == IF it.uid = uid THEN [it EXCEPT !.ver = ver] ELSE it
<1>1. \A it \in its : it.uid = uid => new(it).uid = uid /\ new(it).ver = ver
  BY DEF Fits, ItemSet
<1>2. \A it \in its : it.uid # uid => new(it) = it
  OBVIOUS
<1>3. CASE Lock!ShowsUid(its, uid)
  <2>1. r = {new(it) : it \in its}
    BY <1>3 DEF Lock!NotifAdd, Lock!Update
  <2> HIDE DEF new, r
  <2>2. \A x \in r : \E it \in its : x = new(it)
    BY <2>1
  <2>3. \A it \in its : new(it) \in r
    BY <2>1
  <2>4. (\A it \in r : it.uid # uid => it \in its) /\ (\A it \in its : it.uid # uid => it \in r)
    BY <2>2, <2>3, <1>1, <1>2
  <2>5. \A it \in r : it.uid = uid => it.ver = ver
    BY <2>2, <1>1, <1>2
  <2> QED BY <2>4, <2>5 DEF r
<1>4. CASE ~Lock!ShowsUid(its, uid)
  <2>1. r = its \/ r = its \cup {[uid |-> uid, ver |-> ver]}
    BY <1>4 DEF Lock!NotifAdd
  <2>2. \A it \in its : it.uid # uid
    BY <1>4 DEF Lock!ShowsUid
  <2> HIDE DEF r
  <2>3. \A it \in r : it \in its \/ (it.uid = uid /\ it.ver = ver)
    BY <2>1
  <2>4. its \subseteq r
    BY <2>1
  <2> QED BY <2>2, <2>3, <2>4 DEF r
<1> QED BY <1>3, <1>4

(* Added and Changed show the stored content of u, or the empty item.      *)
LEMMA ShowDoes ==
  ASSUME StoreTypes, LockTypes, OneEach, NEW u \in Uids, Lock!Show(u)
  PROVE  /\ Fits(items') /\ leaving' \in BOOLEAN /\ dismissed' \subseteq Uids /\ refused' \subseteq Uids
         /\ leaving => leaving'
         /\ u \in Calls /\ Has(store, u) => leaving'
         /\ \A v \in Uids : v # u =>
              /\ Lock!ItemsOf(v)' = Lock!ItemsOf(v)
              /\ v \notin dismissed' => v \notin dismissed
              /\ v \notin refused' => v \notin refused
         /\ u \notin Calls /\ Has(store, u) /\ u \notin refused' => Lock!ItemsOf(u)' = VersOf(store, u)
<1> DEFINE found == Has(store, u)
           uid == IF found THEN u ELSE NoUid
           ver == IF found THEN store[FindNotif(store, u)].ver ELSE 0
<1>1. /\ Fits(items) /\ dismissed \subseteq Uids /\ refused \subseteq Uids /\ leaving \in BOOLEAN
      /\ store \in Seq(Stored) /\ Distinct(store)
  BY DEF StoreTypes, LockTypes, OneEach, Fits, ItemSet
<1>2. ver \in 0 .. MaxCalls
  <2>1. CASE found
    <3>1. FindNotif(store, u) \in DOMAIN store
      BY <2>1 DEF FindNotif, Has
    <3>2. store[FindNotif(store, u)] \in Stored
      BY <3>1, <1>1
    <3>3. store[FindNotif(store, u)].ver \in 1 .. MaxCalls
      BY <3>2 DEF Stored
    <3> QED BY <3>3, <2>1
  <2>2. CASE ~found
    BY <2>2
  <2> QED BY <2>1, <2>2
<1>3. uid \in Uids \cup {NoUid} /\ (found => uid = u) /\ (~found => uid = NoUid)
  OBVIOUS
<1>4. found => VersOf(store, u) = {ver}
  BY <1>1, FoundVers
<1>5. IF uid \in Calls
        THEN leaving' = TRUE /\ items' = items /\ dismissed' = dismissed /\ refused' = refused
        ELSE /\ items' = Lock!NotifAdd(items, uid, ver)
             /\ refused' = IF Lock!ShowsUid(items', uid) THEN refused \ {u} ELSE refused \cup {u}
             /\ dismissed' = dismissed \ {u}
             /\ leaving' = leaving
  BY SameFind DEF Lock!Show
<1> HIDE DEF ver, uid
<1>6. CASE uid \in Calls
  <2>1. leaving' = TRUE /\ items' = items /\ dismissed' = dismissed /\ refused' = refused
    BY <1>5, <1>6
  <2>2. found /\ u \in Calls
    BY <1>3, <1>6 DEF found
  <2>3. \A v : Lock!ItemsOf(v)' = Lock!ItemsOf(v)
    BY <2>1 DEF Lock!ItemsOf
  <2> QED BY <1>1, <2>1, <2>2, <2>3
<1>7. CASE uid \notin Calls
  <2>1. /\ items' = Lock!NotifAdd(items, uid, ver)
        /\ refused' = IF Lock!ShowsUid(items', uid) THEN refused \ {u} ELSE refused \cup {u}
        /\ dismissed' = dismissed \ {u} /\ leaving' = leaving
    BY <1>5, <1>7
  <2>2. Fits(items')
    BY <1>1, <1>2, <1>3, <2>1, FitsAdd
  <2>3. ~(u \in Calls /\ Has(store, u))
    BY <1>3, <1>7
  <2>5. \A it \in items' : it.uid # uid => it \in items
    BY <1>1, <2>1, AddDoes
  <2>6. \A it \in items : it.uid # uid => it \in items'
    BY <1>1, <2>1, AddDoes
  <2>7. \A it \in items' : it.uid = uid => it.ver = ver
    BY <1>1, <2>1, AddDoes
  <2>8. ASSUME NEW v \in Uids, v # u PROVE Lock!ItemsOf(v)' = Lock!ItemsOf(v)
    <3>1. v # uid
      BY <1>3, <2>8
    <3>2. Lock!ItemsOf(v)' = {it.ver : it \in {jt \in items' : jt.uid = v}}
      BY DEF Lock!ItemsOf
    <3>3. {jt \in items' : jt.uid = v} = {jt \in items : jt.uid = v}
      BY <3>1, <2>5, <2>6
    <3> QED BY <3>2, <3>3 DEF Lock!ItemsOf
  <2>9. ASSUME u \notin Calls, found, u \notin refused' PROVE Lock!ItemsOf(u)' = VersOf(store, u)
    <3>1. uid = u
      BY <1>3, <2>9
    <3>2. Lock!ShowsUid(items', uid)
      BY <2>1, <2>9
    <3>3. PICK it \in items' : it.uid = u
      BY <3>1, <3>2 DEF Lock!ShowsUid
    <3>4. \A jt \in items' : jt.uid = u => jt.ver = ver
      BY <2>7, <3>1, <3>2
    <3>5. Lock!ItemsOf(u)' = {jt.ver : jt \in {jt \in items' : jt.uid = u}}
      BY DEF Lock!ItemsOf
    <3>6. Lock!ItemsOf(u)' = {ver}
      BY <3>3, <3>4, <3>5
    <3> QED BY <3>6, <1>4, <2>9
  <2>10. \A v \in Uids : v # u => (v \notin dismissed' => v \notin dismissed) /\ (v \notin refused' => v \notin refused)
    BY <2>1
  <2>11. leaving' \in BOOLEAN /\ dismissed' \subseteq Uids /\ refused' \subseteq Uids /\ (leaving => leaving')
    BY <1>1, <2>1
  <2> QED BY <2>2, <2>3, <2>8, <2>9, <2>10, <2>11
<1> QED BY <1>6, <1>7

(* Whatever event LoopEvent takes.                                         *)
LEMMA ProcessDoes ==
  ASSUME StoreTypes, LockTypes, OneEach, NEW e \in PhoneEvent \cup {Event("Other", "all")}, Lock!ProcessEvt(e)
  PROVE  /\ Fits(items') /\ leaving' \in BOOLEAN /\ dismissed' \subseteq Uids /\ refused' \subseteq Uids
         /\ leaving => leaving'
         /\ \A v \in Uids : ~Concerns(e, v) =>
              /\ Lock!ItemsOf(v)' = Lock!ItemsOf(v)
              /\ v \notin dismissed' => v \notin dismissed
              /\ v \notin refused' => v \notin refused
         /\ \A v \in Uids : skin /\ Concerns(e, v) /\ Stores(e) /\ Has(store, v) =>
              /\ v \in Calls => leaving'
              /\ v \notin Calls /\ v \notin refused' => Lock!ItemsOf(v)' = VersOf(store, v)
         /\ \A v \in Uids : skin /\ Concerns(e, v) /\ ~Stores(e) => Lock!ItemsOf(v)' = {}
<1>1. /\ Fits(items) /\ dismissed \subseteq Uids /\ refused \subseteq Uids /\ leaving \in BOOLEAN
  BY DEF LockTypes, Fits, ItemSet
<1>2. CASE ~skin \/ e = Lock!Other
  <2>1. UNCHANGED <<items, leaving, dismissed, refused>>
    BY <1>2 DEF Lock!ProcessEvt
  <2>2. \A v : Lock!ItemsOf(v)' = Lock!ItemsOf(v)
    BY <2>1 DEF Lock!ItemsOf
  <2>3. skin => \A v : ~Concerns(e, v)
    BY <1>2 DEF Concerns, Lock!Other, Lock!Event
  <2> QED BY <1>1, <2>1, <2>2, <2>3
<1>3. CASE skin /\ e # Lock!Other
  <2>1. e \in PhoneEvent
    BY <1>3 DEF Lock!Other, Lock!Event, Event
  <2>2. /\ e.action \in {"Added", "Changed", "Removed", "Cleared"}
        /\ e.action # "Cleared" => e.id \in Uids
    BY <2>1 DEF PhoneEvent, Event
  <2>3. CASE e.action \in {"Added", "Changed"}
    <3>1. Lock!Show(e.id)
      BY <1>3, <2>3 DEF Lock!ProcessEvt
    <3>2. e.id \in Uids /\ Stores(e) /\ \A v : Concerns(e, v) <=> v = e.id
      BY <2>2, <2>3 DEF Concerns, Stores
    <3> QED BY <3>1, <3>2, ShowDoes
  <2>4. CASE e.action = "Removed"
    <3>1. items' = Lock!NotifRem(items, e.id) /\ UNCHANGED <<leaving, dismissed, refused>>
      BY <1>3, <2>4 DEF Lock!ProcessEvt
    <3>2. ~Stores(e) /\ \A v : Concerns(e, v) <=> v = e.id
      BY <2>4 DEF Concerns, Stores
    <3>3. items' \subseteq items /\ \A it \in items : it \in items' <=> it.uid # e.id
      BY <3>1 DEF Lock!NotifRem
    <3>4. \A v : Lock!ItemsOf(v)' = {it.ver : it \in {jt \in items' : jt.uid = v}}
      BY DEF Lock!ItemsOf
    <3>5. ASSUME NEW v, v # e.id PROVE Lock!ItemsOf(v)' = Lock!ItemsOf(v)
      <4>1. {jt \in items' : jt.uid = v} = {jt \in items : jt.uid = v}
        BY <3>3, <3>5
      <4> QED BY <4>1, <3>4 DEF Lock!ItemsOf
    <3>6. Lock!ItemsOf(e.id)' = {}
      <4>1. {jt \in items' : jt.uid = e.id} = {}
        BY <3>3
      <4> QED BY <4>1, <3>4
    <3>7. Fits(items')
      BY <1>1, <3>3, FitsSubset
    <3> QED BY <1>1, <3>1, <3>2, <3>5, <3>6, <3>7
  <2>5. CASE e.action = "Cleared"
    <3>1. items' = {} /\ UNCHANGED <<leaving, dismissed, refused>>
      BY <1>3, <2>5 DEF Lock!ProcessEvt
    <3>2. ~Stores(e) /\ \A v : Concerns(e, v)
      BY <2>5 DEF Concerns, Stores
    <3>3. \A v : Lock!ItemsOf(v)' = {}
      BY <3>1 DEF Lock!ItemsOf
    <3> QED BY <1>1, <3>1, <3>2, <3>3, FitsEmpty
  <2> QED BY <2>2, <2>3, <2>4, <2>5
<1> QED BY <1>2, <1>3 DEF LockTypes

-----------------------------------------------------------------------------
(* The types and the places of the two screens.                            *)

(* A set of positions has a first one.                                     *)
LEMMA FirstOf ==
  ASSUME NEW T \in SUBSET Nat, T # {}
  PROVE  \E i \in T : \A j \in T : i =< j
<1>1. PICK i \in T : \A j \in T : ~(<<j, i>> \in OpToRel(<, Nat))
  BY NatLessThanWellFounded, WFMin
<1>2. \A j \in T : ~(j < i)
  BY <1>1 DEF OpToRel
<1>3. \A j \in T : i =< j
  BY <1>2
<1> QED BY <1>3

(* getCall finds a stored call, or the empty Notif.                        *)
LEMMA GetCallType ==
  ASSUME StoreTypes
  PROVE  Ring!GetCall \in Uids \cup {NoUid}
<1> DEFINE calls == {i \in DOMAIN store : store[i].uid \in Calls}
           first == CHOOSE i \in calls : \A j \in calls : i =< j
<1>1. Ring!GetCall = IF calls = {} THEN NoUid ELSE store[first].uid
  BY DEF Ring!GetCall
<1>2. CASE calls = {}
  BY <1>1, <1>2
<1>3. CASE calls # {}
  <2>1. calls \subseteq Nat
    BY DEF StoreTypes
  <2>2. \E i \in calls : \A j \in calls : i =< j
    <3> HIDE DEF calls
    <3> QED BY <1>3, <2>1, FirstOf
  <2>3. first \in calls
    <3> HIDE DEF calls
    <3> QED BY <2>2
  <2> HIDE DEF first
  <2>4. store[first].uid \in Uids
    BY <2>3
  <2> QED BY <1>1, <1>3, <2>4
<1> QED BY <1>2, <1>3

(* What does not touch the lock screen, and all there is. *)
OthersRun == Source \/ (Ring!PostButton /\ UNCHANGED lockVars) \/ UNCHANGED vars

LEMMA PhoneMoves ==
  ASSUME [Next]_vars
  PROVE  \/ OthersRun
         \/ Lock!PostOther /\ UNCHANGED ringVars
         \/ \E t \in Threads : PostEvent(t)
         \/ Lock!Construct /\ UNCHANGED ringVars
         \/ Lock!Prepare /\ UNCHANGED ringVars
         \/ Lock!Listen /\ UNCHANGED ringVars
         \/ Lock!LoopEvent /\ UNCHANGED ringVars
         \/ Lock!LoopEnd /\ UNCHANGED ringVars
         \/ Lock!NextLoop /\ UNCHANGED ringVars
         \/ \E it \in items : Lock!Dismiss(it) /\ UNCHANGED ringVars
         \/ Lock!Unlock /\ UNCHANGED ringVars
         \/ Rings
         \/ RingRuns
<1>1. CASE Source \/ UNCHANGED vars
  BY <1>1 DEF OthersRun
<1>2. CASE PostInput
  BY <1>2 DEF PostInput, OthersRun
<1>3. CASE LockRuns
  BY <1>3 DEF LockRuns, Lock!Lvgl
<1>4. CASE (\E t \in Threads : PostEvent(t)) \/ Rings \/ RingRuns
  BY <1>4
<1> QED BY <1>1, <1>2, <1>3, <1>4 DEF Next

LEMMA LockRest ==
  ASSUME OthersRun
  PROVE  UNCHANGED <<screen, pc, queue, skin, items, leaving, dismissed, untold, refused>>
BY DEF OthersRun, Source, lockVars, vars

LEMMA StopDoes ==
  ASSUME NEW n, Lock!StopScreen(n)
  PROVE  /\ screen' = n /\ queue' = <<>> /\ items' = {} /\ skin' = FALSE /\ leaving' = FALSE
         /\ dismissed' = {} /\ untold' = {} /\ refused' = {} /\ pc' = pc
BY DEF Lock!StopScreen

LEMMA RingLeavesLock ==
  ASSUME RingRuns
  PROVE  /\ UNCHANGED <<pc, queue, skin, items, leaving, dismissed, untold, refused>>
         /\ screen' = IF callScreen' = "other" THEN "other" ELSE screen
         /\ callScreen # "other"
         /\ callScreen' \in {"other", "built", "call", "leaving"}
BY DEF RingRuns, Ring!Lvgl, Ring!Listen, Ring!LeaveEmpty, Ring!LoopEvent, Ring!Press, Ring!Leave

LEMMA QueueAppend ==
  ASSUME NEW S, NEW q \in Seq(S), NEW e \in S, NEW n \in Nat, Len(q) < n
  PROVE  Append(q, e) \in Seq(S) /\ Len(Append(q, e)) =< n
<1>1. Append(q, e) \in Seq(S) /\ Len(Append(q, e)) = Len(q) + 1 /\ Len(q) \in Nat
  OBVIOUS
<1> QED BY <1>1

LEMMA QueueTail ==
  ASSUME NEW S, NEW q \in Seq(S), q # <<>>, NEW n \in Nat, Len(q) =< n
  PROVE  Tail(q) \in Seq(S) /\ Len(Tail(q)) =< n /\ Head(q) \in S
<1>1. Tail(q) \in Seq(S) /\ Len(Tail(q)) = Len(q) - 1 /\ Len(q) \in Nat /\ Head(q) \in S
  BY HeadTailProperties
<1> QED BY <1>1

LEMMA LockStep ==
  ASSUME StoreTypes, LockTypes, OneEach, [Next]_vars
  PROVE  LockTypes'
<1> DEFINE Q == PhoneEvent \cup {Event("Other", "all")}
<1>1. CASE OthersRun
  <2>1. UNCHANGED <<screen, pc, queue, skin, items, leaving, dismissed, untold, refused>>
    BY <1>1, LockRest
  <2> QED BY <2>1 DEF LockTypes
<1>2. CASE Lock!PostOther
  <2>1. /\ queue' = Append(queue, Event("Other", "all")) /\ Len(queue) < QueueLen
        /\ UNCHANGED <<screen, pc, skin, items, leaving, dismissed, untold, refused>>
    BY <1>2 DEF Lock!PostOther, Lock!Heard, Lock!Other, Lock!Event, Event, Lock!screenVars
  <2>2. queue \in Seq(Q) /\ Event("Other", "all") \in Q /\ QueueLen \in Nat
    BY DEF LockTypes
  <2> HIDE DEF Q
  <2>3. queue' \in Seq(Q) /\ Len(queue') =< QueueLen
    BY <2>1, <2>2, QueueAppend
  <2> QED BY <2>1, <2>3 DEF LockTypes, Q
<1>3. ASSUME NEW t \in Threads, PostEvent(t) PROVE LockTypes'
  <2> DEFINE e == Head(todo[t])
  <2>1. /\ e \in PhoneEvent /\ queue' = (IF LockHears THEN Append(queue, e) ELSE queue)
        /\ untold' \subseteq Uids
        /\ UNCHANGED <<screen, pc, skin, items, leaving, dismissed, refused>>
    BY <1>3, PostDoes
  <2> HIDE DEF e
  <2>2. queue \in Seq(Q) /\ Len(queue) =< QueueLen /\ e \in Q /\ QueueLen \in Nat
    BY <2>1 DEF LockTypes
  <2>3. queue' \in Seq(Q) /\ Len(queue') =< QueueLen
    <3> HIDE DEF Q
    <3>1. CASE LockHears
      <4>1. Len(queue) < QueueLen
        BY <3>1 DEF LockHears
      <4> QED BY <2>1, <2>2, <3>1, <4>1, QueueAppend
    <3>2. CASE ~LockHears
      BY <2>1, <2>2, <3>2
    <3> QED BY <3>1, <3>2
  <2> QED BY <2>1, <2>3 DEF LockTypes
<1>4. CASE Lock!Construct
  <2>1. /\ screen' = "built" /\ skin' = ~Lock!HasCall /\ leaving' = Lock!HasCall
        /\ items' = {} /\ dismissed' = {} /\ untold' = {} /\ refused' = {}
        /\ UNCHANGED <<pc, queue>>
    BY <1>4 DEF Lock!Construct
  <2>2. Lock!HasCall \in BOOLEAN /\ (~Lock!HasCall) \in BOOLEAN
    BY DEF Lock!HasCall
  <2> QED BY <2>1, <2>2, FitsEmpty DEF LockTypes, Fits
<1>5. CASE Lock!Prepare
  <2>1. /\ screen' = "prepared" /\ untold' = untold \ (Uids \ Calls) /\ queue' = <<>>
        /\ items' = (IF skin THEN {[uid |-> store[i].uid, ver |-> store[i].ver] : i \in DOMAIN store} ELSE {})
        /\ UNCHANGED <<pc, skin, leaving, dismissed, refused>>
    BY <1>5 DEF Lock!Prepare
  <2>2. Fits(items')
    <3>1. CASE skin
      BY <2>1, <3>1, FitsCopy
    <3>2. CASE ~skin
      BY <2>1, <3>2, FitsEmpty
    <3> QED BY <3>1, <3>2
  <2>3. queue' \in Seq(Q) /\ Len(queue') =< QueueLen
    BY <2>1
  <2> QED BY <2>1, <2>2, <2>3 DEF LockTypes, Fits, ItemSet
<1>6. CASE Lock!Listen
  <2>1. /\ screen' = "lock" /\ queue' = <<>> /\ pc' = "timers"
        /\ UNCHANGED <<skin, leaving, dismissed, items, untold, refused>>
    BY <1>6 DEF Lock!Listen
  <2>2. queue' \in Seq(Q) /\ Len(queue') =< QueueLen
    BY <2>1
  <2> QED BY <2>1, <2>2 DEF LockTypes
<1>7. CASE Lock!LoopEvent
  <2>1. /\ queue # <<>> /\ queue' = Tail(queue) /\ Lock!ProcessEvt(Head(queue))
        /\ UNCHANGED <<screen, pc, skin, untold>>
    BY <1>7 DEF Lock!LoopEvent
  <2>2. queue \in Seq(Q) /\ Len(queue) =< QueueLen /\ QueueLen \in Nat
    BY DEF LockTypes
  <2>3. queue' \in Seq(Q) /\ Len(queue') =< QueueLen /\ Head(queue) \in Q
    <3> HIDE DEF Q
    <3> QED BY <2>1, <2>2, QueueTail
  <2>4. Fits(items') /\ leaving' \in BOOLEAN /\ dismissed' \subseteq Uids /\ refused' \subseteq Uids
    BY <2>1, <2>3, ProcessDoes
  <2> QED BY <2>1, <2>3, <2>4 DEF LockTypes, Fits, ItemSet
<1>8. CASE Lock!LoopEnd
  BY <1>8 DEF Lock!LoopEnd, LockTypes
<1>9. CASE Lock!NextLoop
  BY <1>9 DEF Lock!NextLoop, LockTypes
<1>10. ASSUME NEW it \in items, Lock!Dismiss(it) PROVE LockTypes'
  <2>1. /\ items' = Lock!NotifRem(items, it.uid) /\ dismissed' = dismissed \cup ({it.uid} \cap Uids)
        /\ UNCHANGED <<screen, pc, skin, leaving, queue, untold, refused>>
    BY <1>10 DEF Lock!Dismiss
  <2>2. items' \subseteq items
    BY <2>1 DEF Lock!NotifRem
  <2>3. Fits(items')
    BY <2>2, FitsSubset DEF LockTypes, Fits, ItemSet
  <2> QED BY <2>1, <2>3 DEF LockTypes, Fits, ItemSet
<1>11. ASSUME NEW n \in {"other", "call"}, Lock!StopScreen(n) PROVE LockTypes'
  <2>q. queue' = <<>>
    BY <1>11, StopDoes
  <2>1. queue' \in Seq(Q) /\ Len(queue') =< QueueLen
    BY <2>q
  <2>2. skin' \in BOOLEAN /\ leaving' \in BOOLEAN
    BY <1>11, StopDoes
  <2> QED BY <1>11, <2>1, <2>2, StopDoes, FitsEmpty DEF LockTypes, Fits, ItemSet
<1>12. CASE RingRuns
  <2>1. screen' \in {"other", screen}
    BY <1>12, RingLeavesLock
  <2> QED BY <1>12, <2>1, RingLeavesLock DEF LockTypes
<1>13. CASE Lock!Unlock \/ Rings
  BY <1>11, <1>13 DEF Lock!Unlock, Rings, Lock!ShowCall
<1> QED BY <1>1, <1>2, <1>3, <1>4, <1>5, <1>6, <1>7, <1>8, <1>9, <1>10, <1>12, <1>13, PhoneMoves

LEMMA RingStep ==
  ASSUME StoreTypes, LockTypes, RingTypes, OneEach, [Next]_vars
  PROVE  RingTypes'
<1> DEFINE Q == PhoneEvent \cup {Event("AltPress", "all"), Event("Other", "all")}
<1>q. evts \in Seq(Q) /\ Len(evts) =< QueueLen /\ QueueLen \in Nat
  BY DEF RingTypes
<1>1. CASE UNCHANGED ringVars
  BY <1>1 DEF ringVars, RingTypes
<1>2. CASE Ring!PostButton
  <2>1. PICK b \in Ring!Buttons : evts' = Append(evts, b)
    BY <1>2 DEF Ring!PostButton
  <2>2. b \in Q
    BY DEF Ring!Buttons, Ring!Event, Event
  <2>3. Len(evts) < QueueLen /\ UNCHANGED <<callScreen, call, unheard>>
    BY <1>2 DEF Ring!PostButton, Ring!Heard
  <2>4. evts' \in Seq(Q) /\ Len(evts') =< QueueLen
    <3> HIDE DEF Q
    <3> QED BY <1>q, <2>1, <2>2, <2>3, QueueAppend
  <2> QED BY <2>3, <2>4 DEF RingTypes
<1>3. ASSUME NEW t \in Threads, PostEvent(t) PROVE RingTypes'
  <2> DEFINE e == Head(todo[t])
  <2>1. e \in Q
    BY <1>3, PostDoes
  <2>2. /\ evts' = (IF Ring!Heard THEN Append(evts, e) ELSE evts)
        /\ UNCHANGED <<callScreen, call>>
        /\ unheard' = (unheard \/ (e.action = "Cleared" /\ call # NoUid) \/ (Ring!Ends(e) /\ ~Ring!Heard))
    BY <1>3 DEF PostEvent, Ring!PostEvent
  <2> HIDE DEF e
  <2>3. evts' \in Seq(Q) /\ Len(evts') =< QueueLen
    <3> HIDE DEF Q
    <3>1. CASE Ring!Heard
      <4>1. Len(evts) < QueueLen
        BY <3>1 DEF Ring!Heard
      <4> QED BY <1>q, <2>1, <2>2, <3>1, <4>1, QueueAppend
    <3>2. CASE ~Ring!Heard
      BY <1>q, <2>2, <3>2
    <3> QED BY <3>1, <3>2
  <2>4. unheard' \in BOOLEAN
    BY <2>2
  <2> QED BY <2>2, <2>3, <2>4 DEF RingTypes
<1>4. CASE Rings
  <2>1. Ring!Construct
    BY <1>4 DEF Rings
  <2>2. call' = Ring!GetCall /\ callScreen' \in {"leaving", "built"} /\ UNCHANGED <<evts, unheard>>
    BY <2>1 DEF Ring!Construct
  <2> QED BY <2>2, GetCallType DEF RingTypes
<1>5. CASE RingRuns
  <2>1. CASE Ring!Listen
    BY <2>1 DEF Ring!Listen, RingTypes
  <2>2. CASE Ring!Leave
    <3>1. callScreen' = "other" /\ call' = NoUid /\ evts' = <<>> /\ unheard' = FALSE
      BY <2>2 DEF Ring!Leave
    <3>2. evts' \in Seq(Q) /\ Len(evts') =< QueueLen
      BY <3>1, <1>q
    <3>3. unheard' \in BOOLEAN
      BY <3>1
    <3> QED BY <3>1, <3>2, <3>3 DEF RingTypes
  <2>3. CASE Ring!LoopEvent /\ ~Ring!Leave
    <3>1. evts # <<>> /\ evts' = Tail(evts) /\ UNCHANGED <<callScreen, call, unheard>>
      BY <2>3 DEF Ring!LoopEvent
    <3>2. evts' \in Seq(Q) /\ Len(evts') =< QueueLen
      <4> HIDE DEF Q
      <4> QED BY <1>q, <3>1, QueueTail
    <3> QED BY <3>1, <3>2 DEF RingTypes
  <2> QED BY <1>5, <2>1, <2>2, <2>3 DEF RingRuns, Ring!Lvgl, Ring!LeaveEmpty, Ring!Press
<1>6. CASE OthersRun
  <2>1. UNCHANGED ringVars \/ Ring!PostButton
    BY <1>6 DEF OthersRun, Source, vars
  <2> QED BY <2>1, <1>1, <1>2
<1> QED BY <1>1, <1>3, <1>4, <1>5, <1>6, PhoneMoves

LEMMA PlacesStep ==
  ASSUME StoreTypes, LockTypes, OneEach, Places, [Next]_vars
  PROVE  Places'
<1>1. CASE OthersRun
  <2>1. UNCHANGED <<screen, queue, skin, leaving>>
    BY <1>1, LockRest
  <2>2. callScreen' = callScreen
    BY <1>1 DEF OthersRun, Source, vars, ringVars, Ring!PostButton
  <2> QED BY <2>1, <2>2 DEF Places
<1>2. CASE Lock!PostOther /\ UNCHANGED ringVars
  BY <1>2 DEF Lock!PostOther, Lock!Heard, Lock!screenVars, ringVars, Places
<1>3. ASSUME NEW t \in Threads, PostEvent(t) PROVE Places'
  BY <1>3, PostDoes DEF Places, LockHears
<1>4. CASE Lock!Construct /\ UNCHANGED ringVars
  <2>1. /\ screen = "other" /\ screen' = "built" /\ skin' = ~Lock!HasCall /\ leaving' = Lock!HasCall
        /\ queue' = queue /\ callScreen' = callScreen
    BY <1>4 DEF Lock!Construct, ringVars
  <2>2. skin' \/ leaving'
    BY <2>1 DEF Lock!HasCall
  <2> QED BY <2>1, <2>2 DEF Places
<1>5. CASE Lock!Prepare /\ UNCHANGED ringVars
  BY <1>5 DEF Lock!Prepare, ringVars, Places
<1>6. CASE Lock!Listen /\ UNCHANGED ringVars
  BY <1>6 DEF Lock!Listen, ringVars, Places
<1>7. CASE Lock!LoopEvent /\ UNCHANGED ringVars
  <2>1. /\ queue # <<>> /\ Lock!ProcessEvt(Head(queue)) /\ screen = "lock"
        /\ UNCHANGED <<screen, skin, callScreen>>
    BY <1>7 DEF Lock!LoopEvent, Lock!Running, ringVars
  <2>2. Head(queue) \in PhoneEvent \cup {Event("Other", "all")}
    BY <2>1, QueueTail DEF LockTypes
  <2>3. leaving => leaving'
    BY <2>1, <2>2, ProcessDoes
  <2> QED BY <2>1, <2>3 DEF Places
<1>8. CASE (Lock!LoopEnd \/ Lock!NextLoop) /\ UNCHANGED ringVars
  BY <1>8 DEF Lock!LoopEnd, Lock!NextLoop, ringVars, Places
<1>9. ASSUME NEW it \in items, Lock!Dismiss(it), UNCHANGED ringVars PROVE Places'
  BY <1>9 DEF Lock!Dismiss, ringVars, Places
<1>10. CASE Lock!Unlock /\ UNCHANGED ringVars
  <2>1. screen = "lock" /\ screen' = "other" /\ queue' = <<>> /\ callScreen' = callScreen
    BY <1>10, StopDoes DEF Lock!Unlock, Lock!Running, ringVars
  <2> QED BY <2>1 DEF Places
<1>11. CASE Rings
  <2>1. screen' = "call" /\ queue' = <<>> /\ callScreen' \in {"leaving", "built"}
    BY <1>11, StopDoes DEF Rings, Lock!ShowCall, Ring!Construct
  <2> QED BY <2>1 DEF Places
<1>12. CASE RingRuns
  BY <1>12, RingLeavesLock DEF Places
<1> QED BY <1>1, <1>2, <1>3, <1>4, <1>5, <1>6, <1>7, <1>8, <1>9, <1>10, <1>11, <1>12, PhoneMoves

-----------------------------------------------------------------------------
(* What is told, what is shown, and what is noticed.                       *)

LEMMA OthersKeep ==
  ASSUME StoreTypes, OneEach, OthersRun
  PROVE  SourceKeeps
<1>1. CASE Source
  BY <1>1, SourceCallKeeps DEF Source
<1>2. CASE ~Source
  <2>1. store' = store /\ todo' = todo
    BY <1>2 DEF OthersRun, vars, storeVars, Ring!PostButton, Ring!storeVars
  <2> QED BY <2>1 DEF SourceKeeps, Pending
<1> QED BY <1>1, <1>2

LEMMA LockKeeps ==
  ASSUME \/ Lock!PostOther \/ Lock!Construct \/ Lock!Prepare \/ Lock!Listen
         \/ Lock!LoopEvent \/ Lock!LoopEnd \/ Lock!NextLoop
         \/ (\E it \in items : Lock!Dismiss(it))
  PROVE  store' = store /\ \A u : Pending(u)' <=> Pending(u)
<1>1. store' = store /\ todo' = todo
  BY DEF Lock!PostOther, Lock!Construct, Lock!Prepare, Lock!Listen, Lock!LoopEvent, Lock!LoopEnd,
     Lock!NextLoop, Lock!Dismiss, Lock!storeVars
<1> QED BY <1>1 DEF Pending

LEMMA NotAboutOther ==
  ASSUME NEW u
  PROVE  ~Concerns(Event("Other", "all"), u)
BY DEF Concerns, Event

LEMMA ToldStep ==
  ASSUME StoreTypes, LockTypes, OneEach, Places, LastTold, [Next]_vars
  PROVE  LastTold'
<1> SUFFICES ASSUME NEW u \in Uids, u \notin untold', ~Pending(u)' PROVE Says(queue', u, Has(store', u))
  <2>1. LastTold' <=> \A u \in Uids \ untold' : ~Pending(u)' => Says(queue', u, Has(store', u))
    BY DEF LastTold, Says, LastAbout, Concerns, Has, Stores
  <2> QED BY <2>1
<1>q. queue \in Seq(PhoneEvent \cup {Event("Other", "all")})
  BY DEF LockTypes
<1>e. CASE queue' = <<>>
  BY <1>e, EmptyAbout
<1>k. ASSUME u \notin untold, ~Pending(u), queue' = queue, Has(store', u) <=> Has(store, u)
      PROVE  Says(queue', u, Has(store', u))
  <2>1. Says(queue, u, Has(store, u))
    BY <1>k DEF LastTold
  <2> QED BY <2>1, <1>k DEF Says
<1>1. CASE OthersRun
  <2>1. queue' = queue /\ untold' = untold
    BY <1>1, LockRest
  <2>2. ~Pending(u) /\ VersOf(store', u) = VersOf(store, u)
    BY <1>1, OthersKeep DEF SourceKeeps
  <2>3. Has(store', u) <=> Has(store, u)
    BY <2>2, HasVers
  <2> QED BY <2>1, <2>2, <2>3, <1>k
<1>2. CASE Lock!PostOther
  <2>1. queue' = Append(queue, Event("Other", "all")) /\ untold' = untold
    BY <1>2 DEF Lock!PostOther, Lock!Other, Lock!Event, Event
  <2>2. store' = store /\ ~Pending(u)
    BY <1>2, LockKeeps
  <2>3. Says(queue, u, Has(store, u))
    BY <2>1, <2>2 DEF LastTold
  <2>4. Event("Other", "all") \in PhoneEvent \cup {Event("Other", "all")}
    OBVIOUS
  <2>5. Says(Append(queue, Event("Other", "all")), u, Has(store, u))
    BY <1>q, <2>3, <2>4, NotAboutOther, AppendAbout
  <2> QED BY <2>1, <2>2, <2>5
<1>3. ASSUME NEW t \in Threads, PostEvent(t) PROVE Says(queue', u, Has(store', u))
  <2> DEFINE e == Head(todo[t])
  <2>1. /\ store' = store /\ e \in PhoneEvent
        /\ ~Concerns(e, u) => ~Pending(u) /\ u \notin untold
        /\ queue' = (IF LockHears THEN Append(queue, e) ELSE queue)
        /\ Concerns(e, u) /\ LockHears => (Has(store, u) <=> Stores(e))
        /\ Concerns(e, u) /\ ~LockHears => screen # "lock"
    BY <1>3, PostDoes
  <2> HIDE DEF e
  <2>2. CASE LockHears
    <3>1. queue' = Append(queue, e) /\ e \in PhoneEvent \cup {Event("Other", "all")}
      BY <2>1, <2>2
    <3>2. CASE Concerns(e, u)
      <4>1. Has(store, u) <=> Stores(e)
        BY <2>1, <2>2, <3>2
      <4>2. Says(Append(queue, e), u, Has(store, u))
        BY <1>q, <3>1, <3>2, <4>1, AppendAbout
      <4> QED BY <3>1, <4>2, <2>1
    <3>3. CASE ~Concerns(e, u)
      <4>1. Says(queue, u, Has(store, u))
        BY <2>1, <3>3 DEF LastTold
      <4>2. Says(Append(queue, e), u, Has(store, u))
        BY <1>q, <3>1, <3>3, <4>1, AppendAbout
      <4> QED BY <3>1, <4>2, <2>1
    <3> QED BY <3>2, <3>3
  <2>3. CASE ~LockHears
    <3>1. queue' = queue
      BY <2>1, <2>3
    <3>2. CASE Concerns(e, u)
      BY <2>1, <2>3, <3>1, <3>2, <1>e DEF Places
    <3>3. CASE ~Concerns(e, u)
      BY <2>1, <3>1, <3>3, <1>k
    <3> QED BY <3>2, <3>3
  <2> QED BY <2>2, <2>3
<1>4. CASE Lock!Construct
  BY <1>4, <1>e DEF Lock!Construct, Places
<1>5. CASE Lock!Prepare \/ Lock!Listen
  BY <1>5, <1>e DEF Lock!Prepare, Lock!Listen
<1>6. CASE Lock!LoopEvent
  <2>1. queue # <<>> /\ queue' = Tail(queue) /\ untold' = untold
    BY <1>6 DEF Lock!LoopEvent
  <2>2. store' = store /\ ~Pending(u)
    BY <1>6, LockKeeps
  <2>3. Says(queue, u, Has(store, u))
    BY <2>1, <2>2 DEF LastTold
  <2>4. Says(Tail(queue), u, Has(store, u))
    BY <1>q, <2>1, <2>3, TailAbout
  <2> QED BY <2>1, <2>2, <2>4
<1>7. CASE Lock!LoopEnd \/ Lock!NextLoop
  <2>1. queue' = queue /\ untold' = untold
    BY <1>7 DEF Lock!LoopEnd, Lock!NextLoop
  <2>2. store' = store /\ ~Pending(u)
    BY <1>7, LockKeeps
  <2> QED BY <2>1, <2>2, <1>k
<1>8. ASSUME NEW it \in items, Lock!Dismiss(it) PROVE Says(queue', u, Has(store', u))
  <2>1. queue' = queue /\ untold' = untold
    BY <1>8 DEF Lock!Dismiss
  <2>2. store' = store /\ ~Pending(u)
    BY <1>8, LockKeeps
  <2> QED BY <2>1, <2>2, <1>k
<1>9. CASE Lock!Unlock \/ Rings
  BY <1>9, <1>e, StopDoes DEF Lock!Unlock, Rings, Lock!ShowCall
<1>10. CASE RingRuns
  BY <1>10, <1>e, RingLeavesLock DEF Places
<1> QED BY <1>1, <1>2, <1>3, <1>4, <1>5, <1>6, <1>7, <1>8, <1>9, <1>10, PhoneMoves

LEMMA ShownStep ==
  ASSUME StoreTypes, LockTypes, OneEach, Places, LastTold, Shown, [Next]_vars
  PROVE  Shown'
<1> SUFFICES ASSUME screen' \in {"prepared", "lock"}, skin',
                    NEW u \in Uids, u \notin untold', u \notin dismissed', u \notin refused', u \notin Calls,
                    ~Pending(u)', NoneAbout(queue', u)
             PROVE  Lock!ItemsOf(u)' = VersOf(store', u)
  BY DEF Shown, NoneAbout, Concerns, VersOf
<1>q. queue \in Seq(PhoneEvent \cup {Event("Other", "all")})
  BY DEF LockTypes
<1>i. ASSUME items' = items PROVE Lock!ItemsOf(u)' = Lock!ItemsOf(u)
  BY <1>i DEF Lock!ItemsOf
<1>k. ASSUME screen \in {"prepared", "lock"}, skin, u \notin untold, u \notin dismissed, u \notin refused,
             ~Pending(u), NoneAbout(queue, u)
      PROVE  Lock!ItemsOf(u) = VersOf(store, u)
  BY <1>k DEF Shown
<1>1. CASE OthersRun
  <2>1. UNCHANGED <<screen, queue, skin, items, dismissed, untold, refused>>
    BY <1>1, LockRest
  <2>2. ~Pending(u) /\ VersOf(store', u) = VersOf(store, u)
    BY <1>1, OthersKeep DEF SourceKeeps
  <2> QED BY <2>1, <2>2, <1>i, <1>k
<1>2. CASE Lock!PostOther
  <2>1. /\ queue' = Append(queue, Event("Other", "all"))
        /\ UNCHANGED <<screen, skin, items, dismissed, untold, refused>>
    BY <1>2 DEF Lock!PostOther, Lock!Other, Lock!Event, Event, Lock!screenVars
  <2>2. store' = store /\ ~Pending(u)
    BY <1>2, LockKeeps
  <2>3. Event("Other", "all") \in PhoneEvent \cup {Event("Other", "all")}
    OBVIOUS
  <2>4. NoneAbout(Append(queue, Event("Other", "all")), u)
    BY <2>1
  <2>5. NoneAbout(queue, u)
    BY <1>q, <2>3, <2>4, AppendAbout
  <2> QED BY <2>1, <2>2, <2>5, <1>i, <1>k
<1>3. ASSUME NEW t \in Threads, PostEvent(t) PROVE Lock!ItemsOf(u)' = VersOf(store', u)
  <2> DEFINE e == Head(todo[t])
  <2>1. /\ store' = store /\ e \in PhoneEvent
        /\ UNCHANGED <<screen, skin, items, dismissed, refused>>
        /\ ~Concerns(e, u) => ~Pending(u) /\ u \notin untold
        /\ queue' = (IF LockHears THEN Append(queue, e) ELSE queue)
        /\ Concerns(e, u) /\ ~LockHears => Lock!ItemsOf(u) = VersOf(store, u)
    BY <1>3, PostDoes
  <2> HIDE DEF e
  <2>2. CASE LockHears
    <3>1. e \in PhoneEvent \cup {Event("Other", "all")} /\ NoneAbout(Append(queue, e), u)
      BY <2>1, <2>2
    <3>2. NoneAbout(queue, u) /\ ~Concerns(e, u)
      BY <1>q, <3>1, AppendAbout
    <3> QED BY <2>1, <3>2, <1>i, <1>k
  <2>3. CASE ~LockHears
    BY <2>1, <2>3, <1>i, <1>k
  <2> QED BY <2>2, <2>3
<1>4. CASE Lock!Construct
  BY <1>4 DEF Lock!Construct
<1>5. CASE Lock!Prepare
  <2>1. /\ store' = store /\ skin
        /\ items' = {[uid |-> store[i].uid, ver |-> store[i].ver] : i \in DOMAIN store}
    BY <1>5 DEF Lock!Prepare, Lock!storeVars
  <2>2. Lock!ItemsOf(u)' = {it.ver : it \in {jt \in items' : jt.uid = u}}
    BY DEF Lock!ItemsOf
  <2>3. ASSUME NEW x PROVE x \in Lock!ItemsOf(u)' <=> x \in VersOf(store, u)
    <3>1. ASSUME x \in Lock!ItemsOf(u)' PROVE x \in VersOf(store, u)
      BY <2>1, <2>2, <3>1 DEF VersOf
    <3>2. ASSUME x \in VersOf(store, u) PROVE x \in Lock!ItemsOf(u)'
      <4>1. PICK i \in DOMAIN store : store[i].uid = u /\ x = store[i].ver
        BY <3>2 DEF VersOf
      <4>2. [uid |-> store[i].uid, ver |-> store[i].ver] \in items'
        BY <2>1
      <4> QED BY <4>1, <4>2, <2>2
    <3> QED BY <3>1, <3>2
  <2> QED BY <2>1, <2>3
<1>6. CASE Lock!Listen
  <2>1. /\ screen = "prepared" /\ queue' = <<>>
        /\ UNCHANGED <<skin, dismissed, items, untold, refused>>
    BY <1>6 DEF Lock!Listen
  <2>2. store' = store /\ ~Pending(u)
    BY <1>6, LockKeeps
  <2>3. NoneAbout(queue, u)
    BY <2>1, EmptyAbout DEF Places
  <2> QED BY <2>1, <2>2, <2>3, <1>i, <1>k
<1>7. CASE Lock!LoopEvent
  <2> DEFINE e == Head(queue)
  <2>1. /\ queue # <<>> /\ queue' = Tail(queue) /\ Lock!ProcessEvt(e) /\ screen = "lock"
        /\ UNCHANGED <<screen, skin, untold>>
    BY <1>7 DEF Lock!LoopEvent, Lock!Running
  <2>2. store' = store /\ ~Pending(u)
    BY <1>7, LockKeeps
  <2>3. e \in PhoneEvent \cup {Event("Other", "all")}
    BY <2>1, QueueTail DEF LockTypes
  <2>4. Says(queue, u, Has(store, u))
    BY <2>1, <2>2 DEF LastTold
  <2>5. NoneAbout(Tail(queue), u)
    BY <2>1
  <2>6. /\ ~Concerns(e, u) => NoneAbout(queue, u)
        /\ Concerns(e, u) => (Has(store, u) <=> Stores(e))
    BY <1>q, <2>1, <2>4, <2>5, TailAbout
  <2> HIDE DEF e
  <2>7. /\ ~Concerns(e, u) =>
             /\ Lock!ItemsOf(u)' = Lock!ItemsOf(u)
             /\ u \notin dismissed' => u \notin dismissed
             /\ u \notin refused' => u \notin refused
        /\ Concerns(e, u) /\ Stores(e) /\ Has(store, u) /\ skin => Lock!ItemsOf(u)' = VersOf(store, u)
        /\ skin /\ Concerns(e, u) /\ ~Stores(e) => Lock!ItemsOf(u)' = {}
    BY <2>1, <2>3, ProcessDoes
  <2>8. CASE ~Concerns(e, u)
    BY <2>1, <2>2, <2>6, <2>7, <2>8, <1>k
  <2>9. CASE Concerns(e, u) /\ Stores(e)
    BY <2>1, <2>2, <2>6, <2>7, <2>9
  <2>10. CASE Concerns(e, u) /\ ~Stores(e)
    <3>1. VersOf(store, u) = {}
      BY <2>6, <2>10, HasVers
    <3> QED BY <2>1, <2>2, <2>7, <2>10, <3>1
  <2> QED BY <2>8, <2>9, <2>10
<1>8. CASE Lock!LoopEnd \/ Lock!NextLoop
  <2>1. UNCHANGED <<screen, queue, skin, items, dismissed, untold, refused>>
    BY <1>8 DEF Lock!LoopEnd, Lock!NextLoop
  <2>2. store' = store /\ ~Pending(u)
    BY <1>8, LockKeeps
  <2> QED BY <2>1, <2>2, <1>i, <1>k
<1>9. ASSUME NEW it \in items, Lock!Dismiss(it) PROVE Lock!ItemsOf(u)' = VersOf(store', u)
  <2>1. /\ items' = Lock!NotifRem(items, it.uid) /\ dismissed' = dismissed \cup ({it.uid} \cap Uids)
        /\ UNCHANGED <<screen, queue, skin, untold, refused>>
    BY <1>9 DEF Lock!Dismiss
  <2>2. store' = store /\ ~Pending(u)
    BY <1>9, LockKeeps
  <2>3. u # it.uid /\ u \notin dismissed
    BY <2>1
  <2>4. {jt \in items' : jt.uid = u} = {jt \in items : jt.uid = u}
    BY <2>1, <2>3 DEF Lock!NotifRem
  <2>5. Lock!ItemsOf(u)' = {jt.ver : jt \in {jt \in items' : jt.uid = u}}
    BY DEF Lock!ItemsOf
  <2>6. Lock!ItemsOf(u)' = Lock!ItemsOf(u)
    BY <2>4, <2>5 DEF Lock!ItemsOf
  <2> QED BY <2>1, <2>2, <2>3, <2>6, <1>k
<1>10. CASE Lock!Unlock \/ Rings
  BY <1>10, StopDoes DEF Lock!Unlock, Rings, Lock!ShowCall
<1>11. CASE RingRuns
  <2>1. screen = "call" /\ screen' \in {"other", screen}
    BY <1>11, RingLeavesLock DEF Places
  <2> QED BY <2>1
<1> QED BY <1>1, <1>2, <1>3, <1>4, <1>5, <1>6, <1>7, <1>8, <1>9, <1>10, <1>11, PhoneMoves

LEMMA CalledStep ==
  ASSUME StoreTypes, LockTypes, OneEach, Places, LastTold, Called, [Next]_vars
  PROVE  Called'
<1> SUFFICES ASSUME screen' \in {"built", "prepared", "lock"},
                    NEW u \in Calls, u \notin untold', ~Pending(u)', NoneAbout(queue', u), Has(store', u)
             PROVE  leaving'
  BY DEF Called, NoneAbout, Concerns, Has
<1>u. u \in Uids
  OBVIOUS
<1>q. queue \in Seq(PhoneEvent \cup {Event("Other", "all")})
  BY DEF LockTypes
<1>k. ASSUME screen \in {"built", "prepared", "lock"}, u \notin untold, ~Pending(u), NoneAbout(queue, u), Has(store, u)
      PROVE  leaving
  BY <1>k DEF Called
<1>1. CASE OthersRun
  <2>1. UNCHANGED <<screen, queue, leaving, untold>>
    BY <1>1, LockRest
  <2>2. ~Pending(u) /\ VersOf(store', u) = VersOf(store, u)
    BY <1>1, <1>u, OthersKeep DEF SourceKeeps
  <2>3. Has(store, u)
    BY <2>2, HasVers
  <2> QED BY <2>1, <2>2, <2>3, <1>k
<1>2. CASE Lock!PostOther
  <2>1. /\ queue' = Append(queue, Event("Other", "all"))
        /\ UNCHANGED <<screen, leaving, untold>>
    BY <1>2 DEF Lock!PostOther, Lock!Other, Lock!Event, Event, Lock!screenVars
  <2>2. store' = store /\ ~Pending(u)
    BY <1>2, LockKeeps
  <2>3. Event("Other", "all") \in PhoneEvent \cup {Event("Other", "all")}
    OBVIOUS
  <2>4. NoneAbout(Append(queue, Event("Other", "all")), u)
    BY <2>1
  <2>5. NoneAbout(queue, u)
    BY <1>q, <2>3, <2>4, AppendAbout
  <2> QED BY <2>1, <2>2, <2>5, <1>k
<1>3. ASSUME NEW t \in Threads, PostEvent(t) PROVE leaving'
  <2> DEFINE e == Head(todo[t])
  <2>1. /\ store' = store /\ e \in PhoneEvent
        /\ UNCHANGED <<screen, leaving>>
        /\ ~Concerns(e, u) => ~Pending(u) /\ u \notin untold
        /\ queue' = (IF LockHears THEN Append(queue, e) ELSE queue)
        /\ ~(Concerns(e, u) /\ ~LockHears)
    BY <1>3, <1>u, PostDoes
  <2> HIDE DEF e
  <2>2. CASE LockHears
    <3>1. e \in PhoneEvent \cup {Event("Other", "all")} /\ NoneAbout(Append(queue, e), u)
      BY <2>1, <2>2
    <3>2. NoneAbout(queue, u) /\ ~Concerns(e, u)
      BY <1>q, <3>1, AppendAbout
    <3> QED BY <2>1, <3>2, <1>k
  <2>3. CASE ~LockHears
    BY <2>1, <2>3, <1>k
  <2> QED BY <2>2, <2>3
<1>4. CASE Lock!Construct
  <2>1. leaving' = Lock!HasCall /\ store' = store
    BY <1>4 DEF Lock!Construct, Lock!storeVars
  <2>2. Lock!HasCall
    BY <2>1 DEF Lock!HasCall, Has
  <2> QED BY <2>1, <2>2
<1>5. CASE Lock!Prepare
  <2>1. screen = "built" /\ untold' = untold \ (Uids \ Calls) /\ leaving' = leaving
    BY <1>5 DEF Lock!Prepare
  <2>2. store' = store /\ ~Pending(u)
    BY <1>5, LockKeeps
  <2>3. NoneAbout(queue, u)
    BY <2>1, EmptyAbout DEF Places
  <2>4. u \notin untold
    BY <2>1
  <2> QED BY <2>1, <2>2, <2>3, <2>4, <1>k
<1>6. CASE Lock!Listen
  <2>1. screen = "prepared" /\ UNCHANGED <<leaving, untold>>
    BY <1>6 DEF Lock!Listen
  <2>2. store' = store /\ ~Pending(u)
    BY <1>6, LockKeeps
  <2>3. NoneAbout(queue, u)
    BY <2>1, EmptyAbout DEF Places
  <2> QED BY <2>1, <2>2, <2>3, <1>k
<1>7. CASE Lock!LoopEvent
  <2> DEFINE e == Head(queue)
  <2>1. /\ queue # <<>> /\ queue' = Tail(queue) /\ Lock!ProcessEvt(e) /\ screen = "lock"
        /\ UNCHANGED <<screen, skin, untold>>
    BY <1>7 DEF Lock!LoopEvent, Lock!Running
  <2>2. store' = store /\ ~Pending(u)
    BY <1>7, LockKeeps
  <2>3. e \in PhoneEvent \cup {Event("Other", "all")}
    BY <2>1, QueueTail DEF LockTypes
  <2>4. Says(queue, u, Has(store, u))
    BY <2>1, <2>2, <1>u DEF LastTold
  <2>5. NoneAbout(Tail(queue), u)
    BY <2>1
  <2>6. /\ ~Concerns(e, u) => NoneAbout(queue, u)
        /\ Concerns(e, u) => (Has(store, u) <=> Stores(e))
    BY <1>q, <2>1, <2>4, <2>5, TailAbout
  <2> HIDE DEF e
  <2>7. /\ leaving => leaving'
        /\ skin /\ Concerns(e, u) /\ Stores(e) /\ Has(store, u) => leaving'
    BY <2>1, <2>3, <1>u, ProcessDoes
  <2>8. skin \/ leaving
    BY <2>1 DEF Places
  <2>9. CASE ~Concerns(e, u)
    BY <2>1, <2>2, <2>6, <2>7, <2>9, <1>k
  <2>10. CASE Concerns(e, u)
    BY <2>2, <2>6, <2>7, <2>8, <2>10
  <2> QED BY <2>9, <2>10
<1>8. CASE Lock!LoopEnd \/ Lock!NextLoop
  <2>1. UNCHANGED <<screen, queue, leaving, untold>>
    BY <1>8 DEF Lock!LoopEnd, Lock!NextLoop
  <2>2. store' = store /\ ~Pending(u)
    BY <1>8, LockKeeps
  <2> QED BY <2>1, <2>2, <1>k
<1>9. ASSUME NEW it \in items, Lock!Dismiss(it) PROVE leaving'
  <2>1. UNCHANGED <<screen, queue, leaving, untold>>
    BY <1>9 DEF Lock!Dismiss
  <2>2. store' = store /\ ~Pending(u)
    BY <1>9, LockKeeps
  <2> QED BY <2>1, <2>2, <1>k
<1>10. CASE Lock!Unlock \/ Rings
  <2>1. screen' \in {"other", "call"}
    BY <1>10, StopDoes DEF Lock!Unlock, Rings, Lock!ShowCall
  <2> QED BY <2>1
<1>11. CASE RingRuns
  <2>1. screen = "call" /\ screen' \in {"other", screen}
    BY <1>11, RingLeavesLock DEF Places
  <2> QED BY <2>1
<1> QED BY <1>1, <1>2, <1>3, <1>4, <1>5, <1>6, <1>7, <1>8, <1>9, <1>10, <1>11, PhoneMoves

-----------------------------------------------------------------------------
LEMMA PhoneInit == Init => PhoneIInv
<1> SUFFICES ASSUME Init PROVE PhoneIInv
  OBVIOUS
<1>1. /\ store = <<>> /\ todo = [t \in Threads |-> <<>>] /\ adding = <<>> /\ made = 0
      /\ screen = "other" /\ pc = "timers" /\ queue = <<>> /\ skin = FALSE /\ items = {}
      /\ leaving = FALSE /\ dismissed = {} /\ untold = {} /\ refused = {}
      /\ callScreen = "other" /\ call = NoUid /\ evts = <<>> /\ unheard = FALSE
  BY DEF Init, StoreInit, Lock!Init, Ring!Init
<1>2. StoreTypes
  <2>1. <<>> \in Seq(Stored) /\ <<>> \in Seq(PhoneEvent) /\ Len(<<>>) = 0
    OBVIOUS
  <2> QED BY <1>1, <2>1 DEF StoreTypes
<1>3. LockTypes
  <2>1. queue \in Seq(PhoneEvent \cup {Event("Other", "all")}) /\ Len(queue) =< QueueLen
    BY <1>1
  <2>2. skin \in BOOLEAN /\ leaving \in BOOLEAN
    BY <1>1
  <2>3. items = {} /\ Fits(items)
    BY <1>1, FitsEmpty
  <2> QED BY <1>1, <2>1, <2>2, <2>3 DEF LockTypes, Fits, ItemSet
<1>4. RingTypes
  <2>1. evts \in Seq(PhoneEvent \cup {Event("AltPress", "all"), Event("Other", "all")}) /\ Len(evts) =< QueueLen
    BY <1>1
  <2>2. unheard \in BOOLEAN
    BY <1>1
  <2> QED BY <1>1, <2>1, <2>2 DEF RingTypes
<1>5. OneEach
  BY <1>1 DEF OneEach, Distinct
<1>6. Places
  BY <1>1 DEF Places
<1>7. LastTold
  BY <1>1, EmptyAbout DEF LastTold
<1>8. Shown /\ Called
  BY <1>1 DEF Shown, Called
<1> QED BY <1>2, <1>3, <1>4, <1>5, <1>6, <1>7, <1>8 DEF PhoneIInv

LEMMA PhoneStep == PhoneIInv /\ [Next]_vars => PhoneIInv'
<1> SUFFICES ASSUME PhoneIInv, [Next]_vars PROVE PhoneIInv'
  OBVIOUS
<1>1. StoreTypes /\ LockTypes /\ RingTypes /\ OneEach /\ Places /\ LastTold /\ Shown /\ Called
  BY DEF PhoneIInv
<1>2. StoreTypes' /\ OneEach'
  BY <1>1, StoreStep
<1>3. LockTypes'
  BY <1>1, LockStep
<1>4. RingTypes'
  BY <1>1, RingStep
<1>5. Places'
  BY <1>1, PlacesStep
<1>6. LastTold'
  BY <1>1, ToldStep
<1>7. Shown'
  BY <1>1, ShownStep
<1>8. Called'
  BY <1>1, CalledStep
<1> QED BY <1>2, <1>3, <1>4, <1>5, <1>6, <1>7, <1>8 DEF PhoneIInv

(* With no call under way nothing is pending, and an empty queue is about  *)
(* nobody.                                                                 *)
LEMMA PhoneFollows == PhoneIInv => Inv
<1> SUFFICES ASSUME PhoneIInv PROVE Inv
  OBVIOUS
<1>1. TypeOK
  <2>1. StoreTypeOK
    BY DEF PhoneIInv, StoreTypes, StoreTypeOK
  <2>2. Lock!TypeOK
    <3>1. Lock!PhoneEvent = PhoneEvent /\ Lock!Other = Event("Other", "all") /\ Lock!Item = ItemSet
      BY DEF Lock!PhoneEvent, PhoneEvent, Lock!Other, Lock!Event, Event, Lock!Item, ItemSet
    <3> QED BY <3>1, SameCount DEF PhoneIInv, LockTypes, Lock!TypeOK, ItemSet
  <2>3. Ring!TypeOK
    <3>1. Ring!PhoneEvent = PhoneEvent /\ Ring!Buttons = {Event("AltPress", "all"), Event("Other", "all")}
      BY DEF Ring!PhoneEvent, PhoneEvent, Ring!Buttons, Ring!Event, Event
    <3> QED BY <3>1 DEF PhoneIInv, RingTypes, Ring!TypeOK
  <2> QED BY <2>1, <2>2, <2>3 DEF TypeOK
<1>2. ASSUME Settled PROVE \A u : ~Pending(u)
  BY <1>2 DEF Settled, Pending
<1>3. Lock!Quiet => screen = "lock" /\ queue = <<>>
  BY DEF Lock!Quiet, Lock!Running
<1>4. Mirrored
  <2> SUFFICES ASSUME Settled, Lock!Quiet, skin,
                      NEW u \in Uids \ (untold \cup dismissed \cup refused \cup Calls)
               PROVE  Lock!ItemsOf(u) = Lock!StoredOf(u)
    BY DEF Mirrored, Lock!Mirrored
  <2>1. ~Pending(u) /\ NoneAbout(queue, u)
    BY <1>2, <1>3, EmptyAbout
  <2>2. Lock!ItemsOf(u) = VersOf(store, u)
    BY <1>3, <2>1 DEF PhoneIInv, Shown
  <2> QED BY <2>2 DEF VersOf, Lock!StoredOf
<1>5. CallNoticed
  <2> SUFFICES ASSUME Settled, Lock!Quiet, NEW u \in Calls \ untold, Lock!Has(store, u)
               PROVE  leaving
    BY DEF CallNoticed, Lock!CallNoticed
  <2>1. ~Pending(u) /\ NoneAbout(queue, u) /\ Has(store, u)
    BY <1>2, <1>3, EmptyAbout, SameFind
  <2> QED BY <1>3, <2>1 DEF PhoneIInv, Called
<1> QED BY <1>1, <1>4, <1>5 DEF Inv

-----------------------------------------------------------------------------
(* Side by side: a part's invariant is kept in every part.                 *)
LEMMA PartsApart ==
  ASSUME [ScreensNext]_screensVars
  PROVE  /\ [ViewNext]_viewVars /\ [LanderNext]_landerVars /\ [SettingsNext]_settingsVars /\ [DiceNext]_diceVars
         /\ [Next]_vars
<1>1. CASE ScreensNext
  BY <1>1 DEF ScreensNext, phoneVars
<1>2. CASE UNCHANGED screensVars
  BY <1>2 DEF screensVars, phoneVars
<1> QED BY <1>1, <1>2

(* Whatever the interleaving of LVGL's thread with the services and the    *)
(* buttons, and for every bound of the queues: the status screens show the *)
(* latest data, a popup of the game is answered by a press meant for it    *)
(* and the lander stands meanwhile, off the settings watch, memory and     *)
(* flash agree and the clock keeps the time it was shown with, and a shake *)
(* rolls the dice once and the total is theirs (Screen::loop,              *)
(* LunarLander::onPreLoop, Settings, TimePickerModal, Dice).               *)
THEOREM ScreensHold == ScreensSpec => []ScreensInv
<1> DEFINE IInv == ViewIInv /\ LanderIInv /\ SettingsIInv /\ DiceIInv
<1>1. ScreensInit => IInv
  BY ViewInitIInv, LanderInitIInv, SettingsInitIInv, DiceInitIInv DEF ScreensInit
<1>2. IInv /\ [ScreensNext]_screensVars => IInv'
  <2> SUFFICES ASSUME IInv, [ScreensNext]_screensVars PROVE IInv'
    OBVIOUS
  <2>1. ViewIInv'
    BY PartsApart, ViewStepIInv
  <2>2. LanderIInv'
    BY PartsApart, LanderStepIInv
  <2>3. SettingsIInv'
    BY PartsApart, SettingsStepIInv
  <2>4. DiceIInv'
    BY PartsApart, DiceStepIInv
  <2> QED BY <2>1, <2>2, <2>3, <2>4
<1>3. IInv => ScreensInv
  BY ViewInvFollows, LanderInvFollows, SettingsInvFollows, DiceInvFollows DEF ScreensInv
<1> QED BY <1>1, <1>2, <1>3, PTL DEF ScreensSpec

(* For any number of uids, queue lengths and calls of the sources: once    *)
(* the calls and the lock screen's queue have run dry, each notification   *)
(* is shown with the content the store holds and nothing that left it is,  *)
(* but for those whose last event was lost or overtaken, dismissed or      *)
(* refused ones; and no call whose event was heard goes unnoticed          *)
(* (LockScreen::loop, processEvt, LockSkin::notifAdd, CallScreen::loop).   *)
THEOREM PhoneShown == ScreensSpec => []Inv
<1>1. ScreensInit => PhoneIInv
  BY PhoneInit DEF ScreensInit
<1>2. PhoneIInv /\ [ScreensNext]_screensVars => PhoneIInv'
  BY PartsApart, PhoneStep
<1>3. PhoneIInv => Inv
  BY PhoneFollows
<1> QED BY <1>1, <1>2, <1>3, PTL DEF ScreensSpec

=============================================================================
