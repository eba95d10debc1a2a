----------------------------- MODULE StatusTimers -----------------------------
(***************************************************************************)
(* The millisecond arithmetic of StatusService: millis() and the deadlines *)
(* are unsigned words that wrap around, compared through the sign of their *)
(* difference.  StatusService abstracts these comparisons to Booleans; here *)
(* they are modelled as computed, with one pass of loop() per step.        *)
(***************************************************************************)
EXTENDS Integers

CONSTANTS
  Modulus,        \* 2^w: one more than the largest word
  FetchInterval,  \* StatusService::FetchInterval
  JoinLimit,      \* the 30000 ms of loop()
  MaxBackoff,     \* largest delay before a join (backoff, boot and wake delays)
  MaxStep         \* longest time between two passes (delay plus a fetch)

Half == Modulus \div 2
Word == 0..Modulus - 1

ASSUME StatusTimersAssumption ==
  /\ Modulus \in Nat \ {0} /\ FetchInterval \in Nat \ {0} /\ JoinLimit \in Nat
  /\ MaxBackoff \in Nat /\ MaxStep \in Nat \ {0}
  /\ Half \in Nat /\ 2 * Half = Modulus
  /\ FetchInterval + MaxStep < Half
  /\ JoinLimit + MaxStep < Half
  /\ MaxBackoff + MaxStep < Half

VARIABLES
  now,              \* the now of the latest pass
  netState,         \* StatusService::netState; Paused while asleep
  nextConnectAt, connectStartedAt, nextFetchAt,
  age,              \* history: time since the deadline of this state was set
  wait              \* history: how long it was meant to be

deadlines == <<nextConnectAt, connectStartedAt, nextFetchAt>>
vars      == <<now, netState, deadlines, age, wait>>

-----------------------------------------------------------------------------
(* Arithmetic of words.                                                     *)

Plus(a, d)  == IF a + d < Modulus THEN a + d ELSE a + d - Modulus
Minus(a, b) == IF a >= b THEN a - b ELSE a - b + Modulus

\* A bug to catch: deadlines compared as plain numbers.
Reached_Plain(t, at) == t >= at

\* (int32_t)(now - at) >= 0
Reached(t, at) == Minus(t, at) < Half

\* now - connectStartedAt > 30000, unsigned.
JoinExpired(t) == Minus(t, connectStartedAt) > JoinLimit

-----------------------------------------------------------------------------
Init ==
  /\ now = 0 /\ netState = "Down"
  /\ \E d \in 0..MaxBackoff : nextConnectAt = d /\ wait = d
  /\ connectStartedAt = 0 /\ nextFetchAt = 0 /\ age = 0

\* Every way to schedule a join: after a failure, a join timeout, a wake.
JoinAfter(d) ==
  /\ netState' = "Down"
  /\ nextConnectAt' = Plus(now', d)
  /\ age' = 0 /\ wait' = d
  /\ UNCHANGED <<connectStartedAt, nextFetchAt>>

NothingDue(step) == age' = age + step /\ UNCHANGED <<netState, deadlines, wait>>

\* One pass of loop(), step after the previous one.
PassDown(step) ==
  /\ netState = "Down"
  /\ now' = Plus(now, step)
  /\ IF Reached(now', nextConnectAt)
       THEN /\ netState' = "Connecting"
            /\ connectStartedAt' = now'
            /\ age' = 0 /\ wait' = JoinLimit + 1
            /\ UNCHANGED <<nextConnectAt, nextFetchAt>>
       ELSE NothingDue(step)

PassConnecting(step) ==
  /\ netState = "Connecting"
  /\ now' = Plus(now, step)
  /\ IF JoinExpired(now') THEN \E d \in 0..MaxBackoff : JoinAfter(d) ELSE NothingDue(step)

\* The next fetch is scheduled FetchInterval after this one has ended.
PassConnected(step) ==
  /\ netState = "Connected"
  /\ now' = Plus(now, step)
  /\ IF Reached(now', nextFetchAt)
       THEN /\ nextFetchAt' = Plus(now', FetchInterval)
            /\ age' = 0 /\ wait' = FetchInterval
            /\ UNCHANGED <<netState, nextConnectAt, connectStartedAt>>
       ELSE NothingDue(step)

\* handleEvents() of a Connected event: nextFetchAt = 0.
HandleConnected ==
  /\ netState = "Connecting"
  /\ netState' = "Connected"
  /\ nextFetchAt' = 0
  /\ age' = 0 /\ wait' = 0
  /\ UNCHANGED <<now, nextConnectAt, connectStartedAt>>

HandleDown ==
  /\ netState \in {"Connecting", "Connected"}
  /\ UNCHANGED now
  /\ \E d \in 0..MaxBackoff : JoinAfter(d)

HandleSleepOn ==
  /\ netState # "Paused"
  /\ netState' = "Paused"
  /\ age' = 0 /\ wait' = 0
  /\ UNCHANGED <<now, deadlines>>

\* The watch may have slept for any time, several turns of the counter too.
HandleSleepOff ==
  /\ netState = "Paused"
  /\ now' \in Word
  /\ \E d \in 0..MaxBackoff : JoinAfter(d)

Next ==
  \/ \E step \in 1..MaxStep : PassDown(step) \/ PassConnecting(step) \/ PassConnected(step)
  \/ HandleConnected \/ HandleDown \/ HandleSleepOn \/ HandleSleepOff

Spec == Init /\ [][Next]_vars

-----------------------------------------------------------------------------
(* Properties.                                                              *)

TypeOK ==
  /\ now \in Word /\ netState \in {"Down", "Connecting", "Connected", "Paused"}
  /\ nextConnectAt \in Word /\ connectStartedAt \in Word /\ nextFetchAt \in Word
  /\ age \in Nat /\ wait \in Nat

(* No pass lets the deadline of its state go by: age stays below wait until *)
(* the pass that acts, whatever the counter reads and across every wrap.    *)
OnTime == age < wait \/ age = 0

(* Joins start, and are given up, on time.                                  *)
JoinsPunctual == netState \in {"Down", "Connecting"} => OnTime

(* ... and never early: a join is not started before its backoff has        *)
(* passed, nor given up by loop() before its time.                          *)
ActsOnPass(S) == netState \in S /\ netState' # netState /\ now' # now
JoinsNotEarly ==
  [][ActsOnPass({"Down", "Connecting"}) => age + Minus(now', now) >= wait]_vars

(* Between the fetches of one connection the interval is kept.              *)
FetchesPunctual == netState = "Connected" /\ wait = FetchInterval => OnTime

(* The part that is proved for every word size: no deadline of a join, nor   *)
(* of the fetches of a connection, is passed over.                          *)
Inv == TypeOK /\ JoinsPunctual /\ FetchesPunctual
=============================================================================
