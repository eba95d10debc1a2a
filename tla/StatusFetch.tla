----------------------------- MODULE StatusFetch -----------------------------
(***************************************************************************)
(* What StatusService::doFetch makes of the box's status document: the     *)
(* clock that TLS needs, the failure count, the stored payload, and the    *)
(* announcement of new alerts.  The watch may reboot at any time.          *)
(*                                                                         *)
(* The box (external) is its set of firing alerts, each named by the time  *)
(* activeAt at which it began to fire; the document carries the newest.    *)
(***************************************************************************)
EXTENDS Naturals, FiniteSets

CONSTANTS
  MaxSince,     \* bound of the model: alerts the box ever fires
  MaxFailures,  \* bound of the model: failures counted
  MaxBoots      \* bound of the model: boots of the watch

ASSUME StatusFetchAssumption ==
  MaxSince \in Nat /\ MaxFailures \in Nat \ {0} /\ MaxBoots \in Nat \ {0}

VARIABLES
  firing, boxTime,    \* the box: alerts firing, latest activeAt handed out
  sntpUp,             \* whether the time server answers
  clockSet,           \* the system clock is past 2024 (survives a reboot)
  clockSynced, failures, haveLatest,
  alertBaselineSet, seenAlertSince,
  boots,
  announced,          \* history: alerts announced, over all boots
  repeated,           \* history: an alert was announced that was not news
  shown,              \* history: newest alerts of this boot's payloads
  baseline            \* history: seenAlertSince when it was first set

boxVars   == <<firing, boxTime, sntpUp>>
alertVars == <<alertBaselineSet, seenAlertSince, announced, repeated, shown, baseline>>
dataVars  == <<failures, haveLatest>>
fetchVars == <<boxVars, clockSet, clockSynced, dataVars, alertVars, boots>>

Since == 0..MaxSince

FetchTypeOK ==
  /\ firing \in SUBSET (1..MaxSince) /\ boxTime \in Since /\ sntpUp \in BOOLEAN
  /\ clockSet \in BOOLEAN /\ clockSynced \in BOOLEAN
  /\ failures \in 0..MaxFailures /\ haveLatest \in BOOLEAN
  /\ alertBaselineSet \in BOOLEAN /\ seenAlertSince \in Since
  /\ boots \in 1..MaxBoots
  /\ announced \in SUBSET Since /\ repeated \in BOOLEAN
  /\ shown \in SUBSET Since /\ baseline \in Since

\* StatusData::alerts.latestSince of a document the box writes now.
Newest == IF firing = {} THEN 0 ELSE CHOOSE t \in firing : \A u \in firing : u =< t

FetchInit ==
  /\ clockSynced = FALSE /\ failures = 0 /\ haveLatest = FALSE
  /\ alertBaselineSet = FALSE /\ seenAlertSince = 0
  /\ shown = {} /\ baseline = 0
  /\ firing = {} /\ boxTime = 0 /\ sntpUp \in BOOLEAN
  /\ clockSet = FALSE /\ boots = 1 /\ announced = {} /\ repeated = FALSE

-----------------------------------------------------------------------------
(* doFetch().                                                               *)

\* A bug to catch: the clock is given up after one failed sync.
SyncClock_Once ==
  /\ clockSet' = (clockSet \/ (sntpUp /\ ~clockSynced))
  /\ clockSynced' = TRUE

\* The clock is synced until that has once worked.
SyncClock ==
  /\ clockSet' = (clockSet \/ (~clockSynced /\ sntpUp))
  /\ clockSynced' = (clockSynced \/ clockSet')

\* A failed request, an unset clock (TLS), or a body that is no document.
FetchFails ==
  /\ SyncClock
  /\ failures' = IF failures < MaxFailures THEN failures + 1 ELSE failures
  /\ UNCHANGED <<boxVars, haveLatest, alertVars, boots>>

\* The NewAlert event and the alert feedback for t.
Tell(t) ==
  /\ announced' = announced \cup {t}
  /\ repeated' = (repeated \/ t \in announced \cup shown)

SetBaseline(t) ==
  /\ alertBaselineSet' = TRUE /\ seenAlertSince' = t /\ baseline' = t
  /\ UNCHANGED <<announced, repeated>>

Announce(t) ==
  /\ seenAlertSince' = t
  /\ Tell(t)
  /\ UNCHANGED <<alertBaselineSet, baseline>>

\* A bug to catch: no silent first payload.
CheckAlerts_NoBaseline(t) ==
  IF t > seenAlertSince
    THEN /\ alertBaselineSet' = TRUE /\ seenAlertSince' = t /\ baseline' = 0
         /\ Tell(t)
    ELSE UNCHANGED <<alertBaselineSet, seenAlertSince, announced, repeated, baseline>>

\* checkAlerts() of a document with an alerts block.
CheckAlerts(t) ==
  IF ~alertBaselineSet
    THEN SetBaseline(t)
    ELSE IF t > seenAlertSince
           THEN Announce(t)
           ELSE UNCHANGED <<alertBaselineSet, seenAlertSince, announced, repeated, baseline>>

\* A document arrives; its alerts block may be missing.
FetchOk ==
  /\ SyncClock
  /\ clockSet'
  /\ failures' = 0 /\ haveLatest' = TRUE
  /\ UNCHANGED <<boxVars, boots>>
  /\ \/ shown' = shown \cup {Newest} /\ CheckAlerts(Newest)
     \/ UNCHANGED alertVars

-----------------------------------------------------------------------------
(* The box, the time server, and a reboot of the watch.                     *)

Fire ==
  /\ boxTime < MaxSince
  /\ boxTime' = boxTime + 1
  /\ firing' = firing \cup {boxTime'}
  /\ UNCHANGED <<sntpUp, clockSet, clockSynced, dataVars, alertVars, boots>>

Resolve ==
  /\ \E t \in firing : firing' = firing \ {t}
  /\ UNCHANGED <<boxTime, sntpUp, clockSet, clockSynced, dataVars, alertVars, boots>>

SntpToggles ==
  /\ sntpUp' = ~sntpUp
  /\ UNCHANGED <<firing, boxTime, clockSet, clockSynced, dataVars, alertVars, boots>>

Reboot ==
  /\ boots < MaxBoots
  /\ boots' = boots + 1
  /\ clockSynced' = FALSE /\ failures' = 0 /\ haveLatest' = FALSE
  /\ alertBaselineSet' = FALSE /\ seenAlertSince' = 0
  /\ shown' = {} /\ baseline' = 0
  /\ UNCHANGED <<boxVars, clockSet, announced, repeated>>

FetchNext == FetchFails \/ FetchOk \/ Fire \/ Resolve \/ SntpToggles \/ Reboot

FetchSpec == FetchInit /\ [][FetchNext]_fetchVars

-----------------------------------------------------------------------------
(* Properties.                                                              *)

(* "a reboot must not re-announce an old alert": an alert is announced at   *)
(* most once over all boots, and never when an earlier payload of this boot *)
(* already showed it.                                                       *)
OldAlertsStaySilent == ~repeated

(* Nothing new is swallowed: whatever a payload showed after the first one  *)
(* that is newer than everything before it has been announced.              *)
NewAlertsAnnounced ==
  alertBaselineSet =>
    \A t \in shown : (t > baseline /\ t = seenAlertSince) => t \in announced

(* The threshold for a new alert is exactly the newest one shown since      *)
(* boot: too high it would swallow alerts, too low repeat them.             *)
SeenIsNewestShown ==
  alertBaselineSet => /\ seenAlertSince \in shown
                      /\ \A t \in shown : t =< seenAlertSince

(* Of every state: the types, no alert announced twice, and the mark that   *)
(* decides about the next one agreeing with what was shown.                 *)
FetchInv == FetchTypeOK /\ SeenIsNewestShown /\ OldAlertsStaySilent /\ NewAlertsAnnounced
=============================================================================
