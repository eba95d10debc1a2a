----------------------------------- MODULE AMS -----------------------------------
(***************************************************************************)
(* The Apple media pipeline (Notifs/AMS/Client) and the media half of the  *)
(* Phone service.  The Bluetooth task (BTC) opens and closes the session   *)
(* and fills the Entity Update queue; the thread AMS::Update takes one     *)
(* packet at a time, folds it into info, hint and dirty, and after         *)
(* BatchTimeout without a packet flushes them to Phone.  `mut` makes a     *)
(* locked section one step; everything the code does outside it, the test  *)
(* of `connected` before each emission included, is a step of its own.     *)
(*                                                                         *)
(* A track is the set of its non-empty attributes; a change of text that   *)
(* leaves an attribute non-empty is not told apart.                        *)
(***************************************************************************)
EXTENDS Naturals, Sequences

CONSTANTS
  Attrs,       \* the track attributes registered for
  QueueLen,    \* entries of the characteristic's notification queue
  MaxChanges,  \* bound of the model: changes on the phone
  MaxSessions  \* bound of the model: connections

ASSUME AMSAssumption ==
  /\ "playback" \notin Attrs
  /\ QueueLen \in Nat \ {0} /\ MaxChanges \in Nat /\ MaxSessions \in Nat

VARIABLES
  track,       \* the phone: the non-empty attributes of its track, {} when idle
  playback,    \* the phone: Paused or Playing
  told,        \* the phone: what it has notified in this session, by attribute
  changes,     \* changes so far
  sessions,    \* connections so far
  btc,         \* the BTC task: down, joining, up, closed, dropped, cleared
  updateQ,     \* chr.entityUpdate->notifQueue
  connected,   \* Client::connected
  info, hint, state, dirty,        \* Client::info, hint, state, dirty
  pc,          \* AMS::Update: top, wait, got, process, flush, info, tellInfo,
               \*   state, tellState
  patient,     \* it waits with portMAX_DELAY
  hand,        \* the packet it holds, if any
  toTell,      \* flush's snapshot: the info, and the state to emit ("no" for none)
  mediaCurrent, currentMedia, currentMediaState,   \* Phone's
  notifSource, \* the phone's Notification Source: not connected in this session
               \*   ("none"), connected ("on"), or connected when Phone already
               \*   showed media, which that wiped ("wiped")
  lost,        \* history: a packet of this session met a full queue
  crossed      \* history: the thread was emitting a snapshot when its session
               \*   closed

phoneVars  == <<track, playback, told, changes>>
btcVars    == <<btc, sessions, connected>>
clientVars == <<info, hint, state, dirty>>
threadVars == <<pc, patient, hand, toTell>>
storeVars  == <<mediaCurrent, currentMedia, currentMediaState, notifSource>>
vars == <<phoneVars, btcVars, updateQ, clientVars, threadVars, storeVars, lost, crossed>>

PlaybackState == {"Paused", "Playing"}
MediaState    == PlaybackState \cup {"Stopped"}
Update == [attr : Attrs, full : BOOLEAN] \cup
          [attr : {"playback"}, to : PlaybackState]

TypeOK ==
  /\ track \subseteq Attrs
  /\ playback \in PlaybackState
  /\ told \in [Attrs \cup {"playback"} -> {"unset", "empty", "full"} \cup PlaybackState]
  /\ changes \in 0..MaxChanges
  /\ sessions \in 0..MaxSessions
  /\ btc \in {"down", "joining", "up", "closed", "dropped", "cleared"}
  /\ connected \in BOOLEAN
  /\ updateQ \in Seq(Update) /\ Len(updateQ) =< QueueLen
  /\ info \subseteq Attrs
  /\ hint \in PlaybackState \cup {"none"}
  /\ state \in MediaState
  /\ dirty \in BOOLEAN
  /\ pc \in {"top", "wait", "got", "process", "flush", "info", "tellInfo", "state", "tellState"}
  /\ patient \in BOOLEAN
  /\ hand \in Seq(Update) /\ Len(hand) =< 1
  /\ toTell \in [info : SUBSET Attrs, state : MediaState \cup {"no"}]
  /\ mediaCurrent \in BOOLEAN
  /\ currentMedia \subseteq Attrs
  /\ currentMediaState \in MediaState
  /\ notifSource \in {"none", "on", "wiped"}
  /\ lost \in BOOLEAN /\ crossed \in BOOLEAN

Init ==
  /\ track = {} /\ playback = "Paused" /\ changes = 0
  /\ told = [a \in Attrs \cup {"playback"} |-> "unset"]
  /\ sessions = 0 /\ btc = "down" /\ updateQ = <<>> /\ connected = FALSE
  /\ info = {} /\ hint = "none" /\ state = "Stopped" /\ dirty = FALSE
  /\ pc = "top" /\ patient = TRUE /\ hand = <<>>
  /\ toTell = [info |-> {}, state |-> "no"]
  /\ mediaCurrent = FALSE /\ currentMedia = {} /\ currentMediaState = "Stopped"
  /\ notifSource = "none"
  /\ lost = FALSE /\ crossed = FALSE

-----------------------------------------------------------------------------
(* The phone.  It tells every registered attribute once when a session     *)
(* opens, then each change, and repeats its playback information every     *)
(* second while it plays (the elapsed time changes).  Char::onNotify posts *)
(* without waiting: a full queue drops the packet.                         *)

Value(a) == IF a = "playback" THEN playback ELSE IF a \in track THEN "full" ELSE "empty"

Packet(a) ==
  IF a = "playback" THEN [attr |-> a, to |-> playback]
                    ELSE [attr |-> a, full |-> a \in track]

Notify(a) ==
  /\ btc = "up"
  /\ told' = [told EXCEPT ![a] = Value(a)]
  /\ updateQ' = IF Len(updateQ) < QueueLen THEN Append(updateQ, Packet(a)) ELSE updateQ
  /\ lost' = (lost \/ Len(updateQ) = QueueLen)
  /\ UNCHANGED <<track, playback, changes, btcVars, clientVars, threadVars, storeVars, crossed>>

NotifyChange(a) == told[a] # Value(a) /\ Notify(a)

Tick == told["playback"] = "Playing" /\ playback = "Playing" /\ Notify("playback")

Change ==
  /\ changes < MaxChanges
  /\ changes' = changes + 1
  /\ UNCHANGED <<told, btcVars, updateQ, clientVars, threadVars, storeVars, lost, crossed>>

NewTrack(t) == t # track /\ Change /\ track' = t /\ UNCHANGED playback

PlayPause ==
  /\ Change
  /\ playback' = IF playback = "Playing" THEN "Paused" ELSE "Playing"
  /\ UNCHANGED track

(* Phone::doMediaPlay and doMediaPause, from the LVGL thread: a command     *)
(* reaches the phone when there is a source and its session is open.       *)
Command(p) ==
  /\ mediaCurrent /\ connected /\ btc = "up"
  /\ playback # p
  /\ Change
  /\ playback' = p
  /\ UNCHANGED track

-----------------------------------------------------------------------------
(* The BTC task.                                                           *)

OnConn ==
  /\ btc = "down" /\ sessions < MaxSessions
  /\ sessions' = sessions + 1
  /\ btc' = "joining" /\ connected' = TRUE
  /\ told' = [a \in DOMAIN told |-> "unset"]
  /\ notifSource' = "none" /\ lost' = FALSE
  /\ UNCHANGED <<track, playback, changes, updateQ, clientVars, threadVars,
                 mediaCurrent, currentMedia, currentMediaState, crossed>>

(* connect(), and the registration for the entities.                      *)
PhoneOnMediaConnect ==
  /\ btc = "joining"
  /\ btc' = "up" /\ mediaCurrent' = TRUE
  /\ UNCHANGED <<phoneVars, sessions, connected, updateQ, clientVars, threadVars,
                 currentMedia, currentMediaState, notifSource, lost, crossed>>

(* The phone's Notification Source is another service: Phone::onConnect    *)
(* resets the media at a moment of its own.                                *)
PhoneOnConnect ==
  /\ btc \in {"joining", "up"} /\ notifSource = "none"
  /\ notifSource' = IF currentMedia = {} /\ currentMediaState = "Stopped" THEN "on" ELSE "wiped"
  /\ currentMedia' = {} /\ currentMediaState' = "Stopped"
  /\ UNCHANGED <<phoneVars, btcVars, updateQ, clientVars, threadVars, mediaCurrent, lost, crossed>>

(* Service::close: first the characteristic's queue is drained... *)
ServiceClose ==
  /\ btc = "up"
  /\ btc' = "closed" /\ updateQ' = <<>>
  /\ UNCHANGED <<phoneVars, sessions, connected, clientVars, threadVars, storeVars, lost, crossed>>

(* ... then onDiscon: connected, the locked reset, and disconnect().       *)
OnDiscon ==
  /\ btc = "closed"
  /\ btc' = "dropped" /\ connected' = FALSE
  /\ UNCHANGED <<phoneVars, sessions, updateQ, clientVars, threadVars, storeVars, lost, crossed>>

(* Mutant: the last emitted state survives the session. *)
OnDisconReset_KeepsState ==
  /\ btc = "dropped"
  /\ btc' = "cleared"
  /\ info' = {} /\ hint' = "none" /\ dirty' = FALSE
  /\ crossed' = (crossed \/ pc \in {"info", "tellInfo", "state", "tellState"})
  /\ UNCHANGED <<phoneVars, sessions, connected, updateQ, state, threadVars, storeVars, lost>>

OnDisconReset ==
  /\ btc = "dropped"
  /\ btc' = "cleared"
  /\ info' = {} /\ hint' = "none" /\ state' = "Stopped" /\ dirty' = FALSE
  /\ crossed' = (crossed \/ pc \in {"info", "tellInfo", "state", "tellState"})
  /\ UNCHANGED <<phoneVars, sessions, connected, updateQ, threadVars, storeVars, lost>>

PhoneOnMediaDisconnect ==
  /\ btc = "cleared"
  /\ btc' = "down"
  /\ mediaCurrent' = FALSE /\ currentMedia' = {} /\ currentMediaState' = "Stopped"
  /\ UNCHANGED <<phoneVars, sessions, connected, updateQ, clientVars, threadVars,
                 notifSource, lost, crossed>>

-----------------------------------------------------------------------------
(* AMS::Update.                                                            *)

Thread == UNCHANGED <<phoneVars, btcVars, lost, crossed>>

(* Not connected: the thread sleeps a second and looks again. *)
Await ==
  /\ pc = "top" /\ connected
  /\ pc' = "wait" /\ patient' = ~dirty
  /\ Thread /\ UNCHANGED <<updateQ, clientVars, hand, toTell, storeVars>>

Take ==
  /\ pc = "wait" /\ updateQ # <<>>
  /\ hand' = <<Head(updateQ)>> /\ updateQ' = Tail(updateQ)
  /\ pc' = "got"
  /\ Thread /\ UNCHANGED <<clientVars, patient, toTell, storeVars>>

BatchTimeout ==
  /\ pc = "wait" /\ ~patient /\ updateQ = <<>>
  /\ pc' = "got"
  /\ Thread /\ UNCHANGED <<updateQ, clientVars, patient, hand, toTell, storeVars>>

Check ==
  /\ pc = "got"
  /\ pc' = IF ~connected THEN "top"
           ELSE IF hand # <<>> THEN "process"
           ELSE IF dirty THEN "flush" ELSE "top"
  /\ hand' = IF connected THEN hand ELSE <<>>
  /\ Thread /\ UNCHANGED <<updateQ, clientVars, patient, toTell, storeVars>>

(* Mutant: a changed hint schedules no flush. *)
ProcessPlayback_Silent(u) ==
  /\ u.attr = "playback"
  /\ hint' = u.to
  /\ UNCHANGED <<info, dirty>>

(* processEntityUpdate: a playback packet that repeats the hint marks      *)
(* nothing dirty; a track without attributes invalidates the hint.         *)
ProcessPlayback(u) ==
  /\ u.attr = "playback"
  /\ hint' = u.to
  /\ dirty' = (dirty \/ hint # u.to)
  /\ UNCHANGED info

ProcessTrack(u) ==
  /\ u.attr \in Attrs
  /\ info' = IF u.full THEN info \cup {u.attr} ELSE info \ {u.attr}
  /\ dirty' = TRUE
  /\ hint' = IF info' = {} THEN "none" ELSE hint

ProcessEntityUpdate ==
  /\ pc = "process"
  /\ pc' = "top" /\ hand' = <<>>
  /\ ProcessPlayback(Head(hand)) \/ ProcessTrack(Head(hand))
  /\ Thread /\ UNCHANGED <<updateQ, state, patient, toTell, storeVars>>

(* The state flush derives: none while a track has no hint yet. *)
Derived == IF info = {} THEN "Stopped" ELSE hint

Flush ==
  /\ pc = "flush"
  /\ pc' = "info" /\ dirty' = FALSE
  /\ LET news == Derived \notin {"none", state}
     IN  /\ state' = IF news THEN Derived ELSE state
         /\ toTell' = [info |-> info, state |-> IF news THEN Derived ELSE "no"]
  /\ Thread /\ UNCHANGED <<updateQ, info, hint, patient, hand, storeVars>>

(* `if(connected) mediaInfo(...)`: the test, then the call. *)
CheckInfo ==
  /\ pc = "info"
  /\ pc' = IF connected THEN "tellInfo" ELSE "state"
  /\ Thread /\ UNCHANGED <<updateQ, clientVars, patient, hand, toTell, storeVars>>

OnMediaInfo ==
  /\ pc = "tellInfo"
  /\ pc' = "state" /\ currentMedia' = toTell.info
  /\ Thread
  /\ UNCHANGED <<updateQ, clientVars, patient, hand, toTell,
                 mediaCurrent, currentMediaState, notifSource>>

CheckState ==
  /\ pc = "state"
  /\ pc' = IF toTell.state # "no" /\ connected THEN "tellState" ELSE "top"
  /\ Thread /\ UNCHANGED <<updateQ, clientVars, patient, hand, toTell, storeVars>>

OnMediaState ==
  /\ pc = "tellState"
  /\ pc' = "top" /\ currentMediaState' = toTell.state
  /\ Thread
  /\ UNCHANGED <<updateQ, clientVars, patient, hand, toTell,
                 mediaCurrent, currentMedia, notifSource>>

-----------------------------------------------------------------------------
UpdateThread ==
  \/ Await \/ Take \/ BatchTimeout \/ Check \/ ProcessEntityUpdate
  \/ Flush \/ CheckInfo \/ OnMediaInfo \/ CheckState \/ OnMediaState

Phone ==
  \/ \E a \in DOMAIN told : NotifyChange(a)
  \/ Tick \/ PlayPause
  \/ \E t \in SUBSET Attrs : NewTrack(t)
  \/ \E p \in PlaybackState : Command(p)

BTC ==
  \/ OnConn \/ PhoneOnMediaConnect \/ PhoneOnConnect
  \/ ServiceClose \/ OnDiscon \/ OnDisconReset \/ PhoneOnMediaDisconnect

Next == Phone \/ BTC \/ UpdateThread

Spec == Init /\ [][Next]_vars

(***************************************************************************)
(* The phone's changes are delivered and its ticks keep coming; the BTC    *)
(* task handles its events; the thread runs.  The ticks are a second apart *)
(* and handling a packet takes milliseconds, so the thread catches up with *)
(* its queue again and again; BatchTimeout is half a second, so again and  *)
(* again it passes before the next packet (strong fairness).               *)
(***************************************************************************)
LiveSpec ==
  /\ Spec
  /\ \A a \in Attrs \cup {"playback"} : WF_vars(NotifyChange(a))
  /\ WF_vars(Tick) /\ WF_vars(PhoneOnMediaConnect)
  /\ WF_vars(UpdateThread) /\ SF_vars(BatchTimeout)
  /\ []<>(~connected \/ (pc = "wait" /\ updateQ = <<>>))

-----------------------------------------------------------------------------
(* Everything the phone knows has been folded in and flushed. *)
Quiet ==
  /\ btc = "up" /\ \A a \in DOMAIN told : told[a] = Value(a)
  /\ updateQ = <<>> /\ pc = "wait" /\ patient

(* What Phone shows in a quiet session is the phone's track and, when a    *)
(* hint is known, its playback; outside a session it shows nothing.  A     *)
(* packet dropped by a full queue, a flush overtaken by the end of its     *)
(* session (the emissions are outside `mut`), and a Notification Source    *)
(* that connects when media is shown already, are the exceptions.          *)
MediaMirrored ==
  /\ Quiet /\ ~lost /\ ~crossed /\ notifSource # "wiped" =>
       /\ currentMedia = track
       /\ track = {} => currentMediaState = "Stopped"
       /\ track # {} /\ hint # "none" => currentMediaState = playback
  /\ btc = "down" /\ ~crossed => currentMedia = {} /\ currentMediaState = "Stopped"

(* flush, 157-160: consumers see the track's metadata at or before the     *)
(* transition of the state, even when the session ends or begins in        *)
(* between (but for a flush overtaken by a whole session).                 *)
MetadataFirst == pc = "tellState" /\ ~crossed => currentMedia \in {toTell.info, {}}

(* The iPhone's playback is not lost for good: a track that keeps playing  *)
(* in an open session is shown as playing, whatever order its attributes   *)
(* and its playback arrived in, and whatever earlier sessions left behind,  *)
(* unless the Notification Source wiped what was shown.                     *)
PlayingShown ==
  <>[](btc = "up" /\ track # {} /\ playback = "Playing" /\ ~lost
          /\ notifSource # "wiped")
     => <>[](currentMediaState = "Playing")

(* Of every state: the types, the metadata before the state, and the       *)
(* phone's media shown when its session is quiet.                          *)
Inv == TypeOK /\ MetadataFirst /\ MediaMirrored
=============================================================================
