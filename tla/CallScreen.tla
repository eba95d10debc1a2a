------------------------------- MODULE CallScreen -------------------------------
(***************************************************************************)
(* The incoming call screen (Screens/CallScreen): it holds the call it was *)
(* built for and waits for the user, or for the call's removal from the    *)
(* store.  Its loop takes one event per round from a queue of QueueLen.    *)
(* PhoneScreens has the lock screen that opens it and its properties.      *)
(***************************************************************************)
EXTENDS PhoneStore

CONSTANTS
  NoUid,    \* the uid of the empty Notif that getCall returns without a call
  QueueLen  \* length of CallScreen::evts

VARIABLES
  screen,  \* "other", "built" (constructed, not yet listening), "call", "leaving"
  call,    \* notif.uid
  evts,    \* the event queue
  unheard  \* history: the removal of the call was not posted as Removed, or lost

vars == <<screen, call, evts, unheard>>

Buttons == {Event("AltPress", "all"), Event("Other", "all")}

TypeOK ==
  /\ screen \in {"other", "built", "call", "leaving"}
  /\ call \in Uids \cup {NoUid}
  /\ evts \in Seq(PhoneEvent \cup Buttons) /\ Len(evts) =< QueueLen
  /\ unheard \in BOOLEAN

Init ==
  /\ screen = "other" /\ call = NoUid /\ evts = <<>> /\ unheard = FALSE

-----------------------------------------------------------------------------
(* The other threads.                                                       *)

\* A bug to catch: the queue takes whatever is posted.
Heard_Always == screen = "call"

Heard == screen = "call" /\ Len(evts) < QueueLen

Ends(e) == e.action = "Removed" /\ e.id = call

PostEvent(t) ==
  /\ Posts(t)
  /\ LET e == Head(todo[t])
     IN /\ evts' = IF Heard THEN Append(evts, e) ELSE evts
        /\ unheard' = (unheard \/ (e.action = "Cleared" /\ call # NoUid) \/ (Ends(e) /\ ~Heard))
  /\ UNCHANGED <<screen, call>>

PostButton ==
  /\ Heard
  /\ \E b \in Buttons : evts' = Append(evts, b)
  /\ UNCHANGED <<storeVars, screen, call, unheard>>

-----------------------------------------------------------------------------
(* The LVGL thread.                                                         *)

\* Phone::getCall: the oldest call in the store.
GetCall ==
  LET calls == {i \in DOMAIN store : store[i].uid \in Calls}
  IN IF calls = {} THEN NoUid ELSE store[CHOOSE i \in calls : \A j \in calls : i =< j].uid

\* The constructor up to Events::listen; without a call it only leaves again.
Construct ==
  /\ screen = "other"
  /\ call' = GetCall
  /\ screen' = IF GetCall = NoUid THEN "leaving" ELSE "built"
  /\ UNCHANGED <<storeVars, evts, unheard>>

Listen ==
  /\ screen = "built"
  /\ screen' = "call"
  /\ UNCHANGED <<storeVars, call, evts, unheard>>

\* transition() to the home screen; the destructor stops listening.
Leave ==
  /\ screen' = "other" /\ call' = NoUid /\ evts' = <<>> /\ unheard' = FALSE
  /\ UNCHANGED <<todo, adding, made>>

LeaveEmpty == screen = "leaving" /\ Leave /\ UNCHANGED store

\* onIgnore and onReject: callIgnore and callReject erase without an event.
Dispose == store' = Erase(store, call)

\* A bug to catch: a removal is left to the user.
LoopEvent_Deaf ==
  /\ screen = "call"
  /\ evts # <<>>
  /\ IF Head(evts).action = "AltPress"
       THEN Leave /\ Dispose
       ELSE evts' = Tail(evts) /\ UNCHANGED <<storeVars, screen, call, unheard>>

\* One round of loop().
LoopEvent ==
  /\ screen = "call"
  /\ evts # <<>>
  /\ CASE Ends(Head(evts)) -> Leave /\ UNCHANGED store
       [] Head(evts).action = "AltPress" -> Leave /\ Dispose
       [] OTHER -> evts' = Tail(evts) /\ UNCHANGED <<storeVars, screen, call, unheard>>

\* The buttons of the screen, from lv_timer_handler.
Press == screen = "call" /\ Leave /\ Dispose

Lvgl == Listen \/ LeaveEmpty \/ LoopEvent \/ Press

===============================================================================
