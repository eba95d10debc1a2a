------------------------------ MODULE PhoneScreens ------------------------------
(***************************************************************************)
(* The two screens that live off the phone store, in front of its sources: *)
(* the lock screen shows what is stored and makes way for the call screen, *)
(* which stays until its call is over.  The LVGL thread runs at most one   *)
(* of them; an event of the store reaches the queue of the one that        *)
(* listens.                                                                *)
(***************************************************************************)
EXTENDS PhoneStore

CONSTANTS
  NoUid,    \* the uid of an empty Notif
  QueueLen  \* length of the queue of a screen

ASSUME PhoneScreensAssumption == NoUid \notin Uids /\ QueueLen \in Nat \ {0}

VARIABLES
  screen, pc, queue, skin, items, leaving, dismissed, untold, refused,  \* LockScreen
  callScreen, call, evts, unheard                                       \* CallScreen

lockVars == <<screen, pc, queue, skin, items, leaving, dismissed, untold, refused>>
ringVars == <<callScreen, call, evts, unheard>>
vars == <<storeVars, lockVars, ringVars>>

Lock == INSTANCE LockScreen
Ring == INSTANCE CallScreen WITH screen <- callScreen

TypeOK == StoreTypeOK /\ Lock!TypeOK /\ Ring!TypeOK

Init == StoreInit /\ Lock!Init /\ Ring!Init

(* The other threads: a post is heard by whichever screen listens. *)
Source == SourceCall /\ UNCHANGED <<lockVars, ringVars>>

PostEvent(t) == Lock!PostEvent(t) /\ Ring!PostEvent(t)

PostInput ==
  \/ Lock!PostOther /\ UNCHANGED ringVars
  \/ Ring!PostButton /\ UNCHANGED lockVars

(* The LVGL thread in the lock screen; its transition to the call screen,  *)
(* which destroys the one and constructs the other; and in the call screen *)
(* until that makes way for the home screen.                               *)
LockRuns == Lock!Lvgl /\ UNCHANGED ringVars

Rings == Lock!ShowCall /\ Ring!Construct

RingRuns ==
  /\ Ring!Lvgl
  /\ screen' = IF callScreen' = "other" THEN "other" ELSE screen
  /\ UNCHANGED <<pc, queue, skin, items, leaving, dismissed, untold, refused>>

Next ==
  \/ Source \/ PostInput \/ (\E t \in Threads : PostEvent(t))
  \/ LockRuns \/ Rings \/ RingRuns

Spec == Init /\ [][Next]_vars

(* A post under way is finished, and LVGL keeps calling loop(). *)
Fairness ==
  /\ \A t \in Threads : WF_vars(PostEvent(t))
  /\ WF_vars(Rings)
  /\ WF_vars(RingRuns /\ (Ring!Listen \/ Ring!LoopEvent \/ Ring!LeaveEmpty))

LiveSpec == Spec /\ Fairness

(* Once the calls of the sources and the lock screen's queue have run dry, *)
(* each notification is shown with the content the store holds, and        *)
(* nothing that left the store is, whatever came between the snapshot, the *)
(* posts and their processing; but for those whose last event was lost or  *)
(* overtaken, dismissed ones, and ones refused for want of room.           *)
Mirrored == Settled => Lock!Mirrored

(* An incoming call whose event was heard takes the watch from the lock    *)
(* screen to the call screen.                                              *)
CallNoticed == Settled => Lock!CallNoticed

(* Of every state: the types, the lock screen like the store once settled, *)
(* and no call overlooked.                                                 *)
Inv == TypeOK /\ Mirrored /\ CallNoticed

(* The screen of a call that is over does not stay: whoever ended it,      *)
(* unless its removal reached the store before the screen listened, was    *)
(* lost in a full queue, or was a clear of the whole store.                *)
CallEnds ==
  (callScreen = "call" /\ ~Has(store, call)) ~>
    (callScreen # "call" \/ unheard \/ Has(store, call))
================================================================================
