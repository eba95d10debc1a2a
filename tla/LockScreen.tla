------------------------------- MODULE LockScreen -------------------------------
(***************************************************************************)
(* The lock screen as a mirror of the phone store.  The LVGL thread builds *)
(* it from a snapshot of the store and then keeps it up to date from the   *)
(* events of Facility::Phone, re-reading the store for each; between the   *)
(* snapshot and Events::listen nothing is heard.                           *)
(***************************************************************************)
EXTENDS PhoneStore

CONSTANTS
  NoUid,    \* the uid of the empty Notif that getNotif returns for an unknown one
  QueueLen  \* length of LockScreen::queue

VARIABLES
  screen,    \* "other" (another screen runs), "built", "prepared", "lock", "call"
  pc,        \* the LVGL thread's place: "loop" or "timers" (lv_timer_handler)
  queue,     \* LockScreen::queue
  skin,      \* skin # nullptr
  items,     \* LockSkin::notifs, with the content each item shows
  leaving,   \* the transition to CallScreen is scheduled (lv_async_call)
  dismissed, \* history: uids whose item the user dismissed
  untold,    \* history: uids of which the last event was lost or overtaken
  refused    \* history: uids whose item was refused for want of room

screenVars == <<screen, pc, skin, leaving, dismissed>>
vars == <<screenVars, queue, items, untold, refused>>

Item  == [uid : Uids \cup {NoUid}, ver : 0..MaxCalls]
Other == Event("Other", "all")  \* of Facility::Time or Facility::Input

TypeOK ==
  /\ screen \in {"other", "built", "prepared", "lock", "call"}
  /\ pc \in {"loop", "timers"}
  /\ queue \in Seq(PhoneEvent \cup {Other}) /\ Len(queue) =< QueueLen
  /\ skin \in BOOLEAN
  /\ items \subseteq Item /\ Cardinality(items) =< MaxNotifs
  /\ leaving \in BOOLEAN
  /\ dismissed \subseteq Uids /\ untold \subseteq Uids /\ refused \subseteq Uids

Init ==
  /\ screen = "other" /\ pc = "timers" /\ queue = <<>> /\ skin = FALSE /\ items = {}
  /\ leaving = FALSE /\ dismissed = {} /\ untold = {} /\ refused = {}

-----------------------------------------------------------------------------
(* Events::post to the screen's queue.                                      *)

ItemsOf(u) == {it.ver : it \in {jt \in items : jt.uid = u}}

Heard == screen = "lock" /\ Len(queue) < QueueLen

\* Of an event nobody heard, u has missed nothing when its item is up to date.
Misses(u) == screen = "lock" \/ ItemsOf(u) # StoredOf(u) \/ u \in Calls

Deliver(e) ==
  /\ queue' = IF Heard THEN Append(queue, e) ELSE queue
  /\ untold' = (untold \ {u \in About(e) : Heard /\ Truthful(e, u)})
                 \cup {u \in About(e) : IF Heard THEN ~Truthful(e, u) ELSE Misses(u)}

PostEvent(t) ==
  /\ Posts(t)
  /\ Deliver(Head(todo[t]))
  /\ UNCHANGED <<screenVars, items, refused>>

PostOther ==
  /\ Heard
  /\ queue' = Append(queue, Other)
  /\ UNCHANGED <<storeVars, screenVars, items, untold, refused>>

-----------------------------------------------------------------------------
(* LockSkin.                                                                *)

ShowsUid(its, uid) == \E it \in its : it.uid = uid

Update(its, uid, ver) == {IF it.uid = uid THEN [it EXCEPT !.ver = ver] ELSE it : it \in its}

\* LockSkin::notifAdd: a new item only while there is room.
NotifAdd(its, uid, ver) ==
  IF ShowsUid(its, uid)
    THEN Update(its, uid, ver)
    ELSE IF Cardinality(its) >= MaxNotifs THEN its
    ELSE its \cup {[uid |-> uid, ver |-> ver]}

\* LockSkin::notifRem
NotifRem(its, uid) == {it \in its : it.uid # uid}

-----------------------------------------------------------------------------
(* LVGL::startScreen with a LockScreen: constructor, onStarting, onStart.   *)

HasCall == \E i \in DOMAIN store : store[i].uid \in Calls

\* A bug to catch: a call that came before the screen is not looked for.
Construct_Plain ==
  /\ screen = "other"
  /\ screen' = "built"
  /\ skin' = TRUE
  /\ leaving' = FALSE
  /\ items' = {} /\ dismissed' = {} /\ untold' = {} /\ refused' = {}
  /\ UNCHANGED <<storeVars, pc, queue>>

\* The constructor: with a call waiting it builds nothing and leaves.
Construct ==
  /\ screen = "other"
  /\ screen' = "built"
  /\ skin' = ~HasCall
  /\ leaving' = HasCall
  /\ items' = {} /\ dismissed' = {} /\ untold' = {} /\ refused' = {}
  /\ UNCHANGED <<storeVars, pc, queue>>

\* onStarting(): prepare(), with updateNotifs() on an empty list.
Prepare ==
  /\ screen = "built"
  /\ screen' = "prepared"
  /\ items' = IF skin THEN {[uid |-> store[i].uid, ver |-> store[i].ver] : i \in DOMAIN store}
                      ELSE {}
  /\ untold' = untold \ (Uids \ Calls)
  /\ queue' = <<>>
  /\ UNCHANGED <<storeVars, pc, skin, leaving, dismissed, refused>>

\* onStart()
Listen ==
  /\ screen = "prepared"
  /\ screen' = "lock"
  /\ queue' = <<>>
  /\ pc' = "timers"
  /\ UNCHANGED <<storeVars, skin, leaving, dismissed, items, untold, refused>>

-----------------------------------------------------------------------------
(* LockScreen::loop() and what follows it in LVGL::loop().                  *)

Running == screen = "lock"

\* processEvt: Added and Changed are processed from the store as it is now.
Show(u) ==
  LET found == Has(store, u)
      uid   == IF found THEN u ELSE NoUid
      ver   == IF found THEN store[FindNotif(store, u)].ver ELSE 0
  IN IF uid \in Calls
       THEN leaving' = TRUE /\ UNCHANGED <<items, dismissed, refused>>
       ELSE /\ items' = NotifAdd(items, uid, ver)
            /\ refused' = IF ShowsUid(items', uid) THEN refused \ {u} ELSE refused \cup {u}
            /\ dismissed' = dismissed \ {u}
            /\ UNCHANGED leaving

ProcessEvt(e) ==
  IF ~skin \/ e = Other
    THEN UNCHANGED <<items, leaving, dismissed, refused>>
    ELSE CASE e.action \in {"Added", "Changed"} -> Show(e.id)
           [] e.action = "Removed" ->
                items' = NotifRem(items, e.id) /\ UNCHANGED <<leaving, dismissed, refused>>
           [] e.action = "Cleared" ->
                items' = {} /\ UNCHANGED <<leaving, dismissed, refused>>

LoopEvent ==
  /\ Running /\ pc = "loop"
  /\ queue # <<>>
  /\ queue' = Tail(queue)
  /\ ProcessEvt(Head(queue))
  /\ UNCHANGED <<storeVars, screen, pc, skin, untold>>

LoopEnd ==
  /\ Running /\ pc = "loop"
  /\ queue = <<>>
  /\ pc' = "timers"
  /\ UNCHANGED <<storeVars, screen, skin, leaving, dismissed, queue, items, untold, refused>>

NextLoop ==
  /\ Running /\ pc = "timers" /\ ~leaving
  /\ pc' = "loop"
  /\ UNCHANGED <<storeVars, screen, skin, leaving, dismissed, queue, items, untold, refused>>

\* The user dismisses an item: notifRem, then doNeg asks the phone.
Dismiss(it) ==
  /\ Running /\ pc = "timers" /\ ~leaving
  /\ it \in items
  /\ items' = NotifRem(items, it.uid)
  /\ dismissed' = dismissed \cup ({it.uid} \cap Uids)
  /\ UNCHANGED <<storeVars, screen, pc, skin, leaving, queue, untold, refused>>

\* onStop(), and the screen is destroyed.
StopScreen(next) ==
  /\ screen' = next
  /\ queue' = <<>> /\ items' = {} /\ skin' = FALSE /\ leaving' = FALSE
  /\ dismissed' = {} /\ untold' = {} /\ refused' = {}
  /\ UNCHANGED <<storeVars, pc>>

\* The scheduled transition to CallScreen.
ShowCall == Running /\ pc = "timers" /\ leaving /\ StopScreen("call")

\* The slider was held to its end.
Unlock == Running /\ pc = "timers" /\ ~leaving /\ StopScreen("other")

Lvgl ==
  \/ Construct \/ Prepare \/ Listen \/ LoopEvent \/ LoopEnd \/ NextLoop
  \/ (\E it \in items : Dismiss(it)) \/ Unlock

-----------------------------------------------------------------------------
(* What PhoneScreens asks of it.                                            *)

Quiet == Running /\ queue = <<>>

Mirrored ==
  Quiet /\ skin =>
    \A u \in Uids \ (untold \cup dismissed \cup refused \cup Calls) : ItemsOf(u) = StoredOf(u)

CallNoticed ==
  Quiet => \A u \in Calls \ untold : Has(store, u) => leaving
===============================================================================
