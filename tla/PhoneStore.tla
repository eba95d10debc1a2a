------------------------------- MODULE PhoneStore -------------------------------
(***************************************************************************)
(* The calls the notification sources make on the phone store, as another  *)
(* thread sees them.  A call changes the deque first and posts the event   *)
(* afterwards, so a screen may read the store in between; and the calls    *)
(* come from three threads, whose posts may overtake one another: "adder"  *)
(* (ANCS::Data, or the Android worker), "remover" (ANCS::Notif) and        *)
(* "session" (the Bluetooth task).  What is done with a posted event is    *)
(* Deliver of the module that extends this one.                            *)
(*                                                                         *)
(* The deque has no mutex (Phone.h:88): each access to it is a step here,  *)
(* and two accesses at the same moment are outside the model.              *)
(***************************************************************************)
EXTENDS PhoneNotifs, FiniteSets

CONSTANTS
  Uids,     \* notification uids
  Calls,    \* the uids whose category is IncomingCall
  MaxCalls  \* bound of the model: calls of the sources

ASSUME PhoneStoreAssumption == Calls \subseteq Uids /\ MaxCalls \in Nat

VARIABLES
  store,    \* Phone::notifs
  todo,     \* for each thread, the events it has still to post
  adding,   \* the notification of an onAdd under way: at most one
  made      \* calls made so far

storeVars == <<store, todo, adding, made>>

Threads == {"adder", "remover", "session"}

PhoneEvent ==
  [action : {"Added", "Changed", "Removed"}, id : Uids] \cup {Event("Cleared", "all")}

Stored == [uid : Uids, ver : 1..MaxCalls, empty : {FALSE}]

StoreTypeOK ==
  /\ store \in Seq(Stored) /\ Len(store) =< MaxNotifs
  /\ todo \in [Threads -> Seq(PhoneEvent)]
  /\ adding \in Seq(Stored)
  /\ made \in 0..MaxCalls

StoreInit ==
  /\ store = <<>>
  /\ todo = [t \in Threads |-> <<>>]
  /\ adding = <<>>
  /\ made = 0

Call(t) ==
  /\ todo[t] = <<>>
  /\ made < MaxCalls
  /\ made' = made + 1

\* onAdd or onModify is called with a notification of uid u.
Offer(u) ==
  /\ Call("adder")
  /\ adding = <<>>
  /\ adding' = <<[uid |-> u, ver |-> made + 1, empty |-> FALSE]>>
  /\ UNCHANGED <<store, todo>>

\* One round of onAdd's loop, or its end.
AddStep ==
  /\ adding # <<>> /\ todo["adder"] = <<>>
  /\ IF ~Has(store, Head(adding).uid) /\ Excess(store) > 0
       THEN /\ store' = Tail(store)
            /\ todo' = [todo EXCEPT !["adder"] = <<Event("Removed", Head(store).uid)>>]
            /\ UNCHANGED adding
       ELSE /\ store' = OnModify(store, Head(adding))
            /\ todo' = [todo EXCEPT !["adder"] =
                 <<Event(IF Has(store, Head(adding).uid) THEN "Changed" ELSE "Added",
                         Head(adding).uid)>>]
            /\ adding' = <<>>
  /\ UNCHANGED made

\* onRemove(u)
RemoveNotif(u) ==
  /\ Call("remover")
  /\ store' = Erase(store, u)
  /\ todo' = [todo EXCEPT !["remover"] = OnRemoveEvents(store, u)]
  /\ UNCHANGED adding

\* notifs.clear() of onConnect and onDisconnect.
Clear ==
  /\ Call("session")
  /\ store' = <<>>
  /\ todo' = [todo EXCEPT !["session"] = ClearEvents(store)]
  /\ UNCHANGED adding

SourceCall == AddStep \/ Clear \/ \E u \in Uids : Offer(u) \/ RemoveNotif(u)

\* Thread t posts its next event.
Posts(t) ==
  /\ todo[t] # <<>>
  /\ todo' = [todo EXCEPT ![t] = Tail(@)]
  /\ UNCHANGED <<store, adding, made>>

\* No call is under way.
Settled == adding = <<>> /\ \A t \in Threads : todo[t] = <<>>

\* The uids an event is about, and whether the store still agrees with it.
About(e) == IF e.action = "Cleared" THEN Uids ELSE {e.id}

Truthful(e, u) == Has(store, u) = (e.action \in {"Added", "Changed"})

\* The content stored for u, if any.
StoredOf(u) == {store[i].ver : i \in {j \in DOMAIN store : store[j].uid = u}}
===============================================================================
