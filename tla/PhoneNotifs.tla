------------------------------ MODULE PhoneNotifs ------------------------------
(***************************************************************************)
(* The notification store of the watch (Notifs/Phone): a deque of at most  *)
(* MaxNotifs notifications, oldest first, that the notification sources    *)
(* (ANCS, Android) fill and the screens read.  The operators give, for a   *)
(* deque ns, the deque after a call and the events the call posts on       *)
(* Facility::Phone.                                                        *)
(***************************************************************************)
EXTENDS Naturals, Sequences, SequencesExt

CONSTANT MaxNotifs \* Phone::MaxNotifs

ASSUME PhoneNotifsAssumption == MaxNotifs \in Nat \ {0}

\* Phone::findNotif(u) != end
Has(ns, u) == \E i \in DOMAIN ns : ns[i].uid = u

UidsOf(ns) == {ns[i].uid : i \in DOMAIN ns}

\* What is evicted to make room: the oldest, when the deque is full.
Excess(ns) == IF Len(ns) < MaxNotifs THEN 0 ELSE Len(ns) - MaxNotifs + 1

\* Each uid at most once.
Distinct(ns) == \A i, j \in DOMAIN ns : ns[i].uid = ns[j].uid => i = j

Event(action, u) == [action |-> action, id |-> u]

Replace(ns, n) == [i \in DOMAIN ns |-> IF ns[i].uid = n.uid THEN n ELSE ns[i]]

OnAdd(ns, n) ==
  IF n.empty THEN ns
  ELSE IF Has(ns, n.uid) THEN Replace(ns, n)
  ELSE Append(SubSeq(ns, Excess(ns) + 1, Len(ns)), n)

OnModify(ns, n) == IF Has(ns, n.uid) THEN Replace(ns, n) ELSE OnAdd(ns, n)

\* Phone::findNotif(u): the entry of that uid (the deque is Distinct).
FindNotif(ns, u) == CHOOSE i \in DOMAIN ns : ns[i].uid = u

\* notifs.erase(findNotif(u)): onRemove, callIgnore and callReject.
Erase(ns, u) == IF Has(ns, u) THEN RemoveAt(ns, FindNotif(ns, u)) ELSE ns

OnRemoveEvents(ns, u) == IF Has(ns, u) THEN <<Event("Removed", u)>> ELSE <<>>

\* notifs.clear() of onConnect and onDisconnect.
ClearEvents(ns) == IF ns # <<>> THEN <<Event("Cleared", "all")>> ELSE <<>>
===============================================================================
