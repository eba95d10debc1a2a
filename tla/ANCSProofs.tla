------------------------------ MODULE ANCSProofs ------------------------------
(***************************************************************************)
(* For any number of uids, queue lengths, changes and sessions.  First the *)
(* types of the pipeline, the agreement of needData with queuedUids, and   *)
(* the place of the request in flight.  The three hold together: an        *)
(* eviction spares the front only because the uid in flight is the         *)
(* front's and no other entry has it.                                      *)
(*                                                                         *)
(* Then Mirrored: once quiet, the watch shows what the phone has.  It      *)
(* needs what is under way: Flushed and Hands (what the Bluetooth task     *)
(* leaves behind and the threads hold), Pipeline (requests, the stream of  *)
(* packets and the parts parsed), Events (what the watch still owes the    *)
(* phone) and UpToDate (every part is of the version on the phone).        *)
(***************************************************************************)
EXTENDS ANCS, SequenceTheorems, TLAPS

-----------------------------------------------------------------------------
(* What the operations of the notification store preserve.                 *)
USE PhoneNotifsAssumption

LEMMA RemoveAtProps ==
  ASSUME NEW S, NEW s \in Seq(S), NEW i \in 1..Len(s)
  PROVE  /\ RemoveAt(s, i) \in Seq(S)
         /\ Len(RemoveAt(s, i)) = Len(s) - 1
         /\ \A j \in 1..(Len(s) - 1) : RemoveAt(s, i)[j] = IF j < i THEN s[j] ELSE s[j + 1]
<1> DEFINE a == SubSeq(s, 1, i - 1)
           b == SubSeq(s, i + 1, Len(s))
<1>1. a \in Seq(S) /\ Len(a) = i - 1 /\ \A j \in 1..(i - 1) : a[j] = s[j]
  OBVIOUS
<1>2. b \in Seq(S) /\ Len(b) = Len(s) - i /\ \A j \in 1..(Len(s) - i) : b[j] = s[i + j]
  OBVIOUS
<1> HIDE DEF a, b
<1>3. RemoveAt(s, i) = a \o b
  BY DEF RemoveAt, a, b
<1>4. a \o b \in Seq(S) /\ Len(a \o b) = Len(s) - 1
  <2>1. a \o b \in Seq(S) /\ Len(a \o b) = Len(a) + Len(b)
    BY <1>1, <1>2, ConcatProperties
  <2>2. Len(s) \in Nat /\ i \in Nat
    OBVIOUS
  <2>3. Len(a) + Len(b) = Len(s) - 1
    BY <1>1, <1>2, <2>2
  <2> QED BY <2>1, <2>3
<1>5. \A j \in 1..(Len(s) - 1) : (a \o b)[j] = IF j < i THEN s[j] ELSE s[j + 1]
  BY <1>1, <1>2
<1> QED BY <1>3, <1>4, <1>5

LEMMA ReplaceProps ==
  ASSUME NEW S, NEW ns \in Seq(S), NEW n \in S
  PROVE  /\ Replace(ns, n) \in Seq(S)
         /\ Len(Replace(ns, n)) = Len(ns)
         /\ Distinct(ns) => Distinct(Replace(ns, n))
<1>1. DOMAIN ns = 1..Len(ns) /\ Len(ns) \in Nat
  OBVIOUS
<1>2. Replace(ns, n) \in [1..Len(ns) -> S]
  BY <1>1 DEF Replace
<1>3. Replace(ns, n) \in Seq(S) /\ Len(Replace(ns, n)) = Len(ns)
  BY <1>1, <1>2
<1>4. \A i \in 1..Len(ns) : Replace(ns, n)[i].uid = ns[i].uid
  BY <1>1 DEF Replace
<1>5. DOMAIN Replace(ns, n) = DOMAIN ns
  BY <1>1, <1>2
<1> QED BY <1>1, <1>3, <1>4, <1>5 DEF Distinct

(* What onAdd pushes: the deque without its oldest entries, then n.         *)
LEMMA PushProps ==
  ASSUME NEW S, NEW ns \in Seq(S), NEW n \in S, Len(ns) =< MaxNotifs
  PROVE  LET new == Append(SubSeq(ns, Excess(ns) + 1, Len(ns)), n)
         IN  /\ new \in Seq(S)
             /\ Len(new) =< MaxNotifs
             /\ Distinct(ns) /\ ~Has(ns, n.uid) => Distinct(new)
<1> DEFINE k == Excess(ns)
           a == SubSeq(ns, k + 1, Len(ns))
           new == Append(a, n)
<1>1. Len(ns) \in Nat /\ MaxNotifs \in Nat /\ MaxNotifs > 0 /\ DOMAIN ns = 1..Len(ns)
  OBVIOUS
<1>2. k \in Nat /\ k =< Len(ns) /\ Len(ns) - k < MaxNotifs
  BY <1>1 DEF Excess
<1>3. /\ a \in Seq(S) /\ Len(a) = Len(ns) - k
      /\ \A i \in 1..(Len(ns) - k) : a[i] = ns[k + i]
  <2> HIDE DEF k
  <2>1. \A i \in (k + 1)..Len(ns) : ns[i] \in S
    BY <1>1, <1>2
  <2>2. k + 1 \in Int /\ Len(ns) \in Int
    BY <1>1, <1>2
  <2>3. /\ a \in Seq(S)
        /\ Len(a) = IF k + 1 =< Len(ns) THEN Len(ns) - (k + 1) + 1 ELSE 0
        /\ \A i \in 1..(Len(ns) - (k + 1) + 1) : a[i] = ns[k + 1 + i - 1]
    BY <2>1, <2>2, SubSeqProperties
  <2> HIDE DEF a
  <2>4. Len(ns) - (k + 1) + 1 = Len(ns) - k
    BY <1>1, <1>2
  <2>6. Len(a) = Len(ns) - k
    <3> DEFINE l == Len(ns)
    <3>1. l \in Nat /\ k \in Nat /\ k =< l /\ Len(a) = IF k + 1 =< l THEN l - (k + 1) + 1 ELSE 0
      BY <1>1, <1>2, <2>3
    <3> HIDE DEF l
    <3> QED BY <3>1 DEF l
  <2>7. \A i \in 1..(Len(ns) - k) : k + 1 + i - 1 = k + i
    BY <1>1, <1>2
  <2>8. \A i \in 1..(Len(ns) - k) : a[i] = ns[k + i]
    BY <2>3, <2>4, <2>7
  <2> QED BY <2>3, <2>6, <2>8
<1>4. /\ new \in Seq(S) /\ Len(new) = Len(a) + 1
      /\ \A i \in 1..Len(a) : new[i] = a[i]
      /\ new[Len(a) + 1] = n
  <2> HIDE DEF a
  <2> QED BY <1>3, AppendProperties
<1> HIDE DEF k, a, new
<1>5. Len(new) =< MaxNotifs
  BY <1>1, <1>2, <1>3, <1>4
<1>6. ASSUME Distinct(ns), ~Has(ns, n.uid) PROVE Distinct(new)
  <2>1. SUFFICES ASSUME NEW i \in 1..(Len(a) + 1), NEW j \in 1..(Len(a) + 1),
                        new[i].uid = new[j].uid
                 PROVE  i = j
    BY <1>4 DEF Distinct
  <2>2. \A m \in 1..Len(a) : k + m \in DOMAIN ns /\ new[m] = ns[k + m]
    BY <1>1, <1>2, <1>3, <1>4
  <2>3. CASE i \in 1..Len(a) /\ j \in 1..Len(a)
    <3>1. /\ k + i \in DOMAIN ns /\ k + j \in DOMAIN ns
          /\ ns[k + i].uid = ns[k + j].uid
      BY <2>1, <2>2, <2>3
    <3>2. k + i = k + j
      BY <3>1, <1>6 DEF Distinct
    <3> QED BY <3>2, <2>3, <1>2
  <2>4. CASE i = Len(a) + 1 /\ j \in 1..Len(a)
    BY <2>1, <2>2, <2>4, <1>4, <1>6 DEF Has
  <2>5. CASE j = Len(a) + 1 /\ i \in 1..Len(a)
    BY <2>1, <2>2, <2>5, <1>4, <1>6 DEF Has
  <2>6. Len(a) \in Nat
    BY <1>3
  <2> QED BY <2>3, <2>4, <2>5, <2>6
<1> QED BY <1>4, <1>5, <1>6 DEF new, a, k

(* onAdd keeps the deque within MaxNotifs and its uids distinct.            *)
THEOREM OnAddProps ==
  ASSUME NEW S, NEW ns \in Seq(S), NEW n \in S, Len(ns) =< MaxNotifs
  PROVE  /\ OnAdd(ns, n) \in Seq(S)
         /\ Len(OnAdd(ns, n)) =< MaxNotifs
         /\ Distinct(ns) => Distinct(OnAdd(ns, n))
<1>1. CASE n.empty
  BY <1>1 DEF OnAdd
<1>2. CASE ~n.empty /\ Has(ns, n.uid)
  BY <1>2, ReplaceProps DEF OnAdd
<1>3. CASE ~n.empty /\ ~Has(ns, n.uid)
  BY <1>3, PushProps DEF OnAdd
<1> QED BY <1>1, <1>2, <1>3

(* onModify does too, whether it replaces or adds.                          *)
THEOREM OnModifyProps ==
  ASSUME NEW S, NEW ns \in Seq(S), NEW n \in S, Len(ns) =< MaxNotifs
  PROVE  /\ OnModify(ns, n) \in Seq(S)
         /\ Len(OnModify(ns, n)) =< MaxNotifs
         /\ Distinct(ns) => Distinct(OnModify(ns, n))
BY ReplaceProps, OnAddProps DEF OnModify

LEMMA FindNotifProps ==
  ASSUME NEW S, NEW ns \in Seq(S), NEW u, Has(ns, u)
  PROVE  FindNotif(ns, u) \in 1..Len(ns) /\ ns[FindNotif(ns, u)].uid = u
BY DEF FindNotif, Has

(* Removing an entry, through onRemove, callIgnore or callReject.           *)
THEOREM EraseProps ==
  ASSUME NEW S, NEW ns \in Seq(S), NEW u, Len(ns) =< MaxNotifs
  PROVE  /\ Erase(ns, u) \in Seq(S)
         /\ Len(Erase(ns, u)) =< MaxNotifs
         /\ Distinct(ns) => Distinct(Erase(ns, u)) /\ ~Has(Erase(ns, u), u)
<1>1. CASE ~Has(ns, u)
  BY <1>1 DEF Erase
<1>2. CASE Has(ns, u)
  <2> DEFINE i == FindNotif(ns, u)
             r == RemoveAt(ns, i)
  <2>1. i \in 1..Len(ns) /\ ns[i].uid = u
    BY <1>2, FindNotifProps
  <2> HIDE DEF i
  <2>2. /\ r \in Seq(S) /\ Len(r) = Len(ns) - 1
        /\ \A j \in 1..(Len(ns) - 1) : r[j] = IF j < i THEN ns[j] ELSE ns[j + 1]
    BY <2>1, RemoveAtProps
  <2> HIDE DEF r
  <2>3. Len(ns) \in Nat /\ DOMAIN ns = 1..Len(ns) /\ DOMAIN r = 1..(Len(ns) - 1)
    BY <2>1, <2>2
  <2>4. Len(r) =< MaxNotifs
    BY <2>2, <2>3
  <2>5. ASSUME Distinct(ns) PROVE Distinct(r) /\ ~Has(r, u)
    <3> DEFINE at(j) == IF j < i THEN j ELSE j + 1
    <3>1. \A j \in DOMAIN r : at(j) \in DOMAIN ns /\ at(j) # i /\ r[j] = ns[at(j)]
      BY <2>1, <2>2, <2>3
    <3>2. \A j, k \in DOMAIN r : at(j) = at(k) => j = k
      BY <2>1, <2>3
    <3> HIDE DEF at
    <3>3. Distinct(r)
      BY <3>1, <3>2, <2>5 DEF Distinct
    <3>4. ~Has(r, u)
      BY <3>1, <2>1, <2>3, <2>5 DEF Distinct, Has
    <3> QED BY <3>3, <3>4
  <2> QED BY <1>2, <2>2, <2>4, <2>5 DEF Erase, i, r
<1> QED BY <1>1, <1>2
-----------------------------------------------------------------------------

USE ANCSAssumption, PhoneNotifsAssumption

\* An event is in hand between the two halves of loopNotif.
EventHeld == notifPc # "get" => notifEvt # <<>>

VersionsCount == \A u \in Uids : version[u] =< changes

IInv == TypeOK /\ EventHeld /\ VersionsCount /\ QueueConsistent /\ InFlightIsFront

\* The part of IInv about needData and queuedUids, of any values of theirs.
GoodQueue(nd, q) ==
  /\ nd \in Seq(Entry)
  /\ q \subseteq Uids
  /\ q = UidsOf(nd)
  /\ Distinct(nd)
  /\ Len(nd) =< MaxQueued

Queue == GoodQueue(needData, queuedUids)

-----------------------------------------------------------------------------

LEMMA QueueFacts ==
  ASSUME NEW nd, NEW q, GoodQueue(nd, q)
  PROVE  /\ Len(nd) \in Nat
         /\ DOMAIN nd = 1..Len(nd)
         /\ \A i \in DOMAIN nd : nd[i] \in Entry /\ nd[i].uid \in Uids /\ nd[i].uid \in q
         /\ \A u \in q : \E i \in DOMAIN nd : nd[i].uid = u
<1>1. Len(nd) \in Nat /\ DOMAIN nd = 1..Len(nd)
  BY DEF GoodQueue
<1>2. \A i \in DOMAIN nd : nd[i] \in Entry
  BY <1>1 DEF GoodQueue
<1>3. \A i \in DOMAIN nd : nd[i].uid \in Uids
  BY <1>2 DEF Entry
<1>4. q = {nd[i].uid : i \in DOMAIN nd}
  BY DEF GoodQueue, UidsOf
<1> QED BY <1>1, <1>2, <1>3, <1>4

(* Taking entry i out of both structures, by eviction or removal.           *)
LEMMA RemoveEntry ==
  ASSUME NEW nd, NEW q, GoodQueue(nd, q), NEW i \in 1..Len(nd)
  PROVE  /\ GoodQueue(RemoveAt(nd, i), q \ {nd[i].uid})
         /\ Len(RemoveAt(nd, i)) = Len(nd) - 1
         /\ i # 1 => RemoveAt(nd, i) # <<>> /\ Head(RemoveAt(nd, i)) = Head(nd)
<1> DEFINE s == RemoveAt(nd, i)
           at(j) == IF j < i THEN j ELSE j + 1
           back(j) == IF j < i THEN j ELSE j - 1
<1>1. /\ s \in Seq(Entry) /\ Len(s) = Len(nd) - 1
      /\ \A j \in 1..(Len(nd) - 1) : s[j] = IF j < i THEN nd[j] ELSE nd[j + 1]
  BY RemoveAtProps DEF GoodQueue
<1> HIDE DEF s
<1>2. Len(nd) \in Nat /\ i \in Nat /\ i >= 1 /\ i =< Len(nd) /\ DOMAIN nd = 1..Len(nd)
      /\ DOMAIN s = 1..(Len(nd) - 1)
  BY <1>1, QueueFacts
<1>3. \A j \in DOMAIN s : at(j) \in DOMAIN nd \ {i} /\ s[j] = nd[at(j)]
  BY <1>1, <1>2
<1>4. \A j, k \in DOMAIN s : at(j) = at(k) => j = k
  BY <1>2
<1>5. \A j \in DOMAIN nd \ {i} : back(j) \in DOMAIN s /\ at(back(j)) = j
  BY <1>2
<1>6. i # 1 => s # <<>> /\ Head(s) = Head(nd)
  <2> SUFFICES ASSUME i # 1 PROVE s # <<>> /\ Head(s) = Head(nd)
    OBVIOUS
  <2>1. 1 \in 1..(Len(nd) - 1) /\ 1 < i
    BY <1>2
  <2>2. s[1] = nd[1]
    BY <1>1, <2>1
  <2>3. s # <<>> /\ nd # <<>>
    BY <1>1, <1>2, <2>1
  <2>4. Head(s) = s[1] /\ Head(nd) = nd[1]
    BY <1>1, <2>3 DEF GoodQueue
  <2> QED BY <2>2, <2>3, <2>4
<1> HIDE DEF at, back
<1>7. Distinct(nd) /\ q = UidsOf(nd) /\ Len(nd) =< MaxQueued
  BY DEF GoodQueue
<1>8. Distinct(s)
  BY <1>3, <1>4, <1>7 DEF Distinct
<1>9. UidsOf(s) = q \ {nd[i].uid}
  <2>1. \A j \in DOMAIN s : s[j].uid \in q \ {nd[i].uid}
    BY <1>3, <1>7, <1>2 DEF UidsOf, Distinct
  <2>2. ASSUME NEW u \in q \ {nd[i].uid} PROVE u \in UidsOf(s)
    <3>1. PICK j \in DOMAIN nd \ {i} : nd[j].uid = u
      BY <2>2, <1>7 DEF UidsOf
    <3>2. s[back(j)].uid = u /\ back(j) \in DOMAIN s
      BY <3>1, <1>3, <1>5
    <3> QED BY <3>2 DEF UidsOf
  <2> QED BY <2>1, <2>2 DEF UidsOf
<1>10. Len(s) =< MaxQueued
  BY <1>1, <1>2, <1>7
<1>11. q \ {nd[i].uid} \subseteq Uids
  BY DEF GoodQueue
<1>12. GoodQueue(s, q \ {nd[i].uid})
  BY <1>1, <1>8, <1>9, <1>10, <1>11 DEF GoodQueue
<1> QED BY <1>1, <1>6, <1>12 DEF s

(* Queueing a uid that is not queued.                                       *)
LEMMA AppendKeeps ==
  ASSUME NEW nd, NEW q, GoodQueue(nd, q), Len(nd) < MaxQueued, NEW e \in Entry, e.uid \notin q
  PROVE  /\ GoodQueue(Append(nd, e), q \cup {e.uid})
         /\ nd # <<>> => Head(Append(nd, e)) = Head(nd)
<1> DEFINE s == Append(nd, e)
<1>1. /\ s \in Seq(Entry) /\ Len(s) = Len(nd) + 1
      /\ \A i \in 1..Len(nd) : s[i] = nd[i]
      /\ s[Len(nd) + 1] = e
  BY AppendProperties DEF GoodQueue
<1> HIDE DEF s
<1>2. Len(nd) \in Nat /\ DOMAIN nd = 1..Len(nd) /\ DOMAIN s = 1..(Len(nd) + 1)
  BY <1>1, QueueFacts
<1>3. \A i \in DOMAIN nd : nd[i].uid # e.uid
  BY QueueFacts
<1>4. Distinct(nd) /\ q = UidsOf(nd)
  BY DEF GoodQueue
<1>5. Distinct(s)
  BY <1>1, <1>2, <1>3, <1>4 DEF Distinct
<1>6. UidsOf(s) = q \cup {e.uid}
  <2>1. \A i \in DOMAIN s : s[i].uid \in q \cup {e.uid}
    BY <1>1, <1>2, <1>4 DEF UidsOf
  <2>2. \A u \in q \cup {e.uid} : \E i \in DOMAIN s : s[i].uid = u
    <3>1. Len(nd) + 1 \in DOMAIN s
      BY <1>2
    <3>2. \A i \in DOMAIN nd : i \in DOMAIN s /\ s[i] = nd[i]
      BY <1>1, <1>2
    <3> QED BY <1>1, <1>4, <3>1, <3>2 DEF UidsOf
  <2> QED BY <2>1, <2>2 DEF UidsOf
<1>7. Len(s) =< MaxQueued
  BY <1>1, <1>2
<1>8. q \cup {e.uid} \subseteq Uids
  BY DEF GoodQueue, Entry
<1>9. GoodQueue(s, q \cup {e.uid})
  BY <1>1, <1>5, <1>6, <1>7, <1>8 DEF GoodQueue
<1>10. nd # <<>> => Head(s) = Head(nd)
  <2> SUFFICES ASSUME nd # <<>> PROVE Head(s) = Head(nd)
    OBVIOUS
  <2>1. 1 \in 1..Len(nd) /\ s # <<>>
    BY <1>1, <1>2 DEF GoodQueue
  <2>2. Head(s) = s[1] /\ Head(nd) = nd[1]
    BY <1>1, <2>1 DEF GoodQueue
  <2> QED BY <1>1, <2>1, <2>2
<1> QED BY <1>9, <1>10 DEF s

(* dropInFlight() and send() pop the front.                                 *)
LEMMA PopFrontKeeps ==
  ASSUME Queue, PopFront
  PROVE  Queue'
<1>1. CASE needData = <<>>
  BY <1>1 DEF PopFront, Queue
<1>2. CASE needData # <<>>
  <2>1. 1 \in 1..Len(needData) /\ Head(needData) = needData[1] /\ Tail(needData) = RemoveAt(needData, 1)
    BY <1>2 DEF Queue, GoodQueue, RemoveAt
  <2>2. GoodQueue(RemoveAt(needData, 1), queuedUids \ {needData[1].uid})
    BY <2>1, RemoveEntry DEF Queue
  <2> QED BY <1>2, <2>1, <2>2 DEF PopFront, Queue
<1> QED BY <1>1, <1>2

(* Some entry can be evicted from a full queue: of two, one is not in flight. *)
LEMMA EvictAtProps ==
  ASSUME Queue, MustEvict(needData), InFlightIsFront
  PROVE  EvictAt(needData) \in 1..Len(needData) /\ ~InFlight(needData[EvictAt(needData)].uid)
<1>1. Len(needData) \in Nat /\ Len(needData) >= 2 /\ DOMAIN needData = 1..Len(needData)
  BY QueueFacts DEF MustEvict, Queue
<1>2. 1 \in DOMAIN needData /\ 2 \in DOMAIN needData
  BY <1>1
<1>3. Distinct(needData)
  BY DEF Queue, GoodQueue
<1>4. needData[1].uid # needData[2].uid
  BY <1>2, <1>3 DEF Distinct
<1>5. 1 \in Evictable(needData) \/ 2 \in Evictable(needData)
  BY <1>2, <1>4 DEF Evictable, InFlight
<1>6. Evictable(needData) \subseteq 1..Len(needData)
  BY <1>1 DEF Evictable
<1>7. \E i \in Evictable(needData) : \A j \in Evictable(needData) : i =< j
  <2>1. CASE 1 \in Evictable(needData)
    BY <2>1, <1>1, <1>6
  <2>2. CASE 1 \notin Evictable(needData)
    <3>1. \A j \in Evictable(needData) : 2 =< j
      BY <2>2, <1>1, <1>6
    <3> QED BY <2>2, <1>5, <3>1
  <2> QED BY <2>1, <2>2
<1>8. EvictAt(needData) \in Evictable(needData)
  BY <1>7 DEF EvictAt
<1> QED BY <1>8, <1>6 DEF Evictable

LEMMA MergeKeeps ==
  ASSUME Queue, NEW u, NEW m \in BOOLEAN, MergeModify(u, m), UNCHANGED queuedUids
  PROVE  /\ Queue'
         /\ Len(needData') = Len(needData)
         /\ \A i \in DOMAIN needData : needData'[i].uid = needData[i].uid
<1>1. Len(needData) \in Nat /\ DOMAIN needData = 1..Len(needData)
      /\ \A i \in 1..Len(needData) : needData[i] \in Entry
  BY QueueFacts DEF Queue
<1>2. needData' \in [1..Len(needData) -> Entry]
  <2>1. \A e \in Entry : [e EXCEPT !.modify = @ \/ m] \in Entry
    BY DEF Entry
  <2> QED BY <1>1, <2>1 DEF MergeModify
<1>3. needData' \in Seq(Entry) /\ Len(needData') = Len(needData) /\ DOMAIN needData' = DOMAIN needData
  BY <1>1, <1>2
<1>4. \A i \in DOMAIN needData : needData'[i].uid = needData[i].uid
  <2>1. \A e \in Entry : [e EXCEPT !.modify = @ \/ m].uid = e.uid
    BY DEF Entry
  <2> QED BY <1>1, <2>1 DEF MergeModify
<1>5. UidsOf(needData') = UidsOf(needData)
  BY <1>3, <1>4 DEF UidsOf
<1>6. Distinct(needData) => Distinct(needData')
  BY <1>3, <1>4 DEF Distinct
<1> QED BY <1>3, <1>4, <1>5, <1>6 DEF Queue, GoodQueue

(* pumpRequest() puts the front in flight, or leaves the request there is.  *)
LEMMA PumpKeeps ==
  ASSUME TypeOK, NEW nd \in Seq(Entry), needData' = nd, PumpRequest(nd),
         inFlightUid # NoUid => nd # <<>> /\ inFlightUid = Head(nd).uid /\ reqState # "Idle",
         reqState = "Awaiting" => inFlightUid # NoUid
  PROVE  /\ InFlightIsFront'
         /\ requests' \in Seq(Uids) /\ expired' \in BOOLEAN
         /\ inFlightUid' \in Uids \cup {NoUid}
         /\ reqState' \in {"Idle", "Awaiting", "Processing"}
<1>1. CASE reqState = "Idle" /\ nd # <<>> /\ CtrlOpen
  <2>1. Head(nd) \in Entry
    BY <1>1
  <2>2. Head(nd).uid \in Uids
    BY <2>1 DEF Entry
  <2>3. requests' = Append(requests, Head(nd).uid) /\ inFlightUid' = Head(nd).uid
        /\ reqState' = "Awaiting" /\ expired' = FALSE
    BY <1>1 DEF PumpRequest
  <2>4. requests' \in Seq(Uids)
    BY <2>2, <2>3, AppendProperties DEF TypeOK
  <2> QED BY <1>1, <2>2, <2>3, <2>4 DEF InFlightIsFront
<1>2. CASE ~(reqState = "Idle" /\ nd # <<>> /\ CtrlOpen)
  BY <1>2 DEF PumpRequest, InFlightIsFront, TypeOK
<1> QED BY <1>1, <1>2

(* What is not the queue's business.                                        *)
LEMMA StoreKeeps ==
  ASSUME TypeOK, NEW n \in Shown
  PROVE  /\ OnAdd(notifs, n) \in Seq(Shown) /\ Len(OnAdd(notifs, n)) =< MaxNotifs
         /\ OnModify(notifs, n) \in Seq(Shown) /\ Len(OnModify(notifs, n)) =< MaxNotifs
<1>1. notifs \in Seq(Shown) /\ Len(notifs) =< MaxNotifs
  BY DEF TypeOK
<1> QED BY <1>1, OnAddProps, OnModifyProps

-----------------------------------------------------------------------------
(* The steps.                                                               *)

LEMMA QueueIs == TypeOK /\ QueueConsistent <=> TypeOK /\ Queue
  BY DEF TypeOK, QueueConsistent, Queue, GoodQueue

LEMMA InitOK == Init => IInv
<1> SUFFICES ASSUME Init PROVE IInv
  OBVIOUS
<1>1. TypeOK
  <2>1. /\ <<>> \in Seq(Uids) /\ <<>> \in Seq(Packet) /\ <<>> \in Seq(SrcEvent)
        /\ <<>> \in Seq(Entry) /\ <<>> \in Seq(Shown) /\ Len(<<>>) = 0
    OBVIOUS
  <2>2. phone \in [Uids -> {"none", "active", "gone"}] /\ version \in [Uids -> Version]
    BY DEF Init, Version
  <2>3. 0 =< QueueLen /\ 0 =< MaxNotifs /\ 0 \in 0..MaxChanges /\ 0 \in 0..MaxSessions
    OBVIOUS
  <2> QED BY <2>1, <2>2, <2>3 DEF Init, TypeOK
<1>2. QueueConsistent
  BY DEF Init, QueueConsistent, UidsOf, Distinct
<1>3. EventHeld /\ VersionsCount /\ InFlightIsFront
  BY DEF Init, EventHeld, VersionsCount, InFlightIsFront
<1> QED BY <1>1, <1>2, <1>3 DEF IInv

(* The characteristics' queues.                                             *)
LEMMA SourceKeeps ==
  ASSUME TypeOK, NEW e \in SrcEvent, Source(e)
  PROVE  sourceQ' \in Seq(SrcEvent) /\ Len(sourceQ') =< QueueLen /\ lost' \subseteq Uids
<1>1. Append(sourceQ, e) \in Seq(SrcEvent) /\ Len(Append(sourceQ, e)) = Len(sourceQ) + 1
  BY AppendProperties DEF TypeOK
<1>2. Len(sourceQ) \in Nat /\ e.uid \in Uids
  BY DEF TypeOK, SrcEvent
<1> QED BY <1>1, <1>2 DEF Source, TypeOK

LEMMA DataKeeps ==
  ASSUME TypeOK, NEW p \in Packet, Data(p)
  PROVE  dataQ' \in Seq(Packet) /\ Len(dataQ') =< QueueLen /\ lost' \subseteq Uids
<1>1. Append(dataQ, p) \in Seq(Packet) /\ Len(Append(dataQ, p)) = Len(dataQ) + 1
  BY AppendProperties DEF TypeOK
<1>2. Len(dataQ) \in Nat /\ p.uid \in Uids
  BY DEF TypeOK, Packet
<1> QED BY <1>1, <1>2 DEF Data, TypeOK

(* A step that leaves the queue and the request alone keeps what IInv says of
   them.                                                                    *)
LEMMA QueueUnchanged ==
  ASSUME UNCHANGED queueVars
  PROVE  (QueueConsistent => QueueConsistent') /\ (InFlightIsFront => InFlightIsFront')
BY DEF queueVars, QueueConsistent, InFlightIsFront, UidsOf, Distinct

LEMMA PhoneKeeps == IInv /\ PhoneNext => IInv'
<1> SUFFICES ASSUME IInv, PhoneNext PROVE IInv'
  OBVIOUS
<1> USE DEF IInv
<1>1. CASE Answer
  <2>1. UNCHANGED queueVars /\ UNCHANGED <<notifPc, notifEvt, version, changes>>
    BY <1>1 DEF Answer, notifVars
  <2>2. requests' \in Seq(Uids) /\ answering' \in Seq(Packet)
        /\ dataQ' \in Seq(Packet) /\ Len(dataQ') =< QueueLen /\ lost' \subseteq Uids
    <3>1. CASE answering # <<>>
      <4>1. Head(answering) \in Packet
        BY <3>1 DEF TypeOK
      <4>2. Data(Head(answering)) /\ answering' = <<>> /\ UNCHANGED requests
        BY <1>1, <3>1 DEF Answer
      <4> QED BY <4>1, <4>2, DataKeeps DEF TypeOK
    <3>2. CASE answering = <<>>
      <4> DEFINE u == Head(requests)
                 p(part) == [part |-> part, uid |-> u, ver |-> version[u]]
      <4>1. requests # <<>> /\ requests' = Tail(requests)
        BY <1>1, <3>2 DEF Answer
      <4>2. u \in Uids /\ requests' \in Seq(Uids)
        BY <4>1 DEF TypeOK
      <4>3. p("head") \in Packet /\ p("tail") \in Packet
        BY <4>2 DEF TypeOK, Packet
      <4>4. CASE phone[u] = "active"
        <5>1. Data(p("head")) /\ answering' = <<p("tail")>>
          BY <1>1, <3>2, <4>4 DEF Answer
        <5> HIDE DEF p
        <5>2. answering' \in Seq(Packet)
          BY <5>1, <4>3
        <5> QED BY <5>1, <5>2, <4>2, <4>3, DataKeeps
      <4>5. CASE phone[u] # "active"
        <5>1. UNCHANGED <<dataQ, answering, lost>>
          BY <1>1, <3>2, <4>5 DEF Answer
        <5> QED BY <5>1, <4>2 DEF TypeOK
      <4> QED BY <4>4, <4>5
    <3> QED BY <3>1, <3>2
  <2>3. TypeOK'
    BY <1>1, <2>2, SMTT(30) DEF TypeOK, Answer, queueVars, notifVars, dataVars, btcVars, storeVars
  <2>4. EventHeld' /\ VersionsCount'
    BY <2>1 DEF EventHeld, VersionsCount
  <2> QED BY <2>1, <2>3, <2>4, QueueUnchanged
<1>2. ASSUME NEW u \in Uids, PhoneAdds(u) \/ PhoneModifies(u) \/ PhoneRemoves(u)
      PROVE  IInv'
  <2>1. Change
    BY <1>2 DEF PhoneAdds, PhoneModifies, PhoneRemoves
  <2>2. UNCHANGED queueVars /\ UNCHANGED <<notifPc, notifEvt>>
        /\ changes' = changes + 1 /\ changes \in Nat /\ changes < MaxChanges
    BY <2>1 DEF Change, notifVars, TypeOK
  <2>3. sourceQ' \in Seq(SrcEvent) /\ Len(sourceQ') =< QueueLen /\ lost' \subseteq Uids
    <3>1. [evt |-> "Modified", uid |-> u] \in SrcEvent /\ [evt |-> "Removed", uid |-> u] \in SrcEvent
      BY DEF SrcEvent
    <3>2. \/ Source([evt |-> "Modified", uid |-> u])
          \/ Source([evt |-> "Removed", uid |-> u])
          \/ UNCHANGED <<sourceQ, lost>>
      BY <1>2 DEF PhoneAdds, PhoneModifies, PhoneRemoves
    <3> QED BY <3>1, <3>2, SourceKeeps DEF TypeOK
  <2>4. /\ phone' \in [Uids -> {"none", "active", "gone"}]
        /\ version' \in [Uids -> Version]
        /\ \A v \in Uids : version'[v] =< changes'
        /\ UNCHANGED announced
    <3>1. version[u] =< changes /\ \A v \in Uids : version[v] \in Nat /\ version[v] =< changes
      BY DEF VersionsCount, TypeOK, Version
    <3>2. CASE PhoneModifies(u)
      <4>1. version' = [version EXCEPT ![u] = @ + 1] /\ UNCHANGED <<phone, announced>>
        BY <3>2 DEF PhoneModifies
      <4>2. version[u] + 1 \in Version /\ version[u] + 1 =< changes'
        BY <3>1, <2>2 DEF Version
      <4>3. \A v \in Uids : version'[v] \in Version /\ version'[v] =< changes'
        BY <4>1, <4>2, <3>1, <2>2, SMTT(30) DEF TypeOK, Version
      <4>4. version' \in [Uids -> Version]
        BY <4>1, <4>2 DEF TypeOK
      <4> QED BY <4>1, <4>3, <4>4 DEF TypeOK
    <3>3. CASE PhoneAdds(u) \/ PhoneRemoves(u)
      <4>1. /\ UNCHANGED <<version, announced>>
            /\ \/ phone' = [phone EXCEPT ![u] = "active"]
               \/ phone' = [phone EXCEPT ![u] = "gone"]
        BY <3>3 DEF PhoneAdds, PhoneRemoves
      <4>2. phone' \in [Uids -> {"none", "active", "gone"}]
        BY <4>1 DEF TypeOK
      <4> QED BY <4>1, <4>2, <3>1, <2>2, SMTT(30) DEF TypeOK, Version
    <3> QED BY <3>2, <3>3, <1>2
  <2>5. changes' \in 0..MaxChanges
    BY <2>2
  <2>6. TypeOK'
    BY <2>1, <2>3, <2>4, <2>5 DEF TypeOK, Change, queueVars, notifVars, dataVars, btcVars, storeVars
  <2>7. EventHeld' /\ VersionsCount'
    BY <2>2, <2>4 DEF EventHeld, VersionsCount
  <2> QED BY <2>2, <2>6, <2>7, QueueUnchanged
<1>3. ASSUME NEW u \in Uids, Announce(u)
      PROVE  IInv'
  <2>1. UNCHANGED queueVars /\ UNCHANGED <<notifPc, notifEvt, version, changes>>
    BY <1>3 DEF Announce, notifVars
  <2>2. sourceQ' \in Seq(SrcEvent) /\ Len(sourceQ') =< QueueLen /\ lost' \subseteq Uids
    <3>1. [evt |-> "Added", uid |-> u] \in SrcEvent /\ Source([evt |-> "Added", uid |-> u])
      BY <1>3 DEF SrcEvent, Announce
    <3> QED BY <3>1, SourceKeeps
  <2>3. TypeOK'
    BY <1>3, <2>2 DEF TypeOK, Announce, queueVars, notifVars, dataVars, btcVars, storeVars
  <2>4. EventHeld' /\ VersionsCount'
    BY <2>1 DEF EventHeld, VersionsCount
  <2> QED BY <2>1, <2>3, <2>4, QueueUnchanged
<1> QED BY <1>1, <1>2, <1>3 DEF PhoneNext

LEMMA BtcKeeps == IInv /\ Btc => IInv'
<1> SUFFICES ASSUME IInv, Btc PROVE IInv'
  OBVIOUS
<1> USE DEF IInv
<1>1. UNCHANGED <<notifPc, notifEvt, version, changes>>
  BY DEF Btc, OnConn, PhoneOnConnect, ServiceClose, OnDiscon, OnDisconLeave, PhoneOnDisconnect,
         notifVars, phoneVars
<1>2. EventHeld' /\ VersionsCount'
  BY <1>1 DEF EventHeld, VersionsCount
<1>3. CASE OnDiscon
  <2>1. QueueConsistent' /\ InFlightIsFront'
    BY <1>3 DEF OnDiscon, OnDisconClear, QueueConsistent, InFlightIsFront, UidsOf, Distinct
  <2>2. TypeOK'
    <3>1. needData' \in Seq(Entry) /\ queuedUids' = {} /\ reqState' = "Idle" /\ inFlightUid' = NoUid
          /\ abandonInFlight' = FALSE /\ expired' = expired /\ btc' = "cleared"
      BY <1>3 DEF OnDiscon, OnDisconClear
    <3>2. UNCHANGED <<phoneVars, notifVars, dataVars, connected, sessions, storeVars,
                      sourceQ, dataQ, lost, excused, outdated>>
      BY <1>3 DEF OnDiscon
    <3> QED BY <3>1, <3>2 DEF TypeOK, phoneVars, notifVars, dataVars, storeVars
  <2> QED BY <1>2, <2>1, <2>2
<1>4. CASE ServiceClose
  <2>1. UNCHANGED queueVars
    BY <1>4 DEF ServiceClose
  <2>2. {dataHand[i].uid : i \in DOMAIN dataHand} \subseteq Uids
    <3>1. \A i \in DOMAIN dataHand : dataHand[i] \in Packet
      BY DEF TypeOK
    <3> QED BY <3>1 DEF Packet
  <2>3. /\ lost' \subseteq Uids /\ Len(<<>>) =< QueueLen /\ <<>> \in Seq(SrcEvent)
        /\ <<>> \in Seq(Packet) /\ <<>> \in Seq(Uids)
    BY <1>4, <2>2 DEF ServiceClose, TypeOK
  <2>4. TypeOK'
    BY <1>4, <2>3 DEF TypeOK, ServiceClose, queueVars, notifVars, dataVars, storeVars
  <2> QED BY <1>2, <2>1, <2>4, QueueUnchanged
<1>5. CASE OnConn \/ PhoneOnConnect \/ OnDisconLeave \/ PhoneOnDisconnect
  <2>1. UNCHANGED queueVars
    BY <1>5 DEF OnConn, PhoneOnConnect, OnDisconLeave, PhoneOnDisconnect
  <2>2. Len(<<>>) =< MaxNotifs /\ <<>> \in Seq(Shown)
    OBVIOUS
  <2>3. notifs' \in Seq(Shown) /\ Len(notifs') =< MaxNotifs
    BY <1>5, <2>2 DEF OnConn, PhoneOnConnect, OnDisconLeave, PhoneOnDisconnect, TypeOK, storeVars
  <2>5. sessions' \in 0..MaxSessions
    <3>1. sessions' = sessions \/ (sessions < MaxSessions /\ sessions' = sessions + 1)
      BY <1>5 DEF OnConn, PhoneOnConnect, OnDisconLeave, PhoneOnDisconnect
    <3> QED BY <3>1 DEF TypeOK
  <2>4. TypeOK'
    <3>1. btc' \in {"joining", "up", "left", "down"} /\ connected' \in BOOLEAN /\ current' \in BOOLEAN
      BY <1>5 DEF TypeOK, OnConn, PhoneOnConnect, OnDisconLeave, PhoneOnDisconnect, storeVars
    <3>2. UNCHANGED <<phoneVars, queueVars, notifVars, dataVars, sourceQ, dataQ,
                      lost, excused, outdated>>
      BY <1>5 DEF OnConn, PhoneOnConnect, OnDisconLeave, PhoneOnDisconnect
    <3> QED BY <3>1, <3>2, <2>3, <2>5 DEF TypeOK, phoneVars, queueVars, notifVars, dataVars
  <2> QED BY <1>2, <2>1, <2>4, QueueUnchanged
<1> QED BY <1>3, <1>4, <1>5 DEF Btc

LEMMA ExpiresKeeps == IInv /\ RequestExpires => IInv'
<1> SUFFICES ASSUME IInv, RequestExpires PROVE IInv'
  OBVIOUS
<1>1. TypeOK'
  BY DEF IInv, TypeOK, RequestExpires, phoneVars, notifVars, dataVars, btcVars, storeVars
<1>2. EventHeld' /\ VersionsCount' /\ QueueConsistent' /\ InFlightIsFront'
  BY DEF IInv, EventHeld, VersionsCount, QueueConsistent, InFlightIsFront, UidsOf, Distinct,
         RequestExpires, phoneVars, notifVars
<1> QED BY <1>1, <1>2 DEF IInv

(* QueueNew keeps the request at the front: what is evicted is not in flight. *)
LEMMA QueueNewKeeps ==
  ASSUME IInv, NEW u \in Uids, u \notin queuedUids, NEW m \in BOOLEAN, QueueNew(u, m)
  PROVE  /\ Queue' /\ InFlightIsFront'
         /\ requests' \in Seq(Uids) /\ expired' \in BOOLEAN
         /\ inFlightUid' \in Uids \cup {NoUid}
         /\ reqState' \in {"Idle", "Awaiting", "Processing"}
         /\ excused' \subseteq Uids
<1> DEFINE at   == EvictAt(needData)
           room == IF MustEvict(needData) THEN RemoveAt(needData, at) ELSE needData
           gone == IF MustEvict(needData) THEN {needData[at].uid} ELSE {}
           e    == [uid |-> u, modify |-> m, parts |-> {}]
<1>1. TypeOK /\ Queue /\ InFlightIsFront
  BY QueueIs DEF IInv
<1>2. e \in Entry /\ e.uid = u
  BY DEF Entry
<1>3. /\ needData' = Append(room, e)
      /\ queuedUids' = (queuedUids \ gone) \cup {u}
      /\ excused' = excused \cup gone \cup ({u} \ announced)
      /\ PumpRequest(Append(room, e))
  BY DEF QueueNew
<1> HIDE DEF e
<1>4. /\ GoodQueue(room, queuedUids \ gone)
      /\ Len(room) < MaxQueued
      /\ gone \subseteq Uids
      /\ inFlightUid # NoUid => room # <<>> /\ Head(room) = Head(needData)
  <2>1. CASE MustEvict(needData)
    <3>1. at \in 1..Len(needData) /\ ~InFlight(needData[at].uid)
      BY <1>1, <2>1, EvictAtProps
    <3>2. inFlightUid # NoUid => at # 1
      <4>1. needData # <<>> => Head(needData) = needData[1]
        BY <1>1 DEF TypeOK
      <4> QED BY <1>1, <3>1, <4>1 DEF InFlightIsFront, InFlight
    <3> HIDE DEF at
    <3>3. /\ GoodQueue(RemoveAt(needData, at), queuedUids \ {needData[at].uid})
          /\ Len(RemoveAt(needData, at)) = Len(needData) - 1
          /\ at # 1 => RemoveAt(needData, at) # <<>>
                       /\ Head(RemoveAt(needData, at)) = Head(needData)
      BY <1>1, <3>1, RemoveEntry DEF Queue
    <3>4. Len(needData) =< MaxQueued /\ Len(needData) \in Nat /\ needData[at].uid \in Uids
      BY <1>1, <3>1, QueueFacts DEF Queue, GoodQueue
    <3> QED BY <2>1, <3>2, <3>3, <3>4
  <2>2. CASE ~MustEvict(needData)
    <3>1. Len(needData) < MaxQueued
      <4>1. Len(needData) \in Nat /\ Len(needData) =< MaxQueued /\ DOMAIN needData = 1..Len(needData)
        BY <1>1, QueueFacts DEF Queue, GoodQueue
      <4>2. SUFFICES ASSUME Len(needData) >= MaxQueued PROVE FALSE
        BY <4>1
      <4>3. 1 \in DOMAIN needData /\ 2 \in DOMAIN needData
        BY <4>1, <4>2
      <4>4. needData[1].uid # needData[2].uid
        BY <1>1, <4>3 DEF Queue, GoodQueue, Distinct
      <4>5. 1 \in Evictable(needData) \/ 2 \in Evictable(needData)
        BY <4>3, <4>4 DEF Evictable, InFlight
      <4> QED BY <2>2, <4>2, <4>5 DEF MustEvict
    <3>2. queuedUids \ {} = queuedUids
      OBVIOUS
    <3> QED BY <1>1, <2>2, <3>1, <3>2 DEF Queue, InFlightIsFront
  <2> QED BY <2>1, <2>2
<1> HIDE DEF room, gone
<1>5. /\ GoodQueue(Append(room, e), (queuedUids \ gone) \cup {u})
      /\ room # <<>> => Head(Append(room, e)) = Head(room)
  BY <1>2, <1>4, AppendKeeps
<1>6. Append(room, e) \in Seq(Entry) /\ Append(room, e) # <<>>
  BY <1>2, <1>4, AppendProperties DEF GoodQueue
<1>7. inFlightUid # NoUid => inFlightUid = Head(Append(room, e)).uid /\ reqState # "Idle"
  BY <1>1, <1>4, <1>5 DEF InFlightIsFront
<1>8. reqState = "Awaiting" => inFlightUid # NoUid
  BY <1>1 DEF InFlightIsFront
<1>9. Queue'
  BY <1>3, <1>5 DEF Queue
<1>10. excused' \subseteq Uids
  BY <1>3, <1>4 DEF IInv, TypeOK
<1> QED BY <1>1, <1>3, <1>6, <1>7, <1>8, <1>9, <1>10, PumpKeeps

LEMMA NotifKeeps == IInv /\ NotifThread => IInv'
<1> SUFFICES ASSUME IInv, NotifThread PROVE IInv'
  OBVIOUS
<1>1. TypeOK /\ Queue /\ InFlightIsFront /\ EventHeld /\ VersionsCount
  BY QueueIs DEF IInv
<1>2. VersionsCount'
  BY <1>1 DEF NotifThread, NotifTake, NotifQueue, NotifUnqueue, NotifRemove, VersionsCount, phoneVars
<1>3. <<>> \in Seq(SrcEvent)
  OBVIOUS
<1>4. ASSUME notifPc # "get" PROVE Head(notifEvt) \in SrcEvent /\ Head(notifEvt).uid \in Uids
  <2>1. Head(notifEvt) \in SrcEvent
    BY <1>1, <1>4 DEF EventHeld, TypeOK
  <2> QED BY <2>1 DEF SrcEvent
<1>5. CASE NotifTake
  <2>1. UNCHANGED queueVars
    BY <1>5 DEF NotifTake
  <2>2. sourceQ' \in Seq(SrcEvent) /\ Len(sourceQ') =< QueueLen /\ Head(sourceQ) \in SrcEvent
    <3>1. sourceQ # <<>> /\ sourceQ' = Tail(sourceQ)
      BY <1>5 DEF NotifTake
    <3>2. Len(Tail(sourceQ)) = Len(sourceQ) - 1 /\ Len(sourceQ) \in Nat /\ Tail(sourceQ) \in Seq(SrcEvent)
      BY <1>1, <3>1 DEF TypeOK
    <3> QED BY <1>1, <3>1, <3>2 DEF TypeOK
  <2>3. notifPc' \in {"get", "got", "rem"} /\ notifEvt' \in Seq(SrcEvent) /\ EventHeld'
    <3>1. <<Head(sourceQ)>> \in Seq(SrcEvent) /\ <<Head(sourceQ)>> # <<>>
      BY <2>2
    <3> QED BY <1>1, <1>5, <3>1 DEF NotifTake, notifVars, EventHeld, TypeOK
  <2>4. UNCHANGED <<phoneVars, queueVars, dataVars, btcVars, storeVars, dataQ,
                    lost, excused, outdated>>
    BY <1>5 DEF NotifTake
  <2>5. TypeOK'
    BY <1>1, <2>2, <2>3, <2>4 DEF TypeOK, phoneVars, queueVars, dataVars, btcVars, storeVars
  <2> QED BY <1>2, <2>1, <2>3, <2>5, QueueUnchanged DEF IInv
<1>6. CASE NotifQueue
  <2> DEFINE u == Head(notifEvt).uid
             m == Head(notifEvt).evt = "Modified"
  <2>1. u \in Uids /\ m \in BOOLEAN
    BY <1>4, <1>6 DEF NotifQueue
  <2>2. notifPc' = "get" /\ notifEvt' = <<>>
    BY <1>6 DEF NotifQueue
  <2>3. UNCHANGED <<phone, version, announced, answering, changes, abandonInFlight, dataVars,
                    btcVars, storeVars, sourceQ, dataQ, lost>>
    BY <1>6 DEF NotifQueue
  <2>4. /\ Queue' /\ InFlightIsFront'
        /\ requests' \in Seq(Uids) /\ expired' \in BOOLEAN
        /\ inFlightUid' \in Uids \cup {NoUid}
        /\ reqState' \in {"Idle", "Awaiting", "Processing"}
        /\ excused' \subseteq Uids /\ outdated' \subseteq Uids
    <3>1. CASE u \in queuedUids
      <4>1. /\ MergeModify(u, m)
            /\ outdated' = IF InFlight(u) THEN outdated \cup {u} ELSE outdated
            /\ UNCHANGED <<queuedUids, reqState, inFlightUid, expired, requests, excused>>
        BY <1>6, <3>1 DEF NotifQueue
      <4> HIDE DEF u, m
      <4>2. /\ Queue' /\ Len(needData') = Len(needData)
            /\ \A i \in DOMAIN needData : needData'[i].uid = needData[i].uid
        BY <1>1, <2>1, <4>1, MergeKeeps
      <4>3. needData # <<>> => needData' # <<>> /\ Head(needData').uid = Head(needData).uid
        <5> SUFFICES ASSUME needData # <<>>
                     PROVE  needData' # <<>> /\ Head(needData').uid = Head(needData).uid
          OBVIOUS
        <5>1. needData \in Seq(Entry) /\ needData' \in Seq(Entry)
          BY <1>1, <4>2 DEF Queue, GoodQueue
        <5>2. 1 \in DOMAIN needData /\ needData' # <<>> /\ Head(needData) = needData[1]
          BY <4>2, <5>1
        <5>3. Head(needData') = needData'[1]
          BY <5>1, <5>2
        <5> QED BY <4>2, <5>2, <5>3
      <4>4. InFlightIsFront'
        BY <1>1, <4>1, <4>3 DEF InFlightIsFront
      <4> QED BY <1>1, <2>1, <4>1, <4>2, <4>4 DEF TypeOK
    <3>2. CASE u \notin queuedUids
      <4>1. QueueNew(u, m) /\ UNCHANGED outdated
        BY <1>6, <3>2 DEF NotifQueue
      <4> HIDE DEF u, m
      <4> QED BY <1>1, <2>1, <3>2, <4>1, QueueNewKeeps DEF TypeOK
    <3> QED BY <3>1, <3>2
  <2>5. TypeOK'
    BY <1>1, <1>3, <2>2, <2>3, <2>4 DEF TypeOK, dataVars, btcVars, storeVars, Queue, GoodQueue
  <2>6. EventHeld' /\ QueueConsistent'
    BY <2>2, <2>4 DEF EventHeld, Queue, GoodQueue, QueueConsistent
  <2> QED BY <1>2, <2>4, <2>5, <2>6 DEF IInv
<1>7. CASE NotifUnqueue
  <2> DEFINE u == Head(notifEvt).uid
  <2>1. notifPc' = "rem" /\ UNCHANGED notifEvt /\ notifPc # "get"
    BY <1>7 DEF NotifUnqueue
  <2>2. UNCHANGED <<phoneVars, reqState, inFlightUid, expired, dataVars, btcVars, storeVars,
                    sourceQ, dataQ, lost, excused, outdated>>
    BY <1>7 DEF NotifUnqueue
  <2>3. ASSUME u \in queuedUids, ~InFlight(u) PROVE Queue' /\ InFlightIsFront'
    <3>1. /\ needData' = IF \E i \in DOMAIN needData : needData[i].uid = u
                           THEN RemoveAt(needData, IndexOf(needData, u))
                           ELSE needData
          /\ queuedUids' = queuedUids \ {u}
          /\ UNCHANGED abandonInFlight
      BY <1>7, <2>3 DEF NotifUnqueue
    <3> HIDE DEF u
    <3> DEFINE at == IndexOf(needData, u)
    <3>2. at \in 1..Len(needData) /\ needData[at].uid = u /\ needData' = RemoveAt(needData, at)
      BY <1>1, <2>3, <3>1, QueueFacts DEF Queue, IndexOf
    <3> HIDE DEF at
    <3>3. /\ Queue'
          /\ at # 1 => needData' # <<>> /\ Head(needData') = Head(needData)
      BY <1>1, <3>1, <3>2, RemoveEntry DEF Queue
    <3>4. inFlightUid # NoUid => at # 1
      <4>1. needData # <<>> => Head(needData) = needData[1]
        BY <1>1 DEF TypeOK
      <4> QED BY <1>1, <2>3, <3>2, <4>1 DEF InFlightIsFront, InFlight
    <3>5. InFlightIsFront'
      BY <1>1, <2>2, <3>3, <3>4 DEF InFlightIsFront
    <3> QED BY <3>3, <3>5
  <2>4. ASSUME ~(u \in queuedUids /\ ~InFlight(u)) PROVE Queue' /\ InFlightIsFront'
    <3>1. UNCHANGED <<needData, queuedUids>> /\ (abandonInFlight' = TRUE \/ UNCHANGED abandonInFlight)
      BY <1>7, <2>4 DEF NotifUnqueue
    <3> QED BY <1>1, <2>2, <3>1 DEF Queue, InFlightIsFront
  <2>5. abandonInFlight' \in BOOLEAN /\ Queue' /\ InFlightIsFront'
    <3>1. abandonInFlight' = TRUE \/ UNCHANGED abandonInFlight
      BY <1>7 DEF NotifUnqueue
    <3>2. abandonInFlight' \in BOOLEAN
      BY <1>1, <3>1 DEF TypeOK
    <3> QED BY <2>3, <2>4, <3>2
  <2>6. TypeOK'
    BY <1>1, <2>1, <2>2, <2>5
       DEF TypeOK, phoneVars, dataVars, btcVars, storeVars, Queue, GoodQueue
  <2>7. EventHeld' /\ QueueConsistent'
    BY <1>1, <2>1, <2>5 DEF EventHeld, Queue, GoodQueue, QueueConsistent
  <2> QED BY <1>2, <2>5, <2>6, <2>7 DEF IInv
<1>8. CASE NotifRemove
  <2>1. UNCHANGED queueVars /\ notifPc' = "get" /\ notifEvt' = <<>>
    BY <1>8 DEF NotifRemove
  <2>2. UNCHANGED <<phoneVars, dataVars, btcVars, current, sourceQ, dataQ, lost, excused, outdated>>
    BY <1>8 DEF NotifRemove
  <2>3. notifs' \in Seq(Shown) /\ Len(notifs') =< MaxNotifs
    BY <1>1, <1>8, EraseProps DEF NotifRemove, TypeOK
  <2>4. TypeOK'
    BY <1>1, <1>3, <2>1, <2>2, <2>3 DEF TypeOK, phoneVars, queueVars, dataVars, btcVars
  <2> QED BY <1>2, <2>1, <2>4, QueueUnchanged DEF IInv, EventHeld
<1> QED BY <1>5, <1>6, <1>7, <1>8 DEF NotifThread

(* send() of processData: the front's attributes reach the store.           *)
LEMMA SendKeeps ==
  ASSUME IInv, needData # <<>>, NEW parts \in SUBSET Packet, Send(parts)
  PROVE  /\ Queue' /\ ToIdle
         /\ notifs' \in Seq(Shown) /\ Len(notifs') =< MaxNotifs
         /\ Evicted \subseteq Uids
<1> DEFINE n == [uid |-> Head(needData).uid, parts |-> parts, empty |-> parts = {}]
<1>1. TypeOK /\ Queue
  BY QueueIs DEF IInv
<1>2. Head(needData) \in Entry
  BY <1>1 DEF TypeOK
<1>3. n \in Shown
  BY <1>2 DEF Entry, Shown
<1>4. notifs' = OnAdd(notifs, n) \/ notifs' = OnModify(notifs, n)
  BY DEF Send
<1>5. PopFront /\ ToIdle
  BY DEF Send
<1> HIDE DEF n
<1>6. Queue'
  BY <1>1, <1>5, PopFrontKeeps
<1>7. Evicted \subseteq Uids
  <2>1. \A i \in DOMAIN notifs : notifs[i] \in Shown
    BY <1>1 DEF TypeOK
  <2> QED BY <2>1 DEF Evicted, UidsOf, Shown
<1> QED BY <1>1, <1>3, <1>4, <1>5, <1>6, <1>7, StoreKeeps

LEMMA DataThreadKeeps == IInv /\ DataThread => IInv'
<1> SUFFICES ASSUME IInv, DataThread PROVE IInv'
  OBVIOUS
<1>1. TypeOK /\ Queue /\ InFlightIsFront /\ EventHeld /\ VersionsCount
  BY QueueIs DEF IInv
<1>2. EventHeld' /\ VersionsCount'
  <2>1. UNCHANGED <<notifPc, notifEvt, version, changes>>
    BY DEF DataThread, DataPump, DataTake, DataStep, notifVars, phoneVars
  <2> QED BY <1>1, <2>1 DEF EventHeld, VersionsCount
<1>3. CASE DataPump
  <2>1. PumpRequest(needData) /\ UNCHANGED <<needData, queuedUids>> /\ dataPc' = "get"
    BY <1>3 DEF DataPump
  <2>2. UNCHANGED <<phone, version, announced, answering, changes, abandonInFlight, dataHand,
                    notifVars, btcVars, storeVars, sourceQ, dataQ, lost, excused, outdated>>
    BY <1>3 DEF DataPump
  <2>3. /\ InFlightIsFront'
        /\ requests' \in Seq(Uids) /\ expired' \in BOOLEAN
        /\ inFlightUid' \in Uids \cup {NoUid}
        /\ reqState' \in {"Idle", "Awaiting", "Processing"}
    BY <1>1, <2>1, PumpKeeps DEF InFlightIsFront, TypeOK
  <2>4. TypeOK'
    BY <1>1, <2>1, <2>2, <2>3 DEF TypeOK, notifVars, btcVars, storeVars
  <2>5. QueueConsistent'
    BY <2>1 DEF IInv, QueueConsistent
  <2> QED BY <1>2, <2>3, <2>4, <2>5 DEF IInv
<1>4. CASE DataTake
  <2>1. UNCHANGED queueVars /\ dataPc' \in {"top", "got"}
    BY <1>4 DEF DataTake
  <2>2. /\ dataQ' \in Seq(Packet) /\ Len(dataQ') =< QueueLen
        /\ dataHand' \in Seq(Packet)
    <3>1. CASE dataQ = <<>>
      BY <1>1, <1>4, <3>1 DEF DataTake, TypeOK
    <3>2. CASE dataQ # <<>>
      <4>1. /\ Head(dataQ) \in Packet /\ Tail(dataQ) \in Seq(Packet)
            /\ Len(Tail(dataQ)) = Len(dataQ) - 1 /\ Len(dataQ) \in Nat
        BY <1>1, <3>2 DEF TypeOK
      <4>2. <<Head(dataQ)>> \in Seq(Packet) /\ <<>> \in Seq(Packet)
        BY <4>1
      <4> QED BY <1>1, <1>4, <3>2, <4>1, <4>2 DEF DataTake, TypeOK
    <3> QED BY <3>1, <3>2
  <2>3. UNCHANGED <<phoneVars, notifVars, btcVars, storeVars, sourceQ, lost, excused, outdated>>
    BY <1>4 DEF DataTake
  <2>4. TypeOK'
    BY <1>1, <2>1, <2>2, <2>3 DEF TypeOK, phoneVars, queueVars, notifVars, btcVars, storeVars
  <2> QED BY <1>2, <2>1, <2>4, QueueUnchanged DEF IInv
<1>5. CASE DataStep
  <2>1. dataPc' = "top" /\ dataHand' = <<>> /\ <<>> \in Seq(Packet)
        /\ UNCHANGED <<phoneVars, notifVars, btcVars, current, sourceQ, dataQ, lost, outdated>>
    BY <1>5 DEF DataStep
  <2> DEFINE Kept ==
        /\ Queue' /\ InFlightIsFront'
        /\ reqState' \in {"Idle", "Awaiting", "Processing"}
        /\ inFlightUid' \in Uids \cup {NoUid}
        /\ abandonInFlight' \in BOOLEAN /\ expired' \in BOOLEAN
        /\ notifs' \in Seq(Shown) /\ Len(notifs') =< MaxNotifs
        /\ excused' \subseteq Uids
  <2>2. ASSUME UNCHANGED <<queueVars, notifs, excused>> PROVE Kept
    <3>1. InFlightIsFront' /\ Queue'
      BY <1>1, <2>2, QueueUnchanged DEF queueVars, Queue
    <3> QED BY <1>1, <2>2, <3>1 DEF queueVars, TypeOK
  <2>3. ASSUME ToIdle, Queue', notifs' \in Seq(Shown), Len(notifs') =< MaxNotifs,
               excused' \subseteq Uids
        PROVE  Kept
    <3>1. InFlightIsFront'
      BY <2>3 DEF ToIdle, InFlightIsFront
    <3> QED BY <1>1, <2>3, <3>1 DEF ToIdle, TypeOK
  <2>4. \A i \in DOMAIN needData : needData[i].uid \in Uids
    BY <1>1, QueueFacts DEF Queue
  <2>5. needData # <<>> => Head(needData) \in Entry /\ Head(needData) = needData[1]
                           /\ 1 \in 1..Len(needData)
    BY <1>1 DEF TypeOK
  <2>6. needData # <<>> => Head(needData).uid \in Uids /\ Head(needData).parts \subseteq Packet
    BY <2>5 DEF Entry
  <2>7. ASSUME DataDrop PROVE Kept
    <3>1. PopFront /\ ToIdle /\ UNCHANGED notifs
          /\ excused' = excused \cup {needData[i].uid : i \in DOMAIN needData \cap {1}}
      BY <2>7 DEF DataDrop, DropInFlight
    <3>2. Queue'
      BY <1>1, <3>1, PopFrontKeeps
    <3>3. excused' \subseteq Uids
      BY <1>1, <2>4, <3>1 DEF TypeOK
    <3> QED BY <1>1, <2>3, <3>1, <3>2, <3>3 DEF TypeOK
  <2>8. ASSUME needData # <<>>, NEW parts \in SUBSET Packet, Send(parts),
               excused' = excused \cup {Head(needData).uid} \cup Evicted
               \/ excused' = excused \cup Evicted
        PROVE  Kept
    <3>1. /\ Queue' /\ ToIdle
          /\ notifs' \in Seq(Shown) /\ Len(notifs') =< MaxNotifs
          /\ Evicted \subseteq Uids
      BY <2>8, SendKeeps
    <3>2. excused' \subseteq Uids
      BY <1>1, <2>6, <2>8, <3>1 DEF TypeOK
    <3> QED BY <2>3, <3>1, <3>2
  <2>9. ASSUME needData = <<>>, ToIdle, UNCHANGED <<needData, queuedUids, notifs, excused>>
        PROVE  Kept
    <3>1. Queue'
      BY <1>1, <2>9 DEF Queue
    <3> QED BY <1>1, <2>3, <2>9, <3>1 DEF TypeOK
  <2>10. ASSUME DataSalvage PROVE Kept
    <3>1. CASE needData = <<>>
      <4>1. ToIdle /\ UNCHANGED <<needData, queuedUids, notifs, excused>>
        BY <2>10, <3>1 DEF DataSalvage
      <4> QED BY <2>9, <3>1, <4>1
    <3>2. CASE needData # <<>>
      <4>1. /\ Send(Head(needData).parts)
            /\ excused' = excused \cup {Head(needData).uid} \cup Evicted
        BY <2>10, <3>2 DEF DataSalvage
      <4> HIDE DEF Kept
      <4> QED BY <2>6, <2>8, <3>2, <4>1
    <3> QED BY <3>1, <3>2
  <2>11. ASSUME NEW p \in Packet, Parse(p) PROVE Kept
    <3>1. CASE needData = <<>>
      <4>1. ToIdle /\ UNCHANGED <<needData, queuedUids, notifs, excused>>
        BY <2>11, <3>1 DEF Parse
      <4> QED BY <2>9, <3>1, <4>1
    <3>2. CASE needData # <<>> /\ reqState # "Processing" /\ ~IsHeader(p, Head(needData).uid)
      <4>1. UNCHANGED <<queueVars, notifs, excused>>
        BY <2>11, <3>2 DEF Parse
      <4> QED BY <2>2, <4>1
    <3>3. CASE needData # <<>> /\ ~(reqState # "Processing" /\ ~IsHeader(p, Head(needData).uid))
      <4>1. CASE p.part = "tail"
        <5>1. Send(Head(needData).parts \cup {p}) /\ excused' = excused \cup Evicted
          BY <2>11, <3>3, <4>1 DEF Parse
        <5>2. Head(needData).parts \cup {p} \in SUBSET Packet
          BY <2>6, <3>3
        <5> HIDE DEF Kept
        <5> QED BY <2>8, <3>3, <5>1, <5>2
      <4>2. CASE p.part # "tail"
        <5>1. /\ needData' = [needData EXCEPT ![1].parts = @ \cup {p}]
              /\ reqState' = "Processing"
              /\ UNCHANGED <<queuedUids, inFlightUid, abandonInFlight, expired, notifs, excused>>
          BY <2>11, <3>3, <4>2 DEF Parse
        <5>2. /\ needData' \in Seq(Entry) /\ Len(needData') = Len(needData)
              /\ DOMAIN needData' = DOMAIN needData /\ needData' # <<>>
              /\ \A i \in DOMAIN needData : needData'[i].uid = needData[i].uid
          <6> DEFINE e == [needData[1] EXCEPT !.parts = @ \cup {p}]
          <6>1. e \in Entry /\ e.uid = needData[1].uid
            BY <2>5, <3>3 DEF Entry
          <6>2. needData' = [needData EXCEPT ![1] = e]
            BY <5>1
          <6> HIDE DEF e
          <6>3. needData \in Seq(Entry) /\ 1 \in 1..Len(needData)
            BY <1>1, <2>5, <3>3 DEF TypeOK
          <6> QED BY <6>1, <6>2, <6>3
        <5>3. Distinct(needData') /\ UidsOf(needData') = UidsOf(needData)
          BY <1>1, <5>2 DEF Queue, GoodQueue, Distinct, UidsOf
        <5>4. Queue'
          BY <1>1, <5>1, <5>2, <5>3 DEF Queue, GoodQueue
        <5>5. Head(needData').uid = Head(needData).uid
          <6>1. Head(needData') = needData'[1]
            BY <5>2
          <6> QED BY <2>5, <3>3, <5>2, <6>1
        <5>6. InFlightIsFront'
          BY <1>1, <5>1, <5>2, <5>5 DEF InFlightIsFront
        <5> QED BY <1>1, <5>1, <5>4, <5>6 DEF TypeOK
      <4> QED BY <4>1, <4>2
    <3> QED BY <3>1, <3>2, <3>3
  <2>12. Kept
    <3>1. CASE DataNothing
      <4>1. UNCHANGED <<queueVars, notifs, excused>>
        BY <3>1 DEF DataNothing
      <4> QED BY <2>2, <4>1
    <3>2. CASE DataPacket
      <4>1. Head(dataHand) \in Packet /\ Parse(Head(dataHand))
        BY <1>1, <3>2 DEF DataPacket, TypeOK
      <4> HIDE DEF Kept
      <4> QED BY <2>11, <4>1
    <3> HIDE DEF Kept
    <3> QED BY <1>5, <2>7, <2>10, <3>1, <3>2 DEF DataStep
  <2>13. TypeOK'
    BY <1>1, <2>1, <2>12 DEF TypeOK, phoneVars, notifVars, btcVars, Queue, GoodQueue
  <2>14. QueueConsistent' /\ InFlightIsFront'
    BY <2>12 DEF Queue, GoodQueue, QueueConsistent
  <2> HIDE DEF Kept
  <2> QED BY <1>2, <2>13, <2>14 DEF IInv
<1> QED BY <1>3, <1>4, <1>5 DEF DataThread

-----------------------------------------------------------------------------

\* A step that changes nothing.
LEMMA StutterKeeps == IInv /\ UNCHANGED vars => IInv'
<1> SUFFICES ASSUME IInv, UNCHANGED vars PROVE IInv'
  OBVIOUS
<1>1. UNCHANGED queueVars /\ UNCHANGED <<notifPc, notifEvt, version, changes>>
  BY DEF vars, notifVars, phoneVars
<1>2. TypeOK'
  BY DEF IInv, TypeOK, vars, phoneVars, queueVars, notifVars, dataVars, btcVars, storeVars
<1> QED BY <1>1, <1>2, QueueUnchanged DEF IInv, EventHeld, VersionsCount

\* IInv is inductive: it holds of every state of every run.
THEOREM Inductive == Spec => []IInv
<1>1. IInv /\ [Next]_vars => IInv'
  BY PhoneKeeps, BtcKeeps, NotifKeeps, DataThreadKeeps, ExpiresKeeps, StutterKeeps DEF Next
<1> QED BY InitOK, <1>1, PTL DEF Spec

\* The variables of the pipeline stay in their types: no queue of the
\* characteristics and no store of the phone outgrows its limit.
THEOREM TypeCorrect == Spec => []TypeOK
<1>1. IInv => TypeOK
  BY DEF IInv
<1> QED BY <1>1, Inductive, PTL

\* needData and queuedUids agree, without duplicates and within MaxQueued, in
\* whatever order the threads take the locked sections of Client.cpp.
THEOREM QueueIsConsistent == Spec => []QueueConsistent
<1>1. IInv => QueueConsistent
  BY DEF IInv
<1> QED BY <1>1, Inductive, PTL

\* The uid in flight is the front of needData: what dropInFlight and send pop
\* is the entry whose attributes were requested.
THEOREM RequestIsFront == Spec => []InFlightIsFront
<1>1. IInv => InFlightIsFront
  BY DEF IInv
<1> QED BY <1>1, Inductive, PTL

\* The whole of it, as the runs check it: the pipeline stays consistent.
THEOREM PipelineConsistent == Spec => []Inv
<1>1. IInv => Inv
  BY DEF IInv, Inv
<1> QED BY <1>1, Inductive, PTL

-----------------------------------------------------------------------------
(* Mirrored needs to know what is on its way: the packets the watch has     *)
(* still to parse, the events it has still to handle, and the uids that no  *)
(* limit, timeout or lost packet excuses.                                   *)
Stream == dataHand \o dataQ \o answering
Held   == notifEvt \o sourceQ
Spared == Uids \ (excused \cup lost)

HasPacket(T, u)     == \E i \in DOMAIN T : T[i].uid = u
HasPart(T, part, u) == \E i \in DOMAIN T : T[i].uid = u /\ T[i].part = part
InSeq(s, u)         == \E i \in DOMAIN s : s[i] = u

\* Each part of a reply once, each request once.
Once(T, u)   == \A i, j \in DOMAIN T : T[i].uid = u /\ T[j].uid = u /\ T[i].part = T[j].part => i = j
OnceIn(s, u) == \A i, j \in DOMAIN s : s[i] = u /\ s[j] = u => i = j

\* A head is followed by its tail, unless a packet of that uid was lost.
Paired(T, L) == \A i \in DOMAIN T :
  T[i].part = "head" /\ T[i].uid \notin L =>
    i + 1 \in DOMAIN T /\ T[i + 1].part = "tail" /\ T[i + 1].uid = T[i].uid

\* What has been asked of u: requests rq, packets T, and the request in flight.
Asked(T, rq, r, f, u) ==
  /\ HasPacket(T, u) \/ InSeq(rq, u) => f = u
  /\ Once(T, u)
  /\ OnceIn(rq, u)
  /\ InSeq(rq, u) => ~HasPacket(T, u)
  /\ r = "Processing" /\ f = u => ~InSeq(rq, u) /\ ~HasPart(T, "head", u)

-----------------------------------------------------------------------------
(* Lemmas on sequences: s is t without its first k elements and some at the end. *)

Within(s, t, k) ==
  \A i \in DOMAIN s : i \in Nat /\ i + k \in DOMAIN t /\ s[i] = t[i + k]

LEMMA WithinHas ==
  ASSUME NEW s, NEW t, NEW k \in Nat, Within(s, t, k), NEW u
  PROVE  /\ HasPacket(s, u) => HasPacket(t, u)
         /\ \A part : HasPart(s, part, u) => HasPart(t, part, u)
         /\ InSeq(s, u) => InSeq(t, u)
BY DEF Within, HasPacket, HasPart, InSeq

LEMMA WithinOnce ==
  ASSUME NEW s, NEW t, NEW k \in Nat, Within(s, t, k), NEW u
  PROVE  /\ Once(t, u) => Once(s, u)
         /\ OnceIn(t, u) => OnceIn(s, u)
<1>1. \A i, j \in DOMAIN s : i + k = j + k => i = j
  BY DEF Within
<1>2. ASSUME Once(t, u) PROVE Once(s, u)
  <2> SUFFICES ASSUME NEW i \in DOMAIN s, NEW j \in DOMAIN s,
                      s[i].uid = u, s[j].uid = u, s[i].part = s[j].part
               PROVE  i = j
    BY DEF Once
  <2>1. i + k \in DOMAIN t /\ j + k \in DOMAIN t /\ s[i] = t[i + k] /\ s[j] = t[j + k]
    BY DEF Within
  <2>2. i + k = j + k
    BY <1>2, <2>1 DEF Once
  <2> QED BY <1>1, <2>2
<1>3. ASSUME OnceIn(t, u) PROVE OnceIn(s, u)
  <2> SUFFICES ASSUME NEW i \in DOMAIN s, NEW j \in DOMAIN s, s[i] = u, s[j] = u
               PROVE  i = j
    BY DEF OnceIn
  <2>1. i + k \in DOMAIN t /\ j + k \in DOMAIN t /\ s[i] = t[i + k] /\ s[j] = t[j + k]
    BY DEF Within
  <2>2. i + k = j + k
    BY <1>3, <2>1 DEF OnceIn
  <2> QED BY <1>1, <2>2
<1> QED BY <1>2, <1>3

LEMMA TailIs ==
  ASSUME NEW S, NEW t \in Seq(S), t # <<>>
  PROVE  /\ Tail(t) \in Seq(S) /\ Head(t) = t[1] /\ 1 \in DOMAIN t /\ Head(t) \in S
         /\ Len(t) \in Nat /\ Len(Tail(t)) = Len(t) - 1
         /\ DOMAIN t = 1..Len(t) /\ DOMAIN Tail(t) = 1..(Len(t) - 1)
         /\ \A i \in DOMAIN Tail(t) : i \in Nat /\ i + 1 \in DOMAIN t /\ Tail(t)[i] = t[i + 1]
         /\ Within(Tail(t), t, 1)
BY DEF Within

LEMMA AppendIs ==
  ASSUME NEW S, NEW s \in Seq(S), NEW e \in S
  PROVE  /\ Append(s, e) \in Seq(S) /\ Append(s, e) # <<>>
         /\ Len(s) \in Nat /\ Len(Append(s, e)) = Len(s) + 1
         /\ DOMAIN s = 1..Len(s) /\ DOMAIN Append(s, e) = 1..(Len(s) + 1)
         /\ \A i \in DOMAIN s : i \in DOMAIN Append(s, e) /\ Append(s, e)[i] = s[i]
         /\ Append(s, e)[Len(s) + 1] = e
         /\ Within(s, Append(s, e), 0)
<1>1. /\ Append(s, e) \in Seq(S) /\ Len(Append(s, e)) = Len(s) + 1
      /\ \A i \in 1..Len(s) : Append(s, e)[i] = s[i]
      /\ Append(s, e)[Len(s) + 1] = e
  BY AppendProperties
<1> DEFINE a == Append(s, e)
<1> HIDE DEF a
<1>2. a \in Seq(S) /\ Len(a) = Len(s) + 1 /\ (\A i \in 1..Len(s) : a[i] = s[i]) /\ a[Len(s) + 1] = e
  BY <1>1 DEF a
<1>3. Len(s) \in Nat /\ DOMAIN s = 1..Len(s) /\ DOMAIN a = 1..(Len(s) + 1) /\ a # <<>>
  BY <1>2
<1>4. Within(s, a, 0)
  BY <1>2, <1>3 DEF Within
<1> QED BY <1>2, <1>3, <1>4 DEF a

LEMMA AppendHas ==
  ASSUME NEW S, NEW s \in Seq(S), NEW e \in S, NEW u
  PROVE  /\ HasPacket(Append(s, e), u) <=> (HasPacket(s, u) \/ e.uid = u)
         /\ \A part : HasPart(Append(s, e), part, u) <=> (HasPart(s, part, u) \/ (e.uid = u /\ e.part = part))
         /\ InSeq(Append(s, e), u) <=> (InSeq(s, u) \/ e = u)
<1> DEFINE a == Append(s, e)
           n == Len(s)
<1>1. /\ n \in Nat /\ DOMAIN s = 1..n /\ DOMAIN a = 1..(n + 1)
      /\ (\A i \in DOMAIN s : i \in DOMAIN a /\ a[i] = s[i]) /\ a[n + 1] = e
  BY AppendIs
<1> HIDE DEF a, n
<1>2. n + 1 \in DOMAIN a /\ \A i \in DOMAIN a : i \in DOMAIN s \/ i = n + 1
  BY <1>1
<1> QED BY <1>1, <1>2 DEF HasPacket, HasPart, InSeq, a

LEMMA AppendOnce ==
  ASSUME NEW S, NEW s \in Seq(S), NEW e \in S, NEW u
  PROVE  /\ Once(s, u) /\ ~(e.uid = u /\ HasPart(s, e.part, u)) => Once(Append(s, e), u)
         /\ OnceIn(s, u) /\ ~(e = u /\ InSeq(s, u)) => OnceIn(Append(s, e), u)
<1> DEFINE a == Append(s, e)
           n == Len(s)
<1>1. /\ n \in Nat /\ DOMAIN s = 1..n /\ DOMAIN a = 1..(n + 1)
      /\ (\A i \in DOMAIN s : i \in DOMAIN a /\ a[i] = s[i]) /\ a[n + 1] = e
  BY AppendIs
<1> HIDE DEF a, n
<1>2. n + 1 \in DOMAIN a /\ \A i \in DOMAIN a : i \in DOMAIN s \/ i = n + 1
  BY <1>1
<1>3. ASSUME Once(s, u), ~(e.uid = u /\ HasPart(s, e.part, u)) PROVE Once(a, u)
  BY <1>1, <1>2, <1>3 DEF Once, HasPart
<1>4. ASSUME OnceIn(s, u), ~(e = u /\ InSeq(s, u)) PROVE OnceIn(a, u)
  BY <1>1, <1>2, <1>4 DEF OnceIn, InSeq
<1> QED BY <1>3, <1>4 DEF a

LEMMA PairedMore ==
  ASSUME NEW T, NEW L, NEW M, L \subseteq M, Paired(T, L)
  PROVE  Paired(T, M)
BY DEF Paired

LEMMA PairedTail ==
  ASSUME NEW T \in Seq(Packet), T # <<>>, NEW L, Paired(T, L)
  PROVE  Paired(Tail(T), L)
<1> DEFINE S == Tail(T)
<1>1. /\ Len(T) \in Nat /\ DOMAIN T = 1..Len(T) /\ DOMAIN S = 1..(Len(T) - 1)
      /\ \A i \in DOMAIN S : i \in Nat /\ i + 1 \in DOMAIN T /\ S[i] = T[i + 1]
  BY TailIs
<1> HIDE DEF S
<1>2. SUFFICES ASSUME NEW i \in DOMAIN S, S[i].part = "head", S[i].uid \notin L
               PROVE  i + 1 \in DOMAIN S /\ S[i + 1].part = "tail" /\ S[i + 1].uid = S[i].uid
  BY DEF Paired, S
<1>3. i + 1 \in DOMAIN T /\ T[i + 1].part = "head" /\ T[i + 1].uid \notin L
  BY <1>1, <1>2
<1>4. i + 1 + 1 \in DOMAIN T /\ T[i + 1 + 1].part = "tail" /\ T[i + 1 + 1].uid = T[i + 1].uid
  BY <1>3 DEF Paired
<1>5. i + 1 \in DOMAIN S
  BY <1>1, <1>4
<1> QED BY <1>1, <1>4, <1>5

LEMMA PairedAppend ==
  ASSUME NEW T \in Seq(Packet), NEW e \in Packet, e.part = "tail", NEW L, Paired(T, L)
  PROVE  Paired(Append(T, e), L)
<1> DEFINE a == Append(T, e)
           n == Len(T)
<1>1. /\ n \in Nat /\ DOMAIN T = 1..n /\ DOMAIN a = 1..(n + 1)
      /\ (\A i \in DOMAIN T : i \in DOMAIN a /\ a[i] = T[i]) /\ a[n + 1] = e
  BY AppendIs
<1> HIDE DEF a, n
<1>2. SUFFICES ASSUME NEW i \in DOMAIN a, a[i].part = "head", a[i].uid \notin L
               PROVE  i + 1 \in DOMAIN a /\ a[i + 1].part = "tail" /\ a[i + 1].uid = a[i].uid
  BY DEF Paired, a
<1>3. i \in DOMAIN T
  BY <1>1, <1>2
<1>4. i + 1 \in DOMAIN T /\ T[i + 1].part = "tail" /\ T[i + 1].uid = T[i].uid
  BY <1>1, <1>2, <1>3 DEF Paired
<1> QED BY <1>1, <1>3, <1>4

LEMMA PairedReply ==
  ASSUME NEW T \in Seq(Packet), NEW h \in Packet, NEW t \in Packet,
         t.part = "tail", t.uid = h.uid, NEW L, Paired(T, L)
  PROVE  Paired(Append(Append(T, h), t), L)
<1> DEFINE a == Append(T, h)
           b == Append(a, t)
           n == Len(T)
<1>1. /\ n \in Nat /\ DOMAIN T = 1..n /\ DOMAIN a = 1..(n + 1) /\ a \in Seq(Packet) /\ Len(a) = n + 1
      /\ (\A i \in DOMAIN T : i \in DOMAIN a /\ a[i] = T[i]) /\ a[n + 1] = h
  BY AppendIs
<1> HIDE DEF a
<1>2. /\ DOMAIN b = 1..(n + 1 + 1)
      /\ (\A i \in DOMAIN a : i \in DOMAIN b /\ b[i] = a[i]) /\ b[n + 1 + 1] = t
  BY <1>1, AppendIs
<1> HIDE DEF b, n
<1>3. SUFFICES ASSUME NEW i \in DOMAIN b, b[i].part = "head", b[i].uid \notin L
               PROVE  i + 1 \in DOMAIN b /\ b[i + 1].part = "tail" /\ b[i + 1].uid = b[i].uid
  BY DEF Paired, a, b
<1>4. CASE i \in DOMAIN T
  <2>1. i + 1 \in DOMAIN T /\ T[i + 1].part = "tail" /\ T[i + 1].uid = T[i].uid
    BY <1>1, <1>2, <1>3, <1>4 DEF Paired
  <2> QED BY <1>1, <1>2, <1>4, <2>1
<1>5. CASE i = n + 1
  BY <1>1, <1>2, <1>5
<1>6. i \in DOMAIN T \/ i = n + 1
  <2>1. i # n + 1 + 1
    BY <1>2, <1>3
  <2> QED BY <1>1, <1>2, <2>1
<1> QED BY <1>4, <1>5, <1>6

LEMMA PairedDrop ==
  ASSUME NEW T \in Seq(Packet), NEW e \in Packet, e.part = "tail", NEW L, Paired(Append(T, e), L)
  PROVE  Paired(T, L \cup {e.uid})
<1> DEFINE a == Append(T, e)
           n == Len(T)
<1>1. /\ n \in Nat /\ DOMAIN T = 1..n /\ DOMAIN a = 1..(n + 1)
      /\ (\A i \in DOMAIN T : i \in DOMAIN a /\ a[i] = T[i]) /\ a[n + 1] = e
  BY AppendIs
<1> HIDE DEF a, n
<1>2. SUFFICES ASSUME NEW i \in DOMAIN T, T[i].part = "head", T[i].uid \notin L, T[i].uid # e.uid
               PROVE  i + 1 \in DOMAIN T /\ T[i + 1].part = "tail" /\ T[i + 1].uid = T[i].uid
  BY DEF Paired
<1>3. i + 1 \in DOMAIN a /\ a[i + 1].part = "tail" /\ a[i + 1].uid = T[i].uid
  BY <1>1, <1>2 DEF Paired, a
<1>4. i + 1 # n + 1
  BY <1>1, <1>2, <1>3
<1>5. i + 1 \in DOMAIN T
  BY <1>1, <1>3, <1>4
<1> QED BY <1>1, <1>3, <1>5

-----------------------------------------------------------------------------
(* Asked of u stays true when packets or requests go, whatever is in flight;*)
(* and when nothing of u was under way, whatever comes next.                *)

LEMMA AskedLess ==
  ASSUME NEW T, NEW T2, NEW k \in Nat, Within(T2, T, k),
         NEW rq, NEW rq2, NEW m \in Nat, Within(rq2, rq, m),
         NEW r, NEW f, NEW u, Asked(T, rq, r, f, u)
  PROVE  /\ Asked(T2, rq2, r, f, u)
         /\ f # u => \A r2, f2 : Asked(T2, rq2, r2, f2, u)
<1>1. /\ HasPacket(T2, u) => HasPacket(T, u)
      /\ HasPart(T2, "head", u) => HasPart(T, "head", u)
      /\ InSeq(rq2, u) => InSeq(rq, u)
  BY WithinHas
<1>2. Once(T2, u) /\ OnceIn(rq2, u)
  BY WithinOnce DEF Asked
<1>3. Asked(T2, rq2, r, f, u)
  BY <1>1, <1>2, Zenon DEF Asked
<1>4. ASSUME f # u, NEW r2, NEW f2 PROVE Asked(T2, rq2, r2, f2, u)
  <2>1. ~HasPacket(T, u) /\ ~InSeq(rq, u)
    BY <1>4 DEF Asked
  <2>2. ~HasPacket(T2, u) /\ ~InSeq(rq2, u)
    BY <1>1, <2>1
  <2>3. ~HasPart(T2, "head", u)
    BY <2>2 DEF HasPart, HasPacket
  <2> QED BY <1>2, <2>2, <2>3, Zenon DEF Asked
<1> QED BY <1>3, <1>4

LEMMA WithinSelf ==
  ASSUME NEW S, NEW s \in Seq(S)
  PROVE  Within(s, s, 0)
BY DEF Within

LEMMA AskedOther ==
  ASSUME NEW T \in Seq(Packet), NEW e \in Packet, NEW rq, NEW r, NEW f, NEW u, e.uid # u,
         Asked(T, rq, r, f, u)
  PROVE  Asked(Append(T, e), rq, r, f, u)
<1>1. /\ HasPacket(Append(T, e), u) <=> HasPacket(T, u)
      /\ HasPart(Append(T, e), "head", u) <=> HasPart(T, "head", u)
  BY AppendHas
<1>2. Once(Append(T, e), u)
  BY AppendOnce DEF Asked
<1> QED BY <1>1, <1>2, Zenon DEF Asked

(* A request is written for f2; nothing of u was under way.                 *)
LEMMA AskedPump ==
  ASSUME NEW T, NEW rq \in Seq(Uids), NEW r, NEW f, NEW u, NEW f2 \in Uids, f # u,
         Asked(T, rq, r, f, u)
  PROVE  Asked(T, Append(rq, f2), "Awaiting", f2, u)
<1>1. ~HasPacket(T, u) /\ ~InSeq(rq, u) /\ Once(T, u) /\ OnceIn(rq, u)
  BY DEF Asked
<1>2. InSeq(Append(rq, f2), u) => f2 = u
  BY <1>1, AppendHas
<1>3. OnceIn(Append(rq, f2), u)
  BY <1>1, AppendOnce
<1> QED BY <1>1, <1>2, <1>3 DEF Asked

LEMMA TailWithout ==
  ASSUME NEW S, NEW s \in Seq(S), s # <<>>, OnceIn(s, Head(s))
  PROVE  ~InSeq(Tail(s), Head(s))
BY TailIs DEF OnceIn, InSeq

(* The phone answers the first request with both packets.                   *)
LEMMA AskedReply ==
  ASSUME NEW T \in Seq(Packet), NEW rq \in Seq(Uids), rq # <<>>, NEW r, NEW f, NEW u,
         NEW h \in Packet, NEW t \in Packet, h.uid = Head(rq), t.uid = Head(rq),
         h.part = "head", t.part = "tail", Asked(T, rq, r, f, u)
  PROVE  Asked(Append(Append(T, h), t), Tail(rq), r, f, u)
<1>1. Append(T, h) \in Seq(Packet)
  BY AppendIs
<1>2. Within(Tail(rq), rq, 1) /\ Within(T, T, 0)
  BY TailIs, WithinSelf
<1>3. Asked(T, Tail(rq), r, f, u)
  BY <1>2, AskedLess
<1>4. CASE u # Head(rq)
  <2>1. Asked(Append(T, h), Tail(rq), r, f, u)
    BY <1>3, <1>4, AskedOther
  <2> QED BY <1>1, <1>4, <2>1, AskedOther
<1>5. CASE u = Head(rq)
  <2>1. InSeq(rq, u)
    BY <1>5, TailIs DEF InSeq
  <2>2. f = u /\ ~HasPacket(T, u) /\ r # "Processing" /\ OnceIn(rq, u) /\ Once(T, u)
    BY <2>1 DEF Asked
  <2>3. ~InSeq(Tail(rq), u) /\ OnceIn(Tail(rq), u)
    BY <1>3, <1>5, <2>2, TailWithout DEF Asked
  <2>4. ~HasPart(T, "head", u) /\ ~HasPart(T, "tail", u)
    BY <2>2 DEF HasPart, HasPacket
  <2>5. Once(Append(T, h), u)
    BY <2>2, <2>4, AppendOnce
  <2>6. ~HasPart(Append(T, h), "tail", u)
    BY <2>4, AppendHas, SMTT(30)
  <2>7. Once(Append(Append(T, h), t), u)
    BY <1>1, <2>5, <2>6, AppendOnce
  <2> QED BY <2>2, <2>3, <2>7 DEF Asked
<1> QED BY <1>4, <1>5

(* The watch takes the head of the reply it waits for.                      *)
LEMMA HeadGone ==
  ASSUME NEW T \in Seq(Packet), T # <<>>, Once(T, Head(T).uid)
  PROVE  ~HasPart(Tail(T), Head(T).part, Head(T).uid)
BY TailIs DEF Once, HasPart

LEMMA AskedHead ==
  ASSUME NEW T \in Seq(Packet), T # <<>>, NEW rq \in Seq(Uids), NEW r, NEW f, NEW u,
         f = u => r = "Processing" \/ (Head(T).part = "head" /\ Head(T).uid = u),
         Asked(T, rq, r, f, u)
  PROVE  Asked(Tail(T), rq, "Processing", f, u)
<1>1. Within(Tail(T), T, 1) /\ Within(rq, rq, 0)
  BY TailIs, WithinSelf
<1>2. Asked(Tail(T), rq, r, f, u) /\ (f # u => \A r2, f2 : Asked(Tail(T), rq, r2, f2, u))
  BY <1>1, AskedLess
<1>3. CASE f # u \/ r = "Processing"
  BY <1>2, <1>3
<1>4. CASE Head(T).part = "head" /\ Head(T).uid = u
  <2>1. ~HasPart(Tail(T), "head", u)
    BY <1>4, HeadGone DEF Asked
  <2>2. HasPacket(T, u)
    BY <1>4, TailIs DEF HasPacket
  <2>3. ~InSeq(rq, u)
    BY <2>2 DEF Asked
  <2> QED BY <1>2, <2>1, <2>3 DEF Asked
<1> QED BY <1>3, <1>4

(* The tail of the reply in flight is the last packet of that uid.          *)
LEMMA AskedSent ==
  ASSUME NEW T \in Seq(Packet), T # <<>>, NEW rq \in Seq(Uids), NEW f, NEW u \in Uids,
         f = u => Head(T).part = "tail" /\ Head(T).uid = u,
         Asked(T, rq, "Processing", f, u)
  PROVE  Asked(Tail(T), rq, "Idle", NoUid, u)
<1>1. Within(Tail(T), T, 1) /\ Within(rq, rq, 0)
  BY TailIs, WithinSelf
<1>2. CASE f # u
  BY <1>1, <1>2, AskedLess
<1>3. CASE f = u
  <2>1. ~HasPart(Tail(T), "tail", u)
    BY <1>3, HeadGone DEF Asked
  <2>2. ~InSeq(rq, u) /\ ~HasPart(T, "head", u) /\ Asked(Tail(T), rq, "Processing", f, u)
    BY <1>1, <1>3, AskedLess DEF Asked
  <2>3. ~HasPart(Tail(T), "head", u)
    BY <1>1, <2>2, WithinHas
  <2>4. ~HasPacket(Tail(T), u)
    <3>1. \A i \in DOMAIN Tail(T) : Tail(T)[i].part \in {"head", "tail"}
      <4>1. \A i \in DOMAIN T : T[i] \in Packet
        OBVIOUS
      <4>2. \A i \in DOMAIN Tail(T) : i + 1 \in DOMAIN T /\ Tail(T)[i] = T[i + 1]
        BY TailIs
      <4>3. \A i \in DOMAIN Tail(T) : Tail(T)[i] \in Packet
        BY <4>1, <4>2
      <4>4. \A p \in Packet : p.part \in {"head", "tail"}
        BY DEF Packet
      <4> QED BY <4>3, <4>4
    <3> QED BY <2>1, <2>3, <3>1 DEF HasPacket, HasPart
  <2> QED BY <2>2, <2>4 DEF Asked
<1> QED BY <1>2, <1>3

-----------------------------------------------------------------------------
(* What the BTC task leaves behind, and what the two threads hold.          *)

\* Only an open session has packets under way, but for one in hand, which is
\* then counted as lost; what was requested ends with the session.
Flushed ==
  /\ btc # "up" => sourceQ = <<>> /\ dataQ = <<>> /\ answering = <<>> /\ announced = {}
  /\ btc \notin {"up", "joining"} => requests = <<>>
  /\ btc # "up" => \A i \in DOMAIN dataHand : dataHand[i].uid \in lost
  /\ btc \in {"cleared", "left", "down"} => inFlightUid = NoUid
  /\ connected <=> btc \notin {"down", "left"}

\* A thread holds one packet or event, and only while it handles it.
Hands ==
  /\ dataHand = <<>> \/ (dataPc = "got" /\ Len(dataHand) = 1)
  /\ answering = <<>> \/ (Len(answering) = 1 /\ answering[1].part = "tail")
  /\ (notifPc = "get" /\ notifEvt = <<>>) \/ (notifPc # "get" /\ Len(notifEvt) = 1)
  /\ notifPc = "rem" => notifEvt[1].evt = "Removed"

LEMMA PumpIs ==
  ASSUME NEW nd, PumpRequest(nd)
  PROVE  \/ /\ reqState = "Idle" /\ nd # <<>> /\ CtrlOpen
            /\ requests' = Append(requests, Head(nd).uid)
            /\ inFlightUid' = Head(nd).uid /\ reqState' = "Awaiting"
         \/ /\ ~(reqState = "Idle" /\ nd # <<>> /\ CtrlOpen)
            /\ UNCHANGED <<requests, inFlightUid, reqState>>
BY DEF PumpRequest

\* What the queue and the request do in a step of the two threads.
LEMMA RequestsGrow ==
  ASSUME NotifThread \/ DataThread
  PROVE  /\ UNCHANGED <<phone, version, announced, answering, changes, btc, connected, sessions, lost>>
         /\ ~CtrlOpen => UNCHANGED requests /\ (inFlightUid' = inFlightUid \/ inFlightUid' = NoUid)
<1>1. CASE NotifThread
  BY <1>1 DEF NotifThread, NotifTake, NotifQueue, NotifUnqueue, NotifRemove, QueueNew, PumpRequest,
              phoneVars, queueVars, btcVars
<1>2. CASE DataPump \/ DataTake
  BY <1>2 DEF DataPump, DataTake, PumpRequest, phoneVars, queueVars, btcVars
<1>3. CASE DataStep
  <2>1. UNCHANGED <<phoneVars, btcVars, lost>>
    BY <1>3 DEF DataStep
  <2>2. inFlightUid' = inFlightUid \/ inFlightUid' = NoUid
    BY <1>3 DEF DataStep, DataDrop, DataSalvage, DataNothing, DataPacket, Parse, Send, DropInFlight,
                ToIdle, queueVars
  <2> QED BY <2>1, <2>2 DEF phoneVars, btcVars
<1> QED BY <1>1, <1>2, <1>3 DEF DataThread

LEMMA FlushedKeeps == IInv /\ Flushed /\ Hands /\ Next => Flushed'
<1> SUFFICES ASSUME IInv, Flushed, Hands, Next PROVE Flushed'
  OBVIOUS
<1>1. CASE PhoneNext
  <2>1. UNCHANGED <<btc, connected, inFlightUid, dataHand>> /\ lost \subseteq lost'
    BY <1>1 DEF PhoneNext, Answer, PhoneAdds, PhoneModifies, PhoneRemoves, Announce, Change, Source, Data,
                queueVars, dataVars, btcVars
  <2>2. CASE btc = "up"
    BY <2>1, <2>2 DEF Flushed
  <2>3. CASE btc # "up"
    <3>1. UNCHANGED <<sourceQ, dataQ, answering, announced, requests>>
      BY <1>1, <2>3 DEF PhoneNext, Answer, PhoneAdds, PhoneModifies, PhoneRemoves, Announce, Change
    <3> QED BY <2>1, <2>3, <3>1 DEF Flushed
  <2> QED BY <2>2, <2>3
<1>2. CASE Btc
  <2>1. CASE OnConn
    BY <2>1 DEF OnConn, Flushed, phoneVars, queueVars, dataVars
  <2>2. CASE PhoneOnConnect
    BY <2>2 DEF PhoneOnConnect, Flushed, phoneVars, queueVars, dataVars
  <2>3. CASE ServiceClose
    BY <2>3 DEF ServiceClose, Flushed, queueVars, dataVars
  <2>4. CASE OnDiscon
    BY <2>4 DEF OnDiscon, OnDisconClear, Flushed, phoneVars, dataVars
  <2>5. CASE OnDisconLeave
    BY <2>5 DEF OnDisconLeave, Flushed, phoneVars, queueVars, dataVars
  <2>6. CASE PhoneOnDisconnect
    BY <2>6 DEF PhoneOnDisconnect, Flushed, phoneVars, queueVars, dataVars
  <2> QED BY <1>2, <2>1, <2>2, <2>3, <2>4, <2>5, <2>6 DEF Btc
<1>3. CASE NotifThread \/ DataThread
  <2>1. /\ UNCHANGED <<announced, answering, btc, connected, lost>>
        /\ ~CtrlOpen => UNCHANGED requests /\ (inFlightUid' = inFlightUid \/ inFlightUid' = NoUid)
    BY <1>3, RequestsGrow
  <2>2. btc # "up" => sourceQ' = <<>> /\ dataQ' = <<>> /\ (dataHand' = dataHand \/ dataHand' = <<>>)
    BY <1>3 DEF Flushed, NotifThread, NotifTake, NotifQueue, NotifUnqueue, NotifRemove,
                DataThread, DataPump, DataTake, DataStep, dataVars
  <2>3. btc # "up" => \A i \in DOMAIN dataHand' : dataHand'[i].uid \in lost'
    BY <2>1, <2>2 DEF Flushed
  <2> QED BY <2>1, <2>2, <2>3 DEF Flushed, CtrlOpen
<1>4. CASE RequestExpires
  BY <1>4 DEF RequestExpires, Flushed, phoneVars, dataVars, btcVars
<1> QED BY <1>1, <1>2, <1>3, <1>4 DEF Next

LEMMA HandsKeep == IInv /\ Flushed /\ Hands /\ Next => Hands'
<1> SUFFICES ASSUME IInv, Flushed, Hands, Next PROVE Hands'
  OBVIOUS
<1>1. CASE Answer
  <2>1. UNCHANGED <<dataHand, dataPc, notifPc, notifEvt>>
    BY <1>1 DEF Answer, dataVars, notifVars
  <2>2. answering' = answering \/ answering' = <<>> \/ \E v : answering' = <<[part |-> "tail", uid |-> Head(requests), ver |-> v]>>
    BY <1>1 DEF Answer
  <2>3. answering' = <<>> \/ (Len(answering') = 1 /\ answering'[1].part = "tail")
    BY <2>2 DEF Hands
  <2> QED BY <2>1, <2>3 DEF Hands
<1>2. CASE \E u \in Uids : PhoneAdds(u) \/ PhoneModifies(u) \/ PhoneRemoves(u) \/ Announce(u)
  BY <1>2 DEF PhoneAdds, PhoneModifies, PhoneRemoves, Announce, Change, dataVars, notifVars, Hands
<1>3. CASE Btc
  BY <1>3 DEF Btc, OnConn, PhoneOnConnect, ServiceClose, OnDiscon, OnDisconLeave, PhoneOnDisconnect,
              phoneVars, dataVars, notifVars, Hands
<1>4. CASE NotifThread
  <2>1. UNCHANGED <<answering, dataPc, dataHand>>
    BY <1>4 DEF NotifThread, NotifTake, NotifQueue, NotifUnqueue, NotifRemove, phoneVars, dataVars
  <2>2. notifPc # "get" => Head(notifEvt) = notifEvt[1]
    BY DEF IInv, TypeOK, EventHeld
  <2>3. /\ (notifPc' = "get" /\ notifEvt' = <<>>) \/ (notifPc' # "get" /\ Len(notifEvt') = 1)
        /\ notifPc' = "rem" => notifEvt'[1].evt = "Removed"
    <3>1. CASE NotifTake
      BY <3>1 DEF NotifTake, notifVars, Hands
    <3>2. CASE NotifQueue \/ NotifRemove
      BY <3>2 DEF NotifQueue, NotifRemove
    <3>3. CASE NotifUnqueue
      BY <2>2, <3>3 DEF NotifUnqueue, Hands
    <3> QED BY <1>4, <3>1, <3>2, <3>3 DEF NotifThread
  <2> QED BY <2>1, <2>3 DEF Hands
<1>5. CASE DataThread
  BY <1>5 DEF DataThread, DataPump, DataTake, DataStep, phoneVars, notifVars, Hands
<1>6. CASE RequestExpires
  BY <1>6 DEF RequestExpires, phoneVars, dataVars, notifVars, Hands
<1> QED BY <1>1, <1>2, <1>3, <1>4, <1>5, <1>6 DEF Next, PhoneNext

-----------------------------------------------------------------------------
(* What a step does to the stream and to the events held.                   *)

LEMMA StreamIs ==
  ASSUME TypeOK
  PROVE  Stream \in Seq(Packet) /\ Held \in Seq(SrcEvent)
BY ConcatProperties DEF TypeOK, Stream, Held

LEMMA StreamSame ==
  ASSUME UNCHANGED <<dataHand, dataQ, answering>>
  PROVE  Stream' = Stream
BY DEF Stream

LEMMA HeldSame ==
  ASSUME UNCHANGED <<notifEvt, sourceQ>>
  PROVE  Held' = Held
BY DEF Held

\* A front element moved from one sequence into the hand.
LEMMA Moved ==
  ASSUME NEW S, NEW s \in Seq(S), s # <<>>
  PROVE  <<Head(s)>> \o Tail(s) = s
<1>1. Head(s) \in S /\ Tail(s) \in Seq(S) /\ Len(Tail(s)) = Len(s) - 1 /\ Len(s) \in Nat
      /\ (\A i \in 1..(Len(s) - 1) : Tail(s)[i] = s[i + 1]) /\ Head(s) = s[1]
  BY TailIs
<1> DEFINE h == <<Head(s)>>
           t == Tail(s)
<1>2. h \in Seq(S) /\ Len(h) = 1 /\ h[1] = s[1]
  BY <1>1
<1> HIDE DEF h, t
<1>3. /\ h \o t \in Seq(S) /\ Len(h \o t) = Len(h) + Len(t)
      /\ \A i \in 1..(Len(h) + Len(t)) : (h \o t)[i] = IF i =< Len(h) THEN h[i] ELSE t[i - Len(h)]
  <2>1. t \in Seq(S)
    BY <1>1 DEF t
  <2> QED BY <1>2, <2>1, ConcatProperties
<1>4. Len(h \o t) = Len(s)
  BY <1>1, <1>2, <1>3 DEF t
<1>5. \A i \in 1..Len(s) : (h \o t)[i] = s[i]
  BY <1>1, <1>2, <1>3, <1>4 DEF t
<1>6. h \o t = s
  BY <1>3, <1>4, <1>5, SeqEqual
<1> QED BY <1>6 DEF h, t

LEMMA EmptyFirst ==
  ASSUME NEW S, NEW s \in Seq(S)
  PROVE  <<>> \o s = s /\ s \o <<>> = s
BY ConcatEmptySeq

LEMMA ConcatAppend ==
  ASSUME NEW S, NEW s \in Seq(S), NEW t \in Seq(S), NEW e \in S
  PROVE  s \o Append(t, e) = Append(s \o t, e)
BY AppendIsConcat, ConcatAssociative

\* The tail of a concatenation that begins with one element.
LEMMA ConcatTail ==
  ASSUME NEW S, NEW s \in Seq(S), NEW t \in Seq(S), Len(s) = 1
  PROVE  Tail(s \o t) = t /\ Head(s \o t) = Head(s) /\ s \o t # <<>> /\ (s \o t)[1] = s[1]
<1> DEFINE c == s \o t
<1>0. /\ c \in Seq(S) /\ Len(c) = Len(s) + Len(t)
      /\ \A i \in 1..(Len(s) + Len(t)) : c[i] = IF i =< Len(s) THEN s[i] ELSE t[i - Len(s)]
  BY ConcatProperties
<1> HIDE DEF c
<1>1. /\ c \in Seq(S) /\ Len(c) = 1 + Len(t) /\ Len(t) \in Nat
      /\ \A i \in 1..(Len(s) + Len(t)) : c[i] = IF i =< Len(s) THEN s[i] ELSE t[i - Len(s)]
  BY <1>0
<1>2. c # <<>> /\ c[1] = s[1] /\ Head(c) = c[1] /\ Head(s) = s[1]
  BY <1>1
<1>3. Tail(c) \in Seq(S) /\ Len(Tail(c)) = Len(t) /\ \A i \in 1..Len(t) : Tail(c)[i] = c[i + 1]
  BY <1>1, <1>2, TailIs
<1>4. \A i \in 1..Len(t) : Tail(c)[i] = t[i]
  <2> SUFFICES ASSUME NEW i \in 1..Len(t) PROVE Tail(c)[i] = t[i]
    OBVIOUS
  <2>1. i + 1 \in 1..(Len(s) + Len(t)) /\ ~(i + 1 =< Len(s)) /\ i + 1 - Len(s) = i
    BY <1>1
  <2> QED BY <1>1, <1>3, <2>1
<1>5. Tail(c) = t
  BY <1>3, <1>4, SeqEqual
<1> QED BY <1>2, <1>5 DEF c

LEMMA StreamTake ==
  ASSUME TypeOK, Flushed, Hands, DataTake
  PROVE  Stream' = Stream
<1>1. dataHand = <<>> /\ UNCHANGED answering
  BY DEF DataTake, Hands, phoneVars
<1>2. CASE dataQ = <<>>
  BY <1>1, <1>2 DEF DataTake, Stream
<1>3. CASE dataQ # <<>>
  <2>1. connected
    BY <1>3 DEF Flushed
  <2>2. dataHand' = <<Head(dataQ)>> /\ dataQ' = Tail(dataQ)
    BY <1>3, <2>1 DEF DataTake
  <2>3. dataHand' \o dataQ' = dataQ /\ dataHand \o dataQ = dataQ
    BY <1>1, <1>3, <2>2, Moved, EmptyFirst DEF TypeOK
  <2> QED BY <1>1, <2>3 DEF Stream
<1> QED BY <1>2, <1>3

LEMMA StreamStep ==
  ASSUME TypeOK, Hands, DataStep
  PROVE  /\ dataHand = <<>> => Stream' = Stream
         /\ dataHand # <<>> => Stream # <<>> /\ Stream' = Tail(Stream) /\ Head(dataHand) = Head(Stream)
<1>1. UNCHANGED <<dataQ, answering>> /\ dataHand' = <<>>
  BY DEF DataStep, phoneVars
<1>2. dataHand = <<>> => Stream' = Stream
  BY <1>1 DEF Stream
<1>3. ASSUME dataHand # <<>>
      PROVE  Stream # <<>> /\ Stream' = Tail(Stream) /\ Head(dataHand) = Head(Stream)
  <2> DEFINE rest == dataQ \o answering
  <2>1. Len(dataHand) = 1 /\ dataHand \in Seq(Packet) /\ rest \in Seq(Packet)
    BY <1>3, ConcatProperties DEF Hands, TypeOK
  <2>2. Stream = dataHand \o rest
    <3>1. dataHand \in Seq(Packet) /\ dataQ \in Seq(Packet) /\ answering \in Seq(Packet)
      BY DEF TypeOK
    <3>2. (dataHand \o dataQ) \o answering = dataHand \o (dataQ \o answering)
      BY <3>1, ConcatAssociative
    <3> QED BY <3>2 DEF Stream
  <2>3. Stream' = rest
    BY <1>1, EmptyFirst DEF Stream, TypeOK
  <2> HIDE DEF rest
  <2> QED BY <2>1, <2>2, <2>3, ConcatTail
<1> QED BY <1>2, <1>3

LEMMA StreamClose ==
  ASSUME TypeOK, Hands, ServiceClose
  PROVE  /\ Stream' = dataHand
         /\ dataHand # <<>> => Stream # <<>> /\ Stream[1] = dataHand[1] /\ Len(dataHand) = 1
         /\ \A i \in DOMAIN dataHand : dataHand[i].uid \in lost'
         /\ lost \subseteq lost'
<1>1. dataHand' = dataHand /\ dataQ' = <<>> /\ answering' = <<>>
  BY DEF ServiceClose, dataVars
<1>2. Stream' = dataHand
  BY <1>1, EmptyFirst DEF Stream, TypeOK
<1>3. ASSUME dataHand # <<>> PROVE Stream # <<>> /\ Stream[1] = dataHand[1] /\ Len(dataHand) = 1
  <2> DEFINE rest == dataQ \o answering
  <2>1. Len(dataHand) = 1 /\ dataHand \in Seq(Packet) /\ rest \in Seq(Packet)
    BY <1>3, ConcatProperties DEF Hands, TypeOK
  <2>2. Stream = dataHand \o rest
    <3>1. dataHand \in Seq(Packet) /\ dataQ \in Seq(Packet) /\ answering \in Seq(Packet)
      BY DEF TypeOK
    <3>2. (dataHand \o dataQ) \o answering = dataHand \o (dataQ \o answering)
      BY <3>1, ConcatAssociative
    <3> QED BY <3>2 DEF Stream
  <2> HIDE DEF rest
  <2> QED BY <2>1, <2>2, ConcatTail
<1> QED BY <1>2, <1>3 DEF ServiceClose

\* Answer, the tail of a reply: it reaches the queue or is lost.
LEMMA StreamTail ==
  ASSUME TypeOK, Hands, Answer, answering # <<>>
  PROVE  LET t == Head(answering) IN
         /\ t \in Packet /\ t.part = "tail" /\ UNCHANGED requests
         /\ \/ Stream' = Stream /\ UNCHANGED lost
            \/ /\ Stream' \in Seq(Packet) /\ Stream' # <<>>
               /\ Stream = Append(Stream', t) /\ lost' = lost \cup {t.uid}
<1> DEFINE t == Head(answering)
           base == dataHand \o dataQ
<1>1. t = answering[1] /\ t \in Packet /\ t.part = "tail" /\ answering = <<t>>
  <2>1. Len(answering) = 1 /\ answering[1].part = "tail" /\ answering \in Seq(Packet)
    BY DEF Hands, TypeOK
  <2> QED BY <2>1
<1>2. Data(t) /\ answering' = <<>> /\ UNCHANGED requests /\ UNCHANGED dataHand
  BY DEF Answer, dataVars
<1> HIDE DEF t
<1>3. base \in Seq(Packet)
  BY ConcatProperties DEF TypeOK
<1>4. Stream = Append(base, t)
  BY <1>1, <1>3, AppendIsConcat DEF Stream
<1>5. CASE Len(dataQ) < QueueLen
  <2>1. dataQ' = Append(dataQ, t) /\ UNCHANGED lost
    BY <1>2, <1>5 DEF Data
  <2>2. dataHand' \o dataQ' = Append(base, t)
    BY <1>1, <1>2, <2>1, ConcatAppend, SMTT(30) DEF TypeOK
  <2>3. Append(base, t) \in Seq(Packet)
    BY <1>1, <1>3, AppendIs
  <2>4. Stream' = Append(base, t)
    <3> HIDE DEF base
    <3> QED BY <1>2, <2>2, <2>3, EmptyFirst DEF Stream
  <2> QED BY <1>1, <1>2, <1>4, <2>1, <2>4 DEF t
<1>6. CASE ~(Len(dataQ) < QueueLen)
  <2>1. UNCHANGED dataQ /\ lost' = lost \cup {t.uid}
    BY <1>2, <1>6 DEF Data
  <2>2. Stream' = base
    BY <1>2, <1>3, <2>1, EmptyFirst DEF Stream
  <2>3. base # <<>>
    <3>0. dataQ \in Seq(Packet) /\ dataHand \in Seq(Packet) /\ QueueLen \in Nat /\ QueueLen # 0
      BY ANCSAssumption DEF TypeOK
    <3>1. dataQ # <<>> /\ dataQ \in Seq(Packet) /\ dataHand \in Seq(Packet)
      BY <1>6, <3>0
    <3>2. Len(base) = Len(dataHand) + Len(dataQ)
      BY <3>1, ConcatProperties
    <3> HIDE DEF base
    <3> QED BY <3>1, <3>2
  <2> HIDE DEF base
  <2> QED BY <1>1, <1>2, <1>3, <1>4, <2>1, <2>2, <2>3 DEF t
<1> QED BY <1>5, <1>6

\* Answer to a request: both packets are under way, or the head is lost, or
\* the uid is gone and refused.
LEMMA StreamAnswer ==
  ASSUME TypeOK, Hands, Answer, answering = <<>>
  PROVE  LET u == Head(requests)
             p(part) == [part |-> part, uid |-> u, ver |-> version[u]]
         IN  /\ requests # <<>> /\ requests' = Tail(requests) /\ u \in Uids
             /\ p("head") \in Packet /\ p("tail") \in Packet
             /\ \/ Stream' = Append(Append(Stream, p("head")), p("tail")) /\ UNCHANGED lost
                \/ Stream' = Append(Stream, p("tail")) /\ lost' = lost \cup {u}
                \/ Stream' = Stream /\ UNCHANGED lost
<1> DEFINE u == Head(requests)
           p(part) == [part |-> part, uid |-> u, ver |-> version[u]]
           h == p("head")
           t == p("tail")
           base == dataHand \o dataQ
<1>1. requests # <<>> /\ requests' = Tail(requests) /\ u \in Uids /\ UNCHANGED dataHand
  BY DEF Answer, TypeOK, dataVars
<1>2. h \in Packet /\ t \in Packet /\ h.uid = u
  BY <1>1 DEF TypeOK, Packet
<1>3. base \in Seq(Packet) /\ Stream = base
  BY ConcatProperties, EmptyFirst DEF TypeOK, Stream
<1>4. CASE phone[u] = "active"
  <2>1. Data(h) /\ answering' = <<t>>
    BY <1>4 DEF Answer
  <2> HIDE DEF h, t, u
  <2>2. CASE Len(dataQ) < QueueLen
    <3>1. dataQ' = Append(dataQ, h) /\ UNCHANGED lost
      BY <2>1, <2>2 DEF Data
    <3>2. dataHand' \o dataQ' = Append(base, h)
      BY <1>1, <1>2, <3>1, ConcatAppend, SMTT(30) DEF TypeOK
    <3>3. Append(base, h) \in Seq(Packet)
      BY <1>2, <1>3, AppendIs
    <3>4. Stream' = Append(Append(base, h), t)
      <4> HIDE DEF base
      <4> QED BY <1>2, <2>1, <3>2, <3>3, AppendIsConcat DEF Stream
    <3> QED BY <1>1, <1>2, <1>3, <3>1, <3>4 DEF h, t, u
  <2>3. CASE ~(Len(dataQ) < QueueLen)
    <3>1. UNCHANGED dataQ /\ lost' = lost \cup {u}
      BY <1>2, <2>1, <2>3 DEF Data
    <3>2. Stream' = Append(base, t)
      <4>1. dataHand' \o dataQ' = base
        BY <1>1, <3>1
      <4> HIDE DEF base
      <4> QED BY <1>2, <1>3, <2>1, <4>1, AppendIsConcat DEF Stream
    <3> QED BY <1>1, <1>2, <1>3, <3>1, <3>2 DEF h, t, u
  <2> QED BY <2>2, <2>3
<1>5. CASE phone[u] # "active"
  <2>1. UNCHANGED <<dataQ, answering, lost>>
    BY <1>5 DEF Answer
  <2> QED BY <1>1, <1>2, <2>1, StreamSame
<1> QED BY <1>4, <1>5

\* The events: taken into the hand, handled, or added at the end.
LEMMA HeldTake ==
  ASSUME TypeOK, Flushed, Hands, NotifTake
  PROVE  Held' = Held /\ notifPc' = "got"
<1>1. notifEvt = <<>> /\ sourceQ # <<>> /\ sourceQ' = Tail(sourceQ) /\ connected
  BY DEF NotifTake, Hands, Flushed
<1>2. notifEvt' = <<Head(sourceQ)>> /\ notifPc' = "got"
  BY <1>1 DEF NotifTake
<1>3. notifEvt' \o sourceQ' = sourceQ /\ notifEvt \o sourceQ = sourceQ
  BY <1>1, <1>2, Moved, EmptyFirst DEF TypeOK
<1> QED BY <1>2, <1>3 DEF Held

LEMMA HeldFirst ==
  ASSUME TypeOK, Hands, notifPc # "get"
  PROVE  /\ Held # <<>> /\ Head(notifEvt) = Held[1] /\ notifEvt[1] = Held[1] /\ Head(Held) = Held[1]
         /\ notifEvt' = <<>> /\ UNCHANGED sourceQ => Held' = Tail(Held)
<1>1. Len(notifEvt) = 1 /\ notifEvt \in Seq(SrcEvent) /\ sourceQ \in Seq(SrcEvent)
  BY DEF Hands, TypeOK
<1>2. Tail(Held) = sourceQ /\ Head(Held) = Head(notifEvt) /\ Held # <<>> /\ Held[1] = notifEvt[1]
  BY <1>1, ConcatTail DEF Held
<1>3. Head(notifEvt) = notifEvt[1]
  BY <1>1
<1>4. ASSUME notifEvt' = <<>>, UNCHANGED sourceQ PROVE Held' = sourceQ
  BY <1>1, <1>4, EmptyFirst DEF Held
<1> QED BY <1>2, <1>3, <1>4

LEMMA HeldSource ==
  ASSUME TypeOK, NEW e \in SrcEvent, Source(e), UNCHANGED notifEvt
  PROVE  \/ Held' = Append(Held, e) /\ UNCHANGED lost
         \/ Held' = Held /\ lost' = lost \cup {e.uid}
<1>1. CASE Len(sourceQ) < QueueLen
  <2>1. sourceQ' = Append(sourceQ, e) /\ UNCHANGED lost
    BY <1>1 DEF Source
  <2> QED BY <2>1, ConcatAppend, SMTT(30) DEF Held, TypeOK
<1>2. CASE ~(Len(sourceQ) < QueueLen)
  BY <1>2 DEF Source, Held
<1> QED BY <1>1, <1>2

LEMMA HeldClose ==
  ASSUME TypeOK, ServiceClose
  PROVE  Held' = notifEvt /\ Within(Held', Held, 0)
<1>1. notifEvt' = notifEvt /\ sourceQ' = <<>>
  BY DEF ServiceClose, notifVars
<1>2. Held' = notifEvt
  BY <1>1, EmptyFirst DEF Held, TypeOK
<1>3. notifEvt \in Seq(SrcEvent) /\ sourceQ \in Seq(SrcEvent)
  BY DEF TypeOK
<1>4. /\ Len(Held) = Len(notifEvt) + Len(sourceQ) /\ Held \in Seq(SrcEvent)
      /\ \A i \in 1..(Len(notifEvt) + Len(sourceQ)) :
           Held[i] = IF i =< Len(notifEvt) THEN notifEvt[i] ELSE sourceQ[i - Len(notifEvt)]
  BY <1>3, ConcatProperties DEF Held
<1>5. Within(notifEvt, Held, 0)
  BY <1>3, <1>4 DEF Within
<1> QED BY <1>2, <1>5

-----------------------------------------------------------------------------
(* The attributes parsed so far, kept in the entries of needData.           *)

\* Bytes of another uid only where a packet was lost.
OwnParts == \A i \in DOMAIN needData :
  needData[i].uid \notin lost => \A p \in needData[i].parts : p.uid = needData[i].uid

\* A reply is being parsed: its head has been.
HeadParsed == reqState = "Processing" /\ inFlightUid # NoUid =>
  \E p \in needData[1].parts : p.part = "head"

\* Nothing has been parsed for an entry that is not in flight.
Untouched == \A i \in DOMAIN needData :
  needData[i].uid \in Spared /\ needData[i].uid # inFlightUid => needData[i].parts = {}

Parts == OwnParts /\ HeadParsed /\ Untouched

\* Each entry of m is one of n, or new.
Entries(m, n) == \A i \in DOMAIN m :
  m[i].parts = {} \/ \E j \in DOMAIN n : m[i].uid = n[j].uid /\ m[i].parts = n[j].parts

LEMMA PartsKeep ==
  ASSUME Parts, Spared' \subseteq Spared, lost \subseteq lost', Entries(needData', needData),
         \A i \in DOMAIN needData' : needData'[i].uid = inFlightUid => inFlightUid' = inFlightUid,
         reqState' = "Processing" /\ inFlightUid' # NoUid =>
           /\ reqState = "Processing" /\ inFlightUid' = inFlightUid
           /\ needData'[1].parts = needData[1].parts
  PROVE  Parts'
<1>1. OwnParts'
  <2> SUFFICES ASSUME NEW i \in DOMAIN needData', needData'[i].uid \notin lost', NEW p \in needData'[i].parts
               PROVE  p.uid = needData'[i].uid
    BY DEF OwnParts
  <2>1. PICK j \in DOMAIN needData : needData'[i].uid = needData[j].uid /\ needData'[i].parts = needData[j].parts
    BY DEF Entries
  <2> QED BY <2>1 DEF Parts, OwnParts
<1>2. HeadParsed'
  BY DEF Parts, HeadParsed
<1>3. Untouched'
  <2> SUFFICES ASSUME NEW i \in DOMAIN needData', needData'[i].uid \in Spared',
                      needData'[i].uid # inFlightUid', needData'[i].parts # {}
               PROVE  FALSE
    BY DEF Untouched
  <2>1. PICK j \in DOMAIN needData : needData'[i].uid = needData[j].uid /\ needData'[i].parts = needData[j].parts
    BY DEF Entries
  <2>2. needData[j].uid # inFlightUid /\ needData[j].uid \in Spared
    BY <2>1
  <2> QED BY <2>1, <2>2 DEF Parts, Untouched
<1> QED BY <1>1, <1>2, <1>3 DEF Parts

LEMMA EntriesSame ==
  ASSUME NEW n, NEW m, m = n
  PROVE  Entries(m, n)
BY DEF Entries

LEMMA EntriesRemoved ==
  ASSUME NEW n \in Seq(Entry), NEW i \in 1..Len(n)
  PROVE  Entries(RemoveAt(n, i), n)
<1> DEFINE r == RemoveAt(n, i)
<1>1. /\ r \in Seq(Entry) /\ Len(r) = Len(n) - 1
      /\ \A j \in 1..(Len(n) - 1) : r[j] = IF j < i THEN n[j] ELSE n[j + 1]
  BY RemoveAtProps
<1> HIDE DEF r
<1>2. Len(n) \in Nat /\ DOMAIN n = 1..Len(n) /\ DOMAIN r = 1..(Len(n) - 1)
  BY <1>1
<1>3. \A j \in DOMAIN r : \E k \in DOMAIN n : r[j] = n[k]
  <2> SUFFICES ASSUME NEW j \in DOMAIN r PROVE \E k \in DOMAIN n : r[j] = n[k]
    OBVIOUS
  <2>1. j \in DOMAIN n /\ j + 1 \in DOMAIN n
    BY <1>2
  <2>2. r[j] = n[j] \/ r[j] = n[j + 1]
    BY <1>1, <1>2
  <2> QED BY <2>1, <2>2
<1>4. Entries(r, n)
  BY <1>3 DEF Entries
<1> QED BY <1>4 DEF r

LEMMA EntriesAppend ==
  ASSUME NEW n, NEW m \in Seq(Entry), Entries(m, n), NEW e \in Entry, e.parts = {}
  PROVE  Entries(Append(m, e), n)
<1> DEFINE a == Append(m, e)
           k == Len(m)
<1>1. /\ k \in Nat /\ DOMAIN m = 1..k /\ DOMAIN a = 1..(k + 1)
      /\ (\A i \in DOMAIN m : i \in DOMAIN a /\ a[i] = m[i]) /\ a[k + 1] = e
  BY AppendIs
<1> HIDE DEF a, k
<1>2. \A i \in DOMAIN a : i \in DOMAIN m \/ i = k + 1
  BY <1>1
<1>3. Entries(a, n)
  BY <1>1, <1>2 DEF Entries
<1> QED BY <1>3 DEF a

-----------------------------------------------------------------------------
(* The queue, operation by operation.                                       *)

LEMMA FrontIs ==
  ASSUME IInv
  PROVE  /\ needData \in Seq(Entry)
         /\ needData # <<>> => /\ 1 \in DOMAIN needData /\ Head(needData) = needData[1]
                               /\ needData[1] \in Entry /\ needData[1].uid \in Uids
                               /\ needData[1].uid \in queuedUids
         /\ inFlightUid # NoUid => /\ needData # <<>> /\ needData[1].uid = inFlightUid
                                   /\ inFlightUid \in queuedUids /\ reqState # "Idle"
         /\ \A i \in DOMAIN needData : /\ needData[i].uid \in Uids /\ needData[i].uid # NoUid
                                       /\ needData[i].uid \in queuedUids
         /\ \A u \in queuedUids : \E i \in DOMAIN needData : needData[i].uid = u
<1>1. TypeOK /\ Queue /\ InFlightIsFront
  BY QueueIs DEF IInv
<1>2. needData \in Seq(Entry)
  BY <1>1 DEF TypeOK
<1>3. \A i \in DOMAIN needData : /\ needData[i] \in Entry /\ needData[i].uid \in Uids
                                 /\ needData[i].uid # NoUid /\ needData[i].uid \in queuedUids
  BY <1>1, QueueFacts DEF Queue
<1>4. needData # <<>> => 1 \in DOMAIN needData /\ Head(needData) = needData[1]
  BY <1>2
<1>5. \A u \in queuedUids : \E i \in DOMAIN needData : needData[i].uid = u
  BY <1>1, QueueFacts DEF Queue
<1> QED BY <1>1, <1>2, <1>3, <1>4, <1>5 DEF InFlightIsFront

\* dropInFlight and send: the front and the request go, the others stay.
LEMMA PopIs ==
  ASSUME IInv, PopFront, ToIdle
  PROVE  /\ Entries(needData', needData)
         /\ \A i \in DOMAIN needData' : /\ needData'[i].uid # inFlightUid
                                        /\ \E j \in DOMAIN needData : needData'[i] = needData[j]
         /\ queuedUids' \subseteq queuedUids
         /\ \A u \in queuedUids : u \in queuedUids' \/ (needData # <<>> /\ u = needData[1].uid)
         /\ needData # <<>> => needData[1].uid \notin queuedUids'
         /\ reqState' = "Idle" /\ inFlightUid' = NoUid /\ abandonInFlight' = FALSE
<1>1. reqState' = "Idle" /\ inFlightUid' = NoUid /\ abandonInFlight' = FALSE
  BY DEF ToIdle
<1>2. CASE needData = <<>>
  <2>1. needData' = needData /\ queuedUids' = queuedUids
    BY <1>2 DEF PopFront
  <2>2. DOMAIN needData = {}
    BY <1>2
  <2> QED BY <1>1, <1>2, <2>1, <2>2 DEF Entries
<1>3. CASE needData # <<>>
  <2>1. needData' = Tail(needData) /\ queuedUids' = queuedUids \ {needData[1].uid}
    BY <1>3, FrontIs DEF PopFront
  <2>2. /\ 1 \in DOMAIN needData
        /\ \A i \in DOMAIN needData' : i \in Nat /\ i + 1 \in DOMAIN needData /\ needData'[i] = needData[i + 1]
    BY <1>3, <2>1, FrontIs, TailIs
  <2>3. DOMAIN needData' \subseteq Nat \ {0}
    BY <1>3, <2>1, FrontIs, TailIs
  <2>4. \A i \in DOMAIN needData' : needData'[i].uid # needData[1].uid
    <3> SUFFICES ASSUME NEW i \in DOMAIN needData', needData[i + 1].uid = needData[1].uid PROVE FALSE
      BY <2>2
    <3>1. i + 1 = 1
      BY <2>2 DEF IInv, QueueConsistent, Distinct
    <3> QED BY <2>3, <3>1
  <2>5. \A i \in DOMAIN needData' : needData'[i].uid # inFlightUid
    <3>1. inFlightUid = NoUid \/ inFlightUid = needData[1].uid
      BY FrontIs
    <3> QED BY <2>2, <2>4, <3>1, FrontIs
  <2>6. Entries(needData', needData)
    BY <2>2 DEF Entries
  <2> QED BY <1>1, <1>3, <2>1, <2>2, <2>5, <2>6
<1> QED BY <1>2, <1>3

\* The modify flag of a queued entry.
LEMMA MergeIs ==
  ASSUME IInv, NEW u, NEW m \in BOOLEAN, MergeModify(u, m)
  PROVE  /\ Entries(needData', needData) /\ DOMAIN needData' = DOMAIN needData
         /\ \A i \in DOMAIN needData : needData'[i].uid = needData[i].uid /\ needData'[i].parts = needData[i].parts
<1>1. \A i \in DOMAIN needData : needData[i] \in Entry
  BY FrontIs
<1>2. DOMAIN needData' = DOMAIN needData
  BY DEF MergeModify
<1>3. \A e \in Entry : [e EXCEPT !.modify = @ \/ m].uid = e.uid /\ [e EXCEPT !.modify = @ \/ m].parts = e.parts
  BY DEF Entry
<1>4. \A i \in DOMAIN needData : needData'[i].uid = needData[i].uid /\ needData'[i].parts = needData[i].parts
  BY <1>1, <1>3 DEF MergeModify
<1> QED BY <1>2, <1>4 DEF Entries

\* A new entry, the oldest evicted for it when the queue is full.
LEMMA QueueNewIs ==
  ASSUME IInv, NEW u \in Uids, u \notin queuedUids, NEW m \in BOOLEAN, QueueNew(u, m)
  PROVE  /\ Entries(needData', needData) /\ PumpRequest(needData')
         /\ needData' # <<>> /\ Head(needData') = needData'[1] /\ needData'[1].uid \in Uids
         /\ inFlightUid # NoUid => needData'[1] = needData[1]
         /\ queuedUids' \subseteq queuedUids \cup {u} /\ u \in queuedUids'
         /\ \A v \in queuedUids : v \in queuedUids' \/ v \in excused'
         /\ excused \subseteq excused' /\ (u \notin announced => u \in excused')
<1> DEFINE at   == EvictAt(needData)
           room == IF MustEvict(needData) THEN RemoveAt(needData, at) ELSE needData
           gone == IF MustEvict(needData) THEN {needData[at].uid} ELSE {}
           e    == [uid |-> u, modify |-> m, parts |-> {}]
<1>1. TypeOK /\ Queue /\ InFlightIsFront
  BY QueueIs DEF IInv
<1>2. e \in Entry /\ e.uid = u /\ e.parts = {}
  BY DEF Entry
<1>3. /\ needData' = Append(room, e)
      /\ queuedUids' = (queuedUids \ gone) \cup {u}
      /\ excused' = excused \cup gone \cup ({u} \ announced)
      /\ PumpRequest(Append(room, e))
  BY DEF QueueNew
<1> HIDE DEF e
<1>4. /\ room \in Seq(Entry) /\ Entries(room, needData)
      /\ inFlightUid # NoUid => room # <<>> /\ room[1] = needData[1]
  <2>1. CASE MustEvict(needData)
    <3>1. at \in 1..Len(needData) /\ ~InFlight(needData[at].uid)
      BY <1>1, <2>1, EvictAtProps
    <3>2. inFlightUid # NoUid => at # 1
      BY <3>1, FrontIs DEF InFlight
    <3> HIDE DEF at
    <3>3. GoodQueue(RemoveAt(needData, at), queuedUids \ {needData[at].uid})
          /\ (at # 1 => RemoveAt(needData, at) # <<>> /\ Head(RemoveAt(needData, at)) = Head(needData))
      BY <1>1, <3>1, RemoveEntry DEF Queue
    <3>4. RemoveAt(needData, at) \in Seq(Entry)
      BY <3>3 DEF GoodQueue
    <3>5. Entries(RemoveAt(needData, at), needData)
      BY <3>1, FrontIs, EntriesRemoved
    <3>6. inFlightUid # NoUid => RemoveAt(needData, at)[1] = needData[1] /\ RemoveAt(needData, at) # <<>>
      BY <3>2, <3>3, <3>4, FrontIs
    <3> QED BY <2>1, <3>4, <3>5, <3>6
  <2>2. CASE ~MustEvict(needData)
    BY <2>2, FrontIs, EntriesSame
  <2> QED BY <2>1, <2>2
<1> HIDE DEF room, gone
<1>5. /\ Append(room, e) \in Seq(Entry) /\ Append(room, e) # <<>>
      /\ Entries(Append(room, e), needData)
  BY <1>2, <1>4, AppendIs, EntriesAppend
<1>6. inFlightUid # NoUid => Append(room, e)[1] = needData[1]
  <2>1. room # <<>> => 1 \in DOMAIN room
    BY <1>4
  <2> QED BY <1>2, <1>4, <2>1, AppendIs
<1>7. Head(needData') = needData'[1] /\ needData'[1].uid \in Uids
  <2>1. needData' \in Seq(Entry) /\ needData' # <<>>
    BY <1>3, <1>5
  <2>2. Head(needData') = needData'[1] /\ needData'[1] \in Entry
    BY <2>1, TailIs
  <2> QED BY <2>2 DEF Entry
<1> QED BY <1>3, <1>5, <1>6, <1>7

-----------------------------------------------------------------------------
(* The request pipeline and the stream of packets.                          *)

NoReply == dataQ = <<>> /\ answering = <<>> /\ requests = <<>>

\* An idle queue that is not empty waits for the next pass of loopData, with
\* nothing on its way; and so does a reply parsed without a request.
Unpumped ==
  reqState = "Idle" /\ needData # <<>> /\ dataPc # "top" =>
    NoReply /\ \A i \in DOMAIN dataHand : dataHand[i].uid \in lost

Ghost == reqState = "Processing" /\ inFlightUid = NoUid => NoReply /\ dataHand = <<>>

\* While a reply is parsed its tail comes next, unless a packet of it was lost.
NextIsTail ==
  reqState = "Processing" /\ inFlightUid # NoUid /\ inFlightUid \notin lost =>
    IF btc = "closed" THEN Stream = <<>>
    ELSE Stream # <<>> /\ Stream[1].part = "tail" /\ Stream[1].uid = inFlightUid

\* Only what is in flight has been asked for, and once.
AskedOnce == \A u \in Spared : Asked(Stream, requests, reqState, inFlightUid, u)

Pipeline == Unpumped /\ Ghost /\ Paired(Stream, lost) /\ NextIsTail /\ Parts /\ AskedOnce

LEMMA SparedLess ==
  ASSUME lost \subseteq lost', excused \subseteq excused'
  PROVE  Spared' \subseteq Spared
BY DEF Spared

\* A step that leaves packets, requests and queue alone.
LEMMA PipelineFrame ==
  ASSUME IInv, Pipeline, lost \subseteq lost', excused \subseteq excused',
         UNCHANGED <<needData, reqState, inFlightUid, requests, dataQ, answering, dataHand, dataPc>>,
         btc' = "closed" => btc = "closed",
         btc = "closed" => btc' = "closed" \/ inFlightUid = NoUid
  PROVE  Pipeline'
<1>1. Stream' = Stream
  BY StreamSame
<1>2. Spared' \subseteq Spared
  BY SparedLess
<1>3. Unpumped' /\ Ghost'
  BY DEF Pipeline, Unpumped, Ghost, NoReply
<1>4. Paired(Stream, lost)'
  BY <1>1, PairedMore DEF Pipeline
<1>5. NextIsTail'
  BY <1>1 DEF Pipeline, NextIsTail
<1>6. Parts'
  BY <1>2, EntriesSame, PartsKeep DEF Pipeline
<1>7. AskedOnce'
  BY <1>1, <1>2 DEF Pipeline, AskedOnce
<1> QED BY <1>3, <1>4, <1>5, <1>6, <1>7 DEF Pipeline

LEMMA PipelineAnswer ==
  ASSUME IInv, Flushed, Hands, Pipeline, Answer
  PROVE  Pipeline'
<1>1. /\ UNCHANGED <<needData, reqState, inFlightUid, dataHand, dataPc, btc, excused>>
      /\ btc = "up"
  BY DEF Answer, queueVars, dataVars, btcVars
<1>2. TypeOK /\ Stream \in Seq(Packet)
  BY StreamIs DEF IInv
<1>3. ~NoReply
  BY DEF Answer, NoReply
<1>4. Unpumped' /\ Ghost'
  BY <1>1, <1>3 DEF Pipeline, Unpumped, Ghost
<1>5. CASE answering # <<>>
  <2> DEFINE t == Head(answering)
  <2>1. /\ t \in Packet /\ t.part = "tail" /\ UNCHANGED requests
        /\ \/ Stream' = Stream /\ UNCHANGED lost
           \/ /\ Stream' \in Seq(Packet) /\ Stream' # <<>>
              /\ Stream = Append(Stream', t) /\ lost' = lost \cup {t.uid}
    BY <1>2, <1>5, StreamTail
  <2> HIDE DEF t
  <2>2. lost \subseteq lost' /\ Spared' \subseteq Spared
    BY <1>1, <2>1, SparedLess
  <2>3. Paired(Stream, lost)'
    BY <2>1, PairedDrop DEF Pipeline
  <2>4. NextIsTail'
    <3>1. Stream' # <<>> /\ Stream \in Seq(Packet) => Stream' = Stream \/ Stream'[1] = Stream[1]
      <4>1. CASE Stream' \in Seq(Packet) /\ Stream' # <<>> /\ Stream = Append(Stream', t)
        <5>1. 1 \in DOMAIN Stream'
          BY <4>1
        <5> QED BY <2>1, <4>1, <5>1, AppendIs
      <4> QED BY <2>1, <4>1
    <3> QED BY <1>1, <1>2, <2>1, <2>2, <3>1 DEF Pipeline, NextIsTail
  <2>5. AskedOnce'
    <3> SUFFICES ASSUME NEW u \in Spared' PROVE Asked(Stream', requests', reqState', inFlightUid', u)
      BY DEF AskedOnce
    <3>1. Asked(Stream, requests, reqState, inFlightUid, u)
      BY <2>2 DEF Pipeline, AskedOnce
    <3>2. Within(Stream', Stream, 0) /\ Within(requests, requests, 0)
      <4>1. Within(requests, requests, 0) /\ Within(Stream, Stream, 0)
        BY <1>2, WithinSelf DEF TypeOK
      <4>2. Stream' \in Seq(Packet) => Within(Stream', Append(Stream', t), 0)
        BY <2>1, AppendIs
      <4> QED BY <2>1, <4>1, <4>2
    <3>3. Asked(Stream', requests, reqState, inFlightUid, u)
      BY <3>1, <3>2, AskedLess
    <3> QED BY <1>1, <2>1, <3>3
  <2>6. Parts'
    BY <1>1, <2>2, EntriesSame, PartsKeep DEF Pipeline
  <2> QED BY <1>4, <2>3, <2>4, <2>5, <2>6 DEF Pipeline
<1>6. CASE answering = <<>>
  <2> DEFINE v == Head(requests)
             p(part) == [part |-> part, uid |-> v, ver |-> version[v]]
             h == p("head")
             t == p("tail")
  <2>1. /\ requests # <<>> /\ requests' = Tail(requests) /\ v \in Uids
        /\ h \in Packet /\ t \in Packet
        /\ \/ Stream' = Append(Append(Stream, h), t) /\ UNCHANGED lost
           \/ Stream' = Append(Stream, t) /\ lost' = lost \cup {v}
           \/ Stream' = Stream /\ UNCHANGED lost
    BY <1>2, <1>6, StreamAnswer
  <2>2. h.part = "head" /\ t.part = "tail" /\ h.uid = v /\ t.uid = v
    OBVIOUS
  <2> HIDE DEF h, t
  <2>3. lost \subseteq lost' /\ Spared' \subseteq Spared
    BY <1>1, <2>1, SparedLess
  <2>4. Paired(Stream, lost)'
    <3>1. Paired(Stream, lost')
      BY <2>3, PairedMore DEF Pipeline
    <3>2. Paired(Append(Append(Stream, h), t), lost') /\ Paired(Append(Stream, t), lost')
      BY <1>2, <2>1, <2>2, <3>1, PairedReply, PairedAppend
    <3> QED BY <2>1, <3>1, <3>2
  <2>5. NextIsTail'
    <3>1. Stream # <<>> => Stream' # <<>> /\ Stream'[1] = Stream[1]
      <4> SUFFICES ASSUME Stream # <<>> PROVE Stream' # <<>> /\ Stream'[1] = Stream[1]
        OBVIOUS
      <4>1. 1 \in DOMAIN Stream
        BY <1>2
      <4>2. Append(Stream, h) \in Seq(Packet) /\ 1 \in DOMAIN Append(Stream, h) /\ Append(Stream, h)[1] = Stream[1]
        BY <1>2, <2>1, <4>1, AppendIs
      <4>3. /\ Append(Append(Stream, h), t) # <<>> /\ Append(Append(Stream, h), t)[1] = Stream[1]
            /\ Append(Stream, t) # <<>> /\ Append(Stream, t)[1] = Stream[1]
        BY <1>2, <2>1, <4>1, <4>2, AppendIs
      <4> QED BY <2>1, <4>3
    <3> QED BY <1>1, <2>3, <3>1 DEF Pipeline, NextIsTail
  <2>6. AskedOnce'
    <3> SUFFICES ASSUME NEW u \in Spared' PROVE Asked(Stream', requests', reqState', inFlightUid', u)
      BY DEF AskedOnce
    <3>1. Asked(Stream, requests, reqState, inFlightUid, u)
      BY <2>3 DEF Pipeline, AskedOnce
    <3>2. Within(Stream, Stream, 0) /\ Within(Tail(requests), requests, 1) /\ requests \in Seq(Uids)
      BY <1>2, <2>1, TailIs, WithinSelf DEF TypeOK
    <3>3. Asked(Stream, Tail(requests), reqState, inFlightUid, u)
      BY <3>1, <3>2, AskedLess
    <3>4. CASE Stream' = Append(Append(Stream, h), t)
      <4>1. Asked(Append(Append(Stream, h), t), Tail(requests), reqState, inFlightUid, u)
        <5> HIDE DEF p
        <5> QED BY <1>2, <2>1, <2>2, <3>1, <3>2, AskedReply
      <4> QED BY <1>1, <2>1, <3>4, <4>1
    <3>5. CASE Stream' = Append(Stream, t) /\ lost' = lost \cup {v}
      <4>1. t.uid # u
        BY <2>2, <3>5 DEF Spared
      <4>2. Asked(Append(Stream, t), Tail(requests), reqState, inFlightUid, u)
        BY <1>2, <2>1, <3>3, <4>1, AskedOther
      <4> QED BY <1>1, <2>1, <3>5, <4>2
    <3>6. CASE Stream' = Stream
      BY <1>1, <2>1, <3>3, <3>6
    <3> QED BY <2>1, <3>4, <3>5, <3>6
  <2>7. Parts'
    BY <1>1, <2>3, EntriesSame, PartsKeep DEF Pipeline
  <2> QED BY <1>4, <2>4, <2>5, <2>6, <2>7 DEF Pipeline
<1> QED BY <1>5, <1>6

LEMMA PipelineClose ==
  ASSUME IInv, Flushed, Hands, Pipeline, ServiceClose
  PROVE  Pipeline'
<1>1. /\ UNCHANGED <<needData, reqState, inFlightUid, dataHand, dataPc, excused>>
      /\ btc = "up" /\ btc' = "closed" /\ NoReply' /\ requests' = <<>>
  BY DEF ServiceClose, queueVars, dataVars, NoReply
<1>2. /\ Stream' = dataHand
      /\ dataHand # <<>> => Stream # <<>> /\ Stream[1] = dataHand[1] /\ Len(dataHand) = 1
      /\ \A i \in DOMAIN dataHand : dataHand[i].uid \in lost'
      /\ lost \subseteq lost'
  BY StreamClose DEF IInv
<1>3. dataHand \in Seq(Packet) /\ Stream \in Seq(Packet)
  BY StreamIs DEF IInv, TypeOK
<1>4. Spared' \subseteq Spared
  BY <1>1, <1>2, SparedLess
<1>5. Unpumped' /\ Ghost'
  BY <1>1, <1>2 DEF Pipeline, Unpumped, Ghost
<1>6. Paired(Stream, lost)'
  BY <1>2 DEF Paired
<1>7. NextIsTail'
  <2> SUFFICES ASSUME reqState = "Processing", inFlightUid # NoUid, inFlightUid \notin lost', dataHand # <<>>
               PROVE  FALSE
    BY <1>1, <1>2 DEF NextIsTail
  <2>1. dataHand[1].uid = inFlightUid
    BY <1>1, <1>2 DEF Pipeline, NextIsTail
  <2>2. 1 \in DOMAIN dataHand
    BY <1>2, <1>3
  <2> QED BY <1>2, <2>1, <2>2
<1>8. Parts'
  BY <1>1, <1>2, <1>4, EntriesSame, PartsKeep DEF Pipeline
<1>9. AskedOnce'
  <2> SUFFICES ASSUME NEW u \in Spared' PROVE Asked(Stream', requests', reqState', inFlightUid', u)
    BY DEF AskedOnce
  <2>1. ~HasPacket(dataHand, u)
    BY <1>2 DEF HasPacket, Spared
  <2>2. ~InSeq(<<>>, u) /\ OnceIn(<<>>, u) /\ ~HasPart(dataHand, "head", u) /\ Once(dataHand, u)
    BY <2>1 DEF InSeq, OnceIn, HasPart, Once, HasPacket
  <2> QED BY <1>1, <1>2, <2>1, <2>2 DEF Asked
<1> QED BY <1>5, <1>6, <1>7, <1>8, <1>9 DEF Pipeline

LEMMA PipelineDiscon ==
  ASSUME IInv, Flushed, Hands, Pipeline, OnDiscon
  PROVE  Pipeline'
<1>1. /\ needData' = <<>> /\ reqState' = "Idle" /\ inFlightUid' = NoUid
      /\ UNCHANGED <<requests, dataQ, answering, dataHand, dataPc, lost, excused>>
      /\ btc # "up"
  BY DEF OnDiscon, OnDisconClear, phoneVars, dataVars
<1>2. Stream' = Stream /\ Spared' \subseteq Spared
  BY <1>1, StreamSame, SparedLess
<1>3. Unpumped' /\ Ghost' /\ NextIsTail'
  BY <1>1 DEF Unpumped, Ghost, NextIsTail
<1>4. Paired(Stream, lost)'
  BY <1>1, <1>2 DEF Pipeline
<1>5. Parts'
  <2>1. DOMAIN needData' = {}
    BY <1>1
  <2> QED BY <1>1, <2>1 DEF Parts, OwnParts, HeadParsed, Untouched
<1>6. AskedOnce'
  <2> SUFFICES ASSUME NEW u \in Spared' PROVE Asked(Stream', requests', reqState', inFlightUid', u)
    BY DEF AskedOnce
  <2>1. Asked(Stream, requests, reqState, inFlightUid, u)
    BY <1>2 DEF Pipeline, AskedOnce
  <2>2. requests = <<>> /\ dataQ = <<>> /\ answering = <<>>
    BY DEF Flushed, OnDiscon
  <2>3. ~InSeq(requests, u)
    BY <2>2 DEF InSeq
  <2>4. ~HasPacket(Stream, u)
    <3>1. Stream = dataHand
      BY <2>2, EmptyFirst DEF Stream, IInv, TypeOK
    <3> QED BY <1>1, <1>2, <3>1 DEF Flushed, HasPacket, Spared
  <2> QED BY <1>1, <1>2, <2>1, <2>3, <2>4 DEF Asked
<1> QED BY <1>3, <1>4, <1>5, <1>6 DEF Pipeline

\* pumpRequest, with or without a new entry.
LEMMA PipelinePump ==
  ASSUME IInv, IInv', Flushed, Pipeline,
         UNCHANGED <<dataQ, answering, dataHand, lost, btc>>, excused \subseteq excused',
         Entries(needData', needData), PumpRequest(needData'),
         inFlightUid # NoUid => needData'[1].parts = needData[1].parts
  PROVE  Pipeline'
<1>1. Stream' = Stream /\ Spared' \subseteq Spared
  BY StreamSame, SparedLess
<1>2. Paired(Stream, lost)'
  BY <1>1 DEF Pipeline
<1>3. CASE /\ ~(reqState = "Idle" /\ needData' # <<>> /\ CtrlOpen)
           /\ UNCHANGED <<requests, inFlightUid, reqState>>
  <2>1. Unpumped'
    <3> SUFFICES ASSUME reqState = "Idle", needData' # <<>>
                 PROVE  NoReply /\ \A i \in DOMAIN dataHand : dataHand[i].uid \in lost
      BY <1>3 DEF Unpumped, NoReply
    <3>1. btc \notin {"joining", "up"}
      BY <1>3 DEF CtrlOpen
    <3> QED BY <3>1 DEF Flushed, NoReply
  <2>2. Ghost' /\ NextIsTail'
    BY <1>1, <1>3 DEF Pipeline, Ghost, NoReply, NextIsTail
  <2>3. Parts'
    BY <1>1, <1>3, PartsKeep DEF Pipeline
  <2>4. AskedOnce'
    BY <1>1, <1>3 DEF Pipeline, AskedOnce
  <2> QED BY <1>2, <2>1, <2>2, <2>3, <2>4 DEF Pipeline
<1>4. CASE /\ reqState = "Idle" /\ needData' # <<>> /\ CtrlOpen
           /\ requests' = Append(requests, Head(needData').uid)
           /\ inFlightUid' = Head(needData').uid /\ reqState' = "Awaiting"
  <2>1. Unpumped' /\ Ghost' /\ NextIsTail'
    BY <1>4 DEF Unpumped, Ghost, NextIsTail
  <2>2. inFlightUid = NoUid
    BY <1>4, FrontIs
  <2>3. /\ \A i \in DOMAIN needData' : needData'[i].uid # NoUid
        /\ Head(needData').uid \in Uids
    <3>1. needData' \in Seq(Entry)
      BY DEF IInv, TypeOK
    <3>2. \A i \in DOMAIN needData' : needData'[i] \in Entry
      BY <3>1
    <3>3. Head(needData') \in Entry
      BY <1>4, <3>1
    <3> QED BY <3>2, <3>3 DEF Entry
  <2>4. Parts'
    BY <1>1, <1>4, <2>2, <2>3, PartsKeep DEF Pipeline
  <2>5. AskedOnce'
    <3> SUFFICES ASSUME NEW u \in Spared' PROVE Asked(Stream', requests', reqState', inFlightUid', u)
      BY DEF AskedOnce
    <3>1. Asked(Stream, requests, reqState, inFlightUid, u) /\ u \in Uids
      BY <1>1 DEF Pipeline, AskedOnce, Spared
    <3>2. inFlightUid # u /\ requests \in Seq(Uids)
      BY <2>2, <3>1 DEF IInv, TypeOK
    <3>3. Asked(Stream, Append(requests, Head(needData').uid), "Awaiting", Head(needData').uid, u)
      BY <2>3, <3>1, <3>2, AskedPump
    <3> QED BY <1>1, <1>4, <3>3
  <2> QED BY <1>2, <2>1, <2>4, <2>5 DEF Pipeline
<1> QED BY <1>3, <1>4, PumpIs

\* The queue changes behind the front.
LEMMA PipelineQueue ==
  ASSUME IInv, Pipeline, excused \subseteq excused',
         UNCHANGED <<reqState, inFlightUid, requests, dataQ, answering, dataHand, dataPc, btc, lost>>,
         Entries(needData', needData), needData' # <<>> => needData # <<>>,
         inFlightUid # NoUid => needData'[1].parts = needData[1].parts
  PROVE  Pipeline'
<1>1. Stream' = Stream /\ Spared' \subseteq Spared
  BY StreamSame, SparedLess
<1>2. Paired(Stream, lost)' /\ AskedOnce'
  BY <1>1 DEF Pipeline, AskedOnce
<1>3. Unpumped' /\ Ghost' /\ NextIsTail'
  BY <1>1 DEF Pipeline, Unpumped, Ghost, NoReply, NextIsTail
<1>4. Parts'
  BY <1>1, PartsKeep DEF Pipeline
<1> QED BY <1>2, <1>3, <1>4 DEF Pipeline

LEMMA PipelineTake ==
  ASSUME IInv, Flushed, Hands, Pipeline, DataTake
  PROVE  Pipeline'
<1>1. /\ Stream' = Stream
      /\ UNCHANGED <<reqState, inFlightUid, requests, answering, needData, lost, excused, btc>>
      /\ dataPc = "get"
      /\ dataQ = <<>> => dataQ' = <<>> /\ dataHand' = <<>>
  BY StreamTake DEF IInv, DataTake, phoneVars, queueVars, btcVars
<1>2. Spared' = Spared
  BY <1>1 DEF Spared
<1>3. Unpumped' /\ Ghost'
  BY <1>1 DEF Pipeline, Unpumped, Ghost, NoReply
<1>4. Paired(Stream, lost)' /\ NextIsTail' /\ AskedOnce'
  BY <1>1, <1>2 DEF Pipeline, NextIsTail, AskedOnce
<1>5. Parts'
  BY <1>1, <1>2, EntriesSame, PartsKeep DEF Pipeline
<1> QED BY <1>3, <1>4, <1>5 DEF Pipeline

-----------------------------------------------------------------------------
(* A pass of loopData.                                                      *)

\* What every pass does to the packets.
LEMMA StepIs ==
  ASSUME IInv, Flushed, Hands, Pipeline, DataStep
  PROVE  /\ UNCHANGED <<requests, answering, dataQ, btc, lost>> /\ dataPc' = "top" /\ dataHand' = <<>>
         /\ Stream \in Seq(Packet) /\ requests \in Seq(Uids)
         /\ \E k \in Nat : Within(Stream', Stream, k)
         /\ Paired(Stream, lost)'
         /\ dataHand = <<>> => Stream' = Stream
         /\ dataHand # <<>> => Stream # <<>> /\ Stream' = Tail(Stream) /\ Head(dataHand) = Stream[1]
                               /\ Head(Stream) = Stream[1] /\ Stream[1] \in Packet
<1>1. UNCHANGED <<requests, answering, dataQ, btc, lost>> /\ dataPc' = "top" /\ dataHand' = <<>>
  BY DEF DataStep, phoneVars, btcVars
<1>2. Stream \in Seq(Packet) /\ requests \in Seq(Uids)
  BY StreamIs DEF IInv, TypeOK
<1>3. CASE dataHand = <<>>
  <2>1. Stream' = Stream
    BY <1>3, StreamStep DEF IInv
  <2>2. Within(Stream', Stream, 0)
    BY <1>2, <2>1, WithinSelf
  <2> QED BY <1>1, <1>2, <1>3, <2>1, <2>2 DEF Pipeline
<1>4. CASE dataHand # <<>>
  <2>1. Stream # <<>> /\ Stream' = Tail(Stream) /\ Head(dataHand) = Head(Stream)
    BY <1>4, StreamStep DEF IInv
  <2>2. Within(Stream', Stream, 1) /\ Head(Stream) = Stream[1] /\ Head(Stream) \in Packet
    BY <1>2, <2>1, TailIs
  <2>3. Paired(Stream, lost)'
    BY <1>1, <1>2, <2>1, PairedTail DEF Pipeline
  <2> QED BY <1>1, <1>2, <1>4, <2>1, <2>2, <2>3
<1> QED BY <1>3, <1>4

\* The request is dropped, salvaged or was none: its uid is excused.
LEMMA PipelineDropped ==
  ASSUME IInv, Flushed, Hands, Pipeline, DataStep, PopFront, ToIdle, excused \subseteq excused',
         needData # <<>> => needData[1].uid \in excused'
  PROVE  Pipeline'
<1>1. /\ Entries(needData', needData) /\ reqState' = "Idle" /\ inFlightUid' = NoUid
      /\ \A i \in DOMAIN needData' : needData'[i].uid # inFlightUid
  BY PopIs
<1>2. /\ UNCHANGED lost /\ dataPc' = "top" /\ Paired(Stream, lost)'
      /\ requests' = requests /\ requests \in Seq(Uids)
  BY StepIs
<1>3. PICK k \in Nat : Within(Stream', Stream, k)
  BY StepIs
<1>4. Spared' \subseteq Spared
  BY <1>2, SparedLess
<1>5. Unpumped' /\ Ghost' /\ NextIsTail'
  BY <1>1, <1>2 DEF Unpumped, Ghost, NextIsTail
<1>6. Parts'
  BY <1>1, <1>2, <1>4, PartsKeep DEF Pipeline
<1>7. AskedOnce'
  <2> SUFFICES ASSUME NEW u \in Spared' PROVE Asked(Stream', requests', reqState', inFlightUid', u)
    BY DEF AskedOnce
  <2>1. Asked(Stream, requests, reqState, inFlightUid, u) /\ u \in Uids /\ u \notin excused'
    BY <1>4 DEF Pipeline, AskedOnce, Spared
  <2>2. inFlightUid # u
    BY <2>1, FrontIs
  <2>3. Within(requests, requests, 0)
    BY <1>2, WithinSelf
  <2>4. \A r2, f2 : Asked(Stream', requests, r2, f2, u)
    BY <1>3, <2>1, <2>2, <2>3, AskedLess
  <2> QED BY <1>2, <2>4
<1> QED BY <1>2, <1>5, <1>6, <1>7 DEF Pipeline

\* Nothing to do, or a packet that is not the reply waited for.
LEMMA PipelineSkips ==
  ASSUME IInv, Flushed, Hands, Pipeline, DataStep, UNCHANGED <<queueVars, excused>>,
         reqState # "Processing"
  PROVE  Pipeline'
<1>1. UNCHANGED <<needData, reqState, inFlightUid>>
  BY DEF queueVars
<1>2. /\ UNCHANGED lost /\ dataPc' = "top" /\ Paired(Stream, lost)'
      /\ requests' = requests /\ requests \in Seq(Uids)
  BY StepIs
<1>3. PICK k \in Nat : Within(Stream', Stream, k)
  BY StepIs
<1>4. Spared' \subseteq Spared
  BY <1>2, SparedLess
<1>5. Unpumped' /\ Ghost' /\ NextIsTail'
  BY <1>1, <1>2 DEF Unpumped, Ghost, NextIsTail
<1>6. Parts'
  BY <1>1, <1>2, <1>4, EntriesSame, PartsKeep DEF Pipeline
<1>7. AskedOnce'
  <2> SUFFICES ASSUME NEW u \in Spared' PROVE Asked(Stream', requests', reqState', inFlightUid', u)
    BY DEF AskedOnce
  <2>1. Asked(Stream, requests, reqState, inFlightUid, u)
    BY <1>4 DEF Pipeline, AskedOnce
  <2>2. Within(requests, requests, 0)
    BY <1>2, WithinSelf
  <2>3. Asked(Stream', requests, reqState, inFlightUid, u)
    BY <1>3, <2>1, <2>2, AskedLess
  <2> QED BY <1>1, <1>2, <2>3
<1> QED BY <1>2, <1>5, <1>6, <1>7 DEF Pipeline

\* What the packet in hand is, when the queue waits for it.
LEMMA PacketIs ==
  ASSUME IInv, Flushed, Hands, Pipeline, DataStep, dataHand # <<>>, needData # <<>>,
         reqState = "Processing" \/ IsHeader(Head(dataHand), Head(needData).uid)
  PROVE  /\ reqState = "Processing" => inFlightUid # NoUid
         /\ reqState # "Processing" =>
              /\ Stream[1].part = "head" /\ Stream[1].uid = needData[1].uid
              /\ inFlightUid = NoUid => needData[1].uid \in lost /\ NoReply
         /\ needData[1].uid \notin lost => btc # "closed"
         /\ reqState = "Processing" /\ needData[1].uid \notin lost =>
              Stream[1].part = "tail" /\ Stream[1].uid = needData[1].uid
<1>1. Stream # <<>> /\ Head(dataHand) = Stream[1] /\ Head(dataHand) = dataHand[1] /\ 1 \in DOMAIN dataHand
  <2>1. dataHand \in Seq(Packet)
    BY DEF IInv, TypeOK
  <2> QED BY <2>1, StepIs
<1>2. Head(needData) = needData[1] /\ needData[1].uid \in Uids
  BY FrontIs
<1>3. reqState = "Processing" => inFlightUid # NoUid
  BY DEF Pipeline, Ghost
<1>4. ASSUME reqState # "Processing" PROVE Stream[1].part = "head" /\ Stream[1].uid = needData[1].uid
  BY <1>1, <1>2, <1>4 DEF IsHeader
<1>5. dataPc = "got"
  BY DEF Hands
<1>6. ASSUME reqState # "Processing", inFlightUid = NoUid PROVE needData[1].uid \in lost /\ NoReply
  <2>1. reqState = "Idle"
    BY <1>6 DEF IInv, TypeOK, InFlightIsFront
  <2>2. NoReply /\ dataHand[1].uid \in lost
    BY <1>1, <1>5, <2>1 DEF Pipeline, Unpumped
  <2> QED BY <1>1, <1>4, <1>6, <2>2
<1>7. ASSUME reqState = "Processing", needData[1].uid \notin lost
      PROVE  btc # "closed" /\ Stream[1].part = "tail" /\ Stream[1].uid = needData[1].uid
  <2>1. inFlightUid = needData[1].uid
    BY <1>3, <1>7, FrontIs
  <2> QED BY <1>1, <1>3, <1>7, <2>1 DEF Pipeline, NextIsTail
<1>8. ASSUME reqState # "Processing", needData[1].uid \notin lost PROVE btc # "closed"
  <2>1. dataHand[1].uid = needData[1].uid
    BY <1>1, <1>4, <1>8
  <2> QED BY <1>1, <1>8, <2>1 DEF Flushed
<1> QED BY <1>3, <1>4, <1>6, <1>7, <1>8

\* The tail: the notification is complete.
LEMMA PipelineSent ==
  ASSUME IInv, Flushed, Hands, Pipeline, DataStep, PopFront, ToIdle, excused \subseteq excused',
         dataHand # <<>>, needData # <<>>, reqState = "Processing"
  PROVE  Pipeline'
<1>1. /\ Entries(needData', needData) /\ reqState' = "Idle" /\ inFlightUid' = NoUid
      /\ \A i \in DOMAIN needData' : needData'[i].uid # inFlightUid
  BY PopIs
<1>2. /\ UNCHANGED lost /\ dataPc' = "top" /\ Paired(Stream, lost)'
      /\ requests' = requests /\ requests \in Seq(Uids) /\ Stream \in Seq(Packet)
      /\ Stream # <<>> /\ Stream' = Tail(Stream) /\ Head(Stream) = Stream[1]
  BY StepIs
<1>3. Spared' \subseteq Spared
  BY <1>2, SparedLess
<1>4. Unpumped' /\ Ghost' /\ NextIsTail'
  BY <1>1, <1>2 DEF Unpumped, Ghost, NextIsTail
<1>5. Parts'
  BY <1>1, <1>2, <1>3, PartsKeep DEF Pipeline
<1>6. AskedOnce'
  <2> SUFFICES ASSUME NEW u \in Spared' PROVE Asked(Stream', requests', reqState', inFlightUid', u)
    BY DEF AskedOnce
  <2>1. Asked(Stream, requests, "Processing", inFlightUid, u) /\ u \in Uids /\ u \notin lost
    BY <1>3 DEF Pipeline, AskedOnce, Spared
  <2>2. inFlightUid = u => Head(Stream).part = "tail" /\ Head(Stream).uid = u
    <3>1. inFlightUid = u => u = needData[1].uid
      BY <2>1, FrontIs
    <3> QED BY <1>2, <2>1, <3>1, PacketIs
  <2>3. Asked(Tail(Stream), requests, "Idle", NoUid, u)
    BY <1>2, <2>1, <2>2, AskedSent
  <2> QED BY <1>1, <1>2, <2>3
<1> QED BY <1>2, <1>4, <1>5, <1>6 DEF Pipeline

\* The head: its attributes are kept and the tail comes next.
LEMMA PipelineHead ==
  ASSUME IInv, Flushed, Hands, Pipeline, DataStep, dataHand # <<>>, needData # <<>>,
         reqState = "Processing" \/ IsHeader(Head(dataHand), Head(needData).uid),
         Head(dataHand).part # "tail",
         needData' = [needData EXCEPT ![1].parts = @ \cup {Head(dataHand)}],
         reqState' = "Processing", UNCHANGED <<inFlightUid, excused>>
  PROVE  Pipeline'
<1> DEFINE p == Stream[1]
<1>1. /\ UNCHANGED <<lost, btc, dataQ, answering>> /\ dataPc' = "top" /\ Paired(Stream, lost)' /\ dataHand' = <<>>
      /\ requests' = requests /\ requests \in Seq(Uids) /\ Stream \in Seq(Packet)
      /\ Stream # <<>> /\ Stream' = Tail(Stream) /\ Head(dataHand) = p /\ Head(Stream) = p /\ p \in Packet
  BY StepIs
<1>2. p.part = "head"
  <2>1. p.part \in {"head", "tail"}
    BY <1>1 DEF Packet
  <2> QED BY <1>1, <2>1
<1> HIDE DEF p
<1>3. /\ reqState = "Processing" => inFlightUid # NoUid /\ needData[1].uid \in lost
      /\ reqState # "Processing" =>
           p.uid = needData[1].uid /\ (inFlightUid = NoUid => needData[1].uid \in lost /\ NoReply)
      /\ needData[1].uid \notin lost => btc # "closed"
  BY <1>2, PacketIs DEF p
<1>4. /\ DOMAIN needData' = DOMAIN needData /\ 1 \in DOMAIN needData
      /\ \A i \in DOMAIN needData : needData'[i].uid = needData[i].uid
      /\ \A i \in DOMAIN needData : i # 1 => needData'[i].parts = needData[i].parts
      /\ needData'[1].parts = needData[1].parts \cup {p}
  <2>1. needData \in Seq(Entry) /\ 1 \in DOMAIN needData /\ needData[1] \in Entry
    BY FrontIs
  <2> DEFINE e == [needData[1] EXCEPT !.parts = @ \cup {p}]
  <2>2. e.uid = needData[1].uid /\ e.parts = needData[1].parts \cup {p}
    BY <2>1 DEF Entry
  <2>3. needData' = [needData EXCEPT ![1] = e]
    BY <1>1
  <2> HIDE DEF e
  <2> QED BY <2>1, <2>2, <2>3
<1>5. inFlightUid # NoUid => inFlightUid = needData[1].uid
  BY FrontIs
<1>6. Spared' = Spared
  BY <1>1 DEF Spared
<1>7. Unpumped' /\ Ghost'
  BY <1>1, <1>3 DEF Unpumped, Ghost, NoReply
<1>8. NextIsTail'
  <2> SUFFICES ASSUME inFlightUid # NoUid, inFlightUid \notin lost
               PROVE  btc # "closed" /\ Stream' # <<>> /\ Stream'[1].part = "tail" /\ Stream'[1].uid = inFlightUid
    BY <1>1 DEF NextIsTail
  <2>1. p.uid = inFlightUid /\ btc # "closed"
    BY <1>3, <1>5
  <2>2. 1 \in DOMAIN Stream
    BY <1>1
  <2>3. 1 + 1 \in DOMAIN Stream /\ Stream[1 + 1].part = "tail" /\ Stream[1 + 1].uid = inFlightUid
    BY <1>2, <2>1, <2>2 DEF Pipeline, Paired, p
  <2>4. Tail(Stream) # <<>> /\ Tail(Stream)[1] = Stream[1 + 1]
    <3>1. /\ Len(Stream) \in Nat /\ DOMAIN Stream = 1..Len(Stream)
          /\ DOMAIN Tail(Stream) = 1..(Len(Stream) - 1)
          /\ \A i \in DOMAIN Tail(Stream) : Tail(Stream)[i] = Stream[i + 1]
      BY <1>1, TailIs
    <3>2. 1 \in DOMAIN Tail(Stream)
      BY <2>3, <3>1
    <3> QED BY <3>1, <3>2
  <2> QED BY <1>1, <2>1, <2>3, <2>4
<1>9. Parts'
  <2>1. OwnParts'
    BY <1>1, <1>3, <1>4 DEF Pipeline, Parts, OwnParts
  <2>2. HeadParsed'
    BY <1>2, <1>4 DEF HeadParsed
  <2>3. Untouched'
    <3> SUFFICES ASSUME NEW i \in DOMAIN needData, needData[i].uid \in Spared, needData[i].uid # inFlightUid
                 PROVE  needData'[i].parts = {}
      BY <1>4, <1>6 DEF Untouched
    <3>1. i # 1
      BY <1>3, <1>5 DEF Spared
    <3> QED BY <1>4, <3>1 DEF Pipeline, Parts, Untouched
  <2> QED BY <2>1, <2>2, <2>3 DEF Parts
<1>10. AskedOnce'
  <2> SUFFICES ASSUME NEW u \in Spared PROVE Asked(Stream', requests', reqState', inFlightUid', u)
    BY <1>6 DEF AskedOnce
  <2>1. Asked(Stream, requests, reqState, inFlightUid, u) /\ u \in Uids
    BY DEF Pipeline, AskedOnce, Spared
  <2>2. inFlightUid = u => reqState = "Processing" \/ (Head(Stream).part = "head" /\ Head(Stream).uid = u)
    BY <1>1, <1>2, <1>3, <1>5, <2>1
  <2>3. Asked(Tail(Stream), requests, "Processing", inFlightUid, u)
    BY <1>1, <2>1, <2>2, AskedHead
  <2> QED BY <1>1, <2>3
<1> QED BY <1>1, <1>7, <1>8, <1>9, <1>10 DEF Pipeline

-----------------------------------------------------------------------------
(* A pass of loopData, by what becomes of the request.                      *)

\* Dropped, salvaged, or there was none: the front is excused.
Dropped ==
  /\ PopFront /\ ToIdle /\ excused \subseteq excused'
  /\ needData # <<>> => needData[1].uid \in excused'
  /\ UNCHANGED notifs \/ (needData # <<>> /\ Send(Head(needData).parts) /\ Evicted \subseteq excused')

Skipped == UNCHANGED <<queueVars, notifs, excused>> /\ reqState # "Processing"

Completed ==
  /\ dataHand # <<>> /\ needData # <<>> /\ reqState = "Processing" /\ ~abandonInFlight
  /\ Head(dataHand).part = "tail"
  /\ Send(Head(needData).parts \cup {Head(dataHand)})
  /\ excused' = excused \cup Evicted

Begun ==
  /\ dataHand # <<>> /\ needData # <<>> /\ Head(dataHand).part # "tail"
  /\ reqState = "Processing" \/ IsHeader(Head(dataHand), Head(needData).uid)
  /\ abandonInFlight => reqState = "Idle"
  /\ needData' = [needData EXCEPT ![1].parts = @ \cup {Head(dataHand)}]
  /\ reqState' = "Processing"
  /\ UNCHANGED <<queuedUids, inFlightUid, abandonInFlight, notifs, excused>>

LEMMA StepCases ==
  ASSUME IInv, DataStep
  PROVE  Dropped \/ Skipped \/ Completed \/ Begun
<1>1. needData # <<>> => 1 \in DOMAIN needData /\ Head(needData) = needData[1]
  BY FrontIs
<1>2. CASE DataDrop
  <2>1. PopFront /\ ToIdle /\ UNCHANGED notifs
        /\ excused' = excused \cup {needData[i].uid : i \in DOMAIN needData \cap {1}}
    BY <1>2 DEF DataDrop, DropInFlight
  <2> QED BY <1>1, <2>1 DEF Dropped
<1>3. CASE DataSalvage
  <2>1. CASE needData = <<>>
    BY <1>3, <2>1 DEF DataSalvage, Dropped, PopFront
  <2>2. CASE needData # <<>>
    <3>1. Send(Head(needData).parts) /\ excused' = excused \cup {Head(needData).uid} \cup Evicted
      BY <1>3, <2>2 DEF DataSalvage
    <3>2. PopFront /\ ToIdle
      BY <3>1 DEF Send
    <3> QED BY <1>1, <2>2, <3>1, <3>2 DEF Dropped
  <2> QED BY <2>1, <2>2
<1>4. CASE DataNothing
  BY <1>4 DEF DataNothing, Skipped
<1>5. CASE DataPacket
  <2>1. dataHand # <<>> /\ Parse(Head(dataHand)) /\ ~(abandonInFlight /\ reqState # "Idle")
    BY <1>5 DEF DataPacket, Proceeds
  <2>2. CASE needData = <<>>
    BY <2>1, <2>2 DEF Parse, Dropped, PopFront
  <2>3. CASE needData # <<>> /\ reqState # "Processing" /\ ~IsHeader(Head(dataHand), Head(needData).uid)
    BY <2>1, <2>3 DEF Parse, Skipped
  <2>4. CASE /\ needData # <<>> /\ Head(dataHand).part = "tail"
             /\ ~(reqState # "Processing" /\ ~IsHeader(Head(dataHand), Head(needData).uid))
    <3>1. reqState = "Processing"
      BY <2>4 DEF IsHeader
    <3>2. Send(Head(needData).parts \cup {Head(dataHand)}) /\ excused' = excused \cup Evicted
      BY <2>1, <2>4 DEF Parse
    <3> QED BY <2>1, <2>4, <3>1, <3>2 DEF Completed
  <2>5. CASE /\ needData # <<>> /\ Head(dataHand).part # "tail"
             /\ ~(reqState # "Processing" /\ ~IsHeader(Head(dataHand), Head(needData).uid))
    BY <2>1, <2>5 DEF Parse, Begun
  <2> QED BY <2>2, <2>3, <2>4, <2>5
<1> QED BY <1>2, <1>3, <1>4, <1>5 DEF DataStep

LEMMA PipelineKeeps == IInv /\ IInv' /\ Flushed /\ Hands /\ Pipeline /\ Next => Pipeline'
<1> SUFFICES ASSUME IInv, IInv', Flushed, Hands, Pipeline, Next PROVE Pipeline'
  OBVIOUS
<1>1. CASE Answer
  BY <1>1, PipelineAnswer
<1>2. CASE \E u \in Uids : PhoneAdds(u) \/ PhoneModifies(u) \/ PhoneRemoves(u) \/ Announce(u)
  <2>1. /\ UNCHANGED <<needData, reqState, inFlightUid, requests, dataQ, answering, dataHand, dataPc, excused, btc>>
        /\ lost \subseteq lost'
    BY <1>2 DEF PhoneAdds, PhoneModifies, PhoneRemoves, Announce, Change, Source, queueVars, dataVars, btcVars
  <2> QED BY <2>1, PipelineFrame
<1>3. CASE ServiceClose
  BY <1>3, PipelineClose
<1>4. CASE OnDiscon
  BY <1>4, PipelineDiscon
<1>5. CASE OnConn \/ PhoneOnConnect \/ OnDisconLeave \/ PhoneOnDisconnect
  <2>1. /\ UNCHANGED <<needData, reqState, inFlightUid, requests, dataQ, answering, dataHand, dataPc, excused, lost>>
        /\ btc # "closed" /\ btc' # "closed"
    BY <1>5 DEF OnConn, PhoneOnConnect, OnDisconLeave, PhoneOnDisconnect, phoneVars, queueVars, dataVars
  <2> QED BY <2>1, PipelineFrame
<1>6. CASE NotifTake \/ NotifRemove \/ RequestExpires
  <2>1. UNCHANGED <<needData, reqState, inFlightUid, requests, dataQ, answering, dataHand, dataPc, excused, lost, btc>>
    BY <1>6 DEF NotifTake, NotifRemove, RequestExpires, phoneVars, queueVars, dataVars, btcVars
  <2> QED BY <2>1, PipelineFrame
<1>7. CASE NotifQueue
  <2> DEFINE u == Head(notifEvt).uid
             m == Head(notifEvt).evt = "Modified"
  <2>1. UNCHANGED <<dataQ, answering, dataHand, dataPc, lost, btc>>
    BY <1>7 DEF NotifQueue, dataVars, btcVars
  <2>2. u \in Uids /\ m \in BOOLEAN
    <3>1. Head(notifEvt) \in SrcEvent
      BY <1>7 DEF NotifQueue, IInv, TypeOK, EventHeld
    <3> QED BY <3>1 DEF SrcEvent
  <2>3. CASE u \in queuedUids
    <3>1. MergeModify(u, m) /\ UNCHANGED <<reqState, inFlightUid, requests, excused>>
      BY <1>7, <2>3 DEF NotifQueue
    <3> HIDE DEF u, m
    <3>2. /\ Entries(needData', needData) /\ DOMAIN needData' = DOMAIN needData
          /\ \A i \in DOMAIN needData : needData'[i].parts = needData[i].parts
      BY <2>2, <3>1, MergeIs
    <3>3. needData' # <<>> => needData # <<>>
      <4>1. needData' \in Seq(Entry) /\ needData \in Seq(Entry)
        BY DEF IInv, TypeOK
      <4> QED BY <3>2, <4>1
    <3> QED BY <2>1, <3>1, <3>2, <3>3, FrontIs, PipelineQueue
  <2>4. CASE u \notin queuedUids
    <3>1. QueueNew(u, m)
      BY <1>7, <2>4 DEF NotifQueue
    <3> HIDE DEF u, m
    <3>2. /\ Entries(needData', needData) /\ PumpRequest(needData') /\ excused \subseteq excused'
          /\ inFlightUid # NoUid => needData'[1] = needData[1]
      BY <2>2, <2>4, <3>1, QueueNewIs
    <3> QED BY <2>1, <3>2, PipelinePump
  <2> QED BY <2>3, <2>4
<1>8. CASE NotifUnqueue
  <2> DEFINE u == Head(notifEvt).uid
  <2>1. UNCHANGED <<reqState, inFlightUid, requests, dataQ, answering, dataHand, dataPc, excused, lost, btc>>
    BY <1>8 DEF NotifUnqueue, phoneVars, dataVars, btcVars
  <2>2. \/ UNCHANGED needData
        \/ /\ u \in queuedUids /\ ~InFlight(u)
           /\ needData' = IF \E i \in DOMAIN needData : needData[i].uid = u
                            THEN RemoveAt(needData, IndexOf(needData, u)) ELSE needData
    BY <1>8 DEF NotifUnqueue
  <2> HIDE DEF u
  <2>3. CASE UNCHANGED needData
    BY <2>1, <2>3, EntriesSame, PipelineQueue
  <2>4. CASE /\ u \in queuedUids /\ ~InFlight(u)
             /\ needData' = IF \E i \in DOMAIN needData : needData[i].uid = u
                              THEN RemoveAt(needData, IndexOf(needData, u)) ELSE needData
    <3> DEFINE at == IndexOf(needData, u)
    <3>1. at \in DOMAIN needData /\ needData[at].uid = u /\ needData' = RemoveAt(needData, at)
      BY <2>4, FrontIs DEF IndexOf
    <3> HIDE DEF at
    <3>2. needData \in Seq(Entry) /\ at \in 1..Len(needData) /\ needData # <<>>
      BY <3>1, FrontIs
    <3>3. Entries(needData', needData)
      BY <3>1, <3>2, EntriesRemoved
    <3>4. inFlightUid # NoUid => needData'[1].parts = needData[1].parts
      <4> SUFFICES ASSUME inFlightUid # NoUid PROVE needData'[1] = needData[1]
        OBVIOUS
      <4>1. at # 1
        BY <2>4, <3>1, FrontIs DEF InFlight
      <4>2. 1 \in 1..(Len(needData) - 1) /\ 1 < at
        BY <3>2, <4>1
      <4> QED BY <3>1, <3>2, <4>2, RemoveAtProps
    <3> QED BY <2>1, <3>2, <3>3, <3>4, PipelineQueue
  <2> QED BY <2>2, <2>3, <2>4
<1>9. CASE DataPump
  <2>1. /\ UNCHANGED <<dataQ, answering, dataHand, lost, btc, excused, needData>>
        /\ PumpRequest(needData')
    BY <1>9 DEF DataPump, btcVars
  <2> QED BY <2>1, EntriesSame, PipelinePump
<1>10. CASE DataTake
  BY <1>10, PipelineTake
<1>11. CASE DataStep
  <2>1. CASE Dropped
    BY <1>11, <2>1, PipelineDropped DEF Dropped
  <2>2. CASE Skipped
    BY <1>11, <2>2, PipelineSkips DEF Skipped
  <2>3. CASE Completed
    <3>1. PopFront /\ ToIdle
      BY <2>3 DEF Completed, Send
    <3> QED BY <1>11, <2>3, <3>1, PipelineSent DEF Completed
  <2>4. CASE Begun
    BY <1>11, <2>4, PipelineHead DEF Begun
  <2> QED BY <1>11, <2>1, <2>2, <2>3, <2>4, StepCases
<1> QED BY <1>1, <1>2, <1>3, <1>4, <1>5, <1>6, <1>7, <1>8, <1>9, <1>10, <1>11
        DEF Next, PhoneNext, Btc, NotifThread, DataThread

-----------------------------------------------------------------------------
(* The entries of the store after a call.                                   *)

LEMMA ReplaceIs ==
  ASSUME NEW ns, NEW n
  PROVE  /\ \A i \in DOMAIN Replace(ns, n) :
              Replace(ns, n)[i] = n \/ \E j \in DOMAIN ns : Replace(ns, n)[i] = ns[j] /\ ns[j].uid # n.uid
         /\ Has(ns, n.uid) => \E i \in DOMAIN Replace(ns, n) : Replace(ns, n)[i] = n
BY DEF Replace, Has

Pushed(ns, n) == Append(SubSeq(ns, Excess(ns) + 1, Len(ns)), n)

LEMMA PushIs ==
  ASSUME NEW S, NEW ns \in Seq(S), NEW n \in S, Len(ns) =< MaxNotifs
  PROVE  /\ \A i \in DOMAIN Pushed(ns, n) : Pushed(ns, n)[i] = n \/ \E j \in DOMAIN ns : Pushed(ns, n)[i] = ns[j]
         /\ \E i \in DOMAIN Pushed(ns, n) : Pushed(ns, n)[i] = n
<1> DEFINE a == SubSeq(ns, Excess(ns) + 1, Len(ns))
           new == Append(a, n)
<1>1. Excess(ns) \in Nat /\ Len(ns) \in Nat
  BY DEF Excess
<1>2. /\ a \in Seq(S)
      /\ \A i \in 1..Len(a) : \E j \in DOMAIN ns : a[i] = ns[j]
  <2> DEFINE k == Excess(ns)
  <2>1. k \in Nat
    BY <1>1
  <2> HIDE DEF k
  <2>2. SubSeq(ns, k + 1, Len(ns)) \in Seq(S)
    BY <2>1
  <2>3. \A i \in 1..Len(SubSeq(ns, k + 1, Len(ns))) :
          k + i \in DOMAIN ns /\ SubSeq(ns, k + 1, Len(ns))[i] = ns[k + i]
    BY <2>1
  <2> QED BY <2>2, <2>3 DEF k
<1> HIDE DEF a
<1>3. /\ DOMAIN a = 1..Len(a) /\ DOMAIN new = 1..(Len(a) + 1) /\ Len(a) \in Nat
      /\ (\A i \in DOMAIN a : i \in DOMAIN new /\ new[i] = a[i]) /\ new[Len(a) + 1] = n
  BY <1>2, AppendIs
<1> HIDE DEF new
<1>4. (\A i \in DOMAIN new : i \in DOMAIN a \/ i = Len(a) + 1) /\ Len(a) + 1 \in DOMAIN new
  BY <1>3
<1> QED BY <1>2, <1>3, <1>4 DEF a, new, Pushed

LEMMA OnAddIs ==
  ASSUME NEW S, NEW ns \in Seq(S), NEW n \in S, Len(ns) =< MaxNotifs
  PROVE  /\ \A i \in DOMAIN OnAdd(ns, n) :
              OnAdd(ns, n)[i] = n
              \/ \E j \in DOMAIN ns : OnAdd(ns, n)[i] = ns[j] /\ (~n.empty => ns[j].uid # n.uid)
         /\ ~n.empty => \E i \in DOMAIN OnAdd(ns, n) : OnAdd(ns, n)[i] = n
<1>1. CASE n.empty
  BY <1>1 DEF OnAdd
<1>2. CASE ~n.empty /\ Has(ns, n.uid)
  <2>1. OnAdd(ns, n) = Replace(ns, n)
    BY <1>2 DEF OnAdd
  <2>2. /\ \A i \in DOMAIN Replace(ns, n) :
             Replace(ns, n)[i] = n \/ \E j \in DOMAIN ns : Replace(ns, n)[i] = ns[j] /\ ns[j].uid # n.uid
        /\ \E i \in DOMAIN Replace(ns, n) : Replace(ns, n)[i] = n
    BY <1>2 DEF Replace, Has
  <2> QED BY <2>1, <2>2
<1>3. CASE ~n.empty /\ ~Has(ns, n.uid)
  <2>1. OnAdd(ns, n) = Pushed(ns, n)
    BY <1>3 DEF OnAdd, Pushed
  <2>2. \A j \in DOMAIN ns : ns[j].uid # n.uid
    BY <1>3 DEF Has
  <2> DEFINE new == OnAdd(ns, n)
  <2>3. /\ \A i \in DOMAIN new : new[i] = n \/ \E j \in DOMAIN ns : new[i] = ns[j]
        /\ \E i \in DOMAIN new : new[i] = n
    BY <2>1, PushIs
  <2> HIDE DEF new
  <2>4. \A i \in DOMAIN new : new[i] = n \/ \E j \in DOMAIN ns : new[i] = ns[j] /\ ns[j].uid # n.uid
    BY <2>2, <2>3
  <2> QED BY <2>3, <2>4 DEF new
<1> QED BY <1>1, <1>2, <1>3

LEMMA OnModifyIs ==
  ASSUME NEW S, NEW ns \in Seq(S), NEW n \in S, Len(ns) =< MaxNotifs
  PROVE  /\ \A i \in DOMAIN OnModify(ns, n) :
              OnModify(ns, n)[i] = n
              \/ \E j \in DOMAIN ns : OnModify(ns, n)[i] = ns[j] /\ (~n.empty => ns[j].uid # n.uid)
         /\ ~n.empty => \E i \in DOMAIN OnModify(ns, n) : OnModify(ns, n)[i] = n
<1>1. CASE Has(ns, n.uid)
  <2>1. OnModify(ns, n) = Replace(ns, n)
    BY <1>1 DEF OnModify
  <2>2. /\ \A i \in DOMAIN Replace(ns, n) :
             Replace(ns, n)[i] = n \/ \E j \in DOMAIN ns : Replace(ns, n)[i] = ns[j] /\ ns[j].uid # n.uid
        /\ \E i \in DOMAIN Replace(ns, n) : Replace(ns, n)[i] = n
    BY <1>1 DEF Replace, Has
  <2> QED BY <2>1, <2>2
<1>2. CASE ~Has(ns, n.uid)
  BY <1>2, OnAddIs DEF OnModify
<1> QED BY <1>1, <1>2

LEMMA EraseIs ==
  ASSUME NEW S, NEW ns \in Seq(S), NEW u
  PROVE  /\ \A i \in DOMAIN Erase(ns, u) : \E j \in DOMAIN ns : Erase(ns, u)[i] = ns[j]
         /\ \A j \in DOMAIN ns : ns[j].uid # u => \E i \in DOMAIN Erase(ns, u) : Erase(ns, u)[i] = ns[j]
<1>1. CASE ~Has(ns, u)
  BY <1>1 DEF Erase
<1>2. CASE Has(ns, u)
  <2> DEFINE k == FindNotif(ns, u)
             r == RemoveAt(ns, k)
  <2>1. k \in 1..Len(ns) /\ ns[k].uid = u
    BY <1>2, FindNotifProps
  <2> HIDE DEF k
  <2>2. /\ r \in Seq(S) /\ Len(r) = Len(ns) - 1
        /\ \A j \in 1..(Len(ns) - 1) : r[j] = IF j < k THEN ns[j] ELSE ns[j + 1]
    BY <2>1, RemoveAtProps
  <2> HIDE DEF r
  <2>3. Len(ns) \in Nat /\ DOMAIN ns = 1..Len(ns) /\ DOMAIN r = 1..(Len(ns) - 1)
    BY <2>1, <2>2
  <2>4. ASSUME NEW i \in DOMAIN r PROVE \E j \in DOMAIN ns : r[i] = ns[j]
    <3>1. i \in DOMAIN ns /\ i + 1 \in DOMAIN ns
      BY <2>3
    <3>2. r[i] = ns[i] \/ r[i] = ns[i + 1]
      BY <2>2, <2>3
    <3> QED BY <3>1, <3>2
  <2>5. ASSUME NEW j \in DOMAIN ns, ns[j].uid # u PROVE \E i \in DOMAIN r : r[i] = ns[j]
    <3>1. j # k
      BY <2>1, <2>5
    <3>2. CASE j < k
      <4>1. j \in DOMAIN r
        BY <2>1, <2>3, <3>2
      <4> QED BY <2>2, <2>3, <3>2, <4>1
    <3>3. CASE j > k
      <4>1. j - 1 \in DOMAIN r /\ ~(j - 1 < k) /\ j - 1 + 1 = j
        BY <2>1, <2>3, <3>3
      <4> QED BY <2>2, <2>3, <4>1
    <3> QED BY <2>1, <2>3, <3>1, <3>2, <3>3
  <2> QED BY <1>2, <2>4, <2>5 DEF Erase, k, r
<1> QED BY <1>1, <1>2

StoreDistinct == Distinct(notifs)

\* The notification made of the front of needData.
Notice(parts) == [uid |-> needData[1].uid, parts |-> parts, empty |-> parts = {}]

\* What send leaves in the store: the notice, the old entries of other uids
\* that are not evicted, and nothing else of its uid unless it is empty.
LEMMA SendIs ==
  ASSUME IInv, StoreDistinct, needData # <<>>, NEW parts \in SUBSET Packet, Send(parts)
  PROVE  /\ \A i \in DOMAIN notifs' :
              notifs'[i] = Notice(parts)
              \/ \E j \in DOMAIN notifs : notifs'[i] = notifs[j] /\ (parts # {} => notifs[j].uid # needData[1].uid)
         /\ parts # {} => \E i \in DOMAIN notifs' : notifs'[i] = Notice(parts)
         /\ \A j \in DOMAIN notifs : notifs[j].uid # needData[1].uid =>
              notifs[j].uid \in Evicted \/ \E i \in DOMAIN notifs' : notifs'[i] = notifs[j]
         /\ StoreDistinct'
<1> DEFINE n == [uid |-> needData[1].uid, parts |-> parts, empty |-> parts = {}]
<1>0. n = Notice(parts)
  BY DEF Notice
<1>1. n.uid = needData[1].uid /\ n.parts = parts /\ (n.empty <=> parts = {})
  OBVIOUS
<1>2. n \in Shown
  <2>1. (parts = {}) \in BOOLEAN
    OBVIOUS
  <2> QED BY <2>1, FrontIs DEF Shown
<1>3. notifs' = OnAdd(notifs, n) \/ notifs' = OnModify(notifs, n)
  BY FrontIs DEF Send
<1> HIDE DEF n
<1>4. notifs \in Seq(Shown) /\ Len(notifs) =< MaxNotifs
  BY DEF IInv, TypeOK
<1>5. /\ \A i \in DOMAIN notifs' :
           notifs'[i] = n \/ \E j \in DOMAIN notifs : notifs'[i] = notifs[j] /\ (~n.empty => notifs[j].uid # n.uid)
      /\ ~n.empty => \E i \in DOMAIN notifs' : notifs'[i] = n
  BY <1>2, <1>3, <1>4, OnAddIs, OnModifyIs
<1>6. StoreDistinct'
  BY <1>2, <1>3, <1>4, OnAddProps, OnModifyProps DEF StoreDistinct
<1>7. ASSUME NEW j \in DOMAIN notifs, notifs[j].uid # n.uid, notifs[j].uid \notin Evicted
      PROVE  \E i \in DOMAIN notifs' : notifs'[i] = notifs[j]
  <2>1. PICK i \in DOMAIN notifs' : notifs'[i].uid = notifs[j].uid
    BY <1>7 DEF Evicted, UidsOf
  <2>2. PICK k \in DOMAIN notifs : notifs'[i] = notifs[k]
    BY <1>5, <1>7, <2>1
  <2>3. k = j
    BY <2>1, <2>2 DEF StoreDistinct, Distinct
  <2> QED BY <2>2, <2>3
<1> QED BY <1>0, <1>1, <1>5, <1>6, <1>7

-----------------------------------------------------------------------------
(* The store outside a set X of uids is what it was.                        *)

StoreBut(X) ==
  /\ \A j \in DOMAIN notifs : notifs[j].uid \notin X => \E i \in DOMAIN notifs' : notifs'[i] = notifs[j]
  /\ \A i \in DOMAIN notifs' : notifs'[i].uid \notin X => \E j \in DOMAIN notifs : notifs'[i] = notifs[j]

LEMMA StoreSame ==
  ASSUME UNCHANGED notifs, NEW X
  PROVE  StoreBut(X)
BY DEF StoreBut

LEMMA StoreButIs ==
  ASSUME NEW X, StoreBut(X), NEW u, u \notin X
  PROVE  (Complete(u) => Complete(u)') /\ (Has(notifs, u)' => Has(notifs, u))
<1>1. ASSUME Complete(u) PROVE Complete(u)'
  <2>1. PICK j \in DOMAIN notifs : notifs[j].uid = u /\ {p.part : p \in notifs[j].parts} = {"head", "tail"}
    BY <1>1 DEF Complete
  <2>2. PICK i \in DOMAIN notifs' : notifs'[i] = notifs[j]
    BY <2>1 DEF StoreBut
  <2> QED BY <2>1, <2>2 DEF Complete
<1>2. ASSUME Has(notifs, u)' PROVE Has(notifs, u)
  BY <1>2 DEF Has, StoreBut
<1> QED BY <1>1, <1>2

LEMMA StoreErased ==
  ASSUME IInv, StoreDistinct, NEW u, notifs' = Erase(notifs, u)
  PROVE  StoreBut({u}) /\ StoreDistinct' /\ ~Has(notifs, u)'
         /\ \A i \in DOMAIN notifs' : \E j \in DOMAIN notifs : notifs'[i] = notifs[j]
<1>1. notifs \in Seq(Shown) /\ Len(notifs) =< MaxNotifs
  BY DEF IInv, TypeOK
<1>2. StoreDistinct' /\ ~Has(notifs, u)'
  BY <1>1, EraseProps DEF StoreDistinct
<1>3. /\ \A i \in DOMAIN notifs' : \E j \in DOMAIN notifs : notifs'[i] = notifs[j]
      /\ \A j \in DOMAIN notifs : notifs[j].uid # u => \E i \in DOMAIN notifs' : notifs'[i] = notifs[j]
  BY <1>1, EraseIs
<1> QED BY <1>2, <1>3 DEF StoreBut

\* What a pass of loopData leaves of the queue, the store and the request.
LEMMA StoreDropped ==
  ASSUME IInv, StoreDistinct, Dropped
  PROVE  /\ StoreBut(excused') /\ StoreDistinct'
         /\ needData # <<>> => needData[1].uid \in excused'
         /\ \A i \in DOMAIN notifs' :
              \/ \E j \in DOMAIN notifs : notifs'[i] = notifs[j]
              \/ needData # <<>> /\ notifs'[i].uid = needData[1].uid /\ notifs'[i].parts = needData[1].parts
<1>1. needData # <<>> => needData[1].uid \in excused'
  BY DEF Dropped
<1>2. CASE UNCHANGED notifs
  BY <1>1, <1>2, StoreSame DEF StoreDistinct
<1>3. CASE needData # <<>> /\ Send(Head(needData).parts) /\ Evicted \subseteq excused'
  <2>1. Head(needData) = needData[1] /\ needData[1].parts \in SUBSET Packet
    BY <1>3, FrontIs DEF Entry
  <2> DEFINE parts == needData[1].parts
  <2>2. /\ \A i \in DOMAIN notifs' :
             notifs'[i] = Notice(parts)
             \/ \E j \in DOMAIN notifs : notifs'[i] = notifs[j] /\ (parts # {} => notifs[j].uid # needData[1].uid)
        /\ \A j \in DOMAIN notifs : notifs[j].uid # needData[1].uid =>
             notifs[j].uid \in Evicted \/ \E i \in DOMAIN notifs' : notifs'[i] = notifs[j]
        /\ StoreDistinct'
    BY <1>3, <2>1, SendIs
  <2>3. Notice(parts).uid = needData[1].uid /\ Notice(parts).parts = parts
    BY DEF Notice
  <2>4. StoreBut(excused')
    BY <1>1, <1>3, <2>2, <2>3 DEF StoreBut
  <2> QED BY <1>1, <1>3, <2>2, <2>3, <2>4
<1> QED BY <1>2, <1>3 DEF Dropped

LEMMA StoreCompleted ==
  ASSUME IInv, Flushed, Hands, Pipeline, StoreDistinct, DataStep, Completed
  PROVE  /\ StoreBut(excused' \cup {needData[1].uid}) /\ StoreDistinct'
         /\ \A u : u = needData[1].uid => Complete(u)'
         /\ Stream # <<>> /\ Stream[1] \in Packet
         /\ needData[1].uid \notin lost => Stream[1].uid = needData[1].uid
         /\ \A i \in DOMAIN notifs' :
              \/ \E j \in DOMAIN notifs : notifs'[i] = notifs[j] /\ notifs[j].uid # needData[1].uid
              \/ notifs'[i].uid = needData[1].uid /\ notifs'[i].parts = needData[1].parts \cup {Stream[1]}
         /\ PopFront /\ ToIdle
<1>1. /\ dataHand # <<>> /\ needData # <<>> /\ reqState = "Processing" /\ Head(dataHand).part = "tail"
      /\ Send(Head(needData).parts \cup {Head(dataHand)}) /\ excused' = excused \cup Evicted
  BY DEF Completed
<1>2. Stream # <<>> /\ Stream[1] \in Packet /\ Head(dataHand) = Stream[1]
  BY <1>1, StepIs
<1>3. Head(needData) = needData[1] /\ needData[1].parts \in SUBSET Packet
  BY <1>1, FrontIs DEF Entry
<1> DEFINE parts == needData[1].parts \cup {Stream[1]}
<1>4. parts \in SUBSET Packet /\ parts # {} /\ Send(parts)
  BY <1>1, <1>2, <1>3
<1>5. /\ inFlightUid # NoUid
      /\ needData[1].uid \notin lost => Stream[1].uid = needData[1].uid
  BY <1>1, PacketIs
<1>6. \E p \in parts : p.part = "head"
  BY <1>1, <1>5 DEF Pipeline, Parts, HeadParsed
<1>7. \E p \in parts : p.part = "tail"
  BY <1>1, <1>2
<1> HIDE DEF parts
<1>8. /\ \A i \in DOMAIN notifs' :
           notifs'[i] = Notice(parts)
           \/ \E j \in DOMAIN notifs : notifs'[i] = notifs[j] /\ (parts # {} => notifs[j].uid # needData[1].uid)
      /\ parts # {} => \E i \in DOMAIN notifs' : notifs'[i] = Notice(parts)
      /\ \A j \in DOMAIN notifs : notifs[j].uid # needData[1].uid =>
           notifs[j].uid \in Evicted \/ \E i \in DOMAIN notifs' : notifs'[i] = notifs[j]
      /\ StoreDistinct'
  BY <1>1, <1>4, SendIs
<1>9. Notice(parts).uid = needData[1].uid /\ Notice(parts).parts = parts
  BY DEF Notice
<1>10. {p.part : p \in parts} = {"head", "tail"}
  BY <1>4, <1>6, <1>7 DEF Packet
<1>11. ASSUME NEW u, u = needData[1].uid PROVE Complete(u)'
  <2>1. PICK i \in DOMAIN notifs' : notifs'[i] = Notice(parts)
    BY <1>4, <1>8
  <2> QED BY <1>9, <1>10, <1>11, <2>1 DEF Complete
<1>12. StoreBut(excused' \cup {needData[1].uid})
  BY <1>1, <1>8, <1>9 DEF StoreBut
<1>13. PopFront /\ ToIdle
  BY <1>4 DEF Send
<1> QED BY <1>2, <1>4, <1>5, <1>8, <1>9, <1>11, <1>12, <1>13 DEF parts

LEMMA StoreDistinctKeeps ==
  IInv /\ Flushed /\ Hands /\ Pipeline /\ StoreDistinct /\ Next => StoreDistinct'
<1> SUFFICES ASSUME IInv, Flushed, Hands, Pipeline, StoreDistinct, Next PROVE StoreDistinct'
  OBVIOUS
<1>1. CASE UNCHANGED notifs
  BY <1>1 DEF StoreDistinct
<1>2. CASE notifs' = <<>>
  BY <1>2 DEF StoreDistinct, Distinct
<1>3. CASE NotifRemove
  BY <1>3, StoreErased DEF NotifRemove
<1>4. CASE DataStep
  BY <1>4, StepCases, StoreDropped, StoreCompleted DEF Skipped, Begun, StoreDistinct
<1> QED BY <1>1, <1>2, <1>3, <1>4
        DEF Next, PhoneNext, Btc, NotifThread, DataThread, Answer, PhoneAdds, PhoneModifies, PhoneRemoves,
            Announce, Change, OnConn, PhoneOnConnect, ServiceClose, OnDiscon, OnDisconLeave,
            PhoneOnDisconnect, NotifTake, NotifQueue, NotifUnqueue, DataPump, DataTake, RequestExpires, storeVars

-----------------------------------------------------------------------------
(* The events on their way, and what the watch still owes the phone.        *)

\* A Removed is the last event of its uid, and the notification is gone.
RemovedLast == \A i \in DOMAIN Held : Held[i].evt = "Removed" =>
  phone[Held[i].uid] = "gone" /\ \A j \in DOMAIN Held : j > i => Held[j].uid # Held[i].uid

Known == \A u \in announced : phone[u] # "none"

\* An Added or Modified still to be handled; a Removed not handled yet.
Pending(u) == \E i \in DOMAIN Held : Held[i].uid = u /\ Held[i].evt # "Removed"
Parting(u) == \E i \in DOMAIN Held :
  Held[i].evt = "Removed" /\ Held[i].uid = u /\ ~(i = 1 /\ notifPc = "rem")

\* What the phone has is on its way to the store, or there.
Arriving(u) == phone[u] = "active" => Pending(u) \/ u \in queuedUids \/ Complete(u)
Coming == btc = "up" => \A u \in announced \cap Spared : Arriving(u)

\* What the watch queues and shows was announced in this session.
Ours == \A u \in Spared :
  /\ btc # "closed" /\ u \in queuedUids => u \in announced
  /\ btc = "up" /\ Has(notifs, u) => u \in announced

\* What the phone has removed is on its way out, or out.
Settled(u) == u \notin queuedUids \/ (abandonInFlight /\ reqState # "Idle" /\ inFlightUid = u)
Leaving(u) ==
  \/ Parting(u)
  \/ Settled(u) /\ ~Pending(u) /\ (Has(notifs, u) => notifPc = "rem" /\ notifEvt[1].uid = u)
Going == btc = "up" => \A u \in announced \cap Spared : phone[u] = "gone" => Leaving(u)

Events == RemovedLast /\ Known /\ Coming /\ Ours /\ Going

-----------------------------------------------------------------------------
(* Lemmas on the events held.                                               *)

LEMMA HeldUids ==
  ASSUME IInv
  PROVE  \A i \in DOMAIN Held : Held[i].uid \in Uids /\ i \in Nat
<1>1. Held \in Seq(SrcEvent)
  BY StreamIs DEF IInv
<1>2. \A i \in DOMAIN Held : Held[i] \in SrcEvent /\ i \in Nat
  BY <1>1
<1>3. \A e \in SrcEvent : e.uid \in Uids
  BY DEF SrcEvent
<1> QED BY <1>2, <1>3

LEMMA HeldTail ==
  ASSUME IInv, Held # <<>>, Held' = Tail(Held), notifPc' = "get"
  PROVE  /\ \A u : Pending(u)' => Pending(u)
         /\ \A u : Pending(u) => Pending(u)' \/ (Held[1].uid = u /\ Held[1].evt # "Removed")
         /\ \A u : Parting(u) => Parting(u)' \/ (Held[1].uid = u /\ Held[1].evt = "Removed" /\ notifPc # "rem")
         /\ RemovedLast /\ UNCHANGED phone => RemovedLast'
<1>1. Held \in Seq(SrcEvent)
  BY StreamIs DEF IInv
<1>2. /\ 1 \in DOMAIN Held /\ Len(Held) \in Nat /\ DOMAIN Held = 1..Len(Held)
      /\ DOMAIN Held' = 1..(Len(Held) - 1)
      /\ \A i \in DOMAIN Held' : i \in Nat /\ i + 1 \in DOMAIN Held /\ Held'[i] = Held[i + 1]
  BY <1>1, TailIs
<1>3. \A i \in DOMAIN Held : i = 1 \/ (i - 1 \in DOMAIN Held' /\ i - 1 + 1 = i)
  BY <1>2
<1>4. ASSUME NEW i \in DOMAIN Held, i # 1 PROVE \E j \in DOMAIN Held' : Held'[j] = Held[i]
  <2>1. i - 1 \in DOMAIN Held' /\ i - 1 + 1 = i
    BY <1>3, <1>4
  <2>2. Held'[i - 1] = Held[i - 1 + 1]
    BY <1>2, <2>1
  <2> QED BY <2>1, <2>2
<1>5. ASSUME NEW u, Pending(u)' PROVE Pending(u)
  BY <1>2, <1>5 DEF Pending
<1>6. ASSUME NEW u, Pending(u) PROVE Pending(u)' \/ (Held[1].uid = u /\ Held[1].evt # "Removed")
  BY <1>4, <1>6 DEF Pending
<1>7. ASSUME NEW u, Parting(u)
      PROVE  Parting(u)' \/ (Held[1].uid = u /\ Held[1].evt = "Removed" /\ notifPc # "rem")
  <2>1. PICK i \in DOMAIN Held : Held[i].evt = "Removed" /\ Held[i].uid = u /\ ~(i = 1 /\ notifPc = "rem")
    BY <1>7 DEF Parting
  <2>2. CASE i = 1
    BY <2>1, <2>2
  <2>3. CASE i # 1
    <3>1. PICK j \in DOMAIN Held' : Held'[j] = Held[i]
      BY <1>4, <2>3
    <3>2. Parting(u)'
      BY <2>1, <3>1 DEF Parting
    <3> QED BY <3>2
  <2> QED BY <2>2, <2>3
<1>8. ASSUME RemovedLast, UNCHANGED phone PROVE RemovedLast'
  <2> SUFFICES ASSUME NEW i \in DOMAIN Held', Held'[i].evt = "Removed"
               PROVE  phone[Held'[i].uid] = "gone"
                      /\ \A j \in DOMAIN Held' : j > i => Held'[j].uid # Held'[i].uid
    BY <1>8 DEF RemovedLast
  <2>1. i + 1 \in DOMAIN Held /\ Held'[i] = Held[i + 1]
    BY <1>2
  <2>2. phone[Held'[i].uid] = "gone" /\ \A j \in DOMAIN Held : j > i + 1 => Held[j].uid # Held'[i].uid
    BY <1>8, <2>1 DEF RemovedLast
  <2>3. ASSUME NEW j \in DOMAIN Held', j > i PROVE j + 1 \in DOMAIN Held /\ j + 1 > i + 1 /\ Held'[j] = Held[j + 1]
    BY <1>2, <2>3
  <2> QED BY <2>2, <2>3
<1> QED BY <1>5, <1>6, <1>7, <1>8

\* A new event, or one lost with the packet of a full queue.
LEMMA SourceIs ==
  ASSUME IInv, Hands, NEW e \in SrcEvent, Source(e), UNCHANGED notifVars
  PROVE  /\ \A u : Pending(u) => Pending(u)'
         /\ \A u : e.uid # u => (Pending(u)' => Pending(u))
         /\ \A u : Parting(u) => Parting(u)'
         /\ e.uid \in lost' \/ (e.evt # "Removed" /\ \A u : u = e.uid => Pending(u)')
                            \/ (e.evt = "Removed" /\ \A u : u = e.uid => Parting(u)')
         /\ RemovedLast /\ phone[e.uid] = "active" /\ (e.evt = "Removed" => phone'[e.uid] = "gone")
            /\ (\A u \in Uids : phone[u] = "gone" => phone'[u] = "gone") => RemovedLast'
<1>1. Held \in Seq(SrcEvent)
  BY StreamIs DEF IInv
<1>2. UNCHANGED <<notifPc, notifEvt>>
  BY DEF notifVars
<1>3. \/ Held' = Append(Held, e) /\ UNCHANGED lost
      \/ Held' = Held /\ lost' = lost \cup {e.uid}
  BY <1>2, HeldSource DEF IInv
<1>4. \A i \in DOMAIN Held : Held[i].uid \in Uids /\ i \in Nat
  BY HeldUids
<1>5. CASE Held' = Held /\ lost' = lost \cup {e.uid}
  BY <1>2, <1>4, <1>5 DEF Pending, Parting, RemovedLast
<1>6. CASE Held' = Append(Held, e)
  <2> DEFINE n == Len(Held)
  <2>1. /\ n \in Nat /\ DOMAIN Held = 1..n /\ DOMAIN Held' = 1..(n + 1)
        /\ (\A i \in DOMAIN Held : i \in DOMAIN Held' /\ Held'[i] = Held[i]) /\ Held'[n + 1] = e
    BY <1>1, <1>6, AppendIs
  <2> HIDE DEF n
  <2>2. n + 1 \in DOMAIN Held' /\ (\A i \in DOMAIN Held' : i \in DOMAIN Held \/ i = n + 1)
    BY <2>1
  <2>3. \A u : Pending(u) => Pending(u)'
    BY <2>1 DEF Pending
  <2>4. \A u : e.uid # u => (Pending(u)' => Pending(u))
    BY <2>1, <2>2 DEF Pending
  <2>5. \A u : Parting(u) => Parting(u)'
    BY <1>2, <2>1 DEF Parting
  <2>6. CASE e.evt # "Removed"
    <3>1. \A u : u = e.uid => Pending(u)'
      BY <2>1, <2>2, <2>6 DEF Pending
    <3>2. RemovedLast /\ phone[e.uid] = "active" /\ (\A u \in Uids : phone[u] = "gone" => phone'[u] = "gone")
          => RemovedLast'
      <4> SUFFICES ASSUME RemovedLast, phone[e.uid] = "active",
                          \A u \in Uids : phone[u] = "gone" => phone'[u] = "gone",
                          NEW i \in DOMAIN Held', Held'[i].evt = "Removed"
                   PROVE  /\ phone'[Held'[i].uid] = "gone"
                          /\ \A j \in DOMAIN Held' : j > i => Held'[j].uid # Held'[i].uid
        BY DEF RemovedLast
      <4>1. i \in DOMAIN Held /\ Held'[i] = Held[i]
        BY <2>1, <2>2, <2>6
      <4>2. phone[Held[i].uid] = "gone" /\ \A j \in DOMAIN Held : j > i => Held[j].uid # Held[i].uid
        BY <4>1 DEF RemovedLast
      <4>3. e.uid # Held[i].uid
        BY <4>2
      <4> QED BY <1>4, <2>1, <2>2, <4>1, <4>2, <4>3
    <3> QED BY <2>3, <2>4, <2>5, <2>6, <3>1, <3>2
  <2>7. CASE e.evt = "Removed"
    <3>1. notifPc = "rem" => n + 1 # 1
      <4>1. notifPc = "rem" => Held # <<>>
        BY HeldFirst DEF IInv
      <4> QED BY <1>1, <2>1, <4>1 DEF n
    <3>2. \A u : u = e.uid => Parting(u)'
      BY <1>2, <2>1, <2>2, <2>7, <3>1 DEF Parting
    <3>3. RemovedLast /\ phone[e.uid] = "active" /\ phone'[e.uid] = "gone"
            /\ (\A u \in Uids : phone[u] = "gone" => phone'[u] = "gone")
          => RemovedLast'
      <4> SUFFICES ASSUME RemovedLast, phone[e.uid] = "active", phone'[e.uid] = "gone",
                          \A u \in Uids : phone[u] = "gone" => phone'[u] = "gone",
                          NEW i \in DOMAIN Held', Held'[i].evt = "Removed"
                   PROVE  /\ phone'[Held'[i].uid] = "gone"
                          /\ \A j \in DOMAIN Held' : j > i => Held'[j].uid # Held'[i].uid
        BY DEF RemovedLast
      <4>1. CASE i = n + 1
        <5>1. \A j \in DOMAIN Held' : ~(j > i)
          BY <2>1, <4>1
        <5> QED BY <2>1, <4>1, <5>1
      <4>2. CASE i \in DOMAIN Held
        <5>1. Held'[i] = Held[i]
          BY <2>1, <4>2
        <5>2. phone[Held[i].uid] = "gone" /\ \A j \in DOMAIN Held : j > i => Held[j].uid # Held[i].uid
          BY <4>2, <5>1 DEF RemovedLast
        <5>3. e.uid # Held[i].uid
          BY <5>2
        <5> QED BY <1>4, <2>1, <2>2, <4>2, <5>1, <5>2, <5>3
      <4> QED BY <2>2, <4>1, <4>2
    <3> QED BY <2>3, <2>4, <2>5, <2>7, <3>2, <3>3
  <2> QED BY <2>6, <2>7
<1> QED BY <1>3, <1>5, <1>6

\* Events that stay, or of which the last are flushed.
LEMMA RemovedLess ==
  ASSUME RemovedLast, Within(Held', Held, 0),
         \A i \in DOMAIN Held : phone[Held[i].uid] = "gone" => phone'[Held[i].uid] = "gone"
  PROVE  RemovedLast'
<1> SUFFICES ASSUME NEW i \in DOMAIN Held', Held'[i].evt = "Removed"
             PROVE  phone'[Held'[i].uid] = "gone" /\ \A j \in DOMAIN Held' : j > i => Held'[j].uid # Held'[i].uid
  BY DEF RemovedLast
<1>1. \A j \in DOMAIN Held' : j \in DOMAIN Held /\ Held'[j] = Held[j]
  BY DEF Within
<1> QED BY <1>1 DEF RemovedLast

LEMMA WithinHeld ==
  ASSUME IInv, Held' = Held
  PROVE  Within(Held', Held, 0)
<1>1. Held \in Seq(SrcEvent)
  BY StreamIs DEF IInv
<1> QED BY <1>1, WithinSelf

\* A step that leaves alone all that the events are measured by.
LEMMA EventsFrame ==
  ASSUME IInv, Events, Spared' \subseteq Spared, Held' = Held,
         UNCHANGED <<btc, notifPc, notifEvt, announced, queuedUids, notifs, abandonInFlight>>,
         \A u \in Uids : phone[u] = "gone" => phone'[u] = "gone",
         \A u \in announced : phone'[u] = phone[u],
         abandonInFlight /\ reqState # "Idle" => UNCHANGED <<reqState, inFlightUid>>
  PROVE  Events'
<1>1. RemovedLast'
  <2>1. \A i \in DOMAIN Held : Held[i].uid \in Uids
    BY HeldUids
  <2> QED BY <2>1, WithinHeld, RemovedLess DEF Events
<1>2. \A u : (Pending(u)' <=> Pending(u)) /\ (Parting(u)' <=> Parting(u)) /\ (Complete(u)' <=> Complete(u))
             /\ (Has(notifs, u)' <=> Has(notifs, u)) /\ (Settled(u) => Settled(u)')
  BY DEF Pending, Parting, Complete, Settled
<1>3. Known'
  BY DEF Events, Known
<1>4. Coming'
  BY <1>2 DEF Events, Coming, Arriving
<1>5. Ours'
  BY <1>2 DEF Events, Ours
<1>6. Going'
  BY <1>2 DEF Events, Going, Leaving
<1> QED BY <1>1, <1>3, <1>4, <1>5, <1>6 DEF Events

-----------------------------------------------------------------------------
(* The events, step by step.                                                *)

LEMMA EventsPhone ==
  ASSUME IInv, Hands, Events, NEW u \in Uids,
         PhoneAdds(u) \/ PhoneModifies(u) \/ PhoneRemoves(u) \/ Announce(u)
  PROVE  Events'
<1>1. /\ UNCHANGED <<btc, notifPc, notifEvt, queuedUids, notifs, abandonInFlight, reqState, inFlightUid, excused>>
      /\ UNCHANGED notifVars
  BY DEF PhoneAdds, PhoneModifies, PhoneRemoves, Announce, Change, queueVars, notifVars, btcVars, storeVars
<1>2. lost \subseteq lost'
  BY DEF PhoneAdds, PhoneModifies, PhoneRemoves, Announce, Source
<1>3. Spared' \subseteq Spared
  BY <1>1, <1>2, SparedLess
<1>4. phone \in [Uids -> {"none", "active", "gone"}]
  BY DEF IInv, TypeOK
<1>5. /\ \A v \in Uids : phone[v] = "gone" => phone'[v] = "gone"
      /\ \A v \in Uids : v # u => phone'[v] = phone[v]
      /\ phone'[u] # "none"
      /\ announced \subseteq announced' /\ \A v \in announced' : v \in announced \/ v = u
      /\ announced \subseteq Uids
  BY <1>4 DEF PhoneAdds, PhoneModifies, PhoneRemoves, Announce, IInv, TypeOK
<1>6. CASE UNCHANGED <<sourceQ, lost, announced>> /\ (u \notin announced \/ UNCHANGED phone)
  <2>1. Held' = Held
    BY <1>1, <1>6, HeldSame
  <2>2. \A v \in announced : phone'[v] = phone[v]
    BY <1>5, <1>6
  <2> QED BY <1>1, <1>3, <1>5, <1>6, <2>1, <2>2, EventsFrame
<1>7. ASSUME NEW e \in SrcEvent, e.uid = u, Source(e), btc = "up", u \in announced',
             phone[u] = "active", e.evt = "Removed" <=> phone'[u] = "gone"
      PROVE  Events'
  <2>1. /\ \A v : Pending(v) => Pending(v)'
        /\ \A v : u # v => (Pending(v)' => Pending(v))
        /\ \A v : Parting(v) => Parting(v)'
        /\ u \in lost' \/ (e.evt # "Removed" /\ \A v : v = u => Pending(v)')
                       \/ (e.evt = "Removed" /\ \A v : v = u => Parting(v)')
        /\ RemovedLast'
    BY <1>1, <1>5, <1>7, SourceIs DEF Events
  <2>2. \A v : (Complete(v)' <=> Complete(v)) /\ (Has(notifs, v)' <=> Has(notifs, v)) /\ (Settled(v) <=> Settled(v)')
    BY <1>1 DEF Complete, Settled
  <2>3. Known'
    BY <1>5 DEF Events, Known
  <2>4. Coming'
    <3> SUFFICES ASSUME NEW v \in announced' \cap Spared', phone'[v] = "active"
                 PROVE  Pending(v)' \/ v \in queuedUids' \/ Complete(v)'
      BY DEF Coming, Arriving
    <3>1. CASE v = u
      <4>1. v \notin lost'
        BY DEF Spared
      <4> QED BY <1>7, <2>1, <3>1, <4>1
    <3>2. CASE v # u
      <4>1. v \in announced \cap Spared /\ phone[v] = "active"
        BY <1>3, <1>5, <3>2
      <4> QED BY <1>1, <1>7, <2>1, <2>2, <4>1 DEF Events, Coming, Arriving
    <3> QED BY <3>1, <3>2
  <2>5. Ours'
    BY <1>1, <1>3, <1>5, <2>2 DEF Events, Ours
  <2>6. Going'
    <3> SUFFICES ASSUME NEW v \in announced' \cap Spared', phone'[v] = "gone"
                 PROVE  Leaving(v)'
      BY DEF Going
    <3>1. CASE v = u
      <4>1. v \notin lost'
        BY DEF Spared
      <4>2. Parting(v)'
        BY <1>7, <2>1, <3>1, <4>1
      <4> QED BY <4>2 DEF Leaving
    <3>2. CASE v # u
      <4>1. v \in announced \cap Spared /\ phone[v] = "gone"
        BY <1>3, <1>5, <3>2
      <4>2. Leaving(v)
        BY <1>7, <4>1 DEF Events, Going
      <4> QED BY <1>1, <2>1, <2>2, <3>2, <4>2 DEF Leaving
    <3> QED BY <3>1, <3>2
  <2> QED BY <2>1, <2>3, <2>4, <2>5, <2>6 DEF Events
<1>8. CASE PhoneAdds(u)
  <2>1. u \notin announced
    BY <1>8 DEF PhoneAdds, Events, Known
  <2> QED BY <1>6, <1>8, <2>1 DEF PhoneAdds
<1>9. CASE PhoneModifies(u)
  <2> DEFINE e == [evt |-> "Modified", uid |-> u]
  <2>1. e \in SrcEvent /\ e.uid = u /\ e.evt = "Modified"
    BY DEF SrcEvent
  <2>2. phone'[u] = "active" /\ phone[u] = "active" /\ UNCHANGED <<phone, announced>>
    BY <1>9 DEF PhoneModifies
  <2>3. CASE btc = "up" /\ u \in announced
    <3>1. Source(e)
      BY <1>9, <2>3 DEF PhoneModifies
    <3> HIDE DEF e
    <3> QED BY <1>7, <2>1, <2>2, <2>3, <3>1
  <2>4. CASE ~(btc = "up" /\ u \in announced)
    BY <1>6, <1>9, <2>2, <2>4 DEF PhoneModifies
  <2> QED BY <2>3, <2>4
<1>10. CASE PhoneRemoves(u)
  <2> DEFINE e == [evt |-> "Removed", uid |-> u]
  <2>1. e \in SrcEvent /\ e.uid = u /\ e.evt = "Removed"
    BY DEF SrcEvent
  <2>2. phone'[u] = "gone" /\ phone[u] = "active" /\ UNCHANGED announced
    BY <1>4, <1>10 DEF PhoneRemoves
  <2>3. CASE btc = "up" /\ u \in announced
    <3>1. Source(e)
      BY <1>10, <2>3 DEF PhoneRemoves
    <3> HIDE DEF e
    <3> QED BY <1>7, <2>1, <2>2, <2>3, <3>1
  <2>4. CASE btc # "up"
    <3>1. UNCHANGED <<sourceQ, lost>>
      BY <1>10, <2>4 DEF PhoneRemoves
    <3>2. RemovedLast'
      <4>1. Held' = Held
        BY <1>1, <3>1, HeldSame
      <4> QED BY <1>5, <4>1, HeldUids, WithinHeld, RemovedLess DEF Events
    <3>3. Known' /\ Coming' /\ Going'
      BY <1>1, <1>5, <2>2, <2>4 DEF Events, Known, Coming, Going
    <3>4. Ours'
      BY <1>1, <1>3, <1>5 DEF Events, Ours
    <3> QED BY <3>2, <3>3, <3>4 DEF Events
  <2>5. CASE btc = "up" /\ u \notin announced
    BY <1>6, <1>10, <2>2, <2>5 DEF PhoneRemoves
  <2> QED BY <2>3, <2>4, <2>5
<1>11. CASE Announce(u)
  <2> DEFINE e == [evt |-> "Added", uid |-> u]
  <2>1. e \in SrcEvent /\ e.uid = u /\ e.evt = "Added"
    BY DEF SrcEvent
  <2>2. phone'[u] = "active" /\ phone[u] = "active" /\ u \in announced' /\ btc = "up" /\ Source(e)
    BY <1>11 DEF Announce
  <2> HIDE DEF e
  <2> QED BY <1>7, <2>1, <2>2
<1> QED BY <1>8, <1>9, <1>10, <1>11

\* Open or shut, a session begins and ends with nothing owed.
LEMMA EventsBtc ==
  ASSUME IInv, Flushed, Hands, Events, Btc
  PROVE  Events'
<1>1. UNCHANGED <<phone, excused>> /\ lost \subseteq lost'
  BY DEF Btc, OnConn, PhoneOnConnect, ServiceClose, OnDiscon, OnDisconLeave, PhoneOnDisconnect, phoneVars
<1>2. Spared' \subseteq Spared
  BY <1>1, SparedLess
<1>3. announced' = {} \/ UNCHANGED announced
  BY DEF Btc, OnConn, PhoneOnConnect, ServiceClose, OnDiscon, OnDisconLeave, PhoneOnDisconnect, phoneVars
<1>4. btc' = "up" => announced' = {} /\ notifs' = <<>>
  BY DEF Btc, OnConn, PhoneOnConnect, ServiceClose, OnDiscon, OnDisconLeave, PhoneOnDisconnect, phoneVars, Flushed
<1>5. RemovedLast'
  <2>1. Within(Held', Held, 0)
    <3>1. CASE ServiceClose
      BY <3>1, HeldClose DEF IInv
    <3>2. CASE ~ServiceClose
      <4>1. UNCHANGED <<notifEvt, sourceQ>>
        BY <3>2 DEF Btc, OnConn, PhoneOnConnect, OnDiscon, OnDisconLeave, PhoneOnDisconnect, notifVars
      <4> QED BY <4>1, HeldSame, WithinHeld
    <3> QED BY <3>1, <3>2
  <2> QED BY <1>1, <2>1, RemovedLess DEF Events
<1>6. Known'
  BY <1>1, <1>3 DEF Events, Known
<1>7. Coming' /\ Going'
  BY <1>4 DEF Coming, Going
<1>8. Ours'
  <2>1. btc' = "up" => \A u : ~Has(notifs, u)'
    BY <1>4 DEF Has
  <2>2. btc' # "closed" => queuedUids' = {} \/ (UNCHANGED <<queuedUids, announced>> /\ btc # "closed")
    BY DEF Btc, OnConn, PhoneOnConnect, ServiceClose, OnDiscon, OnDisconClear, OnDisconLeave, PhoneOnDisconnect,
           phoneVars, queueVars
  <2> QED BY <1>2, <2>1, <2>2 DEF Events, Ours
<1> QED BY <1>5, <1>6, <1>7, <1>8 DEF Events

LEMMA EventsQueue ==
  ASSUME IInv, Hands, Events, NotifQueue
  PROVE  Events'
<1> DEFINE u == Head(notifEvt).uid
           m == Head(notifEvt).evt = "Modified"
<1>1. /\ UNCHANGED <<phone, announced, btc, lost, notifs, abandonInFlight, sourceQ>>
      /\ notifPc = "got" /\ notifPc' = "get" /\ notifEvt' = <<>> /\ Head(notifEvt).evt # "Removed"
  BY DEF NotifQueue, btcVars, storeVars
<1>2. /\ Held # <<>> /\ Held' = Tail(Held)
      /\ Held[1].uid = u /\ Held[1].evt # "Removed"
  BY <1>1, HeldFirst DEF IInv
<1>3. u \in Uids /\ m \in BOOLEAN
  <2>1. Head(notifEvt) \in SrcEvent
    BY <1>1 DEF IInv, TypeOK, EventHeld
  <2> QED BY <2>1 DEF SrcEvent
<1>4. u \in queuedUids => UNCHANGED <<queuedUids, reqState, inFlightUid, excused>>
  BY DEF NotifQueue
<1>5. u \notin queuedUids => QueueNew(u, m)
  BY DEF NotifQueue
<1> HIDE DEF u, m
<1>6. /\ queuedUids' \subseteq queuedUids \cup {u} /\ u \in queuedUids'
      /\ \A v \in queuedUids : v \in queuedUids' \/ v \in excused'
      /\ excused \subseteq excused' /\ (u \notin announced => u \in excused' \/ u \in queuedUids)
      /\ reqState # "Idle" => UNCHANGED <<reqState, inFlightUid>>
  <2>1. CASE u \in queuedUids
    BY <1>4, <2>1
  <2>2. CASE u \notin queuedUids
    <3>1. /\ PumpRequest(needData')
          /\ queuedUids' \subseteq queuedUids \cup {u} /\ u \in queuedUids'
          /\ \A v \in queuedUids : v \in queuedUids' \/ v \in excused'
          /\ excused \subseteq excused' /\ (u \notin announced => u \in excused')
      BY <1>3, <1>5, <2>2, QueueNewIs
    <3>2. reqState # "Idle" => UNCHANGED <<reqState, inFlightUid>>
      BY <3>1, PumpIs
    <3> QED BY <3>1, <3>2
  <2> QED BY <2>1, <2>2
<1>7. Spared' \subseteq Spared
  BY <1>1, <1>6, SparedLess
<1>8. /\ \A v : Pending(v)' => Pending(v)
      /\ \A v : Pending(v) => Pending(v)' \/ u = v
      /\ \A v : Parting(v) => Parting(v)'
      /\ RemovedLast'
  BY <1>1, <1>2, HeldTail DEF Events
<1>9. \A v : (Complete(v)' <=> Complete(v)) /\ (Has(notifs, v)' <=> Has(notifs, v))
  BY <1>1 DEF Complete
<1>10. Known'
  BY <1>1 DEF Events, Known
<1>11. Coming'
  <2> SUFFICES ASSUME btc = "up", NEW v \in announced \cap Spared', phone[v] = "active"
               PROVE  Pending(v)' \/ v \in queuedUids' \/ Complete(v)'
    BY <1>1 DEF Coming, Arriving
  <2>1. v \notin excused' /\ (Pending(v) \/ v \in queuedUids \/ Complete(v))
    BY <1>7 DEF Spared, Events, Coming, Arriving
  <2> QED BY <1>6, <1>8, <1>9, <2>1
<1>12. Ours'
  <2> SUFFICES ASSUME NEW v \in Spared'
               PROVE  /\ btc # "closed" /\ v \in queuedUids' => v \in announced
                      /\ btc = "up" /\ Has(notifs, v)' => v \in announced
    BY <1>1 DEF Ours
  <2>1. v \in Spared /\ v \notin excused'
    BY <1>7 DEF Spared
  <2> QED BY <1>6, <1>9, <2>1 DEF Events, Ours
<1>13. Going'
  <2> SUFFICES ASSUME btc = "up", NEW v \in announced \cap Spared', phone[v] = "gone"
               PROVE  Leaving(v)'
    BY <1>1 DEF Going
  <2>1. CASE Parting(v)
    BY <1>8, <2>1 DEF Leaving
  <2>2. CASE Settled(v) /\ ~Pending(v) /\ ~Has(notifs, v)
    <3>1. v # u
      <4>1. 1 \in DOMAIN Held
        BY <1>2, StreamIs, TailIs DEF IInv
      <4> QED BY <1>2, <2>2, <4>1 DEF Pending
    <3>2. Settled(v)'
      BY <1>1, <1>6, <2>2, <3>1 DEF Settled
    <3> QED BY <1>8, <1>9, <2>2, <3>2 DEF Leaving
  <2> QED BY <1>1, <1>7, <2>1, <2>2 DEF Events, Going, Leaving
<1> QED BY <1>8, <1>10, <1>11, <1>12, <1>13 DEF Events

\* Removed, under mut: the entry goes, or the fetch is to be abandoned.
LEMMA EventsUnqueue ==
  ASSUME IInv, Hands, Events, NotifUnqueue
  PROVE  Events'
<1> DEFINE u == Head(notifEvt).uid
<1>1. /\ UNCHANGED <<phone, announced, btc, lost, excused, notifs, reqState, inFlightUid, notifEvt, sourceQ>>
      /\ notifPc = "got" /\ notifPc' = "rem" /\ Head(notifEvt).evt = "Removed"
  BY DEF NotifUnqueue, phoneVars, btcVars, storeVars
<1>2. Held # <<>> /\ Held' = Held /\ Held[1].uid = u /\ notifEvt'[1].uid = u /\ Held[1].evt = "Removed" /\ 1 \in DOMAIN Held
  <2>1. Held' = Held
    BY <1>1, HeldSame
  <2>2. Held # <<>> /\ 1 \in DOMAIN Held /\ Head(notifEvt) = Held[1] /\ notifEvt[1] = Held[1]
    BY <1>1, HeldFirst, StreamIs, TailIs DEF IInv
  <2> QED BY <1>1, <2>1, <2>2
<1>3. /\ queuedUids' \subseteq queuedUids /\ \A v \in queuedUids : v \in queuedUids' \/ v = u
      /\ abandonInFlight => abandonInFlight'
      /\ u \notin queuedUids' \/ (abandonInFlight' /\ InFlight(u))
  BY DEF NotifUnqueue
<1> HIDE DEF u
<1>4. Spared' = Spared
  BY <1>1 DEF Spared
<1>5. /\ phone[u] = "gone" /\ ~Pending(u)
      /\ \A j \in DOMAIN Held : j > 1 => Held[j].uid # u
  <2>1. phone[u] = "gone" /\ \A j \in DOMAIN Held : j > 1 => Held[j].uid # u
    BY <1>2 DEF Events, RemovedLast
  <2>2. \A j \in DOMAIN Held : j = 1 \/ j > 1
    <3>1. Held \in Seq(SrcEvent)
      BY StreamIs DEF IInv
    <3> QED BY <3>1
  <2> QED BY <1>2, <2>1, <2>2 DEF Pending
<1>6. \A v : (Pending(v)' <=> Pending(v)) /\ (Complete(v)' <=> Complete(v)) /\ (Has(notifs, v)' <=> Has(notifs, v))
  BY <1>1, <1>2 DEF Pending, Complete
<1>7. RemovedLast' /\ Known'
  BY <1>1, <1>2 DEF Events, RemovedLast, Known
<1>8. Coming'
  <2> SUFFICES ASSUME btc = "up", NEW v \in announced \cap Spared, phone[v] = "active"
               PROVE  Pending(v)' \/ v \in queuedUids' \/ Complete(v)'
    BY <1>1, <1>4 DEF Coming, Arriving
  <2>1. v # u /\ (Pending(v) \/ v \in queuedUids \/ Complete(v))
    BY <1>5 DEF Events, Coming, Arriving
  <2> QED BY <1>3, <1>6, <2>1
<1>9. Ours'
  BY <1>1, <1>3, <1>4, <1>6 DEF Events, Ours
<1>10. Going'
  <2> SUFFICES ASSUME btc = "up", NEW v \in announced \cap Spared, phone[v] = "gone"
               PROVE  Leaving(v)'
    BY <1>1, <1>4 DEF Going
  <2>1. CASE v = u
    <3>1. Settled(v)'
      BY <1>1, <1>3, <2>1 DEF Settled, InFlight
    <3> QED BY <1>1, <1>2, <1>5, <1>6, <2>1, <3>1 DEF Leaving
  <2>2. CASE v # u
    <3>1. CASE Parting(v)
      <4>1. Parting(v)'
        BY <1>1, <1>2, <2>2, <3>1 DEF Parting
      <4> QED BY <4>1 DEF Leaving
    <3>2. CASE Settled(v) /\ ~Pending(v) /\ ~Has(notifs, v)
      <4>1. Settled(v)'
        BY <1>1, <1>3, <3>2 DEF Settled
      <4> QED BY <1>6, <3>2, <4>1 DEF Leaving
    <3> QED BY <1>1, <3>1, <3>2 DEF Events, Going, Leaving
  <2> QED BY <2>1, <2>2
<1> QED BY <1>7, <1>8, <1>9, <1>10 DEF Events

\* Removed, after mut: the notification leaves the store.
LEMMA EventsRemove ==
  ASSUME IInv, Hands, Events, StoreDistinct, NotifRemove
  PROVE  Events'
<1>0. PICK u : u = Head(notifEvt).uid
  OBVIOUS
<1>1. /\ UNCHANGED <<phone, announced, btc, lost, excused, queuedUids, abandonInFlight, reqState, inFlightUid, sourceQ>>
      /\ notifPc = "rem" /\ notifPc' = "get" /\ notifEvt' = <<>> /\ notifs' = Erase(notifs, u)
  BY <1>0 DEF NotifRemove, phoneVars, queueVars, btcVars
<1>2. Held # <<>> /\ Held' = Tail(Held) /\ Held[1].uid = u /\ notifEvt[1].uid = u /\ Held[1].evt = "Removed" /\ 1 \in DOMAIN Held
  <2>1. Held # <<>> /\ 1 \in DOMAIN Held /\ Head(notifEvt) = Held[1] /\ notifEvt[1] = Held[1] /\ Held' = Tail(Held)
    BY <1>1, HeldFirst, StreamIs, TailIs DEF IInv
  <2> QED BY <1>0, <1>1, <2>1 DEF Hands
<1>3. StoreBut({u}) /\ ~Has(notifs, u)'
  BY <1>1, StoreErased
<1>4. Spared' = Spared
  BY <1>1 DEF Spared
<1>5. /\ phone[u] = "gone" /\ ~Pending(u) /\ ~Parting(u)
  <2>1. phone[u] = "gone" /\ \A j \in DOMAIN Held : j > 1 => Held[j].uid # u
    BY <1>2 DEF Events, RemovedLast
  <2>2. \A j \in DOMAIN Held : j = 1 \/ j > 1
    <3>1. Held \in Seq(SrcEvent)
      BY StreamIs DEF IInv
    <3> QED BY <3>1
  <2> QED BY <1>1, <1>2, <2>1, <2>2 DEF Pending, Parting
<1>6. /\ \A v : Pending(v)' <=> Pending(v)
      /\ \A v : Parting(v) => Parting(v)'
      /\ RemovedLast'
  BY <1>1, <1>2, HeldTail DEF Events
<1>7. \A v : (Settled(v)' <=> Settled(v))
             /\ (v # u => (Complete(v) => Complete(v)') /\ (Has(notifs, v)' => Has(notifs, v)))
  <2>1. \A v : Settled(v)' <=> Settled(v)
    BY <1>1 DEF Settled
  <2>2. ASSUME NEW v, v # u PROVE (Complete(v) => Complete(v)') /\ (Has(notifs, v)' => Has(notifs, v))
    <3>1. v \notin {u}
      BY <2>2
    <3> QED BY <1>3, <3>1, StoreButIs
  <2> QED BY <2>1, <2>2
<1>8. Known'
  BY <1>1 DEF Events, Known
<1>9. Coming'
  <2> SUFFICES ASSUME btc = "up", NEW v \in announced \cap Spared, phone[v] = "active"
               PROVE  Pending(v)' \/ v \in queuedUids' \/ Complete(v)'
    BY <1>1, <1>4 DEF Coming, Arriving
  <2>1. v # u /\ (Pending(v) \/ v \in queuedUids \/ Complete(v))
    BY <1>5 DEF Events, Coming, Arriving
  <2> QED BY <1>1, <1>6, <1>7, <2>1
<1>10. Ours'
  <2> SUFFICES ASSUME NEW v \in Spared
               PROVE  /\ btc # "closed" /\ v \in queuedUids => v \in announced
                      /\ btc = "up" /\ Has(notifs, v)' => v \in announced
    BY <1>1, <1>4 DEF Ours
  <2> QED BY <1>3, <1>7 DEF Events, Ours
<1>11. Going'
  <2> SUFFICES ASSUME btc = "up", NEW v \in announced \cap Spared, phone[v] = "gone"
               PROVE  Leaving(v)'
    BY <1>1, <1>4 DEF Going
  <2>1. Leaving(v)
    BY DEF Events, Going
  <2>2. CASE v = u
    <3>1. Settled(v)
      BY <1>5, <2>1, <2>2 DEF Leaving
    <3> QED BY <1>3, <1>5, <1>6, <1>7, <2>2, <3>1 DEF Leaving
  <2>3. CASE v # u
    <3>1. CASE Parting(v)
      BY <1>6, <3>1 DEF Leaving
    <3>2. CASE ~Parting(v)
      <4>1. Settled(v) /\ ~Pending(v) /\ ~Has(notifs, v)
        BY <1>2, <2>1, <2>3, <3>2 DEF Leaving
      <4> QED BY <1>6, <1>7, <2>3, <4>1 DEF Leaving
    <3> QED BY <3>1, <3>2
  <2> QED BY <2>2, <2>3
<1> QED BY <1>6, <1>8, <1>9, <1>10, <1>11 DEF Events

\* A pass of loopData: what leaves the queue is in the store, or excused.
LEMMA EventsStep ==
  ASSUME IInv, Flushed, Hands, Pipeline, Events, StoreDistinct, DataStep
  PROVE  Events'
<1>1. UNCHANGED <<phone, announced, btc, lost, sourceQ, notifPc, notifEvt>>
  BY DEF DataStep, phoneVars, notifVars, btcVars
<1>2. Held' = Held
  BY <1>1, HeldSame
<1>3. CASE Skipped \/ Begun
  <2>1. /\ UNCHANGED <<queuedUids, abandonInFlight, notifs, excused>>
        /\ abandonInFlight /\ reqState # "Idle" => UNCHANGED <<reqState, inFlightUid>>
    BY <1>3 DEF Skipped, Begun, queueVars
  <2>2. Spared' \subseteq Spared
    BY <1>1, <2>1 DEF Spared
  <2> QED BY <1>1, <1>2, <2>1, <2>2, EventsFrame
<1>4. ASSUME PopFront, ToIdle, NEW X, StoreBut(X), excused' \subseteq X, excused \subseteq excused',
             X \subseteq excused' \cup {needData[i].uid : i \in DOMAIN needData \cap {1}},
             \A u : needData # <<>> /\ u = needData[1].uid => u \in excused' \/ (Complete(u)' /\ ~abandonInFlight)
      PROVE  Events'
  <2>1. /\ queuedUids' \subseteq queuedUids
        /\ \A u \in queuedUids : u \in queuedUids' \/ (needData # <<>> /\ u = needData[1].uid)
    BY <1>4, PopIs
  <2>2. Spared' \subseteq Spared
    BY <1>1, <1>4, SparedLess
  <2>3. needData # <<>> => needData[1].uid \in queuedUids
    BY FrontIs
  <2>4. \A u \in X : u \in excused' \/ (needData # <<>> /\ u = needData[1].uid)
    BY <1>4
  <2>5. \A u : (Pending(u)' <=> Pending(u)) /\ (Parting(u)' <=> Parting(u))
    BY <1>1, <1>2 DEF Pending, Parting
  <2>6. \A u : u \notin X => (Complete(u) => Complete(u)') /\ (Has(notifs, u)' => Has(notifs, u))
    BY <1>4, StoreButIs
  <2>7. RemovedLast' /\ Known'
    BY <1>1, <1>2 DEF Events, RemovedLast, Known
  <2>8. Coming'
    <3> SUFFICES ASSUME btc = "up", NEW u \in announced \cap Spared', phone[u] = "active"
                 PROVE  Pending(u)' \/ u \in queuedUids' \/ Complete(u)'
      BY <1>1 DEF Coming, Arriving
    <3>1. u \notin excused' /\ (Pending(u) \/ u \in queuedUids \/ Complete(u))
      BY <2>2 DEF Spared, Events, Coming, Arriving
    <3> QED BY <1>4, <2>1, <2>4, <2>5, <2>6, <3>1
  <2>9. Ours'
    <3> SUFFICES ASSUME NEW u \in Spared'
                 PROVE  /\ btc # "closed" /\ u \in queuedUids' => u \in announced
                        /\ btc = "up" /\ Has(notifs, u)' => u \in announced
      BY <1>1 DEF Ours
    <3>1. u \in Spared /\ u \notin excused'
      BY <2>2 DEF Spared
    <3> QED BY <2>1, <2>3, <2>4, <2>6, <3>1 DEF Events, Ours
  <2>10. Going'
    <3> SUFFICES ASSUME btc = "up", NEW u \in announced \cap Spared', phone[u] = "gone"
                 PROVE  Leaving(u)'
      BY <1>1 DEF Going
    <3>1. u \notin excused' /\ Leaving(u)
      BY <2>2 DEF Spared, Events, Going
    <3>2. CASE Parting(u)
      BY <2>5, <3>2 DEF Leaving
    <3>3. CASE ~Parting(u)
      <4>1. Settled(u) /\ ~Pending(u) /\ (Has(notifs, u) => notifPc = "rem" /\ notifEvt[1].uid = u)
        BY <3>1, <3>3 DEF Leaving
      <4>2. u \notin queuedUids
        <5> SUFFICES ASSUME abandonInFlight, inFlightUid = u PROVE FALSE
          BY <4>1 DEF Settled
        <5>1. u \in Uids
          BY DEF Spared
        <5>2. needData # <<>> /\ u = needData[1].uid
          BY <5>1, FrontIs
        <5> QED BY <1>4, <3>1, <5>2
      <4>3. u \notin X
        BY <2>3, <2>4, <3>1, <4>2
      <4>4. Settled(u)'
        BY <2>1, <4>2 DEF Settled
      <4> QED BY <1>1, <2>5, <2>6, <4>1, <4>3, <4>4 DEF Leaving
    <3> QED BY <3>2, <3>3
  <2> QED BY <2>7, <2>8, <2>9, <2>10 DEF Events
<1>5. CASE Dropped
  <2>1. StoreBut(excused') /\ (needData # <<>> => needData[1].uid \in excused')
    BY <1>5, StoreDropped
  <2> QED BY <1>4, <1>5, <2>1 DEF Dropped
<1>6. CASE Completed
  <2> DEFINE X == excused' \cup {needData[1].uid}
  <2>1. StoreBut(X) /\ PopFront /\ ToIdle /\ \A u : u = needData[1].uid => Complete(u)'
    BY <1>6, StoreCompleted
  <2>2. needData # <<>> /\ ~abandonInFlight /\ excused \subseteq excused'
    BY <1>6 DEF Completed
  <2>3. excused' \subseteq X /\ X \subseteq excused' \cup {needData[i].uid : i \in DOMAIN needData \cap {1}}
    BY <2>2, FrontIs
  <2> HIDE DEF X
  <2> QED BY <1>4, <2>1, <2>2, <2>3
<1> QED BY <1>3, <1>5, <1>6, StepCases

LEMMA EventsKeep ==
  IInv /\ Flushed /\ Hands /\ Pipeline /\ Events /\ StoreDistinct /\ Next => Events'
<1> SUFFICES ASSUME IInv, Flushed, Hands, Pipeline, Events, StoreDistinct, Next PROVE Events'
  OBVIOUS
<1>1. CASE Answer
  <2>1. /\ UNCHANGED <<phone, announced, btc, notifPc, notifEvt, sourceQ, queuedUids, notifs, abandonInFlight,
                       reqState, inFlightUid, excused>>
        /\ lost \subseteq lost'
    BY <1>1 DEF Answer, Data, queueVars, notifVars, btcVars, storeVars
  <2> QED BY <2>1, HeldSame, SparedLess, EventsFrame
<1>2. CASE \E u \in Uids : PhoneAdds(u) \/ PhoneModifies(u) \/ PhoneRemoves(u) \/ Announce(u)
  BY <1>2, EventsPhone
<1>3. CASE Btc
  BY <1>3, EventsBtc
<1>4. CASE NotifTake
  <2>1. UNCHANGED <<phone, announced, btc, queuedUids, notifs, abandonInFlight, reqState, inFlightUid, lost, excused>>
    BY <1>4 DEF NotifTake, phoneVars, queueVars, btcVars, storeVars
  <2>2. Held' = Held /\ notifPc' = "got" /\ notifPc = "get"
    BY <1>4, HeldTake DEF IInv, NotifTake
  <2>3. \A u : /\ Pending(u)' <=> Pending(u)
               /\ Parting(u)' <=> Parting(u)
               /\ Complete(u)' <=> Complete(u)
               /\ Has(notifs, u)' <=> Has(notifs, u)
               /\ Settled(u)' <=> Settled(u)
    BY <2>1, <2>2 DEF Pending, Parting, Complete, Settled
  <2>4. Spared' = Spared
    BY <2>1 DEF Spared
  <2>5. RemovedLast' /\ Known'
    BY <2>1, <2>2 DEF Events, RemovedLast, Known
  <2>6. Coming' /\ Ours'
    BY <2>1, <2>3, <2>4 DEF Events, Coming, Arriving, Ours
  <2>7. Going'
    BY <2>1, <2>2, <2>3, <2>4 DEF Events, Going, Leaving
  <2> QED BY <2>5, <2>6, <2>7 DEF Events
<1>5. CASE NotifQueue
  BY <1>5, EventsQueue
<1>6. CASE NotifUnqueue
  BY <1>6, EventsUnqueue
<1>7. CASE NotifRemove
  BY <1>7, EventsRemove
<1>8. CASE DataPump \/ DataTake \/ RequestExpires
  <2>1. UNCHANGED <<phone, announced, btc, notifPc, notifEvt, sourceQ, queuedUids, notifs, abandonInFlight, lost, excused>>
    BY <1>8 DEF DataPump, DataTake, RequestExpires, phoneVars, queueVars, notifVars, btcVars, storeVars
  <2>2. reqState # "Idle" => UNCHANGED <<reqState, inFlightUid>>
    BY <1>8 DEF DataPump, PumpRequest, DataTake, RequestExpires, queueVars
  <2> QED BY <2>1, <2>2, HeldSame, SparedLess, EventsFrame
<1>9. CASE DataStep
  BY <1>9, EventsStep
<1> QED BY <1>1, <1>2, <1>3, <1>4, <1>5, <1>6, <1>7, <1>8, <1>9 DEF Next, PhoneNext, NotifThread, DataThread

-----------------------------------------------------------------------------
(* What is shown is the notification's own, and as new as on the phone.     *)

Current(parts, u) == \A p \in parts : p.ver = version[u]

\* All that the watch has of u, or will be sent, is of the phone's version.
AsNew(u) ==
  /\ \A i \in DOMAIN Stream : Stream[i].uid = u => Stream[i].ver = version[u]
  /\ \A i \in DOMAIN needData : needData[i].uid = u => Current(needData[i].parts, u)
  /\ u \notin queuedUids => \A i \in DOMAIN notifs : notifs[i].uid = u => Current(notifs[i].parts, u)

UpToDate == btc = "up" => \A u \in (announced \cap Spared) \ outdated :
  phone[u] = "active" /\ ~Pending(u) => AsNew(u)

LEMMA AsNewKeeps ==
  ASSUME NEW u, AsNew(u), version'[u] = version[u], NEW k \in Nat, Within(Stream', Stream, k),
         Entries(needData', needData),
         u \notin queuedUids' =>
           u \notin queuedUids /\ \A i \in DOMAIN notifs' : notifs'[i].uid = u => \E j \in DOMAIN notifs : notifs'[i] = notifs[j]
  PROVE  AsNew(u)'
<1>1. \A parts : Current(parts, u)' <=> Current(parts, u)
  BY DEF Current
<1>2. \A i \in DOMAIN Stream' : Stream'[i].uid = u => Stream'[i].ver = version'[u]
  BY DEF AsNew, Within
<1>3. ASSUME NEW i \in DOMAIN needData', needData'[i].uid = u PROVE \A p \in needData'[i].parts : p.ver = version'[u]
  BY <1>3 DEF AsNew, Entries, Current
<1>4. ASSUME u \notin queuedUids', NEW i \in DOMAIN notifs', notifs'[i].uid = u
      PROVE  \A p \in notifs'[i].parts : p.ver = version'[u]
  BY <1>4 DEF AsNew, Current
<1> QED BY <1>2, <1>3, <1>4 DEF AsNew, Current

LEMMA UpToDateLess ==
  ASSUME UpToDate, btc' = "up" => btc = "up", Spared' \subseteq Spared, outdated \subseteq outdated',
         \A u \in (announced' \cap Spared') \ outdated' : phone'[u] = "active" /\ ~Pending(u)' =>
           AsNew(u)' \/ (u \in announced /\ phone[u] = "active" /\ ~Pending(u) /\ (AsNew(u) => AsNew(u)'))
  PROVE  UpToDate'
BY DEF UpToDate

LEMMA UpToDatePhone ==
  ASSUME IInv, Hands, Events, UpToDate, NEW u \in Uids,
         PhoneAdds(u) \/ PhoneModifies(u) \/ PhoneRemoves(u) \/ Announce(u)
  PROVE  UpToDate'
<1>1. /\ UNCHANGED <<btc, dataHand, dataQ, answering, needData, queuedUids, notifs, excused, outdated>>
      /\ UNCHANGED notifVars
      /\ lost \subseteq lost'
  BY DEF PhoneAdds, PhoneModifies, PhoneRemoves, Announce, Change, Source,
         queueVars, notifVars, dataVars, btcVars, storeVars
<1>2. Spared' \subseteq Spared /\ Stream' = Stream
  BY <1>1, SparedLess, StreamSame
<1>3. phone \in [Uids -> {"none", "active", "gone"}] /\ version \in [Uids -> Version]
  BY DEF IInv, TypeOK
<1>4. /\ \A v \in Uids : v # u => phone'[v] = phone[v] /\ version'[v] = version[v]
      /\ \A v \in announced' : v \in announced \/ v = u
  BY <1>3 DEF PhoneAdds, PhoneModifies, PhoneRemoves, Announce
<1>5. \A v \in Uids : v # u /\ AsNew(v) => AsNew(v)'
  BY <1>1, <1>2, <1>4 DEF AsNew, Current
<1>6. CASE btc # "up"
  BY <1>1, <1>6 DEF UpToDate
<1>7. ASSUME NEW e \in SrcEvent, e.uid = u, Source(e), e.evt = "Removed" => phone'[u] # "active"
      PROVE  UpToDate'
  <2>1. /\ \A v : Pending(v) => Pending(v)'
        /\ u \in lost' \/ (e.evt # "Removed" /\ \A v : v = u => Pending(v)') \/ e.evt = "Removed"
    BY <1>1, <1>7, SourceIs
  <2>2. ASSUME NEW v \in (announced' \cap Spared') \ outdated', phone'[v] = "active", ~Pending(v)'
        PROVE  v # u
    BY <1>7, <2>1, <2>2 DEF Spared
  <2>3. \A v \in Spared' : v \in Uids
    BY DEF Spared
  <2> QED BY <1>1, <1>2, <1>4, <1>5, <2>1, <2>2, <2>3, UpToDateLess
<1>8. CASE PhoneAdds(u)
  <2>1. Held' = Held /\ UNCHANGED announced /\ u \notin announced
    BY <1>1, <1>8, HeldSame DEF PhoneAdds, Events, Known, notifVars
  <2>2. \A v : Pending(v)' <=> Pending(v)
    BY <2>1 DEF Pending
  <2>3. \A v \in Spared' : v \in Uids
    BY DEF Spared
  <2> QED BY <1>1, <1>2, <1>4, <1>5, <2>1, <2>2, <2>3, UpToDateLess
<1>9. CASE PhoneModifies(u)
  <2> DEFINE e == [evt |-> "Modified", uid |-> u]
  <2>1. e \in SrcEvent /\ e.uid = u /\ e.evt # "Removed"
    BY DEF SrcEvent
  <2>2. CASE btc = "up" /\ u \in announced
    <3>1. Source(e)
      BY <1>9, <2>2 DEF PhoneModifies
    <3> HIDE DEF e
    <3> QED BY <1>7, <2>1, <3>1
  <2>3. CASE u \notin announced
    <3>1. Held' = Held /\ UNCHANGED <<phone, announced>>
      BY <1>1, <1>9, <2>3, HeldSame DEF PhoneModifies, notifVars
    <3>2. \A v : Pending(v)' <=> Pending(v)
      BY <3>1 DEF Pending
    <3>3. \A v \in Spared' : v \in Uids
      BY DEF Spared
    <3> QED BY <1>1, <1>2, <1>4, <1>5, <2>3, <3>1, <3>2, <3>3, UpToDateLess
  <2> QED BY <1>6, <2>2, <2>3
<1>10. CASE PhoneRemoves(u)
  <2> DEFINE e == [evt |-> "Removed", uid |-> u]
  <2>1. e \in SrcEvent /\ e.uid = u
    BY DEF SrcEvent
  <2>2. phone'[u] # "active" /\ UNCHANGED announced
    BY <1>3, <1>10 DEF PhoneRemoves
  <2>3. CASE btc = "up" /\ u \in announced
    <3>1. Source(e)
      BY <1>10, <2>3 DEF PhoneRemoves
    <3> HIDE DEF e
    <3> QED BY <1>7, <2>1, <2>2, <3>1
  <2>4. CASE u \notin announced
    <3>1. Held' = Held
      BY <1>1, <1>10, <2>4, HeldSame DEF PhoneRemoves, notifVars
    <3>2. \A v : Pending(v)' <=> Pending(v)
      BY <3>1 DEF Pending
    <3>3. \A v \in Spared' : v \in Uids
      BY DEF Spared
    <3> QED BY <1>1, <1>2, <1>4, <1>5, <2>2, <2>4, <3>1, <3>2, <3>3, UpToDateLess
  <2> QED BY <1>6, <2>3, <2>4
<1>11. CASE Announce(u)
  <2> DEFINE e == [evt |-> "Added", uid |-> u]
  <2>1. e \in SrcEvent /\ e.uid = u /\ e.evt # "Removed"
    BY DEF SrcEvent
  <2>2. Source(e)
    BY <1>11 DEF Announce
  <2> HIDE DEF e
  <2> QED BY <1>7, <2>1, <2>2
<1> QED BY <1>8, <1>9, <1>10, <1>11

LEMMA AppendFresh ==
  ASSUME NEW s \in Seq(Packet), NEW p \in Packet, NEW u, NEW v, p.uid = u => p.ver = v,
         \A i \in DOMAIN s : s[i].uid = u => s[i].ver = v
  PROVE  \A i \in DOMAIN Append(s, p) : Append(s, p)[i].uid = u => Append(s, p)[i].ver = v
<1> DEFINE a == Append(s, p)
<1>1. /\ Len(s) \in Nat /\ DOMAIN s = 1..Len(s) /\ DOMAIN a = 1..(Len(s) + 1)
      /\ (\A i \in DOMAIN s : i \in DOMAIN a /\ a[i] = s[i]) /\ a[Len(s) + 1] = p
  BY AppendIs
<1> HIDE DEF a
<1>2. \A i \in DOMAIN a : i \in DOMAIN s \/ i = Len(s) + 1
  BY <1>1
<1> QED BY <1>1, <1>2 DEF a

\* A reply is stamped with the version the phone has.
LEMMA UpToDateAnswer ==
  ASSUME IInv, Hands, UpToDate, Answer
  PROVE  UpToDate'
<1>1. /\ UNCHANGED <<phone, version, announced, btc, notifPc, notifEvt, sourceQ, needData, queuedUids, notifs,
                     excused, outdated>>
      /\ lost \subseteq lost'
  BY DEF Answer, Data, queueVars, notifVars, btcVars, storeVars
<1>2. Spared' \subseteq Spared /\ Held' = Held
  BY <1>1, SparedLess, HeldSame
<1>3. \A u : Pending(u)' <=> Pending(u)
  BY <1>2 DEF Pending
<1>4. Stream \in Seq(Packet)
  BY StreamIs DEF IInv
<1>5. ASSUME NEW u, AsNew(u) PROVE \A i \in DOMAIN Stream' : Stream'[i].uid = u => Stream'[i].ver = version[u]
  <2>0. \A i \in DOMAIN Stream : Stream[i].uid = u => Stream[i].ver = version[u]
    BY <1>5 DEF AsNew
  <2>1. CASE answering # <<>>
    <3>1. PICK t : \/ Stream' = Stream
                   \/ Stream' \in Seq(Packet) /\ t \in Packet /\ Stream = Append(Stream', t)
      BY <2>1, StreamTail DEF IInv
    <3>2. CASE Stream' = Stream
      BY <2>0, <3>2
    <3>3. CASE Stream' \in Seq(Packet) /\ t \in Packet /\ Stream = Append(Stream', t)
      <4>1. \A i \in DOMAIN Stream' : i \in DOMAIN Stream /\ Stream[i] = Stream'[i]
        BY <3>3, AppendIs
      <4> QED BY <2>0, <4>1
    <3> QED BY <3>1, <3>2, <3>3
  <2>2. CASE answering = <<>>
    <3> DEFINE v == Head(requests)
               p(part) == [part |-> part, uid |-> v, ver |-> version[v]]
               h == p("head")
               t == p("tail")
    <3>1. /\ h \in Packet /\ t \in Packet
          /\ \/ Stream' = Append(Append(Stream, h), t) /\ UNCHANGED lost
             \/ Stream' = Append(Stream, t) /\ lost' = lost \cup {v}
             \/ Stream' = Stream /\ UNCHANGED lost
      BY <2>2, StreamAnswer DEF IInv
    <3>2. (h.uid = u => h.ver = version[u]) /\ (t.uid = u => t.ver = version[u])
      OBVIOUS
    <3> HIDE DEF h, t
    <3>3. CASE Stream' = Append(Append(Stream, h), t)
      <4>1. Append(Stream, h) \in Seq(Packet)
        BY <1>4, <3>1, AppendIs
      <4>2. \A i \in DOMAIN Append(Stream, h) : Append(Stream, h)[i].uid = u => Append(Stream, h)[i].ver = version[u]
        BY <1>4, <2>0, <3>1, <3>2, AppendFresh
      <4>3. \A i \in DOMAIN Append(Append(Stream, h), t) :
              Append(Append(Stream, h), t)[i].uid = u => Append(Append(Stream, h), t)[i].ver = version[u]
        BY <3>1, <3>2, <4>1, <4>2, AppendFresh
      <4> QED BY <3>3, <4>3
    <3>4. CASE Stream' = Append(Stream, t)
      <4>1. \A i \in DOMAIN Append(Stream, t) : Append(Stream, t)[i].uid = u => Append(Stream, t)[i].ver = version[u]
        BY <1>4, <2>0, <3>1, <3>2, AppendFresh
      <4> QED BY <3>4, <4>1
    <3> QED BY <2>0, <3>1, <3>3, <3>4
  <2> QED BY <2>1, <2>2
<1>6. \A u : AsNew(u) => AsNew(u)'
  BY <1>1, <1>5 DEF AsNew, Current
<1> QED BY <1>1, <1>2, <1>3, <1>6, UpToDateLess

\* A queued uid has nothing of an older version under way, unless its request is.
LEMMA UpToDateQueue ==
  ASSUME IInv, IInv', Hands, Pipeline, UpToDate, NotifQueue
  PROVE  UpToDate'
<1>0. PICK u : u = Head(notifEvt).uid
  OBVIOUS
<1> DEFINE m == Head(notifEvt).evt = "Modified"
<1>1. /\ UNCHANGED <<phone, version, announced, btc, lost, notifs, dataHand, dataQ, answering, sourceQ>>
      /\ notifPc = "got" /\ notifPc' = "get" /\ notifEvt' = <<>> /\ outdated \subseteq outdated'
  BY DEF NotifQueue, dataVars, btcVars, storeVars
<1>2. /\ Held # <<>> /\ Held' = Tail(Held) /\ Held[1].uid = u /\ Stream' = Stream
  BY <1>0, <1>1, HeldFirst, StreamSame DEF IInv
<1>3. u \in Uids /\ m \in BOOLEAN
  <2>1. Head(notifEvt) \in SrcEvent
    BY <1>1 DEF IInv, TypeOK, EventHeld
  <2> QED BY <1>0, <2>1 DEF SrcEvent
<1>4. u \in queuedUids => /\ MergeModify(u, m) /\ UNCHANGED <<queuedUids, excused>>
                          /\ (InFlight(u) => u \in outdated')
  BY <1>0 DEF NotifQueue
<1>5. u \notin queuedUids => QueueNew(u, m)
  BY <1>0 DEF NotifQueue
<1> HIDE DEF m
<1>6. /\ Entries(needData', needData) /\ u \in queuedUids'
      /\ \A v \in queuedUids : v \in queuedUids' \/ v \in excused'
      /\ excused \subseteq excused'
  <2>1. CASE u \in queuedUids
    BY <1>3, <1>4, <2>1, MergeIs
  <2>2. CASE u \notin queuedUids
    BY <1>3, <1>5, <2>2, QueueNewIs
  <2> QED BY <2>1, <2>2
<1>7. Spared' \subseteq Spared
  BY <1>1, <1>6, SparedLess
<1>8. \A v : Pending(v) => Pending(v)' \/ u = v
  BY <1>1, <1>2, HeldTail
<1>9. ASSUME u \in Spared', u \notin outdated' PROVE AsNew(u)'
  <2>1. u # inFlightUid
    <3>1. u \notin queuedUids => u # inFlightUid
      BY <1>3, FrontIs
    <3>2. u = inFlightUid => InFlight(u)
      BY <1>3, FrontIs DEF InFlight
    <3> QED BY <1>4, <1>9, <3>1, <3>2
  <2>2. ~HasPacket(Stream, u)
    BY <1>7, <1>9, <2>1 DEF Pipeline, AskedOnce, Asked
  <2>3. \A j \in DOMAIN needData : needData[j].uid = u => needData[j].parts = {}
    BY <1>7, <1>9, <2>1 DEF Pipeline, Parts, Untouched
  <2>4. \A i \in DOMAIN needData' : needData'[i].uid = u => needData'[i].parts = {}
    BY <1>6, <2>3 DEF Entries
  <2> QED BY <1>2, <1>6, <2>2, <2>4 DEF AsNew, HasPacket, Current
<1>10. ASSUME NEW v \in Spared', AsNew(v) PROVE AsNew(v)'
  <2>1. v \notin queuedUids' => v \notin queuedUids
    BY <1>6 DEF Spared
  <2>2. Within(Stream', Stream, 0)
    BY <1>2, StreamIs, WithinSelf DEF IInv
  <2>3. \A i \in DOMAIN notifs' : \E j \in DOMAIN notifs : notifs'[i] = notifs[j]
    BY <1>1
  <2> QED BY <1>1, <1>6, <1>10, <2>1, <2>2, <2>3, AsNewKeeps
<1> QED BY <1>1, <1>7, <1>8, <1>9, <1>10, UpToDateLess

\* Removed, in its two steps: only a uid that is gone is touched.
LEMMA UpToDateRemoved ==
  ASSUME IInv, Hands, Events, UpToDate, StoreDistinct, NotifUnqueue \/ NotifRemove
  PROVE  UpToDate'
<1>0. PICK u : u = Head(notifEvt).uid
  OBVIOUS
<1>1. /\ UNCHANGED <<phone, version, announced, btc, lost, excused, outdated, dataHand, dataQ, answering, sourceQ>>
      /\ notifPc # "get" /\ Head(notifEvt).evt = "Removed"
  <2>1. notifPc # "get" => Head(notifEvt) = notifEvt[1]
    BY HeldFirst DEF IInv
  <2> QED BY <2>1 DEF NotifUnqueue, NotifRemove, Hands, phoneVars, dataVars, btcVars
<1>2. /\ Held # <<>> /\ Held[1].uid = u /\ Held[1].evt = "Removed" /\ 1 \in DOMAIN Held
      /\ Stream' = Stream /\ Spared' = Spared
  BY <1>0, <1>1, HeldFirst, StreamSame, StreamIs, TailIs DEF IInv, Spared
<1>3. phone[u] = "gone"
  BY <1>2 DEF Events, RemovedLast
<1>4. \A v : Pending(v) => Pending(v)'
  <2>1. CASE NotifUnqueue
    <3>1. Held' = Held
      BY <1>1, <2>1, HeldSame DEF NotifUnqueue
    <3> QED BY <3>1 DEF Pending
  <2>2. CASE NotifRemove
    <3>1. Held' = Tail(Held) /\ notifPc' = "get"
      BY <1>1, <2>2, HeldFirst DEF NotifRemove, IInv
    <3> QED BY <1>2, <3>1, HeldTail
  <2> QED BY <2>1, <2>2
<1>5. ASSUME NEW v, v # u, AsNew(v) PROVE AsNew(v)'
  <2>1. CASE NotifUnqueue
    <3>1. UNCHANGED notifs /\ \A w \in queuedUids : w \in queuedUids' \/ w = u
      BY <1>0, <2>1 DEF NotifUnqueue, storeVars
    <3>2. Entries(needData', needData)
      <4>1. CASE UNCHANGED needData
        BY <4>1, EntriesSame
      <4>2. CASE /\ \E i \in DOMAIN needData : needData[i].uid = u
                 /\ needData' = RemoveAt(needData, IndexOf(needData, u))
        <5> DEFINE at == IndexOf(needData, u)
        <5>1. at \in DOMAIN needData
          BY <4>2 DEF IndexOf
        <5>2. at \in 1..Len(needData) /\ needData \in Seq(Entry)
          BY <5>1, FrontIs
        <5> HIDE DEF at
        <5>3. Entries(RemoveAt(needData, at), needData)
          BY <5>2, EntriesRemoved
        <5> QED BY <4>2, <5>3 DEF at
      <4> QED BY <1>0, <2>1, <4>1, <4>2 DEF NotifUnqueue
    <3>3. Within(Stream', Stream, 0)
      BY <1>2, StreamIs, WithinSelf DEF IInv
    <3> QED BY <1>1, <1>5, <3>1, <3>2, <3>3, AsNewKeeps
  <2>2. CASE NotifRemove
    <3>1. UNCHANGED <<queuedUids, needData>> /\ notifs' = Erase(notifs, u)
      BY <1>0, <2>2 DEF NotifRemove, queueVars
    <3>2. \A i \in DOMAIN notifs' : \E j \in DOMAIN notifs : notifs'[i] = notifs[j]
      BY <3>1, StoreErased
    <3>3. Within(Stream', Stream, 0) /\ Entries(needData', needData)
      BY <1>2, <3>1, StreamIs, WithinSelf, EntriesSame DEF IInv
    <3> QED BY <1>1, <1>5, <3>1, <3>2, <3>3, AsNewKeeps
  <2> QED BY <2>1, <2>2
<1> QED BY <1>1, <1>2, <1>3, <1>4, <1>5, UpToDateLess

\* A pass of loopData: the parts parsed are of the phone's version, and so
\* is the notification made of them.
LEMMA UpToDatePass ==
  ASSUME IInv, Flushed, Hands, Pipeline, UpToDate, StoreDistinct, DataStep
  PROVE  UpToDate'
<1>1. UNCHANGED <<phone, version, announced, btc, lost, sourceQ, notifPc, notifEvt, outdated>>
  BY DEF DataStep, phoneVars, notifVars, btcVars
<1>2. Held' = Held /\ \A u : Pending(u)' <=> Pending(u)
  <2>1. Held' = Held
    BY <1>1, HeldSame
  <2> QED BY <2>1 DEF Pending
<1>3. PICK k \in Nat : Within(Stream', Stream, k)
  BY StepIs
<1>4. ASSUME Spared' \subseteq Spared, \A u \in Spared' : AsNew(u) => AsNew(u)' PROVE UpToDate'
  BY <1>1, <1>2, <1>4, UpToDateLess
<1>5. CASE Skipped
  <2>1. UNCHANGED <<needData, queuedUids, notifs, excused>>
    BY <1>5 DEF Skipped, queueVars
  <2>2. Entries(needData', needData) /\ Spared' \subseteq Spared
    BY <1>1, <2>1, EntriesSame, SparedLess
  <2>3. ASSUME NEW u \in Spared', AsNew(u) PROVE AsNew(u)'
    BY <1>1, <1>3, <2>1, <2>2, <2>3, AsNewKeeps
  <2> QED BY <1>4, <2>2, <2>3
<1>6. CASE Dropped
  <2>1. StoreBut(excused') /\ (needData # <<>> => needData[1].uid \in excused')
    BY <1>6, StoreDropped
  <2>2. /\ Entries(needData', needData) /\ excused \subseteq excused'
        /\ \A u \in queuedUids : u \in queuedUids' \/ (needData # <<>> /\ u = needData[1].uid)
    BY <1>6, PopIs DEF Dropped
  <2>3. Spared' \subseteq Spared
    BY <1>1, <2>2, SparedLess
  <2>4. ASSUME NEW u \in Spared', AsNew(u) PROVE AsNew(u)'
    <3>1. u \notin excused'
      BY DEF Spared
    <3>2. u \notin queuedUids' => u \notin queuedUids
      BY <2>1, <2>2, <3>1
    <3>3. \A i \in DOMAIN notifs' : notifs'[i].uid = u => \E j \in DOMAIN notifs : notifs'[i] = notifs[j]
      BY <2>1, <3>1 DEF StoreBut
    <3> QED BY <1>1, <1>3, <2>2, <2>4, <3>2, <3>3, AsNewKeeps
  <2> QED BY <1>4, <2>3, <2>4
<1>7. CASE Completed
  <2>1. /\ Stream # <<>> /\ Stream[1] \in Packet
        /\ needData[1].uid \notin lost => Stream[1].uid = needData[1].uid
        /\ \A i \in DOMAIN notifs' :
             \/ \E j \in DOMAIN notifs : notifs'[i] = notifs[j] /\ notifs[j].uid # needData[1].uid
             \/ notifs'[i].uid = needData[1].uid /\ notifs'[i].parts = needData[1].parts \cup {Stream[1]}
        /\ PopFront /\ ToIdle
    BY <1>7, StoreCompleted
  <2>2. /\ Entries(needData', needData)
        /\ \A u \in queuedUids : u \in queuedUids' \/ u = needData[1].uid
    BY <2>1, PopIs
  <2>3. Spared' \subseteq Spared /\ needData # <<>>
    BY <1>1, <1>7, SparedLess DEF Completed
  <2>4. 1 \in DOMAIN needData /\ 1 \in DOMAIN Stream
    BY <2>1, <2>3, FrontIs, StreamIs, TailIs DEF IInv
  <2>5. ASSUME NEW u \in Spared', AsNew(u) PROVE AsNew(u)'
    <3>1. CASE u = needData[1].uid
      <4>1. u \notin lost
        BY <2>3 DEF Spared
      <4>2. Stream[1].ver = version[u]
        BY <2>1, <2>4, <2>5, <3>1, <4>1 DEF AsNew
      <4>3. Current(needData[1].parts, u)
        BY <2>4, <2>5, <3>1 DEF AsNew
      <4>4. \A i \in DOMAIN notifs' : notifs'[i].uid = u => \A p \in notifs'[i].parts : p.ver = version'[u]
        BY <1>1, <2>1, <3>1, <4>2, <4>3 DEF Current
      <4>5. \A i \in DOMAIN Stream' : Stream'[i].uid = u => Stream'[i].ver = version'[u]
        BY <1>1, <1>3, <2>5 DEF AsNew, Within
      <4>6. \A i \in DOMAIN needData' : needData'[i].uid = u => \A p \in needData'[i].parts : p.ver = version'[u]
        BY <1>1, <2>2, <2>5 DEF AsNew, Entries, Current
      <4> QED BY <4>4, <4>5, <4>6 DEF AsNew, Current
    <3>2. CASE u # needData[1].uid
      <4>1. u \notin queuedUids' => u \notin queuedUids
        BY <2>2, <3>2
      <4>2. \A i \in DOMAIN notifs' : notifs'[i].uid = u => \E j \in DOMAIN notifs : notifs'[i] = notifs[j]
        BY <2>1, <3>2
      <4> QED BY <1>1, <1>3, <2>2, <2>5, <4>1, <4>2, AsNewKeeps
    <3> QED BY <3>1, <3>2
  <2> QED BY <1>4, <2>3, <2>5
<1>8. CASE Begun
  <2>1. /\ dataHand # <<>> /\ needData # <<>> /\ Head(dataHand).part # "tail"
        /\ reqState = "Processing" \/ IsHeader(Head(dataHand), Head(needData).uid)
        /\ needData' = [needData EXCEPT ![1].parts = @ \cup {Head(dataHand)}]
        /\ UNCHANGED <<queuedUids, notifs, excused>>
    BY <1>8 DEF Begun
  <2>2. Stream # <<>> /\ Head(dataHand) = Stream[1] /\ Stream[1] \in Packet
    BY <2>1, StepIs
  <2>3. needData[1].uid \notin lost => Stream[1].uid = needData[1].uid
    BY <2>1, <2>2, PacketIs
  <2>4. 1 \in DOMAIN needData /\ 1 \in DOMAIN Stream
    BY <2>1, <2>2, FrontIs, StreamIs, TailIs DEF IInv
  <2>5. /\ DOMAIN needData' = DOMAIN needData
        /\ \A i \in DOMAIN needData : needData'[i].uid = needData[i].uid
        /\ \A i \in DOMAIN needData : i # 1 => needData'[i].parts = needData[i].parts
        /\ needData'[1].parts = needData[1].parts \cup {Stream[1]}
    <3>1. \A i \in DOMAIN needData : needData[i] \in Entry
      BY FrontIs
    <3>2. \A e \in Entry : /\ [e EXCEPT !.parts = @ \cup {Stream[1]}].uid = e.uid
                           /\ [e EXCEPT !.parts = @ \cup {Stream[1]}].parts = e.parts \cup {Stream[1]}
      BY DEF Entry
    <3> QED BY <2>1, <2>2, <2>4, <3>1, <3>2
  <2>6. Spared' \subseteq Spared
    BY <1>1, <2>1, SparedLess
  <2>7. ASSUME NEW u \in Spared', AsNew(u) PROVE AsNew(u)'
    <3>1. u \notin lost
      BY <2>6 DEF Spared
    <3>2. \A i \in DOMAIN needData' : needData'[i].uid = u => \A p \in needData'[i].parts : p.ver = version'[u]
      <4> SUFFICES ASSUME NEW i \in DOMAIN needData, needData[i].uid = u, NEW p \in needData'[i].parts
                   PROVE  p.ver = version[u]
        BY <1>1, <2>5
      <4>1. CASE p \in needData[i].parts
        BY <2>7, <4>1 DEF AsNew, Current
      <4>2. CASE i = 1 /\ p = Stream[1]
        BY <2>3, <2>4, <2>7, <3>1, <4>2 DEF AsNew
      <4> QED BY <2>5, <4>1, <4>2
    <3>3. \A i \in DOMAIN Stream' : Stream'[i].uid = u => Stream'[i].ver = version'[u]
      BY <1>1, <1>3, <2>7 DEF AsNew, Within
    <3>4. u \notin queuedUids' =>
            \A i \in DOMAIN notifs' : notifs'[i].uid = u => \A p \in notifs'[i].parts : p.ver = version'[u]
      BY <1>1, <2>1, <2>7 DEF AsNew, Current
    <3> QED BY <3>2, <3>3, <3>4 DEF AsNew, Current
  <2> QED BY <1>4, <2>6, <2>7
<1> QED BY <1>5, <1>6, <1>7, <1>8, StepCases

LEMMA UpToDateKeeps ==
  IInv /\ IInv' /\ Flushed /\ Hands /\ Pipeline /\ Events /\ UpToDate /\ StoreDistinct /\ Next => UpToDate'
<1> SUFFICES ASSUME IInv, IInv', Flushed, Hands, Pipeline, Events, UpToDate, StoreDistinct, Next PROVE UpToDate'
  OBVIOUS
<1>1. CASE Answer
  BY <1>1, UpToDateAnswer
<1>2. CASE \E u \in Uids : PhoneAdds(u) \/ PhoneModifies(u) \/ PhoneRemoves(u) \/ Announce(u)
  BY <1>2, UpToDatePhone
<1>3. CASE Btc
  <2>1. btc' = "up" => announced' = {}
    BY <1>3 DEF Btc, OnConn, PhoneOnConnect, ServiceClose, OnDiscon, OnDisconLeave, PhoneOnDisconnect,
                phoneVars, Flushed
  <2> QED BY <2>1 DEF UpToDate
<1>4. CASE NotifQueue
  BY <1>4, UpToDateQueue
<1>5. CASE NotifUnqueue \/ NotifRemove
  BY <1>5, UpToDateRemoved
<1>6. CASE DataStep
  BY <1>6, UpToDatePass
<1>7. CASE NotifTake \/ DataPump \/ DataTake \/ RequestExpires
  <2>1. UNCHANGED <<phone, version, announced, btc, queuedUids, needData, notifs, lost, excused, outdated>>
    BY <1>7 DEF NotifTake, DataPump, DataTake, RequestExpires, phoneVars, queueVars, btcVars, storeVars
  <2>2. Held' = Held
    <3>1. CASE NotifTake
      BY <3>1, HeldTake DEF IInv
    <3>2. CASE DataPump \/ DataTake \/ RequestExpires
      BY <3>2, HeldSame DEF DataPump, DataTake, RequestExpires, notifVars
    <3> QED BY <1>7, <3>1, <3>2
  <2>3. Stream' = Stream
    <3>1. CASE DataTake
      BY <3>1, StreamTake DEF IInv
    <3>2. CASE NotifTake \/ DataPump \/ RequestExpires
      BY <3>2, StreamSame DEF NotifTake, DataPump, RequestExpires, phoneVars, dataVars
    <3> QED BY <1>7, <3>1, <3>2
  <2>4. \A u : (Pending(u)' <=> Pending(u)) /\ (AsNew(u) => AsNew(u)')
    BY <2>1, <2>2, <2>3 DEF Pending, AsNew, Current
  <2>5. Spared' \subseteq Spared
    BY <2>1, SparedLess
  <2> QED BY <2>1, <2>4, <2>5, UpToDateLess
<1> QED BY <1>1, <1>2, <1>3, <1>4, <1>5, <1>6, <1>7 DEF Next, PhoneNext, NotifThread, DataThread

LEMMA OwnBytesKeep ==
  IInv /\ Flushed /\ Hands /\ Pipeline /\ OwnBytesOnly /\ StoreDistinct /\ Next => OwnBytesOnly'
<1> SUFFICES ASSUME IInv, Flushed, Hands, Pipeline, OwnBytesOnly, StoreDistinct, Next PROVE OwnBytesOnly'
  OBVIOUS
<1>1. lost \subseteq lost'
  BY DEF Next, PhoneNext, Btc, NotifThread, DataThread, Answer, PhoneAdds, PhoneModifies, PhoneRemoves, Announce,
         Source, Data, OnConn, PhoneOnConnect, ServiceClose, OnDiscon, OnDisconLeave, PhoneOnDisconnect,
         NotifTake, NotifQueue, NotifUnqueue, NotifRemove, DataPump, DataTake, DataStep, RequestExpires
<1>2. ASSUME \A i \in DOMAIN notifs' :
               \/ \E j \in DOMAIN notifs : notifs'[i] = notifs[j]
               \/ notifs'[i].uid \notin lost => \A p \in notifs'[i].parts : p.uid = notifs'[i].uid
      PROVE  OwnBytesOnly'
  BY <1>1, <1>2 DEF OwnBytesOnly
<1>3. CASE UNCHANGED notifs \/ notifs' = <<>>
  BY <1>2, <1>3
<1>4. CASE NotifRemove
  <2>1. PICK u : notifs' = Erase(notifs, u)
    BY <1>4 DEF NotifRemove
  <2>2. \A i \in DOMAIN notifs' : \E j \in DOMAIN notifs : notifs'[i] = notifs[j]
    BY <2>1, StoreErased
  <2> QED BY <1>2, <2>2
<1>5. CASE DataStep
  <2>1. needData # <<>> /\ needData[1].uid \notin lost => \A p \in needData[1].parts : p.uid = needData[1].uid
    BY FrontIs DEF Pipeline, Parts, OwnParts
  <2>2. CASE Dropped
    <3>1. \A i \in DOMAIN notifs' :
            \/ \E j \in DOMAIN notifs : notifs'[i] = notifs[j]
            \/ needData # <<>> /\ notifs'[i].uid = needData[1].uid /\ notifs'[i].parts = needData[1].parts
      BY <2>2, StoreDropped
    <3> QED BY <1>2, <2>1, <3>1
  <2>3. CASE Completed
    <3>1. /\ needData[1].uid \notin lost => Stream[1].uid = needData[1].uid
          /\ \A i \in DOMAIN notifs' :
               \/ \E j \in DOMAIN notifs : notifs'[i] = notifs[j] /\ notifs[j].uid # needData[1].uid
               \/ notifs'[i].uid = needData[1].uid /\ notifs'[i].parts = needData[1].parts \cup {Stream[1]}
      BY <1>5, <2>3, StoreCompleted
    <3> QED BY <1>2, <2>1, <2>3, <3>1 DEF Completed
  <2> QED BY <1>3, <1>5, <2>2, <2>3, StepCases DEF Skipped, Begun
<1> QED BY <1>3, <1>4, <1>5
        DEF Next, PhoneNext, Btc, NotifThread, DataThread, Answer, PhoneAdds, PhoneModifies, PhoneRemoves,
            Announce, Change, OnConn, PhoneOnConnect, ServiceClose, OnDiscon, OnDisconLeave,
            PhoneOnDisconnect, NotifTake, NotifQueue, NotifUnqueue, DataPump, DataTake, RequestExpires, storeVars

-----------------------------------------------------------------------------
(* Quiet, the watch mirrors the phone.                                      *)

MIInv ==
  /\ IInv /\ Flushed /\ Hands /\ Pipeline /\ Events
  /\ UpToDate /\ OwnBytesOnly /\ StoreDistinct

LEMMA MirrorInit == Init => MIInv
<1> SUFFICES ASSUME Init PROVE MIInv
  OBVIOUS
<1>1. IInv
  BY InitOK
<1>2. Flushed /\ Hands
  BY DEF Init, Flushed, Hands
<1>3. /\ Stream = <<>> /\ Held = <<>> /\ needData = <<>> /\ requests = <<>> /\ notifs = <<>>
      /\ reqState = "Idle" /\ announced = {} /\ queuedUids = {}
  <2>1. <<>> \in Seq(Packet) /\ <<>> \in Seq(SrcEvent)
    OBVIOUS
  <2>2. <<>> \o <<>> = <<>>
    BY <2>1, EmptyFirst
  <2> QED BY <2>2 DEF Init, Stream, Held
<1>4. Pipeline
  BY <1>3 DEF Pipeline, Unpumped, Ghost, Paired, NextIsTail, Parts, OwnParts, HeadParsed, Untouched, AskedOnce,
              Asked, HasPacket, HasPart, InSeq, Once, OnceIn
<1>5. Events
  BY <1>3 DEF Events, RemovedLast, Known, Coming, Ours, Going, Has
<1>6. UpToDate /\ OwnBytesOnly /\ StoreDistinct
  BY <1>3 DEF UpToDate, OwnBytesOnly, StoreDistinct, Distinct
<1> QED BY <1>1, <1>2, <1>4, <1>5, <1>6 DEF MIInv

LEMMA MirrorStutter == MIInv /\ UNCHANGED vars => MIInv'
<1> SUFFICES ASSUME MIInv, UNCHANGED vars PROVE MIInv'
  OBVIOUS
<1> USE DEF vars, phoneVars, queueVars, notifVars, dataVars, btcVars, storeVars
<1>1. IInv'
  BY StutterKeeps DEF MIInv
<1>2. Flushed' /\ Hands'
  BY DEF MIInv, Flushed, Hands
<1>3. Stream' = Stream /\ Held' = Held /\ Spared' = Spared
  BY DEF Stream, Held, Spared
<1>4. Pipeline'
  BY <1>3 DEF MIInv, Pipeline, Unpumped, Ghost, NoReply, NextIsTail, Parts, OwnParts, HeadParsed, Untouched, AskedOnce
<1>5. Events'
  <2>1. \A u : (Pending(u)' <=> Pending(u)) /\ (Parting(u)' <=> Parting(u)) /\ (Complete(u)' <=> Complete(u))
               /\ (Has(notifs, u)' <=> Has(notifs, u)) /\ (Settled(u)' <=> Settled(u))
    BY <1>3 DEF Pending, Parting, Complete, Settled
  <2>2. RemovedLast' /\ Known' /\ Coming' /\ Ours' /\ Going'
    BY <1>3, <2>1 DEF MIInv, Events, RemovedLast, Known, Coming, Arriving, Ours, Going, Leaving
  <2> QED BY <2>2 DEF Events
<1>6. UpToDate'
  <2>1. \A u : (Pending(u)' <=> Pending(u)) /\ (AsNew(u)' <=> AsNew(u))
    BY <1>3 DEF Pending, AsNew, Current
  <2> QED BY <1>3, <2>1 DEF MIInv, UpToDate
<1>7. OwnBytesOnly' /\ StoreDistinct'
  BY DEF MIInv, OwnBytesOnly, StoreDistinct
<1> QED BY <1>1, <1>2, <1>4, <1>5, <1>6, <1>7 DEF MIInv

LEMMA MirrorQuiet == MIInv => Mirrored
<1> SUFFICES ASSUME MIInv PROVE Mirrored
  OBVIOUS
<1>1. ASSUME Quiet
      PROVE  /\ btc = "up" /\ notifPc = "get" /\ queuedUids = {}
             /\ \A u : ~Pending(u) /\ ~Parting(u)
             /\ \A u \in Uids : phone[u] = "active" => u \in announced
  <2>1. btc = "up" /\ notifPc = "get" /\ sourceQ = <<>> /\ needData = <<>>
        /\ \A u \in Uids : phone[u] = "active" => u \in announced
    BY <1>1 DEF Quiet
  <2>2. Held = <<>>
    <3>1. notifEvt = <<>>
      BY <2>1 DEF MIInv, Hands
    <3>2. <<>> \in Seq(SrcEvent)
      OBVIOUS
    <3> QED BY <2>1, <3>1, <3>2, EmptyFirst DEF Held
  <2>3. queuedUids = {}
    BY <2>1 DEF MIInv, IInv, QueueConsistent, UidsOf
  <2>4. \A u : ~Pending(u) /\ ~Parting(u)
    BY <2>2 DEF Pending, Parting
  <2> QED BY <2>1, <2>3, <2>4
<1>2. ASSUME Quiet, NEW u \in Spared
      PROVE  /\ phone[u] = "active" => u \in announced /\ Complete(u)
             /\ phone[u] # "active" => ~Has(notifs, u)
  <2>1. u \in Uids /\ phone[u] \in {"none", "active", "gone"}
    BY DEF Spared, MIInv, IInv, TypeOK
  <2>2. phone[u] = "active" => u \in announced /\ Complete(u)
    BY <1>1, <1>2, <2>1 DEF MIInv, Events, Coming, Arriving
  <2>3. Has(notifs, u) => u \in announced
    BY <1>1, <1>2 DEF MIInv, Events, Ours
  <2>4. u \in announced => phone[u] # "none"
    BY DEF MIInv, Events, Known
  <2>5. u \in announced /\ phone[u] = "gone" => ~Has(notifs, u)
    BY <1>1, <1>2 DEF MIInv, Events, Going, Leaving
  <2> QED BY <2>1, <2>2, <2>3, <2>4, <2>5
<1>3. Converged
  BY <1>2 DEF Converged, Spared
<1>4. Fresh
  <2> SUFFICES ASSUME Quiet, NEW i \in DOMAIN notifs, notifs[i].uid \notin excused \cup lost \cup outdated
               PROVE  \A p \in notifs[i].parts : p.ver = version[notifs[i].uid]
    BY DEF Fresh
  <2> DEFINE u == notifs[i].uid
  <2>1. u \in Uids
    <3>1. notifs[i] \in Shown
      BY DEF MIInv, IInv, TypeOK
    <3> QED BY <3>1 DEF Shown
  <2>2. u \in Spared /\ Has(notifs, u)
    BY <2>1 DEF Spared, Has
  <2>3. phone[u] = "active" /\ u \in announced
    BY <1>2, <2>2
  <2>4. AsNew(u)
    BY <1>1, <2>2, <2>3 DEF MIInv, UpToDate
  <2> QED BY <1>1, <2>4 DEF AsNew, Current
<1> QED BY <1>3, <1>4 DEF MIInv, Mirrored

(* What the watch shows is each notification's own bytes, and once the      *)
(* pipeline is quiet it is exactly what the phone has, complete and as new, *)
(* but for the uids a limit, a timeout or a lost packet excuses.            *)
THEOREM WatchMirrorsPhone == Spec => []Mirrored
<1>1. MIInv /\ [Next]_vars => MIInv'
  <2>1. CASE Next
    <3>1. MIInv => IInv'
      BY <2>1, PhoneKeeps, BtcKeeps, NotifKeeps, DataThreadKeeps, ExpiresKeeps DEF Next, MIInv
    <3>2. MIInv => Flushed' /\ Hands' /\ StoreDistinct' /\ OwnBytesOnly' /\ Events'
      BY <2>1, FlushedKeeps, HandsKeep, StoreDistinctKeeps, OwnBytesKeep, EventsKeep DEF MIInv
    <3>3. MIInv => Pipeline' /\ UpToDate'
      BY <2>1, <3>1, PipelineKeeps, UpToDateKeeps DEF MIInv
    <3> QED BY <3>1, <3>2, <3>3 DEF MIInv
  <2> QED BY <2>1, MirrorStutter
<1> QED BY <1>1, MirrorInit, MirrorQuiet, PTL DEF Spec
===============================================================================
