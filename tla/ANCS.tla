---------------------------------- MODULE ANCS ----------------------------------
(***************************************************************************)
(* The Apple notification pipeline (Notifs/ANCS/Client) and the phone it   *)
(* talks to.  Three threads of the watch share it: the Bluetooth task      *)
(* (BTC), which opens and closes the session and fills the two            *)
(* notification queues of the characteristics; ANCS::Notif, which turns    *)
(* Notification Source events into queued uids; and ANCS::Data, which      *)
(* requests the attributes of one uid at a time and parses the replies.    *)
(* `mut` makes the body of each locked section one step.                   *)
(*                                                                         *)
(* A reply is two Data Source packets, "head" (the header with the uid and *)
(* the first attributes) and "tail" (the rest, the last requested          *)
(* attribute included), stamped with the version of the notification the   *)
(* phone read.  Deadlines are Booleans that may come true at any moment.   *)
(***************************************************************************)
EXTENDS PhoneNotifs, FiniteSets

CONSTANTS
  Uids,        \* notification uids
  NoUid,       \* inFlightUid when nothing is in flight
  MaxQueued,   \* Client::MaxQueued
  QueueLen,    \* entries of a characteristic's notification queue
  MaxChanges,  \* bound of the model: changes on the phone
  MaxSessions  \* bound of the model: connections

ASSUME ANCSAssumption ==
  /\ NoUid \notin Uids
  /\ MaxQueued \in Nat /\ MaxQueued >= 2
  /\ QueueLen \in Nat \ {0}
  /\ MaxChanges \in Nat /\ MaxSessions \in Nat

VARIABLES
  phone,       \* the phone's notifications: [Uids -> {none, active, gone}]
  version,     \* the version of each
  announced,   \* the uids it has sent Added for in this session
  requests,    \* GetNotificationAttributes it has received and not answered
  answering,   \* the tail it still has to send: a sequence of at most one packet
  changes,     \* changes so far
  sessions,    \* connections so far
  btc,         \* where the BTC task is: down, joining, up, closed, cleared, left
  connected,   \* Client::connected
  sourceQ,     \* chr.notif->notifQueue
  dataQ,       \* chr.data->notifQueue
  needData,    \* Client::needData
  queuedUids,  \* Client::queuedUids
  reqState,    \* Client::reqState
  inFlightUid, \* Client::inFlightUid
  abandonInFlight,
  expired,     \* RequestTimeoutMs have passed since reqStartMs
  notifPc, notifEvt,   \* ANCS::Notif: its place and the event it holds
  dataPc, dataHand,    \* ANCS::Data: its place and the packet it holds, if any
  current,     \* Phone::current is this source
  notifs,      \* Phone::notifs
  lost,        \* history: uids of which a full characteristic queue dropped a
               \*   packet, or whose packet was in hand when a session closed
  excused,     \* history: uids whose entry was evicted or dropped, or queued in
               \*   a session that had not announced them
  outdated     \* history: uids modified while their request was in flight

phoneVars  == <<phone, version, announced, requests, answering, changes>>
queueVars  == <<needData, queuedUids, reqState, inFlightUid, abandonInFlight, expired>>
notifVars  == <<notifPc, notifEvt>>
dataVars   == <<dataPc, dataHand>>
btcVars    == <<btc, connected, sessions>>
storeVars  == <<current, notifs>>
vars == <<phoneVars, queueVars, notifVars, dataVars, btcVars, storeVars,
          sourceQ, dataQ, lost, excused, outdated>>

Version  == 0..MaxChanges
SrcEvent == [evt : {"Added", "Modified", "Removed"}, uid : Uids]
Packet   == [part : {"head", "tail"}, uid : Uids, ver : Version]
Entry    == [uid : Uids, modify : BOOLEAN, parts : SUBSET Packet]
Shown    == [uid : Uids, parts : SUBSET Packet, empty : BOOLEAN]

TypeOK ==
  /\ phone \in [Uids -> {"none", "active", "gone"}]
  /\ version \in [Uids -> Version]
  /\ announced \subseteq Uids
  /\ requests \in Seq(Uids)
  /\ answering \in Seq(Packet)
  /\ changes \in 0..MaxChanges
  /\ sessions \in 0..MaxSessions
  /\ btc \in {"down", "joining", "up", "closed", "cleared", "left"}
  /\ connected \in BOOLEAN
  /\ sourceQ \in Seq(SrcEvent) /\ Len(sourceQ) =< QueueLen
  /\ dataQ \in Seq(Packet) /\ Len(dataQ) =< QueueLen
  /\ needData \in Seq(Entry)
  /\ queuedUids \subseteq Uids
  /\ reqState \in {"Idle", "Awaiting", "Processing"}
  /\ inFlightUid \in Uids \cup {NoUid}
  /\ abandonInFlight \in BOOLEAN
  /\ expired \in BOOLEAN
  /\ notifPc \in {"get", "got", "rem"}
  /\ notifEvt \in Seq(SrcEvent)
  /\ dataPc \in {"top", "get", "got"}
  /\ dataHand \in Seq(Packet)
  /\ current \in BOOLEAN
  /\ notifs \in Seq(Shown) /\ Len(notifs) =< MaxNotifs
  /\ lost \subseteq Uids
  /\ excused \subseteq Uids
  /\ outdated \subseteq Uids

Init ==
  /\ phone = [u \in Uids |-> "none"] /\ version = [u \in Uids |-> 0]
  /\ announced = {} /\ requests = <<>> /\ answering = <<>> /\ changes = 0
  /\ sessions = 0 /\ btc = "down" /\ connected = FALSE
  /\ sourceQ = <<>> /\ dataQ = <<>>
  /\ needData = <<>> /\ queuedUids = {} /\ reqState = "Idle"
  /\ inFlightUid = NoUid /\ abandonInFlight = FALSE /\ expired = FALSE
  /\ notifPc = "get" /\ notifEvt = <<>> /\ dataPc = "top" /\ dataHand = <<>>
  /\ current = FALSE /\ notifs = <<>>
  /\ lost = {} /\ excused = {} /\ outdated = {}

-----------------------------------------------------------------------------
(* The phone, and the BTC task handing its packets to the characteristics  *)
(* (Char::onNotify posts without waiting: a full queue drops the packet).  *)

Source(e) ==
  /\ sourceQ' = IF Len(sourceQ) < QueueLen THEN Append(sourceQ, e) ELSE sourceQ
  /\ lost' = IF Len(sourceQ) < QueueLen THEN lost ELSE lost \cup {e.uid}

Data(p) ==
  /\ dataQ' = IF Len(dataQ) < QueueLen THEN Append(dataQ, p) ELSE dataQ
  /\ lost' = IF Len(dataQ) < QueueLen THEN lost ELSE lost \cup {p.uid}

Change ==
  /\ changes < MaxChanges
  /\ changes' = changes + 1
  /\ UNCHANGED <<queueVars, notifVars, dataVars, btcVars, storeVars,
                 requests, answering, dataQ, excused, outdated>>

PhoneAdds(u) ==
  /\ Change
  /\ phone[u] = "none"
  /\ phone' = [phone EXCEPT ![u] = "active"]
  /\ UNCHANGED <<version, announced, sourceQ, lost>>

PhoneModifies(u) ==
  /\ Change
  /\ phone[u] = "active"
  /\ version' = [version EXCEPT ![u] = @ + 1]
  /\ IF btc = "up" /\ u \in announced
       THEN Source([evt |-> "Modified", uid |-> u])
       ELSE UNCHANGED <<sourceQ, lost>>
  /\ UNCHANGED <<phone, announced>>

PhoneRemoves(u) ==
  /\ Change
  /\ phone[u] = "active"
  /\ phone' = [phone EXCEPT ![u] = "gone"]
  /\ IF btc = "up" /\ u \in announced
       THEN Source([evt |-> "Removed", uid |-> u])
       ELSE UNCHANGED <<sourceQ, lost>>
  /\ UNCHANGED <<version, announced>>

Announce(u) ==
  /\ btc = "up"
  /\ phone[u] = "active"
  /\ u \notin announced
  /\ announced' = announced \cup {u}
  /\ Source([evt |-> "Added", uid |-> u])
  /\ UNCHANGED <<phone, version, requests, answering, changes, queueVars, notifVars,
                 dataVars, btcVars, storeVars, dataQ, excused, outdated>>

\* A uid that is gone is refused (0xA2): no Data Source packet follows.
Answer ==
  /\ btc = "up"
  /\ IF answering # <<>>
       THEN /\ Data(Head(answering))
            /\ answering' = <<>>
            /\ UNCHANGED requests
       ELSE /\ requests # <<>>
            /\ requests' = Tail(requests)
            /\ LET u == Head(requests)
                   p(part) == [part |-> part, uid |-> u, ver |-> version[u]]
               IN IF phone[u] = "active"
                    THEN Data(p("head")) /\ answering' = <<p("tail")>>
                    ELSE UNCHANGED <<dataQ, answering, lost>>
  /\ UNCHANGED <<phone, version, announced, changes, queueVars, notifVars, dataVars,
                 btcVars, storeVars, sourceQ, excused, outdated>>

PhoneNext == Answer \/ \E u \in Uids : PhoneAdds(u) \/ PhoneModifies(u) \/ PhoneRemoves(u) \/ Announce(u)

-----------------------------------------------------------------------------
(* The BTC task: Service::pull and Service::close with this client's        *)
(* callbacks.                                                               *)

OnConn ==
  /\ btc = "down"
  /\ sessions < MaxSessions
  /\ sessions' = sessions + 1
  /\ btc' = "joining"
  /\ connected' = TRUE
  /\ UNCHANGED <<phoneVars, queueVars, notifVars, dataVars, storeVars, sourceQ,
                 dataQ, lost, excused, outdated>>

\* Phone::onConnect
PhoneOnConnect ==
  /\ btc = "joining"
  /\ btc' = "up"
  /\ current' = TRUE
  /\ notifs' = <<>>
  /\ UNCHANGED <<phoneVars, queueVars, notifVars, dataVars, connected, sessions,
                 sourceQ, dataQ, lost, excused, outdated>>

\* Char::close flushes the queues; what the phone still had to say is lost,
\* and a packet ANCS::Data already holds outlives its session.
ServiceClose ==
  /\ btc = "up"
  /\ btc' = "closed"
  /\ sourceQ' = <<>> /\ dataQ' = <<>>
  /\ announced' = {} /\ requests' = <<>> /\ answering' = <<>>
  /\ lost' = lost \cup {dataHand[i].uid : i \in DOMAIN dataHand}
  /\ UNCHANGED <<phone, version, changes, queueVars, notifVars, dataVars, connected,
                 sessions, storeVars, excused, outdated>>

OnDisconClear ==
  /\ needData' = <<>> /\ queuedUids' = {} /\ reqState' = "Idle"
  /\ inFlightUid' = NoUid /\ abandonInFlight' = FALSE
  /\ UNCHANGED expired

OnDiscon ==
  /\ btc = "closed"
  /\ btc' = "cleared"
  /\ OnDisconClear
  /\ UNCHANGED <<phoneVars, notifVars, dataVars, connected, sessions, storeVars,
                 sourceQ, dataQ, lost, excused, outdated>>

OnDisconLeave ==
  /\ btc = "cleared"
  /\ btc' = "left"
  /\ connected' = FALSE
  /\ UNCHANGED <<phoneVars, queueVars, notifVars, dataVars, sessions, storeVars,
                 sourceQ, dataQ, lost, excused, outdated>>

\* Phone::onDisconnect
PhoneOnDisconnect ==
  /\ btc = "left"
  /\ btc' = "down"
  /\ current' = FALSE
  /\ notifs' = IF current THEN <<>> ELSE notifs
  /\ UNCHANGED <<phoneVars, queueVars, notifVars, dataVars, connected, sessions,
                 sourceQ, dataQ, lost, excused, outdated>>

Btc == OnConn \/ PhoneOnConnect \/ ServiceClose \/ OnDiscon \/ OnDisconLeave \/ PhoneOnDisconnect

-----------------------------------------------------------------------------
(* pumpRequest(), dropInFlight(): under mut.                                *)

CtrlOpen == btc \in {"joining", "up"}

PumpRequest(nd) ==
  IF reqState = "Idle" /\ nd # <<>> /\ CtrlOpen
    THEN /\ requests' = Append(requests, Head(nd).uid)
         /\ inFlightUid' = Head(nd).uid
         /\ reqState' = "Awaiting"
         /\ expired' = FALSE
    ELSE UNCHANGED <<requests, inFlightUid, reqState, expired>>

ToIdle ==
  /\ reqState' = "Idle"
  /\ inFlightUid' = NoUid
  /\ abandonInFlight' = FALSE
  /\ UNCHANGED expired

PopFront ==
  IF needData # <<>>
    THEN /\ needData' = Tail(needData)
         /\ queuedUids' = queuedUids \ {Head(needData).uid}
    ELSE UNCHANGED <<needData, queuedUids>>

\* A bug to catch: the uid stays in queuedUids and is never queued again.
DropInFlight_KeepsUid ==
  /\ needData' = IF needData # <<>> THEN Tail(needData) ELSE needData
  /\ UNCHANGED queuedUids
  /\ ToIdle

\* A bug to catch: the timed-out entry stays at the front.
DropInFlight_Retries == ToIdle /\ UNCHANGED <<needData, queuedUids>>

DropInFlight == PopFront /\ ToIdle

-----------------------------------------------------------------------------
(* ANCS::Notif, loopNotif().                                                *)

\* A queue of the characteristic is only filled while connected holds.
NotifTake ==
  /\ notifPc = "get"
  /\ sourceQ # <<>>
  /\ sourceQ' = Tail(sourceQ)
  /\ IF connected
       THEN notifPc' = "got" /\ notifEvt' = <<Head(sourceQ)>>
       ELSE UNCHANGED notifVars
  /\ UNCHANGED <<phoneVars, queueVars, dataVars, btcVars, storeVars, dataQ,
                 lost, excused, outdated>>

InFlight(u) == reqState # "Idle" /\ u = inFlightUid

Evictable(nd) == {i \in DOMAIN nd : ~InFlight(nd[i].uid)}

EvictAt(nd) == CHOOSE i \in Evictable(nd) : \A j \in Evictable(nd) : i =< j

MustEvict(nd) == Len(nd) >= MaxQueued /\ Evictable(nd) # {}

QueueNew(u, modify) ==
  LET room  == IF MustEvict(needData) THEN RemoveAt(needData, EvictAt(needData)) ELSE needData
      gone  == IF MustEvict(needData) THEN {needData[EvictAt(needData)].uid} ELSE {}
      added == Append(room, [uid |-> u, modify |-> modify, parts |-> {}])
  IN /\ needData' = added
     /\ queuedUids' = (queuedUids \ gone) \cup {u}
     /\ excused' = excused \cup gone \cup ({u} \ announced)
     /\ PumpRequest(added)

MergeModify(u, modify) ==
  needData' = [i \in DOMAIN needData |->
                 IF needData[i].uid = u
                   THEN [needData[i] EXCEPT !.modify = @ \/ modify]
                   ELSE needData[i]]

\* Added or Modified: an entry already queued stands for both.
NotifQueue ==
  /\ notifPc = "got"
  /\ LET u      == Head(notifEvt).uid
         modify == Head(notifEvt).evt = "Modified"
     IN /\ Head(notifEvt).evt # "Removed"
        /\ IF u \in queuedUids
             THEN /\ MergeModify(u, modify)
                  /\ outdated' = IF InFlight(u) THEN outdated \cup {u} ELSE outdated
                  /\ UNCHANGED <<queuedUids, reqState, inFlightUid, expired, requests, excused>>
             ELSE /\ QueueNew(u, modify)
                  /\ UNCHANGED outdated
  /\ notifPc' = "get" /\ notifEvt' = <<>>
  /\ UNCHANGED <<phone, version, announced, answering, changes, abandonInFlight, dataVars,
                 btcVars, storeVars, sourceQ, dataQ, lost>>

\* A bug to catch: a removed uid that is being fetched is still shown.
NotifUnqueue_NoAbandon ==
  /\ notifPc = "got" /\ Head(notifEvt).evt = "Removed"
  /\ notifPc' = "rem"
  /\ UNCHANGED <<phoneVars, queueVars, notifEvt, dataVars, btcVars, storeVars, sourceQ,
                 dataQ, lost, excused, outdated>>

IndexOf(nd, u) == CHOOSE i \in DOMAIN nd : nd[i].uid = u

\* Removed, the part under mut.
NotifUnqueue ==
  /\ notifPc = "got"
  /\ Head(notifEvt).evt = "Removed"
  /\ LET u == Head(notifEvt).uid
     IN IF u \notin queuedUids
          THEN UNCHANGED <<needData, queuedUids, abandonInFlight>>
          ELSE IF InFlight(u)
            THEN abandonInFlight' = TRUE /\ UNCHANGED <<needData, queuedUids>>
            ELSE /\ needData' = IF \E i \in DOMAIN needData : needData[i].uid = u
                                  THEN RemoveAt(needData, IndexOf(needData, u))
                                  ELSE needData
                 /\ queuedUids' = queuedUids \ {u}
                 /\ UNCHANGED abandonInFlight
  /\ notifPc' = "rem"
  /\ UNCHANGED <<phoneVars, reqState, inFlightUid, expired, notifEvt, dataVars, btcVars,
                 storeVars, sourceQ, dataQ, lost, excused, outdated>>

\* notifRemove(uid), after mut is released: Phone::onRemove.
NotifRemove ==
  /\ notifPc = "rem"
  /\ notifs' = Erase(notifs, Head(notifEvt).uid)
  /\ notifPc' = "get" /\ notifEvt' = <<>>
  /\ UNCHANGED <<phoneVars, queueVars, dataVars, btcVars, current, sourceQ, dataQ,
                 lost, excused, outdated>>

NotifThread == NotifTake \/ NotifQueue \/ NotifUnqueue \/ NotifRemove

-----------------------------------------------------------------------------
(* ANCS::Data, loopData().                                                  *)

DataPump ==
  /\ dataPc = "top"
  /\ connected
  /\ PumpRequest(needData)
  /\ dataPc' = "get"
  /\ UNCHANGED <<phone, version, announced, answering, changes, needData, queuedUids,
                 abandonInFlight, dataHand, notifVars, btcVars, storeVars, sourceQ, dataQ,
                 lost, excused, outdated>>

\* getNextNotif(wait): a packet, or nothing within the wait.
DataTake ==
  /\ dataPc = "get"
  /\ dataQ' = IF dataQ # <<>> THEN Tail(dataQ) ELSE dataQ
  /\ dataHand' = IF dataQ # <<>> /\ connected THEN <<Head(dataQ)>> ELSE <<>>
  /\ dataPc' = IF connected THEN "got" ELSE "top"
  /\ UNCHANGED <<phoneVars, queueVars, notifVars, btcVars, storeVars, sourceQ,
                 lost, excused, outdated>>

\* RequestTimeoutMs after the request was written.
RequestExpires ==
  /\ reqState = "Awaiting"
  /\ ~expired
  /\ expired' = TRUE
  /\ UNCHANGED <<phoneVars, needData, queuedUids, reqState, inFlightUid, abandonInFlight,
                 notifVars, dataVars, btcVars, storeVars, sourceQ, dataQ, lost, excused, outdated>>

\* The uids the store evicts for a new one.
Evicted == UidsOf(notifs) \ UidsOf(notifs')

\* processData's send(): the front leaves the queue and reaches the phone store.
\* A notification without any attribute has neither title nor message.
Send(parts) ==
  LET nd == Head(needData)
      n  == [uid |-> nd.uid, parts |-> parts, empty |-> parts = {}]
  IN /\ notifs' = IF nd.modify THEN OnModify(notifs, n) ELSE OnAdd(notifs, n)
     /\ PopFront
     /\ ToIdle

\* The header search: 0x00 and the uid, at the start of a reply.
IsHeader(p, u) == p.part = "head" /\ p.uid = u

\* processData(false) with packet p appended to dataQueue.
Parse(p) ==
  IF needData = <<>>
    THEN ToIdle /\ UNCHANGED <<needData, queuedUids, notifs, excused>>
    ELSE IF reqState # "Processing" /\ ~IsHeader(p, Head(needData).uid)
      THEN UNCHANGED <<queueVars, notifs, excused>>
      ELSE IF p.part = "tail"
        THEN Send(Head(needData).parts \cup {p}) /\ excused' = excused \cup Evicted
        ELSE /\ needData' = [needData EXCEPT ![1].parts = @ \cup {p}]
             /\ reqState' = "Processing"
             /\ UNCHANGED <<queuedUids, inFlightUid, abandonInFlight, expired, notifs, excused>>

\* Abandoned or timed out before any reply.
DataDrop ==
  /\ dataPc = "got"
  /\ \/ abandonInFlight /\ reqState # "Idle"
     \/ ~abandonInFlight /\ dataHand = <<>> /\ reqState = "Awaiting" /\ expired
  /\ DropInFlight
  /\ excused' = excused \cup {needData[i].uid : i \in DOMAIN needData \cap {1}}
  /\ UNCHANGED notifs

Proceeds == dataPc = "got" /\ ~(abandonInFlight /\ reqState # "Idle")

\* The reply stalled: emit the attributes parsed so far.
DataSalvage ==
  /\ Proceeds /\ dataHand = <<>> /\ reqState = "Processing"
  /\ IF needData = <<>>
       THEN ToIdle /\ UNCHANGED <<needData, queuedUids, notifs, excused>>
       ELSE /\ Send(Head(needData).parts)
            /\ excused' = excused \cup {Head(needData).uid} \cup Evicted

DataNothing ==
  /\ Proceeds /\ dataHand = <<>>
  /\ reqState = "Idle" \/ (reqState = "Awaiting" /\ ~expired)
  /\ UNCHANGED <<queueVars, notifs, excused>>

DataPacket ==
  /\ Proceeds
  /\ dataHand # <<>>
  /\ Parse(Head(dataHand))

DataStep ==
  /\ DataDrop \/ DataSalvage \/ DataNothing \/ DataPacket
  /\ dataPc' = "top" /\ dataHand' = <<>>
  /\ UNCHANGED <<phoneVars, notifVars, btcVars, current, sourceQ, dataQ, lost, outdated>>

DataThread == DataPump \/ DataTake \/ DataStep

-----------------------------------------------------------------------------

Next == PhoneNext \/ Btc \/ NotifThread \/ DataThread \/ RequestExpires

Spec == Init /\ [][Next]_vars

\* The two threads wait for bounded times only, and time passes.
Fairness == WF_vars(NotifThread) /\ WF_vars(DataThread) /\ WF_vars(RequestExpires)

LiveSpec == Spec /\ Fairness

-----------------------------------------------------------------------------
(* Properties.                                                              *)

\* queuedUids, which de-duplication and removal consult, names exactly the
\* entries of needData, each uid once, and the queue respects its limit;
\* whatever loopNotif, loopData and onDiscon do in turn.
QueueConsistent ==
  /\ queuedUids = UidsOf(needData)
  /\ Distinct(needData)
  /\ Len(needData) =< MaxQueued

\* The uid in flight is the front of needData, which dropInFlight and send
\* pop without looking: no eviction or removal takes it from under a request.
InFlightIsFront ==
  /\ inFlightUid # NoUid =>
       needData # <<>> /\ inFlightUid = Head(needData).uid /\ reqState # "Idle"
  /\ reqState = "Awaiting" => inFlightUid # NoUid

\* No notification is shown with attributes from the reply to another: late
\* replies to dropped requests are skipped by the header search.  (A lost
\* tail packet, or one held across a reconnection, does mix replies.)
OwnBytesOnly ==
  \A i \in DOMAIN notifs :
    notifs[i].uid \notin lost => \A p \in notifs[i].parts : p.uid = notifs[i].uid

\* Every event the phone sent has been dealt with.
Quiet ==
  /\ btc = "up" /\ sourceQ = <<>> /\ dataQ = <<>> /\ notifPc = "get"
  /\ dataPc # "got" /\ needData = <<>>
  /\ \A u \in Uids : phone[u] = "active" => u \in announced

Complete(u) ==
  \E i \in DOMAIN notifs :
    /\ notifs[i].uid = u
    /\ {p.part : p \in notifs[i].parts} = {"head", "tail"}

\* Once the pipeline is quiet the watch shows exactly the phone's
\* notifications, complete, but for those a limit or a timeout dropped:
\* removals during a fetch and reconnections included.
Converged ==
  Quiet => \A u \in Uids \ (excused \cup lost) :
             IF phone[u] = "active" THEN Complete(u) ELSE ~Has(notifs, u)

\* Once quiet, what is shown is the latest version, unless the notification
\* was modified while its request was in flight (de-duplication then drops
\* the modification, and nothing asks again).
Fresh ==
  Quiet => \A i \in DOMAIN notifs :
             notifs[i].uid \notin excused \cup lost \cup outdated =>
               \A p \in notifs[i].parts : p.ver = version[notifs[i].uid]

\* What the watch shows is each notification's own, and once quiet it is the
\* phone's, and as new as there.
Mirrored == OwnBytesOnly /\ Converged /\ Fresh

\* A queued notification does not stay queued while the link is up: it is
\* emitted, removed, evicted or timed out.
Served ==
  \A u \in Uids : (u \in queuedUids /\ btc = "up") ~> (u \notin queuedUids \/ btc # "up")

\* The consistency of the request pipeline, proved for every value of the
\* constants: the types with their limits, needData and queuedUids in step,
\* and the uid in flight at the front.
Inv == TypeOK /\ QueueConsistent /\ InFlightIsFront
===============================================================================
