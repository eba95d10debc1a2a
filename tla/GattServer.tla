-------------------------------- MODULE GattServer --------------------------------
(***************************************************************************)
(* The Bluetooth server (BLE/Server) with the service of the UART: its     *)
(* set-up by questions to the stack and their answers, then sessions with  *)
(* a phone, which subscribes and writes long values in parts, while two    *)
(* threads print through one buffer.  Everything but the two threads runs  *)
(* on the Bluetooth task.  The MTU is left out: a message is Chunks chunks *)
(* long.                                                                   *)
(***************************************************************************)
EXTENDS Integers, Sequences, SequencesExt

CONSTANTS
  Senders,       \* the threads that call UART::printf: Android's worker and LVGL
  Chunks,        \* chunks of a message
  MaxSessions, MaxPrints, MaxParts   \* bounds of the model

ASSUME GattServerAssumption == Chunks \in Nat \ {0} /\ MaxSessions \in Nat

VARIABLES
  requests, replies, table,   \* external: the stack's two queues and its attributes
  pendingDescrs, descrInFlight,
  charHndls, ctrlDescr,       \* the characteristics in Server::chars; whose descriptor is there
  con, notifyEn, writeData,   \* the session, or 0; the characteristics' state in it
  posted,                     \* the message put into the write queue last
  txBuf, spc, chunk,          \* UART::txBuf; each thread: its step, the chunk it sends
  sessions, subscribed, parts, got,   \* the phone: what it has asked, sent and received
  prints,
  heldOver, stray, mixed  \* history: threads past their test when a session ended; one
                      \* has sent into this session; two threads have used txBuf at once

setUpVars == <<requests, replies, table, pendingDescrs, descrInFlight, charHndls, ctrlDescr>>
phoneVars == <<sessions, subscribed, parts>>
senderVars == <<txBuf, spc, chunk, got, prints, heldOver, stray, mixed>>
serverVars == <<setUpVars, con, notifyEn, writeData, posted, phoneVars, senderVars>>

NoChar == "none"
Chars  == <<"tx", "rx">>   \* in the order in which UART adds them
Notifies(c) == c = "tx"

ServerInit ==
  /\ requests = <<"service">> /\ replies = <<>> /\ table = <<>>
  /\ pendingDescrs = <<>> /\ descrInFlight = FALSE /\ charHndls = {} /\ ctrlDescr = NoChar
  /\ con = 0 /\ notifyEn = FALSE /\ writeData = <<>> /\ posted = [data |-> <<>>, parts |-> 0, of |-> 0]
  /\ txBuf = 0 /\ spc = [s \in Senders |-> "idle"] /\ chunk = [s \in Senders |-> 1]
  /\ sessions = 0 /\ subscribed = FALSE /\ parts = 0 /\ got = <<>> /\ prints = 0
  /\ heldOver = {} /\ stray = FALSE /\ mixed = FALSE

-----------------------------------------------------------------------------
(* The stack answers in order.  It gives a descriptor to the               *)
(* characteristic that was added last.                                     *)
Stack ==
  /\ requests # <<>> /\ requests' = Tail(requests)
  /\ \E ok \in BOOLEAN :
       /\ ok /\ Head(requests) = "descr" => table # <<>>
       /\ replies' = Append(replies, [to |-> Head(requests), ok |-> ok])
       /\ table' = IF ~ok \/ Head(requests) = "service" THEN table
                   ELSE IF Head(requests) = "descr"
                   THEN [table EXCEPT ![Len(table)].descr = TRUE]
                   ELSE Append(table, [chr |-> Head(requests), descr |-> FALSE])
  /\ UNCHANGED <<pendingDescrs, descrInFlight, charHndls, ctrlDescr>>

(* tryIssueNextDescr, after pendingDescrs and descrInFlight have changed. *)
TryIssueNextDescr(pending, inFlight) ==
  /\ pendingDescrs' = pending
  /\ descrInFlight' = (inFlight \/ pending # <<>>)
  /\ requests' = IF inFlight \/ pending = <<>> THEN requests ELSE Append(requests, "descr")

(* Service::establish: those that bear a descriptor last. *)
Establish ==
  requests \o (IF Notifies(Chars[1]) THEN <<Chars[2], Chars[1]>> ELSE Chars)

OnServiceCreated(ok) ==
  /\ requests' = IF ok THEN Establish ELSE requests
  /\ UNCHANGED <<pendingDescrs, descrInFlight, charHndls, ctrlDescr>>

OnCharCreated(c, ok) ==
  /\ charHndls' = charHndls \cup (IF ok THEN {c} ELSE {})
  /\ IF ok /\ Notifies(c) THEN TryIssueNextDescr(Append(pendingDescrs, c), descrInFlight)
     ELSE UNCHANGED <<requests, pendingDescrs, descrInFlight>>
  /\ UNCHANGED ctrlDescr

OnCharDescrCreated(ok) ==
  /\ ctrlDescr' = IF ok /\ Head(pendingDescrs) \in charHndls THEN Head(pendingDescrs) ELSE ctrlDescr
  /\ TryIssueNextDescr(Tail(pendingDescrs), FALSE)
  /\ UNCHANGED charHndls

SetUp ==
  /\ \/ Stack
     \/ /\ replies # <<>> /\ replies' = Tail(replies) /\ UNCHANGED table
        /\ LET r == Head(replies) IN
           CASE r.to = "service" -> OnServiceCreated(r.ok)
             [] r.to = "descr" -> OnCharDescrCreated(r.ok)
             [] OTHER -> OnCharCreated(r.to, r.ok)
  /\ UNCHANGED <<con, notifyEn, writeData, posted, phoneVars, senderVars>>

-----------------------------------------------------------------------------
OnConnect ==
  /\ con = 0 /\ sessions < MaxSessions /\ sessions' = sessions + 1 /\ con' = sessions'
  /\ subscribed' = FALSE /\ parts' = 0 /\ got' = <<>> /\ stray' = FALSE
  /\ mixed' = (mixed /\ \E s \in Senders : spc[s] # "idle")
  /\ UNCHANGED <<setUpVars, notifyEn, writeData, posted, txBuf, spc, chunk, prints, heldOver>>

(* mutant: the subscription outlives the session *)
OnDisconnect_Keeps ==
  /\ con # 0 /\ con' = 0 /\ writeData' = <<>>
  /\ heldOver' = {s \in Senders : spc[s] \in {"con", "chunk"}}
  /\ UNCHANGED <<setUpVars, notifyEn, posted, phoneVars, txBuf, spc, chunk, got, prints, stray, mixed>>

OnDisconnect ==
  /\ con # 0 /\ con' = 0 /\ notifyEn' = FALSE /\ writeData' = <<>>
  /\ heldOver' = {s \in Senders : spc[s] \in {"con", "chunk"}}
  /\ UNCHANGED <<setUpVars, posted, phoneVars, txBuf, spc, chunk, got, prints, stray, mixed>>

(* The phone finds the descriptor where the stack has put it, and writes   *)
(* it: Char::onWrite, once the handle is known to the server.              *)
Subscribe(on) ==
  /\ con # 0 /\ \E i \in DOMAIN table : table[i].chr = "tx" /\ table[i].descr
  /\ notifyEn' = IF ctrlDescr = NoChar THEN notifyEn ELSE on
  /\ subscribed' = (subscribed \/ on)
  /\ UNCHANGED <<setUpVars, con, writeData, posted, sessions, parts, senderVars>>

(* A part of a long value: its offset is compared only, one beyond what    *)
(* has come is refused; the part is put behind that.                       *)
PrepareWrite ==
  /\ con # 0 /\ "rx" \in charHndls /\ parts < MaxParts /\ parts <= Len(writeData)
  /\ writeData' = Append(writeData, <<con, parts + 1>>) /\ parts' = parts + 1
  /\ UNCHANGED <<setUpVars, con, notifyEn, posted, sessions, subscribed, senderVars>>

(* The phone executes, or cancels, its parts; onExecWrite does not look. *)
OnExecWrite ==
  /\ con # 0 /\ writeData # <<>> /\ writeData' = <<>>
  /\ posted' = [data |-> writeData, parts |-> parts, of |-> con] /\ parts' = 0
  /\ UNCHANGED <<setUpVars, con, notifyEn, sessions, subscribed, senderVars>>

Session == OnConnect \/ OnDisconnect \/ (\E on \in BOOLEAN : Subscribe(on)) \/ PrepareWrite \/ OnExecWrite

-----------------------------------------------------------------------------
(* UART::printf, until its buffer is written. *)
Printf(s) ==
  /\ spc[s] = "idle" /\ prints < MaxPrints /\ prints' = prints + 1 /\ txBuf' = prints'
  /\ spc' = [spc EXCEPT ![s] = "test"] /\ chunk' = [chunk EXCEPT ![s] = 1]
  /\ mixed' = (mixed \/ \E t \in Senders : spc[t] # "idle")
  /\ UNCHANGED <<got, heldOver, stray>>

Leave(s) == spc' = [spc EXCEPT ![s] = "idle"] /\ heldOver' = heldOver \ {s}

(* Char::sendNotif tests notifyEn, CharInfo::sendNotif the connection. *)
SendNotif(s) ==
  /\ \/ /\ spc[s] = "test"
        /\ IF notifyEn THEN spc' = [spc EXCEPT ![s] = "con"] /\ UNCHANGED heldOver ELSE Leave(s)
     \/ /\ spc[s] = "con"
        /\ IF con # 0 THEN spc' = [spc EXCEPT ![s] = "chunk"] /\ UNCHANGED heldOver ELSE Leave(s)
  /\ UNCHANGED <<txBuf, chunk, got, prints, stray, mixed>>

(* A chunk of what is in the buffer now, to whoever is connected now. *)
SendChunk(s) ==
  /\ spc[s] = "chunk"
  /\ IF con = 0 THEN UNCHANGED <<got, stray>>
     ELSE got' = Append(got, <<txBuf, chunk[s]>>) /\ stray' = (stray \/ s \in heldOver)
  /\ IF chunk[s] = Chunks THEN Leave(s) /\ UNCHANGED chunk
     ELSE chunk' = [chunk EXCEPT ![s] = @ + 1] /\ UNCHANGED <<spc, heldOver>>
  /\ UNCHANGED <<txBuf, prints, mixed>>

Sending ==
  /\ \E s \in Senders : Printf(s) \/ SendNotif(s) \/ SendChunk(s)
  /\ UNCHANGED <<setUpVars, con, notifyEn, writeData, posted, phoneVars>>

ServerNext == SetUp \/ Session \/ Sending

-----------------------------------------------------------------------------
ServerTypeOK ==
  /\ charHndls \subseteq ToSet(Chars) /\ ctrlDescr \in ToSet(Chars) \cup {NoChar}
  /\ con \in 0..MaxSessions /\ notifyEn \in BOOLEAN /\ heldOver \subseteq Senders

(* The descriptor with which a phone subscribes is that of the             *)
(* characteristic that notifies, for the stack and for the server, however *)
(* the answers fall between the questions.                                 *)
DescriptorFollows ==
  /\ \A i \in DOMAIN table : table[i].descr => Notifies(table[i].chr)
  /\ requests = <<>> /\ replies = <<>> =>
       (ctrlDescr # NoChar <=> \E i \in DOMAIN table : table[i].descr)

(* Only a session that subscribed is notified, and with whole messages one *)
(* after the other, except with the rest of a message that was being sent  *)
(* when the session before ended, and of two printed at once.              *)
NotifiesSubscribers ==
  /\ got # <<>> => subscribed \/ stray
  /\ stray \/ mixed
     \/ \A i \in DOMAIN got :
          IF got[i][2] = 1 THEN i = 1 \/ got[i - 1][2] = Chunks
          ELSE i > 1 /\ got[i - 1] = <<got[i][1], got[i][2] - 1>>

(* A long value comes with all its parts, in order, and none of another    *)
(* session's, which may have ended between two of them.                    *)
WholeWrites == posted.data = [i \in 1..posted.parts |-> <<posted.of, i>>]

ServerInv == ServerTypeOK /\ DescriptorFollows /\ NotifiesSubscribers /\ WholeWrites
===================================================================================
