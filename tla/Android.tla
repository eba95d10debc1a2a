--------------------------------- MODULE Android ---------------------------------
(***************************************************************************)
(* The Android pipeline: the phone's lines reach the watch as writes to    *)
(* the UART's RX characteristic (BLE/Server/Char), the UART thread cuts    *)
(* them at newlines (BLE/UART), and the Android thread puts the pieces     *)
(* together into frames and handles them (Notifs/Android).  The Bluetooth  *)
(* task (BTC) ends a session while both threads work, and the LVGL thread  *)
(* rejects calls.                                                          *)
(*                                                                         *)
(* Text is a sequence of tokens.  "add" is a command up to the count of a  *)
(* length-prefixed string, whose one counted token follows it; that token  *)
(* may be a newline, which does not end the frame.                         *)
(***************************************************************************)
EXTENDS Naturals, Sequences, FiniteSets

CONSTANTS
  WriteLen,    \* entries of the RX characteristic's write queue
  LineLen,     \* entries of UART::rxQueue
  MaxMsgs,     \* bound of the model: messages of the phone, hellos included
  MaxLinks  \* bound of the model: connections

ASSUME AndroidAssumption ==
  /\ WriteLen \in Nat \ {0} /\ LineLen \in Nat \ {0}
  /\ MaxMsgs \in Nat /\ MaxLinks \in Nat

Token == {"hello", "add", "call", "stop", "nl"}
Message(m) == IF m = "add" THEN <<"add", "nl", "nl">> ELSE <<m, "nl">>
Command == Token \ {"nl"}

VARIABLES
  outgoing,    \* the phone: what it has still to write of its current message
  greeted,     \* the phone: it has begun a hello in this session
  ringing,     \* the phone: the call of this session: none, on, over
  listAsked,       \* the phone: it was asked for its notification list
  msgs, sessions,
  btc,         \* the BTC task: down, up, closing, clear, tell
  writeQ,      \* rxChar's writeQueue
  uartBuf,     \* UART::rxBuf
  lines,       \* UART::rxQueue
  connected, callIds, rxBuf,   \* Android::connected, callIds, rxBuf
  pc,          \* the Android thread: scan, append, find, extract, handle, hello,
               \*   ask, call, new, crash
  chunk,       \* the line it has taken, or the frame it handles
  frameEnd,    \* the end findFrameEnd returned
  ui,          \* the LVGL thread: idle, or neg inside Phone::callReject
  current,     \* Phone::current is this source
  notifs,      \* Phone::notifs: "add" or "call", and junk for a misread one
  torn,        \* history: a session ended inside a message, or a write was lost
  late         \* history: when onDisconnect began or ended, something of the
               \*   session was in a queue or in a thread's hands

phoneVars == <<outgoing, greeted, ringing, msgs>>
btcVars   == <<btc, sessions>>
uartVars  == <<writeQ, uartBuf, lines>>
srcVars   == <<connected, callIds, rxBuf>>
workVars  == <<pc, chunk, frameEnd>>
storeVars == <<ui, current, notifs>>
andVars == <<phoneVars, listAsked, btcVars, uartVars, srcVars, workVars, storeVars, torn, late>>

AndTypeOK ==
  /\ outgoing \in Seq(Token) /\ greeted \in BOOLEAN /\ ringing \in {"none", "on", "over"}
  /\ listAsked \in BOOLEAN /\ msgs \in 0..MaxMsgs /\ sessions \in 0..MaxLinks
  /\ btc \in {"down", "up", "closing", "clear", "tell"}
  /\ writeQ \in Seq(Token) /\ Len(writeQ) =< WriteLen
  /\ uartBuf \in Seq(Token \ {"nl"})
  /\ lines \in Seq(Seq(Token)) /\ Len(lines) =< LineLen
  /\ connected \in BOOLEAN /\ callIds \subseteq {"call"} /\ rxBuf \in Seq(Token)
  /\ pc \in {"scan", "append", "find", "extract", "handle", "hello", "ask", "call", "new", "crash"}
  /\ chunk \in Seq(Token) /\ frameEnd \in Nat
  /\ ui \in {"idle", "neg"}
  /\ current \in BOOLEAN /\ notifs \subseteq {"add", "call", "junk"}
  /\ torn \in BOOLEAN /\ late \in BOOLEAN

AndInit ==
  /\ outgoing = <<>> /\ greeted = FALSE /\ ringing = "none" /\ listAsked = FALSE
  /\ msgs = 0 /\ sessions = 0 /\ btc = "down"
  /\ writeQ = <<>> /\ uartBuf = <<>> /\ lines = <<>>
  /\ connected = FALSE /\ callIds = {} /\ rxBuf = <<>>
  /\ pc = "scan" /\ chunk = <<>> /\ frameEnd = 0 /\ ui = "idle"
  /\ current = FALSE /\ notifs = {} /\ torn = FALSE /\ late = FALSE

Alive == pc # "crash"

InHand ==
  pc # "scan" \/ writeQ # <<>> \/ uartBuf # <<>> \/ lines # <<>> \/ ui # "idle"

-----------------------------------------------------------------------------
(* The phone: a hello opens the session; then it sends what it likes.      *)

Say(m) ==
  /\ Alive /\ btc = "up" /\ outgoing = <<>> /\ msgs < MaxMsgs
  /\ greeted # (m = "hello")
  /\ m = "call" => ringing = "none"
  /\ m = "stop" => ringing = "on"
  /\ outgoing' = Message(m) /\ msgs' = msgs + 1
  /\ greeted' = TRUE
  /\ ringing' = CASE m = "call" -> "on" [] m = "stop" -> "over" [] OTHER -> ringing
  /\ UNCHANGED <<listAsked, btcVars, uartVars, srcVars, workVars, storeVars, torn, late>>

(* Char::onWrite: a full write queue drops the data (post with timeout 0). *)
Write ==
  /\ Alive /\ btc = "up" /\ outgoing # <<>>
  /\ outgoing' = Tail(outgoing)
  /\ LET full == Len(writeQ) = WriteLen
     IN  /\ writeQ' = IF full THEN writeQ ELSE Append(writeQ, Head(outgoing))
         /\ torn' = (torn \/ full)
  /\ UNCHANGED <<greeted, ringing, msgs, listAsked, btcVars, uartBuf, lines, srcVars, workVars, storeVars, late>>

-----------------------------------------------------------------------------
(* The BTC task.  Server::onDisconnect drops the prepared writes of the    *)
(* characteristics and calls Android::onDisconnect; the queues and the     *)
(* UART's buffer keep what they hold.                                      *)

Connect ==
  /\ Alive /\ btc = "down" /\ sessions < MaxLinks
  /\ btc' = "up" /\ sessions' = sessions + 1
  /\ greeted' = FALSE /\ ringing' = "none" /\ listAsked' = FALSE
  /\ UNCHANGED <<outgoing, msgs, uartVars, srcVars, workVars, storeVars, torn, late>>

LinkEnds ==
  /\ Alive /\ btc = "up"
  /\ btc' = "closing"
  /\ outgoing' = <<>>
  /\ torn' = (torn \/ outgoing # <<>>)
  /\ UNCHANGED <<greeted, ringing, msgs, listAsked, sessions, uartVars, srcVars, workVars, storeVars, late>>

(* Mutant: the flag survives the session. *)
OnDisconnect_StaysConnected ==
  /\ Alive /\ btc = "closing"
  /\ btc' = IF connected THEN "clear" ELSE "down"
  /\ late' = (late \/ InHand)
  /\ UNCHANGED <<phoneVars, listAsked, sessions, uartVars, srcVars, workVars, storeVars, torn>>

OnDisconnect ==
  /\ Alive /\ btc = "closing"
  /\ btc' = IF connected THEN "clear" ELSE "down"
  /\ connected' = FALSE
  /\ late' = (late \/ InHand)
  /\ UNCHANGED <<phoneVars, listAsked, sessions, uartVars, callIds, rxBuf, workVars, storeVars, torn>>

(* Mutant: the ids of the calls survive the session. *)
OnDisconnectClear_KeepsCalls ==
  /\ Alive /\ btc = "clear"
  /\ btc' = "tell" /\ rxBuf' = <<>>
  /\ UNCHANGED <<phoneVars, listAsked, sessions, uartVars, connected, callIds, workVars, storeVars, torn, late>>

OnDisconnectClear ==
  /\ Alive /\ btc = "clear"
  /\ btc' = "tell" /\ callIds' = {} /\ rxBuf' = <<>>
  /\ UNCHANGED <<phoneVars, listAsked, sessions, uartVars, connected, workVars, storeVars, torn, late>>

PhoneOnDisconnect ==
  /\ Alive /\ btc = "tell"
  /\ btc' = "down" /\ current' = FALSE
  /\ notifs' = IF current THEN {} ELSE notifs
  /\ late' = (late \/ InHand)
  /\ UNCHANGED <<phoneVars, listAsked, sessions, uartVars, srcVars, workVars, ui, torn>>

-----------------------------------------------------------------------------
(* BLE::UART::loop: every line goes to rxQueue, with its newline; the post *)
(* waits for room.                                                         *)
UartLoop ==
  /\ Alive /\ writeQ # <<>>
  /\ Head(writeQ) = "nl" => Len(lines) < LineLen
  /\ writeQ' = Tail(writeQ)
  /\ IF Head(writeQ) = "nl"
     THEN uartBuf' = <<>> /\ lines' = Append(lines, Append(uartBuf, "nl"))
     ELSE uartBuf' = Append(uartBuf, Head(writeQ)) /\ UNCHANGED lines
  /\ UNCHANGED <<phoneVars, listAsked, btcVars, srcVars, workVars, storeVars, torn, late>>

-----------------------------------------------------------------------------
(* The Android thread.                                                     *)

Thread == Alive /\ UNCHANGED <<phoneVars, btcVars, writeQ, uartBuf, torn, late>>

Scan ==
  /\ pc = "scan" /\ lines # <<>>
  /\ chunk' = Head(lines) /\ lines' = Tail(lines) /\ pc' = "append"
  /\ Thread /\ UNCHANGED <<listAsked, srcVars, frameEnd, storeVars>>

AppendChunk ==
  /\ pc = "append"
  /\ rxBuf' = rxBuf \o chunk /\ chunk' = <<>> /\ pc' = "find"
  /\ Thread /\ UNCHANGED <<listAsked, lines, connected, callIds, frameEnd, storeVars>>

(* The place after the newline that ends the first frame, 0 without one: a *)
(* counted string is stepped over whole, whatever it holds.                *)
FindFrameEnd(buf) ==
  LET end[i \in 1..Len(buf) + 2] ==
        IF i > Len(buf) THEN 0
        ELSE IF buf[i] = "nl" THEN i
        ELSE IF buf[i] = "add" THEN end[i + 2]
        ELSE end[i + 1]
  IN  end[1]

FindFrame ==
  /\ pc = "find"
  /\ frameEnd' = FindFrameEnd(rxBuf)
  /\ pc' = IF frameEnd' = 0 THEN "scan" ELSE "extract"
  /\ Thread /\ UNCHANGED <<listAsked, lines, srcVars, chunk, storeVars>>

(* The line is copied out and erased with the iterators found; a buffer    *)
(* the BTC task has cleared in between makes the erasure run wild.         *)
Extract ==
  /\ pc = "extract"
  /\ IF frameEnd > Len(rxBuf)
     THEN pc' = "crash" /\ UNCHANGED <<chunk, rxBuf>>
     ELSE /\ chunk' = SubSeq(rxBuf, 1, frameEnd)
          /\ rxBuf' = SubSeq(rxBuf, frameEnd + 1, Len(rxBuf))
          /\ pc' = "handle"
  /\ frameEnd' = 0
  /\ Thread /\ UNCHANGED <<listAsked, lines, connected, callIds, storeVars>>

(* handleCommand: hello, of the right version, always; the rest only when  *)
(* connected.  A frame glued together from the pieces of two messages may  *)
(* pass for a command or not.                                              *)
HandleHello ==
  /\ pc = "handle" /\ chunk = Message("hello")
  /\ pc' = IF connected THEN "find" ELSE "hello"
  /\ chunk' = <<>> /\ connected' = TRUE
  /\ Thread /\ UNCHANGED <<listAsked, lines, callIds, rxBuf, frameEnd, storeVars>>

(* NotifSource::connect, that is Phone::onConnect. *)
PhoneOnConnect ==
  /\ pc = "hello"
  /\ pc' = "ask" /\ current' = TRUE /\ notifs' = {}
  /\ Thread /\ UNCHANGED <<listAsked, lines, srcVars, chunk, frameEnd, ui>>

(* The watch asks for the time and the list of notifications. *)
NotifList ==
  /\ pc = "ask"
  /\ pc' = "find" /\ listAsked' = (listAsked \/ btc = "up")
  /\ Thread /\ UNCHANGED <<lines, srcVars, chunk, frameEnd, storeVars>>

HandleCommand ==
  /\ pc = "handle" /\ connected /\ Head(chunk) \in {"add", "call", "stop"}
  /\ pc' = IF Head(chunk) = "call" THEN "call" ELSE "new"
  /\ Thread /\ UNCHANGED <<listAsked, lines, srcVars, chunk, frameEnd, storeVars>>

IgnoreCommand ==
  /\ pc = "handle" /\ chunk # Message("hello")
  /\ ~connected \/ chunk # Message(Head(chunk))
  /\ pc' = "find" /\ chunk' = <<>>
  /\ Thread /\ UNCHANGED <<listAsked, lines, srcVars, frameEnd, storeVars>>

(* handleCallIncoming: the id is remembered, then the notification is new. *)
HandleCallIncoming ==
  /\ pc = "call"
  /\ pc' = "new" /\ callIds' = {"call"}
  /\ Thread /\ UNCHANGED <<listAsked, lines, connected, rxBuf, chunk, frameEnd, storeVars>>

Content == IF Head(chunk) = "add" /\ chunk # Message("add") THEN "junk" ELSE Head(chunk)

HandleNotif ==
  /\ pc = "new"
  /\ IF Head(chunk) = "stop"
     THEN callIds' = {} /\ notifs' = notifs \ {"call"}
     ELSE notifs' = notifs \cup {Content} /\ UNCHANGED callIds
  /\ pc' = "find" /\ chunk' = <<>>
  /\ Thread /\ UNCHANGED <<listAsked, lines, connected, rxBuf, frameEnd, ui, current>>

-----------------------------------------------------------------------------
(* The LVGL thread: Phone::callIgnore and callReject, from the call screen. *)

LVGL == Alive /\ UNCHANGED <<phoneVars, listAsked, btcVars, uartVars, workVars, torn, late, current>>

CallIgnore ==
  /\ ui = "idle" /\ "call" \in notifs
  /\ notifs' = notifs \ {"call"}
  /\ LVGL /\ UNCHANGED <<ui, srcVars>>

CallReject ==
  /\ ui = "idle" /\ "call" \in notifs
  /\ notifs' = notifs \ {"call"}
  /\ ui' = IF current THEN "neg" ELSE "idle"
  /\ LVGL /\ UNCHANGED srcVars

(* actionNeg: a known call is rejected, anything else gets a notifNeg. *)
ActionNeg ==
  /\ ui = "neg"
  /\ ui' = "idle"
  /\ IF connected /\ "call" \in callIds
     THEN callIds' = {} /\ notifs' = notifs \ {"call"}
     ELSE UNCHANGED <<callIds, notifs>>
  /\ LVGL /\ UNCHANGED <<connected, rxBuf>>

-----------------------------------------------------------------------------
AndroidThread ==
  \/ Scan \/ AppendChunk \/ FindFrame \/ Extract
  \/ HandleHello \/ PhoneOnConnect \/ NotifList
  \/ HandleCommand \/ IgnoreCommand \/ HandleCallIncoming \/ HandleNotif

BTC == Connect \/ LinkEnds \/ OnDisconnect \/ OnDisconnectClear \/ PhoneOnDisconnect

AndNext ==
  \/ \E m \in Command : Say(m)
  \/ Write \/ BTC \/ UartLoop \/ AndroidThread
  \/ CallIgnore \/ CallReject \/ ActionNeg

AndSpec == AndInit /\ [][AndNext]_andVars

(* The threads run and what the phone has begun to write arrives. *)
AndLiveSpec ==
  /\ AndSpec
  /\ WF_andVars(Write) /\ WF_andVars(UartLoop) /\ WF_andVars(AndroidThread)
  /\ WF_andVars(OnDisconnect) /\ WF_andVars(OnDisconnectClear) /\ WF_andVars(PhoneOnDisconnect)

-----------------------------------------------------------------------------
Idle ==
  /\ outgoing = <<>> /\ writeQ = <<>> /\ lines = <<>> /\ pc = "scan"
  /\ btc \in {"up", "down"}

(* Framing: whatever the phone writes, a newline inside a text included, a *)
(* notification is never put together from the pieces of two messages, and *)
(* nothing is left in the buffers, unless a session ended inside a message *)
(* or a write was lost: the UART's buffer survives the session.            *)
WholeMessages ==
  ~torn => /\ "junk" \notin notifs
           /\ Idle => uartBuf = <<>> /\ rxBuf = <<>>

(* Outside a session nothing is shown, in one the source and the phone     *)
(* service agree; a hello or a notification handled after its session's    *)
(* end (Android::onDisconnect does not wait for the thread) breaks it.     *)
SourceAgrees ==
  Idle /\ ~late => /\ current = connected
                   /\ btc = "down" => ~connected
                   /\ ~current => notifs = {} /\ callIds = {}

(* A call the watch shows can be rejected as a call: its id is known as    *)
(* long as it is shown, whichever threads touch callIds meanwhile.         *)
CallRejectable == "call" \in notifs /\ connected /\ ~late => callIds = {"call"}

(* A hello is answered: the phone becomes the source and is asked for its  *)
(* notifications in every session it greets, after a clean end of the one  *)
(* before.                                                                 *)
HelloHeard ==
  <>[](btc = "up" /\ greeted /\ ~torn /\ ~late) => <>[](current /\ connected /\ listAsked)

(* Of every state: the types, frames that are never mixed, a source and a  *)
(* phone that agree, and calls that can be rejected.                       *)
AndInv == AndTypeOK /\ WholeMessages /\ SourceAgrees /\ CallRejectable
=============================================================================
