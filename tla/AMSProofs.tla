------------------------------ MODULE AMSProofs ------------------------------
(***************************************************************************)
(* Proofs about the Apple media pipeline.  The invariant follows a change  *)
(* from the phone to what Phone shows: the packets that are not folded in  *)
(* yet (the one in hand and the queue) bring the client to what the phone  *)
(* has told last; a client with nothing to flush has given its state to    *)
(* the thread or to Phone; and a session that has ended leaves nothing     *)
(* behind, unless the thread was emitting when it did.                     *)
(***************************************************************************)
EXTENDS AMS, SequenceTheorems, TLAPS

USE AMSAssumption

-----------------------------------------------------------------------------
(* The inductive invariant.                                                *)

(* The thread has taken a snapshot and hands it on. *)
Emitting == pc \in {"info", "tellInfo", "state", "tellState"}

(* The session's life as far as `connected` tells. *)
Open == btc \in {"joining", "up", "closed"}

(* The packets that are not folded in, the oldest first. *)
Unread == hand \o updateQ

(* What a packet says, and which of a sequence's packets is an attribute's *)
(* last one.                                                               *)
Carries(p, v) == IF p.attr = "playback" THEN p.to = v ELSE p.full <=> v = "full"
LastOf(s, a, i) == s[i].attr = a /\ \A j \in DOMAIN s : j > i => s[j].attr # a
Tells(s, a, v) == \A i \in DOMAIN s : LastOf(s, a, i) => Carries(s[i], v)
Silent(s, a) == \A i \in DOMAIN s : s[i].attr # a

(* The flag and the queue belong to a session; before it is up, the phone  *)
(* has told nothing.                                                       *)
Link ==
  /\ connected <=> Open
  /\ btc # "up" => updateQ = <<>>
  /\ btc = "joining" => \A a \in DOMAIN told : told[a] = "unset"

(* A packet is in hand while it is looked at, and only then; and a state   *)
(* that is told is one.                                                    *)
InHand ==
  /\ hand # <<>> => pc \in {"got", "process"}
  /\ pc = "process" => hand # <<>>
  /\ pc = "tellState" => toTell.state # "no"

(* A client with nothing to flush has derived its state from what it knows. *)
Batched ==
  /\ pc = "wait" /\ patient => ~dirty
  /\ Emitting => ~dirty
  /\ ~dirty => /\ info = {} => state = "Stopped"
               /\ info # {} /\ hint # "none" => state = hint

(* The reset leaves nothing of the session, in the thread or in Phone. *)
Reset ==
  btc \in {"cleared", "down"} /\ ~crossed =>
    /\ state = "Stopped" /\ (dirty \/ info = {})
    /\ pc \notin {"tellInfo", "tellState"}
    /\ pc = "flush" => info = {}
    /\ Emitting => toTell = [info |-> {}, state |-> "no"] /\ info = {}
    /\ btc = "down" => currentMedia = {} /\ currentMediaState = "Stopped"

(* What was derived last is on its way to Phone or there. *)
Emitted ==
  Open /\ ~crossed /\ notifSource # "wiped" =>
    /\ pc \in {"info", "tellInfo"} => toTell.info = info
    /\ pc \notin {"info", "tellInfo"} => dirty \/ currentMedia = info
    /\ Emitting /\ toTell.state # "no" => toTell.state = state
    /\ ~(Emitting /\ toTell.state # "no") => currentMediaState = state

(* The metadata is there when the state follows, or the session is over. *)
MetaOrder ==
  pc \in {"state", "tellState"} /\ ~crossed =>
    \/ currentMedia \in {toTell.info, {}}
    \/ pc = "state" /\ btc \in {"dropped", "cleared"}

(* What the client has folded in for an attribute. *)
Known(a) == IF a = "playback" THEN hint \in {"none", told[a]} ELSE a \in info <=> told[a] = "full"

(* An attribute's last packet that is not folded in carries what the phone *)
(* told last; when there is none, the client knows it.                     *)
Folded ==
  btc = "up" /\ ~lost => \A a \in DOMAIN told : told[a] # "unset" =>
    Tells(Unread, a, told[a]) /\ (Silent(Unread, a) => Known(a))

IInv == TypeOK /\ Link /\ InHand /\ Batched /\ Reset /\ Emitted /\ MetaOrder /\ Folded

-----------------------------------------------------------------------------
(* Sequences of packets: one is appended at the back,                      *)
LEMMA TellsAppend ==
  ASSUME NEW s \in Seq(Update), NEW p \in Update, NEW a, NEW v,
         p.attr = a => Carries(p, v),
         p.attr # a => Tells(s, a, v)
  PROVE  Tells(Append(s, p), a, v) /\ (Silent(Append(s, p), a) => p.attr # a /\ Silent(s, a))
<1> DEFINE t == Append(s, p)
<1>1. /\ DOMAIN t = 1 .. Len(s) + 1 /\ DOMAIN s = 1 .. Len(s) /\ Len(s) \in Nat
      /\ t[Len(s) + 1] = p /\ \A i \in 1 .. Len(s) : t[i] = s[i]
  OBVIOUS
<1> HIDE DEF t
<1>2. ASSUME NEW i \in DOMAIN t, LastOf(t, a, i) PROVE Carries(t[i], v)
  <2>1. CASE i = Len(s) + 1
    BY <1>1, <1>2, <2>1 DEF LastOf
  <2>2. CASE i \in 1 .. Len(s)
    <3>1. p.attr # a
      BY <1>1, <1>2, <2>2 DEF LastOf
    <3>2. LastOf(s, a, i)
      BY <1>1, <1>2, <2>2 DEF LastOf
    <3> QED BY <1>1, <2>2, <3>1, <3>2 DEF Tells
  <2> QED BY <1>1, <2>1, <2>2
<1>3. ASSUME Silent(t, a) PROVE p.attr # a /\ Silent(s, a)
  BY <1>1, <1>3 DEF Silent
<1> QED BY <1>2, <1>3 DEF Tells, t

(* and one is taken at the front.                                          *)
LEMMA TellsTail ==
  ASSUME NEW s \in Seq(Update), s # <<>>, NEW a, NEW v, Tells(s, a, v)
  PROVE  /\ Tells(Tail(s), a, v)
         /\ Silent(Tail(s), a) /\ Head(s).attr = a => Carries(Head(s), v)
         /\ Silent(Tail(s), a) /\ Head(s).attr # a => Silent(s, a)
<1> DEFINE t == Tail(s)
<1>1. /\ Len(s) \in Nat \ {0} /\ DOMAIN s = 1 .. Len(s) /\ DOMAIN t = 1 .. Len(s) - 1
      /\ Head(s) = s[1] /\ \A i \in 1 .. Len(s) - 1 : t[i] = s[i + 1]
  OBVIOUS
<1> HIDE DEF t
<1>2. \A i \in 2 .. Len(s) : i - 1 \in DOMAIN t /\ t[i - 1] = s[i]
  BY <1>1
<1>3. ASSUME NEW i \in DOMAIN t, LastOf(t, a, i) PROVE Carries(t[i], v)
  <2>1. i + 1 \in DOMAIN s /\ s[i + 1] = t[i]
    BY <1>1
  <2>2. ASSUME NEW j \in DOMAIN s, j > i + 1 PROVE s[j].attr # a
    <3>1. j \in 2 .. Len(s) /\ j - 1 > i
      BY <1>1, <2>2
    <3> QED BY <1>2, <1>3, <3>1 DEF LastOf
  <2>3. LastOf(s, a, i + 1)
    BY <1>3, <2>1, <2>2 DEF LastOf
  <2> QED BY <2>1, <2>3 DEF Tells
<1>4. ASSUME Silent(t, a), Head(s).attr = a PROVE Carries(Head(s), v)
  <2>1. ASSUME NEW j \in DOMAIN s, j > 1 PROVE s[j].attr # a
    <3>1. j \in 2 .. Len(s)
      BY <1>1, <2>1
    <3> QED BY <1>2, <1>4, <3>1 DEF Silent
  <2>2. LastOf(s, a, 1) /\ 1 \in DOMAIN s
    BY <1>1, <1>4, <2>1 DEF LastOf
  <2> QED BY <1>1, <2>2 DEF Tells
<1>5. ASSUME Silent(t, a), Head(s).attr # a, NEW j \in DOMAIN s PROVE s[j].attr # a
  <2>1. CASE j = 1
    BY <1>1, <1>5, <2>1
  <2>2. CASE j \in 2 .. Len(s)
    BY <1>2, <1>5, <2>2 DEF Silent
  <2> QED BY <1>1, <2>1, <2>2
<1> QED BY <1>3, <1>4, <1>5 DEF Tells, Silent, t

(* An empty sequence tells nothing. *)
LEMMA TellsNothing ==
  ASSUME NEW a, NEW v
  PROVE  Tells(<<>>, a, v) /\ Silent(<<>>, a)
BY DEF Tells, Silent

(* The packet in hand goes before the queue. *)
LEMMA Before ==
  ASSUME NEW S, NEW h \in Seq(S), Len(h) =< 1, NEW q \in Seq(S)
  PROVE  /\ h \o q \in Seq(S)
         /\ h = <<>> => h \o q = q
         /\ h # <<>> => h \o q # <<>> /\ Head(h \o q) = Head(h) /\ Tail(h \o q) = q /\ Head(h) \in S
         /\ q # <<>> => <<Head(q)>> \o Tail(q) = q
         /\ \A e \in S : h \o Append(q, e) = Append(h \o q, e)
<1>1. h \o q \in Seq(S) /\ (h = <<>> => h \o q = q)
  BY ConcatProperties, ConcatEmptySeq
<1>2. ASSUME h # <<>> PROVE h \o q # <<>> /\ Head(h \o q) = Head(h) /\ Tail(h \o q) = q /\ Head(h) \in S
  <2>0. Len(h) \in Nat /\ Len(h) # 0
    BY <1>2, EmptySeq
  <2>1. Len(h) = 1 /\ h[1] \in S /\ Head(h) = h[1]
    BY <2>0
  <2>2. /\ Len(h \o q) = Len(h) + Len(q) /\ Len(q) \in Nat
        /\ \A i \in 1 .. Len(h) + Len(q) : (h \o q)[i] = IF i =< Len(h) THEN h[i] ELSE q[i - Len(h)]
    BY ConcatProperties
  <2>3. h \o q # <<>> /\ Len(h \o q) = 1 + Len(q) /\ Head(h \o q) = h[1]
        /\ \A i \in 1 .. Len(q) : (h \o q)[i + 1] = q[i]
    BY <2>1, <2>2, <1>1
  <2>4. Tail(h \o q) \in Seq(S) /\ Len(Tail(h \o q)) = Len(q) /\ \A i \in 1 .. Len(q) : Tail(h \o q)[i] = q[i]
    BY <2>1, <2>3, <1>1
  <2>5. Tail(h \o q) = q
    BY <2>4
  <2> QED BY <2>1, <2>3, <2>5
<1>3. ASSUME q # <<>> PROVE <<Head(q)>> \o Tail(q) = q
  BY <1>3
<1>4. ASSUME NEW e \in S PROVE h \o Append(q, e) = Append(h \o q, e)
  BY <1>1
<1> QED BY <1>1, <1>2, <1>3, <1>4
-----------------------------------------------------------------------------
(* The steps of the phone leave the watch's part alone, but for the queue. *)
LEMMA PhoneSteps ==
  ASSUME Phone
  PROVE  UNCHANGED <<btcVars, clientVars, threadVars, storeVars, crossed>>
BY DEF Phone, NotifyChange, Tick, Notify, PlayPause, NewTrack, Command, Change

(* The steps of the thread leave the phone and the session alone. *)
LEMMA ThreadSteps ==
  ASSUME UpdateThread
  PROVE  UNCHANGED <<phoneVars, btcVars, mediaCurrent, notifSource, lost, crossed>>
BY DEF UpdateThread, Thread, Await, Take, BatchTimeout, Check, ProcessEntityUpdate, Flush, CheckInfo,
       OnMediaInfo, CheckState, OnMediaState, storeVars

(* What the phone notifies is a packet. *)
LEMMA PacketIs ==
  ASSUME TypeOK, NEW a \in Attrs \cup {"playback"}
  PROVE  /\ Packet(a) \in Update /\ Packet(a).attr = a /\ Carries(Packet(a), Value(a))
         /\ Value(a) \in {"unset", "empty", "full"} \cup PlaybackState /\ Value(a) # "unset"
<1>1. CASE a = "playback"
  BY <1>1 DEF TypeOK, Packet, Update, Carries, Value, PlaybackState
<1>2. CASE a \in Attrs /\ a # "playback"
  <2>1. Packet(a) = [attr |-> a, full |-> a \in track] /\ (a \in track) \in BOOLEAN
    BY <1>2 DEF Packet
  <2>2. Packet(a) \in Update /\ Packet(a).attr = a
    BY <1>2, <2>1 DEF Update
  <2>3. Value(a) \in {"empty", "full"} /\ (Value(a) = "full" <=> a \in track)
    BY <1>2 DEF Value
  <2>4. Packet(a).full = (a \in track)
    BY <2>1
  <2>5. Carries(Packet(a), Value(a))
    BY <1>2, <2>2, <2>3, <2>4, Zenon DEF Carries
  <2> QED BY <2>2, <2>3, <2>5
<1> QED BY <1>1, <1>2

(* What the fields of a packet are. *)
LEMMA UpdateIs ==
  ASSUME NEW u \in Update
  PROVE  /\ u.attr = "playback" => u.to \in PlaybackState
         /\ u.attr \in Attrs => u.attr # "playback" /\ u.full \in BOOLEAN
         /\ u.attr \in Attrs \cup {"playback"}
BY DEF Update

-----------------------------------------------------------------------------
LEMMA TypeInit == Init => TypeOK
<1> SUFFICES ASSUME Init PROVE TypeOK
  OBVIOUS
<1> USE DEF PlaybackState, MediaState
<1>1. track \subseteq Attrs /\ playback \in PlaybackState /\ changes \in 0 .. MaxChanges /\ sessions \in 0 .. MaxSessions
  BY DEF Init
<1>2. told \in [Attrs \cup {"playback"} -> {"unset", "empty", "full"} \cup PlaybackState]
  BY DEF Init
<1>3. updateQ \in Seq(Update) /\ Len(updateQ) =< QueueLen /\ hand \in Seq(Update) /\ Len(hand) =< 1
  BY DEF Init
<1>4. toTell \in [info : SUBSET Attrs, state : MediaState \cup {"no"}]
  BY DEF Init
<1> QED BY <1>1, <1>2, <1>3, <1>4 DEF Init, TypeOK

(* The types are kept. *)
LEMMA TypeKept ==
  ASSUME TypeOK, InHand, [Next]_vars
  PROVE  TypeOK'
<1> USE DEF PlaybackState, MediaState
<1>1. CASE \E a \in DOMAIN told : Notify(a)
  <2>1. PICK a \in Attrs \cup {"playback"} : Notify(a)
    BY <1>1 DEF TypeOK
  <2>2. Packet(a) \in Update /\ Value(a) \in {"unset", "empty", "full"} \cup PlaybackState
    BY <2>1, PacketIs
  <2>3. told' \in [Attrs \cup {"playback"} -> {"unset", "empty", "full"} \cup PlaybackState]
    BY <2>1, <2>2 DEF Notify, TypeOK
  <2>4. updateQ' \in Seq(Update) /\ Len(updateQ') =< QueueLen
    BY <2>1, <2>2 DEF Notify, TypeOK
  <2>5. lost' \in BOOLEAN
    BY <2>1 DEF Notify, TypeOK
  <2> QED BY <2>1, <2>3, <2>4, <2>5 DEF Notify, TypeOK, btcVars, clientVars, threadVars, storeVars
<1>2. CASE PlayPause \/ (\E t \in SUBSET Attrs : NewTrack(t)) \/ (\E p \in PlaybackState : Command(p))
  <2>1. track' \subseteq Attrs /\ playback' \in PlaybackState
    BY <1>2 DEF PlayPause, NewTrack, Command, TypeOK
  <2>2. Change
    BY <1>2 DEF PlayPause, NewTrack, Command
  <2> QED BY <2>1, <2>2 DEF Change, TypeOK, btcVars, clientVars, threadVars, storeVars
<1>3. CASE OnConn
  <2>1. told' \in [Attrs \cup {"playback"} -> {"unset", "empty", "full"} \cup PlaybackState]
    BY <1>3 DEF OnConn, TypeOK
  <2>2. sessions' \in 0 .. MaxSessions
    BY <1>3 DEF OnConn, TypeOK
  <2>3. lost' \in BOOLEAN /\ connected' \in BOOLEAN
    BY <1>3 DEF OnConn
  <2> QED BY <1>3, <2>1, <2>2, <2>3 DEF OnConn, TypeOK, btcVars, clientVars, threadVars, storeVars
<1>4. CASE PhoneOnMediaConnect
  BY <1>4 DEF PhoneOnMediaConnect, TypeOK, phoneVars, clientVars, threadVars
<1>5. CASE PhoneOnConnect
  BY <1>5 DEF PhoneOnConnect, TypeOK, phoneVars, btcVars, clientVars, threadVars
<1>6. CASE ServiceClose
  BY <1>6 DEF ServiceClose, TypeOK, phoneVars, clientVars, threadVars, storeVars
<1>7. CASE OnDiscon
  <2>1. connected' \in BOOLEAN
    BY <1>7 DEF OnDiscon
  <2> QED BY <1>7, <2>1 DEF OnDiscon, TypeOK, phoneVars, clientVars, threadVars, storeVars
<1>8. CASE OnDisconReset
  <2>1. crossed' \in BOOLEAN
    BY <1>8 DEF OnDisconReset, TypeOK
  <2>2. dirty' \in BOOLEAN
    BY <1>8 DEF OnDisconReset
  <2> QED BY <1>8, <2>1, <2>2 DEF OnDisconReset, TypeOK, phoneVars, threadVars, storeVars
<1>9. CASE PhoneOnMediaDisconnect
  <2>1. mediaCurrent' \in BOOLEAN
    BY <1>9 DEF PhoneOnMediaDisconnect
  <2> QED BY <1>9, <2>1 DEF PhoneOnMediaDisconnect, TypeOK, phoneVars, clientVars, threadVars
<1>10. CASE Await
  <2>1. patient' \in BOOLEAN
    BY <1>10 DEF Await, TypeOK
  <2> QED BY <1>10, <2>1 DEF Await, Thread, TypeOK, phoneVars, btcVars, clientVars, storeVars
<1>11. CASE Take
  <2>1. hand' \in Seq(Update) /\ Len(hand') = 1 /\ updateQ' \in Seq(Update) /\ Len(updateQ') =< QueueLen
    BY <1>11 DEF Take, TypeOK
  <2> QED BY <1>11, <2>1 DEF Take, Thread, TypeOK, phoneVars, btcVars, clientVars, storeVars
<1>12. CASE BatchTimeout
  BY <1>12 DEF BatchTimeout, Thread, TypeOK, phoneVars, btcVars, clientVars, storeVars
<1>13. CASE Check
  BY <1>13 DEF Check, Thread, TypeOK, phoneVars, btcVars, clientVars, storeVars
<1>14. CASE ProcessEntityUpdate
  <2>1. hand' = <<>> /\ pc' = "top"
    BY <1>14 DEF ProcessEntityUpdate
  <2>2. info' \subseteq Attrs /\ hint' \in PlaybackState \cup {"none"} /\ dirty' \in BOOLEAN
    <3>1. PICK u : u = Head(hand)
      OBVIOUS
    <3>2. CASE ProcessPlayback(u)
      <4>1. hand # <<>>
        BY <1>14 DEF ProcessEntityUpdate, InHand
      <4>2. u \in Update
        BY <3>1, <4>1 DEF TypeOK
      <4>3. u.to \in PlaybackState
        BY <3>2, <4>2, UpdateIs DEF ProcessPlayback
      <4> QED BY <3>2, <4>3 DEF ProcessPlayback, TypeOK
    <3>3. CASE ProcessTrack(u)
      BY <3>3 DEF ProcessTrack, TypeOK
    <3> QED BY <1>14, <3>1, <3>2, <3>3 DEF ProcessEntityUpdate
  <2> QED BY <1>14, <2>1, <2>2 DEF ProcessEntityUpdate, Thread, TypeOK, phoneVars, btcVars, storeVars
<1>15. CASE Flush
  <2>1. Derived \notin {"none", state} => Derived \in MediaState
    BY DEF Derived, TypeOK
  <2>2. state' \in MediaState /\ toTell' \in [info : SUBSET Attrs, state : MediaState \cup {"no"}]
    BY <1>15, <2>1 DEF Flush, TypeOK
  <2>3. dirty' \in BOOLEAN
    BY <1>15 DEF Flush
  <2> QED BY <1>15, <2>2, <2>3 DEF Flush, Thread, TypeOK, phoneVars, btcVars, storeVars
<1>16. CASE CheckInfo \/ CheckState
  BY <1>16 DEF CheckInfo, CheckState, Thread, TypeOK, phoneVars, btcVars, clientVars, storeVars
<1>17. CASE OnMediaInfo
  BY <1>17 DEF OnMediaInfo, Thread, TypeOK, phoneVars, btcVars, clientVars
<1>18. CASE OnMediaState
  <2>1. currentMediaState' \in MediaState
    BY <1>18 DEF OnMediaState, InHand, TypeOK
  <2> QED BY <1>18, <2>1 DEF OnMediaState, Thread, TypeOK, phoneVars, btcVars, clientVars
<1>19. CASE UNCHANGED vars
  BY <1>19 DEF vars, TypeOK, phoneVars, btcVars, clientVars, threadVars, storeVars
<1> QED
  BY <1>1, <1>2, <1>3, <1>4, <1>5, <1>6, <1>7, <1>8, <1>9, <1>10, <1>11, <1>12, <1>13, <1>14, <1>15, <1>16,
     <1>17, <1>18, <1>19
     DEF Next, Phone, BTC, UpdateThread, NotifyChange, Tick, TypeOK
-----------------------------------------------------------------------------
(* The flag and the queue go with the session. *)
LEMMA LinkKept ==
  ASSUME TypeOK, Link, [Next]_vars
  PROVE  Link'
<1> USE DEF Open
<1>1. ASSUME btc' = btc, connected' = connected, told' = told \/ btc = "up", updateQ' = updateQ \/ btc = "up"
      PROVE  Link'
  BY <1>1 DEF Link
<1>2. CASE Phone
  <2>1. btc' = btc /\ connected' = connected
    BY <1>2, PhoneSteps DEF btcVars
  <2>2. told' = told \/ btc = "up"
    BY <1>2 DEF Phone, NotifyChange, Tick, Notify, PlayPause, NewTrack, Command, Change
  <2>3. updateQ' = updateQ \/ btc = "up"
    BY <1>2 DEF Phone, NotifyChange, Tick, Notify, PlayPause, NewTrack, Command, Change
  <2> QED BY <1>1, <2>1, <2>2, <2>3
<1>3. CASE UpdateThread
  <2>1. btc' = btc /\ connected' = connected /\ told' = told
    BY <1>3, ThreadSteps DEF btcVars, phoneVars
  <2>2. updateQ' = updateQ \/ updateQ # <<>>
    BY <1>3 DEF UpdateThread, Await, Take, BatchTimeout, Check, ProcessEntityUpdate, Flush, CheckInfo,
       OnMediaInfo, CheckState, OnMediaState
  <2>3. updateQ' = updateQ \/ btc = "up"
    BY <2>2 DEF Link
  <2> QED BY <1>1, <2>1, <2>3
<1>4. CASE OnConn
  <2>1. \A a \in DOMAIN told' : told'[a] = "unset"
    BY <1>4 DEF OnConn
  <2> QED BY <1>4, <2>1 DEF OnConn, Link
<1>5. CASE PhoneOnMediaConnect
  BY <1>5 DEF PhoneOnMediaConnect, Link
<1>6. CASE PhoneOnConnect
  BY <1>1, <1>6 DEF PhoneOnConnect, btcVars, phoneVars
<1>7. CASE ServiceClose
  BY <1>7 DEF ServiceClose, Link
<1>8. CASE OnDiscon
  BY <1>8 DEF OnDiscon, Link
<1>9. CASE OnDisconReset
  BY <1>9 DEF OnDisconReset, Link
<1>10. CASE PhoneOnMediaDisconnect
  BY <1>10 DEF PhoneOnMediaDisconnect, Link
<1>11. CASE UNCHANGED vars
  BY <1>1, <1>11 DEF vars, btcVars, phoneVars
<1> QED
  BY <1>2, <1>3, <1>4, <1>5, <1>6, <1>7, <1>8, <1>9, <1>10, <1>11 DEF Next, BTC

(* What is in hand, and what is told, is there. *)
LEMMA InHandKept ==
  ASSUME TypeOK, InHand, [Next]_vars
  PROVE  InHand'
<1>1. CASE UNCHANGED threadVars
  BY <1>1 DEF InHand, threadVars
<1>2. CASE Phone
  BY <1>1, <1>2, PhoneSteps
<1>3. CASE BTC
  BY <1>1, <1>3 DEF BTC, OnConn, PhoneOnMediaConnect, PhoneOnConnect, ServiceClose, OnDiscon, OnDisconReset,
     PhoneOnMediaDisconnect
<1>4. CASE Await
  BY <1>4 DEF Await, InHand
<1>5. CASE Take
  BY <1>5 DEF Take, InHand
<1>6. CASE BatchTimeout
  BY <1>6 DEF BatchTimeout, InHand
<1>7. CASE Check
  BY <1>7 DEF Check, InHand
<1>8. CASE ProcessEntityUpdate
  BY <1>8 DEF ProcessEntityUpdate, InHand
<1>9. CASE Flush
  BY <1>9 DEF Flush, InHand
<1>10. CASE CheckInfo
  BY <1>10 DEF CheckInfo, InHand
<1>11. CASE OnMediaInfo
  BY <1>11 DEF OnMediaInfo, InHand
<1>12. CASE CheckState
  BY <1>12 DEF CheckState, InHand
<1>13. CASE OnMediaState
  BY <1>13 DEF OnMediaState, InHand
<1>14. CASE UNCHANGED vars
  BY <1>1, <1>14 DEF vars
<1> QED
  BY <1>2, <1>3, <1>4, <1>5, <1>6, <1>7, <1>8, <1>9, <1>10, <1>11, <1>12, <1>13, <1>14 DEF Next, UpdateThread

(* What a flush does to the client: its state is what it derives, if that  *)
(* is anything.                                                            *)
LEMMA FlushIs ==
  ASSUME TypeOK, Flush
  PROVE  /\ toTell'.info = info /\ info' = info /\ hint' = hint
         /\ toTell'.state = "no" => state' = state
         /\ toTell'.state # "no" => toTell'.state = state'
         /\ info = {} => state' = "Stopped"
         /\ info # {} /\ hint # "none" => state' = hint
<1>1. CASE Derived \notin {"none", state}
  <2>1. state' = Derived /\ toTell' = [info |-> info, state |-> Derived]
    BY <1>1 DEF Flush
  <2>2. Derived # "no"
    BY DEF Derived, TypeOK, PlaybackState
  <2> QED BY <2>1, <2>2 DEF Flush, Derived
<1>2. CASE Derived \in {"none", state}
  <2>1. state' = state /\ toTell' = [info |-> info, state |-> "no"]
    BY <1>2 DEF Flush
  <2> QED BY <1>2, <2>1 DEF Flush, Derived
<1> QED BY <1>1, <1>2

(* What a packet that marks nothing dirty can have changed: nothing. *)
LEMMA ProcessIs ==
  ASSUME TypeOK, ProcessEntityUpdate
  PROVE  dirty' \/ (dirty' = dirty /\ info' = info /\ hint' = hint)
<1>1. PICK u : u = Head(hand)
  OBVIOUS
<1>2. CASE ProcessPlayback(u)
  <2>1. CASE hint # u.to
    BY <1>2, <2>1 DEF ProcessPlayback
  <2>2. CASE hint = u.to
    BY <1>2, <2>2 DEF ProcessPlayback, TypeOK
  <2> QED BY <2>1, <2>2
<1>3. CASE ProcessTrack(u)
  BY <1>3 DEF ProcessTrack
<1> QED BY <1>1, <1>2, <1>3 DEF ProcessEntityUpdate

(* A client with nothing to flush has derived its state. *)
LEMMA BatchedKept ==
  ASSUME TypeOK, Batched, [Next]_vars
  PROVE  Batched'
<1> USE DEF Emitting
<1>1. CASE UNCHANGED <<clientVars, threadVars>>
  BY <1>1 DEF Batched, clientVars, threadVars
<1>2. CASE Phone
  BY <1>1, <1>2, PhoneSteps
<1>3. CASE OnConn \/ PhoneOnMediaConnect \/ PhoneOnConnect \/ ServiceClose \/ OnDiscon \/ PhoneOnMediaDisconnect
  BY <1>1, <1>3 DEF OnConn, PhoneOnMediaConnect, PhoneOnConnect, ServiceClose, OnDiscon, PhoneOnMediaDisconnect
<1>4. CASE OnDisconReset
  BY <1>4 DEF OnDisconReset, Batched, threadVars
<1>5. CASE Await
  <2>1. pc' = "wait" /\ UNCHANGED clientVars /\ (patient' => ~dirty)
    BY <1>5 DEF Await
  <2> QED BY <2>1 DEF Batched, clientVars
<1>6. CASE Take
  BY <1>6 DEF Take, Batched, clientVars
<1>7. CASE BatchTimeout
  BY <1>7 DEF BatchTimeout, Batched, clientVars
<1>8. CASE Check
  BY <1>8 DEF Check, Batched, clientVars
<1>9. CASE ProcessEntityUpdate
  <2>1. pc' = "top" /\ state' = state
    BY <1>9 DEF ProcessEntityUpdate
  <2> QED BY <1>9, <2>1, ProcessIs DEF Batched
<1>10. CASE Flush
  <2>1. pc' = "info" /\ ~dirty'
    BY <1>10 DEF Flush
  <2> QED BY <1>10, <2>1, FlushIs DEF Batched
<1>11. CASE CheckInfo
  BY <1>11 DEF CheckInfo, Batched, clientVars
<1>12. CASE OnMediaInfo
  BY <1>12 DEF OnMediaInfo, Batched, clientVars
<1>13. CASE CheckState
  BY <1>13 DEF CheckState, Batched, clientVars
<1>14. CASE OnMediaState
  BY <1>14 DEF OnMediaState, Batched, clientVars
<1>15. CASE UNCHANGED vars
  BY <1>1, <1>15 DEF vars
<1> QED
  BY <1>2, <1>3, <1>4, <1>5, <1>6, <1>7, <1>8, <1>9, <1>10, <1>11, <1>12, <1>13, <1>14, <1>15
     DEF Next, BTC, UpdateThread
(* A session that has ended leaves nothing behind. *)
LEMMA ResetKept ==
  ASSUME TypeOK, Link, Reset, [Next]_vars
  PROVE  Reset'
<1> USE DEF Emitting, Open
<1>1. CASE UNCHANGED <<btc, clientVars, threadVars, currentMedia, currentMediaState, crossed>>
  BY <1>1 DEF Reset, clientVars, threadVars
<1>2. CASE Phone
  BY <1>1, <1>2, PhoneSteps DEF btcVars, storeVars
<1>3. CASE btc' \notin {"cleared", "down"}
  BY <1>3 DEF Reset
<1>4. CASE OnConn \/ PhoneOnMediaConnect \/ PhoneOnConnect \/ ServiceClose \/ OnDiscon
  BY <1>3, <1>4 DEF OnConn, PhoneOnMediaConnect, PhoneOnConnect, ServiceClose, OnDiscon, btcVars
<1>5. CASE OnDisconReset
  <2>1. ~crossed' => pc \notin {"info", "tellInfo", "state", "tellState"}
    BY <1>5 DEF OnDisconReset
  <2>2. state' = "Stopped" /\ info' = {} /\ pc' = pc /\ btc' = "cleared"
    BY <1>5 DEF OnDisconReset, threadVars
  <2> QED BY <2>1, <2>2 DEF Reset
<1>6. CASE PhoneOnMediaDisconnect
  BY <1>6 DEF PhoneOnMediaDisconnect, Reset, clientVars, threadVars
<1>7. ASSUME UpdateThread, btc \in {"cleared", "down"}, ~crossed
      PROVE  Reset'
  <2>1. ~connected /\ updateQ = <<>> /\ btc' = btc
    BY <1>7, ThreadSteps DEF Link, btcVars
  <2>2. /\ state = "Stopped" /\ (dirty \/ info = {}) /\ pc \notin {"tellInfo", "tellState"}
        /\ pc = "flush" => info = {}
        /\ Emitting => toTell = [info |-> {}, state |-> "no"] /\ info = {}
        /\ btc = "down" => currentMedia = {} /\ currentMediaState = "Stopped"
    BY <1>7 DEF Reset
  <2>3. CASE Await
    BY <2>1, <2>3 DEF Await
  <2>4. CASE Take
    BY <2>1, <2>4 DEF Take
  <2>5. CASE BatchTimeout
    BY <2>1, <2>2, <2>5 DEF BatchTimeout, Reset, clientVars, storeVars
  <2>6. CASE Check
    BY <2>1, <2>2, <2>6 DEF Check, Reset, clientVars, storeVars
  <2>7. CASE ProcessEntityUpdate
    <3>1. pc' = "top" /\ state' = state /\ currentMedia' = currentMedia /\ currentMediaState' = currentMediaState
      BY <2>7 DEF ProcessEntityUpdate, storeVars
    <3>2. dirty' \/ info' = {}
      BY <2>2, <2>7, ProcessIs
    <3> QED BY <2>1, <2>2, <3>1, <3>2 DEF Reset
  <2>8. CASE Flush
    <3>1. info = {} /\ info' = info /\ pc' = "info" /\ UNCHANGED storeVars
      BY <2>2, <2>8 DEF Flush
    <3>2. Derived = state
      BY <2>2, <3>1 DEF Derived
    <3>3. state' = state /\ toTell' = [info |-> {}, state |-> "no"]
      BY <2>8, <3>1, <3>2 DEF Flush
    <3> QED BY <2>1, <2>2, <3>1, <3>3 DEF Reset, storeVars
  <2>9. CASE CheckInfo
    BY <2>1, <2>2, <2>9 DEF CheckInfo, Reset, clientVars, storeVars
  <2>10. CASE OnMediaInfo
    BY <2>2, <2>10 DEF OnMediaInfo
  <2>11. CASE CheckState
    BY <2>1, <2>2, <2>11 DEF CheckState, Reset, clientVars, storeVars
  <2>12. CASE OnMediaState
    BY <2>2, <2>12 DEF OnMediaState
  <2> QED
    BY <1>7, <2>3, <2>4, <2>5, <2>6, <2>7, <2>8, <2>9, <2>10, <2>11, <2>12 DEF UpdateThread
<1>8. CASE UpdateThread
  <2>1. btc' = btc /\ crossed' = crossed
    BY <1>8, ThreadSteps DEF btcVars
  <2>2. CASE crossed
    BY <2>1, <2>2 DEF Reset
  <2> QED BY <1>3, <1>7, <1>8, <2>1, <2>2
<1>9. CASE UNCHANGED vars
  BY <1>1, <1>9 DEF vars, btcVars, storeVars
<1> QED
  BY <1>2, <1>4, <1>5, <1>6, <1>8, <1>9 DEF Next, BTC

(* What was derived last reaches Phone. *)
LEMMA EmittedKept ==
  ASSUME TypeOK, Link, InHand, Reset, Emitted, [Next]_vars
  PROVE  Emitted'
<1> USE DEF Emitting, Open
<1>1. CASE UNCHANGED <<clientVars, threadVars, currentMedia, currentMediaState, crossed, notifSource>>
           /\ (btc' \in {"joining", "up", "closed"} => btc \in {"joining", "up", "closed"})
  BY <1>1 DEF Emitted, clientVars, threadVars
<1>2. CASE Phone
  BY <1>1, <1>2, PhoneSteps DEF btcVars, storeVars
<1>3. CASE OnConn
  <2>1. btc = "down" /\ crossed' = crossed /\ pc' = pc /\ toTell' = toTell
    BY <1>3 DEF OnConn, threadVars
  <2>2. info' = info /\ state' = state /\ dirty' = dirty
    BY <1>3 DEF OnConn, clientVars
  <2>3. currentMedia' = currentMedia /\ currentMediaState' = currentMediaState
    BY <1>3 DEF OnConn
  <2>4. CASE ~crossed
    <3>1. /\ state = "Stopped" /\ (dirty \/ info = {})
          /\ Emitting => toTell = [info |-> {}, state |-> "no"] /\ info = {}
          /\ currentMedia = {} /\ currentMediaState = "Stopped"
      BY <2>1, <2>4 DEF Reset
    <3> QED BY <2>1, <2>2, <2>3, <3>1 DEF Emitted
  <2> QED BY <2>1, <2>4 DEF Emitted
<1>4. CASE PhoneOnMediaConnect
  BY <1>1, <1>4 DEF PhoneOnMediaConnect
<1>5. CASE PhoneOnConnect
  <2>1. CASE currentMedia = {} /\ currentMediaState = "Stopped"
    <3>1. UNCHANGED <<clientVars, threadVars, currentMedia, currentMediaState, crossed>>
      BY <1>5, <2>1 DEF PhoneOnConnect
    <3>2. btc' = btc /\ notifSource = "none"
      BY <1>5 DEF PhoneOnConnect, btcVars
    <3> QED BY <3>1, <3>2 DEF Emitted, clientVars, threadVars
  <2>2. CASE ~(currentMedia = {} /\ currentMediaState = "Stopped")
    BY <1>5, <2>2 DEF PhoneOnConnect, Emitted
  <2> QED BY <2>1, <2>2
<1>6. CASE ServiceClose
  BY <1>1, <1>6 DEF ServiceClose, storeVars
<1>7. CASE OnDiscon \/ OnDisconReset \/ PhoneOnMediaDisconnect
  <2>1. btc' \notin {"joining", "up", "closed"}
    BY <1>7 DEF OnDiscon, OnDisconReset, PhoneOnMediaDisconnect
  <2> QED BY <2>1 DEF Emitted
<1>8. ASSUME UpdateThread, btc \in {"joining", "up", "closed"}, ~crossed, notifSource # "wiped"
      PROVE  Emitted'
  <2>1. connected
    BY <1>8 DEF Link
  <2>2. /\ pc \in {"info", "tellInfo"} => toTell.info = info
        /\ pc \notin {"info", "tellInfo"} => dirty \/ currentMedia = info
        /\ Emitting /\ toTell.state # "no" => toTell.state = state
        /\ ~(Emitting /\ toTell.state # "no") => currentMediaState = state
    BY <1>8 DEF Emitted
  <2>3. CASE Await
    BY <2>2, <2>3 DEF Await, Emitted, clientVars, storeVars
  <2>4. CASE Take
    BY <2>2, <2>4 DEF Take, Emitted, clientVars, storeVars
  <2>5. CASE BatchTimeout
    BY <2>2, <2>5 DEF BatchTimeout, Emitted, clientVars, storeVars
  <2>6. CASE Check
    BY <2>1, <2>2, <2>6 DEF Check, Emitted, clientVars, storeVars
  <2>7. CASE ProcessEntityUpdate
    <3>1. pc = "process" /\ pc' = "top" /\ state' = state /\ UNCHANGED storeVars
      BY <2>7 DEF ProcessEntityUpdate
    <3>2. dirty' \/ (dirty' = dirty /\ info' = info)
      BY <2>7, ProcessIs
    <3> QED BY <2>2, <3>1, <3>2 DEF Emitted, storeVars
  <2>8. CASE Flush
    <3>1. pc = "flush" /\ pc' = "info" /\ UNCHANGED storeVars
      BY <2>8 DEF Flush
    <3>2. /\ toTell'.info = info' /\ (toTell'.state = "no" => state' = state)
          /\ (toTell'.state # "no" => toTell'.state = state')
      BY <2>8, FlushIs
    <3> QED BY <2>2, <3>1, <3>2 DEF Emitted, storeVars
  <2>9. CASE CheckInfo
    BY <2>1, <2>2, <2>9 DEF CheckInfo, Emitted, clientVars, storeVars
  <2>10. CASE OnMediaInfo
    BY <2>2, <2>10 DEF OnMediaInfo, Emitted, clientVars
  <2>11. CASE CheckState
    BY <2>1, <2>2, <2>11 DEF CheckState, Emitted, clientVars, storeVars
  <2>12. CASE OnMediaState
    <3>1. toTell.state # "no"
      BY <2>12 DEF OnMediaState, InHand
    <3> QED BY <2>2, <2>12, <3>1 DEF OnMediaState, Emitted, clientVars
  <2> QED
    BY <1>8, <2>3, <2>4, <2>5, <2>6, <2>7, <2>8, <2>9, <2>10, <2>11, <2>12 DEF UpdateThread
<1>9. CASE UpdateThread
  <2>1. btc' = btc /\ crossed' = crossed /\ notifSource' = notifSource
    BY <1>9, ThreadSteps DEF btcVars
  <2>2. CASE btc \notin {"joining", "up", "closed"} \/ crossed \/ notifSource = "wiped"
    BY <2>1, <2>2 DEF Emitted
  <2> QED BY <1>8, <1>9, <2>2
<1>10. CASE UNCHANGED vars
  BY <1>1, <1>10 DEF vars, btcVars, storeVars
<1> QED
  BY <1>2, <1>3, <1>4, <1>5, <1>6, <1>7, <1>9, <1>10 DEF Next, BTC

(* The metadata comes first. *)
LEMMA MetaOrderKept ==
  ASSUME TypeOK, Link, Reset, MetaOrder, [Next]_vars
  PROVE  MetaOrder'
<1> USE DEF Emitting, Open
<1>1. CASE UNCHANGED <<btc, threadVars, currentMedia, crossed>>
  BY <1>1 DEF MetaOrder, threadVars
<1>2. CASE Phone
  BY <1>1, <1>2, PhoneSteps DEF btcVars, storeVars
<1>3. CASE OnConn \/ PhoneOnMediaConnect \/ ServiceClose \/ OnDiscon
  BY <1>3 DEF OnConn, PhoneOnMediaConnect, ServiceClose, OnDiscon, MetaOrder, threadVars, storeVars
<1>4. CASE PhoneOnConnect \/ PhoneOnMediaDisconnect
  <2>1. currentMedia' = {}
    BY <1>4 DEF PhoneOnConnect, PhoneOnMediaDisconnect
  <2> QED BY <2>1 DEF MetaOrder
<1>5. CASE OnDisconReset
  <2>1. ~crossed' => pc' \notin {"info", "tellInfo", "state", "tellState"}
    BY <1>5 DEF OnDisconReset, threadVars
  <2> QED BY <2>1 DEF MetaOrder
<1>6. CASE Await \/ Take \/ BatchTimeout \/ Check \/ ProcessEntityUpdate \/ Flush \/ OnMediaState
  <2>1. pc' \notin {"state", "tellState"}
    BY <1>6 DEF Await, Take, BatchTimeout, Check, ProcessEntityUpdate, Flush, OnMediaState
  <2> QED BY <2>1 DEF MetaOrder
<1>7. CASE CheckInfo
  <2>1. btc' = btc /\ crossed' = crossed /\ toTell' = toTell /\ currentMedia' = currentMedia
    BY <1>7 DEF CheckInfo, Thread, btcVars, storeVars
  <2>2. CASE connected
    BY <1>7, <2>2 DEF CheckInfo, MetaOrder
  <2>3. CASE ~connected /\ btc = "down" /\ ~crossed
    <3>1. toTell = [info |-> {}, state |-> "no"] /\ currentMedia = {}
      BY <1>7, <2>3 DEF CheckInfo, Reset
    <3> QED BY <2>1, <3>1 DEF MetaOrder
  <2>4. CASE ~connected /\ btc # "down"
    <3>1. btc \in {"dropped", "cleared"} /\ pc' = "state"
      BY <1>7, <2>4 DEF CheckInfo, Link, TypeOK
    <3> QED BY <2>1, <3>1 DEF MetaOrder
  <2>5. CASE crossed
    BY <2>1, <2>5 DEF MetaOrder
  <2> QED BY <2>2, <2>3, <2>4, <2>5
<1>8. CASE OnMediaInfo
  BY <1>8 DEF OnMediaInfo, MetaOrder
<1>9. CASE CheckState
  <2>1. crossed' = crossed /\ toTell' = toTell /\ currentMedia' = currentMedia
    BY <1>9 DEF CheckState, Thread, storeVars
  <2>2. CASE toTell.state # "no" /\ connected
    BY <1>9, <2>1, <2>2 DEF CheckState, Link, MetaOrder
  <2>3. CASE ~(toTell.state # "no" /\ connected)
    BY <1>9, <2>3 DEF CheckState, MetaOrder
  <2> QED BY <2>2, <2>3
<1>10. CASE UNCHANGED vars
  BY <1>1, <1>10 DEF vars, btcVars, storeVars
<1> QED
  BY <1>2, <1>3, <1>4, <1>5, <1>6, <1>7, <1>8, <1>9, <1>10 DEF Next, BTC, UpdateThread
-----------------------------------------------------------------------------
(* What is not folded in, and what is, bring the client to what was told.  *)

(* A packet is told and stored: it is its attribute's last. *)
LEMMA FoldedNotify ==
  ASSUME TypeOK, Folded, NEW a \in Attrs \cup {"playback"}, Notify(a)
  PROVE  Folded'
<1> SUFFICES ASSUME btc' = "up", ~lost', NEW b \in DOMAIN told', told'[b] # "unset"
             PROVE  Tells(Unread', b, told'[b]) /\ (Silent(Unread', b) => Known(b)')
  BY DEF Folded
<1>1. btc = "up" /\ ~lost /\ Len(updateQ) # QueueLen
  BY DEF Notify
<1>2. updateQ' = Append(updateQ, Packet(a)) /\ UNCHANGED <<hand, info, hint>>
  BY <1>1 DEF Notify, TypeOK, threadVars, clientVars
<1>3. Packet(a) \in Update /\ Packet(a).attr = a /\ Carries(Packet(a), Value(a))
  BY PacketIs
<1>4. Unread \in Seq(Update) /\ Unread' = Append(Unread, Packet(a))
  BY <1>2, <1>3, Before DEF Unread, TypeOK
<1>5. b \in DOMAIN told /\ told'[b] = IF b = a THEN Value(a) ELSE told[b]
  BY DEF Notify, TypeOK
<1>6. CASE b = a
  <2>1. Carries(Packet(a), told'[b])
    BY <1>3, <1>5, <1>6
  <2> QED BY <1>3, <1>4, <1>6, <2>1, TellsAppend
<1>7. CASE b # a
  <2>1. told[b] = told'[b] /\ told[b] # "unset"
    BY <1>5, <1>7
  <2>2. Tells(Unread, b, told'[b]) /\ (Silent(Unread, b) => Known(b))
    BY <1>1, <1>5, <2>1 DEF Folded
  <2>3. Tells(Unread', b, told'[b]) /\ (Silent(Unread', b) => Silent(Unread, b))
    BY <1>3, <1>4, <1>7, <2>2, TellsAppend
  <2>4. Known(b) => Known(b)'
    BY <1>2, <2>1 DEF Known
  <2> QED BY <2>2, <2>3, <2>4
<1> QED BY <1>6, <1>7

(* The packet in hand is folded in. *)
LEMMA FoldedProcess ==
  ASSUME TypeOK, InHand, Folded, ProcessEntityUpdate
  PROVE  Folded'
<1> SUFFICES ASSUME btc' = "up", ~lost', NEW a \in DOMAIN told', told'[a] # "unset"
             PROVE  Tells(Unread', a, told'[a]) /\ (Silent(Unread', a) => Known(a)')
  BY DEF Folded
<1>1. btc = "up" /\ ~lost /\ told' = told
  BY DEF ProcessEntityUpdate, Thread, btcVars, phoneVars
<1>2. hand # <<>> /\ hand' = <<>> /\ updateQ' = updateQ
  BY DEF ProcessEntityUpdate, InHand
<1>3. PICK u : u = Head(hand)
  OBVIOUS
<1>4. Unread \in Seq(Update) /\ Unread # <<>> /\ Head(Unread) = u /\ Tail(Unread) = updateQ /\ u \in Update
  BY <1>2, <1>3, Before DEF Unread, TypeOK
<1>5. Unread' = Tail(Unread)
  BY <1>2, <1>4, Before DEF Unread, TypeOK
<1>6. Tells(Unread, a, told[a]) /\ (Silent(Unread, a) => Known(a)) /\ a \in Attrs \cup {"playback"}
  BY <1>1 DEF Folded, TypeOK
<1>7. /\ Tells(Unread', a, told[a])
      /\ Silent(Unread', a) /\ u.attr = a => Carries(u, told[a])
      /\ Silent(Unread', a) /\ u.attr # a => Known(a)
  BY <1>4, <1>5, <1>6, TellsTail
<1>8. ProcessPlayback(u) \/ ProcessTrack(u)
  BY <1>3 DEF ProcessEntityUpdate
<1>9. ASSUME Silent(Unread', a) PROVE Known(a)'
  <2>1. CASE ProcessPlayback(u)
    <3>1. u.attr = "playback" /\ hint' = u.to /\ info' = info
      BY <2>1 DEF ProcessPlayback
    <3>2. CASE a = "playback"
      BY <1>1, <1>7, <1>9, <3>1, <3>2 DEF Carries, Known
    <3>3. CASE a # "playback"
      BY <1>1, <1>7, <1>9, <3>1, <3>3 DEF Known
    <3> QED BY <3>2, <3>3
  <2>2. CASE ProcessTrack(u)
    <3>1. u.attr \in Attrs /\ u.attr # "playback" /\ hint' \in {"none", hint}
          /\ info' = IF u.full THEN info \cup {u.attr} ELSE info \ {u.attr}
      BY <1>4, <2>2, UpdateIs DEF ProcessTrack
    <3>2. CASE a = "playback"
      BY <1>1, <1>7, <1>9, <3>1, <3>2 DEF Known
    <3>3. CASE a # "playback" /\ a = u.attr
      <4>1. u.full <=> told[a] = "full"
        BY <1>7, <1>9, <3>3 DEF Carries
      <4>2. a \in info' <=> u.full
        BY <3>1, <3>3
      <4> QED BY <1>1, <3>3, <4>1, <4>2 DEF Known
    <3>4. CASE a # "playback" /\ a # u.attr
      <4>1. a \in info' <=> a \in info
        BY <3>1, <3>4
      <4>2. Known(a)
        BY <1>7, <1>9, <3>4
      <4> QED BY <1>1, <3>4, <4>1, <4>2 DEF Known
    <3> QED BY <3>2, <3>3, <3>4
  <2> QED BY <1>8, <2>1, <2>2
<1> QED BY <1>1, <1>7, <1>9

LEMMA FoldedKept ==
  ASSUME TypeOK, Link, InHand, Folded, [Next]_vars
  PROVE  Folded'
<1> USE DEF Open
<1>1. ASSUME Unread' = Unread, UNCHANGED <<btc, lost, told, info, hint>> PROVE Folded'
  <2>1. ASSUME NEW a \in DOMAIN told PROVE Known(a)' <=> Known(a)
    BY <1>1 DEF Known
  <2> QED BY <1>1, <2>1 DEF Folded
<1>2. ASSUME UNCHANGED <<hand, updateQ, btc, lost, told, info, hint>> PROVE Folded'
  BY <1>1, <1>2 DEF Unread
<1>3. CASE \E a \in DOMAIN told : NotifyChange(a)
  BY <1>3, FoldedNotify DEF NotifyChange, TypeOK
<1>4. CASE Tick
  BY <1>4, FoldedNotify DEF Tick, TypeOK
<1>5. CASE PlayPause \/ (\E t \in SUBSET Attrs : NewTrack(t)) \/ (\E p \in PlaybackState : Command(p))
  BY <1>2, <1>5 DEF PlayPause, NewTrack, Command, Change, btcVars, clientVars, threadVars
<1>6. CASE OnConn \/ ServiceClose \/ OnDiscon \/ OnDisconReset \/ PhoneOnMediaDisconnect
  <2>1. btc' # "up"
    BY <1>6 DEF OnConn, ServiceClose, OnDiscon, OnDisconReset, PhoneOnMediaDisconnect
  <2> QED BY <2>1 DEF Folded
<1>7. CASE PhoneOnMediaConnect
  <2>1. told' = told /\ \A a \in DOMAIN told : told[a] = "unset"
    BY <1>7 DEF PhoneOnMediaConnect, Link, phoneVars
  <2> QED BY <2>1 DEF Folded
<1>8. CASE PhoneOnConnect
  BY <1>2, <1>8 DEF PhoneOnConnect, phoneVars, btcVars, clientVars, threadVars
<1>9. CASE Await \/ BatchTimeout \/ Flush \/ CheckInfo \/ OnMediaInfo \/ CheckState \/ OnMediaState
  <2>1. UNCHANGED <<btc, lost, told>>
    BY <1>9, ThreadSteps DEF btcVars, phoneVars, UpdateThread
  <2> QED BY <1>2, <1>9, <2>1 DEF Await, BatchTimeout, Flush, CheckInfo, OnMediaInfo, CheckState, OnMediaState,
     clientVars
<1>10. CASE Take
  <2>1. UNCHANGED <<btc, lost, told, info, hint>>
    BY <1>10 DEF Take, Thread, btcVars, phoneVars, clientVars
  <2>2. updateQ # <<>> /\ hand' = <<Head(updateQ)>> /\ updateQ' = Tail(updateQ) /\ hand = <<>>
    BY <1>10 DEF Take, InHand
  <2>3. Unread = updateQ
    BY <2>2, Before DEF Unread, TypeOK
  <2>4. <<Head(updateQ)>> \o Tail(updateQ) = updateQ
    BY <2>2, Before DEF TypeOK
  <2>5. Unread' = Unread
    BY <2>2, <2>3, <2>4 DEF Unread
  <2> QED BY <1>1, <2>1, <2>5
<1>11. CASE Check
  <2>1. UNCHANGED <<btc, lost, told, info, hint, updateQ>>
    BY <1>11 DEF Check, Thread, btcVars, phoneVars, clientVars
  <2>2. CASE btc = "up"
    <3>1. hand' = hand
      BY <1>11, <2>2 DEF Check, Link
    <3> QED BY <1>2, <2>1, <3>1
  <2>3. CASE btc # "up"
    BY <2>1, <2>3 DEF Folded
  <2> QED BY <2>2, <2>3
<1>12. CASE ProcessEntityUpdate
  BY <1>12, FoldedProcess
<1>13. CASE UNCHANGED vars
  BY <1>2, <1>13 DEF vars, phoneVars, btcVars, clientVars, threadVars
<1> QED
  BY <1>3, <1>4, <1>5, <1>6, <1>7, <1>8, <1>9, <1>10, <1>11, <1>12, <1>13 DEF Next, Phone, BTC, UpdateThread

-----------------------------------------------------------------------------
LEMMA InvInit == Init => IInv
<1> SUFFICES ASSUME Init PROVE IInv
  OBVIOUS
<1>1. TypeOK
  BY TypeInit
<1>2. Link
  BY DEF Init, Link, Open
<1>3. InHand /\ Batched
  BY DEF Init, InHand, Batched, Emitting
<1>4. Reset
  BY DEF Init, Reset, Emitting
<1>5. Emitted /\ MetaOrder /\ Folded
  BY DEF Init, Emitted, MetaOrder, Folded, Open
<1> QED BY <1>1, <1>2, <1>3, <1>4, <1>5 DEF IInv

LEMMA InvKept == IInv /\ [Next]_vars => IInv'
BY TypeKept, LinkKept, InHandKept, BatchedKept, ResetKept, EmittedKept, MetaOrderKept, FoldedKept DEF IInv

(* In a quiet session everything told is folded in. *)
LEMMA FoldedIn ==
  ASSUME IInv, Quiet, ~lost
  PROVE  info = track /\ hint \in {"none", playback}
<1>1. btc = "up" /\ pc = "wait" /\ Unread = <<>>
  <2>1. hand = <<>> /\ updateQ = <<>>
    BY DEF Quiet, IInv, InHand
  <2> QED BY <2>1 DEF Quiet, Unread
<1>2. ASSUME NEW a \in Attrs \cup {"playback"} PROVE Known(a) /\ told[a] = Value(a)
  <2>1. a \in DOMAIN told /\ told[a] = Value(a)
    BY DEF Quiet, IInv, TypeOK
  <2>2. Silent(Unread, a) /\ Value(a) # "unset"
    BY <1>1, TellsNothing, PacketIs DEF IInv
  <2> QED BY <1>1, <2>1, <2>2 DEF IInv, Folded
<1>3. ASSUME NEW a \in Attrs PROVE a \in info <=> a \in track
  <2>1. a # "playback" /\ Known(a) /\ told[a] = Value(a)
    BY <1>2
  <2> QED BY <2>1 DEF Known, Value
<1>4. hint \in {"none", playback}
  BY <1>2 DEF Known, Value
<1>5. info \subseteq Attrs /\ track \subseteq Attrs
  BY DEF IInv, TypeOK
<1> QED BY <1>3, <1>4, <1>5

LEMMA InvHolds == IInv => Inv
<1> SUFFICES ASSUME IInv PROVE Inv
  OBVIOUS
<1>1. MetadataFirst
  BY DEF IInv, MetaOrder, MetadataFirst
<1>2. ASSUME Quiet, ~lost, ~crossed, notifSource # "wiped"
      PROVE  /\ currentMedia = track
             /\ track = {} => currentMediaState = "Stopped"
             /\ track # {} /\ hint # "none" => currentMediaState = playback
  <2>1. info = track /\ hint \in {"none", playback}
    BY <1>2, FoldedIn
  <2>2. ~dirty /\ pc = "wait" /\ btc = "up"
    BY <1>2 DEF Quiet, IInv, Batched
  <2>3. currentMedia = info /\ currentMediaState = state
    BY <1>2, <2>2 DEF IInv, Emitted, Open, Emitting
  <2>4. (info = {} => state = "Stopped") /\ (info # {} /\ hint # "none" => state = hint)
    BY <2>2 DEF IInv, Batched
  <2> QED BY <2>1, <2>3, <2>4
<1>3. btc = "down" /\ ~crossed => currentMedia = {} /\ currentMediaState = "Stopped"
  BY DEF IInv, Reset
<1> QED BY <1>1, <1>2, <1>3 DEF Inv, IInv, MediaMirrored

(* Of every state: the types; the metadata reaches Phone before the state  *)
(* it belongs to; and in a quiet session Phone shows the phone's track and *)
(* playback, outside one nothing, but for the exceptions MediaMirrored     *)
(* names.                                                                  *)
THEOREM MediaHolds == Spec => []Inv
<1>1. Init => IInv
  BY InvInit
<1>2. IInv /\ [Next]_vars => IInv'
  BY InvKept
<1>3. IInv => Inv
  BY InvHolds
<1> QED BY <1>1, <1>2, <1>3, PTL DEF Spec
=============================================================================
