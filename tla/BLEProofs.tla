--------------------------------- MODULE BLEProofs ---------------------------------
(***************************************************************************)
(* What holds of the GATT client for any services, characteristics and     *)
(* numbers of connections and failures; and of the Android pipeline for    *)
(* any lengths of its queues and numbers of messages and sessions.         *)
(*                                                                         *)
(* The client's invariant is about the queue between the stack and the BTC *)
(* task: a link may be lost and a new one made while events of the old one *)
(* wait.  The events come in the order of the connections, and con is of   *)
(* the connection of the event to be handled next (Orderly); so what is    *)
(* asked, registered and known is always of one connection, and an end is  *)
(* handled only when that connection is no longer the stack's link.        *)
(*                                                                         *)
(* The pipeline's is about what is on its way from the phone to the        *)
(* handlers: whatever was lost of it, the buffer holds one frame at most,  *)
(* and a handler leaves it empty (Framed); of whole messages, the rest of  *)
(* a message is the next thing behind its beginning, in whichever of the   *)
(* queues and buffers that is (Whole); and a session's call is in one      *)
(* place at a time (OneCall).                                              *)
(***************************************************************************)
EXTENDS BLEClient, Android, TLAPS, WellFoundedInduction

(* What is in a queue, in whatever order.                                  *)
Queued(q) == {q[i] : i \in 1 .. Len(q)}

Ends == {"close", "disconnect"}

(* The connections' events come in their order: a connect first, then what *)
(* the stack answers, then the end, and only then the next connect.        *)
Follows(d, e) ==
  IF d.type \in Ends THEN e.type = "connect" \/ (e.type \in Ends /\ e.addr = d.addr)
  ELSE e.type # "connect" /\ e.addr = d.addr

(* The event to handle next belongs to the connection a that con is of.    *)
Fits(e, a) ==
  /\ e.type = "connect" => a = 0
  /\ e.type \in Ends => a = 0 \/ a = e.addr
  /\ e.type \notin Ends \cup {"connect"} => a = e.addr

InOrder(q, s, a) ==
  /\ q # <<>> => Fits(q[1], a)
  /\ \A i \in 1 .. Len(q) : i + 1 \in 1 .. Len(q) => Follows(q[i], q[i + 1])
  /\ \A e \in Queued(q) : e.addr <= s
  /\ a <= s

(* The last event is the link's, if there is one; with none to handle con  *)
(* is of the link.                                                         *)
Running(q, s, a) ==
  /\ q = <<>> => a = s
  /\ q # <<>> => q[Len(q)].addr = s /\ q[Len(q)].type \notin Ends
  /\ \A e \in Queued(q) : e.type \in Ends => e.addr # s

(* Without a link the last event is its end, and that handled con is none. *)
Over(q, a) ==
  /\ q = <<>> => a = 0
  /\ q # <<>> => q[Len(q)].type \in Ends

Orderly ==
  /\ InOrder(events, session, conAddr)
  /\ IF link THEN Running(events, session, conAddr) /\ session > 0 ELSE Over(events, conAddr)

(* What is asked is asked of the link con is of, and a registration of a   *)
(* characteristic that notifies there.                                     *)
AskedNow ==
  /\ asked # {} => link /\ conAddr = session
  /\ \A c \in Chars : <<"reg", c>> \in asked => c \in chr \cap Notifying \cap remoteNotify

(* The registrations are con's, and no other's.                            *)
SlotsHeld == \A r \in slots : r[1] = conAddr /\ r[2] \in chr \cap Notifying \cap remoteNotify

(* Nothing is known without a connection; what is known of a               *)
(* characteristic is told with its service.                                *)
KnownWhole ==
  /\ conAddr = 0 => svc = {} /\ chr = {} /\ configured = {} /\ told = {} /\ twice = {}
  /\ remoteNotify \subseteq chr /\ chars = chr
  /\ \A c \in chr : ServiceOf[c] \in told /\ ServiceOf[c] \in svc

(* A service pulled without result has nothing while the link lasts.       *)
PulledAll ==
  /\ \A s \in twice : s \in told /\ CharsOf(s) \cap chr = {}
  /\ link /\ conAddr = session => \A c \in Chars : ServiceOf[c] \in told => c \in chr \/ remote[c] = "absent"

(* The virtual connection of the link is asked for once; it is open and    *)
(* the link encrypted where con, or an event to come, says so.             *)
StartedOnce == mtus = IF discovering THEN 1 ELSE 0
SaidSo      == link /\ conAddr = session => (opened => clcb) /\ (paired => encrypted)
OpensOnce   == <<"open">> \in asked => ~opened
Coming ==
  link => \A e \in Queued(events) : e.addr = session =>
    /\ e.type = "open" => <<"open">> \notin asked /\ conAddr = session
    /\ e.type = "open" /\ e.ok => clcb
    /\ e.type = "auth" => encrypted
AskedOnce == StartedOnce /\ SaidSo /\ OpensOnce /\ Coming

IInv == TypeOK /\ Orderly /\ AskedNow /\ SlotsHeld /\ KnownWhole /\ PulledAll /\ AskedOnce

-----------------------------------------------------------------------------
(* What a queue holds when it is empty, appended to and taken from.        *)
LEMMA QueuedEmpty == Queued(<<>>) = {}
  BY DEF Queued

LEMMA QueuedAppend ==
  ASSUME NEW S, NEW q \in Seq(S), NEW e \in S
  PROVE  /\ Append(q, e) \in Seq(S) /\ Append(q, e) # <<>> /\ Len(Append(q, e)) = Len(q) + 1 /\ Len(q) \in Nat
         /\ Append(q, e)[Len(Append(q, e))] = e
         /\ \A i \in 1 .. Len(q) : Append(q, e)[i] = q[i]
         /\ Queued(Append(q, e)) = Queued(q) \cup {e}
<1>1. /\ Append(q, e) \in Seq(S) /\ Append(q, e) # <<>> /\ Len(Append(q, e)) = Len(q) + 1 /\ Len(q) \in Nat
      /\ Append(q, e)[Len(Append(q, e))] = e
      /\ \A i \in 1 .. Len(q) : Append(q, e)[i] = q[i]
  OBVIOUS
<1>2. ASSUME NEW i \in 1 .. Len(Append(q, e))
      PROVE  Append(q, e)[i] \in Queued(q) \cup {e}
  <2>1. i \in 1 .. Len(q) \/ i = Len(Append(q, e))
    BY <1>1
  <2> QED BY <1>1, <2>1 DEF Queued
<1>3. ASSUME NEW x \in Queued(q) \cup {e}
      PROVE  x \in Queued(Append(q, e))
  <2>1. CASE x = e
    <3>1. Len(Append(q, e)) \in 1 .. Len(Append(q, e))
      BY <1>1
    <3> QED BY <1>1, <2>1, <3>1 DEF Queued
  <2>2. CASE x \in Queued(q)
    <3>1. PICK i \in 1 .. Len(q) : x = q[i]
      BY <2>2 DEF Queued
    <3>2. i \in 1 .. Len(Append(q, e))
      BY <1>1
    <3> QED BY <1>1, <3>1, <3>2 DEF Queued
  <2> QED BY <1>3, <2>1, <2>2
<1>4. Queued(Append(q, e)) \subseteq Queued(q) \cup {e}
  BY <1>2 DEF Queued
<1> QED BY <1>1, <1>3, <1>4

LEMMA QueuedTail ==
  ASSUME NEW S, NEW q \in Seq(S), q # <<>>
  PROVE  /\ Tail(q) \in Seq(S) /\ Len(Tail(q)) = Len(q) - 1 /\ Len(q) \in Nat /\ Len(q) >= 1
         /\ Head(q) = q[1] /\ Head(q) \in S /\ Head(q) \in Queued(q)
         /\ \A i \in 1 .. Len(Tail(q)) : Tail(q)[i] = q[i + 1]
         /\ Queued(Tail(q)) \subseteq Queued(q)
         /\ Tail(q) = <<>> <=> Len(q) = 1
<1>1. /\ Tail(q) \in Seq(S) /\ Len(Tail(q)) = Len(q) - 1 /\ Len(q) \in Nat /\ Len(q) >= 1
      /\ Head(q) = q[1] /\ Head(q) \in S
      /\ \A i \in 1 .. Len(Tail(q)) : Tail(q)[i] = q[i + 1]
  OBVIOUS
<1>2. Tail(q) = <<>> <=> Len(q) = 1
  <2>1. \A p \in Seq(S) : p = <<>> <=> Len(p) = 0
    OBVIOUS
  <2>2. Tail(q) = <<>> <=> Len(Tail(q)) = 0
    BY <1>1, <2>1
  <2>3. Len(Tail(q)) = 0 <=> Len(q) = 1
    BY <1>1
  <2> QED BY <2>2, <2>3
<1>3. 1 \in 1 .. Len(q) /\ Head(q) \in Queued(q)
  BY <1>1 DEF Queued
<1>4. ASSUME NEW i \in 1 .. Len(Tail(q))
      PROVE  Tail(q)[i] \in Queued(q)
  <2>1. i + 1 \in 1 .. Len(q)
    BY <1>1
  <2> QED BY <1>1, <2>1 DEF Queued
<1>5. Queued(Tail(q)) \subseteq Queued(q)
  BY <1>4 DEF Queued
<1> QED BY <1>1, <1>2, <1>3, <1>5

(* LinkLost and StackSearches join sequences of one event.                 *)
LEMMA JoinOne ==
  ASSUME NEW S, NEW q \in Seq(S), NEW e \in S
  PROVE  q \o <<e>> = Append(q, e) /\ q \o <<>> = q
  OBVIOUS

(* The fields of an event, and the events with given fields.               *)
LEMMA EventIs ==
  ASSUME NEW e \in Event
  PROVE  /\ e.addr \in Addr
         /\ e.type \in {"connect", "disconnect", "close", "auth", "open", "mtu", "cmpl", "res", "reg"}
         /\ e.type \in {"open", "mtu", "cmpl", "reg"} => e.ok \in BOOLEAN
         /\ e.type = "res" => e.svc \in Services
         /\ e.type = "reg" => e.chr \in Chars
  BY DEF Event

LEMMA EventMade ==
  ASSUME NEW a \in Addr
  PROVE  /\ \A t \in {"connect", "disconnect", "close", "auth"} : [type |-> t, addr |-> a] \in Event
         /\ \A t \in {"open", "mtu", "cmpl"}, ok \in BOOLEAN : [type |-> t, ok |-> ok, addr |-> a] \in Event
         /\ \A s \in Services : [type |-> "res", svc |-> s, addr |-> a] \in Event
         /\ \A c \in Chars, ok \in BOOLEAN : [type |-> "reg", chr |-> c, ok |-> ok, addr |-> a] \in Event
  BY DEF Event

(* The requests are told apart by their first element.                     *)
LEMMA RequestsApart ==
  /\ \A X : <<"open">> \notin {"search"} \X X /\ <<"open">> \notin {"reg"} \X X
  /\ <<"open">> # <<"mtu">> /\ <<"open">> # <<"encrypt">>
  /\ \A c : <<"reg", c>> \notin {<<"open">>, <<"encrypt">>, <<"mtu">>}
  /\ \A c, X : <<"reg", c>> \notin {"search"} \X X
  /\ \A c, X : <<"reg", c>> \in {"reg"} \X X <=> c \in X
  OBVIOUS

LEMMA RequestsMade ==
  /\ {<<"open">>, <<"encrypt">>, <<"mtu">>} \subseteq Request
  /\ {"search"} \X Services \subseteq Request
  /\ \A X \in SUBSET Chars : {"reg"} \X X \subseteq Request
  BY DEF Request

-----------------------------------------------------------------------------
(* The order is kept when the link's next event is queued, ...             *)
LEMMA OrderAdds ==
  ASSUME NEW q \in Seq(Event), NEW s \in Nat, NEW a \in Nat, InOrder(q, s, a), Running(q, s, a),
         NEW e \in Event, e.addr = s, e.type # "connect"
  PROVE  /\ InOrder(Append(q, e), s, a)
         /\ e.type \notin Ends => Running(Append(q, e), s, a)
         /\ e.type \in Ends => Over(Append(q, e), a)
<1> DEFINE p == Append(q, e)
<1>1. /\ p \in Seq(Event) /\ p # <<>> /\ Len(p) = Len(q) + 1 /\ Len(q) \in Nat /\ p[Len(p)] = e
      /\ \A i \in 1 .. Len(q) : p[i] = q[i]
      /\ Queued(p) = Queued(q) \cup {e}
  BY QueuedAppend
<1> HIDE DEF p
<1>2. Fits(p[1], a)
  <2>1. CASE q = <<>>
    BY <1>1, <2>1 DEF Fits, Running
  <2>2. CASE q # <<>>
    <3>1. 1 \in 1 .. Len(q)
      BY <1>1, <2>2
    <3> QED BY <1>1, <2>2, <3>1 DEF InOrder
  <2> QED BY <2>1, <2>2
<1>3. ASSUME NEW i \in 1 .. Len(p), i + 1 \in 1 .. Len(p)
      PROVE  Follows(p[i], p[i + 1])
  <2>1. i \in 1 .. Len(q) /\ p[i] = q[i]
    BY <1>1, <1>3
  <2>2. CASE i + 1 \in 1 .. Len(q)
    BY <1>1, <2>1, <2>2 DEF InOrder
  <2>3. CASE i = Len(q)
    <3>1. p[i + 1] = e /\ q # <<>>
      BY <1>1, <2>1, <2>3
    <3>2. q[i].addr = s /\ q[i].type \notin Ends
      BY <2>3, <3>1 DEF Running
    <3> QED BY <2>1, <3>1, <3>2 DEF Follows
  <2> QED BY <1>1, <1>3, <2>1, <2>2, <2>3
<1>4. \A x \in Queued(p) : x.addr <= s
  BY <1>1 DEF InOrder
<1>5. InOrder(p, s, a)
  BY <1>2, <1>3, <1>4 DEF InOrder
<1>6. ASSUME e.type \notin Ends PROVE Running(p, s, a)
  BY <1>1, <1>6 DEF Running
<1>7. ASSUME e.type \in Ends PROVE Over(p, a)
  BY <1>1, <1>7 DEF Over
<1> QED BY <1>5, <1>6, <1>7 DEF p

(* ... when a second end follows the first, ...                            *)
LEMMA OrderEnds ==
  ASSUME NEW q \in Seq(Event), NEW s \in Nat, NEW a \in Nat, InOrder(q, s, a),
         q # <<>>, q[Len(q)].type \in Ends, q[Len(q)].addr = s,
         NEW e \in Event, e.addr = s, e.type \in Ends
  PROVE  InOrder(Append(q, e), s, a) /\ Over(Append(q, e), a)
<1> DEFINE p == Append(q, e)
<1>1. /\ p \in Seq(Event) /\ p # <<>> /\ Len(p) = Len(q) + 1 /\ Len(q) \in Nat /\ p[Len(p)] = e
      /\ \A i \in 1 .. Len(q) : p[i] = q[i]
      /\ Queued(p) = Queued(q) \cup {e}
  BY QueuedAppend
<1> HIDE DEF p
<1>2. 1 \in 1 .. Len(q)
  BY <1>1
<1>3. ASSUME NEW i \in 1 .. Len(p), i + 1 \in 1 .. Len(p)
      PROVE  Follows(p[i], p[i + 1])
  <2>1. i \in 1 .. Len(q) /\ p[i] = q[i]
    BY <1>1, <1>3
  <2>2. CASE i + 1 \in 1 .. Len(q)
    BY <1>1, <2>1, <2>2 DEF InOrder
  <2>3. CASE i = Len(q)
    <3>1. p[i + 1] = e
      BY <1>1, <2>3
    <3> QED BY <2>1, <2>3, <3>1 DEF Follows
  <2> QED BY <1>1, <1>3, <2>1, <2>2, <2>3
<1>4. \A x \in Queued(p) : x.addr <= s
  BY <1>1 DEF InOrder
<1>5. InOrder(p, s, a)
  BY <1>1, <1>2, <1>3, <1>4 DEF InOrder
<1>6. Over(p, a)
  BY <1>1 DEF Over
<1> QED BY <1>5, <1>6 DEF p

(* ... when the next link is made, ...                                     *)
LEMMA OrderConnects ==
  ASSUME NEW q \in Seq(Event), NEW s \in Nat, NEW a \in Nat, InOrder(q, s, a), Over(q, a),
         NEW e \in Event, NEW n \in Nat, n = s + 1, e.addr = n, e.type = "connect"
  PROVE  InOrder(Append(q, e), n, a) /\ Running(Append(q, e), n, a)
<1> DEFINE p == Append(q, e)
<1>1. /\ p \in Seq(Event) /\ p # <<>> /\ Len(p) = Len(q) + 1 /\ Len(q) \in Nat /\ p[Len(p)] = e
      /\ \A i \in 1 .. Len(q) : p[i] = q[i]
      /\ Queued(p) = Queued(q) \cup {e}
  BY QueuedAppend
<1> HIDE DEF p
<1>0. "connect" \notin Ends
  BY DEF Ends
<1>2. Fits(p[1], a)
  <2>1. CASE q = <<>>
    BY <1>0, <1>1, <2>1 DEF Fits, Over
  <2>2. CASE q # <<>>
    <3>1. 1 \in 1 .. Len(q)
      BY <1>1, <2>2
    <3> QED BY <1>1, <2>2, <3>1 DEF InOrder
  <2> QED BY <2>1, <2>2
<1>3. ASSUME NEW i \in 1 .. Len(p), i + 1 \in 1 .. Len(p)
      PROVE  Follows(p[i], p[i + 1])
  <2>1. i \in 1 .. Len(q) /\ p[i] = q[i]
    BY <1>1, <1>3
  <2>2. CASE i + 1 \in 1 .. Len(q)
    BY <1>1, <2>1, <2>2 DEF InOrder
  <2>3. CASE i = Len(q)
    <3>1. p[i + 1] = e /\ q # <<>>
      BY <1>1, <2>1, <2>3
    <3>2. q[i].type \in Ends
      BY <2>3, <3>1 DEF Over
    <3> QED BY <2>1, <3>1, <3>2 DEF Follows
  <2> QED BY <1>1, <1>3, <2>1, <2>2, <2>3
<1>4. \A x \in Queued(q) : x.addr <= s /\ x \in Event
  BY DEF InOrder, Queued
<1>5. \A x \in Queued(q) : x.addr \in Nat
  BY <1>4, EventIs DEF Addr
<1>6. \A x \in Queued(p) : x.addr <= n
  BY <1>1, <1>4, <1>5
<1>7. InOrder(p, n, a)
  BY <1>1, <1>2, <1>3, <1>6 DEF InOrder
<1>8. Running(p, n, a)
  BY <1>0, <1>1, <1>4, <1>5 DEF Running
<1> QED BY <1>7, <1>8 DEF p

(* ... and when the first event is handled, con following it.              *)
LEMMA OrderHandles ==
  ASSUME NEW q \in Seq(Event), NEW s \in Nat, NEW a \in Nat, InOrder(q, s, a), q # <<>>,
         NEW b \in Nat, Head(q).type = "connect" => b = Head(q).addr, Head(q).type \in Ends => b = 0,
         Head(q).type \notin Ends \cup {"connect"} => b = a
  PROVE  /\ InOrder(Tail(q), s, b)
         /\ Running(q, s, a) => Running(Tail(q), s, b)
         /\ Over(q, a) => Over(Tail(q), b)
<1> DEFINE p == Tail(q)
           e == q[1]
<1>1. /\ p \in Seq(Event) /\ Len(p) = Len(q) - 1 /\ Len(q) \in Nat /\ Len(q) >= 1
      /\ Head(q) = e /\ e \in Event /\ e \in Queued(q)
      /\ \A i \in 1 .. Len(p) : p[i] = q[i + 1]
      /\ Queued(p) \subseteq Queued(q)
      /\ p = <<>> <=> Len(q) = 1
  BY QueuedTail
<1>2. e.addr \in Nat /\ e.addr <= s
  BY <1>1, EventIs DEF InOrder, Addr
<1>3. Fits(e, a)
  BY DEF InOrder
<1>4. /\ e.type = "connect" => b = e.addr
      /\ e.type \in Ends => b = 0
      /\ e.type \notin Ends \cup {"connect"} => b = a /\ b = e.addr
  BY <1>1, <1>3 DEF Fits
<1> HIDE DEF p, e
<1>5. ASSUME p # <<>>
      PROVE  Fits(p[1], b)
  <2>1. 1 \in 1 .. Len(p) /\ 1 \in 1 .. Len(q) /\ 1 + 1 \in 1 .. Len(q) /\ 1 + 1 = 2
    BY <1>1, <1>5
  <2>2. Follows(q[1], q[1 + 1])
    BY <2>1 DEF InOrder
  <2>3. Follows(e, p[1])
    BY <1>1, <2>1, <2>2 DEF e
  <2>4. "connect" \notin Ends
    BY DEF Ends
  <2> QED BY <1>4, <2>3, <2>4 DEF Follows, Fits
<1>6. ASSUME NEW i \in 1 .. Len(p), i + 1 \in 1 .. Len(p)
      PROVE  Follows(p[i], p[i + 1])
  <2> DEFINE j == i + 1
  <2>1. j \in 1 .. Len(q) /\ j + 1 \in 1 .. Len(q)
    BY <1>1, <1>6
  <2>2. Follows(q[j], q[j + 1])
    BY <2>1 DEF InOrder
  <2> QED BY <1>1, <1>6, <2>2
<1>7. \A x \in Queued(p) : x.addr <= s
  BY <1>1 DEF InOrder
<1>8. b <= s
  BY <1>2, <1>4 DEF InOrder
<1>9. InOrder(p, s, b)
  BY <1>5, <1>6, <1>7, <1>8 DEF InOrder
<1>10. p # <<>> => p[Len(p)] = q[Len(q)]
  <2> SUFFICES ASSUME p # <<>> PROVE p[Len(p)] = q[Len(q)]
    OBVIOUS
  <2>1. Len(p) \in 1 .. Len(p) /\ Len(p) + 1 = Len(q)
    BY <1>1
  <2> QED BY <1>1, <2>1
<1>11. p = <<>> => q[Len(q)] = e
  BY <1>1 DEF e
<1>12. ASSUME Running(q, s, a) PROVE Running(p, s, b)
  BY <1>1, <1>4, <1>10, <1>11, <1>12 DEF Running
<1>13. ASSUME Over(q, a) PROVE Over(p, b)
  BY <1>1, <1>4, <1>10, <1>11, <1>13 DEF Over
<1> QED BY <1>9, <1>12, <1>13 DEF p

-----------------------------------------------------------------------------
(* What the steps do, in these terms.                                      *)
LEMMA AddrIs ==
  ASSUME TypeOK
  PROVE  /\ session \in Nat /\ conAddr \in Nat /\ events \in Seq(Event)
         /\ session > 0 => session \in Addr
         /\ \A a \in Addr : a \in 0 .. MaxSessions /\ a \in Nat /\ a > 0
<1>1. MaxSessions \in Nat
  BY BLEClientAssumption
<1>2. session \in 0 .. MaxSessions /\ conAddr \in 0 .. MaxSessions /\ events \in Seq(Event)
  BY DEF TypeOK
<1> QED BY <1>1, <1>2 DEF Addr

(* What is asked is asked of the link.                                     *)
LEMMA AskAdds ==
  ASSUME NEW a, NEW R, Ask(a, R)
  PROVE  asked' \subseteq asked \cup R /\ (asked' # asked => link /\ a = session)
  BY DEF Ask

(* An answer of the stack is queued behind the rest.                       *)
LEMMA Queues ==
  ASSUME TypeOK, Orderly, link, NEW e \in Event, e.addr = session, e.type \notin Ends \cup {"connect"},
         events' = Append(events, e), UNCHANGED <<link, session, conAddr>>
  PROVE  Orderly' /\ events' \in Seq(Event) /\ Queued(events') = Queued(events) \cup {e}
<1>1. InOrder(events, session, conAddr) /\ Running(events, session, conAddr) /\ session > 0
  BY DEF Orderly
<1>2. InOrder(Append(events, e), session, conAddr) /\ Running(Append(events, e), session, conAddr)
  BY <1>1, AddrIs, OrderAdds
<1>3. events' \in Seq(Event) /\ Queued(events') = Queued(events) \cup {e}
  BY AddrIs, QueuedAppend
<1>4. link' /\ session' = session /\ conAddr' = conAddr
  OBVIOUS
<1> QED BY <1>1, <1>2, <1>3, <1>4 DEF Orderly

(* Every handler takes the first event, which is of con's connection, and  *)
(* an end only of a link that is gone.                                     *)
LEMMA HandleDoes ==
  ASSUME TypeOK, Orderly, NEW t, Handle(t)
  PROVE  /\ events # <<>> /\ Head(events) \in Event /\ Head(events) \in Queued(events) /\ Head(events).type = t
         /\ events' = Tail(events) /\ events' \in Seq(Event) /\ Queued(events') \subseteq Queued(events)
         /\ Fits(Head(events), conAddr)
         /\ Head(events).addr \in Addr /\ Head(events).addr <= session
         /\ (t \in Ends /\ link => Head(events).addr # session)
         /\ UNCHANGED <<link, session, clcb, encrypted, offered, remote, fails>>
<1>1. events # <<>> /\ Head(events).type = t /\ events' = Tail(events)
      /\ UNCHANGED <<link, session, clcb, encrypted, offered, remote, fails>>
  BY DEF Handle
<1>2. /\ Head(events) \in Event /\ Head(events) \in Queued(events) /\ Head(events) = events[1]
      /\ events' \in Seq(Event) /\ Queued(events') \subseteq Queued(events)
  BY <1>1, AddrIs, QueuedTail
<1>3. Head(events).addr \in Addr
  BY <1>2, EventIs
<1>4. Fits(Head(events), conAddr) /\ Head(events).addr <= session
  BY <1>1, <1>2 DEF Orderly, InOrder
<1>5. t \in Ends /\ link => Head(events).addr # session
  BY <1>1, <1>2 DEF Orderly, Running
<1> QED BY <1>1, <1>2, <1>3, <1>4, <1>5

(* A handler that sets con.addr as its event says keeps the order.         *)
LEMMA HandleOrder ==
  ASSUME TypeOK, Orderly, NEW t, Handle(t), t = "connect" => conAddr' = Head(events).addr, t \in Ends => conAddr' = 0,
         t \notin Ends \cup {"connect"} => conAddr' = conAddr
  PROVE  Orderly'
<1>1. /\ events # <<>> /\ Head(events).type = t /\ events' = Tail(events) /\ UNCHANGED <<link, session>>
      /\ Head(events).addr \in Addr
  BY HandleDoes
<1>2. conAddr' \in Nat
  BY <1>1, AddrIs
<1>3. /\ InOrder(events', session, conAddr')
      /\ Running(events, session, conAddr) => Running(events', session, conAddr')
      /\ Over(events, conAddr) => Over(events', conAddr')
  <2> DEFINE b == conAddr'
  <2>1. /\ Head(events).type = "connect" => b = Head(events).addr
        /\ Head(events).type \in Ends => b = 0
        /\ Head(events).type \notin Ends \cup {"connect"} => b = conAddr
        /\ b \in Nat
    BY <1>1, <1>2
  <2>2. InOrder(events, session, conAddr) /\ session \in Nat /\ conAddr \in Nat /\ events \in Seq(Event)
    BY AddrIs DEF Orderly
  <2> HIDE DEF b
  <2>3. /\ InOrder(Tail(events), session, b)
        /\ Running(events, session, conAddr) => Running(Tail(events), session, b)
        /\ Over(events, conAddr) => Over(Tail(events), b)
    BY <1>1, <2>1, <2>2, OrderHandles
  <2> QED BY <1>1, <2>3 DEF b
<1> QED BY <1>1, <1>3 DEF Orderly

(* con.addr is the event's already when its callback sets it.              *)
LEMMA OpensSame ==
  ASSUME TypeOK, Orderly, OnOpen
  PROVE  conAddr' = conAddr
<1>1. Handle("open") /\ conAddr' = Head(events).addr
  BY DEF OnOpen
<1>2. Fits(Head(events), conAddr) /\ Head(events).type = "open"
  BY <1>1, HandleDoes
<1> QED BY <1>1, <1>2 DEF Fits, Ends

-----------------------------------------------------------------------------
(* The stack's answers: none is new but what was asked, and an answer to   *)
(* the opening says what became of the virtual connection.                 *)
Answered ==
  /\ link /\ UNCHANGED <<link, session, offered, remote>> /\ UNCHANGED clientVars
  /\ Orderly' /\ events' \in Seq(Event)
  /\ asked' \subseteq asked
  /\ slots' = slots \/ \E c \in Chars : <<"reg", c>> \in asked /\ slots' = slots \cup {<<session, c>>}
  /\ fails' \in 0 .. MaxFails /\ clcb' \in BOOLEAN /\ encrypted' \in BOOLEAN /\ (encrypted => encrypted')
  /\ \A e \in Queued(events') : e \in Queued(events) \/ (e.type # "open" /\ (e.type = "auth" => encrypted'))
                                \/ (e.type = "open" /\ (e.ok => clcb') /\ <<"open">> \in asked)
  /\ (clcb' = clcb \/ <<"open">> \in asked)
  /\ (<<"open">> \in asked' => clcb' = clcb /\ \A e \in Queued(events') : e \in Queued(events) \/ e.type # "open")

(* The failures stay within their bound.                                   *)
LEMMA CountedIs ==
  ASSUME TypeOK, NEW ok \in BOOLEAN, Result(ok), Counted(ok)
  PROVE  fails' \in 0 .. MaxFails
<1>1. MaxFails \in Nat /\ fails \in 0 .. MaxFails
  BY BLEClientAssumption DEF TypeOK
<1>2. CASE ok
  BY <1>1, <1>2 DEF Counted
<1>3. CASE ~ok
  <2>1. fails < MaxFails /\ fails' = fails + 1
    BY <1>3 DEF Counted, Result
  <2> QED BY <1>1, <2>1
<1> QED BY <1>2, <1>3

(* Each answer of the stack is of that kind.                               *)
LEMMA OpensAnswers ==
  ASSUME TypeOK, Orderly, AskedNow, NEW ok \in BOOLEAN, StackOpens(ok)
  PROVE  Answered
<1> DEFINE e == [type |-> "open", ok |-> ok, addr |-> session]
<1>1. link /\ session \in Addr
  BY AddrIs DEF StackOpens, AskedNow, Orderly
<1>2. e \in Event /\ e.addr = session /\ e.type = "open" /\ e.ok = ok /\ e.type \notin Ends \cup {"connect"}
  BY <1>1, EventMade DEF Ends
<1>3. events' = Append(events, e) /\ UNCHANGED <<link, session, encrypted, offered, remote, slots>> /\ UNCHANGED clientVars
      /\ asked' = asked \ {<<"open">>} /\ clcb' = ok /\ <<"open">> \in asked
  BY DEF StackOpens
<1>4. fails' \in 0 .. MaxFails
  BY CountedIs DEF StackOpens
<1> HIDE DEF e
<1>5. Orderly' /\ events' \in Seq(Event) /\ Queued(events') = Queued(events) \cup {e}
  BY <1>1, <1>2, <1>3, Queues DEF clientVars, conVars
<1> QED BY <1>1, <1>2, <1>3, <1>4, <1>5 DEF Answered, TypeOK

LEMMA EncryptsAnswers ==
  ASSUME TypeOK, Orderly, AskedNow, StackEncrypts \/ StackEncrypted
  PROVE  Answered
<1> DEFINE e == [type |-> "auth", addr |-> session]
<1>1. link /\ session \in Addr
  BY AddrIs DEF StackEncrypts, StackEncrypted, AskedNow, Orderly
<1>2. e \in Event /\ e.addr = session /\ e.type = "auth" /\ e.type \notin Ends \cup {"connect"}
  BY <1>1, EventMade DEF Ends
<1>3. events' \in {events, Append(events, e)} /\ UNCHANGED <<link, session, clcb, offered, remote, slots, fails>> /\ UNCHANGED clientVars
      /\ asked' = asked \ {<<"encrypt">>} /\ encrypted' = TRUE
  <2>1. CASE StackEncrypts
    BY <2>1 DEF StackEncrypts
  <2>2. CASE StackEncrypted
    BY <2>2 DEF StackEncrypted, TypeOK
  <2> QED BY <2>1, <2>2
<1> HIDE DEF e
<1>4. UNCHANGED conAddr
  BY <1>3 DEF clientVars, conVars
<1>5. CASE events' = Append(events, e)
  <2>1. Orderly' /\ events' \in Seq(Event) /\ Queued(events') = Queued(events) \cup {e}
    BY <1>1, <1>2, <1>3, <1>4, <1>5, Queues
  <2> QED BY <1>1, <1>2, <1>3, <2>1 DEF Answered, TypeOK
<1>6. CASE events' = events
  <2>1. Orderly'
    BY <1>3, <1>4, <1>6 DEF Orderly
  <2> QED BY <1>1, <1>3, <1>6, <2>1 DEF Answered, TypeOK
<1> QED BY <1>3, <1>5, <1>6

LEMMA MtuAnswers ==
  ASSUME TypeOK, Orderly, AskedNow, NEW ok \in BOOLEAN, StackExchangesMtu(ok)
  PROVE  Answered
<1> DEFINE e == [type |-> "mtu", ok |-> ok, addr |-> session]
<1>1. link /\ session \in Addr
  BY AddrIs DEF StackExchangesMtu, AskedNow, Orderly
<1>2. e \in Event /\ e.addr = session /\ e.type = "mtu" /\ e.type \notin Ends \cup {"connect"}
  BY <1>1, EventMade DEF Ends
<1>3. events' = Append(events, e) /\ UNCHANGED <<link, session, clcb, encrypted, offered, remote, slots>> /\ UNCHANGED clientVars
      /\ asked' = asked \ {<<"mtu">>}
  BY DEF StackExchangesMtu
<1>4. fails' \in 0 .. MaxFails
  BY CountedIs DEF StackExchangesMtu
<1> HIDE DEF e
<1>5. Orderly' /\ events' \in Seq(Event) /\ Queued(events') = Queued(events) \cup {e}
  BY <1>1, <1>2, <1>3, Queues DEF clientVars, conVars
<1> QED BY <1>1, <1>2, <1>3, <1>4, <1>5 DEF Answered, TypeOK

LEMMA RegistersAnswers ==
  ASSUME TypeOK, Orderly, AskedNow, NEW c \in Chars, NEW ok \in BOOLEAN, StackRegisters(c, ok)
  PROVE  Answered
<1> DEFINE e == [type |-> "reg", chr |-> c, ok |-> ok, addr |-> session]
<1>1. link /\ session \in Addr
  BY AddrIs DEF StackRegisters, AskedNow, Orderly
<1>2. e \in Event /\ e.addr = session /\ e.type = "reg" /\ e.type \notin Ends \cup {"connect"}
  BY <1>1, EventMade DEF Ends
<1>3. events' = Append(events, e) /\ UNCHANGED <<link, session, clcb, encrypted, offered, remote>> /\ UNCHANGED clientVars
      /\ asked' = asked \ {<<"reg", c>>} /\ <<"reg", c>> \in asked
      /\ (slots' = slots \/ slots' = slots \cup {<<session, c>>})
  BY DEF StackRegisters
<1>4. fails' \in 0 .. MaxFails
  BY CountedIs DEF StackRegisters
<1> HIDE DEF e
<1>5. Orderly' /\ events' \in Seq(Event) /\ Queued(events') = Queued(events) \cup {e}
  BY <1>1, <1>2, <1>3, Queues DEF clientVars, conVars
<1> QED BY <1>1, <1>2, <1>3, <1>4, <1>5 DEF Answered, TypeOK

LEMMA SearchesAnswers ==
  ASSUME TypeOK, Orderly, AskedNow, NEW s \in Services, NEW ok \in BOOLEAN, StackSearches(s, ok)
  PROVE  Answered
<1> DEFINE r == [type |-> "res", svc |-> s, addr |-> session]
           e == [type |-> "cmpl", ok |-> ok, addr |-> session]
<1>1. link /\ session \in Addr
  BY AddrIs DEF StackSearches, AskedNow, Orderly
<1>2. /\ e \in Event /\ e.addr = session /\ e.type = "cmpl" /\ e.type \notin Ends \cup {"connect"}
      /\ r \in Event /\ r.addr = session /\ r.type = "res" /\ r.type \notin Ends \cup {"connect"}
  BY <1>1, EventMade DEF Ends
<1>3. UNCHANGED <<link, session, clcb, encrypted, offered, remote, slots>> /\ UNCHANGED clientVars /\ asked' = asked \ {<<"search", s>>}
  BY DEF StackSearches
<1>4. fails' \in 0 .. MaxFails
  BY CountedIs DEF StackSearches
<1>5. events' = (events \o <<r>>) \o <<e>> \/ events' = (events \o <<>>) \o <<e>>
  <2>1. CASE s \in offered
    BY <2>1 DEF StackSearches
  <2>2. CASE s \notin offered
    BY <2>2 DEF StackSearches
  <2> QED BY <2>1, <2>2
<1> HIDE DEF e, r
<1>6. events \in Seq(Event) /\ session \in Nat /\ conAddr \in Nat /\ UNCHANGED conAddr
  BY <1>3, AddrIs DEF clientVars, conVars
<1>7. events \o <<r>> = Append(events, r) /\ events \o <<>> = events /\ events \o <<e>> = Append(events, e)
  BY <1>2, <1>6, JoinOne
<1>8. Append(events, r) \in Seq(Event) /\ Queued(Append(events, r)) = Queued(events) \cup {r}
  BY <1>2, <1>6, QueuedAppend
<1>9. Append(events, r) \o <<e>> = Append(Append(events, r), e)
  BY <1>2, <1>8, JoinOne
<1>10. events' = Append(Append(events, r), e) \/ events' = Append(events, e)
  BY <1>5, <1>7, <1>9
<1>11. /\ Orderly' /\ events' \in Seq(Event)
       /\ Queued(events') \subseteq Queued(events) \cup {r, e}
  <2>1. InOrder(events, session, conAddr) /\ Running(events, session, conAddr) /\ session > 0
    BY <1>1 DEF Orderly
  <2>2. CASE events' = Append(events, e)
    BY <1>1, <1>2, <1>3, <1>6, <2>2, Queues
  <2>3. CASE events' = Append(Append(events, r), e)
    <3> DEFINE p == Append(events, r)
    <3>1. /\ InOrder(p, session, conAddr) /\ Running(p, session, conAddr)
          /\ p \in Seq(Event) /\ Queued(p) = Queued(events) \cup {r} /\ events' = Append(p, e)
      BY <1>2, <1>6, <1>8, <2>1, <2>3, OrderAdds
    <3> HIDE DEF p
    <3>2. InOrder(Append(p, e), session, conAddr) /\ Running(Append(p, e), session, conAddr)
      BY <1>2, <1>6, <3>1, OrderAdds
    <3>3. Append(p, e) \in Seq(Event) /\ Queued(Append(p, e)) = Queued(p) \cup {e}
      BY <1>2, <3>1, QueuedAppend
    <3>4. Orderly'
      BY <1>1, <1>3, <1>6, <2>1, <3>1, <3>2 DEF Orderly
    <3> QED BY <3>1, <3>3, <3>4
  <2> QED BY <1>10, <2>2, <2>3
<1> QED BY <1>1, <1>2, <1>3, <1>4, <1>11 DEF Answered, TypeOK

LEMMA StackDoes ==
  ASSUME TypeOK, Orderly, AskedNow, StackAnswers
  PROVE  Answered
BY OpensAnswers, EncryptsAnswers, MtuAnswers, RegistersAnswers, SearchesAnswers DEF StackAnswers

(* The phone connects ...                                                  *)
LEMMA ConnectsDoes ==
  ASSUME TypeOK, Orderly, PhoneConnects
  PROVE  /\ ~link /\ link' = TRUE /\ session' = session + 1 /\ session' \in 1 .. MaxSessions /\ asked' = {}
         /\ UNCHANGED <<clcb, encrypted, slots, fails>> /\ UNCHANGED clientVars
         /\ offered' \subseteq Services /\ remote' \in [Chars -> {"absent", "plain", "notify"}]
         /\ conAddr < session' /\ session \in Nat
         /\ Orderly' /\ events' \in Seq(Event)
         /\ \A e \in Queued(events') : e.type = "connect" \/ e.addr # session'
<1> DEFINE n == session + 1
           e == [type |-> "connect", addr |-> n]
<1>1. ~link /\ link' = TRUE /\ session' = n /\ session < MaxSessions /\ asked' = {}
      /\ UNCHANGED <<clcb, encrypted, slots, fails>> /\ UNCHANGED clientVars
      /\ offered' \subseteq Services /\ remote' \in [Chars -> {"absent", "plain", "notify"}]
      /\ events' = Append(events, e)
  BY DEF PhoneConnects
<1>2. session \in Nat /\ conAddr \in Nat /\ events \in Seq(Event) /\ MaxSessions \in Nat /\ conAddr' = conAddr
  BY <1>1, AddrIs, BLEClientAssumption DEF clientVars, conVars
<1>3. n \in 1 .. MaxSessions /\ n \in Nat /\ n \in Addr /\ n = session + 1 /\ n > 0
  BY <1>1, <1>2 DEF Addr
<1>4. e \in Event /\ e.addr = n /\ e.type = "connect"
  BY <1>3, EventMade
<1> HIDE DEF e
<1>5. InOrder(events, session, conAddr) /\ Over(events, conAddr)
  BY <1>1 DEF Orderly
<1>6. InOrder(Append(events, e), n, conAddr) /\ Running(Append(events, e), n, conAddr)
  <2> HIDE DEF n
  <2> QED BY <1>2, <1>3, <1>4, <1>5, OrderConnects
<1>7. events' \in Seq(Event) /\ Queued(events') = Queued(events) \cup {e}
  BY <1>1, <1>2, <1>4, QueuedAppend
<1>8. conAddr <= session /\ \A x \in Queued(events) : x.addr <= session
  BY <1>5 DEF InOrder
<1>9. \A x \in Queued(events) : x.addr \in Nat
  <2>1. \A x \in Queued(events) : x \in Event
    BY <1>2 DEF Queued
  <2> QED BY <2>1, EventIs, AddrIs
<1>10. \A x \in Queued(events') : x.type = "connect" \/ x.addr # session'
  BY <1>1, <1>2, <1>4, <1>7, <1>8, <1>9
<1>11. Orderly'
  BY <1>1, <1>2, <1>3, <1>6 DEF Orderly
<1> QED BY <1>1, <1>2, <1>3, <1>7, <1>8, <1>10, <1>11

(* ... and is lost.                                                        *)
LEMMA LostDoes ==
  ASSUME TypeOK, Orderly, LinkLost
  PROVE  /\ link' = FALSE /\ asked' = {} /\ slots' \subseteq slots /\ clcb' = FALSE /\ encrypted' = FALSE
         /\ UNCHANGED <<session, offered, remote, fails>> /\ UNCHANGED clientVars
         /\ Orderly' /\ events' \in Seq(Event)
<1> DEFINE d == [type |-> "disconnect", addr |-> session]
           c == [type |-> "close", addr |-> session]
<1>1. link /\ link' = FALSE /\ asked' = {} /\ slots' \subseteq slots /\ clcb' = FALSE /\ encrypted' = FALSE
      /\ UNCHANGED <<session, offered, remote, fails>> /\ UNCHANGED clientVars
  BY DEF LinkLost
<1>2. events' = events \o <<d>> \/ events' = (events \o <<c>>) \o <<d>> \/ events' = (events \o <<d>>) \o <<c>>
  BY DEF LinkLost
<1>3. session \in Nat /\ conAddr \in Nat /\ events \in Seq(Event) /\ session \in Addr /\ conAddr' = conAddr
  BY <1>1, AddrIs DEF clientVars, conVars, Orderly
<1>4. /\ d \in Event /\ d.addr = session /\ d.type \in Ends /\ d.type # "connect"
      /\ c \in Event /\ c.addr = session /\ c.type \in Ends /\ c.type # "connect"
  BY <1>3, EventMade DEF Ends
<1> HIDE DEF c, d
<1>5. InOrder(events, session, conAddr) /\ Running(events, session, conAddr)
  BY <1>1 DEF Orderly
<1>6. ASSUME NEW x \in {c, d}
      PROVE  /\ events \o <<x>> = Append(events, x) /\ Append(events, x) \in Seq(Event)
             /\ InOrder(Append(events, x), session, conAddr) /\ Over(Append(events, x), conAddr)
  <2>1. x \in Event /\ x.addr = session /\ x.type \in Ends /\ x.type # "connect"
    BY <1>4
  <2>2. events \o <<x>> = Append(events, x) /\ Append(events, x) \in Seq(Event)
    BY <1>3, <2>1, JoinOne, QueuedAppend
  <2>3. InOrder(Append(events, x), session, conAddr) /\ Over(Append(events, x), conAddr)
    BY <1>3, <1>5, <2>1, OrderAdds
  <2> QED BY <2>2, <2>3
<1>7. ASSUME NEW x \in {c, d}, NEW y \in {c, d}
      PROVE  /\ (events \o <<x>>) \o <<y>> \in Seq(Event)
             /\ InOrder((events \o <<x>>) \o <<y>>, session, conAddr) /\ Over((events \o <<x>>) \o <<y>>, conAddr)
  <2> DEFINE p == Append(events, x)
  <2>1. x \in Event /\ x.addr = session /\ x.type \in Ends /\ y \in Event /\ y.addr = session /\ y.type \in Ends
    BY <1>4
  <2>2. events \o <<x>> = p /\ p \in Seq(Event) /\ InOrder(p, session, conAddr)
    BY <1>6
  <2>3. p # <<>> /\ p[Len(p)] = x
    BY <1>3, <2>1, QueuedAppend
  <2> HIDE DEF p
  <2>4. p \o <<y>> = Append(p, y) /\ Append(p, y) \in Seq(Event)
    BY <2>1, <2>2, JoinOne, QueuedAppend
  <2>5. InOrder(Append(p, y), session, conAddr) /\ Over(Append(p, y), conAddr)
    BY <1>3, <2>1, <2>2, <2>3, OrderEnds
  <2> QED BY <2>2, <2>4, <2>5
<1>8. events' \in Seq(Event) /\ InOrder(events', session, conAddr) /\ Over(events', conAddr)
  BY <1>2, <1>6, <1>7
<1> QED BY <1>1, <1>3, <1>8 DEF Orderly

-----------------------------------------------------------------------------
(* The handlers keep the invariant.  What an event to come says stays said *)
(* while the stack is left alone and is not asked to open again.           *)
LEMMA ComingKept ==
  ASSUME Coming, Queued(events') \subseteq Queued(events), UNCHANGED <<link, session, clcb, encrypted, conAddr>>,
         <<"open">> \in asked' => <<"open">> \in asked
  PROVE  Coming'
  BY DEF Coming

(* With con of no connection nothing is asked, and nothing registered.     *)
LEMMA NothingHeld ==
  ASSUME TypeOK, Orderly, AskedNow, SlotsHeld, conAddr = 0
  PROVE  asked = {} /\ slots = {}
<1>1. asked = {}
  BY AddrIs DEF AskedNow, Orderly
<1>2. ASSUME NEW r \in slots PROVE FALSE
  <2>1. r[1] \in Addr /\ r[1] = 0
    BY <1>2 DEF TypeOK, SlotsHeld
  <2> QED BY <2>1, AddrIs
<1> QED BY <1>1, <1>2

(* con is of no connection when one is announced.                          *)
LEMMA ConnectKeeps ==
  ASSUME IInv, OnConnect
  PROVE  IInv' /\ conAddr = 0 /\ conAddr' # 0 /\ UNCHANGED <<told, configured>>
<1> USE DEF IInv
<1>1. /\ Handle("connect") /\ conAddr' = Head(events).addr /\ opened' = FALSE /\ paired' = FALSE /\ discovering' = FALSE
      /\ mtus' = 0 /\ Ask(conAddr', {<<"open">>})
      /\ UNCHANGED <<slots, svc, chr, remoteNotify, chars, configured, told, twice>>
  BY DEF OnConnect
<1>2. /\ events' \in Seq(Event) /\ Queued(events') \subseteq Queued(events) /\ Head(events).addr \in Addr
      /\ UNCHANGED <<link, session, clcb, encrypted, offered, remote, fails>>
      /\ Fits(Head(events), conAddr) /\ Head(events).type = "connect"
  BY <1>1, HandleDoes
<1>3. conAddr = 0 /\ conAddr' \in 0 .. MaxSessions /\ conAddr' # 0
  <2>1. conAddr' \in 0 .. MaxSessions /\ conAddr' > 0 /\ conAddr' \in Nat
    BY <1>1, <1>2, AddrIs
  <2> QED BY <1>2, <2>1 DEF Fits
<1>4. asked = {} /\ slots = {}
  BY <1>3, NothingHeld
<1>5. asked' \subseteq {<<"open">>} /\ (asked' # {} => link' /\ conAddr' = session')
  BY <1>1, <1>2, <1>4 DEF Ask
<1>6. svc = {} /\ chr = {} /\ configured = {} /\ told = {} /\ twice = {} /\ remoteNotify = {} /\ chars = {}
  BY <1>3 DEF KnownWhole
<1>7. TypeOK'
  <2>1. asked' \subseteq Request
    BY <1>5, RequestsMade
  <2>2. mtus' \in Nat
    BY <1>1
  <2> QED BY <1>1, <1>2, <1>3, <2>1, <2>2 DEF TypeOK
<1>8. Orderly'
  BY <1>1, HandleOrder DEF Ends
<1>9. AskedNow'
  BY <1>5, RequestsApart DEF AskedNow
<1>10. SlotsHeld'
  BY <1>1, <1>4 DEF SlotsHeld
<1>11. KnownWhole' /\ PulledAll'
  BY <1>1, <1>6 DEF KnownWhole, PulledAll
<1>12. AskedOnce'
  <2>1. StartedOnce' /\ SaidSo' /\ OpensOnce'
    BY <1>1 DEF StartedOnce, SaidSo, OpensOnce
  <2>2. Coming'
    <3>1. link => session > 0
      BY DEF Orderly
    <3>2. link => \A e \in Queued(events') : e.addr = session => e.type # "open" /\ (e.type = "auth" => encrypted)
      BY <1>2, <1>3, <3>1 DEF Coming, AskedOnce
    <3> QED BY <1>2, <3>2 DEF Coming
  <2> QED BY <2>1, <2>2 DEF AskedOnce
<1> QED BY <1>1, <1>3, <1>7, <1>8, <1>9, <1>10, <1>11, <1>12

(* An end leaves nothing: what is registered is exactly what is returned.  *)
LEMMA CloseKeeps ==
  ASSUME IInv, OnClose
  PROVE  IInv' /\ conAddr' = 0 /\ told' = {} /\ configured' = {}
<1> USE DEF IInv
<1>1. PICK t \in Ends : Handle(t)
  BY DEF OnClose, Ends
<1>2. /\ slots' = slots \ ({conAddr} \X (chr \cap Notifying \cap remoteNotify))
      /\ svc' = {} /\ chr' = {} /\ remoteNotify' = {} /\ chars' = {} /\ configured' = {} /\ told' = {} /\ twice' = {}
      /\ conAddr' = 0 /\ opened' = FALSE /\ paired' = FALSE /\ discovering' = FALSE
      /\ mtus' = 0 /\ UNCHANGED asked
  BY DEF OnClose, Close
<1>3. /\ events' \in Seq(Event) /\ Queued(events') \subseteq Queued(events) /\ Head(events).addr \in Addr
      /\ UNCHANGED <<link, session, clcb, encrypted, offered, remote, fails>>
      /\ Fits(Head(events), conAddr) /\ Head(events).type = t /\ (link => Head(events).addr # session)
  BY <1>1, HandleDoes
<1>4. conAddr = 0 \/ conAddr = Head(events).addr
  BY <1>3 DEF Fits
<1>5. link => session > 0 /\ conAddr # session
  <2>1. link => session > 0
    BY DEF Orderly
  <2> QED BY <1>3, <1>4, <2>1
<1>6. asked = {}
  BY <1>5 DEF AskedNow
<1>7. slots' = {}
  <2>1. ASSUME NEW r \in slots PROVE r \in {conAddr} \X (chr \cap Notifying \cap remoteNotify)
    <3>1. r = <<r[1], r[2]>> /\ r[1] = conAddr /\ r[2] \in chr \cap Notifying \cap remoteNotify
      BY DEF TypeOK, SlotsHeld
    <3> QED BY <3>1
  <2> QED BY <1>2, <2>1
<1>8. TypeOK'
  <2>1. mtus' \in Nat /\ conAddr' \in 0 .. MaxSessions
    BY <1>2, BLEClientAssumption
  <2> QED BY <1>2, <1>3, <1>6, <1>7, <2>1 DEF TypeOK
<1>9. Orderly'
  BY <1>1, <1>2, HandleOrder DEF Ends
<1>10. AskedNow' /\ SlotsHeld' /\ KnownWhole' /\ PulledAll'
  BY <1>2, <1>6, <1>7 DEF AskedNow, SlotsHeld, KnownWhole, PulledAll
<1>11. AskedOnce'
  <2>1. StartedOnce' /\ OpensOnce'
    BY <1>2 DEF StartedOnce, OpensOnce
  <2>2. SaidSo'
    BY <1>2 DEF SaidSo
  <2>3. Coming'
    <3>1. link => \A e \in Queued(events') : e.addr = session => e.type # "open" /\ (e.type = "auth" => encrypted)
      BY <1>3, <1>5 DEF Coming, AskedOnce
    <3> QED BY <1>3, <3>1 DEF Coming
  <2> QED BY <2>1, <2>2, <2>3 DEF AskedOnce
<1> QED BY <1>2, <1>8, <1>9, <1>10, <1>11

(* Discovery is started by whichever of the two comes last.                *)
LEMMA StartDoes ==
  ASSUME TypeOK, AskedOnce, NEW o \in BOOLEAN, NEW p \in BOOLEAN, NEW R, MaybeStartDiscovery(o, p, R)
  PROVE  /\ discovering' \in BOOLEAN /\ mtus' \in Nat /\ StartedOnce'
         /\ asked' \subseteq asked \cup R \cup {<<"mtu">>} /\ (asked' # asked => link /\ conAddr' = session)
         /\ (mtus' # mtus => o /\ p /\ mtus = 0)
<1>1. CASE o /\ p /\ ~discovering
  <2>1. discovering' = TRUE /\ mtus' = mtus + 1 /\ Ask(conAddr', R \cup {<<"mtu">>})
    BY <1>1 DEF MaybeStartDiscovery
  <2>2. mtus = 0
    BY <1>1 DEF AskedOnce, StartedOnce
  <2>3. asked' \subseteq asked \cup R \cup {<<"mtu">>} /\ (asked' # asked => link /\ conAddr' = session)
    BY <2>1, AskAdds
  <2>4. mtus' = 1 /\ StartedOnce'
    BY <2>1, <2>2 DEF StartedOnce
  <2> QED BY <1>1, <2>1, <2>2, <2>3, <2>4
<1>2. CASE ~(o /\ p /\ ~discovering)
  <2>1. UNCHANGED <<discovering, mtus>> /\ Ask(conAddr', R)
    BY <1>2 DEF MaybeStartDiscovery
  <2>2. asked' \subseteq asked \cup R /\ (asked' # asked => link /\ conAddr' = session)
    BY <2>1, AskAdds
  <2> QED BY <2>1, <2>2 DEF AskedOnce, StartedOnce, TypeOK
<1> QED BY <1>1, <1>2

(* The link is encrypted when pairing is reported done.                    *)
LEMMA PairKeeps ==
  ASSUME IInv, OnPairDone
  PROVE  /\ IInv' /\ UNCHANGED <<conAddr, told, configured>>
         /\ (mtus' # mtus => opened /\ paired' /\ mtus = 0)
<1> USE DEF IInv
<1>1. /\ Handle("auth") /\ paired' = TRUE /\ MaybeStartDiscovery(opened, TRUE, {})
      /\ UNCHANGED <<conAddr, opened, slots, svc, chr, remoteNotify, chars, configured, told, twice>>
  BY DEF OnPairDone
<1>2. /\ events' \in Seq(Event) /\ Queued(events') \subseteq Queued(events) /\ Head(events) \in Queued(events)
      /\ UNCHANGED <<link, session, clcb, encrypted, offered, remote, fails>>
      /\ Fits(Head(events), conAddr) /\ Head(events).type = "auth"
  BY <1>1, HandleDoes
<1>3. conAddr = Head(events).addr
  BY <1>2 DEF Fits, Ends
<1>4. /\ discovering' \in BOOLEAN /\ mtus' \in Nat /\ StartedOnce'
      /\ asked' \subseteq asked \cup {} \cup {<<"mtu">>} /\ (asked' # asked => link /\ conAddr' = session)
      /\ (mtus' # mtus => opened /\ mtus = 0)
  <2>1. opened \in BOOLEAN /\ TRUE \in BOOLEAN
    BY DEF TypeOK
  <2> QED BY <1>1, <2>1, StartDoes
<1>5. TypeOK'
  <2>1. asked' \subseteq Request
    BY <1>4, RequestsMade DEF TypeOK
  <2> QED BY <1>1, <1>2, <1>4, <2>1 DEF TypeOK
<1>6. Orderly'
  BY <1>1, HandleOrder DEF Ends
<1>7. AskedNow'
  BY <1>1, <1>2, <1>4, RequestsApart DEF AskedNow
<1>8. SlotsHeld' /\ KnownWhole'
  BY <1>1 DEF SlotsHeld, KnownWhole
<1>9. PulledAll'
  BY <1>1, <1>2 DEF PulledAll, CharsOf
<1>10. AskedOnce'
  <2>1. <<"open">> \in asked' => <<"open">> \in asked
    BY <1>4, RequestsApart
  <2>2. Coming'
    BY <1>1, <1>2, <2>1, ComingKept DEF AskedOnce
  <2>3. OpensOnce'
    BY <1>1, <2>1 DEF AskedOnce, OpensOnce
  <2>4. SaidSo'
    BY <1>1, <1>2, <1>3 DEF AskedOnce, SaidSo, Coming
  <2> QED BY <1>4, <2>2, <2>3, <2>4 DEF AskedOnce
<1> QED BY <1>1, <1>4, <1>5, <1>6, <1>7, <1>8, <1>9, <1>10

(* The virtual connection is open when it is reported open.                *)
LEMMA OpenKeeps ==
  ASSUME IInv, OnOpen
  PROVE  /\ IInv' /\ UNCHANGED <<conAddr, told, configured>>
         /\ (mtus' # mtus => opened' /\ paired' /\ mtus = 0)
<1> USE DEF IInv
<1>1. /\ Handle("open") /\ Head(events).ok /\ opened' = TRUE /\ MaybeStartDiscovery(TRUE, paired, {<<"encrypt">>})
      /\ UNCHANGED <<paired, slots, svc, chr, remoteNotify, chars, configured, told, twice>>
  BY DEF OnOpen
<1>0. conAddr' = conAddr
  BY OpensSame
<1>2. /\ events' \in Seq(Event) /\ Queued(events') \subseteq Queued(events) /\ Head(events) \in Queued(events)
      /\ UNCHANGED <<link, session, clcb, encrypted, offered, remote, fails>>
      /\ Fits(Head(events), conAddr) /\ Head(events).type = "open"
  BY <1>1, HandleDoes
<1>3. conAddr = Head(events).addr
  BY <1>2 DEF Fits, Ends
<1>4. /\ discovering' \in BOOLEAN /\ mtus' \in Nat /\ StartedOnce'
      /\ asked' \subseteq asked \cup {<<"encrypt">>} \cup {<<"mtu">>} /\ (asked' # asked => link /\ conAddr' = session)
      /\ (mtus' # mtus => paired /\ mtus = 0)
  <2>1. paired \in BOOLEAN /\ TRUE \in BOOLEAN
    BY DEF TypeOK
  <2> QED BY <1>1, <2>1, StartDoes
<1>5. TypeOK'
  <2>1. asked' \subseteq Request
    BY <1>4, RequestsMade DEF TypeOK
  <2> QED BY <1>0, <1>1, <1>2, <1>4, <2>1 DEF TypeOK
<1>6. Orderly'
  BY <1>0, <1>1, HandleOrder DEF Ends
<1>7. AskedNow'
  BY <1>0, <1>1, <1>2, <1>4, RequestsApart DEF AskedNow
<1>8. SlotsHeld' /\ KnownWhole'
  BY <1>0, <1>1 DEF SlotsHeld, KnownWhole
<1>9. PulledAll'
  BY <1>0, <1>1, <1>2 DEF PulledAll, CharsOf
<1>10. AskedOnce'
  <2>1. <<"open">> \in asked' => <<"open">> \in asked
    BY <1>4, RequestsApart
  <2>2. Coming'
    BY <1>0, <1>2, <2>1, ComingKept DEF AskedOnce
  <2>3. <<"open">> \notin asked
    <3>1. asked # {} => link /\ Head(events).addr = session
      BY <1>3 DEF AskedNow
    <3> QED BY <1>2, <3>1 DEF AskedOnce, Coming
  <2>4. OpensOnce'
    BY <2>1, <2>3 DEF OpensOnce
  <2>5. SaidSo'
    BY <1>0, <1>1, <1>2, <1>3 DEF AskedOnce, SaidSo, Coming
  <2> QED BY <1>4, <2>2, <2>4, <2>5 DEF AskedOnce
<1> QED BY <1>0, <1>1, <1>4, <1>5, <1>6, <1>7, <1>8, <1>9, <1>10

(* The other handlers leave con alone.                                     *)
LEMMA LeavesCon ==
  ASSUME IInv, NEW t, t \notin Ends \cup {"connect"}, Handle(t), UNCHANGED conVars,
         asked' = asked \/ (asked' \subseteq asked \cup ({"search"} \X Services) /\ link /\ conAddr = session)
           \/ \E X \in SUBSET Chars : asked' \subseteq asked \cup ({"reg"} \X X) /\ link /\ conAddr = session
  PROVE  /\ events' \in Seq(Event) /\ UNCHANGED <<link, session, clcb, encrypted, offered, remote, fails>>
         /\ UNCHANGED <<conAddr, opened, paired, discovering, mtus>>
         /\ asked' \subseteq Request /\ (asked' # {} => link /\ conAddr = session)
         /\ Orderly' /\ AskedOnce' /\ conAddr # 0
         /\ Head(events) \in Event /\ Head(events).type = t
<1> USE DEF IInv
<1>1. /\ events' \in Seq(Event) /\ Queued(events') \subseteq Queued(events) /\ Head(events).addr \in Addr
      /\ Head(events) \in Event /\ UNCHANGED <<link, session, clcb, encrypted, offered, remote, fails>>
      /\ Fits(Head(events), conAddr) /\ Head(events).type = t
  BY HandleDoes
<1>2. UNCHANGED <<conAddr, opened, paired, discovering, mtus>>
  BY DEF conVars
<1>3. conAddr # 0
  <2>1. conAddr = Head(events).addr
    BY <1>1 DEF Fits
  <2> QED BY <1>1, <2>1, AddrIs
<1>4. asked' \subseteq Request /\ (asked' # {} => link /\ conAddr = session)
  <2>1. CASE asked' = asked
    BY <2>1 DEF TypeOK, AskedNow
  <2>2. CASE asked' \subseteq asked \cup ({"search"} \X Services) /\ link /\ conAddr = session
    BY <2>2, RequestsMade DEF TypeOK
  <2>3. CASE \E X \in SUBSET Chars : asked' \subseteq asked \cup ({"reg"} \X X) /\ link /\ conAddr = session
    <3>1. PICK X \in SUBSET Chars : asked' \subseteq asked \cup ({"reg"} \X X) /\ link /\ conAddr = session
      BY <2>3
    <3>2. {"reg"} \X X \subseteq Request
      BY RequestsMade
    <3> QED BY <3>1, <3>2 DEF TypeOK
  <2> QED BY <2>1, <2>2, <2>3
<1>5. <<"open">> \in asked' => <<"open">> \in asked
  BY RequestsApart
<1>6. Orderly'
  BY <1>2, HandleOrder
<1>7. StartedOnce' /\ SaidSo'
  BY <1>1, <1>2 DEF AskedOnce, StartedOnce, SaidSo
<1>8. OpensOnce'
  BY <1>2, <1>5 DEF AskedOnce, OpensOnce
<1>9. Coming'
  BY <1>1, <1>2, <1>5, ComingKept DEF AskedOnce
<1> QED BY <1>1, <1>2, <1>3, <1>4, <1>6, <1>7, <1>8, <1>9 DEF AskedOnce

LEMMA MtuKeeps ==
  ASSUME IInv, OnMtuResp
  PROVE  IInv' /\ UNCHANGED <<conAddr, told, configured, mtus>>
<1> USE DEF IInv
<1>1. Handle("mtu") /\ Ask(conAddr, {"search"} \X Services) /\ UNCHANGED <<slots, clientVars>>
  BY DEF OnMtuResp
<1>2. UNCHANGED conVars /\ UNCHANGED <<slots, svc, chr, remoteNotify, chars, configured, told, twice>>
  BY <1>1 DEF clientVars
<1>3. asked' = asked \/ (asked' \subseteq asked \cup ({"search"} \X Services) /\ link /\ conAddr = session)
  BY <1>1 DEF Ask
<1>4. /\ events' \in Seq(Event) /\ UNCHANGED <<link, session, clcb, encrypted, offered, remote, fails>>
      /\ UNCHANGED <<conAddr, opened, paired, discovering, mtus>>
      /\ asked' \subseteq Request /\ (asked' # {} => link /\ conAddr = session)
      /\ Orderly' /\ AskedOnce'
  <2>1. "mtu" \notin Ends \cup {"connect"}
    BY DEF Ends
  <2> QED BY <1>1, <1>2, <1>3, <2>1, LeavesCon
<1>5. TypeOK'
  BY <1>2, <1>4 DEF TypeOK
<1>6. AskedNow'
  BY <1>2, <1>3, <1>4, RequestsApart DEF AskedNow
<1>7. SlotsHeld' /\ KnownWhole'
  BY <1>2, <1>4 DEF SlotsHeld, KnownWhole
<1>8. PulledAll'
  BY <1>2, <1>4 DEF PulledAll, CharsOf
<1> QED BY <1>2, <1>4, <1>5, <1>6, <1>7, <1>8

LEMMA ResultKeeps ==
  ASSUME IInv, OnSearchResult
  PROVE  IInv' /\ UNCHANGED <<conAddr, told, configured, mtus>>
<1> USE DEF IInv
<1>1. /\ Handle("res") /\ svc' = svc \cup {Head(events).svc}
      /\ UNCHANGED <<asked, slots, conVars, chr, remoteNotify, chars, configured, told, twice>>
  BY DEF OnSearchResult
<1>2. /\ events' \in Seq(Event) /\ UNCHANGED <<link, session, clcb, encrypted, offered, remote, fails>>
      /\ UNCHANGED <<conAddr, opened, paired, discovering, mtus>>
      /\ Orderly' /\ AskedOnce' /\ conAddr # 0
      /\ Head(events) \in Event /\ Head(events).type = "res"
  <2>1. "res" \notin Ends \cup {"connect"} /\ UNCHANGED conVars
    BY <1>1 DEF Ends
  <2> QED BY <1>1, <2>1, LeavesCon
<1>3. svc' \subseteq Services
  BY <1>1, <1>2, EventIs DEF TypeOK
<1>4. TypeOK'
  BY <1>1, <1>2, <1>3 DEF TypeOK
<1>5. AskedNow' /\ SlotsHeld'
  BY <1>1, <1>2 DEF AskedNow, SlotsHeld
<1>6. KnownWhole'
  BY <1>1, <1>2 DEF KnownWhole
<1>7. PulledAll'
  BY <1>1, <1>2 DEF PulledAll, CharsOf
<1> QED BY <1>1, <1>2, <1>4, <1>5, <1>6, <1>7

(* A confirmed registration is of a characteristic whose service is told.  *)
LEMMA NotifyKeeps ==
  ASSUME IInv, OnRegNotify
  PROVE  /\ IInv' /\ UNCHANGED <<conAddr, told, mtus>> /\ conAddr # 0
         /\ \E c \in Chars : configured' = configured \cup {c} /\ ServiceOf[c] \in told
<1> USE DEF IInv
<1>1. /\ Handle("reg") /\ Head(events).chr \in chars
      /\ configured' = configured \cup {Head(events).chr}
      /\ UNCHANGED <<asked, slots, conVars, svc, chr, remoteNotify, chars, told, twice>>
  BY DEF OnRegNotify
<1>2. /\ events' \in Seq(Event) /\ UNCHANGED <<link, session, clcb, encrypted, offered, remote, fails>>
      /\ UNCHANGED <<conAddr, opened, paired, discovering, mtus>>
      /\ Orderly' /\ AskedOnce' /\ conAddr # 0
  <2>1. "reg" \notin Ends \cup {"connect"} /\ UNCHANGED conVars
    BY <1>1 DEF Ends
  <2> QED BY <1>1, <2>1, LeavesCon
<1>3. Head(events).chr \in chr /\ chr \subseteq Chars /\ ServiceOf[Head(events).chr] \in told
  BY <1>1 DEF KnownWhole, TypeOK
<1>4. TypeOK'
  BY <1>1, <1>2, <1>3 DEF TypeOK
<1>5. AskedNow' /\ SlotsHeld'
  BY <1>1, <1>2 DEF AskedNow, SlotsHeld
<1>6. KnownWhole'
  BY <1>1, <1>2 DEF KnownWhole
<1>7. PulledAll'
  BY <1>1, <1>2 DEF PulledAll, CharsOf
<1> QED BY <1>1, <1>2, <1>3, <1>4, <1>5, <1>6, <1>7

LEMMA IgnoreKeeps ==
  ASSUME IInv, Ignore
  PROVE  IInv' /\ UNCHANGED <<conAddr, told, configured, mtus>>
<1> USE DEF IInv
<1>1. PICK t \in {"open", "mtu", "cmpl", "reg"} : Handle(t)
  BY DEF Ignore
<1>2. UNCHANGED conVars /\ UNCHANGED <<asked, slots, svc, chr, remoteNotify, chars, configured, told, twice>>
  BY DEF Ignore, clientVars
<1>3. /\ events' \in Seq(Event) /\ UNCHANGED <<link, session, clcb, encrypted, offered, remote, fails>>
      /\ UNCHANGED <<conAddr, opened, paired, discovering, mtus>>
      /\ Orderly' /\ AskedOnce'
  <2>1. t \notin Ends \cup {"connect"}
    BY DEF Ends
  <2> QED BY <1>1, <1>2, <2>1, LeavesCon
<1>4. TypeOK'
  BY <1>2, <1>3 DEF TypeOK
<1>5. AskedNow' /\ SlotsHeld'
  BY <1>2, <1>3 DEF AskedNow, SlotsHeld
<1>6. KnownWhole'
  BY <1>2, <1>3 DEF KnownWhole
<1>7. PulledAll'
  BY <1>2, <1>3 DEF PulledAll, CharsOf
<1> QED BY <1>2, <1>3, <1>4, <1>5, <1>6, <1>7

(* A completed search pulls the services without a characteristic: told a  *)
(* second time is only one that has none, and finds none now.              *)
LEMMA PullKeeps ==
  ASSUME IInv, OnSearchComplete
  PROVE  /\ IInv' /\ UNCHANGED <<conAddr, mtus>> /\ conAddr # 0
         /\ \E S \in SUBSET Services : told' = told \cup S
         /\ configured' \cap Notifying = configured \cap Notifying
<1> USE DEF IInv
<1> DEFINE S == {s \in svc : ~Populated(s)}
           found == {c \in Chars : /\ ServiceOf[c] \in S /\ link /\ conAddr = session
                                   /\ remote[c] # "absent"}
           notify == {c \in found : remote[c] = "notify"}
<1>1. /\ Handle("cmpl") /\ UNCHANGED <<slots, conVars, svc>>
      /\ chr' = chr \cup found /\ chars' = chars \cup found
      /\ remoteNotify' = (remoteNotify \ found) \cup notify
      /\ configured' = configured \cup (found \ Notifying)
      /\ Ask(conAddr, {"reg"} \X (Notifying \cap notify))
      /\ told' = told \cup S
      /\ twice' = twice \cup (told \cap S)
  BY DEF OnSearchComplete, Pull
<1>2. S \subseteq svc /\ svc \subseteq Services /\ \A s \in S, c \in Chars : ServiceOf[c] = s => c \notin chr
  BY DEF Populated, CharsOf, TypeOK
<1>3. /\ found \subseteq Chars /\ notify \subseteq found
      /\ \A c \in found : /\ ServiceOf[c] \in S /\ link /\ conAddr = session /\ remote[c] # "absent"
                          /\ (remote[c] = "notify" => c \in notify)
      /\ \A c \in Chars : ServiceOf[c] \in S /\ link /\ conAddr = session => c \in found \/ remote[c] = "absent"
  OBVIOUS
<1> HIDE DEF S, found, notify
<1>4. asked' = asked \/ (asked' = asked \cup ({"reg"} \X (Notifying \cap notify)) /\ link /\ conAddr = session)
  BY <1>1 DEF Ask
<1>5. /\ events' \in Seq(Event) /\ UNCHANGED <<link, session, clcb, encrypted, offered, remote, fails>>
      /\ UNCHANGED <<conAddr, opened, paired, discovering, mtus>>
      /\ asked' \subseteq Request /\ (asked' # {} => link /\ conAddr = session)
      /\ Orderly' /\ AskedOnce' /\ conAddr # 0
  <2>1. "cmpl" \notin Ends \cup {"connect"} /\ UNCHANGED conVars /\ Notifying \cap notify \in SUBSET Chars
    BY <1>1, <1>3 DEF Ends
  <2>2. \/ asked' = asked
        \/ \E X \in SUBSET Chars : asked' \subseteq asked \cup ({"reg"} \X X) /\ link /\ conAddr = session
    BY <1>4, <2>1
  <2> QED BY <1>1, <2>1, <2>2, LeavesCon
<1>6. TypeOK'
  <2>1. /\ chr' \subseteq Chars /\ chars' \subseteq Chars /\ remoteNotify' \subseteq Chars
        /\ configured' \subseteq Chars /\ told' \subseteq Services /\ twice' \subseteq Services
    BY <1>1, <1>2, <1>3 DEF TypeOK
  <2> QED BY <1>1, <1>5, <2>1 DEF TypeOK
<1>7. \A c \in chr : c \notin found
  BY <1>2, <1>3 DEF TypeOK
<1>8. chr \subseteq chr' /\ remoteNotify \subseteq remoteNotify' /\ notify \subseteq chr' \cap remoteNotify'
  BY <1>1, <1>3, <1>7 DEF KnownWhole
<1>9. AskedNow'
  <2>1. ASSUME NEW c \in Chars, <<"reg", c>> \in asked'
        PROVE  c \in chr' \cap Notifying \cap remoteNotify'
    <3>1. CASE <<"reg", c>> \in asked
      BY <1>8, <3>1 DEF AskedNow
    <3>2. CASE <<"reg", c>> \notin asked
      <4>1. c \in Notifying \cap notify
        BY <1>4, <2>1, <3>2, RequestsApart
      <4> QED BY <1>8, <4>1
    <3> QED BY <3>1, <3>2
  <2> QED BY <1>5, <2>1 DEF AskedNow
<1>10. SlotsHeld'
  BY <1>1, <1>5, <1>8 DEF SlotsHeld
<1>11. KnownWhole'
  <2>1. remoteNotify' \subseteq chr' /\ chars' = chr'
    BY <1>1, <1>3 DEF KnownWhole
  <2>2. \A c \in chr' : ServiceOf[c] \in told' /\ ServiceOf[c] \in svc'
    BY <1>1, <1>2, <1>3 DEF KnownWhole
  <2> QED BY <1>5, <2>1, <2>2 DEF KnownWhole
<1>12. PulledAll'
  <2>1. ASSUME NEW s \in twice', NEW c \in chr', ServiceOf[c] = s
        PROVE  FALSE
    <3>1. s \in told /\ \A d \in Chars : ServiceOf[d] = s => d \notin chr
      BY <1>1, <1>2, <2>1 DEF PulledAll, CharsOf
    <3>2. c \in found
      BY <1>1, <2>1, <3>1 DEF TypeOK
    <3> QED BY <1>3, <2>1, <3>1, <3>2 DEF PulledAll
  <2>2. \A s \in twice' : s \in told' /\ CharsOf(s)' \cap chr' = {}
    <3>1. \A s \in twice' : s \in told'
      BY <1>1 DEF PulledAll
    <3> QED BY <2>1, <3>1 DEF CharsOf
  <2>3. ASSUME link, conAddr = session, NEW c \in Chars, ServiceOf[c] \in told'
        PROVE  c \in chr' \/ remote[c] = "absent"
    <3>1. CASE ServiceOf[c] \in told
      BY <1>8, <2>3, <3>1 DEF PulledAll
    <3>2. CASE ServiceOf[c] \in S
      BY <1>1, <1>3, <2>3, <3>2
    <3> QED BY <1>1, <2>3, <3>1, <3>2
  <2> QED BY <1>5, <2>2, <2>3 DEF PulledAll
<1>13. configured' \cap Notifying = configured \cap Notifying
  BY <1>1
<1>14. \E T \in SUBSET Services : told' = told \cup T
  <2>1. S \in SUBSET Services
    BY <1>2
  <2> QED BY <1>1, <2>1
<1> QED BY <1>5, <1>6, <1>9, <1>10, <1>11, <1>12, <1>13, <1>14

-----------------------------------------------------------------------------
(* The stack and the phone keep it.                                        *)
LEMMA AnswersKeep ==
  ASSUME IInv, StackAnswers
  PROVE  IInv' /\ UNCHANGED clientVars
<1> USE DEF IInv
<1>1. Answered
  BY StackDoes
<1>2. /\ link /\ UNCHANGED <<link, session, offered, remote>> /\ UNCHANGED clientVars
      /\ Orderly' /\ events' \in Seq(Event) /\ asked' \subseteq asked
      /\ fails' \in 0 .. MaxFails /\ clcb' \in BOOLEAN /\ encrypted' \in BOOLEAN /\ (encrypted => encrypted')
  BY <1>1 DEF Answered
<1>3. UNCHANGED <<conAddr, opened, paired, discovering, mtus>> /\ UNCHANGED <<svc, chr, remoteNotify, chars, configured, told, twice>>
  BY <1>2 DEF clientVars, conVars
<1>4. slots' = slots \/ \E c \in Chars : <<"reg", c>> \in asked /\ slots' = slots \cup {<<session, c>>}
  BY <1>1 DEF Answered
<1>5. slots' \subseteq Addr \X Chars /\ SlotsHeld'
  <2>1. CASE slots' = slots
    BY <1>3, <2>1 DEF SlotsHeld, TypeOK
  <2>2. CASE \E c \in Chars : <<"reg", c>> \in asked /\ slots' = slots \cup {<<session, c>>}
    <3>1. PICK c \in Chars : <<"reg", c>> \in asked /\ slots' = slots \cup {<<session, c>>}
      BY <2>2
    <3>2. conAddr = session /\ c \in chr \cap Notifying \cap remoteNotify
      BY <3>1 DEF AskedNow
    <3>3. session \in Addr
      BY <1>2, AddrIs DEF Orderly
    <3> QED BY <1>3, <3>1, <3>2, <3>3 DEF SlotsHeld, TypeOK
  <2> QED BY <1>4, <2>1, <2>2
<1>6. TypeOK'
  BY <1>2, <1>3, <1>5 DEF TypeOK
<1>7. AskedNow'
  BY <1>2, <1>3 DEF AskedNow
<1>8. KnownWhole' /\ PulledAll'
  BY <1>2, <1>3 DEF KnownWhole, PulledAll, CharsOf
<1>9. AskedOnce'
  <2>1. StartedOnce'
    BY <1>3 DEF AskedOnce, StartedOnce
  <2>2. OpensOnce'
    BY <1>2, <1>3 DEF AskedOnce, OpensOnce
  <2>3. (clcb' = clcb \/ <<"open">> \in asked) /\ (<<"open">> \in asked' => clcb' = clcb /\ \A e \in Queued(events') : e \in Queued(events) \/ e.type # "open")
    BY <1>1 DEF Answered
  <2>4. SaidSo'
    <3>1. opened /\ link /\ conAddr = session => clcb' = clcb
      BY <2>3 DEF AskedOnce, OpensOnce
    <3> QED BY <1>2, <1>3, <3>1 DEF AskedOnce, SaidSo
  <2>5. ASSUME NEW e \in Queued(events'), e.addr = session
        PROVE  /\ e.type = "open" => <<"open">> \notin asked' /\ conAddr = session
               /\ e.type = "open" /\ e.ok => clcb'
               /\ e.type = "auth" => encrypted'
    <3>1. \/ e \in Queued(events) \/ (e.type # "open" /\ (e.type = "auth" => encrypted'))
          \/ (e.type = "open" /\ (e.ok => clcb') /\ <<"open">> \in asked)
      BY <1>1, <2>5 DEF Answered
    <3>2. CASE e \in Queued(events)
      <4>1. /\ e.type = "open" => <<"open">> \notin asked /\ conAddr = session
            /\ e.type = "open" /\ e.ok => clcb
            /\ e.type = "auth" => encrypted
        BY <1>2, <2>5, <3>2 DEF AskedOnce, Coming
      <4> QED BY <1>2, <2>3, <4>1
    <3>3. CASE e \notin Queued(events) /\ e.type # "open" /\ (e.type = "auth" => encrypted')
      BY <3>3
    <3>4. CASE e \notin Queued(events) /\ e.type = "open" /\ (e.ok => clcb') /\ <<"open">> \in asked
      <4>1. conAddr = session
        BY <3>4 DEF AskedNow
      <4>2. <<"open">> \notin asked'
        BY <2>3, <2>5, <3>4
      <4> QED BY <3>4, <4>1, <4>2
    <3> QED BY <3>1, <3>2, <3>3, <3>4
  <2>6. Coming'
    BY <1>2, <1>3, <2>5 DEF Coming
  <2> QED BY <2>1, <2>2, <2>4, <2>6 DEF AskedOnce
<1> QED BY <1>2, <1>5, <1>6, <1>7, <1>8, <1>9

LEMMA PhoneKeeps ==
  ASSUME IInv, Phone
  PROVE  IInv' /\ UNCHANGED clientVars
<1> USE DEF IInv
<1>1. CASE PhoneConnects
  <2>1. /\ ~link /\ link' = TRUE /\ session' = session + 1 /\ session' \in 1 .. MaxSessions /\ asked' = {}
        /\ UNCHANGED <<clcb, encrypted, slots, fails>> /\ UNCHANGED clientVars
        /\ offered' \subseteq Services /\ remote' \in [Chars -> {"absent", "plain", "notify"}]
        /\ conAddr < session' /\ session \in Nat
        /\ Orderly' /\ events' \in Seq(Event)
        /\ \A e \in Queued(events') : e.type = "connect" \/ e.addr # session'
    BY <1>1, ConnectsDoes
  <2>2. UNCHANGED <<conAddr, opened, paired, discovering, mtus>> /\ UNCHANGED <<svc, chr, remoteNotify, chars, configured, told, twice>>
    BY <2>1 DEF clientVars, conVars
  <2>3. conAddr' # session'
    BY <2>1, <2>2, AddrIs
  <2>4. TypeOK'
    <3>1. session' \in 0 .. MaxSessions /\ asked' \subseteq Request
      BY <2>1, BLEClientAssumption
    <3> QED BY <2>1, <2>2, <3>1 DEF TypeOK
  <2>5. AskedNow'
    BY <2>1 DEF AskedNow
  <2>6. SlotsHeld' /\ KnownWhole'
    BY <2>1, <2>2 DEF SlotsHeld, KnownWhole
  <2>7. PulledAll'
    BY <2>2, <2>3 DEF PulledAll, CharsOf
  <2>8. StartedOnce' /\ OpensOnce'
    BY <2>1, <2>2 DEF AskedOnce, StartedOnce, OpensOnce
  <2>9. SaidSo'
    BY <2>3 DEF SaidSo
  <2>10. Coming'
    BY <2>1 DEF Coming
  <2> QED BY <2>1, <2>4, <2>5, <2>6, <2>7, <2>8, <2>9, <2>10 DEF AskedOnce
<1>2. CASE LinkLost
  <2>1. /\ link' = FALSE /\ asked' = {} /\ slots' \subseteq slots /\ clcb' = FALSE /\ encrypted' = FALSE
        /\ UNCHANGED <<session, offered, remote, fails>> /\ UNCHANGED clientVars
        /\ Orderly' /\ events' \in Seq(Event)
    BY <1>2, LostDoes
  <2>2. UNCHANGED <<conAddr, opened, paired, discovering, mtus>> /\ UNCHANGED <<svc, chr, remoteNotify, chars, configured, told, twice>>
    BY <2>1 DEF clientVars, conVars
  <2>3. TypeOK'
    <3>1. asked' \subseteq Request /\ slots' \subseteq Addr \X Chars
      BY <2>1 DEF TypeOK
    <3> QED BY <2>1, <2>2, <3>1 DEF TypeOK
  <2>4. AskedNow'
    BY <2>1 DEF AskedNow
  <2>5. SlotsHeld' /\ KnownWhole'
    BY <2>1, <2>2 DEF SlotsHeld, KnownWhole
  <2>6. PulledAll'
    BY <2>1, <2>2 DEF PulledAll, CharsOf
  <2>7. StartedOnce' /\ OpensOnce'
    BY <2>1, <2>2 DEF AskedOnce, StartedOnce, OpensOnce
  <2>8. SaidSo' /\ Coming'
    BY <2>1 DEF SaidSo, Coming
  <2> QED BY <2>1, <2>3, <2>4, <2>5, <2>6, <2>7, <2>8 DEF AskedOnce
<1> QED BY <1>1, <1>2 DEF Phone

LEMMA IdleKeeps ==
  ASSUME IInv, UNCHANGED vars
  PROVE  IInv' /\ UNCHANGED <<conAddr, told, configured, mtus>>
<1> USE DEF IInv
<1>1. /\ UNCHANGED <<link, session, clcb, encrypted, offered, remote, asked, slots, events, fails>>
      /\ UNCHANGED <<conAddr, opened, paired, discovering, mtus>> /\ UNCHANGED <<svc, chr, remoteNotify, chars, configured, told, twice>>
  BY DEF vars, stackVars, clientVars, conVars
<1>2. TypeOK'
  BY <1>1 DEF TypeOK
<1>3. Orderly'
  BY <1>1 DEF Orderly
<1>4. AskedNow' /\ SlotsHeld' /\ KnownWhole'
  BY <1>1 DEF AskedNow, SlotsHeld, KnownWhole
<1>5. PulledAll'
  BY <1>1 DEF PulledAll, CharsOf
<1>6. AskedOnce'
  BY <1>1 DEF AskedOnce, StartedOnce, SaidSo, OpensOnce, Coming
<1> QED BY <1>1, <1>2, <1>3, <1>4, <1>5, <1>6

(* The invariant is inductive, and gives the one that is checked.          *)
LEMMA InitIInv == Init => IInv
<1> SUFFICES ASSUME Init PROVE IInv
  OBVIOUS
<1> USE DEF Init
<1>1. TypeOK
  <2>1. 0 \in 0 .. MaxSessions /\ 0 \in 0 .. MaxFails /\ 0 \in Nat /\ <<>> \in Seq(Event)
    BY BLEClientAssumption
  <2>2. remote \in [Chars -> {"absent", "plain", "notify"}]
    OBVIOUS
  <2> QED BY <2>1, <2>2 DEF TypeOK
<1>2. Orderly
  BY QueuedEmpty DEF Orderly, InOrder, Over
<1>3. AskedNow /\ SlotsHeld /\ KnownWhole /\ PulledAll
  BY DEF AskedNow, SlotsHeld, KnownWhole, PulledAll
<1>4. AskedOnce
  BY DEF AskedOnce, StartedOnce, SaidSo, OpensOnce, Coming
<1> QED BY <1>1, <1>2, <1>3, <1>4 DEF IInv

LEMMA StepIInv == IInv /\ [Next]_vars => IInv'
<1> SUFFICES ASSUME IInv, [Next]_vars PROVE IInv'
  OBVIOUS
<1>1. CASE Client
  BY <1>1, ConnectKeeps, PairKeeps, OpenKeeps, MtuKeeps, ResultKeeps, PullKeeps, NotifyKeeps, IgnoreKeeps, CloseKeeps DEF Client
<1>2. CASE StackAnswers
  BY <1>2, AnswersKeep
<1>3. CASE Phone
  BY <1>3, PhoneKeeps
<1>4. CASE UNCHANGED vars
  BY <1>4, IdleKeeps
<1> QED BY <1>1, <1>2, <1>3, <1>4 DEF Next

LEMMA IInvFollows == IInv => Inv
<1> SUFFICES ASSUME IInv PROVE Inv
  OBVIOUS
<1>1. TypeOK /\ Orderly /\ AskedNow /\ SlotsHeld /\ KnownWhole /\ PulledAll
  BY DEF IInv
<1>2. NothingLeft
  <2>1. conAddr = 0 => slots = {}
    BY <1>1, NothingHeld
  <2> QED BY <1>1, <2>1 DEF NothingLeft, KnownWhole
<1>3. ToldOnce
  BY <1>1 DEF ToldOnce, KnownWhole, PulledAll
<1> QED BY <1>1, <1>2, <1>3 DEF Inv

-----------------------------------------------------------------------------
(* In every state the types hold, nothing of a connection outlives it in   *)
(* the client or in the stack's notify table, and a service that has any   *)
(* of its characteristics is told once and before they can be used         *)
(* (Client.cpp 257-276, Char.cpp 57-64).                                   *)
THEOREM ClientHolds == Spec => []Inv
<1>1. Spec => []IInv
  BY InitIInv, StepIInv, PTL DEF Spec
<1>2. IInv => Inv
  BY IInvFollows
<1> QED BY <1>1, <1>2, PTL

(* Discovery starts once in a connection, and only when its virtual        *)
(* connection is open and it is encrypted (Client.cpp 146-156).            *)
THEOREM DiscoversOnce == Spec => DiscoverOnce
<1> DEFINE A == mtus' > mtus =>
                  /\ mtus = 0
                  /\ link /\ conAddr = session => clcb /\ encrypted
<1>1. IInv /\ [Next]_vars => [A]_vars
  <2> SUFFICES ASSUME IInv, Next, mtus' > mtus PROVE A
    OBVIOUS
  <2>1. mtus \in Nat
    BY DEF IInv, TypeOK
  <2>2. CASE OnPairDone \/ OnOpen
    <3>0. mtus' # mtus
      BY <2>1
    <3>1. mtus = 0 /\ opened' /\ paired' /\ IInv' /\ UNCHANGED conAddr
      <4>1. CASE OnPairDone
        <5>1. opened' = opened
          BY <4>1 DEF OnPairDone
        <5> QED BY <3>0, <4>1, <5>1, PairKeeps
      <4>2. CASE OnOpen
        BY <3>0, <4>2, OpenKeeps
      <4> QED BY <2>2, <4>1, <4>2
    <3>2. UNCHANGED <<link, session, clcb, encrypted>>
      BY <2>2 DEF OnPairDone, OnOpen, Handle
    <3>3. SaidSo'
      BY <3>1 DEF IInv, AskedOnce
    <3> QED BY <3>1, <3>2, <3>3 DEF SaidSo
  <2>3. CASE OnConnect \/ OnClose
    <3>1. mtus' = 0
      BY <2>3 DEF OnConnect, OnClose, Close
    <3> QED BY <2>1, <3>1
  <2>4. CASE OnMtuResp \/ OnSearchResult \/ OnSearchComplete \/ OnRegNotify \/ Ignore
    <3>1. mtus' = mtus
      BY <2>4, MtuKeeps, ResultKeeps, PullKeeps, NotifyKeeps, IgnoreKeeps
    <3> QED BY <2>1, <3>1
  <2>5. CASE StackAnswers \/ Phone
    <3>1. mtus' = mtus
      BY <2>5, AnswersKeep, PhoneKeeps DEF clientVars, conVars
    <3> QED BY <2>1, <3>1
  <2> QED BY <2>2, <2>3, <2>4, <2>5 DEF Next, Client
<1>2. Spec => []IInv
  BY InitIInv, StepIInv, PTL DEF Spec
<1>3. Spec => [][A]_vars
  BY <1>1, <1>2, PTL DEF Spec
<1> QED BY <1>3 DEF DiscoverOnce

(* The client implements the session its owners are promised: one          *)
(* connection at a time, services attached in it once and subscriptions    *)
(* only of attached ones, all of it gone when it ends.                     *)
THEOREM SessionImplemented == Spec => ImplementsSession
<1>1. Init => Session!Init
  BY DEF Init, Session!Init
<1>2. IInv /\ [Next]_vars => [Session!Next]_(Session!vars)
  <2> SUFFICES ASSUME IInv, [Next]_vars PROVE [Session!Next]_(Session!vars)
    OBVIOUS
  <2>1. CASE OnConnect
    <3>1. conAddr = 0 /\ conAddr' # 0 /\ UNCHANGED <<told, configured>>
      BY <2>1, ConnectKeeps
    <3> QED BY <3>1 DEF Session!Next, Session!Begin
  <2>2. CASE OnClose
    <3>1. conAddr' = 0 /\ told' = {} /\ configured' = {}
      BY <2>2, CloseKeeps
    <3>2. CASE conAddr = 0
      <4>1. told = {} /\ configured = {}
        BY <3>2 DEF IInv, KnownWhole
      <4> QED BY <3>1, <3>2, <4>1 DEF Session!vars
    <3>3. CASE conAddr # 0
      BY <3>1, <3>3 DEF Session!Next, Session!End
    <3> QED BY <3>2, <3>3
  <2>3. CASE OnSearchComplete
    <3>1. UNCHANGED conAddr /\ conAddr # 0 /\ configured' \cap Notifying = configured \cap Notifying
      BY <2>3, PullKeeps
    <3>2. PICK S \in SUBSET Services : told' = told \cup S
      BY <2>3, PullKeeps
    <3>3. Session!Attach(S \ told)
      BY <3>1, <3>2 DEF Session!Attach
    <3>4. S \ told \in SUBSET Services
      OBVIOUS
    <3> QED BY <3>3, <3>4 DEF Session!Next
  <2>4. CASE OnRegNotify
    <3>1. UNCHANGED <<conAddr, told>> /\ conAddr # 0
      BY <2>4, NotifyKeeps
    <3>2. PICK c \in Chars : configured' = configured \cup {c} /\ ServiceOf[c] \in told
      BY <2>4, NotifyKeeps
    <3>3. CASE c \in Notifying \ configured
      <4>1. Session!Subscribe(c)
        BY <3>1, <3>2, <3>3 DEF Session!Subscribe
      <4> QED BY <4>1 DEF Session!Next
    <3>4. CASE c \notin Notifying \ configured
      BY <3>1, <3>2, <3>4 DEF Session!vars
    <3> QED BY <3>3, <3>4
  <2>5. CASE OnPairDone \/ OnOpen \/ OnMtuResp \/ OnSearchResult \/ Ignore
    <3>1. UNCHANGED <<conAddr, told, configured>>
      BY <2>5, PairKeeps, OpenKeeps, MtuKeeps, ResultKeeps, IgnoreKeeps
    <3> QED BY <3>1 DEF Session!vars
  <2>6. CASE StackAnswers \/ Phone \/ UNCHANGED vars
    <3>1. UNCHANGED <<conAddr, told, configured>>
      BY <2>6, AnswersKeep, PhoneKeeps, IdleKeeps DEF clientVars, conVars
    <3> QED BY <3>1 DEF Session!vars
  <2> QED BY <2>1, <2>2, <2>3, <2>4, <2>5, <2>6 DEF Next, Client
<1>3. Spec => []IInv
  BY InitIInv, StepIInv, PTL DEF Spec
<1>4. Spec => Session!Spec
  BY <1>1, <1>2, <1>3, PTL DEF Spec, Session!Spec
<1> QED BY <1>4 DEF ImplementsSession

-----------------------------------------------------------------------------
(* The Android pipeline.                                                   *)

(* A line is cut at its newline, which no earlier entry is.                *)
IsLine(l) ==
  /\ l \in Seq(Token) /\ l # <<>> /\ l[Len(l)] = "nl"
  /\ \A i \in 1 .. Len(l) : l[i] = "nl" => i = Len(l)

(* The buffer holds no frame when the thread waits, and at most one, which *)
(* is all of it, when a line is appended: so a handler leaves it empty.    *)
Framed ==
  /\ pc \in {"scan", "append"} => FindFrameEnd(rxBuf) = 0
  /\ pc = "find" => FindFrameEnd(rxBuf) \in {0, Len(rxBuf)}
  /\ pc = "extract" => frameEnd > 0 /\ (rxBuf = <<>> \/ frameEnd = Len(rxBuf))
  /\ pc \in {"handle", "hello", "ask", "call", "new"} => rxBuf = <<>>

(* What the UART has cut and the thread has taken are lines.               *)
InLines ==
  /\ \A i \in 1 .. Len(lines) : IsLine(lines[i])
  /\ pc = "append" => IsLine(chunk)

(* A handler has a command in its hands.                                   *)
Handled ==
  /\ pc \in {"handle", "call", "new"} => chunk # <<>>
  /\ pc \in {"call", "new"} => Head(chunk) \in {"add", "call", "stop"}

(* Outside a session the phone writes nothing.                             *)
Silent == btc # "up" => outgoing = <<>>

(* Of the stream as bytes, whatever was lost of it.                        *)
Bytes == AndTypeOK /\ InLines /\ Framed /\ Handled /\ Silent

(* What is on its way from the phone to the UART.                          *)
Flow == writeQ \o outgoing

(* Every command in it is followed by its newlines.                        *)
Followed(f) ==
  \A i \in 1 .. Len(f) :
    f[i] \in Command => /\ i + 1 \in 1 .. Len(f) /\ f[i + 1] = "nl"
                        /\ f[i] = "add" => i + 2 \in 1 .. Len(f) /\ f[i + 2] = "nl"

(* The stream goes on with n newlines.                                     *)
Starts(f, n) == n <= Len(f) /\ \A i \in 1 .. n : f[i] = "nl"

(* A command the UART holds is followed by its newlines.                   *)
UartWhole(u, f) ==
  u # <<>> => \E m \in Command : u = <<m>> /\ Starts(f, IF m = "add" THEN 2 ELSE 1)

(* The lines of whole messages; an add makes two.                          *)
Piece == {<<"nl">>} \cup {<<m, "nl">> : m \in Command}
Opening == <<"add", "nl">>

(* The rest of an add comes next.                                          *)
Closing(ls, u, f) == IF ls # <<>> THEN Head(ls) = <<"nl">> ELSE u = <<>> /\ Starts(f, 1)

(* The lines are pieces of messages, and the second one follows an add's  *)
(* first.                                                                  *)
LinesWhole(ls, u, f) ==
  \A i \in 1 .. Len(ls) :
    /\ ls[i] \in Piece
    /\ ls[i] = Opening => IF i = Len(ls) THEN u = <<>> /\ Starts(f, 1) ELSE ls[i + 1] = <<"nl">>

(* What the thread has of a message, and what it hands to the handlers.    *)
BufferWhole ==
  /\ pc \in {"scan", "append"} => rxBuf \in {<<>>, Opening}
  /\ pc = "find" => rxBuf \in Piece \cup {<<>>, Message("add")}
  /\ pc \in {"scan", "find"} /\ rxBuf = Opening => Closing(lines, uartBuf, Flow)
  /\ pc = "append" => /\ chunk \in Piece
                      /\ rxBuf = Opening => chunk = <<"nl">>
                      /\ chunk = Opening => Closing(lines, uartBuf, Flow)
  /\ pc = "extract" => rxBuf \in (Piece \ {Opening}) \cup {<<>>, Message("add")}
  /\ pc \in {"handle", "call", "new"} => chunk \in (Piece \ {Opening}) \cup {Message("add")}

(* Of the stream as messages, as long as none is torn.                     *)
Whole ==
  ~torn => /\ Followed(Flow) /\ UartWhole(uartBuf, Flow) /\ LinesWhole(lines, uartBuf, Flow)
           /\ BufferWhole /\ "junk" \notin notifs
(* A clean end of a session finds nothing on its way, and nothing is known *)
(* of the source after it.                                                 *)
Ended ==
  ~late /\ btc \in {"clear", "tell", "down"} =>
    /\ pc = "scan" /\ writeQ = <<>> /\ uartBuf = <<>> /\ lines = <<>> /\ ~connected
    /\ btc = "down" <=> ~current
    /\ btc = "tell" => callIds = {}

(* In a session Phone's source is the one that connected.                  *)
Agreed ==
  ~late /\ btc \in {"up", "closing"} =>
    /\ current <=> connected /\ pc # "hello"
    /\ pc \in {"hello", "ask", "call", "new"} => connected

(* Without a source nothing is shown, and no call waits for its answer.    *)
Unshown == ~late /\ ~current => notifs = {} /\ callIds = {} /\ ui = "idle"
Sources == Ended /\ Agreed /\ Unshown

(* A call in a sequence, and one at most.                                  *)
Has(s) == \E i \in 1 .. Len(s) : s[i] = "call"
One(s) == \A i, j \in 1 .. Len(s) : s[i] = "call" /\ s[j] = "call" => i = j
AnyHas(ls)  == \E i \in 1 .. Len(ls) : Has(ls[i])
OneLine(ls) == \A i, j \in 1 .. Len(ls) : Has(ls[i]) /\ Has(ls[j]) => i = j

(* Where the call of the session may be, from the phone to the screen.     *)
Lined == AnyHas(lines)
Taken == pc = "append" /\ Has(chunk)
Ahead == connected /\ (Has(rxBuf) \/ (pc \in {"handle", "call", "new"} /\ Has(chunk)))
Shown == "call" \in notifs \/ ui = "neg"

(* It is in one place at most, and nowhere before the phone rings.         *)
OneCall ==
  /\ One(Flow) /\ OneLine(lines)
  /\ Has(Flow) => ~Has(uartBuf) /\ ~Lined /\ ~Taken /\ ~Ahead /\ ~Shown
  /\ Has(uartBuf) => ~Lined /\ ~Taken /\ ~Ahead /\ ~Shown
  /\ Lined => ~Taken /\ ~Ahead /\ ~Shown
  /\ Taken => ~Ahead /\ ~Shown
  /\ Ahead => ~Shown
  /\ ringing = "none" => ~Has(Flow) /\ ~Has(uartBuf) /\ ~Lined /\ ~Taken /\ ~Ahead /\ ~Shown

(* The id of a call that is or will be shown is remembered.                *)
IdKnown ==
  /\ "call" \in notifs => callIds = {"call"}
  /\ pc = "new" /\ Head(chunk) = "call" => callIds = {"call"}

(* Of the call in a session.                                               *)
CallOnce == ~late /\ btc \in {"up", "closing"} => OneCall /\ IdKnown
AndIInv == Bytes /\ Whole /\ Sources /\ CallOnce

-----------------------------------------------------------------------------
(* The search for a frame's end.                                           *)

(* The function within FindFrameEnd: from a place to the end of the frame. *)
EndFrom(g, buf, i) ==
  IF i > Len(buf) THEN 0
  ELSE IF buf[i] = "nl" THEN i
  ELSE IF buf[i] = "add" THEN g[i + 2]
  ELSE g[i + 1]

Places(buf) == 1 .. Len(buf) + 2
EndsOf(buf) == CHOOSE g : g = [i \in Places(buf) |-> EndFrom(g, buf, i)]

(* A set of numbers that has what follows each of its members is all.      *)
LEMMA Upwards ==
  ASSUME NEW n \in Nat, NEW S \in SUBSET Nat, 0 \in S, \A k \in S : k < n => k + 1 \in S
  PROVE  0 .. n \subseteq S
<1> DEFINE T == {k \in 0 .. n : k \notin S}
<1> SUFFICES ASSUME T # {} PROVE FALSE
  OBVIOUS
<1>1. T \subseteq Nat
  OBVIOUS
<1>2. PICK x \in T : \A y \in T : ~(<<y, x>> \in OpToRel(<, Nat))
  <2> HIDE DEF T
  <2> QED BY <1>1, NatLessThanWellFounded, WFMin
<1>3. x \in Nat /\ \A y \in T : y \in Nat /\ ~(y < x)
  BY <1>1, <1>2 DEF OpToRel
<1>4. x # 0 /\ x - 1 \in 0 .. n /\ x - 1 < n /\ x - 1 < x
  BY <1>3
<1>5. x - 1 \in S
  BY <1>3, <1>4
<1>6. x - 1 + 1 = x
  BY <1>3
<1> QED BY <1>3, <1>4, <1>5, <1>6

(* The function exists, and is of numbers.                                 *)
LEMMA EndsExist ==
  ASSUME NEW buf \in Seq(Token)
  PROVE  /\ FindFrameEnd(buf) = EndsOf(buf)[1]
         /\ EndsOf(buf) \in [Places(buf) -> Nat]
         /\ \A i \in Places(buf) : EndsOf(buf)[i] = EndFrom(EndsOf(buf), buf, i)
<1> DEFINE L == Len(buf)
           G == [Places(buf) -> Nat]
           S == {d \in 0 .. L + 1 : \E g \in G : \A i \in (L + 2 - d) .. (L + 2) : g[i] = EndFrom(g, buf, i)}
<1>0. L \in Nat /\ \A i \in 1 .. L : buf[i] \in Token
  OBVIOUS
<1>1. 0 \in S
  <2>1. [i \in Places(buf) |-> 0] \in G
    BY <1>0
  <2>2. \A i \in (L + 2 - 0) .. (L + 2) : i = L + 2 /\ i \in Places(buf)
    BY <1>0 DEF Places
  <2>3. \A i \in (L + 2 - 0) .. (L + 2) : [j \in Places(buf) |-> 0][i] = EndFrom([j \in Places(buf) |-> 0], buf, i)
    BY <1>0, <2>2 DEF EndFrom
  <2> QED BY <1>0, <2>1, <2>3
<1>2. \A d \in S : d < L + 1 => d + 1 \in S
  <2> SUFFICES ASSUME NEW d \in S, d < L + 1 PROVE d + 1 \in S
    OBVIOUS
  <2>1. d \in 0 .. L + 1
    OBVIOUS
  <2>2. PICK g \in G : \A i \in (L + 2 - d) .. (L + 2) : g[i] = EndFrom(g, buf, i)
    OBVIOUS
  <2> DEFINE k == L + 1 - d
             h == [g EXCEPT ![k] = EndFrom(g, buf, k)]
  <2>3. k \in 1 .. L + 1 /\ k \in Places(buf)
    BY <1>0, <2>1 DEF Places
  <2>4. EndFrom(g, buf, k) \in Nat
    <3>1. k \in Nat /\ (k =< L => k + 1 \in Places(buf) /\ k + 2 \in Places(buf))
      BY <1>0, <2>3 DEF Places
    <3>2. \A i \in Places(buf) : g[i] \in Nat
      OBVIOUS
    <3> HIDE DEF k
    <3> QED BY <1>0, <3>1, <3>2 DEF EndFrom
  <2>5. h \in G /\ h[k] = EndFrom(g, buf, k) /\ \A i \in Places(buf) : i # k => h[i] = g[i]
    BY <2>3, <2>4
  <2>6. ASSUME NEW i \in (L + 2 - (d + 1)) .. (L + 2) PROVE h[i] = EndFrom(h, buf, i)
    <3>1. i \in Nat /\ i >= k /\ i \in Places(buf)
      BY <1>0, <2>1 DEF Places
    <3>2. EndFrom(h, buf, i) = EndFrom(g, buf, i)
      <4>1. CASE i > L
        BY <4>1 DEF EndFrom
      <4>2. CASE i =< L
        <5>1. i + 1 \in Places(buf) /\ i + 2 \in Places(buf) /\ i + 1 # k /\ i + 2 # k
          BY <1>0, <2>3, <3>1, <4>2 DEF Places
        <5>2. h[i + 1] = g[i + 1] /\ h[i + 2] = g[i + 2]
          BY <2>5, <5>1
        <5> HIDE DEF h
        <5> QED BY <5>2 DEF EndFrom
      <4> QED BY <1>0, <3>1, <4>1, <4>2
    <3>3. CASE i = k
      BY <2>5, <3>2, <3>3
    <3>4. CASE i # k
      <4>1. i \in (L + 2 - d) .. (L + 2)
        BY <1>0, <2>1, <3>1, <3>4
      <4> QED BY <2>2, <2>5, <3>1, <3>2, <3>4, <4>1
    <3> QED BY <3>3, <3>4
  <2>7. d + 1 \in 0 .. L + 1
    BY <1>0, <2>1
  <2> HIDE DEF h, k
  <2> QED BY <2>5, <2>6, <2>7
<1>3. L + 1 \in S
  <2>1. S \in SUBSET Nat /\ L + 1 \in Nat
    BY <1>0
  <2> HIDE DEF S
  <2>2. 0 .. L + 1 \subseteq S
    BY <1>1, <1>2, <2>1, Upwards
  <2> QED BY <2>1, <2>2
<1>4. PICK g \in G : \A i \in (L + 2 - (L + 1)) .. (L + 2) : g[i] = EndFrom(g, buf, i)
  BY <1>3
<1>5. (L + 2 - (L + 1)) .. (L + 2) = Places(buf)
  BY <1>0 DEF Places
<1>6. g = [i \in Places(buf) |-> EndFrom(g, buf, i)]
  BY <1>4, <1>5
<1>7. EndsOf(buf) = [i \in Places(buf) |-> EndFrom(EndsOf(buf), buf, i)]
  BY <1>6, Zenon DEF EndsOf
<1>8. ASSUME NEW e, e = [i \in Places(buf) |-> EndFrom(e, buf, i)]
      PROVE  e = g
  <2> DEFINE U == {d \in 0 .. L + 1 : \A i \in (L + 2 - d) .. (L + 2) : e[i] = g[i]}
  <2>0. \A i \in Places(buf) : e[i] = EndFrom(e, buf, i) /\ g[i] = EndFrom(g, buf, i)
    BY <1>8, <1>4, <1>5
  <2>1. 0 \in U
    <3>1. L + 2 \in Places(buf) /\ ~(L + 2 =< L) /\ L + 2 > L
      BY <1>0 DEF Places
    <3>2. e[L + 2] = 0 /\ g[L + 2] = 0
      BY <2>0, <3>1 DEF EndFrom
    <3> QED BY <1>0, <3>2
  <2>2. \A d \in U : d < L + 1 => d + 1 \in U
    <3> SUFFICES ASSUME NEW d \in U, d < L + 1 PROVE d + 1 \in U
      OBVIOUS
    <3> DEFINE k == L + 1 - d
    <3>1. d \in 0 .. L + 1 /\ k \in 1 .. L + 1 /\ k \in Places(buf)
      BY <1>0 DEF Places
    <3>2. e[k] = g[k]
      <4>1. CASE k > L
        BY <2>0, <3>1, <4>1 DEF EndFrom
      <4>2. CASE k =< L
        <5>1. k + 1 \in (L + 2 - d) .. (L + 2) /\ k + 2 \in (L + 2 - d) .. (L + 2)
          BY <1>0, <3>1, <4>2
        <5>2. e[k + 1] = g[k + 1] /\ e[k + 2] = g[k + 2]
          BY <5>1
        <5> HIDE DEF k
        <5> QED BY <2>0, <3>1, <5>2 DEF EndFrom
      <4> QED BY <1>0, <3>1, <4>1, <4>2
    <3>3. ASSUME NEW i \in (L + 2 - (d + 1)) .. (L + 2) PROVE e[i] = g[i]
      <4>1. i = k \/ i \in (L + 2 - d) .. (L + 2)
        BY <1>0, <3>1
      <4> HIDE DEF k
      <4> QED BY <3>2, <4>1
    <3> QED BY <1>0, <3>1, <3>3
  <2>3. U \in SUBSET Nat /\ L + 1 \in Nat
    BY <1>0
  <2>4. L + 1 \in U
    <3> HIDE DEF U
    <3>1. 0 .. L + 1 \subseteq U
      BY <2>1, <2>2, <2>3, Upwards
    <3> QED BY <2>3, <3>1
  <2>5. \A i \in Places(buf) : e[i] = g[i]
    BY <2>4, <1>5
  <2>6. e = [i \in Places(buf) |-> e[i]] /\ g = [i \in Places(buf) |-> g[i]]
    BY <1>8
  <2> QED BY <2>5, <2>6
<1>9. EndsOf(buf) = g
  BY <1>7, <1>8
<1>10. FindFrameEnd(buf) = EndsOf(buf)[1]
  BY DEF FindFrameEnd, EndsOf, EndFrom, Places
<1> QED BY <1>4, <1>5, <1>9, <1>10

(* A line appended where no frame ends makes one frame at most, that ends  *)
(* with it.                                                                *)
LEMMA LineEndsFrame ==
  ASSUME NEW buf \in Seq(Token), NEW l, IsLine(l), FindFrameEnd(buf) = 0
  PROVE  FindFrameEnd(buf \o l) \in {0, Len(buf \o l)}
<1> DEFINE c == buf \o l
           B == EndsOf(buf)
           C == EndsOf(c)
           S == {d \in 0 .. Len(c) + 1 :
                   \A i \in (Len(c) + 2 - d) .. (Len(c) + 2) :
                     i > Len(buf) \/ B[i] = 0 => C[i] \in {0, Len(c)}}
<1>1. /\ c \in Seq(Token) /\ Len(c) = Len(buf) + Len(l) /\ Len(buf) \in Nat /\ Len(l) \in Nat /\ Len(c) > 0
      /\ \A i \in 1 .. Len(buf) : c[i] = buf[i]
      /\ \A i \in Len(buf) + 1 .. Len(c) : c[i] = l[i - Len(buf)]
  BY DEF IsLine
<1>2. \A i \in Len(buf) + 1 .. Len(c) : c[i] = "nl" => i = Len(c)
  <2> SUFFICES ASSUME NEW i \in Len(buf) + 1 .. Len(c), c[i] = "nl" PROVE i = Len(c)
    OBVIOUS
  <2>1. i - Len(buf) \in 1 .. Len(l) /\ l[i - Len(buf)] = "nl"
    BY <1>1
  <2>2. i - Len(buf) = Len(l)
    BY <2>1 DEF IsLine
  <2> QED BY <1>1, <2>2
<1>3. /\ B[1] = 0 /\ \A i \in Places(buf) : B[i] = EndFrom(B, buf, i)
  BY EndsExist
<1>4. /\ C[1] = FindFrameEnd(c) /\ \A i \in Places(c) : C[i] = EndFrom(C, c, i)
  BY <1>1, EndsExist
<1> HIDE DEF B, C, c
<1>5. 0 \in S
  <2>1. Len(c) + 2 \in Places(c) /\ Len(c) + 2 > Len(c)
    BY <1>1 DEF Places
  <2>2. C[Len(c) + 2] = 0
    BY <1>4, <2>1 DEF EndFrom
  <2>3. (Len(c) + 2 - 0) .. (Len(c) + 2) = {Len(c) + 2}
    BY <1>1
  <2> QED BY <1>1, <2>2, <2>3
<1>6. \A d \in S : d < Len(c) + 1 => d + 1 \in S
  <2> SUFFICES ASSUME NEW d \in S, d < Len(c) + 1 PROVE d + 1 \in S
    OBVIOUS
  <2>1. d \in 0 .. Len(c) + 1
    OBVIOUS
  <2> DEFINE k == Len(c) + 1 - d
  <2>2. k \in 1 .. Len(c) + 1 /\ k \in Places(c)
    BY <1>1, <2>1 DEF Places
  <2>3. ASSUME NEW i \in {k + 1, k + 2}, k =< Len(c), i > Len(buf) \/ B[i] = 0 PROVE C[i] \in {0, Len(c)}
    <3>1. i \in (Len(c) + 2 - d) .. (Len(c) + 2)
      BY <1>1, <2>1, <2>2, <2>3
    <3> QED BY <2>3, <3>1
  <2>4. ASSUME k > Len(buf) \/ B[k] = 0 PROVE C[k] \in {0, Len(c)}
    <3>1. CASE k > Len(c)
      BY <1>4, <2>2, <3>1 DEF EndFrom
    <3>2. CASE k =< Len(c) /\ k > Len(buf)
      <4>1. c[k] = "nl" => k = Len(c)
        <5>1. k \in Len(buf) + 1 .. Len(c)
          BY <1>1, <2>2, <3>2
        <5> HIDE DEF k
        <5> QED BY <1>2, <5>1
      <4>2. C[k] \in {k, C[k + 1], C[k + 2]} /\ (C[k] = k => c[k] = "nl" \/ C[k] \in {C[k + 1], C[k + 2]})
        <5> HIDE DEF k
        <5>1. C[k] = EndFrom(C, c, k) /\ ~(k > Len(c))
          BY <1>1, <1>4, <2>2, <3>2
        <5> QED BY <5>1, Zenon DEF EndFrom
      <4>3. C[k + 1] \in {0, Len(c)} /\ C[k + 2] \in {0, Len(c)}
        BY <1>1, <2>2, <2>3, <3>2
      <4> HIDE DEF k
      <4> QED BY <4>1, <4>2, <4>3
    <3>3. CASE k =< Len(buf) /\ B[k] = 0
      <4>1. k \in 1 .. Len(buf) /\ k \in Places(buf) /\ k + 1 \in Places(buf) /\ k + 2 \in Places(buf) /\ k =< Len(c) /\ k # 0
        BY <1>1, <2>2, <3>3 DEF Places
      <4>2. c[k] = buf[k] /\ B[k] = EndFrom(B, buf, k) /\ C[k] = EndFrom(C, c, k) /\ ~(k > Len(buf)) /\ ~(k > Len(c))
        BY <1>1, <1>3, <1>4, <2>2, <4>1
      <4>3. B[k + 1] = 0 => C[k + 1] \in {0, Len(c)}
        BY <2>3, <4>1
      <4>4. B[k + 2] = 0 => C[k + 2] \in {0, Len(c)}
        BY <2>3, <4>1
      <4> HIDE DEF k
      <4> QED BY <3>3, <4>1, <4>2, <4>3, <4>4, Zenon DEF EndFrom
    <3> QED BY <1>1, <2>2, <2>4, <3>1, <3>2, <3>3
  <2>5. ASSUME NEW i \in (Len(c) + 2 - (d + 1)) .. (Len(c) + 2), i > Len(buf) \/ B[i] = 0
        PROVE  C[i] \in {0, Len(c)}
    <3>1. i = k \/ i \in (Len(c) + 2 - d) .. (Len(c) + 2)
      <4> DEFINE n == Len(c)
      <4>1. n \in Nat /\ d \in Nat /\ i \in Nat /\ i >= n + 2 - (d + 1) /\ i =< n + 2
        BY <1>1, <2>1, <2>2
      <4> HIDE DEF n
      <4>2. i = n + 1 - d \/ i \in (n + 2 - d) .. (n + 2)
        BY <4>1
      <4> QED BY <4>2 DEF n
    <3> HIDE DEF k
    <3> QED BY <2>4, <2>5, <3>1
  <2> QED BY <1>1, <2>1, <2>5
<1>7. Len(c) + 1 \in S
  <2>1. S \in SUBSET Nat /\ Len(c) + 1 \in Nat
    BY <1>1
  <2> HIDE DEF S
  <2>2. 0 .. Len(c) + 1 \subseteq S
    BY <1>5, <1>6, <2>1, Upwards
  <2> QED BY <2>1, <2>2
<1>8. 1 \in (Len(c) + 2 - (Len(c) + 1)) .. (Len(c) + 2)
  BY <1>1
<1>9. C[1] \in {0, Len(c)}
  BY <1>3, <1>7, <1>8
<1> QED BY <1>4, <1>9 DEF c

(* The frames of whole messages and their pieces.                          *)
LEMMA EndOfPieces ==
  /\ FindFrameEnd(<<>>) = 0
  /\ FindFrameEnd(Opening) = 0
  /\ FindFrameEnd(<<"nl">>) = 1
  /\ FindFrameEnd(Message("add")) = 3
  /\ \A m \in Command \ {"add"} : FindFrameEnd(<<m, "nl">>) = 2
<1>1. ASSUME NEW b \in Seq(Token), NEW i \in Places(b)
      PROVE  /\ i > Len(b) => EndsOf(b)[i] = 0
             /\ i =< Len(b) /\ b[i] = "nl" => EndsOf(b)[i] = i
             /\ i =< Len(b) /\ b[i] = "add" => EndsOf(b)[i] = EndsOf(b)[i + 2]
             /\ i =< Len(b) /\ b[i] # "nl" /\ b[i] # "add" => EndsOf(b)[i] = EndsOf(b)[i + 1]
  <2>1. i > Len(b) <=> ~(i =< Len(b))
    BY DEF Places
  <2> QED BY <2>1, EndsExist, Zenon DEF EndFrom
<1>2. FindFrameEnd(<<>>) = 0
  <2>1. <<>> \in Seq(Token) /\ 1 \in Places(<<>>) /\ 1 > Len(<<>>)
    BY DEF Places
  <2> QED BY <1>1, <2>1, EndsExist
<1>3. FindFrameEnd(Opening) = 0
  <2>1. Opening \in Seq(Token) /\ 1 \in Places(Opening) /\ 3 \in Places(Opening)
        /\ Len(Opening) = 2 /\ Opening[1] = "add"
    BY DEF Places, Opening, Token
  <2>2. EndsOf(Opening)[1] = EndsOf(Opening)[3] /\ EndsOf(Opening)[3] = 0
    BY <1>1, <2>1
  <2> QED BY <2>1, <2>2, EndsExist
<1>4. FindFrameEnd(<<"nl">>) = 1
  <2>1. <<"nl">> \in Seq(Token) /\ 1 \in Places(<<"nl">>) /\ Len(<<"nl">>) = 1 /\ <<"nl">>[1] = "nl"
    BY DEF Places, Token
  <2> DEFINE a == <<"nl">>
  <2>2. EndsOf(a)[1] = 1
    <3>1. a \in Seq(Token) /\ 1 \in Places(a) /\ 1 =< Len(a) /\ a[1] = "nl"
      BY <2>1
    <3> HIDE DEF a
    <3> QED BY <1>1, <3>1
  <2> QED BY <2>1, <2>2, EndsExist
<1>5. FindFrameEnd(Message("add")) = 3
  <2> DEFINE a == <<"add", "nl", "nl">>
  <2>1. a \in Seq(Token) /\ 1 \in Places(a) /\ 3 \in Places(a) /\ Len(a) = 3 /\ a[1] = "add" /\ a[3] = "nl"
    BY DEF Places, Token
  <2>2. EndsOf(a)[1] = EndsOf(a)[3] /\ EndsOf(a)[3] = 3
    <3> HIDE DEF a
    <3> QED BY <1>1, <2>1
  <2>3. Message("add") = a
    BY DEF Message
  <2> HIDE DEF a
  <2> QED BY <2>1, <2>2, <2>3, EndsExist
<1>6. ASSUME NEW m \in Command \ {"add"} PROVE FindFrameEnd(<<m, "nl">>) = 2
  <2> DEFINE a == <<m, "nl">>
  <2>1. a \in Seq(Token) /\ 1 \in Places(a) /\ 2 \in Places(a) /\ Len(a) = 2
        /\ a[1] # "nl" /\ a[1] # "add" /\ a[2] = "nl"
    BY DEF Places, Token, Command
  <2>2. EndsOf(a)[1] = EndsOf(a)[2] /\ EndsOf(a)[2] = 2
    <3> HIDE DEF a
    <3> QED BY <1>1, <2>1
  <2> HIDE DEF a
  <2>3. FindFrameEnd(a) = 2
    BY <2>1, <2>2, EndsExist
  <2> QED BY <2>3 DEF a
<1> QED BY <1>2, <1>3, <1>4, <1>5, <1>6

PhoneTypes ==
  /\ outgoing \in Seq(Token) /\ greeted \in BOOLEAN /\ ringing \in {"none", "on", "over"}
  /\ listAsked \in BOOLEAN /\ msgs \in 0..MaxMsgs /\ sessions \in 0..MaxLinks
  /\ btc \in {"down", "up", "closing", "clear", "tell"}

UartTypes ==
  /\ writeQ \in Seq(Token) /\ Len(writeQ) =< WriteLen
  /\ uartBuf \in Seq(Token \ {"nl"})
  /\ lines \in Seq(Seq(Token)) /\ Len(lines) =< LineLen

SourceTypes ==
  /\ connected \in BOOLEAN /\ callIds \subseteq {"call"}
  /\ ui \in {"idle", "neg"} /\ current \in BOOLEAN /\ notifs \subseteq {"add", "call", "junk"}
  /\ torn \in BOOLEAN /\ late \in BOOLEAN

WorkTypes ==
  /\ rxBuf \in Seq(Token) /\ chunk \in Seq(Token) /\ frameEnd \in Nat
  /\ pc \in {"scan", "append", "find", "extract", "handle", "hello", "ask", "call", "new", "crash"}

(* The types, in the groups the proofs are by.                             *)
LEMMA AndTypesAre == AndTypeOK <=> PhoneTypes /\ UartTypes /\ SourceTypes /\ WorkTypes
BY Zenon DEF AndTypeOK, PhoneTypes, UartTypes, SourceTypes, WorkTypes

(* A message is a sequence of tokens.                                      *)
LEMMA MessageType ==
  ASSUME NEW m \in Command
  PROVE  /\ Message(m) \in Seq(Token)
         /\ m = "add" => Message(m) = <<"add", "nl", "nl">>
         /\ m # "add" => Message(m) = <<m, "nl">>
<1>1. m \in Token /\ "nl" \in Token /\ "add" \in Token
  BY DEF Command, Token
<1>2. <<"add", "nl", "nl">> \in Seq(Token) /\ <<m, "nl">> \in Seq(Token)
  BY <1>1
<1> QED BY <1>2, Zenon DEF Message

(* What is added to a queue, and what is taken.                            *)
LEMMA AppendType ==
  ASSUME NEW S, NEW q \in Seq(S), NEW x \in S
  PROVE  Append(q, x) \in Seq(S) /\ Len(Append(q, x)) = Len(q) + 1
OBVIOUS

LEMMA TailType ==
  ASSUME NEW S, NEW q \in Seq(S), q # <<>>
  PROVE  /\ Head(q) \in S /\ Tail(q) \in Seq(S) /\ Len(Tail(q)) = Len(q) - 1
         /\ Head(q) = q[1] /\ \A i \in 1 .. Len(Tail(q)) : Tail(q)[i] = q[i + 1]
OBVIOUS

(* What leaves alone which part of the state.                              *)

(* The steps that touch the queues and the UART.                           *)
LEMMA UartStep == AndNext => Write \/ UartLoop \/ Scan \/ UNCHANGED uartVars
BY Zenon DEF AndNext, BTC, AndroidThread, Thread, LVGL, uartVars, Say, Connect, LinkEnds, OnDisconnect,
   OnDisconnectClear, PhoneOnDisconnect, AppendChunk, FindFrame, Extract, HandleHello, PhoneOnConnect,
   NotifList, HandleCommand, IgnoreCommand, HandleCallIncoming, HandleNotif, CallIgnore, CallReject, ActionNeg

(* The steps that touch the phone.                                         *)
LEMMA PhoneStep ==
  AndNext => (\E m \in Command : Say(m)) \/ Write \/ Connect \/ LinkEnds \/ UNCHANGED phoneVars
BY Zenon DEF AndNext, BTC, AndroidThread, Thread, LVGL, phoneVars, UartLoop, Scan, OnDisconnect,
   OnDisconnectClear, PhoneOnDisconnect, AppendChunk, FindFrame, Extract, HandleHello, PhoneOnConnect,
   NotifList, HandleCommand, IgnoreCommand, HandleCallIncoming, HandleNotif, CallIgnore, CallReject, ActionNeg

(* The steps of the sessions.                                              *)
LEMMA BtcStep == AndNext => BTC \/ UNCHANGED btcVars
BY Zenon DEF AndNext, AndroidThread, Thread, LVGL, btcVars, Say, Write, UartLoop, Scan,
   AppendChunk, FindFrame, Extract, HandleHello, PhoneOnConnect,
   NotifList, HandleCommand, IgnoreCommand, HandleCallIncoming, HandleNotif, CallIgnore, CallReject, ActionNeg

(* The steps that touch the Android thread and its buffer.                 *)
LEMMA WorkStep == AndNext => AndroidThread \/ (OnDisconnectClear /\ UNCHANGED workVars) \/ UNCHANGED <<workVars, rxBuf>>
BY Zenon DEF AndNext, BTC, LVGL, workVars, srcVars, Say, Write, UartLoop, Connect, LinkEnds, OnDisconnect,
   OnDisconnectClear, PhoneOnDisconnect, CallIgnore, CallReject, ActionNeg

(* The steps that touch the source and what Phone shows.                   *)
LEMMA StoreStep ==
  AndNext => \/ OnDisconnect \/ OnDisconnectClear \/ PhoneOnDisconnect \/ Write \/ LinkEnds
             \/ HandleHello \/ PhoneOnConnect \/ HandleCallIncoming \/ HandleNotif
             \/ CallIgnore \/ CallReject \/ ActionNeg
             \/ UNCHANGED <<connected, callIds, storeVars, torn, late>>
BY Zenon DEF AndNext, BTC, AndroidThread, Thread, LVGL, storeVars, srcVars, Say, UartLoop, Connect, Scan, AppendChunk,
   FindFrame, Extract, NotifList, HandleCommand, IgnoreCommand

(* The stream as bytes, at first.                                          *)
LEMMA AndInitTypes == AndInit => AndTypeOK /\ InLines /\ Framed /\ Handled /\ Silent
<1> SUFFICES ASSUME AndInit PROVE AndTypeOK /\ InLines /\ Framed /\ Handled /\ Silent
  OBVIOUS
<1>1. <<>> \in Seq(Token) /\ <<>> \in Seq(Token \ {"nl"}) /\ <<>> \in Seq(Seq(Token)) /\ Len(<<>>) = 0
  OBVIOUS
<1>2. PhoneTypes
  <2>1. 0 \in 0..MaxMsgs /\ 0 \in 0..MaxLinks
    BY AndroidAssumption
  <2> QED BY <1>1, <2>1, Zenon DEF AndInit, PhoneTypes
<1>3. UartTypes
  <2>1. 0 =< WriteLen /\ 0 =< LineLen
    BY AndroidAssumption
  <2> QED BY <1>1, <2>1, Zenon DEF AndInit, UartTypes
<1>4. SourceTypes
  BY Zenon DEF AndInit, SourceTypes
<1>5. WorkTypes
  BY <1>1 DEF AndInit, WorkTypes
<1>6. InLines /\ Handled /\ Silent
  <2>1. \A i \in 1 .. 0 : IsLine(lines[i])
    OBVIOUS
  <2> QED BY <1>1, <2>1 DEF AndInit, InLines, Handled, Silent
<1>7. Framed
  BY EndOfPieces DEF AndInit, Framed
<1> QED BY <1>2, <1>3, <1>4, <1>5, <1>6, <1>7, AndTypesAre

(* The phone writes nothing outside a session.                             *)
LEMMA PhoneTyped == PhoneTypes /\ Silent /\ AndNext => PhoneTypes' /\ Silent'
<1> SUFFICES ASSUME PhoneTypes, Silent, AndNext PROVE PhoneTypes' /\ Silent'
  OBVIOUS
<1>0. <<>> \in Seq(Token)
  OBVIOUS
<1>1. outgoing' \in Seq(Token) /\ ringing' \in {"none", "on", "over"} /\ msgs' \in 0..MaxMsgs
  <2>1. ASSUME NEW m \in Command, Say(m)
        PROVE  outgoing' \in Seq(Token) /\ ringing' \in {"none", "on", "over"} /\ msgs' \in 0..MaxMsgs
    <3>1. outgoing' \in Seq(Token)
      BY <2>1, MessageType DEF Say
    <3>2. msgs' \in 0..MaxMsgs
      BY <2>1, AndroidAssumption DEF Say, PhoneTypes
    <3>3. ringing' \in {"none", "on", "over"}
      BY <2>1 DEF Say, PhoneTypes
    <3> QED BY <3>1, <3>2, <3>3
  <2>2. CASE Write
    BY <2>2, TailType DEF Write, PhoneTypes
  <2>3. CASE Connect
    BY <2>3, Zenon DEF Connect, PhoneTypes
  <2>4. CASE LinkEnds
    BY <1>0, <2>4, Zenon DEF LinkEnds, PhoneTypes
  <2>5. CASE UNCHANGED phoneVars
    BY <2>5, Zenon DEF phoneVars, PhoneTypes
  <2> QED BY <2>1, <2>2, <2>3, <2>4, <2>5, PhoneStep
<1>2. greeted' \in BOOLEAN
  <2>1. (\E m \in Command : Say(m)) \/ Write \/ Connect \/ LinkEnds \/ UNCHANGED phoneVars
    BY PhoneStep
  <2> QED BY <2>1, Zenon DEF Say, Write, Connect, LinkEnds, phoneVars, PhoneTypes
<1>3. listAsked' \in BOOLEAN
  <2>1. Connect \/ NotifList \/ UNCHANGED listAsked
    BY Zenon DEF AndNext, BTC, AndroidThread, Thread, LVGL, Say, Write, UartLoop, Scan, LinkEnds, OnDisconnect,
       OnDisconnectClear, PhoneOnDisconnect, AppendChunk, FindFrame, Extract, HandleHello, PhoneOnConnect,
       HandleCommand, IgnoreCommand, HandleCallIncoming, HandleNotif, CallIgnore, CallReject, ActionNeg
  <2>2. CASE NotifList
    <3>1. (listAsked \/ btc = "up") \in BOOLEAN
      BY Zenon
    <3> QED BY <2>2, <3>1, Zenon DEF NotifList
  <2> QED BY <2>1, <2>2, Zenon DEF Connect, PhoneTypes
<1>4. btc' \in {"down", "up", "closing", "clear", "tell"} /\ sessions' \in 0..MaxLinks
  <2>1. CASE Connect
    BY <2>1, AndroidAssumption DEF Connect, PhoneTypes
  <2>2. CASE LinkEnds \/ OnDisconnect \/ OnDisconnectClear \/ PhoneOnDisconnect
    BY <2>2 DEF LinkEnds, OnDisconnect, OnDisconnectClear, PhoneOnDisconnect, PhoneTypes
  <2>3. CASE UNCHANGED btcVars
    BY <2>3 DEF btcVars, PhoneTypes
  <2> QED BY <2>1, <2>2, <2>3, BtcStep DEF BTC
<1>5. Silent'
  <2>1. CASE Connect
    BY <2>1 DEF Connect, Silent
  <2>2. CASE LinkEnds
    BY <2>2 DEF LinkEnds, Silent
  <2>3. CASE OnDisconnect \/ OnDisconnectClear \/ PhoneOnDisconnect
    BY <2>3 DEF OnDisconnect, OnDisconnectClear, PhoneOnDisconnect, phoneVars, Silent
  <2>4. CASE UNCHANGED btcVars
    <3>1. ASSUME NEW m \in Command, Say(m) PROVE Silent'
      BY <2>4, <3>1 DEF Say, btcVars, Silent
    <3>2. CASE Write
      BY <2>4, <3>2 DEF Write, btcVars, Silent
    <3>3. CASE UNCHANGED phoneVars
      BY <2>4, <3>3 DEF phoneVars, btcVars, Silent
    <3> QED BY <2>1, <2>2, <3>1, <3>2, <3>3, PhoneStep
  <2> QED BY <2>1, <2>2, <2>3, <2>4, BtcStep DEF BTC
<1> QED BY <1>1, <1>2, <1>3, <1>4, <1>5, Zenon DEF PhoneTypes

(* The UART cuts lines.                                                    *)
LEMMA UartTyped ==
  /\ PhoneTypes /\ UartTypes /\ WorkTypes /\ InLines /\ AndNext
  => UartTypes' /\ InLines'
<1> SUFFICES ASSUME PhoneTypes, UartTypes, WorkTypes, InLines, AndNext PROVE UartTypes' /\ InLines'
  OBVIOUS
<1>1. CASE Write
  <2>1. Len(writeQ) \in Nat /\ WriteLen \in Nat
    BY AndroidAssumption DEF UartTypes
  <2>2. Head(outgoing) \in Token
    BY <1>1, TailType DEF Write, PhoneTypes
  <2>3. writeQ' \in Seq(Token) /\ Len(writeQ') =< WriteLen
    <3>1. CASE Len(writeQ) = WriteLen
      BY <1>1, <2>1, <3>1 DEF Write, UartTypes
    <3>2. CASE Len(writeQ) # WriteLen
      <4>1. writeQ' = Append(writeQ, Head(outgoing))
        BY <1>1, <3>2, Zenon DEF Write
      <4>2. writeQ' \in Seq(Token) /\ Len(writeQ') = Len(writeQ) + 1
        BY <2>2, <4>1, AppendType DEF UartTypes
      <4> QED BY <2>1, <3>2, <4>2 DEF UartTypes
    <3> QED BY <3>1, <3>2
  <2>4. UartTypes'
    BY <1>1, <2>3, Zenon DEF Write, UartTypes
  <2>5. InLines'
    BY <1>1, Zenon DEF Write, InLines, workVars
  <2> QED BY <2>4, <2>5
<1>2. CASE UartLoop
  <2>0. lines \in Seq(Seq(Token)) /\ Len(lines) =< LineLen /\ Len(lines) \in Nat /\ LineLen \in Nat
        /\ uartBuf \in Seq(Token \ {"nl"})
    BY AndroidAssumption DEF UartTypes
  <2>1. Head(writeQ) \in Token /\ Tail(writeQ) \in Seq(Token) /\ Len(Tail(writeQ)) =< WriteLen
    BY <1>2, TailType, AndroidAssumption DEF UartLoop, UartTypes
  <2>2. CASE Head(writeQ) = "nl"
    <3> DEFINE l == Append(uartBuf, "nl")
    <3>1. l \in Seq(Token) /\ IsLine(l)
      <4>1. /\ uartBuf \in Seq(Token) /\ Len(uartBuf) \in Nat /\ "nl" \in Token
            /\ \A i \in 1 .. Len(uartBuf) : uartBuf[i] # "nl"
        BY <2>0 DEF Token
      <4>2. /\ l \in Seq(Token) /\ Len(l) = Len(uartBuf) + 1 /\ l[Len(l)] = "nl"
            /\ \A i \in 1 .. Len(uartBuf) : l[i] = uartBuf[i]
        BY <4>1
      <4>3. l # <<>>
        <5> HIDE DEF l
        <5>1. Len(l) # 0
          BY <4>1, <4>2
        <5> QED BY <5>1
      <4>4. \A i \in 1 .. Len(l) : l[i] = "nl" => i = Len(l)
        <5> HIDE DEF l
        <5> QED BY <4>1, <4>2
      <4> HIDE DEF l
      <4> QED BY <4>2, <4>3, <4>4 DEF IsLine
    <3> HIDE DEF l
    <3>2. lines' = Append(lines, l) /\ uartBuf' = <<>> /\ writeQ' = Tail(writeQ) /\ Len(lines) < LineLen
      BY <1>2, <2>2, Zenon DEF UartLoop, l
    <3>3. /\ lines' \in Seq(Seq(Token)) /\ Len(lines') = Len(lines) + 1
          /\ lines'[Len(lines) + 1] = l /\ \A i \in 1 .. Len(lines) : lines'[i] = lines[i]
      BY <2>0, <3>1, <3>2
    <3>4. UartTypes'
      BY <2>0, <2>1, <3>2, <3>3 DEF UartTypes
    <3>5. \A i \in 1 .. Len(lines') : IsLine(lines'[i])
      <4>1. \A i \in 1 .. Len(lines') : i \in 1 .. Len(lines) \/ i = Len(lines) + 1
        BY <2>0, <3>3
      <4> QED BY <3>1, <3>3, <4>1 DEF InLines
    <3>6. UNCHANGED <<pc, chunk>>
      BY <1>2 DEF UartLoop, workVars
    <3> QED BY <3>4, <3>5, <3>6 DEF InLines
  <2>3. CASE Head(writeQ) # "nl"
    <3>1. uartBuf' = Append(uartBuf, Head(writeQ)) /\ lines' = lines /\ writeQ' = Tail(writeQ)
      BY <1>2, <2>3, Zenon DEF UartLoop
    <3>2. Head(writeQ) \in Token \ {"nl"}
      BY <2>1, <2>3
    <3>3. uartBuf' \in Seq(Token \ {"nl"})
      BY <2>0, <3>1, <3>2, AppendType
    <3>4. UartTypes'
      BY <2>0, <2>1, <3>1, <3>3, Zenon DEF UartTypes
    <3>5. UNCHANGED <<pc, chunk>>
      BY <1>2 DEF UartLoop, workVars
    <3> QED BY <3>1, <3>4, <3>5, Zenon DEF InLines
  <2> QED BY <2>2, <2>3
<1>3. CASE Scan
  <2>1. lines \in Seq(Seq(Token)) /\ lines # <<>> /\ lines' = Tail(lines) /\ chunk' = Head(lines) /\ pc' = "append"
    BY <1>3 DEF Scan, UartTypes
  <2>2. /\ Tail(lines) \in Seq(Seq(Token)) /\ Len(Tail(lines)) = Len(lines) - 1 /\ Len(lines) \in Nat \ {0}
        /\ Head(lines) = lines[1] /\ \A i \in 1 .. Len(Tail(lines)) : Tail(lines)[i] = lines[i + 1]
    BY <2>1, TailType
  <2>3. UartTypes'
    BY <1>3, <2>1, <2>2, AndroidAssumption DEF Scan, Thread, UartTypes
  <2>4. \A i \in 1 .. Len(lines') : IsLine(lines'[i])
    <3>1. \A i \in 1 .. Len(lines') : i + 1 \in 1 .. Len(lines)
      BY <2>1, <2>2
    <3> QED BY <2>1, <2>2, <3>1 DEF InLines
  <2>5. IsLine(chunk')
    BY <2>1, <2>2 DEF InLines
  <2> QED BY <2>3, <2>4, <2>5 DEF InLines
<1>4. CASE UNCHANGED uartVars
  <2>1. UartTypes'
    BY <1>4 DEF uartVars, UartTypes
  <2>2. lines' = lines
    BY <1>4 DEF uartVars
  <2>3. pc' = "append" => Scan \/ (pc = "append" /\ chunk' = chunk)
    BY WorkStep DEF AndroidThread, workVars, AppendChunk, FindFrame, Extract, HandleHello, PhoneOnConnect,
       NotifList, HandleCommand, IgnoreCommand, HandleCallIncoming, HandleNotif
  <2> QED BY <1>3, <2>1, <2>2, <2>3 DEF InLines
<1> QED BY <1>1, <1>2, <1>3, <1>4, UartStep

(* The types of the source and the store.                                  *)
LEMMA SourceTyped == SourceTypes /\ Handled /\ AndNext => SourceTypes'
<1> SUFFICES ASSUME SourceTypes, Handled, AndNext PROVE SourceTypes'
  OBVIOUS
<1>1. CASE OnDisconnect
  <2>1. (late \/ InHand) \in BOOLEAN
    BY Zenon
  <2> QED BY <1>1, <2>1, Zenon DEF OnDisconnect, storeVars, SourceTypes
<1>2. CASE OnDisconnectClear
  BY <1>2, Zenon DEF OnDisconnectClear, storeVars, SourceTypes
<1>3. CASE PhoneOnDisconnect
  <2>1. (late \/ InHand) \in BOOLEAN
    BY Zenon
  <2>2. notifs' \subseteq {"add", "call", "junk"}
    BY <1>3, Zenon DEF PhoneOnDisconnect, SourceTypes
  <2> QED BY <1>3, <2>1, <2>2, Zenon DEF PhoneOnDisconnect, srcVars, SourceTypes
<1>4. CASE Write
  <2>1. (torn \/ Len(writeQ) = WriteLen) \in BOOLEAN
    BY Zenon
  <2> QED BY <1>4, <2>1, Zenon DEF Write, srcVars, storeVars, SourceTypes
<1>5. CASE LinkEnds
  <2>1. (torn \/ outgoing # <<>>) \in BOOLEAN
    BY Zenon
  <2> QED BY <1>5, <2>1, Zenon DEF LinkEnds, srcVars, storeVars, SourceTypes
<1>6. CASE HandleHello
  BY <1>6, Zenon DEF HandleHello, Thread, storeVars, SourceTypes
<1>7. CASE PhoneOnConnect
  BY <1>7, Zenon DEF PhoneOnConnect, Thread, srcVars, SourceTypes
<1>8. CASE HandleCallIncoming
  BY <1>8, Zenon DEF HandleCallIncoming, Thread, storeVars, SourceTypes
<1>9. CASE HandleNotif
  <2>1. Head(chunk) \in {"add", "call", "stop"}
    BY <1>9 DEF HandleNotif, Handled
  <2>2. Head(chunk) # "stop" => Content \in {"add", "call", "junk"}
    BY <2>1 DEF Content
  <2>3. callIds' \subseteq {"call"} /\ notifs' \subseteq {"add", "call", "junk"}
    BY <1>9, <2>2, Zenon DEF HandleNotif, SourceTypes
  <2> QED BY <1>9, <2>3, Zenon DEF HandleNotif, Thread, SourceTypes
<1>10. CASE CallIgnore \/ CallReject \/ ActionNeg
  <2>1. callIds' \subseteq {"call"} /\ notifs' \subseteq {"add", "call", "junk"} /\ ui' \in {"idle", "neg"}
    BY <1>10, Zenon DEF CallIgnore, CallReject, ActionNeg, srcVars, SourceTypes
  <2> QED BY <1>10, <2>1, Zenon DEF CallIgnore, CallReject, ActionNeg, LVGL, srcVars, SourceTypes
<1>11. CASE UNCHANGED <<connected, callIds, storeVars, torn, late>>
  BY <1>11, Zenon DEF storeVars, SourceTypes
<1> QED BY <1>1, <1>2, <1>3, <1>4, <1>5, <1>6, <1>7, <1>8, <1>9, <1>10, <1>11, StoreStep

(* The buffer holds a frame at most, and a handler leaves it empty.        *)
LEMMA WorkTyped ==
  /\ PhoneTypes /\ UartTypes /\ WorkTypes /\ InLines /\ Framed /\ Handled /\ AndNext
  => WorkTypes' /\ Framed' /\ Handled'
<1> SUFFICES ASSUME PhoneTypes, UartTypes, WorkTypes, InLines, Framed, Handled, AndNext
             PROVE  WorkTypes' /\ Framed' /\ Handled'
  OBVIOUS
<1>0. <<>> \in Seq(Token) /\ FindFrameEnd(<<>>) = 0 /\ Len(<<>>) = 0
  BY EndOfPieces
<1>1. CASE Scan
  <2>1. Head(lines) \in Seq(Token)
    BY <1>1, TailType DEF Scan, UartTypes
  <2> QED BY <1>1, <2>1 DEF Scan, srcVars, WorkTypes, Framed, Handled
<1>2. CASE AppendChunk
  <2>1. /\ rxBuf \in Seq(Token) /\ IsLine(chunk) /\ FindFrameEnd(rxBuf) = 0 /\ rxBuf' = rxBuf \o chunk
        /\ chunk' = <<>> /\ pc' = "find" /\ frameEnd' = frameEnd
    BY <1>2 DEF AppendChunk, Framed, InLines, WorkTypes
  <2>2. rxBuf \o chunk \in Seq(Token)
    BY <2>1 DEF IsLine
  <2>3. FindFrameEnd(rxBuf') \in {0, Len(rxBuf')}
    BY <2>1, LineEndsFrame
  <2> QED BY <1>0, <2>1, <2>2, <2>3 DEF WorkTypes, Framed, Handled
<1>3. CASE FindFrame
  <2>1. /\ frameEnd' = FindFrameEnd(rxBuf) /\ FindFrameEnd(rxBuf) \in {0, Len(rxBuf)} /\ UNCHANGED <<rxBuf, chunk>>
        /\ pc' = IF FindFrameEnd(rxBuf) = 0 THEN "scan" ELSE "extract"
    BY <1>3 DEF FindFrame, Framed, srcVars
  <2>2. Len(rxBuf) \in Nat
    BY DEF WorkTypes
  <2>3. FindFrameEnd(rxBuf) \in Nat
    BY <2>1, <2>2
  <2>4. CASE FindFrameEnd(rxBuf) = 0
    <3>1. pc' = "scan" /\ frameEnd' = 0
      BY <2>1, <2>4
    <3> QED BY <2>1, <2>4, <3>1 DEF WorkTypes, Framed, Handled
  <2>5. CASE FindFrameEnd(rxBuf) # 0
    <3>1. pc' = "extract" /\ frameEnd' = Len(rxBuf) /\ frameEnd' > 0
      BY <2>1, <2>2, <2>5
    <3> QED BY <2>1, <2>2, <3>1 DEF WorkTypes, Framed, Handled
  <2> QED BY <2>4, <2>5
<1>4. CASE Extract
  <2>1. /\ frameEnd > 0 /\ (rxBuf = <<>> \/ frameEnd = Len(rxBuf)) /\ Len(rxBuf) \in Nat /\ frameEnd' = 0
        /\ rxBuf \in Seq(Token) /\ frameEnd \in Nat
    BY <1>4 DEF Extract, Framed, WorkTypes
  <2>2. CASE frameEnd > Len(rxBuf)
    <3>1. pc' = "crash" /\ UNCHANGED <<chunk, rxBuf>>
      BY <1>4, <2>2, Zenon DEF Extract
    <3> QED BY <2>1, <3>1 DEF WorkTypes, Framed, Handled
  <2>3. CASE ~(frameEnd > Len(rxBuf))
    <3>1. frameEnd = Len(rxBuf) /\ Len(rxBuf) > 0
      BY <1>0, <2>1, <2>3
    <3>2. pc' = "handle" /\ chunk' = SubSeq(rxBuf, 1, frameEnd) /\ rxBuf' = SubSeq(rxBuf, frameEnd + 1, Len(rxBuf))
      BY <1>4, <2>3, Zenon DEF Extract
    <3>3. chunk' = rxBuf /\ rxBuf' = <<>>
      BY <2>1, <3>1, <3>2
    <3>4. chunk' # <<>>
      BY <3>1, <3>3
    <3> QED BY <1>0, <2>1, <3>2, <3>3, <3>4 DEF WorkTypes, Framed, Handled
  <2> QED BY <2>2, <2>3
<1>5. CASE HandleHello
  BY <1>0, <1>5 DEF HandleHello, WorkTypes, Framed, Handled
<1>6. CASE PhoneOnConnect \/ NotifList
  BY <1>0, <1>6 DEF PhoneOnConnect, NotifList, srcVars, WorkTypes, Framed, Handled
<1>7. CASE HandleCommand
  <2>1. /\ pc = "handle" /\ Head(chunk) \in {"add", "call", "stop"} /\ pc' \in {"call", "new"}
        /\ UNCHANGED <<rxBuf, chunk, frameEnd>>
    BY <1>7 DEF HandleCommand, srcVars
  <2> QED BY <2>1 DEF WorkTypes, Framed, Handled
<1>8. CASE IgnoreCommand
  BY <1>0, <1>8 DEF IgnoreCommand, srcVars, WorkTypes, Framed, Handled
<1>9. CASE HandleCallIncoming
  BY <1>0, <1>9 DEF HandleCallIncoming, WorkTypes, Framed, Handled
<1>10. CASE HandleNotif
  BY <1>0, <1>10 DEF HandleNotif, WorkTypes, Framed, Handled
<1>11. CASE OnDisconnectClear /\ UNCHANGED workVars
  <2>1. rxBuf' = <<>> /\ UNCHANGED <<pc, chunk, frameEnd>>
    BY <1>11 DEF OnDisconnectClear, workVars
  <2> QED BY <1>0, <2>1 DEF WorkTypes, Framed, Handled
<1>12. CASE UNCHANGED <<workVars, rxBuf>>
  <2>1. UNCHANGED <<rxBuf, pc, chunk, frameEnd>>
    BY <1>12 DEF workVars
  <2> QED BY <2>1 DEF WorkTypes, Framed, Handled
<1> QED BY <1>1, <1>2, <1>3, <1>4, <1>5, <1>6, <1>7, <1>8, <1>9, <1>10, <1>11, <1>12, WorkStep DEF AndroidThread

(* Of the stream as bytes.                                                 *)
LEMMA BytesKept == Bytes /\ AndNext => Bytes'
<1> SUFFICES ASSUME Bytes, AndNext PROVE Bytes'
  OBVIOUS
<1>1. PhoneTypes /\ UartTypes /\ SourceTypes /\ WorkTypes /\ InLines /\ Framed /\ Handled /\ Silent
  BY AndTypesAre DEF Bytes
<1>2. PhoneTypes' /\ UartTypes' /\ SourceTypes' /\ WorkTypes' /\ InLines' /\ Framed' /\ Handled' /\ Silent'
  BY <1>1, PhoneTyped, UartTyped, SourceTyped, WorkTyped
<1>3. AndTypeOK'
  BY <1>2, Zenon DEF AndTypeOK, PhoneTypes, UartTypes, SourceTypes, WorkTypes
<1> QED BY <1>2, <1>3 DEF Bytes

BtcTypes == btc \in {"down", "up", "closing", "clear", "tell"}

(* At first there is no source.                                            *)
LEMMA SourcesInit == AndInit => Sources
BY Zenon DEF AndInit, Sources, Ended, Agreed, Unshown

(* Source and Phone agree, step by step.                                   *)
LEMMA SourcesKept == Sources /\ BtcTypes /\ AndNext => Sources'
<1> SUFFICES ASSUME Sources, BtcTypes, AndNext PROVE Sources'
  OBVIOUS
<1> USE DEF Sources, Ended, Agreed, Unshown, BtcTypes
<1>1. ASSUME NEW m \in Command, Say(m) PROVE Sources'
  BY <1>1, Zenon DEF Say, btcVars, srcVars, workVars, storeVars
<1>2. CASE Write
  BY <1>2, Zenon DEF Write, btcVars, srcVars, workVars, storeVars
<1>3. CASE Connect
  BY <1>3, Zenon DEF Connect, uartVars, srcVars, workVars, storeVars
<1>4. CASE LinkEnds
  BY <1>4, Zenon DEF LinkEnds, uartVars, srcVars, workVars, storeVars
<1>5. CASE OnDisconnect
  BY <1>5, Zenon DEF OnDisconnect, InHand, uartVars, workVars, storeVars
<1>6. CASE OnDisconnectClear
  BY <1>6, Zenon DEF OnDisconnectClear, uartVars, workVars, storeVars
<1>7. CASE PhoneOnDisconnect
  BY <1>7, Zenon DEF PhoneOnDisconnect, InHand, uartVars, srcVars, workVars
<1>8. CASE UartLoop
  BY <1>8, Zenon DEF UartLoop, btcVars, srcVars, workVars, storeVars
<1>9. CASE Scan
  BY <1>9, Zenon DEF Scan, Thread, btcVars, srcVars, storeVars
<1>10. CASE AppendChunk
  BY <1>10, Zenon DEF AppendChunk, Thread, btcVars, srcVars, storeVars
<1>11. CASE FindFrame
  BY <1>11, Zenon DEF FindFrame, Thread, btcVars, srcVars, storeVars
<1>12. CASE Extract
  BY <1>12, Zenon DEF Extract, Thread, btcVars, srcVars, storeVars
<1>13. CASE HandleHello
  BY <1>13, Zenon DEF HandleHello, Thread, btcVars, srcVars, storeVars
<1>14. CASE PhoneOnConnect
  BY <1>14, Zenon DEF PhoneOnConnect, Thread, btcVars, srcVars, storeVars
<1>15. CASE NotifList
  BY <1>15, Zenon DEF NotifList, Thread, btcVars, srcVars, storeVars
<1>16. CASE HandleCommand
  BY <1>16, Zenon DEF HandleCommand, Thread, btcVars, srcVars, storeVars
<1>17. CASE IgnoreCommand
  BY <1>17, Zenon DEF IgnoreCommand, Thread, btcVars, srcVars, storeVars
<1>18. CASE HandleCallIncoming
  BY <1>18, Zenon DEF HandleCallIncoming, Thread, btcVars, srcVars, storeVars
<1>19. CASE HandleNotif
  BY <1>19, Zenon DEF HandleNotif, Thread, btcVars, srcVars, storeVars
<1>20. CASE CallIgnore
  BY <1>20, Zenon DEF CallIgnore, LVGL, btcVars, uartVars, srcVars, workVars
<1>21. CASE CallReject
  BY <1>21, Zenon DEF CallReject, LVGL, btcVars, uartVars, srcVars, workVars
<1>22. CASE ActionNeg
  BY <1>22, Zenon DEF ActionNeg, LVGL, btcVars, uartVars, srcVars, workVars
<1> QED BY Zenon, <1>1, <1>2, <1>3, <1>4, <1>5, <1>6, <1>7, <1>8, <1>9, <1>10, <1>11, <1>12, <1>13, <1>14, <1>15, <1>16, <1>17, <1>18, <1>19, <1>20, <1>21, <1>22 DEF AndNext, BTC, AndroidThread

(* Sequences with the same elements are the same.                          *)
LEMMA SameSeq ==
  ASSUME NEW S, NEW a \in Seq(S), NEW b \in Seq(S), Len(a) = Len(b), \A i \in 1 .. Len(a) : a[i] = b[i]
  PROVE  a = b
OBVIOUS

(* The first of two joined sequences loses its head.                       *)
LEMMA JoinTaken ==
  ASSUME NEW q \in Seq(Token), NEW o \in Seq(Token), q # <<>>
  PROVE  q \o o # <<>> /\ Head(q \o o) = Head(q) /\ Tail(q) \o o = Tail(q \o o)
<1>1. /\ Len(q) \in Nat /\ Len(q) > 0 /\ Len(o) \in Nat /\ q \o o \in Seq(Token) /\ Len(q \o o) = Len(q) + Len(o)
      /\ Len(Tail(q)) = Len(q) - 1 /\ Tail(q) \in Seq(Token) /\ \A i \in 1 .. Len(Tail(q)) : Tail(q)[i] = q[i + 1]
      /\ Head(q) = q[1] /\ (q \o o)[1] = q[1]
  OBVIOUS
<1>2. q \o o # <<>>
  <2>1. Len(q \o o) # 0
    BY <1>1
  <2> QED BY <2>1
<1>3. Head(q \o o) = Head(q)
  BY <1>1, <1>2
<1> DEFINE a == Tail(q) \o o
           b == Tail(q \o o)
<1>4. a \in Seq(Token) /\ b \in Seq(Token) /\ Len(a) = Len(b) /\ Len(a) = Len(q) - 1 + Len(o)
  BY <1>1, <1>2
<1>5. ASSUME NEW i \in 1 .. Len(a) PROVE a[i] = b[i]
  <2>1. b[i] = (q \o o)[i + 1]
    BY <1>1, <1>2, <1>4
  <2>2. CASE i \in 1 .. Len(Tail(q))
    BY <1>1, <2>1, <2>2
  <2>3. CASE ~(i \in 1 .. Len(Tail(q)))
    <3>1. i > Len(Tail(q)) /\ i - Len(Tail(q)) \in 1 .. Len(o) /\ i + 1 > Len(q) /\ i + 1 =< Len(q) + Len(o)
      BY <1>1, <1>4, <2>3
    <3>2. a[i] = o[i - Len(Tail(q))]
      BY <1>1, <3>1
    <3>3. (q \o o)[i + 1] = o[i + 1 - Len(q)]
      BY <1>1, <3>1
    <3> QED BY <1>1, <2>1, <3>2, <3>3
  <2> QED BY <2>2, <2>3
<1>6. a = b
  <2> HIDE DEF a, b
  <2> QED BY <1>4, <1>5, SameSeq
<1> QED BY <1>2, <1>3, <1>6

(* A token moves from the second to the first.                             *)
LEMMA JoinMoved ==
  ASSUME NEW q \in Seq(Token), NEW o \in Seq(Token), o # <<>>
  PROVE  Append(q, Head(o)) \o Tail(o) = q \o o
<1>1. /\ Len(q) \in Nat /\ Len(o) \in Nat /\ Len(o) > 0 /\ q \o o \in Seq(Token) /\ Len(q \o o) = Len(q) + Len(o)
      /\ Len(Tail(o)) = Len(o) - 1 /\ Tail(o) \in Seq(Token) /\ \A i \in 1 .. Len(Tail(o)) : Tail(o)[i] = o[i + 1]
      /\ Head(o) = o[1] /\ Head(o) \in Token
  OBVIOUS
<1> DEFINE p == Append(q, Head(o))
           a == p \o Tail(o)
           b == q \o o
<1>2. /\ p \in Seq(Token) /\ Len(p) = Len(q) + 1 /\ p[Len(q) + 1] = o[1] /\ \A i \in 1 .. Len(q) : p[i] = q[i]
  BY <1>1
<1>3. a \in Seq(Token) /\ Len(a) = Len(b)
  BY <1>1, <1>2
<1>4. ASSUME NEW i \in 1 .. Len(a) PROVE a[i] = b[i]
  <2>1. CASE i \in 1 .. Len(q)
    BY <1>1, <1>2, <2>1
  <2>2. CASE i = Len(q) + 1
    BY <1>1, <1>2, <2>2
  <2>3. CASE i > Len(q) + 1
    <3> HIDE DEF p
    <3>0. i =< Len(q) + Len(o)
      BY <1>1, <1>2, <1>3
    <3>1. i - Len(q) - 1 \in 1 .. Len(Tail(o)) /\ i - Len(q) \in 1 .. Len(o)
      BY <1>1, <2>3, <3>0
    <3>2. a[i] = Tail(o)[i - Len(p)] /\ i - Len(p) = i - Len(q) - 1
      BY <1>1, <1>2, <2>3, <3>0
    <3>3. b[i] = o[i - Len(q)]
      BY <1>1, <2>3, <3>0
    <3>4. Tail(o)[i - Len(q) - 1] = o[i - Len(q) - 1 + 1]
      BY <1>1, <3>1
    <3>5. i - Len(q) - 1 + 1 = i - Len(q)
      BY <1>1, <3>0
    <3> HIDE DEF a, b
    <3> QED BY <3>2, <3>3, <3>4, <3>5
  <2> QED BY <1>1, <1>3, <2>1, <2>2, <2>3
<1>5. a = b
  <2> HIDE DEF a, b
  <2> QED BY <1>1, <1>3, <1>4 DEF b
<1> QED BY <1>5

(* What is so of the beginning stays so when a message is added.           *)
LEMMA StartsMore ==
  ASSUME NEW f \in Seq(Token), NEW g \in Seq(Token), NEW n \in Nat, Starts(f, n)
  PROVE  Starts(f \o g, n)
BY DEF Starts

(* A message added has its newlines.                                       *)
LEMMA FollowedMore ==
  ASSUME NEW f \in Seq(Token), Followed(f), NEW m \in Command
  PROVE  Followed(f \o Message(m))
<1> DEFINE g == Message(m)
           h == f \o g
<1>1. g \in Seq(Token) /\ h \in Seq(Token) /\ Len(h) = Len(f) + Len(g) /\ Len(f) \in Nat /\ Len(g) \in Nat
      /\ (\A i \in 1 .. Len(f) : h[i] = f[i]) /\ \A i \in Len(f) + 1 .. Len(h) : h[i] = g[i - Len(f)]
  BY MessageType
<1>2. ASSUME NEW i \in 1 .. Len(g), g[i] \in Command
      PROVE  i = 1 /\ 2 \in 1 .. Len(g) /\ g[2] = "nl" /\ (g[1] = "add" => 3 \in 1 .. Len(g) /\ g[3] = "nl")
  <2>1. CASE m = "add"
    <3>1. g = <<"add", "nl", "nl">>
      BY <2>1, MessageType
    <3>2. Len(g) = 3 /\ g[1] = "add" /\ g[2] = "nl" /\ g[3] = "nl"
      BY <3>1
    <3> HIDE DEF g
    <3>3. i \in 1 .. 3
      BY <3>2
    <3>4. i = 1
      BY <1>2, <3>2, <3>3 DEF Command
    <3> QED BY <3>2, <3>4
  <2>2. CASE m # "add"
    <3>1. g = <<m, "nl">>
      BY <2>2, MessageType
    <3>2. Len(g) = 2 /\ g[1] = m /\ g[2] = "nl"
      BY <3>1
    <3> HIDE DEF g
    <3> QED BY <1>2, <2>2, <3>2 DEF Command
  <2> QED BY <2>1, <2>2
<1>3. ASSUME NEW i \in 1 .. Len(h), h[i] \in Command
      PROVE  /\ i + 1 \in 1 .. Len(h) /\ h[i + 1] = "nl"
             /\ h[i] = "add" => i + 2 \in 1 .. Len(h) /\ h[i + 2] = "nl"
  <2> HIDE DEF h, g
  <2>1. CASE i \in 1 .. Len(f)
    <3>1. f[i] \in Command /\ h[i] = f[i]
      BY <1>1, <1>3, <2>1
    <3>2. /\ i + 1 \in 1 .. Len(f) /\ f[i + 1] = "nl"
          /\ f[i] = "add" => i + 2 \in 1 .. Len(f) /\ f[i + 2] = "nl"
      BY <2>1, <3>1 DEF Followed
    <3> QED BY <1>1, <3>1, <3>2
  <2>2. CASE ~(i \in 1 .. Len(f))
    <3>1. i - Len(f) \in 1 .. Len(g) /\ i \in Len(f) + 1 .. Len(h) /\ h[i] = g[i - Len(f)]
      BY <1>1, <2>2
    <3>2. i - Len(f) = 1 /\ 2 \in 1 .. Len(g) /\ g[2] = "nl" /\ (g[1] = "add" => 3 \in 1 .. Len(g) /\ g[3] = "nl")
      BY <1>2, <1>3, <3>1
    <3>3. i = Len(f) + 1 /\ i + 1 \in Len(f) + 1 .. Len(h) /\ i + 1 - Len(f) = 2 /\ i + 2 - Len(f) = 3
      BY <1>1, <3>1, <3>2
    <3>4. h[i + 1] = "nl" /\ i + 1 \in 1 .. Len(h)
      BY <1>1, <3>2, <3>3
    <3>5. ASSUME h[i] = "add" PROVE i + 2 \in 1 .. Len(h) /\ h[i + 2] = "nl"
      <4>1. 3 \in 1 .. Len(g) /\ g[3] = "nl"
        BY <3>1, <3>2, <3>5
      <4>2. i + 2 \in Len(f) + 1 .. Len(h) /\ i + 2 \in 1 .. Len(h)
        BY <1>1, <3>3, <4>1
      <4>3. h[i + 2] = g[i + 2 - Len(f)] /\ i + 2 - Len(f) = 3
        BY <1>1, <3>3, <4>2
      <4> QED BY <4>1, <4>2, <4>3
    <3> QED BY <3>4, <3>5
  <2> QED BY <2>1, <2>2
<1> QED BY <1>3 DEF Followed

(* What follows keeps its newlines.                                        *)
LEMMA FollowedTail ==
  ASSUME NEW f \in Seq(Token), f # <<>>, Followed(f)
  PROVE  Followed(Tail(f))
<1>1. Len(Tail(f)) = Len(f) - 1 /\ Len(f) \in Nat \ {0} /\ \A i \in 1 .. Len(Tail(f)) : Tail(f)[i] = f[i + 1]
  BY TailType
<1>2. ASSUME NEW i \in 1 .. Len(Tail(f)), Tail(f)[i] \in Command
      PROVE  /\ i + 1 \in 1 .. Len(Tail(f)) /\ Tail(f)[i + 1] = "nl"
             /\ Tail(f)[i] = "add" => i + 2 \in 1 .. Len(Tail(f)) /\ Tail(f)[i + 2] = "nl"
  <2>1. i + 1 \in 1 .. Len(f) /\ f[i + 1] \in Command /\ Tail(f)[i] = f[i + 1]
    BY <1>1, <1>2
  <2>2. /\ i + 2 \in 1 .. Len(f) /\ f[i + 2] = "nl"
        /\ f[i + 1] = "add" => i + 3 \in 1 .. Len(f) /\ f[i + 3] = "nl"
    <3>1. (i + 1) + 1 = i + 2 /\ (i + 1) + 2 = i + 3
      OBVIOUS
    <3> QED BY <2>1, <3>1 DEF Followed
  <2>3. i + 1 \in 1 .. Len(Tail(f)) /\ (i + 3 \in 1 .. Len(f) => i + 2 \in 1 .. Len(Tail(f)))
    BY <1>1, <2>2
  <2>4. Tail(f)[i + 1] = f[i + 2]
    <3>1. (i + 1) + 1 = i + 2
      OBVIOUS
    <3> QED BY <1>1, <2>3, <3>1
  <2>5. i + 2 \in 1 .. Len(Tail(f)) => Tail(f)[i + 2] = f[i + 3]
    <3>1. (i + 2) + 1 = i + 3
      OBVIOUS
    <3> QED BY <1>1, <3>1
  <2> QED BY <2>1, <2>2, <2>3, <2>4, <2>5
<1> QED BY <1>2 DEF Followed

(* The newlines after a command, and one of them taken.                    *)
LEMMA StartsTail ==
  ASSUME NEW f \in Seq(Token), f # <<>>
  PROVE  /\ Starts(f, 2) => Starts(Tail(f), 1)
         /\ Starts(f, 2) => Starts(f, 1)
         /\ Starts(f, 1) => Head(f) = "nl"
         /\ Followed(f) /\ Head(f) \in Command => Starts(Tail(f), IF Head(f) = "add" THEN 2 ELSE 1)
<1>1. /\ Len(Tail(f)) = Len(f) - 1 /\ Len(f) \in Nat \ {0} /\ Head(f) = f[1]
      /\ \A i \in 1 .. Len(Tail(f)) : Tail(f)[i] = f[i + 1]
  BY TailType
<1>2. Starts(f, 2) => Starts(Tail(f), 1) /\ Starts(f, 1)
  BY <1>1 DEF Starts
<1>3. Starts(f, 1) => Head(f) = "nl"
  BY <1>1 DEF Starts
<1>4. ASSUME Followed(f), Head(f) \in Command PROVE Starts(Tail(f), IF Head(f) = "add" THEN 2 ELSE 1)
  <2>1. 1 \in 1 .. Len(f) /\ f[1] \in Command /\ 1 + 1 = 2 /\ 1 + 2 = 3
    BY <1>1, <1>4
  <2>2. 2 \in 1 .. Len(f) /\ f[2] = "nl" /\ (f[1] = "add" => 3 \in 1 .. Len(f) /\ f[3] = "nl")
    BY <1>4, <2>1 DEF Followed
  <2>3. 1 =< Len(Tail(f)) /\ Tail(f)[1] = "nl"
    BY <1>1, <2>2
  <2>4. f[1] = "add" => 2 =< Len(Tail(f)) /\ Tail(f)[2] = "nl"
    BY <1>1, <2>2
  <2> QED BY <1>1, <2>3, <2>4 DEF Starts
<1> QED BY <1>2, <1>3, <1>4

WholeLine(u, ls, f) == Followed(f) /\ UartWhole(u, f) /\ LinesWhole(ls, u, f)

(* A message of the phone, and what it leaves alone.                       *)
LEMMA Grows ==
  ASSUME NEW f \in Seq(Token), NEW u, NEW ls, NEW m \in Command, WholeLine(u, ls, f)
  PROVE  WholeLine(u, ls, f \o Message(m)) /\ (Closing(ls, u, f) => Closing(ls, u, f \o Message(m)))
<1> DEFINE h == f \o Message(m)
<1>1. Starts(f, 1) => Starts(h, 1)
  BY MessageType, StartsMore
<1>2. Starts(f, 2) => Starts(h, 2)
  BY MessageType, StartsMore
<1>3. Followed(h)
  BY FollowedMore DEF WholeLine
<1> HIDE DEF h
<1>4. UartWhole(u, h)
  <2>1. ASSUME u # <<>> PROVE \E c \in Command : u = <<c>> /\ Starts(h, IF c = "add" THEN 2 ELSE 1)
    <3>1. PICK c \in Command : u = <<c>> /\ Starts(f, IF c = "add" THEN 2 ELSE 1)
      BY <2>1 DEF WholeLine, UartWhole
    <3>2. Starts(h, IF c = "add" THEN 2 ELSE 1)
      BY <1>1, <1>2, <3>1
    <3> QED BY <3>1, <3>2
  <2> QED BY <2>1 DEF UartWhole
<1>5. LinesWhole(ls, u, h)
  BY <1>1, Zenon DEF WholeLine, LinesWhole
<1>6. Closing(ls, u, f) => Closing(ls, u, h)
  BY <1>1, Zenon DEF Closing
<1> QED BY <1>3, <1>4, <1>5, <1>6 DEF WholeLine, h

(* The sequences that pieces and messages are.                             *)
LEMMA Tuples ==
  /\ Append(<<>>, "nl") = <<"nl">>
  /\ \A m \in Command : Append(<<>>, m) = <<m>>
  /\ \A m \in Command : Append(<<m>>, "nl") = <<m, "nl">>
  /\ Opening \o <<"nl">> = Message("add") /\ Opening \in Seq(Token) /\ Opening # <<>>
  /\ \A m \in Command : <<m, "nl">> = Opening <=> m = "add"
  /\ <<"nl">> # Opening /\ <<"nl">> # <<>> /\ Message("add") # Opening
<1>1. Append(<<>>, "nl") = <<"nl">> /\ \A m \in Command : Append(<<>>, m) = <<m>>
  OBVIOUS
<1>2. ASSUME NEW m \in Command PROVE Append(<<m>>, "nl") = <<m, "nl">>
  <2> DEFINE a == Append(<<m>>, "nl")
             b == <<m, "nl">>
  <2>1. m \in Token /\ "nl" \in Token
    BY DEF Command, Token
  <2>2. a \in Seq(Token) /\ b \in Seq(Token) /\ Len(a) = 2 /\ Len(b) = 2 /\ a[1] = b[1] /\ a[2] = b[2]
    BY <2>1
  <2> HIDE DEF a, b
  <2>3. \A i \in 1 .. Len(a) : a[i] = b[i]
    BY <2>2
  <2>4. a = b
    BY <2>2, <2>3, SameSeq
  <2> QED BY <2>4 DEF a, b
<1>3. Opening \in Seq(Token) /\ Opening # <<>> /\ Len(Opening) = 2 /\ Opening[1] = "add" /\ Opening[2] = "nl"
  BY DEF Opening, Token
<1>4. Opening \o <<"nl">> = Message("add")
  <2> DEFINE a == Opening \o <<"nl">>
             b == <<"add", "nl", "nl">>
  <2>1. a \in Seq(Token) /\ b \in Seq(Token) /\ Len(a) = 3 /\ Len(b) = 3 /\ a[1] = b[1] /\ a[2] = b[2] /\ a[3] = b[3]
    <3>1. b \in Seq(Token) /\ Len(b) = 3 /\ b[1] = "add" /\ b[2] = "nl" /\ b[3] = "nl"
      BY DEF Token
    <3>2. <<"nl">> \in Seq(Token) /\ Len(<<"nl">>) = 1 /\ <<"nl">>[1] = "nl"
      BY DEF Token
    <3>3. a \in Seq(Token) /\ Len(a) = 3 /\ a[1] = "add" /\ a[2] = "nl" /\ a[3] = "nl"
      <4>1. ASSUME NEW o \in Seq(Token), NEW n \in Seq(Token), Len(o) = 2, Len(n) = 1
            PROVE  /\ o \o n \in Seq(Token) /\ Len(o \o n) = 3
                   /\ (o \o n)[1] = o[1] /\ (o \o n)[2] = o[2] /\ (o \o n)[3] = n[1]
        <5>1. /\ o \o n \in Seq(Token) /\ Len(o \o n) = Len(o) + Len(n)
              /\ \A i \in 1 .. Len(o) : (o \o n)[i] = o[i]
              /\ \A i \in Len(o) + 1 .. Len(o) + Len(n) : (o \o n)[i] = n[i - Len(o)]
          OBVIOUS
        <5>2. (o \o n)[3] = n[3 - 2] /\ 3 - 2 = 1
          BY <4>1, <5>1
        <5> QED BY <4>1, <5>1, <5>2
      <4> QED BY <1>3, <3>2, <4>1, Zenon
    <3> HIDE DEF a, b
    <3> QED BY <3>1, <3>3
  <2> HIDE DEF a, b
  <2>2. \A i \in 1 .. Len(a) : a[i] = b[i]
    BY <2>1
  <2>3. a = b
    BY <2>1, <2>2, SameSeq
  <2> QED BY <2>3 DEF a, b, Message
<1>5. ASSUME NEW m \in Command PROVE <<m, "nl">> = Opening <=> m = "add"
  <2>1. <<m, "nl">>[1] = m /\ (m = "add" => <<m, "nl">> = Opening)
    BY DEF Opening
  <2> QED BY <1>3, <2>1
<1>6. <<"nl">> # Opening /\ <<"nl">> # <<>>
  BY <1>3
<1>7. Message("add") # Opening
  BY <1>3 DEF Message
<1> QED BY <1>1, <1>2, <1>3, <1>4, <1>5, <1>6, <1>7

(* A newline ends the UART's line.                                         *)
LEMMA CutsLine ==
  ASSUME NEW f \in Seq(Token), f # <<>>, Head(f) = "nl", NEW u, NEW ls \in Seq(Seq(Token)),
         WholeLine(u, ls, f), NEW l, l = Append(u, "nl"), l \in Seq(Token)
  PROVE  /\ WholeLine(<<>>, Append(ls, l), Tail(f))
         /\ Closing(ls, u, f) => Closing(Append(ls, l), <<>>, Tail(f))
<1>1. Followed(Tail(f))
  BY FollowedTail DEF WholeLine
<1>2. UartWhole(<<>>, Tail(f))
  BY DEF UartWhole
<1>3. u = <<>> => l = <<"nl">>
  BY Tuples
<1>4. l \in Piece /\ (l = Opening => Starts(Tail(f), 1))
  <2>1. CASE u = <<>>
    BY <1>3, <2>1, Tuples DEF Piece
  <2>2. CASE u # <<>>
    <3>1. PICK m \in Command : u = <<m>> /\ Starts(f, IF m = "add" THEN 2 ELSE 1)
      BY <2>2 DEF WholeLine, UartWhole
    <3>2. l = <<m, "nl">>
      BY <3>1, Tuples
    <3>3. l = Opening => m = "add"
      BY <3>2, Tuples
    <3>4. m = "add" => Starts(Tail(f), 1)
      BY <3>1, StartsTail
    <3> QED BY <3>2, <3>3, <3>4 DEF Piece
  <2> QED BY <2>1, <2>2
<1> DEFINE k == Append(ls, l)
<1>5. /\ k \in Seq(Seq(Token)) /\ Len(k) = Len(ls) + 1 /\ Len(ls) \in Nat
      /\ k[Len(ls) + 1] = l /\ \A i \in 1 .. Len(ls) : k[i] = ls[i]
  OBVIOUS
<1> HIDE DEF k
<1>6. ASSUME NEW i \in 1 .. Len(k)
      PROVE  /\ k[i] \in Piece
             /\ k[i] = Opening => IF i = Len(k) THEN <<>> = <<>> /\ Starts(Tail(f), 1) ELSE k[i + 1] = <<"nl">>
  <2>1. CASE i = Len(ls) + 1
    BY <1>4, <1>5, <2>1
  <2>2. CASE i \in 1 .. Len(ls)
    <3>1. /\ ls[i] \in Piece
          /\ ls[i] = Opening => IF i = Len(ls) THEN u = <<>> /\ Starts(f, 1) ELSE ls[i + 1] = <<"nl">>
      BY <2>2 DEF WholeLine, LinesWhole
    <3>2. i # Len(k)
      BY <1>5, <2>2
    <3>3. CASE i = Len(ls)
      BY <1>3, <1>5, <2>2, <3>1, <3>2, <3>3
    <3>4. CASE i # Len(ls)
      <4>1. i + 1 \in 1 .. Len(ls)
        <5>1. Len(ls) \in Nat
          BY <1>5
        <5> QED BY <2>2, <3>4, <5>1
      <4>2. k[i] = ls[i] /\ k[i + 1] = ls[i + 1]
        BY <1>5, <2>2, <4>1
      <4> QED BY <3>1, <3>2, <3>4, <4>2
    <3> QED BY <3>3, <3>4
  <2>3. i = Len(ls) + 1 \/ i \in 1 .. Len(ls)
    <3>1. Len(ls) \in Nat /\ Len(k) = Len(ls) + 1
      BY <1>5
    <3> QED BY <3>1
  <2> QED BY <2>1, <2>2, <2>3, Zenon
<1>7. LinesWhole(k, <<>>, Tail(f))
  BY <1>6 DEF LinesWhole
<1>8. Closing(ls, u, f) => Closing(k, <<>>, Tail(f))
  <2>1. k # <<>>
    <3>1. Len(k) # 0
      BY <1>5
    <3> QED BY <3>1
  <2>2. Head(k) = k[1]
    BY <1>5, <2>1
  <2>3. CASE ls = <<>>
    BY <1>3, <1>5, <2>1, <2>2, <2>3 DEF Closing
  <2>4. CASE ls # <<>>
    <3>1. 1 \in 1 .. Len(ls) /\ Head(ls) = ls[1]
      BY <1>5, <2>4
    <3> QED BY <1>5, <2>1, <2>2, <2>4, <3>1 DEF Closing
  <2> QED BY <2>3, <2>4
<1> QED BY <1>1, <1>2, <1>7, <1>8 DEF WholeLine, k

(* A command begins the UART's next line.                                  *)
LEMMA BeginsLine ==
  ASSUME NEW f \in Seq(Token), f # <<>>, Head(f) \in Command, NEW u, NEW ls, WholeLine(u, ls, f)
  PROVE  /\ u = <<>> /\ WholeLine(Append(u, Head(f)), ls, Tail(f))
         /\ Closing(ls, u, f) => Closing(ls, Append(u, Head(f)), Tail(f))
<1>0. ~Starts(f, 1) /\ ~Starts(f, 2)
  BY StartsTail DEF Command
<1>1. u = <<>>
  BY <1>0 DEF WholeLine, UartWhole
<1>2. Append(u, Head(f)) = <<Head(f)>>
  BY <1>1, Tuples
<1>3. Followed(Tail(f)) /\ Starts(Tail(f), IF Head(f) = "add" THEN 2 ELSE 1)
  BY FollowedTail, StartsTail DEF WholeLine
<1>4. UartWhole(<<Head(f)>>, Tail(f))
  BY <1>3 DEF UartWhole
<1>5. LinesWhole(ls, <<Head(f)>>, Tail(f))
  BY <1>0, Zenon DEF WholeLine, LinesWhole
<1>6. Closing(ls, u, f) => Closing(ls, <<Head(f)>>, Tail(f))
  BY <1>0, Zenon DEF Closing
<1> QED BY <1>1, <1>2, <1>3, <1>4, <1>5, <1>6 DEF WholeLine

(* The first line is taken.                                                *)
LEMMA TakesLine ==
  ASSUME NEW f, NEW u, NEW ls \in Seq(Seq(Token)), ls # <<>>, LinesWhole(ls, u, f)
  PROVE  /\ LinesWhole(Tail(ls), u, f) /\ Head(ls) \in Piece
         /\ Head(ls) = Opening => Closing(Tail(ls), u, f)
         /\ Closing(ls, u, f) => Head(ls) = <<"nl">>
<1> DEFINE k == Tail(ls)
<1>1. /\ Head(ls) = ls[1] /\ Len(k) = Len(ls) - 1 /\ Len(ls) \in Nat \ {0} /\ k \in Seq(Seq(Token))
      /\ \A i \in 1 .. Len(k) : k[i] = ls[i + 1]
  BY TailType
<1> HIDE DEF k
<1>2. ASSUME NEW i \in 1 .. Len(ls)
      PROVE  /\ ls[i] \in Piece
             /\ ls[i] = Opening => IF i = Len(ls) THEN u = <<>> /\ Starts(f, 1) ELSE ls[i + 1] = <<"nl">>
  BY DEF LinesWhole
<1>3. ASSUME NEW i \in 1 .. Len(k)
      PROVE  /\ k[i] \in Piece
             /\ k[i] = Opening => IF i = Len(k) THEN u = <<>> /\ Starts(f, 1) ELSE k[i + 1] = <<"nl">>
  <2>1. i + 1 \in 1 .. Len(ls) /\ k[i] = ls[i + 1] /\ (i = Len(k) <=> i + 1 = Len(ls))
    BY <1>1
  <2>2. ASSUME i # Len(k) PROVE i + 1 \in 1 .. Len(k) /\ k[i + 1] = ls[(i + 1) + 1]
    <3>1. Len(k) \in Nat
      BY <1>1
    <3>2. i + 1 \in 1 .. Len(k)
      BY <2>2, <3>1
    <3> QED BY <1>1, <3>2
  <2>3. /\ ls[i + 1] \in Piece
        /\ ls[i + 1] = Opening => IF i + 1 = Len(ls) THEN u = <<>> /\ Starts(f, 1) ELSE ls[(i + 1) + 1] = <<"nl">>
    BY <1>2, <2>1
  <2> QED BY <2>1, <2>2, <2>3
<1>4. Head(ls) \in Piece
  BY <1>1, <1>2
<1>5. Head(ls) = Opening => Closing(k, u, f)
  <2>1. 1 \in 1 .. Len(ls)
    BY <1>1
  <2>2. ls[1] = Opening => IF 1 = Len(ls) THEN u = <<>> /\ Starts(f, 1) ELSE ls[1 + 1] = <<"nl">>
    BY <1>2, <2>1
  <2>3. k = <<>> <=> Len(ls) = 1
    <3>1. ASSUME Len(k) = 0 PROVE k = <<>>
      <4>1. <<>> \in Seq(Seq(Token)) /\ Len(<<>>) = Len(k) /\ \A i \in 1 .. Len(<<>>) : <<>>[i] = k[i]
        BY <3>1
      <4> QED BY <1>1, <4>1, SameSeq
    <3> QED BY <1>1, <3>1
  <2>4. k # <<>> => Head(k) = ls[1 + 1]
    BY <1>1
  <2> QED BY <1>1, <2>2, <2>3, <2>4 DEF Closing
<1>6. Closing(ls, u, f) => Head(ls) = <<"nl">>
  BY DEF Closing
<1> QED BY <1>3, <1>4, <1>5, <1>6 DEF LinesWhole, k

(* What the Android thread holds carries over a step of the others.        *)
LEMMA BufferKept ==
  ASSUME BufferWhole, UNCHANGED <<pc, chunk>>, rxBuf' \in {rxBuf, <<>>},
         Closing(lines, uartBuf, Flow) => Closing(lines', uartBuf', Flow')
  PROVE  BufferWhole'
<1>1. <<>> # Opening
  BY Tuples
<1> USE DEF BufferWhole
<1>2. CASE rxBuf' = rxBuf
  BY <1>2, Zenon
<1>3. CASE rxBuf' = <<>>
  BY <1>1, <1>3, Zenon
<1> QED BY <1>2, <1>3

(* The types of the stream.                                                *)
LEMMA FlowTyped == Bytes => Flow \in Seq(Token) /\ writeQ \in Seq(Token) /\ outgoing \in Seq(Token)
                           /\ uartBuf \in Seq(Token \ {"nl"}) /\ lines \in Seq(Seq(Token))
BY DEF Bytes, AndTypeOK, Flow

(* The UART takes the first of what is on its way.                         *)
LEMMA FlowTaken ==
  ASSUME Bytes, writeQ # <<>>, writeQ' = Tail(writeQ), outgoing' = outgoing
  PROVE  Flow # <<>> /\ Flow' = Tail(Flow) /\ Head(Flow) = Head(writeQ) /\ Head(writeQ) \in Token
<1>1. writeQ \in Seq(Token) /\ outgoing \in Seq(Token)
  BY FlowTyped
<1>2. /\ writeQ \o outgoing # <<>> /\ Head(writeQ \o outgoing) = Head(writeQ)
      /\ Tail(writeQ) \o outgoing = Tail(writeQ \o outgoing)
  BY <1>1, JoinTaken
<1>3. Head(writeQ) \in Token
  BY <1>1
<1>4. Flow' = Tail(writeQ) \o outgoing
  BY Zenon DEF Flow
<1> QED BY <1>2, <1>3, <1>4, Zenon DEF Flow

(* At first nothing is on its way.                                         *)
LEMMA WholeInit == AndInit => Whole
<1> SUFFICES ASSUME AndInit PROVE Whole
  OBVIOUS
<1>1. Flow = <<>>
  BY DEF AndInit, Flow
<1>2. Followed(<<>>) /\ UartWhole(<<>>, <<>>) /\ LinesWhole(<<>>, <<>>, <<>>)
  BY DEF Followed, UartWhole, LinesWhole
<1>3. BufferWhole
  BY Tuples DEF AndInit, BufferWhole
<1> QED BY <1>1, <1>2, <1>3 DEF AndInit, Whole

(* Messages stay whole on their way, as long as none is torn.              *)
LEMMA WholeKept == Bytes /\ Bytes' /\ Whole /\ AndNext => Whole'
<1> SUFFICES ASSUME Bytes, Bytes', Whole, AndNext, ~torn'
             PROVE  WholeLine(uartBuf, lines, Flow)' /\ BufferWhole' /\ ("junk" \notin notifs)'
  BY DEF Whole, WholeLine
<1>1. ~torn
  BY Zenon DEF AndNext, BTC, AndroidThread, Thread, LVGL, Say, Write, UartLoop, Scan, Connect, LinkEnds, OnDisconnect,
       OnDisconnectClear, PhoneOnDisconnect, AppendChunk, FindFrame, Extract, HandleHello, PhoneOnConnect, NotifList,
       HandleCommand, IgnoreCommand, HandleCallIncoming, HandleNotif, CallIgnore, CallReject, ActionNeg
<1>2. WholeLine(uartBuf, lines, Flow) /\ BufferWhole /\ "junk" \notin notifs
  BY <1>1 DEF Whole, WholeLine
<1>3. /\ Flow \in Seq(Token) /\ writeQ \in Seq(Token) /\ outgoing \in Seq(Token)
      /\ uartBuf \in Seq(Token \ {"nl"}) /\ lines \in Seq(Seq(Token)) /\ rxBuf \in Seq(Token)
  BY FlowTyped DEF Bytes, AndTypeOK
<1>4. \/ ("junk" \notin notifs)'
      \/ HandleNotif
  BY <1>2, Zenon DEF AndNext, BTC, AndroidThread, Thread, LVGL, storeVars, Say, Write, UartLoop, Scan, Connect, LinkEnds, OnDisconnect,
       OnDisconnectClear, PhoneOnDisconnect, AppendChunk, FindFrame, Extract, HandleHello, PhoneOnConnect, NotifList,
       HandleCommand, IgnoreCommand, HandleCallIncoming, CallIgnore, CallReject, ActionNeg
<1>5. CASE HandleNotif
  <2>1. chunk \in (Piece \ {Opening}) \cup {Message("add")} /\ Head(chunk) \in {"add", "call", "stop"}
    BY <1>2, <1>5 DEF BufferWhole, HandleNotif, Bytes, Handled
  <2>2. Head(chunk) = "add" => chunk = Message("add")
    <3>1. CASE chunk \in Piece \ {Opening}
      <4>1. CASE chunk = <<"nl">>
        BY <4>1
      <4>2. CASE chunk # <<"nl">>
        <5>1. PICK m \in Command : chunk = <<m, "nl">>
          BY <3>1, <4>2 DEF Piece
        <5>2. Head(chunk) = m /\ m # "add"
          BY <3>1, <5>1, Tuples
        <5> QED BY <5>2
      <4> QED BY <2>1, <4>1, <4>2
    <3> QED BY <2>1, <3>1
  <2>3. Head(chunk) # "stop" => Content # "junk"
    BY <2>1, <2>2 DEF Content
  <2>4. ("junk" \notin notifs)'
    BY <1>2, <1>5, <2>3, Zenon DEF HandleNotif
  <2>5. UNCHANGED <<lines, uartBuf, writeQ, outgoing, rxBuf>> /\ pc' = "find"
    BY <1>5, Zenon DEF HandleNotif, Thread, phoneVars
  <2>6. rxBuf = <<>>
    BY <1>5 DEF HandleNotif, Bytes, Framed
  <2>7. Flow' = Flow
    BY <2>5 DEF Flow
  <2>8. BufferWhole'
    BY <2>5, <2>6, Tuples DEF BufferWhole
  <2> QED BY <1>2, <2>4, <2>5, <2>7, <2>8
<1>6. ASSUME NEW m \in Command, Say(m) PROVE WholeLine(uartBuf, lines, Flow)' /\ BufferWhole'
  <2>1. outgoing = <<>> /\ outgoing' = Message(m) /\ UNCHANGED <<writeQ, uartBuf, lines, rxBuf, pc, chunk>>
    BY <1>6, Zenon DEF Say, uartVars, srcVars, workVars
  <2>2. Flow = writeQ /\ Flow' = Flow \o Message(m)
    BY <1>3, <2>1 DEF Flow
  <2>3. WholeLine(uartBuf, lines, Flow') /\ (Closing(lines, uartBuf, Flow) => Closing(lines, uartBuf, Flow'))
    BY <1>2, <1>3, <2>2, Grows
  <2>4. BufferWhole'
    BY <1>2, <2>1, <2>3, BufferKept
  <2> QED BY <2>1, <2>3, <2>4
<1>7. ASSUME Flow' = Flow, UNCHANGED <<uartBuf, lines, pc, chunk>>, rxBuf' \in {rxBuf, <<>>}
      PROVE  WholeLine(uartBuf, lines, Flow)' /\ BufferWhole'
  BY <1>2, <1>7, BufferKept
<1>8. ASSUME Write PROVE WholeLine(uartBuf, lines, Flow)' /\ BufferWhole'
  <2>1. Len(writeQ) # WriteLen
    BY <1>8, Zenon DEF Write
  <2>2. writeQ' = Append(writeQ, Head(outgoing)) /\ outgoing' = Tail(outgoing) /\ outgoing # <<>>
    BY <1>8, <2>1, Zenon DEF Write
  <2>3. Flow' = Flow
    BY <1>3, <2>2, JoinMoved DEF Flow
  <2>4. UNCHANGED <<uartBuf, lines, pc, chunk, rxBuf>>
    BY <1>8, Zenon DEF Write, workVars, srcVars
  <2> QED BY <1>7, <2>3, <2>4
<1>9. ASSUME LinkEnds PROVE WholeLine(uartBuf, lines, Flow)' /\ BufferWhole'
  <2>1. outgoing' = outgoing
    BY <1>9, Zenon DEF LinkEnds
  <2>2. UNCHANGED <<writeQ, uartBuf, lines, pc, chunk, rxBuf>>
    BY <1>9, Zenon DEF LinkEnds, uartVars, workVars, srcVars
  <2>3. Flow' = Flow
    BY <2>1, <2>2, Zenon DEF Flow
  <2> QED BY <1>7, <2>2, <2>3
<1>10. ASSUME UartLoop PROVE WholeLine(uartBuf, lines, Flow)' /\ BufferWhole'
  <2>1. /\ writeQ # <<>> /\ writeQ' = Tail(writeQ) /\ outgoing' = outgoing /\ UNCHANGED <<pc, chunk, rxBuf>>
    BY <1>10, Zenon DEF UartLoop, phoneVars, workVars, srcVars
  <2>2. Flow # <<>> /\ Flow' = Tail(Flow) /\ Head(Flow) = Head(writeQ) /\ Head(writeQ) \in Token
    BY <2>1, FlowTaken
  <2>3. CASE Head(writeQ) = "nl"
    <3>1. lines' = Append(lines, Append(uartBuf, "nl")) /\ uartBuf' = <<>>
      BY <1>10, <2>3, Zenon DEF UartLoop
    <3>2. Append(uartBuf, "nl") \in Seq(Token)
      BY <1>3 DEF Token
    <3>3. /\ WholeLine(<<>>, lines', Tail(Flow))
          /\ Closing(lines, uartBuf, Flow) => Closing(lines', <<>>, Tail(Flow))
      BY <1>2, <1>3, <2>2, <2>3, <3>1, <3>2, CutsLine
    <3>4. Closing(lines, uartBuf, Flow) => Closing(lines', uartBuf', Flow')
      BY <2>2, <3>1, <3>3
    <3>5. BufferWhole'
      BY <1>2, <2>1, <3>4, BufferKept
    <3>6. WholeLine(uartBuf', lines', Flow')
      BY <2>2, <3>1, <3>3
    <3> QED BY <3>5, <3>6
  <2>4. CASE Head(writeQ) # "nl"
    <3>1. uartBuf' = Append(uartBuf, Head(Flow)) /\ lines' = lines
      BY <1>10, <2>2, <2>4, Zenon DEF UartLoop
    <3>2. Head(Flow) \in Command
      BY <2>2, <2>4 DEF Command
    <3>3. /\ WholeLine(uartBuf', lines, Tail(Flow))
          /\ Closing(lines, uartBuf, Flow) => Closing(lines, uartBuf', Tail(Flow))
      BY <1>2, <1>3, <2>2, <3>1, <3>2, BeginsLine
    <3>4. Closing(lines, uartBuf, Flow) => Closing(lines', uartBuf', Flow')
      BY <2>2, <3>1, <3>3
    <3>5. BufferWhole'
      BY <1>2, <2>1, <3>4, BufferKept
    <3>6. WholeLine(uartBuf', lines', Flow')
      BY <2>2, <3>1, <3>3
    <3> QED BY <3>5, <3>6
  <2> QED BY <2>3, <2>4
<1>11. ASSUME Scan PROVE WholeLine(uartBuf, lines, Flow)' /\ BufferWhole'
  <2>1. /\ lines # <<>> /\ lines' = Tail(lines) /\ chunk' = Head(lines) /\ pc = "scan" /\ pc' = "append"
        /\ UNCHANGED <<writeQ, outgoing, uartBuf, rxBuf>>
    BY <1>11, Zenon DEF Scan, Thread, phoneVars, srcVars
  <2>2. Flow' = Flow
    BY <2>1 DEF Flow
  <2>3. /\ LinesWhole(lines', uartBuf, Flow) /\ chunk' \in Piece
        /\ chunk' = Opening => Closing(lines', uartBuf, Flow)
        /\ Closing(lines, uartBuf, Flow) => chunk' = <<"nl">>
    BY <1>2, <1>3, <2>1, TakesLine DEF WholeLine
  <2>4. WholeLine(uartBuf, lines', Flow)
    BY <1>2, <2>3 DEF WholeLine
  <2>5. BufferWhole'
    <3>1. rxBuf \in {<<>>, Opening} /\ (rxBuf = Opening => Closing(lines, uartBuf, Flow))
      BY <1>2, <2>1 DEF BufferWhole
    <3> QED BY <2>1, <2>2, <2>3, <3>1 DEF BufferWhole
  <2>6. WholeLine(uartBuf', lines', Flow')
    BY <2>1, <2>2, <2>4
  <2> QED BY <2>5, <2>6
<1>12. ASSUME AndroidThread, ~Scan, ~HandleNotif PROVE WholeLine(uartBuf, lines, Flow)' /\ BufferWhole'
  <2>1. UNCHANGED <<lines, uartBuf, writeQ, outgoing>>
    BY <1>12, Zenon DEF AndroidThread, Thread, phoneVars, AppendChunk, FindFrame, Extract, HandleHello, PhoneOnConnect,
       NotifList, HandleCommand, IgnoreCommand, HandleCallIncoming
  <2>2. Flow' = Flow
    BY <2>1 DEF Flow
  <2>3. CASE AppendChunk
    <3>1. /\ rxBuf \in {<<>>, Opening} /\ chunk \in Piece /\ (rxBuf = Opening => chunk = <<"nl">>)
          /\ (chunk = Opening => Closing(lines, uartBuf, Flow))
      BY <1>2, <2>3 DEF AppendChunk, BufferWhole
    <3>2. rxBuf' = rxBuf \o chunk /\ pc' = "find"
      BY <2>3 DEF AppendChunk
    <3>3. chunk \in Seq(Token)
      BY DEF Bytes, AndTypeOK
    <3>4. rxBuf' = chunk \/ rxBuf' = Message("add")
      <4>1. CASE rxBuf = <<>>
        BY <3>2, <3>3, <4>1
      <4>2. CASE rxBuf = Opening
        BY <3>1, <3>2, <4>2, Tuples
      <4> QED BY <3>1, <4>1, <4>2
    <3>5. Message("add") # Opening
      BY Tuples
    <3>6. BufferWhole'
      BY <2>1, <2>2, <3>1, <3>2, <3>4, <3>5 DEF BufferWhole
    <3> QED BY <1>2, <2>1, <2>2, <3>6
  <2>4. CASE FindFrame
    <3>1. /\ rxBuf \in Piece \cup {<<>>, Message("add")} /\ (rxBuf = Opening => Closing(lines, uartBuf, Flow))
      BY <1>2, <2>4 DEF FindFrame, BufferWhole
    <3>2. rxBuf' = rxBuf /\ pc' = IF FindFrameEnd(rxBuf) = 0 THEN "scan" ELSE "extract"
      BY <2>4 DEF FindFrame, srcVars
    <3>3. CASE FindFrameEnd(rxBuf) = 0
      <4>1. rxBuf \in {<<>>, Opening}
        <5>1. rxBuf # <<"nl">> /\ rxBuf # Message("add") /\ \A m \in Command \ {"add"} : rxBuf # <<m, "nl">>
          BY <3>3, EndOfPieces
        <5>2. rxBuf \in Piece => rxBuf = Opening
          BY <5>1, Zenon DEF Piece, Opening
        <5> QED BY <3>1, <5>1, <5>2
      <4>2. pc' = "scan"
        BY <3>2, <3>3
      <4>3. BufferWhole'
        BY <2>1, <2>2, <3>1, <3>2, <4>1, <4>2 DEF BufferWhole
      <4> QED BY <1>2, <2>1, <2>2, <4>3
    <3>4. CASE FindFrameEnd(rxBuf) # 0
      <4>1. rxBuf # Opening /\ pc' = "extract"
        BY <3>2, <3>4, EndOfPieces
      <4>2. BufferWhole'
        BY <3>1, <3>2, <4>1 DEF BufferWhole
      <4> QED BY <1>2, <2>1, <2>2, <4>2
    <3> QED BY <3>3, <3>4
  <2>5. CASE Extract
    <3>1. rxBuf \in (Piece \ {Opening}) \cup {<<>>, Message("add")}
      BY <1>2, <2>5 DEF Extract, BufferWhole
    <3>2. CASE frameEnd > Len(rxBuf)
      <4>1. pc' = "crash"
        BY <2>5, <3>2, Zenon DEF Extract
      <4>2. BufferWhole'
        BY <4>1 DEF BufferWhole
      <4> QED BY <1>2, <2>1, <2>2, <4>2
    <3>3. CASE ~(frameEnd > Len(rxBuf))
      <4>1. pc' = "handle" /\ chunk' = SubSeq(rxBuf, 1, frameEnd) /\ chunk' # <<>>
        <5>1. pc' = "handle" /\ chunk' = SubSeq(rxBuf, 1, frameEnd)
          BY <2>5, <3>3, Zenon DEF Extract
        <5> QED BY <5>1 DEF Bytes, Handled
      <4>2. rxBuf = <<>> \/ frameEnd = Len(rxBuf)
        BY <2>5 DEF Extract, Bytes, Framed
      <4>3. frameEnd = Len(rxBuf)
        BY <2>5, <3>3, <4>2 DEF Extract, Bytes, Framed, AndTypeOK
      <4>4. chunk' = rxBuf
        BY <1>3, <4>1, <4>3
      <4>5. BufferWhole'
        BY <3>1, <4>1, <4>4 DEF BufferWhole
      <4> QED BY <1>2, <2>1, <2>2, <4>5
    <3> QED BY <3>2, <3>3
  <2>6. CASE HandleHello \/ PhoneOnConnect \/ NotifList \/ IgnoreCommand
    <3>1. rxBuf = <<>> /\ rxBuf' = rxBuf /\ pc' \in {"find", "hello", "ask"}
      BY <2>6 DEF HandleHello, PhoneOnConnect, NotifList, IgnoreCommand, srcVars, Bytes, Framed
    <3>2. BufferWhole'
      BY <3>1, Tuples DEF BufferWhole
    <3> QED BY <1>2, <2>1, <2>2, <3>2
  <2>7. CASE HandleCommand \/ HandleCallIncoming
    <3>1. pc \in {"handle", "call"} /\ pc' \in {"call", "new"} /\ chunk' = chunk
      BY <2>7 DEF HandleCommand, HandleCallIncoming
    <3>2. BufferWhole'
      BY <1>2, <3>1 DEF BufferWhole
    <3> QED BY <1>2, <2>1, <2>2, <3>2
  <2> QED BY <1>12, <2>3, <2>4, <2>5, <2>6, <2>7 DEF AndroidThread
<1>13. ASSUME ~(\E m \in Command : Say(m)), ~Write, ~LinkEnds, ~UartLoop, ~AndroidThread
       PROVE  UNCHANGED <<writeQ, outgoing, uartBuf, lines, pc, chunk>> /\ rxBuf' \in {rxBuf, <<>>}
  BY <1>13, Zenon DEF AndNext, BTC, LVGL, phoneVars, uartVars, workVars, srcVars, Connect, OnDisconnect,
       OnDisconnectClear, PhoneOnDisconnect, CallIgnore, CallReject, ActionNeg
<1>14. UNCHANGED <<writeQ, outgoing>> => Flow' = Flow
  BY DEF Flow
<1>15. WholeLine(uartBuf, lines, Flow)' /\ BufferWhole'
  BY <1>5, <1>6, <1>7, <1>8, <1>9, <1>10, <1>11, <1>12, <1>13, <1>14
<1> QED BY <1>4, <1>5, <1>15

(* What is left of a sequence has no call that was not there.              *)
LEMMA FewerCalls ==
  ASSUME NEW f \in Seq(Token), NEW g \in Seq(Token), NEW k \in [1 .. Len(g) -> 1 .. Len(f)],
         \A i \in 1 .. Len(g) : g[i] = f[k[i]],
         \A i, j \in 1 .. Len(g) : k[i] = k[j] => i = j
  PROVE  (Has(g) => Has(f)) /\ (One(f) => One(g))
<1>1. \A i \in 1 .. Len(g) : k[i] \in 1 .. Len(f)
  OBVIOUS
<1>2. Has(g) => Has(f)
  BY <1>1 DEF Has
<1>3. ASSUME One(f), NEW i \in 1 .. Len(g), NEW j \in 1 .. Len(g), g[i] = "call", g[j] = "call"
      PROVE  i = j
  <2>1. f[k[i]] = "call" /\ f[k[j]] = "call" /\ k[i] \in 1 .. Len(f) /\ k[j] \in 1 .. Len(f)
    BY <1>1, <1>3
  <2>2. k[i] = k[j]
    BY <1>3, <2>1, Zenon DEF One
  <2> QED BY <2>2
<1> QED BY <1>2, <1>3 DEF One

(* Calls in the rest of a sequence.                                        *)
LEMMA CallsTail ==
  ASSUME NEW f \in Seq(Token), f # <<>>
  PROVE  /\ Has(Tail(f)) => Has(f)
         /\ One(f) => One(Tail(f))
         /\ Head(f) = "call" => Has(f)
         /\ One(f) /\ Head(f) = "call" => ~Has(Tail(f))
<1>1. /\ Head(f) = f[1] /\ Tail(f) \in Seq(Token) /\ Len(Tail(f)) = Len(f) - 1 /\ Len(f) \in Nat \ {0}
      /\ \A i \in 1 .. Len(Tail(f)) : Tail(f)[i] = f[i + 1]
  BY TailType
<1> DEFINE k == [i \in 1 .. Len(Tail(f)) |-> i + 1]
<1>2. \A i \in 1 .. Len(Tail(f)) : i + 1 \in 1 .. Len(f)
  BY <1>1
<1>3. (Has(Tail(f)) => Has(f)) /\ (One(f) => One(Tail(f)))
  <2>1. k \in [1 .. Len(Tail(f)) -> 1 .. Len(f)] /\ \A i \in 1 .. Len(Tail(f)) : k[i] = i + 1
    BY <1>2
  <2>2. (\A i \in 1 .. Len(Tail(f)) : Tail(f)[i] = f[k[i]])
        /\ \A i, j \in 1 .. Len(Tail(f)) : k[i] = k[j] => i = j
    BY <1>1, <2>1
  <2> HIDE DEF k
  <2> QED BY <1>1, <2>1, <2>2, FewerCalls
<1>4. Head(f) = "call" => Has(f)
  BY <1>1 DEF Has
<1>5. ASSUME One(f), Head(f) = "call", NEW i \in 1 .. Len(Tail(f)), Tail(f)[i] = "call" PROVE FALSE
  <2>1. i + 1 \in 1 .. Len(f) /\ 1 \in 1 .. Len(f) /\ f[i + 1] = "call" /\ f[1] = "call"
    BY <1>1, <1>2, <1>5
  <2>2. i + 1 = 1
    BY <1>5, <2>1, Zenon DEF One
  <2> QED BY <2>2
<1> QED BY <1>3, <1>4, <1>5 DEF Has

(* Calls in two joined sequences.                                          *)
LEMMA CallsJoin ==
  ASSUME NEW q \in Seq(Token), NEW o \in Seq(Token)
  PROVE  /\ Has(q \o o) => Has(q) \/ Has(o)
         /\ Has(q) => Has(q \o o)
         /\ One(q \o o) => One(q)
         /\ ~Has(q) /\ One(o) => One(q \o o)
         /\ One(q) /\ ~Has(o) => One(q \o o)
<1> DEFINE h == q \o o
<1>1. /\ Len(q) \in Nat /\ Len(o) \in Nat /\ h \in Seq(Token) /\ Len(h) = Len(q) + Len(o)
      /\ \A i \in 1 .. Len(q) : h[i] = q[i]
      /\ \A i \in Len(q) + 1 .. Len(h) : h[i] = o[i - Len(q)]
  OBVIOUS
<1> HIDE DEF h
<1>2. \A i \in 1 .. Len(q) : i \in 1 .. Len(h)
  BY <1>1
<1>3. \A i \in 1 .. Len(h) : i \in 1 .. Len(q) \/ (i \in Len(q) + 1 .. Len(h) /\ i - Len(q) \in 1 .. Len(o))
  BY <1>1
<1>4. Has(h) => Has(q) \/ Has(o)
  <2> SUFFICES ASSUME NEW i \in 1 .. Len(h), h[i] = "call" PROVE Has(q) \/ Has(o)
    BY DEF Has
  <2>1. (i \in 1 .. Len(q) /\ q[i] = "call") \/ (i - Len(q) \in 1 .. Len(o) /\ o[i - Len(q)] = "call")
    BY <1>1, <1>3
  <2> QED BY <2>1, Zenon DEF Has
<1>5. Has(q) => Has(h)
  BY <1>1, <1>2 DEF Has
<1>6. One(h) => One(q)
  BY <1>1, <1>2 DEF One
<1>7. ASSUME (~Has(q) /\ One(o)) \/ (One(q) /\ ~Has(o)),
             NEW i \in 1 .. Len(h), NEW j \in 1 .. Len(h), h[i] = "call", h[j] = "call"
      PROVE  i = j
  <2>1. \/ i \in 1 .. Len(q) /\ q[i] = "call"
        \/ i - Len(q) \in 1 .. Len(o) /\ o[i - Len(q)] = "call"
    BY <1>1, <1>3, <1>7
  <2>2. \/ j \in 1 .. Len(q) /\ q[j] = "call"
        \/ j - Len(q) \in 1 .. Len(o) /\ o[j - Len(q)] = "call"
    BY <1>1, <1>3, <1>7
  <2>3. CASE ~Has(q) /\ One(o)
    <3>1. i - Len(q) = j - Len(q)
      BY <2>1, <2>2, <2>3, Zenon DEF Has, One
    <3> QED BY <1>1, <3>1
  <2>4. CASE One(q) /\ ~Has(o)
    BY <2>1, <2>2, <2>4, Zenon DEF Has, One
  <2> QED BY <1>7, <2>3, <2>4
<1> QED BY <1>4, <1>5, <1>6, <1>7 DEF One, h

(* A message has one call at most.                                         *)
LEMMA CallsMessage ==
  ASSUME NEW m \in Command
  PROVE  One(Message(m)) /\ (m # "call" => ~Has(Message(m)))
<1>1. CASE m = "add"
  <2>1. Message(m) = <<"add", "nl", "nl">>
    BY <1>1, MessageType
  <2> QED BY <1>1, <2>1 DEF One, Has
<1>2. CASE m # "add"
  <2>1. Message(m) = <<m, "nl">>
    BY <1>2, MessageType
  <2>2. PICK g : g = <<m, "nl">>
    OBVIOUS
  <2>3. Len(g) = 2 /\ g[1] = m /\ g[2] = "nl"
    BY <2>2
  <2>4. One(g) /\ (m # "call" => ~Has(g))
    <3> HIDE <2>2
    <3> QED BY <2>3 DEF One, Has
  <2> QED BY <2>1, <2>2, <2>4
<1> QED BY <1>1, <1>2

(* A write that is lost.                                                   *)
LEMMA CallsLost ==
  ASSUME NEW q \in Seq(Token), NEW o \in Seq(Token), o # <<>>
  PROVE  (Has(q \o Tail(o)) => Has(q \o o)) /\ (One(q \o o) => One(q \o Tail(o)))
<1> DEFINE f == q \o o
           g == q \o Tail(o)
           k == [i \in 1 .. Len(g) |-> IF i =< Len(q) THEN i ELSE i + 1]
<1>1. /\ Tail(o) \in Seq(Token) /\ Len(Tail(o)) = Len(o) - 1 /\ Len(o) \in Nat \ {0} /\ Len(q) \in Nat
      /\ \A i \in 1 .. Len(Tail(o)) : Tail(o)[i] = o[i + 1]
  BY TailType
<1>2. /\ f \in Seq(Token) /\ Len(f) = Len(q) + Len(o)
      /\ \A i \in 1 .. Len(q) : f[i] = q[i]
      /\ \A i \in Len(q) + 1 .. Len(q) + Len(o) : f[i] = o[i - Len(q)]
  OBVIOUS
<1>3. /\ g \in Seq(Token) /\ Len(g) = Len(q) + Len(Tail(o))
      /\ \A i \in 1 .. Len(q) : g[i] = q[i]
      /\ \A i \in Len(q) + 1 .. Len(q) + Len(Tail(o)) : g[i] = Tail(o)[i - Len(q)]
  BY <1>1
<1>4. k \in [1 .. Len(g) -> 1 .. Len(f)] /\ \A i \in 1 .. Len(g) : k[i] = IF i =< Len(q) THEN i ELSE i + 1
  <2>1. Len(f) = Len(g) + 1 /\ Len(g) \in Nat
    BY <1>1, <1>2, <1>3
  <2> HIDE DEF f, g
  <2> QED BY <1>1, <2>1
<1> HIDE DEF k, f, g
<1>5. ASSUME NEW i \in 1 .. Len(g) PROVE g[i] = f[k[i]]
  <2>1. CASE i =< Len(q)
    BY <1>1, <1>2, <1>3, <1>4, <2>1
  <2>2. CASE ~(i =< Len(q))
    <3>1. /\ i \in Len(q) + 1 .. Len(q) + Len(Tail(o)) /\ i + 1 \in Len(q) + 1 .. Len(q) + Len(o) /\ k[i] = i + 1
          /\ i - Len(q) \in 1 .. Len(Tail(o)) /\ (i + 1) - Len(q) = (i - Len(q)) + 1
      <4>1. k[i] = i + 1
        BY <1>4, <2>2
      <4>2. i \in Len(q) + 1 .. Len(q) + Len(Tail(o)) /\ i \in Nat
        BY <1>1, <1>3, <2>2
      <4> QED BY <1>1, <4>1, <4>2
    <3> QED BY <1>1, <1>2, <1>3, <3>1
  <2> QED BY <2>1, <2>2
<1>6. \A i, j \in 1 .. Len(g) : k[i] = k[j] => i = j
  BY <1>1, <1>3, <1>4
<1>7. (Has(g) => Has(f)) /\ (One(f) => One(g))
  <2>1. f \in Seq(Token) /\ g \in Seq(Token)
    BY <1>2, <1>3
  <2>2. k \in [1 .. Len(g) -> 1 .. Len(f)] /\ \A i \in 1 .. Len(g) : g[i] = f[k[i]]
    BY <1>4, <1>5
  <2> QED BY <1>6, <2>1, <2>2, FewerCalls
<1> QED BY <1>7 DEF f, g

(* The call passes from one place to the next.                             *)
LEMMA CallMoves ==
  ASSUME OneCall, One(Flow'), OneLine(lines'), ringing' = "none" => ringing = "none",
         Has(Flow') => Has(Flow),
         Has(uartBuf') => Has(uartBuf) \/ (Has(Flow) /\ ~Has(Flow')),
         Lined' => Lined \/ (Has(uartBuf) /\ ~Has(uartBuf')),
         Taken' => Taken \/ (Lined /\ ~Lined'),
         Ahead' => Ahead \/ (Taken /\ ~Taken'),
         Shown' => Shown \/ (Ahead /\ ~Ahead')
  PROVE  OneCall'
<1> USE DEF OneCall
<1>1. Has(Flow') => ~Has(uartBuf') /\ ~Lined' /\ ~Taken' /\ ~Ahead' /\ ~Shown'
  BY Zenon
<1>2. Has(uartBuf') => ~Lined' /\ ~Taken' /\ ~Ahead' /\ ~Shown'
  BY Zenon
<1>3. Lined' => ~Taken' /\ ~Ahead' /\ ~Shown'
  BY Zenon
<1>4. Taken' => ~Ahead' /\ ~Shown'
  BY Zenon
<1>5. Ahead' => ~Shown'
  BY Zenon
<1>6. ringing' = "none" => ~Has(Flow') /\ ~Has(uartBuf') /\ ~Lined' /\ ~Taken' /\ ~Ahead' /\ ~Shown'
  BY Zenon
<1> QED BY <1>1, <1>2, <1>3, <1>4, <1>5, <1>6, Zenon

(* Calls in the lines without the first.                                   *)
LEMMA CallTake ==
  ASSUME NEW ls \in Seq(Seq(Token)), ls # <<>>
  PROVE  /\ AnyHas(Tail(ls)) => AnyHas(ls)
         /\ Has(Head(ls)) => AnyHas(ls)
         /\ OneLine(ls) => OneLine(Tail(ls))
         /\ OneLine(ls) /\ Has(Head(ls)) => ~AnyHas(Tail(ls))
<1>1. /\ Head(ls) = ls[1] /\ Len(Tail(ls)) = Len(ls) - 1 /\ Len(ls) \in Nat \ {0}
      /\ \A i \in 1 .. Len(Tail(ls)) : Tail(ls)[i] = ls[i + 1]
  BY TailType
<1>2. 1 \in 1 .. Len(ls) /\ \A i \in 1 .. Len(Tail(ls)) : i + 1 \in 1 .. Len(ls)
  BY <1>1
<1>3. \A i \in 1 .. Len(Tail(ls)) : i + 1 # 1 /\ \A j \in 1 .. Len(Tail(ls)) : i + 1 = j + 1 => i = j
  OBVIOUS
<1> QED BY <1>1, <1>2, <1>3, Zenon DEF AnyHas, OneLine

(* Calls in the lines with one more.                                       *)
LEMMA CallCut ==
  ASSUME NEW ls \in Seq(Seq(Token)), NEW l \in Seq(Token)
  PROVE  /\ AnyHas(Append(ls, l)) => AnyHas(ls) \/ Has(l)
         /\ OneLine(ls) /\ (Has(l) => ~AnyHas(ls)) => OneLine(Append(ls, l))
<1> DEFINE k == Append(ls, l)
<1>1. /\ Len(k) = Len(ls) + 1 /\ Len(ls) \in Nat /\ k[Len(ls) + 1] = l
      /\ \A i \in 1 .. Len(ls) : k[i] = ls[i]
  OBVIOUS
<1> HIDE DEF k
<1>2. \A i \in 1 .. Len(k) : i \in 1 .. Len(ls) \/ i = Len(ls) + 1
  BY <1>1
<1> QED BY <1>1, <1>2, Zenon DEF AnyHas, OneLine, k

(* A step that is not about the ids.                                       *)
LEMMA IdStays ==
  ASSUME IdKnown, callIds' = callIds, "call" \in notifs' => "call" \in notifs,
         pc' = "new" => (pc = "new" /\ chunk' = chunk) \/ (pc' = "new" /\ Head(chunk') # "call")
  PROVE  IdKnown'
BY Zenon DEF IdKnown

(* The call of a session is in one place, and its id is known when it is   *)
(* shown.                                                                  *)
LEMMA CallKept == Bytes /\ Bytes' /\ Sources /\ CallOnce /\ AndNext => CallOnce'
<1> SUFFICES ASSUME Bytes, Bytes', Sources, CallOnce, AndNext, ~late', (btc \in {"up", "closing"})'
             PROVE  OneCall' /\ IdKnown'
  BY DEF CallOnce
<1>1. ~late
  BY Zenon DEF AndNext, BTC, AndroidThread, Thread, LVGL, Say, Write, UartLoop, Scan, Connect, LinkEnds, OnDisconnect,
       OnDisconnectClear, PhoneOnDisconnect, AppendChunk, FindFrame, Extract, HandleHello, PhoneOnConnect, NotifList,
       HandleCommand, IgnoreCommand, HandleCallIncoming, HandleNotif, CallIgnore, CallReject, ActionNeg
<1>2. /\ Flow \in Seq(Token) /\ writeQ \in Seq(Token) /\ outgoing \in Seq(Token)
      /\ uartBuf \in Seq(Token) /\ lines \in Seq(Seq(Token)) /\ rxBuf \in Seq(Token) /\ chunk \in Seq(Token)
      /\ Flow' \in Seq(Token)
  <2>1. Flow \in Seq(Token) /\ Flow' \in Seq(Token) /\ uartBuf \in Seq(Token \ {"nl"})
    BY FlowTyped DEF Flow, Bytes, AndTypeOK
  <2>2. uartBuf \in Seq(Token)
    BY <2>1
  <2> QED BY <2>1, <2>2 DEF Bytes, AndTypeOK
<1>3. CASE Connect
  <2>1. pc = "scan" /\ writeQ = <<>> /\ uartBuf = <<>> /\ lines = <<>> /\ ~connected /\ ~current /\ outgoing = <<>>
    BY <1>1, <1>3 DEF Connect, Sources, Ended, Bytes, Silent
  <2>2. notifs = {} /\ ui = "idle"
    BY <1>1, <2>1 DEF Sources, Unshown
  <2>3. UNCHANGED <<writeQ, uartBuf, lines, outgoing, pc, connected, notifs, ui>>
    BY <1>3, Zenon DEF Connect, uartVars, srcVars, workVars, storeVars
  <2>4. Flow' = <<>>
    BY <2>1, <2>3 DEF Flow
  <2>5. ~Has(<<>>) /\ One(<<>>) /\ OneLine(<<>>) /\ ~AnyHas(<<>>)
    BY DEF Has, One, OneLine, AnyHas
  <2>6. /\ One(Flow') /\ OneLine(lines') /\ ~Has(Flow') /\ ~Has(uartBuf') /\ ~Lined' /\ ~Taken' /\ ~Ahead' /\ ~Shown'
    BY <2>1, <2>2, <2>3, <2>4, <2>5 DEF Lined, Taken, Ahead, Shown
  <2>7. IdKnown'
    BY <2>1, <2>2, <2>3 DEF IdKnown
  <2> QED BY <2>6, <2>7 DEF OneCall
<1>4. ASSUME ~Connect PROVE btc \in {"up", "closing"} /\ ~OnDisconnectClear /\ ~PhoneOnDisconnect /\ ~OnDisconnect
  <2>1. btc' \in {"up", "closing"}
    OBVIOUS
  <2> QED BY <1>4, <2>1, Zenon DEF AndNext, BTC, AndroidThread, Thread, LVGL, btcVars, Say, Write, UartLoop, Scan, LinkEnds,
       OnDisconnect, OnDisconnectClear, PhoneOnDisconnect, AppendChunk, FindFrame, Extract, HandleHello, PhoneOnConnect,
       NotifList, HandleCommand, IgnoreCommand, HandleCallIncoming, HandleNotif, CallIgnore, CallReject, ActionNeg
<1> SUFFICES ASSUME ~Connect PROVE OneCall' /\ IdKnown'
  BY <1>3
<1>5. OneCall /\ IdKnown
  BY <1>1, <1>4 DEF CallOnce
<1>6. /\ pc \in {"hello", "ask", "call", "new"} => connected
      /\ ~current => notifs = {} /\ callIds = {} /\ ui = "idle"
      /\ (current <=> connected /\ pc # "hello")
  BY <1>1, <1>4, Zenon DEF Sources, Agreed, Unshown
<1>7. /\ One(Flow) /\ OneLine(lines)
  BY <1>5 DEF OneCall
<1>8. chunk # <<>> /\ Head(chunk) = "call" => Has(chunk)
  BY <1>2, CallsTail
<1>9. ASSUME NEW m \in Command, Say(m) PROVE OneCall' /\ IdKnown'
  <2>1. /\ outgoing = <<>> /\ outgoing' = Message(m)
        /\ UNCHANGED <<writeQ, uartBuf, lines, rxBuf, pc, chunk, connected, callIds, notifs, ui>>
    BY <1>9, Zenon DEF Say, uartVars, srcVars, workVars, storeVars
  <2>2. Flow = writeQ /\ Flow' = Flow \o Message(m)
    BY <1>2, <2>1 DEF Flow
  <2>3. Lined' = Lined /\ Taken' = Taken /\ Ahead' = Ahead /\ Shown' = Shown
    BY <2>1 DEF Lined, Taken, Ahead, Shown
  <2>4. IdKnown'
    BY <1>5, <2>1, IdStays
  <2>5. CASE m = "call"
    <3>1. ringing = "none" /\ ringing' = "on"
      BY <1>9, <2>5 DEF Say
    <3>2. ~Has(Flow) /\ ~Has(uartBuf) /\ ~Lined /\ ~Taken /\ ~Ahead /\ ~Shown
      BY <1>5, <3>1 DEF OneCall
    <3>3. One(Flow')
      BY <1>2, <2>2, <3>2, MessageType, CallsMessage, CallsJoin
    <3>4. OneCall'
      BY <1>7, <2>1, <2>3, <3>1, <3>2, <3>3 DEF OneCall
    <3> QED BY <2>4, <3>4
  <2>6. CASE m # "call"
    <3>1. ~Has(Message(m)) /\ Message(m) \in Seq(Token)
      BY <2>6, CallsMessage, MessageType
    <3>2. One(Flow') /\ (Has(Flow') => Has(Flow))
      BY <1>2, <1>7, <2>2, <3>1, CallsJoin
    <3>3. ringing' = "none" => ringing = "none"
      BY <1>9, <2>6 DEF Say
    <3>4. OneCall'
      BY <1>5, <1>7, <2>1, <2>3, <3>2, <3>3, CallMoves
    <3> QED BY <2>4, <3>4
  <2> QED BY <2>5, <2>6
<1>10. ASSUME One(Flow'), Has(Flow') => Has(Flow),
              UNCHANGED <<uartBuf, lines, pc, chunk, rxBuf, connected, ringing, callIds, notifs, ui>>
       PROVE  OneCall' /\ IdKnown'
  <2>1. Lined' = Lined /\ Taken' = Taken /\ Ahead' = Ahead /\ Shown' = Shown
    BY <1>10 DEF Lined, Taken, Ahead, Shown
  <2>2. IdKnown'
    BY <1>5, <1>10, IdStays
  <2>3. OneCall'
    BY <1>5, <1>7, <1>10, <2>1, CallMoves
  <2> QED BY <2>2, <2>3
<1>11. CASE Write
  <2>1. UNCHANGED <<uartBuf, lines, pc, chunk, rxBuf, connected, ringing, callIds, notifs, ui>>
    BY <1>11, Zenon DEF Write, workVars, srcVars, storeVars
  <2>2. outgoing # <<>> /\ outgoing' = Tail(outgoing)
    BY <1>11 DEF Write
  <2>3. CASE Len(writeQ) = WriteLen
    <3>1. writeQ' = writeQ
      BY <1>11, <2>3, Zenon DEF Write
    <3>2. One(Flow') /\ (Has(Flow') => Has(Flow))
      BY <1>2, <1>7, <2>2, <3>1, CallsLost DEF Flow
    <3> QED BY <1>10, <2>1, <3>2
  <2>4. CASE Len(writeQ) # WriteLen
    <3>1. writeQ' = Append(writeQ, Head(outgoing))
      BY <1>11, <2>4, Zenon DEF Write
    <3>2. Flow' = Flow
      BY <1>2, <2>2, <3>1, JoinMoved DEF Flow
    <3>3. One(Flow') /\ (Has(Flow') => Has(Flow))
      BY <1>7, <3>2
    <3> QED BY <1>10, <2>1, <3>3
  <2> QED BY <2>3, <2>4
<1>12. CASE LinkEnds
  <2>1. UNCHANGED <<uartBuf, lines, pc, chunk, rxBuf, connected, ringing, callIds, notifs, ui>>
    BY <1>12, Zenon DEF LinkEnds, uartVars, workVars, srcVars, storeVars
  <2>2. writeQ' = writeQ /\ outgoing' = <<>>
    BY <1>12, Zenon DEF LinkEnds, uartVars
  <2>3. Flow' = writeQ
    BY <1>2, <2>2 DEF Flow
  <2>4. One(Flow') /\ (Has(Flow') => Has(Flow))
    BY <1>2, <1>7, <2>3, CallsJoin DEF Flow
  <2> QED BY <1>10, <2>1, <2>4
<1>13. CASE UartLoop
  <2>1. /\ writeQ # <<>> /\ writeQ' = Tail(writeQ) /\ outgoing' = outgoing
        /\ UNCHANGED <<pc, chunk, rxBuf, connected, ringing, callIds, notifs, ui>>
    BY <1>13, Zenon DEF UartLoop, phoneVars, workVars, srcVars, storeVars
  <2>2. Flow # <<>> /\ Flow' = Tail(Flow) /\ Head(Flow) = Head(writeQ) /\ Head(Flow) \in Token
    BY <2>1, FlowTaken
  <2>3. One(Flow') /\ (Has(Flow') => Has(Flow)) /\ (Head(Flow) = "call" => Has(Flow) /\ ~Has(Flow'))
    BY <1>2, <1>7, <2>2, CallsTail
  <2>4. Taken' = Taken /\ Ahead' = Ahead /\ Shown' = Shown
    BY <2>1 DEF Taken, Ahead, Shown
  <2>5. IdKnown'
    BY <1>5, <2>1, IdStays
  <2>6. ASSUME NEW x \in Token PROVE Has(Append(uartBuf, x)) => Has(uartBuf) \/ x = "call"
    <3>1. /\ Len(Append(uartBuf, x)) = Len(uartBuf) + 1 /\ Len(uartBuf) \in Nat
          /\ Append(uartBuf, x)[Len(uartBuf) + 1] = x
          /\ \A i \in 1 .. Len(uartBuf) : Append(uartBuf, x)[i] = uartBuf[i]
      BY <1>2
    <3>2. \A i \in 1 .. Len(uartBuf) + 1 : i \in 1 .. Len(uartBuf) \/ i = Len(uartBuf) + 1
      BY <3>1
    <3> QED BY <3>1, <3>2, Zenon DEF Has
  <2>7. CASE Head(writeQ) = "nl"
    <3>1. lines' = Append(lines, Append(uartBuf, "nl")) /\ uartBuf' = <<>>
      BY <1>13, <2>7, Zenon DEF UartLoop
    <3>2. Append(uartBuf, "nl") \in Seq(Token) /\ "nl" \in Token
      BY <1>2 DEF Token
    <3>3. Has(Append(uartBuf, "nl")) => Has(uartBuf)
      BY <2>6, <3>2
    <3>4. ~Has(uartBuf')
      BY <3>1 DEF Has
    <3>5. Has(uartBuf) => ~Lined
      BY <1>5 DEF OneCall
    <3>6. OneLine(lines') /\ (Lined' => Lined \/ Has(uartBuf))
      BY <1>2, <1>7, <3>1, <3>2, <3>3, <3>5, CallCut DEF Lined
    <3>7. OneCall'
      BY <1>5, <2>1, <2>3, <2>4, <3>4, <3>6, CallMoves
    <3> QED BY <2>5, <3>7
  <2>8. CASE Head(writeQ) # "nl"
    <3>1. uartBuf' = Append(uartBuf, Head(Flow)) /\ lines' = lines
      BY <1>13, <2>2, <2>8, Zenon DEF UartLoop
    <3>2. Has(uartBuf') => Has(uartBuf) \/ (Has(Flow) /\ ~Has(Flow'))
      BY <2>2, <2>3, <2>6, <3>1
    <3>3. Lined' = Lined /\ OneLine(lines')
      BY <1>7, <3>1 DEF Lined
    <3>4. OneCall'
      BY <1>5, <2>1, <2>3, <2>4, <3>2, <3>3, CallMoves
    <3> QED BY <2>5, <3>4
  <2> QED BY <2>7, <2>8
<1>14. CASE Scan
  <2>1. /\ lines # <<>> /\ lines' = Tail(lines) /\ chunk' = Head(lines) /\ pc = "scan" /\ pc' = "append"
        /\ UNCHANGED <<writeQ, outgoing, uartBuf, rxBuf, connected, ringing, callIds, notifs, ui>>
    BY <1>14, Zenon DEF Scan, Thread, phoneVars, srcVars, storeVars
  <2>2. Flow' = Flow
    BY <2>1 DEF Flow
  <2>3. OneLine(lines') /\ (Lined' => Lined) /\ (Has(chunk') => Lined /\ ~Lined')
    BY <1>2, <1>7, <2>1, CallTake DEF Lined
  <2>4. (Taken' => Lined /\ ~Lined') /\ (Ahead' => Ahead) /\ Shown' = Shown
    BY <2>1, <2>3 DEF Taken, Ahead, Shown
  <2>5. OneCall'
    BY <1>5, <1>7, <2>1, <2>2, <2>3, <2>4, CallMoves
  <2>6. IdKnown'
    BY <1>5, <2>1, IdStays
  <2> QED BY <2>5, <2>6
<1>15. ASSUME AndroidThread \/ CallIgnore \/ CallReject \/ ActionNeg, ~Scan,
              Taken' => Taken, Ahead' => Ahead \/ (Taken /\ ~Taken'), Shown' => Shown \/ (Ahead /\ ~Ahead')
       PROVE  OneCall'
  <2>1. UNCHANGED <<writeQ, outgoing, uartBuf, lines, ringing>>
    BY <1>15, Zenon DEF AndroidThread, Thread, LVGL, phoneVars, uartVars, AppendChunk, FindFrame, Extract, HandleHello,
       PhoneOnConnect, NotifList, HandleCommand, IgnoreCommand, HandleCallIncoming, HandleNotif, CallIgnore, CallReject, ActionNeg
  <2>2. Flow' = Flow /\ Lined' = Lined
    BY <2>1 DEF Flow, Lined
  <2> QED BY <1>5, <1>7, <1>15, <2>1, <2>2, CallMoves
<1>16. CASE AppendChunk
  <2>1. /\ rxBuf' = rxBuf \o chunk /\ pc = "append" /\ pc' = "find"
        /\ UNCHANGED <<connected, callIds, notifs, ui>>
    BY <1>16, Zenon DEF AppendChunk, storeVars
  <2>2. Has(rxBuf') => Has(rxBuf) \/ Has(chunk)
    BY <1>2, <2>1, CallsJoin
  <2>3. ~Taken' /\ (Ahead' => Ahead \/ Taken) /\ Shown' = Shown
    BY <2>1, <2>2 DEF Taken, Ahead, Shown
  <2>4. OneCall'
    BY <1>15, <1>16, <2>1, <2>3 DEF AndroidThread, Scan
  <2>5. IdKnown'
    BY <1>5, <2>1, IdStays
  <2> QED BY <2>4, <2>5
<1>17. CASE FindFrame
  <2>1. /\ pc = "find" /\ pc' \in {"scan", "extract"} /\ UNCHANGED <<connected, callIds, notifs, ui, rxBuf>>
    BY <1>17 DEF FindFrame, storeVars, srcVars
  <2>2. ~Taken' /\ (Ahead' => Ahead) /\ Shown' = Shown
    BY <2>1 DEF Taken, Ahead, Shown
  <2>3. OneCall'
    BY <1>15, <1>17, <2>1, <2>2 DEF AndroidThread, Scan
  <2>4. IdKnown'
    BY <1>5, <2>1, IdStays
  <2> QED BY <2>3, <2>4
<1>18. CASE Extract
  <2>1. pc = "extract" /\ pc' \in {"crash", "handle"} /\ UNCHANGED <<connected, callIds, notifs, ui>>
    BY <1>18, Zenon DEF Extract, storeVars
  <2>2. (pc' = "crash" /\ rxBuf' = rxBuf) \/ (pc' = "handle" /\ chunk' = rxBuf /\ rxBuf' = <<>>)
    <3>1. CASE frameEnd > Len(rxBuf)
      BY <1>18, <3>1, Zenon DEF Extract
    <3>2. CASE ~(frameEnd > Len(rxBuf))
      <4>1. pc' = "handle" /\ chunk' = SubSeq(rxBuf, 1, frameEnd) /\ rxBuf' = SubSeq(rxBuf, frameEnd + 1, Len(rxBuf))
        BY <1>18, <3>2, Zenon DEF Extract
      <4>2. frameEnd > 0 /\ (rxBuf = <<>> \/ frameEnd = Len(rxBuf)) /\ frameEnd \in Nat
        BY <1>18 DEF Extract, Bytes, Framed, AndTypeOK
      <4>3. frameEnd = Len(rxBuf)
        BY <3>2, <4>2
      <4> QED BY <1>2, <4>1, <4>3
    <3> QED BY <3>1, <3>2
  <2>3. ~Has(<<>>)
    BY DEF Has
  <2>4. ~Taken' /\ (Ahead' => Ahead) /\ Shown' = Shown
    BY <2>1, <2>2, <2>3 DEF Taken, Ahead, Shown
  <2>5. OneCall'
    BY <1>15, <1>18, <2>1, <2>4 DEF AndroidThread, Scan
  <2>6. IdKnown'
    BY <1>5, <2>1, IdStays
  <2> QED BY <2>5, <2>6
<1>19. CASE HandleHello \/ PhoneOnConnect \/ NotifList \/ IgnoreCommand
  <2>1. /\ pc \in {"handle", "hello", "ask"} /\ pc' \in {"find", "hello", "ask"} /\ rxBuf' = rxBuf
        /\ callIds' = callIds /\ notifs' \subseteq notifs /\ ui' = ui
    BY <1>19 DEF HandleHello, PhoneOnConnect, NotifList, IgnoreCommand, srcVars, storeVars
  <2>2. rxBuf = <<>> /\ ~Has(<<>>)
    BY <2>1 DEF Has, Bytes, Framed
  <2>3. ~Taken' /\ ~Ahead' /\ (Shown' => Shown)
    BY <2>1, <2>2 DEF Taken, Ahead, Shown
  <2>4. OneCall'
    BY <1>15, <1>19, <2>1, <2>3 DEF AndroidThread, Scan
  <2>5. IdKnown'
    BY <1>5, <2>1, IdStays
  <2> QED BY <2>4, <2>5
<1>20. CASE HandleCommand
  <2>1. /\ pc = "handle" /\ pc' = (IF Head(chunk) = "call" THEN "call" ELSE "new")
        /\ UNCHANGED <<chunk, rxBuf, connected, callIds, notifs, ui>>
    BY <1>20, Zenon DEF HandleCommand, srcVars, storeVars
  <2>2. ~Taken' /\ (Ahead' => Ahead) /\ Shown' = Shown
    BY <2>1 DEF Taken, Ahead, Shown
  <2>3. OneCall'
    BY <1>15, <1>20, <2>1, <2>2 DEF AndroidThread, Scan
  <2>4. pc' = "new" => Head(chunk') # "call"
    BY <2>1
  <2>5. IdKnown'
    BY <1>5, <2>1, <2>4, IdStays
  <2> QED BY <2>3, <2>5
<1>21. CASE HandleCallIncoming
  <2>1. /\ pc = "call" /\ pc' = "new" /\ callIds' = {"call"} /\ UNCHANGED <<chunk, rxBuf, connected, notifs, ui>>
    BY <1>21, Zenon DEF HandleCallIncoming, storeVars
  <2>2. ~Taken' /\ (Ahead' => Ahead) /\ Shown' = Shown
    BY <2>1 DEF Taken, Ahead, Shown
  <2>3. OneCall'
    BY <1>15, <1>21, <2>1, <2>2 DEF AndroidThread, Scan
  <2>4. IdKnown'
    BY <2>1 DEF IdKnown
  <2> QED BY <2>3, <2>4
<1>22. CASE HandleNotif
  <2>1. /\ pc = "new" /\ pc' = "find" /\ UNCHANGED <<rxBuf, connected, ui>> /\ rxBuf = <<>> /\ connected
        /\ Head(chunk) \in {"add", "call", "stop"} /\ chunk # <<>>
    BY <1>6, <1>22 DEF HandleNotif, Bytes, Framed, Handled
  <2>2. Head(chunk) = "stop" => callIds' = {} /\ notifs' = notifs \ {"call"}
    BY <1>22, Zenon DEF HandleNotif
  <2>3. Head(chunk) # "stop" => notifs' = notifs \cup {Content} /\ callIds' = callIds
    BY <1>22, Zenon DEF HandleNotif
  <2>4. Content = "call" => Head(chunk) = "call"
    BY DEF Content
  <2>5. "call" \in notifs' => "call" \in notifs \/ Head(chunk) = "call"
    BY <2>2, <2>3, <2>4
  <2>6. Head(chunk) = "call" => Ahead
    BY <1>8, <2>1 DEF Ahead
  <2>7. ~Has(<<>>)
    BY DEF Has
  <2>8. ~Taken' /\ ~Ahead' /\ (Shown' => Shown \/ Ahead)
    BY <2>1, <2>5, <2>6, <2>7 DEF Taken, Ahead, Shown
  <2>9. OneCall'
    BY <1>15, <1>22, <2>1, <2>8 DEF AndroidThread, Scan
  <2>10. IdKnown'
    BY <1>5, <2>1, <2>2, <2>3, <2>5 DEF IdKnown
  <2> QED BY <2>9, <2>10
<1>23. CASE CallIgnore \/ CallReject
  <2>1. /\ UNCHANGED <<pc, chunk, rxBuf, connected, callIds>> /\ notifs' = notifs \ {"call"} /\ "call" \in notifs
    BY <1>23, Zenon DEF CallIgnore, CallReject, LVGL, workVars, srcVars
  <2>2. Taken' = Taken /\ Ahead' = Ahead /\ Shown
    BY <2>1 DEF Taken, Ahead, Shown
  <2>3. ~Scan
    <3>1. Scan => notifs' = notifs
      BY DEF Scan, storeVars
    <3> QED BY <2>1, <3>1
  <2>4. OneCall'
    BY <1>15, <1>23, <2>2, <2>3
  <2>5. IdKnown'
    BY <1>5, <2>1, IdStays
  <2> QED BY <2>4, <2>5
<1>24. CASE ActionNeg
  <2>1. UNCHANGED <<pc, chunk, rxBuf, connected>> /\ notifs' \subseteq notifs /\ ui = "neg" /\ ui' = "idle"
    BY <1>24, Zenon DEF ActionNeg, LVGL, workVars
  <2>2. Taken' = Taken /\ Ahead' = Ahead /\ Shown
    BY <2>1 DEF Taken, Ahead, Shown
  <2>3. ~Scan
    <3>1. Scan => ui' = ui
      BY DEF Scan, storeVars
    <3> QED BY <2>1, <3>1
  <2>4. OneCall'
    BY <1>15, <1>24, <2>2, <2>3
  <2>5. ~Ahead
    BY <1>5, <2>2 DEF OneCall
  <2>6. ~(pc = "new" /\ Head(chunk) = "call")
    <3>1. pc = "new" => connected /\ chunk # <<>>
      BY <1>6 DEF Bytes, Handled
    <3> QED BY <1>8, <2>5, <3>1 DEF Ahead
  <2>7. (callIds' = callIds /\ notifs' = notifs) \/ "call" \notin notifs'
    BY <1>24, Zenon DEF ActionNeg
  <2>8. IdKnown'
    BY <1>5, <2>1, <2>6, <2>7 DEF IdKnown
  <2> QED BY <2>4, <2>8
<1> QED BY <1>4, <1>9, <1>11, <1>12, <1>13, <1>14, <1>16, <1>17, <1>18, <1>19, <1>20, <1>21, <1>22, <1>23, <1>24
        DEF AndNext, BTC, AndroidThread

(* The inductive invariant: at first, kept, and enough.                    *)
LEMMA AndHoldsInit == AndInit => AndIInv
<1> SUFFICES ASSUME AndInit PROVE AndIInv
  OBVIOUS
<1>1. AndTypeOK /\ InLines /\ Framed /\ Handled /\ Silent
  BY AndInitTypes
<1>2. Whole
  BY WholeInit
<1>3. Ended /\ Agreed /\ Unshown
  BY SourcesInit DEF Sources
<1>4. CallOnce
  BY Zenon DEF AndInit, CallOnce
<1> QED BY <1>1, <1>2, <1>3, <1>4 DEF AndIInv, Bytes, Sources

LEMMA AndHoldsKept == AndIInv /\ [AndNext]_andVars => AndIInv'
<1> SUFFICES ASSUME AndIInv, [AndNext]_andVars PROVE AndIInv'
  OBVIOUS
<1>1. CASE AndNext
  <2>1. Bytes /\ Sources /\ Whole /\ CallOnce /\ BtcTypes
    BY DEF AndIInv, Bytes, Sources, BtcTypes, AndTypeOK
  <2>2. Bytes'
    BY <1>1, <2>1, BytesKept
  <2>3. Whole' /\ Sources' /\ CallOnce'
    BY <1>1, <2>1, <2>2, WholeKept, SourcesKept, CallKept
  <2> QED BY <2>2, <2>3 DEF AndIInv, Bytes, Sources
<1>2. CASE UNCHANGED andVars
  <2> USE <1>2 DEF andVars, phoneVars, btcVars, uartVars, srcVars, workVars, storeVars
  <2>0. Flow' = Flow
    BY DEF Flow
  <2>1. AndTypeOK' /\ InLines' /\ Framed' /\ Handled' /\ Silent'
    BY DEF AndIInv, Bytes, Sources, AndTypeOK, InLines, Framed, Handled, Silent
  <2>2. Whole'
    BY <2>0 DEF AndIInv, Bytes, Sources, Whole, BufferWhole
  <2>3. Ended' /\ Agreed' /\ Unshown'
    BY DEF AndIInv, Bytes, Sources, Ended, Agreed, Unshown
  <2>4. CallOnce'
    BY <2>0 DEF AndIInv, Bytes, Sources, CallOnce, OneCall, IdKnown, Taken, Ahead, Shown, Lined
  <2> QED BY <2>1, <2>2, <2>3, <2>4 DEF AndIInv, Bytes, Sources
<1> QED BY <1>1, <1>2

LEMMA AndHolds == AndIInv => AndInv
<1> SUFFICES ASSUME AndIInv PROVE AndInv
  OBVIOUS
<1>1. AndTypeOK
  BY DEF AndIInv, Bytes, Sources
<1>2. writeQ = <<>> /\ outgoing = <<>> => Flow = <<>>
  BY DEF Flow
<1>3. ~Starts(<<>>, 1) /\ ~Starts(<<>>, 2)
  BY DEF Starts
<1>4. WholeMessages
  <2> SUFFICES ASSUME ~torn PROVE "junk" \notin notifs /\ (Idle => uartBuf = <<>> /\ rxBuf = <<>>)
    BY DEF WholeMessages
  <2>1. UartWhole(uartBuf, Flow) /\ BufferWhole /\ "junk" \notin notifs
    BY DEF AndIInv, Bytes, Sources, Whole
  <2>2. ASSUME Idle PROVE uartBuf = <<>> /\ rxBuf = <<>>
    <3>1. Flow = <<>> /\ lines = <<>> /\ pc = "scan"
      BY <1>2, <2>2 DEF Idle
    <3>2. uartBuf = <<>>
      BY <1>3, <2>1, <3>1 DEF UartWhole
    <3>3. ~Closing(lines, uartBuf, Flow)
      BY <1>3, <3>1 DEF Closing
    <3>4. rxBuf = <<>>
      BY <2>1, <3>1, <3>3 DEF BufferWhole
    <3> QED BY <3>2, <3>4
  <2> QED BY <2>1, <2>2
<1>5. SourceAgrees
  <2>1. current \in BOOLEAN /\ connected \in BOOLEAN
    BY <1>1 DEF AndTypeOK
  <2> SUFFICES ASSUME Idle, ~late
               PROVE  /\ current = connected /\ (btc = "down" => ~connected)
                      /\ ~current => notifs = {} /\ callIds = {}
    BY DEF SourceAgrees
  <2>2. pc = "scan" /\ btc \in {"up", "down"}
    BY DEF Idle
  <2>3. (current <=> connected) /\ (btc = "down" => ~connected)
    BY <2>2, Zenon DEF AndIInv, Bytes, Sources, Ended, Agreed
  <2>4. ~current => notifs = {} /\ callIds = {}
    BY DEF AndIInv, Bytes, Sources, Unshown
  <2>5. current = connected
    BY <2>1, <2>3
  <2> QED BY <2>3, <2>4, <2>5
<1>6. CallRejectable
  <2> SUFFICES ASSUME "call" \in notifs, connected, ~late PROVE callIds = {"call"}
    BY DEF CallRejectable
  <2>1. btc \in {"up", "closing"}
    BY <1>1 DEF AndIInv, Bytes, Sources, Ended, AndTypeOK
  <2> QED BY <2>1 DEF AndIInv, Bytes, Sources, CallOnce, IdKnown
<1> QED BY <1>1, <1>4, <1>5, <1>6 DEF AndInv

(* Android: the types; as long as no session ends inside a message and no  *)
(* write is lost, no notification is put together from the pieces of two   *)
(* messages, and nothing is left in the buffers; at rest the source and    *)
(* Phone agree, and a call that is shown is rejected as a call, as long as *)
(* every end of a session finds the threads idle.                          *)
THEOREM AndroidHolds == AndSpec => []AndInv
<1>1. AndSpec => []AndIInv
  BY AndHoldsInit, AndHoldsKept, PTL DEF AndSpec
<1> QED BY <1>1, AndHolds, PTL

================================================================================
