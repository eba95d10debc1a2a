------------------------------- MODULE BLEClient -------------------------------
(***************************************************************************)
(* The GATT client of the watch (BLE/Client and BLE/Client/): it opens a   *)
(* virtual connection as soon as a phone connects, waits for it and for    *)
(* encryption in whichever order they come, negotiates the MTU, searches   *)
(* the registered services, associates their characteristics with the      *)
(* phone's and registers for notifications, until the connection ends.     *)
(*                                                                         *)
(* Everything here runs on the BTC task, one event at a time, so a handler *)
(* is one step.  The Bluetooth stack is external: it answers what it was   *)
(* asked in any order, and it may lose the link at any time with events    *)
(* still unhandled.  A phone's address is the number of its connection,    *)
(* for it may rotate; what is asked about an address that is gone comes    *)
(* back as a failure, which every handler ignores, so it is left out.      *)
(***************************************************************************)
EXTENDS Naturals, Sequences

CONSTANTS
  Services, Chars,  \* those registered with addService and addChar
  ServiceOf,        \* the service of each characteristic
  Notifying,        \* the characteristics registered with the NOTIFY property
  MaxSessions,      \* bound of the model: connections
  MaxFails          \* bound of the model: failures the stack reports

ASSUME BLEClientAssumption ==
  /\ ServiceOf \in [Chars -> Services]
  /\ Notifying \subseteq Chars
  /\ MaxSessions \in Nat /\ MaxFails \in Nat

VARIABLES
  link, session,   \* the stack: there is a link, and its address
  clcb, encrypted, \* the stack: its virtual connection is open, it is encrypted
  offered,         \* the phone: its services
  remote,          \* the phone: absent, or what each characteristic can do
  asked,           \* the stack: what it has not answered
  slots,           \* the stack: the notify registrations, with their addresses
  events,          \* the stack: the events the BTC task has not handled
  fails,
  conAddr,         \* con.addr and con.hndl: 0 when there is no connection
  opened, paired, discovering,  \* con's
  svc,             \* the services with a ServiceInfo
  chr,             \* the characteristics with a CharInfo
  remoteNotify,    \* those whose remoteProps have NOTIFY
  chars,           \* Client::chars: those events are passed to
  configured,      \* the characteristics whose configsDone is complete
  told,            \* the services whose owners were told of the connection
  twice,           \* history: those told twice in one connection
  mtus             \* history: MTU requests of the connection

stackVars  == <<link, session, clcb, encrypted, offered, remote, asked, slots>>
conVars    == <<conAddr, opened, paired, discovering, mtus>>
clientVars == <<conVars, svc, chr, remoteNotify, chars, configured, told, twice>>
vars == <<stackVars, events, fails, clientVars>>

CharsOf(s) == {c \in Chars : ServiceOf[c] = s}
Addr       == 1..MaxSessions
Request    == {<<"open">>, <<"encrypt">>, <<"mtu">>} \cup ({"search"} \X Services)
              \cup ({"reg"} \X Chars)
Event == [type : {"connect", "disconnect", "close", "auth"}, addr : Addr]
         \cup [type : {"open", "mtu", "cmpl"}, ok : BOOLEAN, addr : Addr]
         \cup [type : {"res"}, svc : Services, addr : Addr]
         \cup [type : {"reg"}, chr : Chars, ok : BOOLEAN, addr : Addr]

TypeOK ==
  /\ link \in BOOLEAN /\ session \in 0..MaxSessions
  /\ clcb \in BOOLEAN /\ encrypted \in BOOLEAN
  /\ offered \subseteq Services
  /\ remote \in [Chars -> {"absent", "plain", "notify"}]
  /\ asked \subseteq Request
  /\ slots \subseteq Addr \X Chars
  /\ events \in Seq(Event) /\ fails \in 0..MaxFails
  /\ conAddr \in 0..MaxSessions
  /\ opened \in BOOLEAN /\ paired \in BOOLEAN /\ discovering \in BOOLEAN
  /\ svc \subseteq Services /\ told \subseteq Services /\ twice \subseteq Services
  /\ chr \subseteq Chars /\ remoteNotify \subseteq Chars
  /\ chars \subseteq Chars /\ configured \subseteq Chars
  /\ mtus \in Nat

Init ==
  /\ link = FALSE /\ session = 0 /\ clcb = FALSE /\ encrypted = FALSE
  /\ offered = {} /\ remote = [c \in Chars |-> "absent"]
  /\ asked = {} /\ slots = {} /\ events = <<>> /\ fails = 0
  /\ conAddr = 0 /\ opened = FALSE /\ paired = FALSE /\ discovering = FALSE
  /\ svc = {} /\ chr = {} /\ remoteNotify = {} /\ chars = {} /\ configured = {}
  /\ told = {} /\ twice = {} /\ mtus = 0

-----------------------------------------------------------------------------
(* The Bluetooth stack and the phone.                                      *)

(* What the phone has: a service may lack characteristics, and one that is *)
(* there may lack the NOTIFY property.                                     *)
Offer(S, r) ==
  /\ r \in [Chars -> {"absent", "plain", "notify"}]
  /\ \A c \in Chars : /\ ServiceOf[c] \notin S => r[c] = "absent"
                      /\ c \notin Notifying => r[c] # "notify"

PhoneConnects ==
  /\ ~link /\ session < MaxSessions
  /\ link' = TRUE /\ session' = session + 1
  /\ offered' \in SUBSET Services
  /\ remote' \in [Chars -> {"absent", "plain", "notify"}] /\ Offer(offered', remote')
  /\ asked' = {} /\ events' = Append(events, [type |-> "connect", addr |-> session'])
  /\ UNCHANGED <<clcb, encrypted, slots, fails, clientVars>>

(* The stack clears the registrations of the address, or misses them. *)
LinkLost ==
  /\ link
  /\ link' = FALSE /\ clcb' = FALSE /\ encrypted' = FALSE /\ asked' = {}
  /\ slots' \in {slots, {r \in slots : r[1] # session}}
  /\ LET gone(t) == <<[type |-> t, addr |-> session]>>
     IN  \/ ~clcb /\ events' = events \o gone("disconnect")
         \/ clcb /\ events' = events \o gone("close") \o gone("disconnect")
         \/ clcb /\ events' = events \o gone("disconnect") \o gone("close")
  /\ UNCHANGED <<session, offered, remote, fails, clientVars>>

Result(ok) == ok \/ (fails < MaxFails)
Counted(ok) == fails' = IF ok THEN fails ELSE fails + 1

StackOpens(ok) ==
  /\ <<"open">> \in asked /\ Result(ok) /\ Counted(ok)
  /\ asked' = asked \ {<<"open">>} /\ clcb' = ok
  /\ events' = Append(events, [type |-> "open", ok |-> ok, addr |-> session])
  /\ UNCHANGED <<link, session, encrypted, offered, remote, slots, clientVars>>

(* Pairing, asked for or, with a bonded phone, not. *)
StackEncrypts ==
  /\ link /\ ~encrypted
  /\ encrypted' = TRUE /\ asked' = asked \ {<<"encrypt">>}
  /\ events' = Append(events, [type |-> "auth", addr |-> session])
  /\ UNCHANGED <<link, session, clcb, offered, remote, slots, fails, clientVars>>

(* Asked for on an encrypted link: reported again, or not. *)
StackEncrypted ==
  /\ <<"encrypt">> \in asked /\ encrypted
  /\ asked' = asked \ {<<"encrypt">>}
  /\ events' \in {events, Append(events, [type |-> "auth", addr |-> session])}
  /\ UNCHANGED <<link, session, clcb, encrypted, offered, remote, slots, fails, clientVars>>

StackExchangesMtu(ok) ==
  /\ <<"mtu">> \in asked /\ Result(ok) /\ Counted(ok)
  /\ asked' = asked \ {<<"mtu">>}
  /\ events' = Append(events, [type |-> "mtu", ok |-> ok, addr |-> session])
  /\ UNCHANGED <<link, session, clcb, encrypted, offered, remote, slots, clientVars>>

StackSearches(s, ok) ==
  /\ <<"search", s>> \in asked /\ Result(ok) /\ Counted(ok)
  /\ asked' = asked \ {<<"search", s>>}
  /\ LET res == IF s \in offered THEN <<[type |-> "res", svc |-> s, addr |-> session]>> ELSE <<>>
     IN  events' = events \o res \o <<[type |-> "cmpl", ok |-> ok, addr |-> session]>>
  /\ UNCHANGED <<link, session, clcb, encrypted, offered, remote, slots, clientVars>>

StackRegisters(c, ok) ==
  /\ <<"reg", c>> \in asked /\ Result(ok) /\ Counted(ok)
  /\ asked' = asked \ {<<"reg", c>>}
  /\ slots' = IF ok THEN slots \cup {<<session, c>>} ELSE slots
  /\ events' = Append(events, [type |-> "reg", chr |-> c, ok |-> ok, addr |-> session])
  /\ UNCHANGED <<link, session, clcb, encrypted, offered, remote, clientVars>>

-----------------------------------------------------------------------------
(* The client: ble_GATTC_cb and GAP's pairing event.                       *)

Handle(type) ==
  /\ events # <<>> /\ Head(events).type = type
  /\ events' = Tail(events)
  /\ UNCHANGED <<link, session, clcb, encrypted, offered, remote, fails>>

(* A call about the connection a: heard while it is the stack's link. *)
Ask(a, requests) ==
  asked' = IF link /\ a = session THEN asked \cup requests ELSE asked

OnConnect ==
  /\ Handle("connect")
  /\ conAddr' = Head(events).addr
  /\ opened' = FALSE /\ paired' = FALSE /\ discovering' = FALSE /\ mtus' = 0
  /\ Ask(conAddr', {<<"open">>})
  /\ UNCHANGED <<slots, svc, chr, remoteNotify, chars, configured, told, twice>>

(* mutant: no guard against a second start *)
MaybeStartDiscovery_Again(o, p, requests) ==
  IF o /\ p
  THEN discovering' = TRUE /\ mtus' = mtus + 1 /\ Ask(conAddr', requests \cup {<<"mtu">>})
  ELSE UNCHANGED <<discovering, mtus>> /\ Ask(conAddr', requests)

(* maybeStartDiscovery, with the calls its caller has made before. *)
MaybeStartDiscovery(o, p, requests) ==
  IF o /\ p /\ ~discovering
  THEN discovering' = TRUE /\ mtus' = mtus + 1 /\ Ask(conAddr', requests \cup {<<"mtu">>})
  ELSE UNCHANGED <<discovering, mtus>> /\ Ask(conAddr', requests)

OnPairDone ==
  /\ Handle("auth")
  /\ paired' = TRUE
  /\ UNCHANGED <<conAddr, opened>>
  /\ MaybeStartDiscovery(opened, TRUE, {})
  /\ UNCHANGED <<slots, svc, chr, remoteNotify, chars, configured, told, twice>>

(* mutant: only pairing starts discovery *)
OnOpen_AskOnly ==
  /\ Handle("open") /\ Head(events).ok
  /\ conAddr' = Head(events).addr
  /\ opened' = TRUE
  /\ UNCHANGED <<paired, discovering, mtus>>
  /\ Ask(conAddr', {<<"encrypt">>})
  /\ UNCHANGED <<slots, svc, chr, remoteNotify, chars, configured, told, twice>>

OnOpen ==
  /\ Handle("open") /\ Head(events).ok
  /\ conAddr' = Head(events).addr
  /\ opened' = TRUE
  /\ UNCHANGED paired
  /\ MaybeStartDiscovery(TRUE, paired, {<<"encrypt">>})
  /\ UNCHANGED <<slots, svc, chr, remoteNotify, chars, configured, told, twice>>

(* onMtuResp and searchServices. *)
OnMtuResp ==
  /\ Handle("mtu") /\ Head(events).ok
  /\ Ask(conAddr, {"search"} \X Services)
  /\ UNCHANGED <<slots, clientVars>>

OnSearchResult ==
  /\ Handle("res")
  /\ svc' = svc \cup {Head(events).svc}
  /\ UNCHANGED <<asked, slots, conVars, chr, remoteNotify, chars, configured, told, twice>>

Populated(s) == \E c \in CharsOf(s) : c \in chr

(* Service::pull and Char::establish of the services not yet populated.    *)
(* Characteristics are found while the link is there; a service without    *)
(* any is pulled again whenever a search completes.                        *)
Pull(S) ==
  LET found == {c \in Chars : /\ ServiceOf[c] \in S /\ link /\ conAddr = session
                              /\ remote[c] # "absent"}
      notify == {c \in found : remote[c] = "notify"}
  IN  /\ chr' = chr \cup found /\ chars' = chars \cup found
      /\ remoteNotify' = (remoteNotify \ found) \cup notify
      /\ configured' = configured \cup (found \ Notifying)
      /\ Ask(conAddr, {"reg"} \X (Notifying \cap notify))
      /\ told' = told \cup S
      /\ twice' = twice \cup (told \cap S)

OnSearchComplete ==
  /\ Handle("cmpl") /\ Head(events).ok
  /\ Pull({s \in svc : ~Populated(s)})
  /\ UNCHANGED <<slots, conVars, svc>>

(* passToChar and Char::onRegNotify. *)
OnRegNotify ==
  /\ Handle("reg") /\ Head(events).ok /\ Head(events).chr \in chars
  /\ configured' = configured \cup {Head(events).chr}
  /\ UNCHANGED <<asked, slots, conVars, svc, chr, remoteNotify, chars, told, twice>>

(* A failure is logged, an event for a characteristic unknown is dropped. *)
Ignore ==
  /\ \/ \E t \in {"open", "mtu", "cmpl", "reg"} : Handle(t) /\ ~Head(events).ok
     \/ Handle("reg") /\ Head(events).chr \notin chars
  /\ UNCHANGED <<asked, slots, clientVars>>

(* mutant: con.addr is cleared before the services are closed *)
Close_AddrFirst ==
  /\ slots' = slots \ ({0} \X (chr \cap Notifying \cap remoteNotify))
  /\ svc' = {} /\ chr' = {} /\ remoteNotify' = {} /\ chars' = {} /\ configured' = {}
  /\ told' = {} /\ twice' = {}
  /\ conAddr' = 0 /\ opened' = FALSE /\ paired' = FALSE /\ discovering' = FALSE
  /\ mtus' = 0 /\ UNCHANGED asked

(* mutant: configsDone is not cleared *)
Close_KeepsConfigs ==
  /\ slots' = slots \ ({conAddr} \X (chr \cap Notifying \cap remoteNotify))
  /\ svc' = {} /\ chr' = {} /\ remoteNotify' = {} /\ chars' = {} /\ configured' = configured
  /\ told' = {} /\ twice' = {}
  /\ conAddr' = 0 /\ opened' = FALSE /\ paired' = FALSE /\ discovering' = FALSE
  /\ mtus' = 0 /\ UNCHANGED asked

(* Client::close, Service::close and Char::close.  Registrations are       *)
(* returned while con.addr is still the address they were made with.       *)
Close ==
  /\ slots' = slots \ ({conAddr} \X (chr \cap Notifying \cap remoteNotify))
  /\ svc' = {} /\ chr' = {} /\ remoteNotify' = {} /\ chars' = {} /\ configured' = {}
  /\ told' = {} /\ twice' = {}
  /\ conAddr' = 0 /\ opened' = FALSE /\ paired' = FALSE /\ discovering' = FALSE
  /\ mtus' = 0 /\ UNCHANGED asked

OnClose == (Handle("close") \/ Handle("disconnect")) /\ Close

-----------------------------------------------------------------------------
Phone == PhoneConnects \/ LinkLost

StackAnswers ==
  \/ \E ok \in BOOLEAN : \/ StackOpens(ok) \/ StackExchangesMtu(ok)
                         \/ \E s \in Services : StackSearches(s, ok)
                         \/ \E c \in Chars : StackRegisters(c, ok)
  \/ StackEncrypted \/ StackEncrypts

Client ==
  \/ OnConnect \/ OnPairDone \/ OnOpen \/ OnMtuResp \/ OnSearchResult
  \/ OnSearchComplete \/ OnRegNotify \/ Ignore \/ OnClose

Next == Phone \/ StackAnswers \/ Client

Spec == Init /\ [][Next]_vars

(* The stack answers everything, the asked-for pairing included, and the   *)
(* BTC task handles every event.                                           *)
LiveSpec == Spec /\ WF_vars(StackAnswers) /\ WF_vars(Client)

-----------------------------------------------------------------------------
(* Nothing of a connection outlives it: when con is reset no service, no   *)
(* characteristic and no place in the stack's notify table is left, though *)
(* the stack may forget to clear the table and a phone's address may have  *)
(* changed (Client/Char.cpp 57-64, Client.cpp 257-276).                    *)
NothingLeft ==
  conAddr = 0 => /\ svc = {} /\ chr = {} /\ chars = {} /\ configured = {} /\ told = {}
                 /\ slots = {}

(* Discovery starts once in a connection, and only when its virtual        *)
(* connection is open and it is encrypted, in whichever order the two came *)
(* and however often they are reported (Client.cpp 146-156).               *)
DiscoverOnce ==
  [][mtus' > mtus => /\ mtus = 0
                     /\ link /\ conAddr = session => clcb /\ encrypted]_vars

(* The TODO at Client.cpp 189-190 doubts more than one service: with       *)
(* several, a service that has any of its characteristics is told of a     *)
(* connection exactly once, and is told of it before any of them can be    *)
(* used, whichever search completes when.                                  *)
ToldOnce ==
  /\ \A s \in twice : CharsOf(s) \cap chr = {}
  /\ \A c \in chr : ServiceOf[c] \in told \cap svc

Session == INSTANCE GattSession WITH
  up <- conAddr # 0, attached <- told, subscribed <- configured \cap Notifying

(* The client implements the session its owners are promised. *)
ImplementsSession == Session!Spec

(* A connection that lasts and meets no failure is used in the end: each   *)
(* service the phone has is told, each of its notifications is on.         *)
Discovered ==
  <>[](link /\ fails = 0)
    => <>[](/\ told = offered
            /\ \A c \in Notifying : remote[c] = "notify" => c \in configured)

(* Of every state: the types, nothing left of a past connection, and every  *)
(* service told once.                                                       *)
Inv == TypeOK /\ NothingLeft /\ ToldOnce
================================================================================
