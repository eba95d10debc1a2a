------------------------------ MODULE GattSession ------------------------------
(***************************************************************************)
(* What the Bluetooth client promises the code that registers services     *)
(* with it (Notifs/ANCS, Notifs/AMS, Notifs/CurrentTime).  While a         *)
(* connection lasts a registered service may be attached (its connect      *)
(* callback has run) and then its characteristics subscribed to; when the  *)
(* connection ends every one is detached at once, so that no service and   *)
(* no subscription outlives the connection it belongs to.                  *)
(***************************************************************************)
CONSTANTS Services, Chars, ServiceOf

VARIABLES
  up,          \* there is a connection
  attached,    \* the services whose owners were told of it
  subscribed   \* the characteristics whose owners were told they notify

vars == <<up, attached, subscribed>>

Init == ~up /\ attached = {} /\ subscribed = {}

Begin ==
  /\ ~up /\ up' = TRUE
  /\ UNCHANGED <<attached, subscribed>>

Attach(S) ==
  /\ up /\ S \cap attached = {}
  /\ attached' = attached \cup S
  /\ UNCHANGED <<up, subscribed>>

Subscribe(c) ==
  /\ up /\ ServiceOf[c] \in attached /\ c \notin subscribed
  /\ subscribed' = subscribed \cup {c}
  /\ UNCHANGED <<up, attached>>

End ==
  /\ up /\ up' = FALSE
  /\ attached' = {} /\ subscribed' = {}

Next ==
  \/ Begin \/ End
  \/ \E S \in SUBSET Services : Attach(S)
  \/ \E c \in Chars : Subscribe(c)

Spec == Init /\ [][Next]_vars
================================================================================
