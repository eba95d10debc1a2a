------------------------------ MODULE StatusCenter ------------------------------
(***************************************************************************)
(* The status center (Services/StatusCenter): a thread that makes of the   *)
(* battery's events the colour of the big LED.  The phone's notifications  *)
(* come through the same queue, and each takes the thread some time.       *)
(***************************************************************************)
EXTENDS Battery

CONSTANT CenterQueue   \* the places of StatusCenter::events

(* The two events of the battery's constructor fit. *)
ASSUME StatusCenterAssumption == CenterQueue \in Nat \ 0..1

VARIABLES
  events, battState,
  ended,         \* the thread has stopped itself
  lost           \* history: an event of the battery found the queue full

centerVars == <<events, battState, ended, lost>>

Phone == "phone"

CenterTypeOK ==
  /\ events \in Seq(Level \cup Charging \cup {Phone}) /\ Len(events) =< CenterQueue
  /\ battState \in {"Ok", "Empty", "Charging", "Full"}
  /\ ended \in BOOLEAN /\ lost \in BOOLEAN

(* Made before the battery, whose constructor posts. *)
CenterInit ==
  /\ events = (IF charge = "Unplugged" THEN <<level>> ELSE <<level, charge>>)
  /\ battState = "Ok" /\ ended = FALSE /\ lost = FALSE

(* EventQueue::post, for each of a measurement's events. *)
Receive(posts) ==
  LET room == CenterQueue - Len(events)
  IN  /\ events' = events \o SubSeq(posts, 1, IF room < Len(posts) THEN room ELSE Len(posts))
      /\ lost' = (lost \/ room < Len(posts))

MeasureAndPost == Measure /\ Receive(Posts) /\ UNCHANGED <<battState, ended>>

(* Bound of the model: one notification waits at a time. *)
Notify ==
  /\ \A i \in DOMAIN events : events[i] # Phone
  /\ events' = IF Len(events) < CenterQueue THEN Append(events, Phone) ELSE events
  /\ UNCHANGED <<battVars, battState, ended, lost>>

(* mutant: a charger that goes makes the LED forget the level *)
ProcessBatt_Unplugged(e) ==
  /\ battState' = CASE e \in {"Full", "Charging"} -> e
                    [] e = "VeryLow" -> "Empty"
                    [] e \in {"Low", "Unplugged"} -> "Ok"
                    [] OTHER -> battState
  /\ ended' = (e = "Critical")

ProcessBatt(e) ==
  /\ battState' = CASE e \in {"Full", "Charging"} -> e
                    [] e = "VeryLow" -> "Empty"
                    [] e = "Low" -> "Ok"
                    [] OTHER -> battState
  /\ ended' = (e = "Critical")

Handle ==
  /\ ~ended /\ events # <<>> /\ events' = Tail(events)
  /\ IF Head(events) = Phone THEN UNCHANGED <<battState, ended>> ELSE ProcessBatt(Head(events))
  /\ UNCHANGED <<battVars, lost>>

-----------------------------------------------------------------------------
(* Once its events are handled, the LED shows what the battery knows,      *)
(* unless one was lost.                                                    *)
LedShows ==
  events = <<>> /\ ~lost /\ ~isShutdown =>
    battState = IF charge # "Unplugged" THEN charge
                ELSE IF level = "VeryLow" THEN "Empty" ELSE "Ok"

(* The types, and the LED right. *)
CenterInv == CenterTypeOK /\ LedShows
================================================================================
