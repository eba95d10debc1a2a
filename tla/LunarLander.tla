-------------------------------- MODULE LunarLander --------------------------------
(***************************************************************************)
(* The game (Screens/Lander) and its two popups.  A button's event goes    *)
(* two ways: through the game's queue to the loop, which steers with it,   *)
(* and through InputLVGL's queue and thread to LVGL's encoder, which       *)
(* presses the buttons of a popup.  LVGL's thread runs the loop, then the  *)
(* encoder, turn by turn.  The physics is left out for where the ship may  *)
(* get; Up and Down are one button.                                        *)
(***************************************************************************)
EXTENDS Naturals, Sequences, SequencesExt

CONSTANTS
  GameQueue, PadQueue,   \* the places of the two queues
  MaxPushes              \* bound of the model: times a button is pressed

VARIABLES
  down, pushes,            \* external: the buttons that are held
  gameEvts, padEvts,
  lastKey, action,         \* InputLVGL: what it tells LVGL
  encoder,                 \* LVGL: the encoder's last state, pressed or not
  turn,                    \* LVGL's thread: its next step
  fire, angleDir, noFuel, gameOver, paused, exitFlag,
  modal, releaseWait, choice,   \* the popup, and which of its buttons has the focus
  reached,      \* history: by button: its reached event is queued, applied or lost
  unseen,      \* history: the popup was shown while Select was, or had just been,
               \* held and the game did not know
  edge,        \* history: the button for which the encoder was pressed last
  anew,        \* history: Select was pressed since the popup is shown
  answer       \* history: how the reached popup was answered

padVars  == <<lastKey, action>>
flyVars  == <<fire, angleDir, noFuel>>
popVars  == <<modal, releaseWait, choice, unseen>>
gameVars == <<flyVars, gameOver, paused, exitFlag, popVars>>
landerVars == <<down, pushes, gameEvts, padEvts, padVars, encoder, turn, gameVars,
                reached, edge, anew, answer>>

Buttons == {"select", "turn", "alt"}

LanderInit ==
  /\ down = {} /\ pushes = 0 /\ gameEvts = <<>> /\ padEvts = <<>>
  /\ lastKey = "select" /\ action = FALSE /\ encoder = FALSE /\ turn = "event"
  /\ fire = FALSE /\ angleDir = FALSE /\ noFuel = FALSE
  /\ gameOver = FALSE /\ paused = FALSE /\ exitFlag = FALSE
  /\ modal = "none" /\ releaseWait = FALSE /\ choice = "yes"
  /\ reached = [b \in Buttons |-> "applied"] /\ unseen = FALSE /\ edge = "select" /\ anew = FALSE /\ answer = "none"

-----------------------------------------------------------------------------
(* Events::post, for a button that is pressed or let go.  InputLVGL's      *)
(* thread does nothing else, its queue does not fill.                      *)
Push(b) ==
  LET e == [btn |-> b, press |-> b \notin down] IN
  /\ turn # "fly" /\ Len(padEvts) < PadQueue
  /\ e.press => pushes < MaxPushes
  /\ pushes' = pushes + (IF e.press THEN 1 ELSE 0)
  /\ down' = IF e.press THEN down \cup {b} ELSE down \ {b}
  /\ gameEvts' = IF Len(gameEvts) < GameQueue THEN Append(gameEvts, e) ELSE gameEvts
  /\ padEvts' = Append(padEvts, e)
  /\ reached' = [reached EXCEPT ![b] = IF Len(gameEvts) < GameQueue THEN "queued" ELSE "lost"]
  /\ anew' = (anew \/ (b = "select" /\ e.press))
  /\ UNCHANGED <<padVars, encoder, edge, turn, gameVars, answer>>

(* InputLVGL::loop; only the encoder looks. *)
PadLoop ==
  /\ turn = "encoder" /\ padEvts # <<>> /\ padEvts' = Tail(padEvts)
  /\ lastKey' = Head(padEvts).btn /\ action' = Head(padEvts).press
  /\ UNCHANGED <<down, pushes, gameEvts, encoder, turn, gameVars, reached, edge, anew, answer>>

-----------------------------------------------------------------------------
SelectAbout ==
  "select" \in down \/ encoder \/ (lastKey = "select" /\ action) \/ \E e \in ToSet(padEvts) : e.btn = "select"

PressBehind == \E e \in ToSet(padEvts) : e.btn = "select" /\ e.press

(* A popup takes the focus; one that is made while the ship fires lets the *)
(* first click pass.                                                       *)
Popup(which, wait) ==
  /\ modal' = which /\ releaseWait' = wait /\ choice' = "yes"
  /\ unseen' = (IF wait THEN PressBehind ELSE SelectAbout) /\ anew' = FALSE

NoPopup == UNCHANGED <<popVars, anew>>

ResetLevel == fire' = FALSE /\ angleDir' = FALSE /\ noFuel' = FALSE

Reaches(e, how) ==
  reached' = IF reached[e.btn] = "queued" /\ \A f \in ToSet(Tail(gameEvts)) : f.btn # e.btn
            THEN [reached EXCEPT ![e.btn] = how] ELSE reached

(* An event of the queue; with a popup it is dropped. *)
Steers(e) ==
  IF modal # "none" THEN Reaches(e, "lost") /\ UNCHANGED <<gameVars, anew>> ELSE
  /\ Reaches(e, "applied")
  /\ fire' = IF e.btn = "select" THEN e.press ELSE fire
  /\ angleDir' = IF e.btn = "turn" THEN e.press ELSE angleDir
  /\ IF e.btn = "alt" /\ e.press THEN Popup("paused", fire) /\ paused' = TRUE ELSE NoPopup /\ UNCHANGED paused
  /\ UNCHANGED <<noFuel, gameOver, exitFlag>>

LoopEvent ==
  /\ turn = "event" /\ turn' = "fly"
  /\ IF gameEvts = <<>> THEN UNCHANGED <<gameEvts, gameVars, reached, anew>>
     ELSE Steers(Head(gameEvts)) /\ gameEvts' = Tail(gameEvts)
  /\ UNCHANGED <<down, pushes, padEvts, padVars, encoder, edge, answer>>

Crashed(wait) == gameOver' = TRUE /\ Popup("over", wait) /\ UNCHANGED answer

(* Where the ship gets, with fuel while it fires: out of the picture the   *)
(* thrust is forgotten before the popup is made, on the ground after.      *)
Flies ==
  LET burns == fire /\ ~noFuel IN
  /\ noFuel' \in (IF burns THEN BOOLEAN ELSE {noFuel})
  /\ \/ fire' = burns /\ NoPopup /\ UNCHANGED <<gameOver, angleDir>>
     \/ fire' = FALSE /\ (Crashed(FALSE) \/ Crashed(burns)) /\ UNCHANGED angleDir
  /\ UNCHANGED <<paused, exitFlag, answer>>

Lands == ResetLevel /\ NoPopup /\ UNCHANGED <<gameOver, paused, exitFlag, answer>>

LoopFly ==
  /\ turn = "fly" /\ turn' = (IF exitFlag THEN "left" ELSE "encoder")
  /\ \/ exitFlag /\ modal' = "none" /\ UNCHANGED <<flyVars, gameOver, paused, exitFlag, releaseWait, choice, unseen, anew, answer>>
     \/ ~exitFlag /\ (gameOver \/ paused) /\ UNCHANGED <<gameVars, anew, answer>>
     \/ ~exitFlag /\ ~gameOver /\ ~paused /\ (Flies \/ Lands)
  /\ UNCHANGED <<down, pushes, gameEvts, padEvts, padVars, encoder, edge, reached>>

-----------------------------------------------------------------------------
(* The button of the popup that has the focus is clicked. *)
Click ==
  IF releaseWait
  THEN releaseWait' = FALSE /\ UNCHANGED <<flyVars, gameOver, paused, exitFlag, modal, choice, unseen, answer>>
  ELSE /\ modal' = "none"
       /\ answer' = (IF anew THEN "anew" ELSE IF unseen THEN "unseen" ELSE IF edge # "select" THEN "chord" ELSE "old")
       /\ exitFlag' = (choice = "no")
       /\ IF choice = "yes" /\ modal = "over" THEN ResetLevel /\ gameOver' = FALSE ELSE UNCHANGED <<flyVars, gameOver>>
       /\ paused' = (paused /\ choice = "no")
       /\ UNCHANGED <<releaseWait, choice, unseen>>

(* LVGL's encoder: what read leaves out is Enter, let go.  A press of Up   *)
(* or Down moves the focus, a release of Enter clicks.                     *)
Encoder ==
  /\ turn = "encoder" /\ turn' = "event"
  /\ encoder' = (lastKey # "alt" /\ action)
  /\ edge' = IF encoder' /\ ~encoder THEN lastKey ELSE edge
  /\ \/ /\ modal # "none" /\ encoder' /\ ~encoder /\ lastKey = "turn"
        /\ choice' = (IF choice = "yes" THEN "no" ELSE "yes")
        /\ UNCHANGED <<flyVars, gameOver, paused, exitFlag, modal, releaseWait, unseen, answer>>
     \/ modal # "none" /\ ~encoder' /\ encoder /\ lastKey # "turn" /\ Click
     \/ /\ modal = "none" \/ (encoder' <=> encoder) \/ (encoder' <=> lastKey # "turn")
        /\ UNCHANGED <<gameVars, answer>>
  /\ UNCHANGED <<down, pushes, gameEvts, padEvts, padVars, reached, anew>>

LanderNext == (\E b \in Buttons : Push(b)) \/ PadLoop \/ LoopEvent \/ LoopFly \/ Encoder

-----------------------------------------------------------------------------
LanderTypeOK ==
  /\ down \subseteq Buttons /\ turn \in {"event", "fly", "encoder", "left"}
  /\ modal \in {"none", "paused", "over"} /\ choice \in {"yes", "no"}

(* A popup is answered by a press made since it is shown, and not by the   *)
(* hand that still held the thrust, unless the game did not know of that   *)
(* (out of fuel or of the picture, or a press behind), or another button   *)
(* was used together with Select.                                          *)
AnsweredAnew == answer # "old"

(* While the game goes on the ship fires and turns only while the button   *)
(* is held, unless the button's reached event has not reached the game:     *)
(* still queued, or dropped because of a popup or of the queue.            *)
HandsOff ==
  modal = "none" /\ ~exitFlag =>
    /\ fire => "select" \in down \/ reached["select"] # "applied"
    /\ angleDir => "turn" \in down \/ reached["turn"] # "applied"

(* The game stands still for a popup, and only for one, until it is left.  *)
StandsForPopup == ~exitFlag => (gameOver <=> modal = "over") /\ (paused <=> modal = "paused")

LanderInv == LanderTypeOK /\ AnsweredAnew /\ HandsOff /\ StandsForPopup
====================================================================================
