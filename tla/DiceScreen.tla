--------------------------------- MODULE DiceScreen ---------------------------------
(***************************************************************************)
(* The dice (Screens/Dice): a reader's thread looks for shakes, LVGL's     *)
(* rolls by one or by Select.  What the two share is atomic word by word   *)
(* but not together.  Time is left out for what it decides: whether the    *)
(* window of jolts, the roll, and the hold after it are over.              *)
(***************************************************************************)
EXTENDS Naturals, Sequences, SequencesExt

CONSTANTS
  HitsNeeded, StillSamples,   \* jolts of a shake; still samples until the next
  Sides, MaxDice,             \* of a die; dice at most
  MaxPresses                  \* bound of the model: buttons pressed and shakes rolled

ASSUME DiceAssumption ==
  /\ HitsNeeded \in Nat \ {0} /\ StillSamples \in Nat \ {0}
  /\ Sides \in Nat \ {0} /\ MaxDice \in Nat \ 0 .. 1 /\ MaxPresses \in Nat

VARIABLES
  readPc,              \* the reader's next step
  hits, stillCount, armed, shakeFlag,
  dicePc,              \* LVGL's next step
  rolling, holding,    \* a roll is on; its result is not yet ReadHold old: "new" before
                       \* the next loop, "yes" after it
  dice, diceCount, totalLabel, presses,
  late,        \* the reader is at a sample it took before the last roll was begun, or over
  calm,        \* history: still samples since the last roll was begun, in a row
  raced,       \* history: it was begun while the reader counted a sample, or armed itself
  restless     \* history: a shake rolled before the watch was still again

shakeVars == <<hits, stillCount, armed, shakeFlag>>
rollVars  == <<rolling, holding, dice, diceCount, totalLabel, presses>>
diceVars  == <<readPc, shakeVars, dicePc, rollVars, late, calm, raced, restless>>

Total(values, count) == FoldLeft(+, 0, SubSeq(values, 1, count))

DiceInit ==
  /\ readPc = "sample" /\ hits = 0 /\ stillCount = 0 /\ armed = TRUE /\ shakeFlag = FALSE
  /\ dicePc = "loop" /\ rolling = FALSE /\ holding = "no" /\ presses = 0
  /\ dice \in [1 .. MaxDice -> 1 .. Sides] /\ diceCount = 2 /\ totalLabel = Total(dice, diceCount)
  /\ late = FALSE /\ calm = StillSamples /\ raced = FALSE /\ restless = FALSE

-----------------------------------------------------------------------------
(* readerFunc: a sample is a jolt or not; what it does with it depends on  *)
(* whether it is armed, which it looks up once.                            *)
Sample(jolt) ==
  /\ readPc = "sample"
  /\ readPc' = IF armed THEN IF jolt THEN "hit" ELSE "nohit" ELSE IF jolt THEN "jolt" ELSE "still"
  /\ calm' = IF jolt THEN (IF calm < StillSamples THEN 0 ELSE calm)
             ELSE IF calm < StillSamples THEN calm + 1 ELSE calm
  /\ UNCHANGED <<shakeVars, dicePc, rollVars, late, raced, restless>>

(* Armed: the window may be over first. *)
Armed ==
  \E over \in BOOLEAN :
    LET base == IF over THEN 0 ELSE hits IN
    /\ UNCHANGED <<stillCount, shakeFlag>>
    /\ \/ readPc = "nohit" /\ readPc' = "sample" /\ hits' = base /\ UNCHANGED armed
       \/ readPc = "hit" /\ base + 1 < HitsNeeded /\ readPc' = "sample" /\ hits' = base + 1 /\ UNCHANGED armed
       \/ readPc = "hit" /\ base + 1 = HitsNeeded /\ readPc' = "flag" /\ hits' = 0 /\ armed' = FALSE

(* Not armed: it arms itself once the watch was still for long enough. *)
Disarmed ==
  /\ UNCHANGED shakeFlag
  /\ \/ readPc = "jolt" /\ readPc' = "sample" /\ stillCount' = 0 /\ UNCHANGED <<hits, armed>>
     \/ /\ readPc = "still" /\ stillCount + 1 < StillSamples /\ readPc' = "sample"
        /\ stillCount' = stillCount + 1 /\ UNCHANGED <<hits, armed>>
     \/ /\ readPc = "still" /\ stillCount + 1 >= StillSamples /\ readPc' = "arm"
        /\ stillCount' = 0 /\ hits' = 0 /\ UNCHANGED armed
     \/ readPc = "arm" /\ readPc' = "sample" /\ armed' = TRUE /\ UNCHANGED <<hits, stillCount>>

Reader ==
  /\ \/ Armed
     \/ Disarmed
     \/ readPc = "flag" /\ readPc' = "sample" /\ shakeFlag' = TRUE /\ UNCHANGED <<hits, stillCount, armed>>
  /\ late' = (late /\ readPc' # "sample")
  /\ raced' = (raced \/ (dicePc = "still" /\ readPc \in {"still", "arm"}))
  /\ UNCHANGED <<dicePc, rollVars, calm, restless>>

-----------------------------------------------------------------------------
RandomizeFaces ==
  dice' \in {d \in [1 .. MaxDice -> 1 .. Sides] : \A i \in 1 .. MaxDice : d[i] # dice[i] <=> i <= diceCount}

UpdateLabels == totalLabel' = Total(dice', diceCount')

(* startRoll, in its order: the detector is disarmed, its count and its    *)
(* flag are cleared, the roll is on.                                       *)
StartRoll ==
  \/ /\ dicePc = "start" /\ dicePc' = "still" /\ armed' = FALSE /\ calm' = 0
     /\ late' = (readPc # "sample")
     /\ raced' = (readPc \in {"still", "arm"}) /\ UNCHANGED <<hits, stillCount, shakeFlag, rollVars, restless>>
  \/ /\ dicePc = "still" /\ dicePc' = "clear" /\ stillCount' = 0
     /\ UNCHANGED <<hits, armed, shakeFlag, rollVars, late, calm, raced, restless>>
  \/ /\ dicePc = "clear" /\ dicePc' = "loop" /\ shakeFlag' = FALSE /\ rolling' = TRUE /\ totalLabel' = 0
     /\ UNCHANGED <<hits, stillCount, armed, holding, dice, diceCount, presses, late, calm, raced, restless>>

Press == presses < MaxPresses /\ presses' = presses + 1

(* handleInput, but for Alt. *)
Input(btn) ==
  /\ dicePc = "loop" /\ Press /\ ~rolling
  /\ \/ /\ btn = "select" /\ dicePc' = "start" /\ UNCHANGED <<diceCount, totalLabel, dice>>
     \/ /\ btn = "up" /\ diceCount < MaxDice /\ diceCount' = diceCount + 1
        /\ UNCHANGED dice /\ UpdateLabels /\ UNCHANGED dicePc
     \/ /\ btn = "down" /\ diceCount > 1 /\ diceCount' = diceCount - 1
        /\ UNCHANGED dice /\ UpdateLabels /\ UNCHANGED dicePc
  /\ UNCHANGED <<shakeVars, rolling, holding, late, calm, raced, restless>>

(* The rest of loop: the faces tumble, the roll ends; or a shake is taken, *)
(* and heeded unless the result is being read.                             *)
Rolls ==
  /\ dicePc = "loop" /\ rolling /\ RandomizeFaces
  /\ \/ UNCHANGED <<rolling, holding, diceCount, totalLabel, presses>>
     \/ rolling' = FALSE /\ holding' = "new" /\ UNCHANGED <<diceCount, presses>> /\ UpdateLabels
  /\ late' = (late \/ (~rolling' /\ readPc # "sample"))
  /\ UNCHANGED <<shakeVars, dicePc, calm, raced, restless>>

TakesShake ==
  /\ dicePc = "loop" /\ ~rolling /\ shakeFlag' = FALSE
  /\ holding' = IF holding = "new" /\ ~late THEN "yes" ELSE holding
  /\ IF shakeFlag /\ holding = "no"
     THEN Press /\ dicePc' = "start" /\ restless' = (restless \/ (calm < StillSamples /\ ~raced))
     ELSE UNCHANGED <<dicePc, presses, restless>>
  /\ UNCHANGED <<hits, stillCount, armed, rolling, dice, diceCount, totalLabel, late, calm, raced>>

(* ReadHold is many turns of LVGL and of the reader: the one is done with  *)
(* its sample, and the other looked after that.                            *)
HoldOver ==
  /\ holding = "yes" /\ holding' = "no"
  /\ UNCHANGED <<shakeVars, dicePc, rolling, dice, diceCount, totalLabel, presses, late, calm, raced, restless>>

(* Alt leaves the screen and its state with it; it is left out.            *)
DiceNext ==
  \/ \E jolt \in BOOLEAN : Sample(jolt)
  \/ Reader
  \/ StartRoll /\ UNCHANGED readPc
  \/ (\E b \in {"select", "up", "down"} : Input(b)) /\ UNCHANGED readPc
  \/ (Rolls \/ TakesShake \/ HoldOver) /\ UNCHANGED readPc

-----------------------------------------------------------------------------
DiceTypeOK ==
  /\ hits \in 0 .. HitsNeeded - 1 /\ stillCount \in 0 .. StillSamples - 1 /\ diceCount \in 1 .. MaxDice
  /\ \A i \in 1 .. MaxDice : dice[i] \in 1 .. Sides

(* One shake rolls once: before a shake rolls again the watch was still    *)
(* for as long as is asked, since the roll before was begun, by whichever  *)
(* of the two; unless that was while the reader was just arming itself.    *)
OneShakeOneRoll == ~restless

(* The total on the screen is that of the dice that are shown, after every *)
(* roll and every change of their number.                                  *)
TotalShown == ~rolling /\ dicePc \in {"loop", "start"} => totalLabel = Total(dice, diceCount)

DiceInv == DiceTypeOK /\ OneShakeOneRoll /\ TotalShown
=====================================================================================
