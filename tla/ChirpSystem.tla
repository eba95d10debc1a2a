-------------------------------- MODULE ChirpSystem -------------------------------
(***************************************************************************)
(* The buzzer (Services/ChirpSystem): its thread plays the tones of a      *)
(* queue, which the status center and a screen (a game on the LVGL thread, *)
(* or the Theremin's own thread) fill, while LVGL opens and leaves the     *)
(* Theremin, which keeps the buzzer attached.  Nothing but the queue is    *)
(* synchronized.  A sound is one tone and the end; no sound of the         *)
(* firmware is too long for play.                                          *)
(***************************************************************************)
EXTENDS Naturals, Sequences

CONSTANTS MaxPlays, MaxOpens   \* bounds of the model: sounds; visits to the Theremin

VARIABLES
  chirps, timer, timerSem,   \* the queue of tones; the tone's timer runs; the semaphore
  attached, pwmPersistence,
  on,          \* the pin belongs to the PWM, and the sleep lock is held
  sounding,    \* the PWM has been given a frequency
  apc, half,   \* each party's next step, and the half of attach or detach it is to finish
  plays, opens,
  clashed,       \* history: two parties were inside attach and detach at once, and what
               \* they did and the flag have not agreed since
  overtaken    \* history: detached while a sound was on its way, and not attached since

soundVars == <<chirps, timer, timerSem, attached, pwmPersistence, on, sounding, apc, half, plays, opens, clashed, overtaken>>
tonesVars == <<chirps, timer, timerSem, sounding>>
pwmVars   == <<attached, on, half, clashed, overtaken>>

Players == {"center", "screen"}
Parties == Players \cup {"lvgl", "thread"}

SoundTypeOK ==
  /\ chirps \in Seq({"tone", "end"})
  /\ timer \in BOOLEAN /\ timerSem \in BOOLEAN /\ sounding \in BOOLEAN
  /\ attached \in BOOLEAN /\ on \in BOOLEAN /\ pwmPersistence \in BOOLEAN
  /\ half \in [Parties -> {"no", "attach", "detach"}]

SoundInit ==
  /\ chirps = <<>> /\ timer = FALSE /\ timerSem = TRUE
  /\ attached = FALSE /\ pwmPersistence = FALSE /\ on = FALSE /\ sounding = FALSE
  /\ apc = [p \in Parties |-> IF p = "lvgl" THEN "closed" ELSE IF p = "thread" THEN "sem" ELSE "idle"]
  /\ half = [p \in Parties |-> "no"]
  /\ plays = 0 /\ opens = 0 /\ clashed = FALSE /\ overtaken = FALSE

At(p, step) == apc[p] = step /\ half[p] = "no"
Go(p, step) == apc' = [apc EXCEPT ![p] = step]

-----------------------------------------------------------------------------
(* A sound is being queued, waits, or is played. *)
OnItsWay == chirps # <<>> \/ \E p \in Players : apc[p] \in {"reset", "send", "end"}

(* attach and detach test and set their flag, and then do it. *)
Flag(p, to, what) ==
  /\ attached' = to
  /\ IF attached = to THEN UNCHANGED <<half, clashed, overtaken>>
     ELSE /\ half' = [half EXCEPT ![p] = what]
          /\ clashed' = (clashed \/ \E q \in Parties : half[q] # "no")
          /\ overtaken' = (overtaken \/ (~to /\ (OnItsWay \/ pwmPersistence)))
  /\ UNCHANGED on

Attach(p) == Flag(p, TRUE, "attach")
Detach(p) == Flag(p, FALSE, "detach")

Finish(p) ==
  /\ half[p] # "no" /\ half' = [half EXCEPT ![p] = "no"]
  /\ on' = (half[p] = "attach")
  /\ clashed' = (clashed /\ (on' # attached \/ \E q \in Parties \ {p} : half[q] # "no"))
  /\ overtaken' = (overtaken /\ ~(on' /\ attached /\ \A q \in Parties : half[q] # "detach"))
  /\ UNCHANGED <<tonesVars, attached, pwmPersistence, apc, plays, opens>>

-----------------------------------------------------------------------------
(* The Theremin's thread is started when it is open.  The status center is *)
(* told to be silent meanwhile, but may have asked before.                 *)
Play(p) ==
  /\ At(p, "idle") /\ plays < MaxPlays /\ plays' = plays + 1 /\ Go(p, "reset")
  /\ p = "screen" => apc["lvgl"] # "opening" /\ half["lvgl"] # "attach"
  /\ IF pwmPersistence THEN UNCHANGED pwmVars ELSE Attach(p)
  /\ UNCHANGED <<tonesVars, pwmPersistence, opens>>

(* xQueueReset, then the items one by one. *)
PlayQueues(p) ==
  /\ \/ At(p, "reset") /\ Go(p, "send") /\ chirps' = <<>>
     \/ At(p, "send") /\ Go(p, "end") /\ chirps' = Append(chirps, "tone")
     \/ At(p, "end") /\ Go(p, "idle") /\ chirps' = Append(chirps, "end")
  /\ UNCHANGED <<timer, timerSem, sounding, pwmVars, pwmPersistence, plays, opens>>

(* setPersistentAttach(false): with tones in the queue their end detaches. *)
ReleaseIfEmpty == IF chirps = <<>> THEN Detach("lvgl") ELSE UNCHANGED pwmVars

(* Theremin::onStart and onStop: setPersistentAttach, and stop before the  *)
(* second.                                                                 *)
Theremin ==
  /\ \/ /\ At("lvgl", "closed") /\ opens < MaxOpens /\ opens' = opens + 1 /\ apc["screen"] = "idle"
        /\ pwmPersistence' = TRUE /\ Go("lvgl", "opening") /\ UNCHANGED <<pwmVars, chirps, sounding>>
     \/ /\ At("lvgl", "opening") /\ Go("lvgl", "open") /\ Attach("lvgl")
        /\ UNCHANGED <<chirps, sounding, pwmPersistence, opens>>
     \/ /\ At("lvgl", "open") /\ Go("lvgl", "stop") /\ chirps' = <<>>
        /\ UNCHANGED <<pwmVars, sounding, pwmPersistence, opens>>
     \/ /\ At("lvgl", "stop") /\ Go("lvgl", "unpersist") /\ sounding' = FALSE /\ Detach("lvgl")
        /\ UNCHANGED <<chirps, pwmPersistence, opens>>
     \/ /\ At("lvgl", "unpersist") /\ Go("lvgl", "release") /\ pwmPersistence' = FALSE
        /\ UNCHANGED <<pwmVars, chirps, sounding, opens>>
     \/ /\ At("lvgl", "release") /\ Go("lvgl", "closed") /\ ReleaseIfEmpty
        /\ UNCHANGED <<chirps, sounding, pwmPersistence, opens>>
  /\ UNCHANGED <<timer, timerSem, plays>>

-----------------------------------------------------------------------------
(* A tone sounds until its timer gives the semaphore; the end is followed  *)
(* by the next sound at once.                                              *)
Loop ==
  /\ \/ /\ At("thread", "sem") /\ timerSem /\ timerSem' = FALSE /\ timer' = FALSE /\ Go("thread", "get")
        /\ UNCHANGED <<chirps, sounding, pwmVars>>
     \/ /\ At("thread", "get") /\ chirps # <<>> /\ chirps' = Tail(chirps)
        /\ sounding' = (Head(chirps) = "tone") /\ timer' = sounding'
        /\ Go("thread", IF sounding' THEN "sem" ELSE "end")
        /\ UNCHANGED <<timerSem, pwmVars>>
     \/ /\ At("thread", "end") /\ Go("thread", IF pwmPersistence THEN "get" ELSE "detach")
        /\ UNCHANGED <<tonesVars, pwmVars>>
     \/ /\ At("thread", "detach") /\ Go("thread", "get") /\ Detach("thread") /\ UNCHANGED tonesVars
  /\ UNCHANGED <<pwmPersistence, plays, opens>>

ToneEnds ==
  /\ timer /\ timer' = FALSE /\ timerSem' = TRUE
  /\ UNCHANGED <<chirps, sounding, pwmVars, pwmPersistence, apc, plays, opens>>

SoundNext ==
  \/ \E p \in Players : Play(p) \/ PlayQueues(p)
  \/ \E p \in Parties : Finish(p)
  \/ Theremin \/ Loop \/ ToneEnds

-----------------------------------------------------------------------------
(* When every party has done what it began, the buzzer is off and the      *)
(* sleep lock free, whoever played, stopped and kept it attached in        *)
(* whatever order; except after two parties were inside attach and detach  *)
(* at once, until the next detach.                                         *)
QuietReleases ==
  /\ At("lvgl", "closed") /\ At("thread", "get") /\ chirps = <<>>
  /\ \A p \in Players : At(p, "idle")
  => ~attached /\ (on => clashed)

(* A tone is heard: it is given to the PWM while the buzzer is attached or *)
(* about to be; except when another sound's end, or leaving the Theremin,  *)
(* has detached what its play found attached.                              *)
Audible ==
  sounding => on \/ overtaken \/ clashed \/ apc["lvgl"] = "opening" \/ \E p \in Parties : half[p] = "attach"

SoundInv == SoundTypeOK /\ QuietReleases /\ Audible
====================================================================================
