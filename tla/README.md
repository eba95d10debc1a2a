# Artemis firmware: formal model

TLA+ models, TLC runs and TLAPS proofs of the Artemis watch firmware (ESP32-S3,
ESP-IDF, FreeRTOS, C++). Paths below are relative to `src/main/src/` of the
repository unless they begin with `src/`. The project follows the code as it is
written, not as its comments describe it; where the two were found to differ,
"Where the code and its documentation differ" says so.

Contents: [1 The system](#1-the-system) ·
[2 Plan](#2-plan) ·
[3 Modules and code](#3-modules-and-code) ·
[4 Runs](#4-runs) ·
[5 Fairness](#5-fairness) ·
[6 Proofs](#6-proofs) ·
[7 Where the code and its documentation differ](#7-where-the-code-and-its-documentation-differ) ·
[8 What is not covered](#8-what-is-not-covered)

Running it, inside this directory:

    tlc -workers 2 -config ANCS.cfg ANCS.tla        # a run of section 4
    tlapm ANCSProofs.tla                            # a proof of section 6

## 1 The system

### 1.1 Threads

The firmware has no main loop. These tasks run for the life of the watch and
preempt one another:

| task | code | what it does |
|---|---|---|
| LVGL | `LV_Interface/LVGL.cpp` | sleep manager, the current screen's `loop`, the graphics timers; blocks in `Sleep::sleep` |
| BTC | Bluedroid | every Bluetooth callback: GAP, GATT client, GATT server |
| sys_evt | ESP-IDF | WiFi and IP events, for `WiFiHome` |
| StatusSvc | `Services/StatusService.cpp` | home WiFi, fetch of the box status |
| ANCS::Notif, ANCS::Data | `Notifs/ANCS/Client.cpp` | Apple notifications: events, attributes |
| AMS::Update | `Notifs/AMS/Client.cpp` | Apple media state |
| Android, UART | `Notifs/Android.cpp`, `BLE/UART.cpp` | line protocol of the Android companion |
| IMU (two) | `Devices/IMU.cpp` | samples; tilt and step interrupts |
| Battery | `Devices/Battery.cpp` | sampling, charging, critical level |
| Input, Time | `Devices/Input.cpp`, `Services/Time.cpp` | `SleepyThreaded`: paused while the watch sleeps |
| StatusCenter, ChirpSystem, LED | `Services/`, `Devices/LEDController.cpp` | LEDs and sound |
| PerseCtrl threads | `Screens/PerseCtrl/` | only while the robot controller is open |
| NetTest worker, Dice reader, Theremin | `Screens/` | only while that screen is open |

They interact in four ways:

* **Events** (`Util/Events`): `Events::post` copies the list of subscribers of
  a facility, then appends to the bounded queue of each, one after another and
  without waiting: a full queue loses the event.
* **Direct calls** into another component's object through the `Services`
  locator, on the caller's thread. Most objects have no lock.
* **Callbacks**, mainly of the Bluetooth stack on BTC.
* **FreeRTOS primitives**: semaphores (`wakeSem`, `pauseSem`, `stopSem`),
  mutexes and queues.

### 1.2 Components

For each: the state it keeps, its operations, what is hard, and what makes it
correct. `PROJECT.json` lists all 33 with their sources.

**Status service** (`Services/StatusService`, `StatusFetch`). State: network
state, paused, refresh flag, backoff, three 32-bit deadlines, last payload,
alert mark. Operations: event handling, `startConnect`, `dropWifi`, `doFetch`,
`checkAlerts`, `requestRefresh`. Hard: driver events, sleep events and timeouts
arrive in any order while a fetch blocks the thread for seconds; the counter
wraps. Correct when: the radio is off unless wanted, a lost link is noticed,
the watch joins again after a wake, deadlines are neither passed nor early, an
alert is announced once and never swallowed.

**Home network** (`Services/WiFiHome`). State: connection state, retries.
Operations: `connect`, `stop`, two event handlers of another task. Hard: both
tasks write the state; events of a stopped session are still in the loop's
queue. Correct with the status service above it.

**ANCS client** (`Notifs/ANCS/Client`). State: `needData`, `queuedUids`,
request state, uid in flight, two characteristic queues. Operations:
notification event, attribute request, reply parsing, timeout, eviction,
connection open and close. Hard: two threads and BTC; replies without a request
number that may come after the timeout; removal and modification during a
fetch. Correct when: queue and set agree, the request in flight is the front,
no notification shows another's text, and once quiet the watch shows what the
phone has.

**AMS client** (`Notifs/AMS/Client`). State: info, hint, state, dirty. Hard:
attributes and playback in any order, batches closed by a timeout, emissions
outside the lock. Correct when: Phone shows the phone's track and playback, and
the metadata before the state.

**Android source and UART** (`Notifs/Android`, `BLE/UART`, `BLE/Server/Char`).
State: three buffers one behind the other, `connected`, call ids. Hard: the
session ends on BTC while two threads work; frames are length-prefixed inside
lines. Correct when: frames are never mixed, the source and Phone agree, a call
can be rejected, a hello is heard.

**Phone store** (`Notifs/Phone`). State: current source, deque of
notifications, media. Operations: connect, disconnect, add, modify, remove,
actions of the user. Hard: written by three threads, read by LVGL; the change
comes before its event. Correct when: uids are distinct, the limit holds, and
the screens mirror it.

**Lock screen, call screen** (`Screens/Lock`, `Screens/CallScreen`). State:
event queue, items, call. Hard: snapshot and subscription are two steps.
Correct when: the list mirrors the store, a call is noticed, a call that is
over ends its screen.

**Connection manager** (`BLE/ConMan`, `BLE/ConConf`, `BLE/GAP`). State:
connected, advertising hint, intent, power mode, parameters under way and
waiting. Hard: asynchronous stack; two threads run the same unlocked code.
Correct when: the hint is true, the watch can be found, the last mode wins.

**Bluetooth client** (`BLE/Client`). State: connection, gate flags, services,
characteristics, notify registrations. Hard: answers in any order, events of an
ended connection. Correct when: it implements the session that the owners of
services rely on (`GattSession`), starts discovery once, and finishes it.

**Sleep manager, sleep, IMU** (`Services/SleepMan`, `Services/Sleep`,
`Devices/IMU`). State: sleep flags, wake semaphore, tilt direction. Hard: four
parties wake or arm. Correct when: a wake asked for ends the sleep, nothing else
does, the tilt detection is armed the right way, and a shutdown is shown.

**Threads** (`Util/Threaded`). State: thread state, paused, two semaphores.
Hard: a paused thread stops itself; resume may come before it has ended.
Correct when: nothing paused works while the watch sleeps, and pause returns.

**Battery and status center** (`Devices/Battery`, `Services/StatusCenter`).
State: level, charging, a timer, a semaphore, a mutex; the LED's colour. Hard:
`setSleep` stops the timer outside the mutex, in two statements, while
interrupts and the thread start it; the center hears of a change through a
queue that drops. Correct when: the thread always has something that will call
it, a dying cell turns the watch off, the LED shows the battery.

**Robot controller** (`Screens/PerseCtrl`: `WiFiSTA`, `PairService`,
`TCPClient`, `Comm`, `Feed`). State: station, socket, a service that exists
while pairing, a pool of three images. Hard: three threads hang up one
connection without a lock; the driver answers on a fourth; frames overtake one
another. Correct when: the station's state follows the driver's, a lost robot
is shown as lost, no image is in two hands.

**Bluetooth server** (`BLE/Server`). State: services under construction, a
queue of descriptors, subscriptions, prepared writes. Hard: the stack takes one
descriptor at a time; a sender's thread is cut off by the end of a session.
Correct when: each descriptor ends up with its characteristic, only a
subscriber is notified, a long write is whole.

**Sound and LEDs** (`Services/ChirpSystem`, `Devices/LEDController`). State:
queue of tones, the attached pin and a sleep lock; a short and a continuous
pattern, a step, a timer. Hard: attach and detach are tests and sets on several
threads; the LED's thread takes its semaphore before its lock. Correct when: a
sound is heard and the buzzer let go after it; a pattern goes on, each step
lasts, and the LED comes to rest as asked.

**Clock** (`Services/Time`, `Devices/RTC`). State: a time and when it was taken;
the chip's two-digit year. Hard: the sync, a setter and readers interleave.
Correct when: it shows the time set, lags only while the chip is being read,
and keeps two centuries.

**Status screens and network test** (`Screens/Home`, `Screens/NetTest`). State:
queue, what is drawn, a worker and two flags. Hard: a screen reads and then
listens; leaving waits for the worker. Correct when: what is shown is the
latest unless an update was lost, and a test runs when it was asked for.

**Lander, settings, dice** (`Screens/Lander`, `Screens/Settings`,
`Screens/Dice`). Hard: one button reaches the game by one queue and its popup by
another; elements of a screen change memory and hardware at once, flash when
the screen is left; a thread looks for shakes while LVGL rolls. Correct when: a
popup is answered by a press made for it, a setting takes effect and outlives a
restart, a shake rolls once, the total shown is the faces'.

**Motion sensor** (`Devices/IMU`, the vendor's driver, `Periph/I2C`). State: the
chip's bank, masks, latency, latched tilt. Hard: a write to bank B is three
transactions, the lock covers one; each may fail. Correct when: the chip
returns to its user bank, agrees with what was asked, announces no tilt it has
not seen, and is not deaf for good.

**Text** (`Util/TextSanitize`). UTF-8 into the font's ASCII. Hard: cut,
overlong and stray sequences. Correct against the standard's table.

**Boot and hardware test** (`src/main/main.cpp`, `JigHWTest`, `EfuseMeta`,
`Pins`, the bootloader's hook). State: the fuses, the order of construction.
Hard: fuses are burnt once and power may go meanwhile; four places map them to
a board; threads run before init is through. Correct when: a watch that passed
the test starts with the pins of its board, no broken watch is fused, nothing
is used before it is there.

Not modelled: the theme and interface elements, the main menu, the level, the
Theremin's pitch, motion fusion, examples and tools; section 8.

## 2 Plan

Order of work, the most important behaviour first. Each step ends with its runs
and, where the prover reaches it, its proofs. All are modelled and checked;
"proved" says that the safety invariants its runs check are theorems too
(section 6).

| step | modules | state |
|---|---|---|
| 1 | `WiFiHome`, `StatusService`, `StatusTimers`, `StatusFetch` | proved |
| 2 | `PhoneNotifs`, `ANCS`; `PhoneStore`, `LockScreen`, `CallScreen`, `PhoneScreens`; `AMS`, `Android` | proved |
| 3 | `ConMan`, `GattSession`, `BLEClient` and the refinement | proved |
| 4 | `SleepMan`, `SleepyThreads` | proved |
| 5 | `GattServer` | proved |
| 6 | `Battery`, `StatusCenter`, `ChirpSystem`, `LEDController`, `Clock` | proved |
| 7 | `WiFiSTA`, `PerseCtrl`, `Feed` | proved |
| 8 | `StatusScreens`, `LunarLander`, `SettingsScreen`, `DiceScreen`, `IMU`; `Boot` | proved |
|   | `TextSanitize` | checked |
| left out | `Events` with unlisten and unblock, the debouncing of `Input` | unlistening during a post is a question of memory lifetime (section 8); the debouncing is a counter of one thread |

Abstract specifications: `GattSession` (`BLEClient` is shown to implement it),
`Feed`'s pool as the invariant `OneHand`, the standard's table of UTF-8 in
`TextSanitize`, and in `StatusTimers` the distances a wrapped comparison stands
for.

Of the safety properties, two have no theorem: `TextInv` and `NothingLost`, the
premise of `EventsKeepUp`; section 6 says why.

How the modules are put together:

    WiFiHome <-EXTENDS- StatusService <-EXTENDS- WiFiProofs
    WiFiSTA <-EXTENDS- PerseCtrl      <-EXTENDS- WiFiProofs
    PhoneNotifs <-EXTENDS- ANCS <-EXTENDS- ANCSProofs
                <-EXTENDS- PhoneStore <-EXTENDS- LockScreen, CallScreen
                                      <-EXTENDS- PhoneScreens, which INSTANCEs both
    AMS <-EXTENDS- AMSProofs
    GattSession <-INSTANCE ... WITH- BLEClient <-EXTENDS- MCBLEClient, BLEProofs
    Battery <-EXTENDS- StatusCenter
    Android <-EXTENDS- BLEProofs

    SafeParts   EXTENDS StatusTimers, StatusCenter, Feed, GattServer, ChirpSystem,
                        LEDController, TextSanitize, Clock
    LiveParts   EXTENDS SleepyThreads, StatusFetch, Battery, ConMan
    ScreenParts EXTENDS PhoneScreens, StatusScreens, LunarLander, SettingsScreen,
                        DiceScreen
    PowerParts  EXTENDS SleepMan, Boot, IMU
    SafePartsProofs, LivePartsProofs, ScreenPartsProofs, PowerPartsProofs
                EXTEND each the sum of its name

The last four are *sums*: a variable `part` chooses which of the modules a
behaviour is of, the variables of the others keep their initial values, and an
invariant of one holds of all behaviours because it holds in the initial state
of the others. So one run checks several components that share nothing, over
the sum of their states, not the product. Components that do share state are
composed: `StatusService` with `WiFiHome`, `PhoneScreens` with the store,
`StatusCenter` with `Battery`, `PerseCtrl` with `WiFiSTA`.

Modules whose constants are plain numbers or model values are run directly;
`MCBLEClient` and `ScreenParts` define the functions a .cfg cannot write.

## 3 Modules and code

Conventions. A step is what the code does without another thread being able to
see or change shared state: the body of a locked section, one event handled by
a task that owns its state, or one access to unlocked shared state. A thread's
place in its code is a `pc` variable. Names are the source's. A text, a track
or a notification's content is a version or a set of non-empty parts. Variables
marked *history* are read by properties only: they name the cases a property
excuses, and the property's comment says why the code allows them.

### Home network and status service

`WiFiHome` has the service object and, as external parties, the WiFi driver
(`radio`) and the default event loop (`sysEvt`). `Connect` and `Stop` are the
methods, `OnStaStart`, `OnStaDisconnected` and `OnStaGotIp` the handlers, taken
from `sysEvt` one by one by `SysEvtTask`; `Post` is `EventQueue::post` with its
loss on a full queue. `StatusService` composes `Connect` and `Stop` into the
steps of its thread: `HandleEvents` drains the queue one event per step, since
other tasks may post between two; then one `loop` body (`LoopConnect`,
`LoopJoinTimeout`, `LoopFetch`, `LoopNothing`), whose conditions are those of
lines 109-121; a fetch is a phase (`pc = "fetch"`) during which everything else
may happen. Deadlines are Booleans that come true between bodies.

`StatusTimers` is the arithmetic those Booleans stand for: words modulo
`Modulus`, compared through the sign of the difference, one pass of `loop` at a
time, each at most `MaxStep` after the one before; a sleep may last any number
of turns. `StatusFetch` is `doFetch` and `checkAlerts`: the clock that TLS
needs, failure count, baseline, mark; the box fires and resolves alerts between
fetches, and the watch reboots.

### Phone notifications

`PhoneNotifs` has the deque of `Notifs/Phone` as operators on sequences; `ANCS`
and `PhoneStore` extend it.

`ANCS` is the pipeline from the phone to the store. `NotifTake` is the queue
read and the test of `connected` outside the lock; `NotifQueue` and
`NotifUnqueue` the two locked bodies of `loopNotif`, with de-duplication,
eviction and abandonment; `NotifRemove` the call of `Phone::onRemove` after the
lock. `DataPump` is the locked `pumpRequest` (timeout, next request), `DataTake`
the queue read, `DataStep` the locked rest: drop of an abandoned request,
salvage of a reply that stalls half-way, parsing. A reply is two packets, "head" with the uid
and "tail", each carrying the version the phone read; the parser's search for
the header of the uid in flight is `IsHeader` and `Parse`. The Bluetooth task
opens (`OnConn`, then `PhoneOnConnect`) and closes in the order of the code:
characteristics, `onDiscon`'s locked section, the flag, Phone.

`PhoneStore` is the store as another thread sees it: the deque changes, and the
event is posted later (`todo`), by one of three threads. `LockScreen` is
construction with its snapshot, `Prepare` (the list from the store), `Listen`,
and the loop that looks every event up in the store as it is *then*.
`CallScreen` is the screen of an incoming call. `PhoneScreens` instantiates both
over one store: `Rings` is the step in which the lock screen is destroyed and
the call screen constructed, and an event reaches whichever of the two listens.

### Media and Android

`AMS`: `Await`, `Take` or `BatchTimeout`, `Check`, `ProcessEntityUpdate`,
`Flush`, and then the emissions, where the test of `connected` and the call of
Phone are separate steps because the code makes them outside `mut`. The media
half of Phone is here, with its two connect callbacks: the media service's and
the notification service's, which come in either order.

`Android`: the phone writes lines in pieces; `Write` is
`Char::onWrite` with its bounded queue, `UartLoop` cuts at newlines, the Android
thread appends (`AppendChunk`), looks for a frame (`FindFrame`), takes it out
(`Extract`) and handles it; `OnDisconnect`, `OnDisconnectClear` and
`PhoneOnDisconnect` are the three steps of the end of a session on BTC;
`CallIgnore`, `CallReject` and `ActionNeg` are LVGL. Text is tokens; the one
counted token of a length-prefixed string may be a newline.

### Bluetooth connection

`ConMan`: the stack takes calls in order (`calls`) and answers with events
(`events`). BTC and LVGL run the same operators `WantAdv`, `StartAdv`,
`StopAdv`, `SetCon`, `Conf`, each with its own `pc` and copy of the chosen
parameters (`choice`): `goLowPow` and `goHiPow` are called from `Sleep::sleep`.

`GattSession` states what owners of a service rely on: attached only while
there is a connection, subscribed only when attached, everything detached in
one step at its end. `BLEClient` is the client that implements it, over a stack
that answers in any order. All its steps are on BTC, so a handler is one step.
`INSTANCE GattSession WITH up <- conAddr # 0, attached <- told, subscribed <-
configured \cap Notifying` is the refinement mapping.

### Sleep and threads

`SleepMan`: `goSleep` statement by statement on LVGL (`GoSleep`, `StopScreen`,
`Arm`, `StartSleep`, then `Sleep::sleep`: `Park`, `InstallIsr`, `TakeWake`,
`Unpark`, then `PreWake`, `HomeScreen`, `EndSleep`, `Rearm`, `ResetEvents`);
`FetchEvents`, `ImuSignal`, `ImuWake`, `ImuArm`, `ImuArmed` on the IMU thread;
`shutdown()` of `main.cpp` on the Battery thread, which holds `Battery::mut`;
the button's interrupt. `wake` is a test and a give, two steps.

`SleepyThreads`: each worker's task is `threadFunc` around
`SleepyThreaded::loop`; LVGL pauses the workers one after the other, waiting for
each, and resumes them. `paused` is set by the task before it leaves its loop,
which is what the early-resume history `early` is about.

### Power

`Battery` is the thread (`Take`, `Locked`, `Measure`, the start of its timer),
`setSleep` on LVGL (`SetSleep`, `SetReconf`, `SetStop`, `SetHalt`, `SetFlag`),
and the two interrupts. `Timer::start` and `Timer::stop` are two statements
each, so a timer may run that its object calls stopped. The charging state goes
through `TimeHysteresis` (`Update`, `HoldPasses`). `StatusCenter` extends it
with the queue and the LED: `MeasureAndPost` is a measurement with what it
posts, in the code's order (level, then charging).

`Boot`: `Hook` and `PowerOn` are the bootloader's, `RunTest` and `HWVersion` the
factory test with its `OnFail`, `CheckMeta` and `RevisionPins` what init and
`Pins` read from the fuses, which are sets of bits and can only be burnt.
`TornCommit` is a power cut within the commit. `Construct` walks through init;
`Uses` lists what each thread, once there, may ask for. A battery that is
critical in its constructor shows the shutdown screen and ends init: then LVGL
runs, but its sleep manager returns before it uses what is missing.

### Robot controller

`WiFiSTA` is the station with the driver and its event loop: `StaConnect`,
`Disconnect`, `OnConnected`, `OnDisconnected`, `OnScanDone`. `PerseCtrl` extends
it with three threads over one `TCPClient`: the screen (`Ui...`), `PairService`
(`Pair...`) and `Comm` (`CommTest`, `CommRead`). `HangUpTest`, `HangUpClose` and
`HangUpClear` are the three statements of `TCPClient::disconnect`, which any of
them may be in. Destroying `PairService` (`Reset`) waits for its thread
(`ResetWaits`). The screen's queue of six also takes the buttons' events and
one for every packet of the robot, which the model does not count: a post finds
it full at any time (`PostOff`). `Feed` is the receiver, the decoder and the screen over the pool.

### Bluetooth server

`GattServer`: the set-up (`Establish`, `OnServiceCreated`, `OnCharCreated`,
`OnCharDescrCreated`, and `TryIssueNextDescr` with its one descriptor in
flight), then sessions (`OnConnect`, `OnDisconnect`, `Subscribe`,
`PrepareWrite`, `OnExecWrite`) while two threads print (`Printf`, `SendNotif`,
`SendChunk`) through `UART::printf`'s one buffer.

### Sound, lights, clock, text

`ChirpSystem`: `Attach` and `Detach` set their flag in one step (`Flag`) and act
in the next (`Finish`), for each of the thread, the players and the Theremin.
`LEDController`: `LedLoop` takes the semaphore, then handles under the lock
(`HandleShortAction`, `HandleContinuousAction`); the setters are `Blink`,
`SetContinuous`, `LedClear`. `Clock`: `SetTime` and `Sync` run through
`updateTime`, the chip and the base, one step each; `RtcSetTime` and
`RtcGetTime` are the chip's BCD year with its century bit. `TextSanitize` is one
code point a step, and `TextInv` compares what has come out so far with the
standard's well-formed sequences, maximal subparts and all.

### Screens

`StatusScreens`: a screen is constructed, started, loops and is stopped in the
order of `LVGL::startScreen`; `Leads` is where the buttons go, `Redraws` which
event draws, `Works` the network test's thread. `LunarLander`: `Push` is a
button, which goes into the game's queue and `InputLVGL`'s; `LoopEvent` steers,
`Encoder` is LVGL's reading of the key with what it makes of a release, `Click`
the popup's answer. `SettingsScreen`: `Switch` and `Slide` are the callbacks as
they are registered, `OnStarting` and `OnStop` what is read and stored, `Edit`,
`Turn`, `EndEdit` the picker's fields. `DiceScreen`: `Sample` to `Armed` are the
reader's thread, `StartRoll`, `Rolls`, `TakesShake` LVGL's.

`IMU`: each call of the IMU class is a plan, a sequence of register operations
that `Transactions` expands into the bus's transactions, the switch to bank B
and back among them; `Transact` does one, for either thread, and may fail.
`InUserBank` and `Arrives` are the chip: what a register address means in the
bank it finds.

## 4 Runs

`Inv` is in each module the conjunction of the type invariant and the named
parts given here; the parts are stated one by one in the module. The modules of
a sum have their own names for it (`BattInv`, `FeedInv` and so on).

| run | constants | checks | states |
|---|---|---|---|
| `status` | 1 retry, queue 8, 2 driver events, backoff 1..2, 2 sleeps | `Inv`: `RadioOffUnlessWanted`, `ViewLagsOnlyBehindEvents`, `NothingLost`; `EventsSuffice`; `LinkLossNoticed`, `ReconnectsUnlessStale` | 144,148 |
| `status_wake` | the same, 1 sleep | `ReconnectsOnWake` is violated: section 7 | |
| `ancs` | 2 uids, limit 2, store 1, queues 2, 2 changes, 2 sessions | `Inv`: `QueueConsistent`, `InFlightIsFront`; `Mirrored`: `OwnBytesOnly`, `Converged`, `Fresh`; `Served` | 160,072 |
| `screens` | see below | `Inv`: `Mirrored`, `CallNoticed`; `CallEnds`; `ScreensInv`: `ViewInv`, `LanderInv`, `SettingsInv`, `DiceInv` | 873,791 |
| `ams` | 1 attribute, queue 3, 3 changes, 2 sessions | `Inv`: `MetadataFirst`, `MediaMirrored`; `PlayingShown` | 645,705 |
| `android` | write queue 3, line queue 1, 4 messages, 2 sessions | `AndInv`: `WholeMessages`, `SourceAgrees`, `CallRejectable`; `HelloHeard` | 675,079 |
| `client` | 2 services, 3 characteristics, 2 connections, 1 failure | `Inv`: `NothingLeft`, `ToldOnce`; `DiscoverOnce`, `ImplementsSession`; `Discovered` | 386,123 |
| `power` | 3 boots, 1 broken part; 2 sleeps, 2 movements, 2 presses, queue 2; 1 tilt, 2 calls, 1 failed transaction | `PowerInv`: `BootInv` (`PassedBoots`, `FusedIsSound`, `RefOff`, `NothingEarly`), SleepMan's `Inv` (`FreshEventsOnly`, `Armed`, `ShutdownShown`), `ImuInv` (`BankReturns`, `ChipAgrees`, `NoGhosts`, `NeverDeaf`); `WokenForAReason`, `Wakes` | 1,195,042 |
| `boot_hook` | 2 boots, 1 broken part | `HookAgrees` is violated: section 7 | |
| `perse` | no retry, event queue 6, pair queue 10, 2 attempts, 2 presses, 1 drop | `PerseInv`: `StationAgrees`, `ViewAgrees`; `LossShown` | 1,136,932 |
| `safe_parts` | see below | `Inv` (`JoinsPunctual`, `FetchesPunctual`), `JoinsNotEarly`; `BattInv`; `CenterInv`; `FeedInv`, `LostUntaken`; `ServerInv`; `OutputsInv`; `TextInv`; `ClockInv` | 1,493,346 |
| `live_parts` | 2 threads, 2 sleeps; 4 alert times, 2 counted failures, 3 boots; 2 setSleeps, 2 changes; 2 links, 2 mode changes, 1 refusal | `Inv` (`AsleepIsQuiet`, `AwakeRuns`), `PauseReturns`; `FetchInv` (`SeenIsNewestShown`, `OldAlertsStaySilent`, `NewAlertsAnnounced`), `FetchRecovers`; `ShutsDown`; `ConInv` (`PendingHasCurrent`, `HintTrue`, `Discoverable`, `LastModeWins`), `Settles` | 325,594 |

The constants of `safe_parts` and `screens`, by part:

| part | constants |
|---|---|
| timers | a word of 16 values, fetch 3, join 2, backoff 4, step 2 |
| battery, status center | 2 changes of charger or cell, 2 setSleeps, queue 2 (the code: 12) |
| camera | 3 images (as in the code), 2 frames between two packets |
| server | 2 senders, messages of 2 chunks, 2 sessions, 3 prints, values of 2 parts |
| sound, LED | 3 plays, the Theremin twice; two callers, 4 calls, an alert of 2 loops |
| text | up to 4 bytes |
| clock | 2 setters, years 1999, 2099, 2150, 5 seconds, a sync after 2 |
| lock and call | 2 uids and a call, store 2, queues 2, 3 calls of the sources |
| status screens | queue 3, 3 updates, 5 keys |
| lander | game queue 2 (6), pad queue 1 (5), 3 pushes |
| settings | 3 touches; two times: 29 February at noon, 31 January at midnight |
| dice | 2 jolts (3), 2 still samples (30), 2 sides (6), 3 dice, 3 presses |

What they show, one line each:

* `status`: in every order of driver events, timeouts and sleep events the radio
  burns only when wanted, the service's view is wrong only while a correction is
  queued, eight entries suffice, and the one way not to join again after a wake
  is the stale `Connected` of section 7.
* `ancs`: whatever late replies, timeouts, removals during a fetch, evictions and
  reconnections do, the watch ends up with the phone's notifications, each
  complete, current and its own.
* `screens`: the list ends up equal to the store, a call takes the watch to the
  call screen, and a call that is over takes it away, except in named cases
  (an event lost between construction and `Events::listen`, in a full queue,
  overtaken by another thread's, or a clear of the store, for which the call
  screen does not look). The status screens show the latest data; the network
  is tested on its screen and as often as asked; the watch goes to sleep only
  where it may. A popup of the game is answered by a press made for it, and the
  game stands still for it. What is switched and slid in the settings is what
  flash, memory and hardware say afterwards, and the picker sets dates that
  exist. A shake rolls the dice once.
* `ams`: metadata before state; a quiet session shows the phone's media; a track
  that keeps playing is shown as playing, also after a session that left the
  state at Playing.
* `android`: no frame is ever put together from two messages; source and Phone
  agree once at rest; a call on the screen can be rejected; a hello is heard.
* `client`: discovery once, each service told once, nothing outlives its
  connection, and the client is a `GattSession`.
* `power`: a watch that passed the factory test comes up with the pins of its
  board, whatever power cuts and boots came before, but for a cut within the
  burning; no watch with a broken part is fused; the reference does not stay on;
  nothing is used before it is made, but in two named gaps. A wake asked for at
  any moment, between any two statements of `goSleep`, ends the sleep; a sleep
  ends for no other reason; the tilt detection is armed the right way before and
  after; no stale event puts the watch back to sleep; a critical battery is
  shown. The sensor's bank is always returned to, and the chip watches for the
  tilt the firmware thinks it does.
* `boot_hook`: for the revision this firmware burns, the bootloader and the
  firmware take the watch for different boards.
* `perse`: through pairing, retries, loss and leaving the screen the station's
  state follows the driver's, and the screen shows no connection that has ended,
  if there was room for the news.
* `safe_parts`: from every phase of a wrapping counter no deadline is passed
  over, and none is acted on early. The battery's thread always has something
  that will call it. The LED shows the battery once the events are handled. An
  image is in one pair of hands, and is lost only when it was ready and nobody
  took it. A descriptor ends up with its characteristic, only a subscriber is
  notified, a long write is whole. A sound is heard and lets the buzzer go; an
  LED's step lasts, is followed, and the LED comes to rest as asked. Text is
  decoded as the standard has it. The clock shows the time set.
* `live_parts`: no paused thread works while the watch sleeps, `pause` returns,
  and a thread runs again unless it was resumed before it had ended. An alert is
  announced once across reboots, none newer than the baseline is swallowed, and
  a clock that could not be set is tried again. A cell that stays critical turns
  the watch off. The advertising hint is true when nothing is under way, the
  watch is discoverable exactly when unconnected, and the last power mode
  reaches the link.

**Why these bounds.** Each is the smallest at which its hazard occurs twice, or
once with a successor: two sessions, so that what the first leaves behind meets
the second; two sleeps, likewise; two changes, so that a modification or removal
can fall into every phase of a request for the same uid; queues so short
that losses happen (`status` keeps
the real 8, because that nothing is lost is the claim). A word of 16 values
makes every deadline wrap in every position. `ancs` with two uids cannot evict
from the request queue (`MaxQueued` is at least 2 and the front is spared):
eviction is covered by the proof, which is for any number of uids; eviction from
the *store* happens, since it has room for one.

The smaller numbers of the sums (a queue of 2 for 12, 2 jolts for 3) keep what
the code does at their limits: each is reached and passed in the run. A part
that is one of several in a run has the bounds it would have alone.

**Deadlock.** Off (`CHECK_DEADLOCK FALSE`) where the environment may fall silent:
the phone, the central or the user has used up its bound and every thread
waits. The properties that something happens are stated as liveness instead.
`status` checks it.

Symmetry is not used: most runs check liveness, with which it is not sound.

### Named exceptions

A history variable in a premise means the property is *not* claimed for that
case. These are the cases, all of them reachable in the code:

| module | variable | case |
|---|---|---|
| `ANCS` | `lost` | a full characteristic queue dropped a packet, or one was in hand when the session closed: the next packet may be read as its continuation |
| | `excused` | evicted, dropped after a timeout or half-way, or queued in a session that had not announced it |
| | `outdated` | modified while its request was in flight: de-duplication merges the modification into the entry, nothing asks again |
| `LockScreen` | `untold`, `refused`, `dismissed` | last event lost or overtaken; no room; dismissed by the user |
| `CallScreen` | `unheard` | the removal was not posted as `Removed` to this screen |
| `AMS` | `lost` | as in `ANCS` |
| | `crossed` | a flush was between its snapshot and its emissions when its session closed |
| | `notifSource` | the notification service connected after media was shown: section 7 |
| `Android` | `torn` | a session ended inside a message, whose beginning stays in the UART's buffer, or a write was dropped |
| | `late` | something of the session was still in a queue or in a hand when it ended |
| `ConMan` | `refused` | the stack refused a start or stop, or an update three times |
| | `meddled` | BTC and LVGL were inside the unlocked code at once: section 7 |
| | `leftover` | a new link was handled while an update of the last was open |
| `SleepMan` | `spare` | `wake` had tested `inSleep` before, and gave the semaphore after, the sleep ended |
| | `crossed` | the IMU thread changed the tilt direction while `goSleep` did |
| | `overlapped` | the battery became critical while the home screen was being started |
| `SleepyThreads` | `early` | a thread was resumed before the task before it had ended |
| `Battery` | `raced` | a stop fell between the two statements of `Timer::start`: the period may be the other one's |
| `StatusCenter` | `lost` | the center's queue was full for an event of the battery |
| `WiFiSTA` | `crossed` | the latest scan was begun while the driver was not at rest |
| `PerseCtrl` | `foreign` | a thread that hangs up met the connection made since it had tested |
| | `unheard` | the screen's queue was full for the news of a lost connection, until the next pairing |
| `GattServer` | `heldOver`, `stray` | a message was being sent when its session ended: its rest reaches the next |
| | `mixed` | two threads were in `UART::printf` at once |
| `ChirpSystem` | `clashed` | two parties were inside attach and detach at once, until the next detach |
| | `overtaken` | the buzzer was detached while a sound was on its way |
| `LEDController` | `doubled` | the semaphore was given between its taking and the handling |
| `StatusScreens` | `dropped`, `missed` | the queue was full for the update; the GPU page was told between its reading and its listening |
| `Clock` | `spoilt`, `refused` | another operation was at the time meanwhile, or the chip could not be read; it did not take the time |
| `LunarLander` | `unseen`, `edge`, `reached` | the popup opened while the game did not know the button held; another button was used with Select; an event has not reached the game |
| `SettingsScreen` | `leftInverted` | a field was left by a long press, or with the picker closed, while it inverted the keys |
| `DiceScreen` | `raced` | a roll began while the reader counted a sample or armed itself |
| `IMU` | `collided`, `faults` | a transaction fell into another thread's bracket, or two threads set a direction at once; a transaction failed |
| `Boot` | `torn` | power went within the burning of the fuses |
| | `early` | the IMU's thread, and StatusCenter's, each have a gap of a few statements: section 7 |

## 5 Fairness

What is assumed, and why the code justifies it:

* **Threads run** (weak fairness of each thread's steps): FreeRTOS schedules
  every ready task again; none of those modelled spins at a higher priority for
  ever. A step that waits for something (a semaphore, an event) is disabled
  until it comes.
* **Deadlines of `StatusService`** come true: time passes. Strong fairness, for
  the deadline cannot fall inside one body of `loop`, so its step is disabled
  at times.
* **`RequestExpires`** in `ANCS`: three and a half seconds pass.
* **`BatchTimeout`** in `AMS` (strong): the update thread waits half a second
  for the next packet, the phone's ticks are a second apart and handling one
  takes milliseconds, so the wait times out again and again, and the thread
  empties its queue again and again (the last conjunct of its `LiveSpec`).
* **`LoopWait`** in `LiveParts` (strong): the interval of a worker is
  longer than a round of its loop, so it does not find the interval over each
  time it looks.
* **The Bluetooth stack** answers what it was asked and delivers its events
  (`ConMan`, `BLEClient`); the phone of `AMS` and `Android` delivers what it
  has begun to send. Failures are bounded by a constant; the liveness
  properties exclude runs in which they occur, or hold after the last.
* **`FetchOk`** (strong) in `LiveParts`: a fetch that can succeed again and
  again does at some time.
* **The battery's thread and `setSleep`** (`LiveParts`): the thread runs when
  called, `setSleep` on LVGL returns, and time passes: a running timer expires,
  a held value's hold ends.
* **`PerseCtrl`**: the screen, `PairService`, `Comm` and the event loop run, the
  driver ends a scan and a join, and lwIP gives up on what the robot does not
  acknowledge. Nobody need press a button, and the robot may answer or not.
* In a sum each condition is of its part only; the others' variables do not
  move, and their fairness says nothing.
* **Not** assumed: the user, the wrist, the battery, the access point, a
  reboot, the central, sleep and its end.

## 6 Proofs

TLAPS proves these for all values of the constants, from the assumptions named
in the modules and nothing else. Every safety invariant and action property of
the runs is among them, but for those under "Only model-checked".

| module | theorem | says |
|---|---|---|
| `WiFiProofs` | `TypeCorrect`, `RadioOff`, `Safe` | `Spec => []TypeOK`, `[]RadioOffUnlessWanted`, `[]Inv` of `StatusService` |
| | `EventsKeepUp` | `[](NothingLost => EventsSuffice)` |
| | `RobotShown` | `PerseInv` of `PerseCtrl`, for any number of joins, attempts, presses and losses |
| `SafePartsProofs` | `JoinsOnTime`, `FetchesOnTime`, `Punctual`, `JoinsAreNotEarly` | no deadline is passed over and no join starts or is given up early, for every word size |
| | `AlwaysCalled`, `ShowsTheBattery` | `BattInv`, `CenterInv` |
| | `OneHandAlways`, `OnlyUntakenLost` | `FeedInv`, `LostUntaken`, for any number of images |
| | `ServesWhole`, `OutputsAsTold`, `ShowsTheTime` | `ServerInv`, `OutputsInv`, `ClockInv` |
| `LivePartsProofs` | `AlertsToldOnce` | `FetchInv`, for any number of alerts, failures and boots |
| | `ThreadsTypeCorrect`, `QuietAsleep`, `RunsAwake`, `PausedAndResumed` | `SleepyThreads`, for any number of threads |
| | `LinkManaged` | `ConInv` |
| `ANCSProofs` | `TypeCorrect`, `QueueIsConsistent`, `RequestIsFront`, `PipelineConsistent` | the request pipeline: `[]Inv` |
| | `WatchMirrorsPhone` | `[]Mirrored`: own bytes only, and quiet the watch has what the phone has |
| | `OnAddProps`, `OnModifyProps`, `EraseProps` | adding, modifying and removing keep uids distinct and the limit, for every sequence |
| `AMSProofs` | `MediaHolds` | `Inv` of `AMS` |
| `BLEProofs` | `ClientHolds`, `DiscoversOnce` | `Inv`, `DiscoverOnce` |
| | `SessionImplemented` | `ImplementsSession`: the client is a `GattSession` |
| | `AndroidHolds` | `AndInv`, for any lengths of the queues, numbers of messages and sessions |
| `PowerPartsProofs` | `BootsSafely`, `PoweredRight`, `WokenForAReasonHolds` | `BootInv` of `Boot` alone; `PowerInv`, `WokenForAReason` |
| `ScreenPartsProofs` | `ScreensHold` | `ScreensInv` |
| | `PhoneShown` | `Inv` of `PhoneScreens` |

Each proof has the same shape: an inductive invariant (`IInv`, or the name with
`IInv` in it), one lemma per conjunct or per action that may disturb it, and a
last theorem that joins the steps. What the invariants add to the properties,
and why it is needed:

**`StatusService`.** `RadioOffUnlessWanted` is not inductive: `WiFiHome::stop`
returns early when its state is Idle, so `dropWifi` switches the radio off only
if an Idle `WiFiHome` has a stopped radio. `IInv` adds that: a `WiFiHome` that
is Idle has a radio that is stopped. Each action of WiFiHome keeps it, and
`HandleDown` and the join timeout follow. `StatusServiceAssumption` and
`WiFiHomeAssumption` are used: positive queue lengths and backoff bounds.
`EventsKeepUp` needs two facts of the queue while it has lost nothing: a join
that is the network's last event is of a session that has not failed since
(`JoinLast`), and a join behind the service's back is queued (`JoinQueued`).
That the queue of 8 loses nothing at all depends on how much can happen while
the thread does not look: `NothingLost` is TLC's.

**`PerseCtrl`.** While `crossed` is false the reports the driver has queued are
among nine short shapes, each with what the station waits for and the driver
does (`ReportsFit`): calls, handlers and the driver lead from one to another,
and with no report left they are the four of `StationAgrees`. So the event
loop's queue is bounded by the code, and nothing by the run. `ViewAgrees` speaks
of the screen, but the screen believes what the service says, so `LossTold`
claims it of `Believed`: who is shown as paired, or is about to be. The flag of
the client falls two statements after the event is posted, and in between a
connection may be believed in anew: `ToldAhead` says that a thread about to
close has told of it, `Sockets` that a connection is an open socket the client
holds, and that a thread past its `close` has none left to forget. The invariant is one lemma
per action, most of them through `CalmKeeps`: a step that leaves the sockets
alone, believes nothing new and takes no news keeps it.

**`StatusTimers`.** The invariant says where each deadline lies seen from now:
while a join or a fetch is awaited the deadline is `wait - age` ahead of the
counter, modulo the word, and `age` is below `wait`; while joining the counter is
`age` past the start. From `FetchInterval + MaxStep`, `JoinLimit + MaxStep` and
`MaxBackoff + MaxStep < Half` (the code's largest is 60 s against 24 days) the
sign of the wrapped difference then decides exactly whether the step reaches it:
lemmas `ReachedExact` and `ElapsedExact`. `JoinsAreNotEarly` follows step by step
from the same invariant.

**`Battery`, `StatusCenter`.** `CalledInTime` speaks of a thread that waits.
`Stops` is added: a timer counts as stopped while its esp_timer runs only between
the two statements of a stop, or when the stop of `setSleep` fell into a start;
and between the thread's stop and its start nothing else arms it. The first of
these is what makes a missed call harmless: an esp_timer that runs calls. For the
LED, `LastShows`: the queue's last event that decides a colour tells the one the
battery asks for, or there is none and the LED has it.

**`Feed`.** `FeedInv` is inductive by itself: an image that is taken to be
filled is taken from the free ones, and one that is freed is neither ready nor
being copied. `OnlyUntakenLost` follows step by step from it.

**`GattServer`.** `SetUpInv` lists the dialogue of the set-up: what has been
asked, what is answered, and that the one descriptor comes last. A sender past
its test of the subscription belongs to the session or is `heldOver`
(`SubscribedInv`), and what the phone has of the message under way ends with the
chunk before the sender's (`MessageInv`).

**Sound, lights, clock.** `PinFollows`: the pin is as the flag says unless one
party is between flag and pin; `AttachedToSound` and `TonesEnd`: what sounds is
attached and an end follows it. For the LED `DueInTime`: its thread looks at a
step only when a timer has run out. For the clock `AloneInv`: an operation that
is alone stores what it was asked or what the chip says.

**`StatusFetch`.** The mark `seenAlertSince` is what every question turns on.
`Past` is added: alerts that fire began no later than the box's latest time,
what was shown or announced likewise, a baseline is set exactly when something
was shown, and of the alerts that still fire none that was announced, in
whatever boot, is newer than the mark. The newest of a document is a maximum of
a finite set of numbers; that it exists follows from `WFMin`.

**`SleepyThreads`.** The invariant says, for each worker, what its task may be
doing in each thread state; that it can be on its way to stop, or find its
semaphore given, only while LVGL spins for it; which workers are paused in each
phase, those before or after the one LVGL is at; and that one which is neither
paused nor was resumed early runs.

**`ConMan`.** The manager sees the stack through a queue, so the invariant says
what the last event of a kind tells: of the link (`LinkTold`), of advertising
(`AdvTold`); configuration events come before all others. What is wanted is
started or something under way will start it (`WantServed`), what is not wanted
stops. On a link that was not disturbed (`Steady`) there is one update at a time
and the parameters waiting, under way or set, in this order, are the mode's
(`OneUpdate`, `ModeComes`).

**`ANCS`.** The parts of `Inv` need one another: `RemoveEntry` and
`EvictAtProps` show that the entry evicted is never the front in flight, but
only because the uid in flight occurs once (`QueueConsistent`) and is the
front's (`InFlightIsFront`). `IInv` adds that `loopNotif` holds an event between
its two halves and that versions are bounded by the changes counted.
`MaxQueued >= 2` is needed: with one place the entry in flight would have to go.

`Mirrored` speaks of a quiet pipeline, so its invariant speaks of a busy one.
`Stream` is all packets between the phone and the parser, `Held` all events.
`Pipeline`: heads and tails come in pairs but for lost ones, only the uid in
flight has been asked for, and once, and a reply half parsed has its tail next.
`Events`: a removal is its uid's last event; what the phone has is announced to
come, queued, or complete in the store; what it has removed is on its way out.
`UpToDate`: of a uid that was not modified while in flight, every packet, entry
and stored part is of the phone's version. `OwnBytesOnly` follows from the
parts: a part is parsed only behind a header of the uid in flight.

**`AMS`.** `Folded` is the core: of each attribute the last unread packet
carries what the phone told last, and with none unread the client knows it.
`Batched` and `Emitted` carry that on: with nothing dirty the state is derived
from what is known, and what was derived is in the thread's hand or in Phone.
`MetaOrder` is the order of the two emissions, `Reset` that a session leaves
nothing behind.

**`BLEClient`.** `Orderly`: connections' events come in order, a connect, the
answers, an end, and `conAddr` fits the next one. So what is asked, registered
and known is of one connection (`AskedNow`, `SlotsHeld`, `KnownWhole`), and an
end finds it no longer the stack's. `AskedOnce` makes discovery start once. The
refinement follows step by step: a handler is a step of `GattSession` or a
stutter under the mapping of section 3.

**`Android`.** Text is cut into chunks, queues, lines and a buffer, and two facts
are claimed of it. Whatever was lost, the buffer holds one frame at most and a
handler leaves it without one (`Framed`), because a line appended where no frame
ends makes at most one that ends with it (lemma `LineEndsFrame`). And of a
stream that is not `torn`, the rest of a message is the next thing behind its
beginning, in whichever queue or buffer that is (`Whole`, with `Followed`,
`UartWhole`, `LinesWhole`, `BufferWhole` for the four places). `FindFrameEnd` is
a recursive function: that it exists is shown by the least place at which it
would not (`Upwards`, `EndsExist`, from `WFMin`), and the frame it finds is read
from its equation. For the source, `Ended` and `Agreed` say which of the three
steps of a session's end has been made. For the call, `OneCall` says that a
session's call is in one place at a time, queues and the thread's hands
included, and `IdKnown` that its id is kept as long as it is shown.

**`Boot`.** Without a cut within the burning the fuses are one of the shipped
pairs, and a watch that passed has its own (`Fused`); each stage has behind it
the tests or services before its place in the list (`Progress`). The lists are
17 services and 9 tests, and that what is needed comes before is computed from
them.

**`SleepMan`.** `Steps` and `TiltSet` follow `goSleep` statement by statement
with the other two threads: which direction is armed at each, given that nobody
crossed it. `Given`: who is about to give the semaphore was let in for this
sleep, and a semaphore given was asked for.

**`IMU`.** Each thread has a plan of register operations left. `ChipPlan`: of
two threads one is at its calls, the other has none begun, and what is left
`Completes` the chip: every register is as wanted or a function to come sets
it, and what sets it sets what is wanted or is set again. `BankKept`: the bank
is B exactly within one thread's bracket. Both are claimed until a collision or
a failed transaction.

**`PhoneScreens`.** The store changes first and the event follows, so the
invariant is about the last word: of a uid that no thread has still to post
about and that was not lost or overtaken, the queue's last event says whether
the store has it (`LastTold`); with nothing about it under way, its item is what
the store holds (`Shown`), and a call in the store has made the screen leave
(`Called`). Every change of the store comes with an event pending about what it
changed (`SourceKeeps`), and the snapshot of `Prepare` starts it.

**The other screens.** Status screens: what is drawn is the latest or an update
is queued, being posted or was not heard (`Due`); the worker owes no more runs
than were asked for. Lander: the last queued event of a button says how the hand
is (`LastTells`), and a popup shown with the hand known is not answered by it
(`HandKnown`). Settings: while it is untouched the picker tells the clock's time
and always a date that exists (`PickerTells`), and it gives the keys back as
they were (`KeysBack`). Dice: until the watch was still long enough the detector
is not armed (`CountsStill`) and no shake is pending (`LooksAfter`).

**Only model-checked.**

* All liveness properties: fairness and ENABLED are beyond the prover.
* `TextInv`: `TextSanitize` and the table it is compared with are folds over a
  sequence of bytes; what a fold computes for every input is an induction over
  data.
* `NothingLost` of `StatusService`, the premise of `EventsKeepUp`: how much can
  be queued while the thread does not look depends on the run's bounds.

No operator is declared RECURSIVE, so every module stays open to proof.

## 7 Where the code and its documentation differ

**Checked.** `Services/StatusService.h:19-20`: "On sleep the radio is stopped
and it reconnects on wake." Run `status_wake` refutes it: a `Connected` event
that is queued behind the `SleepOn` (or behind a join timeout) is applied after
the radio was stopped. The service is then Connected with nothing to correct it:
`stop` produces no event, and `loop` joins only from Off and Failed. `status`
shows (`ReconnectsUnlessStale`) that this is the only way.

`src/bootloader_components/init/hooks.c:62-63` warns of the PWDN pin ("Setting
it to low (0) during bootloader WILL brick the device!") and frees the pin of
the board it reads from the fuses. Run `boot_hook`: for revision 3, which
`EfuseMeta.h:27` burns, the hook logs "Rev1 from bootloader" and takes pin 42,
while `Pins.cpp:14` takes the same fuses for Revision2 ("For Bit v3",
`Pins.hpp:64`), where 42 detects USB and Pwdn is 37. The hook also leaves that
board's backlight pin alone. It knows revision 2 only.

**Met while modelling**, not among the runs:

* `Services/StatusService.cpp:75`, "fetch right away": `nextFetchAt = 0` is in
  the past only while the counter is in its lower half; between day 24.9 and
  49.7 of uptime the first fetch of a connection waits for the wrap.
  `FetchesPunctual` claims the interval between fetches only.
* `Notifs/ANCS/Client.cpp:285-286`, "dataQueue only ever holds that notif's
  DataSource bytes": a reply that outlives its timeout meets the next request.
  The header search skips it, which is what `OwnBytesOnly` is about.
* `Notifs/AMS/Client.cpp:86`, "MediaState emission is eager": it is made by
  `flush`, with the batch.
* `Notifs/Phone.cpp:120-131`: `onConnect` of the notification service resets
  the media state, which the media client, believing it emitted, does not send
  again (`AMS`, `notifSource = "wiped"`).
* `Notifs/Android.h:45`, `connected` "written from the BLE/BTC task": it is set
  by the worker, in the hello; a hello handled after `onDisconnect` leaves a
  source without a link (`Android`, `late`).
* `BLE/ConMan.h:11`, all methods on BTC: `Services/Sleep.cpp:37,57` call two of
  them on LVGL (`ConMan`, `meddled`).
* `BLE/UART.cpp`, "TX char with NOTIFY should be created first":
  `Service::establish` sorts the characteristics, so the order of the
  constructor is not the order of creation (`GattServer`).
* `src/main/main.cpp:207-208`: battery scanning starts last, "otherwise Critical
  Battery event might come while initialization is still in progress". The
  constructor, at line 161, samples already, and calls `shutdown()` itself.

**What the code does in corners**, met while modelling; each is within the
models and named in an exception or in a comment there:

* Boot. A power cut within the burning may leave the revision without the
  product: the test then reads "Already fused" and passes, and init refuses to
  start for ever (`JigHWTest.cpp:638`, `main.cpp:109`). A watch with only its
  product burnt can never pass, since burnt bits are refused. The IMU's thread
  runs from its constructor and calls the SleepMan that init makes later
  (`IMU.cpp:229`, `main.cpp:136,150`); StatusCenter looks for the Phone service
  between `new Phone` and `Services.set` (`StatusCenter.cpp:56`). `Pins::get`
  spins for a revision above 3.
* Battery. `setSleep(false)` replaces the reader outside the mutex
  (`Battery.cpp:133`). A full queue of the status center loses an event of the
  battery, and the LED stays wrong; `StatusCenter::alert` replaces the
  battery's pattern, which nothing restores before the battery's next event.
* Sound, LEDs. A play that finds the buzzer attached, just before another
  sound's end detaches it, is silent. A call of an LED between the thread's
  semaphore and its lock ends the step that has just begun. A sound refused as
  too long would leave the buzzer attached (`ChirpSystem.cpp:34`); none is.
* Bluetooth server. The rest of a message that was being sent when its session
  ended may reach the next, unsubscribed phone. `onExecWrite` does not look at
  the cancel flag. A refused descriptor blocks those behind it.
* Robot. After a refused `::connect` the socket is kept and pairing cannot
  succeed until the screen is left (`TCPClient.cpp:21,41`). `WiFiSTA::connect`
  is ignored while it is connected, connecting or scanning. Two disconnects at
  once may close the connection that comes after. A feed that has lost three
  images stands still. When the robot's packets have filled the screen's queue
  the news of a lost connection is dropped, and the screen shows the pairing
  until it is left (`PerseCtrlScreen.cpp:127`).
* Clock. `updateTime` is set before the slow read of the chip, so the time can
  be behind meanwhile; a sync that overlaps `setTime` may write the old time
  back until the next; a failed read sets the year 1899; the picker offers
  years the chip cannot keep.
* Status screens. The GPU page reads before it listens. A second Select between
  the worker's taking of the request and its flag queues a second test; leaving
  waits for the worker with LVGL blocked.
* Lander. While Up or Down is held, Alt makes the encoder report a release,
  which is a click: pausing while steering resumes at once. A popup that opens
  by itself may be answered by the release of a thrust held before it. After a
  pause the ship may go on turning with the button released.
* Settings. The switch of left-hand mode writes the motion setting's element,
  and two others are constructed with the sounds' value
  (`SettingsScreen.cpp:275,291,295`); `onStarting` and `onStop` make it right.
  A field left by a long press leaves Up and Down inverted until the settings
  are left.
* Dice. The window of jolts is counted from the first, not sliding
  (`DiceScreen.h:63`). A shake during a roll is dropped; the reader's arming may
  fall into the start of a roll, so that the next shake needs no rest.
* IMU. The bracket around bank B is not locked (`lsm6ds3tr-c_reg.c:6540`): a
  sample taken in it is garbage; a mask written after the other thread's return
  to the user bank lands in another register, and the watch does not wake by
  the wrist until the direction is set again. A failed transaction in the
  bracket leaves the bank switched until the next bracket. `fetchEvents` does
  not look at the result of its read.

## 8 What is not covered

`PROJECT.json` gives each component's status and reason. In short:

* **Out of reach**: floating-point motion fusion, the attitude of the level, the
  physics of the Lander, the pitch of the Theremin.
* **Pure I/O, layout, tables**: display, file cache, ADC and its calibration, UI
  elements, menus, animation, the backlight's fade. Fonts, `Filepaths`, the
  checksums of the files, and the vendor's driver of the sensor (one accessor
  per register field, most of them never called) are some 15,000 of the 40,500
  lines and have no control of their own.
* **Wire formats**: of commands and video to the robot, of HTTP and JSON, of the
  media protocol: a message is what the receiver makes of it.
* **Events** with unlisten and unblock, the debouncing of buttons: section 2.
* **Memory lifetime**: a queue destroyed during `Events::post`, an image of
  the Lander deleted while its loop goes on, a `CharInfo` freed while a worker
  reads it, a pointer returned by `getLastError` after its lock. The models have no heap; the interleavings are
  there, the use after free is not.
* **Torn accesses**: `Phone`'s deque has no mutex (`Notifs/Phone.h:88`). Each
  access is a step; two at one moment are undefined behaviour and outside the
  models.
* **Within modelled components**: find-my-phone, time and media commands of
  Android; next and previous track; the backlight and cooldown of sleep;
  `Threaded::stop` from another thread; pairing data.

A reader who changes the code should change the definition that "map" in
`PROJECT.json` gives for those lines, run its runs, then its proofs.
