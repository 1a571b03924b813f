# A TLA+ model of LK8000

LK8000 is a tactical flight computer.  It reads up to `NUMDEV` devices (GPS,
variometers, Flarm, radios) over serial, network, Bluetooth and Android ports,
merges what they send into one `GPS_INFO`, calculates, advances a task, warns
and draws.  This directory models the control of the program, where threads,
links, devices and the pilot meet: the table of devices and its ports, the
supervision of a link, the monitor that decides which device to believe, the
clock made of what devices send, the declaration of a task to a logger, the
calculation thread with take-off and landing, and the task with its start
gates.  Paths below are relative to `src/Common/Source`.

## 1. Inventory

| component | state | operations | hard because of | module |
|---|---|---|---|---|
| device table (`Comm/device.cpp`, `Comm/DeviceDescriptor.*`) | `DeviceList[NUMDEV]`: `Com`, `Disabled`, `SharedPortNum`, driver callbacks; `CritSec_Comm` | `devInit`, `devCloseAll`, `RestartCommPorts`, `devOpen`, `devParseNMEA`, `devParseStream`, `for_all_device` | one receive thread per port, ports closed outside the lock, ports shared by slots | `PortTable`, `DeviceList` |
| link status (`Android/AndroidPort.cpp`, `Comm/ComPort.cpp`, Java ports) | generation of the link state, data buffer, three flags under `status_mutex` | `PortStateChanged`, `DataReceived`, `RxThread`, `NotifyConnected`, `NotifyDisconnected`, `status_thread_loop`, `Close` | waits without predicates, notifies after unlock, time-outs, a thread started on demand, changes nobody reports | `LinkReport`, `PortStatus` |
| port monitor (`Comm/UpdateMonitor.cpp`, `ProcessTimer.cpp`) | active GPS, `wasSilent`, `NAVWarning`, owner of every value, `itimeout` and flags of earlier runs | `ProcessTimer`, `UpdateMonitor`, `ConnectionProcessTimer` | ages compared at different moments by different rules; silent and returning devices | `PortMonitor` |
| time base (`Comm/Parser.cpp`, some drivers) | `LastTime` per parser, one `StartDay`, two static counts of days | `ApplyDayRollover`, `TimeHasAdvanced`, `Reset`, `TimeModify` | midnight and ends of months, static state shared by devices, clocks that disagree | `GpsTime` |
| declaration (`devDeclare`, `Comm/wait_ack.cpp`, drivers) | expected answer and result, receive thread, `CritSec_Comm` | `make_wait_ack`, `wait`, `check`, `StopRxThread`, `StartRxThread` | late answers, lock released in a wait and around a join, early returns | `Declaration` |
| calculation thread (`Thread_Calculation.cpp`) | `new_data`, `run`, local copies of `GPS_INFO`, `CALCULATED_INFO` | signal, wait, copy out, calculate, copy back twice, stop | lost wake-ups and lost updates | `Flight` |
| flight state (`Calc/TakeoffLanding.cpp`, `Calc/FlightTime.cpp`) | `Flying`, `OnGround`, two counters, statistics, data of the finish | take-off, landing, reset of the statistics | long sequences of legal steps, jumps of the clock | `Flight` |
| task (`Calc/Task/`) | `ActiveTaskPoint`, `AdvanceArmed`, valid start and finish, areas entered, sides remembered in static variables; `NextGate` and gate times | start, restart, sectors, finish, gates; commands of the pilot | sequences of fixes and commands, settings, state that outlives its use | `TimeGates`, `Task` |
| airspace warnings (`Airspace/`) | level and acknowledgement per airspace | calculation, acknowledgement | expiry against new warnings | - |
| draw thread (`Thread_Draw.cpp`), messages (`Message.cpp`) | dirty flag, suspension; message queue | wake-up, suspend, close; add, acknowledge, expire | wake-ups, time-outs | - |
| Flarm and Fanet traffic, Bluetooth sensors | tables of aircraft; sensor values | refresh by age; callbacks | ages, Java threads | - |
| loggers, tracking, terrain, waypoints, profiles, dialogs, sound | files, caches, forms | I/O and output | mostly sequential | - |

How they interact: Java or the operating system feeds a port; the port's
receive thread calls `devParseStream` and `devParseNMEA` under `CritSec_Comm`;
parsers write `GPS_INFO`, and its `Time`, under `CritSec_FlightData` and signal the
calculation thread; that copies `GPS_INFO` and `CALCULATED_INFO`, finds take-off,
landing and the advance of the task (under `CritSec_TaskData`), and writes
`CALCULATED_INFO` back.  The main thread's 2 Hz timer runs the monitor, which may
order `RestartCommPorts`, that is `devCloseAll` and `devInit`; its event handlers
change `CALCULATED_INFO` and the task, and declare the task to a device.

`PROJECT.json` lists every component with its state of modelling, and under
"hazards" what is hard to test in each, at its line.

What makes a component correct: data of a port go to its own device; a port in
use is not closed under its user; no port is opened twice, lost or deleted
twice; restarts end; the pilot is told of a lost link once and not wrongly; an
old fix or value is never presented as current; a silent port is retried; the
clock counts days right and goes back only for a reason that is known; "Task Declared!"
means that the device has that task, and a declaration ends; no fix is left
uncalculated; a flight is neither invented nor cut short; no turn point is
passed over, and a start is recorded at a time at which one was allowed.

## 2. Modules

| module | models | theorems in |
|---|---|---|
| `LinkReport` | what a port promises about its link (abstract) | `AbstractProofs` |
| `PortStatus` | one Android port, its receive and status threads, its closing; implements `LinkReport` | `PortStatusProofs` |
| `PortTable` | what the device table promises those who use ports (abstract) | `AbstractProofs` |
| `DeviceList` | the table, the ports, the receive threads, the restart; implements `PortTable` | `DeviceListProofs` |
| `PortMonitor` | the parsers' state, the monitor, the restart timer | `PortMonitorProofs` |
| `GpsTime` | the time base of several devices | `GpsTimeProofs` |
| `Declaration` | one declaration after another, four kinds of driver | `DeclarationProofs` |
| `Flight` | calculation thread, receive thread, main thread; the state of the flight | `FlightProofs` |
| `TimeGates` | the start gates, as operators | |
| `Task` | the task under fixes and commands; extends `TimeGates` | `TaskProofs` |

The `MC*` modules hold only the values of constants for TLC.  Definitions whose
name has a suffix (`DeletePort_Leak`, `Fresh_Unchecked`, ...) are variants of the
definition after them with a plausible bug; they are used by nothing and show,
when put in its place, that a property can fail.

### 2.1 DeviceList and PortTable

Slots are `0 .. NumDev-1`; port objects are members of `Ports`, reused after a
delete as addresses are, so that a stale pointer can meet a new object.  A
configuration is a name per slot or `Null`; `Unshared` names (internal GPS,
replay) are those `devInit` never shares, `Replay` those of `FilePort`, which
parses without the lock (`RxReplay`) unless it replays raw bytes.

* `devCloseAll` takes a slot in up to four steps: `DetachCom` (under the lock),
  `StopPort` (the stop flag), `DeletePort` (after the join), and the next slot.
  The lock is held by none of the last three: that gap is what the safety
  properties are about.
* A turn of `devInit` (`InitDisabled`, `InitShared`, `InitOpen`, `InitFail`) is one
  action, for it holds the lock from end to end.  The order of slots is kept.
* A receive thread reads (`RxTake`), takes the lock and feeds its slot
  (`RxProcess`), passes sentences on to other slots (`RxOut`), and runs `devOpen`
  (`RxOpen`): serial and socket ports before their first data, Android ports
  after data, whenever the link comes up.  As which class a port is does not
  matter to the properties, the model allows both, at any time.
* `UserCall` and `UserReturn` are `for_all_device`, the lock held in between.

Locks are recursive in the code; the model's threads take them once.  The
content of the data, the callbacks of drivers and the failure to create a
thread are left out.

`PortTable` knows neither slots that share a port, nor loops, nor the lock: a port
is opened for a slot under a name, used by one thread at a time, closed when
nobody uses it, and deleted when its receive thread has ended.  Under the mapping
at the end of `DeviceList` a port is open as long as its own slot points to it,
that is until `devClose` has taken it away, and closing from then until it is
deleted; a thread uses a port while it holds the lock and is at a slot that has
that port as its own.  A slot that shares another's port has none there, so that
the pointers such slots keep meanwhile (disagreement 1) are no use of a port.  Two
kinds of access take no part in the promise, as they look nothing up under the
lock: a replay file's thread, and a driver's `Open`.

### 2.2 PortStatus and LinkReport

One action per stretch under `status_mutex` or under the port's own mutex.
`notify_one` is an action of its own, as the code calls it after the unlock: it
wakes the status thread if that sleeps (`grace` or `wait`) at that moment and does
nothing otherwise.  The ten seconds may elapse at any moment.  A condition
variable may wake by itself if `Spurious`.

Of the Java ports (`android/src/org/LK8000`) the model keeps that `getState` changes
and whether a call follows.  After most changes `stateChanged` is called
(`LinkChanges`); its callback `PortStateChanged` comes some time after the change, and
several changes may be reported by one.  Other changes are followed by no such call
(`LinkChangesSilently`): `UsbSerialPort.error` sets the state and calls `portError`,
which `AndroidPort::PortError` only logs; `AbstractAndroidPort.getState` fails once its
`InputThread` has closed itself; a `MultiPort` is ready when `add` has given it a
connection.  `unreported` remembers, for `LinkSeen` only, that such a change has
happened since the receive thread last woke up.

`LinkReport` knows only the link as last reported, the messages due, the message
told last and whether the port is being closed.  Under the mapping at the end of
`PortStatus` a message is due while the thread that is to send it is on its way:
"connected" from the moment the receive thread has set `status_connected`,
"disconnected" as long as `status_disconnected_notify` is set.

### 2.3 PortMonitor

Time is counted in heartbeats of the 2 Hz timer.  `hb` and `heard` are the age of
what the code stores as a heartbeat (`HB`) and of the truth: the last data on the
slot's port.  They differ where a stream driver sits on a shared port.  `fix` is
the age of `lastGpsValid`, which the code counts in milliseconds (6 s, 12
heartbeats).  A message is one action, for `ProcessData` holds `CritSec_Comm`, and
`UpdateMonitor` is one for the same reason; `OnTimer`, `UpdateMonitor` and
`ConnectionProcessTimer` are separate, so messages come in between.

`owner` stands for any one value of `GPS_INFO` that is kept with its device
(`from_device_data`).  The baro check that resets everything
(`UpdateMonitor.cpp:397`) is the nondeterministic `faulty`.  `force` and `busy`
are the user: a restart asked for, a menu open; they are sampled when the timer
is due.  `RestartCommPorts` is atomic here, as `DeviceList` has its detail: slots
are reset and, after a restart the user forced, other slots may be enabled.  The
program starts at heartbeat 1 or later, because the start-up dialogs run the
timer before ports are opened.  Left out: the loss of Flarm and RMZ, the age
check special to the baro altitude, drivers with a longer silence of their own
(KRT2's `ExpiredCallback`), sounds and messages.

### 2.4 GpsTime

An instant is a day and a part of it, which is the number of seconds of the code
divided into two digits.  The satellites' time passes (`Pass`); receivers in `lag`
are one part late.  `Rollover` is `ApplyDayRollover` with its two static counts,
`Advanced` is `TimeHasAdvanced`, and there is one action per kind of sentence: `RMC`
(for every sentence of the parser that sets the time), `Tracer` (XC Tracer),
`Flysen` (Flytec), `Heartbeat` (GDL90).  All but `Flysen` are for the active GPS only:
`FLYSEN` has no test of `activeGPS`, so a Flytec sets the clock and the two counts at
any time.  It is modelled with the firmware that sends a date (3.32), and with
satellites in use.  `Switch` and `Reset` are what the monitor does to the parsers.

The history variables (`base`, `seen`, `counter`, `regular`) say when counting began and
on which day the last sentence was; `regular` holds as long as counting goes on as
in a flight, with one `StartDay`, for less than the shortest month.  A Flytec that
counts next to another device ends it.  `disturbed` says whether something has come
between the clock and the active NMEA device's `LastTime`: a refusal, a reset, a
switch, a Flytec.  `refusedOn` is the day of the last refused sentence.

### 2.5 Declaration

`Lines` lines; line 1 begins a task, each later one extends it.  A line is sent
and awaited (`Send`, `Acknowledged`, `Timeout`) with the lock released in the wait,
or the receive thread is stopped with the lock released around the join
(`StopRxThread`, `Joined`, `Relock`), the answers are read (`Expected`, `Unexpected`)
and the thread is started again (`StartRxThread`) or not (`Unexpected` of a driver
that returns at once).  Where the receive thread keeps running it takes a line
of input and, with the lock, lets `wait_ack::check` look at it (`Parse`).  Lines and
answers may be lost; the device may refuse.  `OnlyThisLineIsLate` is an assumption
about the device, not about the code: a line that times out after 20 seconds has
no older line or answer behind it.  Without it the acknowledgement of an earlier
attempt could be taken for that of a later one, the two being the same text.

### 2.6 Flight

`SignalNewData` and `RequestStop` are two actions each, the change and the notify
after the unlock.  The thread sleeps and wakes (`Sleep`, `Spurious`, `Proceed`),
takes its copies and calculates (`Calculate`, one action, see the module's
comment), and publishes (`Publish`, `PublishSlow`).  The calculation is
`FlightTimes` for a time that has not advanced (`Behind`), and for one that has
`TakeoffLanding` and the events of the task (`Advance`).  A fix is fast, slow and
low, slow and high, or not valid; how its time compares is chosen at random, so
that any behaviour of the clock is covered.  Limits and thresholds are constants.

### 2.7 TimeGates and Task

A fix says in which areas the aircraft is (`ReadingSet`): geometry is abstracted
to that.  `Fix` is `InSector` with all it calls: `NotifyGateState`, `CheckStart` with
`InStartSector`, `CheckRestart`, `CheckInSector`, `CheckFinish`.  The static variables
of these functions (`lastIn`, `lastTurn`, `lastFinish`) are part of the state.  A
command is one action, for it holds `CritSec_TaskData`; whether what it writes
into `CALCULATED_INFO` survives is chosen (`written`), as a calculation under way
writes its copy back.  `rules` are the settings and the kind of the task, fixed in
a behaviour.  Times are local; `LocalTime` appears where the code converts a time
that is local already.

## 3. Model checking

Each configuration is run as `tlc -config <run>.cfg <module>`.

| run | asks | distinct states |
|---|---|---|
| `DeviceList_safety` | `RxOwnsItsSlot`, `HeldPortAlive`, `SharedFollowsMaster`, `ExclusiveOpen`, `NoPortLost`, `NothingLeft` | 6 980 904 |
| `DeviceList_liveness` | `RestartCompletes`, `ImplementsPortTable` | 112 333 |
| `PortStatus_threads` | `NoLostWakeup`, `StatusSettled`, `LinkSeen`, `ReportsAlternate`, `ImplementsLinkReport`, `CloseReturns`, `DisconnectReported` | 28 974 |
| `PortMonitor_gps` | `NoStaleFix`, `ValueExpires`, `KeepsRestarting` | 1 268 576 |
| `GpsTime_flight` | `DayCountRight`, `NeverBackInFlight`, `NoSilentReset`, `NeverStuck` | 6 032 857 |
| `Flight_thread` | `NoLostSignal`, `OnGroundOnlyAtTakeOff`, `PhaseNeedsFixes`, `ReviewedFlight` | 5 174 264 |
| `Declaration_exchange` | `NamedTaskDeclared`, `SolePort`, `ReceivedAgain`, `DeclareReturns` | 35 616 |
| `Task_flight` | `FlownInOrder`, `StartInWindow`, `OneArmOneStep` | 2 079 148 |
| `DeviceList_shared`, `Flight_auto`, `Task_start`, `Task_gates` | the disagreements below | |

What the properties say:

* `RxOwnsItsSlot`, `HeldPortAlive` hold because `devClose` joins the receive thread
  before the slot can be given another port, and because a pointer is looked up
  and used under one lock.
* `SharedFollowsMaster`, `ExclusiveOpen`, `NoPortLost`, `NothingLeft`: what the
  search for a master, the loops over the slots and the close must add up to.
* `ImplementsPortTable`: opening, using, closing and deleting a port, spread over
  loops and threads, come to what would happen if each were done at once, and
  only when it may be done.
* `NoLostWakeup`, `NoLostSignal`: no thread sleeps on something it should act on.
  `LinkSeen`: the receive thread sleeps on a wrong view of the link only while a
  report is to come or if there was none, and whatever wakes it next corrects it.
* `StatusSettled`, `ReportsAlternate`, `ImplementsLinkReport`: what the pilot reads.
* `NoStaleFix`: a fix is trusted for at most its life plus one period.
  `ValueExpires`: a value outlives its device's silence by at most one period.
* `DayCountRight`, `NeverBackInFlight`: the count of days is right and the clock
  advances in a flight in which one `StartDay` counts, whichever of the devices that
  share it are active in turn.  `NoSilentReset`: while an NMEA device is active, and
  whatever counts, the clock goes back only by a Flytec, or at a sentence after a
  refusal, a reset, a switch or a Flytec's sentence.  `NeverStuck`: a clock that is ahead
  does not have every later sentence refused.
* `NamedTaskDeclared`: success means that the device holds the task declared; if
  acknowledgements do not name the line, then at the first attempt.
  `SolePort`: the driver is the only reader of its port.  `ReceivedAgain`: the
  device is received after a declaration.
* `PhaseNeedsFixes`: neither a jump of the clock nor a write-back begins or ends a
  flight.  `ReviewedFlight`, `OnGroundOnlyAtTakeOff`: statistics and flags are of
  that flight, also with a finish of an earlier one.
* `FlownInOrder`: nothing remembered from an earlier attempt lets a turn point be
  passed over.  `StartInWindow`: neither a pilot event, a reset, nor the last gate
  lead to a start before the first gate or in the future.  `OneArmOneStep`: an
  arming is used up by what it allows.
* Liveness: `RestartCompletes`, `CloseReturns`, `DisconnectReported`,
  `KeepsRestarting`, `DeclareReturns`.

Bounds.

* `DeviceList`: three slots are needed for a sharer of a sharer and for a master
  found after a non-match; three ports, so that every slot may have one; one
  shareable and one replay name; one user thread, as the lock serialises more.
  The port addresses are symmetric (none is distinguished by a constant or a
  property); the liveness run has two slots, two ports and no symmetry, which is
  enough for a slot that shares and for a port reused while another closes.
* `PortStatus` is finite as it stands.
* `PortMonitor`: the code's numbers (period 10, silence 10, fix life 12, recent 10,
  start-up 20, restart 90/10) divided by ten and rounded: period, silence, fix
  life and recent 1, start-up 2, restart 2.  Silence equals the period, as in the
  code.  The theorems cover the code's own numbers, where the fix lives longer
  than a period.  `MaxAge` stops ages where no comparison tells them apart.  Two
  devices show every pair of a better and a worse GPS.
* `GpsTime`: days of two parts, a month of three days between two others, so that
  two month ends happen, each within a flight or outside of one; two NMEA receivers
  (symmetric), one device of each other kind.  Of the sets of late receivers
  `MCSpec` takes none, all, and one or two of those that count days (`Lags`); the
  theorems are about all of them.
* `Flight`: a threshold of one fix (`Steps`), limits of two and three (`CapAir`,
  `CapGround`), three types of aircraft, two times to tell flights apart; the flag
  of the wake-up has no bound.
* `Declaration`: four lines, so that there is a first, a second, a middle and a
  last; four attempts, so that leftovers of one can meet the next but one.
* `Task`: two turn points and a finish, fourteen readings with every area and
  their overlap, seven sets of rules with every mode of advance, kind of task,
  sector and gate; two gates, a clock from before the first to after the close,
  one unit per fix.  Local time is two units behind UTC, so that the conversion
  that is made once too often shows.

`CHECK_DEADLOCK` is switched off for `Task_flight` alone: there the bound of the
clock ends a behaviour in which the pilot does nothing more.  The ends of the
other programs are stuttering steps of the specification, or do not exist.

Fairness.  `DeviceList`: the steps of a thread that needs no lock are weakly
fair, as the scheduler runs every thread; taking `CritSec_Comm` is strongly fair,
as a thread blocked on it gets it in the end although others come and go.
Nothing forces the user to configure or to restart, data to come or a link to
break.  `PortStatus`: weak fairness of each thread's steps, of an elapsing
time-out, and of a close once begun.  `PortMonitor`: the timer never stops.
`Declaration`: weak fairness of the main thread, of a thread that gives the lock
back, of the receive thread's end and of the device, strong fairness of getting
the lock and of receiving; answers may be lost every time, and the pilot need
not declare.

### Disagreements with the comments

Four runs expect a violation; each quotes the comment in `PROJECT.json`.

1. `DeviceList_shared` (`NoDanglingCom`): `devClose` deletes a shared port while the
   slots that share it still point to it; another thread can find that pointer
   under the lock.  It is proved that this happens nowhere else: only while
   ports are being closed, and only in a slot that shares (`DanglingDelimited`).
2. `Flight_auto` (`PilotDecides`): AutoMacCready, turned off by hand while a
   calculation runs, is turned on again by the copy written back.
3. `Task_start` (`StartIsCrossed`): the side of the start remembered in a static
   variable may be of long ago, or of another start.
4. `Task_gates` (`Opened`): a reset of the task converts a time to local time
   twice, and takes gates for open that are not.  With three hours and four
   gates the same instance also shows a start recorded in the future.  It is
   proved to happen only where the conversion puts a time later, east of
   Greenwich (`GatesOpened`, under `NeverAhead`), and never to lead to a start
   before the first gate (`NoEarlyStart`).

Seen in the models, but not given a run of their own:

* `devOpen` does not check `Com`, as the parsers do, and can run for a slot whose
  port `devClose` has taken away.
* A link that fails without a `portStateChanged` (a USB port's error, an input stream
  that breaks) is not told to the pilot: the receive thread goes on sleeping with
  `connected` set until data, the report of another change or a restart wake it, and
  none may come.  `StatusSettled` and `DisconnectReported` speak of `status_connected`,
  which stays true; without `unreported`, `LinkSeen` fails.
* A link lost while the receive thread is stopped for a declaration is not told
  either: the new thread begins with `connected` false.
* A Flytec that is not the active GPS sets the clock (`FLYSEN` has no test of
  `activeGPS`; the comment there asks only about `TimeHasAdvanced`).  If it is late,
  or if its `StartDay` is another day's, the clock goes to and fro between the two
  devices, with no refusal; the static counts of days change under the other's hands.
  Without its exception for `Flysen`, `NoSilentReset` fails.
* `ComPort::Close` joins the status thread before the receive thread, which may
  start it again; and the notify that follows its start can end the ten seconds
  of grace at once.
* The "no activity for 90/2 seconds" before a restart is the time since the last
  restart or reconnection, not since the last data.  What does hold is
  `RestartNears`: ports that stay silent are restarted within `Reset + 2` runs of the
  monitor, which are 110 heartbeats, 55 s.
* `ValueExpires` fails if a stream driver sits on a slot that shares another's
  port: it marks its slot alive and acts for the other, whose values never
  expire.
* `TaskDeclared` fails for RC Fenix (`Drivers = {"fenix"}`): its acknowledgements do
  not name the line, and one that is late is taken for the next.  That takes a
  second attempt; of the first, `NamedTaskDeclared` is proved.  For the drivers
  that return early, `Received` fails until the ports are restarted.
* `FlownInOrder` without its exception fails for circles of a race to goal, where
  the remembered side may be of another point.

## 4. Proofs

`tlapm <Module>.tla` checks each proof module.  What the passing runs check of
safety on a small instance is proved for every value of the constants that
satisfies the named assumptions:

| module | theorems |
|---|---|
| `DeviceListProofs` | `TypeCorrect`, `ReceiveOwnSlot`, `PortHeldIsAlive`, `SharingIsConsistent`, `PortsOpenOnce`, `PortsAccountedFor`, `CloseAllComplete`, `Refinement`, `TableSound`, `DanglingDelimited`, `NobodyStuck` |
| `AbstractProofs` | `UserInformed` (of `LinkReport`), `TableSound` (of `PortTable`) |
| `PortStatusProofs` | `TypeCorrect`, `WakeupsArrive`, `MessageMatchesStatus`, `SleepsInformed`, `OneReportPerLoss`, `Refinement`, `UserInformed` |
| `PortMonitorProofs` | `TypeCorrect`, `FixIsFresh`, `ValuesExpire`, `SilenceEnds` |
| `GpsTimeProofs` | `TypeCorrect`, `DaysCounted`, `ClockAdvances`, `ResetsAnnounced`, `NotRefusedForEver` |
| `FlightProofs` | `TypeCorrect`, `SignalsArrive`, `GroundLeft`, `PhasesHaveFixes`, `FlightReviewed` |
| `DeclarationProofs` | `TypeCorrect`, `DeclaredTaskHeld`, `PortUsedAlone`, `DeviceReceived` |
| `TaskProofs` | `TypeCorrect`, `TurnsFlown`, `StartsThroughGate`, `ArmedOnce`, `NoEarlyStart`, `GatesOpened` |

Each module proves that its inductive invariant `IInv` holds initially and is
preserved by every action, one lemma or one step per action (theorem
`Strengthening`), and derives the properties; action properties follow from
`IInv` before the step.  Every `IInv` was checked by TLC, on the instances of the
runs, before it was proved.

* `DeviceList!IInv`: the properties are not inductive, since they do not say
  where the main thread's loop is.  `LoopInv` says which slots are already
  empty, `PortInv` that ports and slots point at each other (and a port that is
  closing is the loop's victim), `LockInv` that a thread that looked a port up
  holds the lock, `SlotInv` what a finished turn of `devInit` has established.
  From it `Refinement` maps the initial states and every step to a step of
  `PortTable` or a stutter; `TableSound`, proved of `PortTable` alone, carries over.
  `NobodyStuck` is the safety half of `RestartCompletes`: who holds the lock is at
  work and can give it back, and the thread that the main thread joins exists.
* `PortStatus!IInv`: adds what the receive thread's local copies say about the
  link as long as Java has reported what changed, and that a request is pending exactly when the user was last told
  "connected" and the status is not.  `Refinement` maps the initial states and,
  from `IInv`, every step to a step of `LinkReport` or a stutter; `UserInformed`,
  proved of `LinkReport` alone, is so proved of the port.
* `PortMonitor!IInv`: the two ages are bounded by the limit plus the time since
  the last run of the monitor; a value's owner that is marked silent has been
  heard of since.  `ValuesExpire` assumes `OwnStream` (a slot with a stream driver
  has a port of its own); without it the property is false.  `FixIsFresh` needs
  no such assumption.  `SilenceEnds` is the safety half of `KeepsRestarting`, with a
  measure: `Patience` is the number of runs without a GPS that bring the restart.
  It is at most `Reset + 2`, each of those runs lowers it, and only a GPS, a restart,
  a menu or a table without an enabled slot raises it again.
* `GpsTime!IInv`: `CountInv` says what the two counts mean separately: days since
  `StartDay`, and before it days since counting began, with `StartDay` the first of
  a month if there are any.  `ClockInv` and `OwnTimeInv` tie the clock to the last
  sentence and, if undisturbed, to `LastTime` of the active device, `RefusedInv` says that
  counting starts anew after a refusal, so that after two `LastTime` is of its first
  day.  The calendar enters only by `GpsTimeAssumption`: days follow each other,
  and two firsts of a month are at least `Shortest` days apart.
* `Flight!IInv`: `CountsTell` relates the counters to the number of fixes that
  count, `StatsOfFlight` says that the statistics, and those saved for the finish,
  begin at the take-off, `PhaseToCome` and `SecondCopy` say what a copy that is yet
  to be written may differ in.
* `Declaration!IInv`: `LockHeld` and `ThreadStopped` follow the code's scopes.
  `Follows` describes what is on the way: while line k is awaited only line k, its
  answer, or one line 1 of an attempt given up, and the device holds the first
  k - 1 or k lines.  That the late answer of an earlier attempt can only belong
  to line 1 is what makes a retry safe.  `FirstTry` is the part of it that holds
  without names: at the first attempt nothing is on the way but the line awaited.
* `Task!IInv`: `Begun` keeps that the areas entered are among those reached since
  the start, with the finish only at the finish.  `GatesInv` keeps that no start is
  before the first gate (`NotBeforeFirst`), wherever on Earth.  That the gate before
  the next one has opened holds under `NeverAhead`: the conversion made once too
  often does not put a time later than it is, as at UTC and behind it.
  `GatesOpened` and `StartsThroughGate` assume it, because of disagreement 4;
  `Task_flight` is such an instance.

Assumptions on constants are `DeviceListAssumption`, `SpuriousAssumption`,
`PortMonitorAssumption`, `GpsTimeAssumption`, `FlightAssumption`,
`DeclarationAssumption`, `GatesAssumption` and `TaskAssumption`, in the modules that
declare them.  TLC evaluates them on every run.

Four theorems state definitions that are not part of a run: `NoDeadlock`,
`DanglingOnlyWhileClosing`, `RestartNears` and `NotBeforeFirst`.  TLC found them true
on the instances of `DeviceList_safety`, `PortMonitor_gps` (with `Reset = 3`) and
`Task_flight` before they were proved.

Only model-checked: the liveness properties (fairness and `ENABLED` are out of
the prover's reach) and, of course, the violations.

## 5. Not modelled, and the plan

Not modelled, because there is no control to speak of or because it is out of
TLC's reach: numerical code (wind, polar, glide, distances, optimisation), file
formats, topology and terrain, drawing, forms, sound, the text of protocols, and
vendored libraries; together they are most of the lines of the program.

Left out of the modules so far: several start points, targets and editing of a
task; free flight detection and replay; the loss of Flarm; writes to a port that
fail; the fields of `GPS_INFO` one by one.

Next, in this order:

1. `Airspace`: warning levels against acknowledgements and their expiry.
   Theorem: a level is never lowered while the aircraft goes on towards the
   airspace, but by the pilot.
2. `Message` and the draw thread: the queue with time-outs; suspension and wake-up.
3. Bluetooth sensors as a further receive action of `DeviceList`.
4. A composition of `DeviceList` and `PortMonitor`, in which a restart is not
   atomic for the monitor's view, and of `GpsTime` with `Flight`, in which the clock
   is not arbitrary.
5. Flarm and Fanet tables: slots, ages and names.
