# Saitek Pro Panels plugin for X-Plane: TLA+ models and proofs

The plugin connects three Saitek USB panels (radio, multi, switch) to X-Plane.
This directory holds TLA+ modules translated from its source, the TLC
configurations that check them on small instances, and theorems proved with
TLAPS for every value of the constants. `src/` below is the root of the
repository.

Check a model with `tlc -config X.cfg M` (each run's module and configuration
are listed in `PROJECT.json`), and proofs with `tlapm M_proofs.tla`, for the
seven modules with that ending and for `SequenceFacts.tla`.

Contents: 1 the system; 2 the modules; 3 the runs, their bounds and fairness;
4 what is proved; 5 findings; 6 what is not modelled.

## 1. The system

### Components, state, operations

| component | code | state | operations |
|---|---|---|---|
| Plugin life cycle | `SaitekProPanels.cpp` 893-1005 (start), 2108-2300 (stop, purge, disable, enable), 2302-2534 (messages) | `gPluginEnabled`, `gPlaneLoaded`, `gThreadsRun`, the device handles | `XPluginStart`, `Enable`, `Disable`, `Stop`, `ReceiveMessage`, `purge_queues`, `close_hid` |
| Panel threads | `PanelThreads.cpp` 52-215, 780-1010 | one trigger, `ijq`, `ojq` and two threads per panel, `mDoInit` | `FromPanelThread::execute`, `ToPanelThread::execute` |
| Multi panel, input and commands | `PanelThreads.cpp` 516-680, `SaitekProPanels.cpp` 1009-1296, 1642-1870 | ten detent counters, five pending counters, power flags | `mp_processing`, `MultiPanelFlightLoopCallback`, `MultiPanelCommandHandler` |
| Multi panel, display | `PanelThreads.cpp` 1272-1731, `SaitekProPanels.cpp` 1096-1294, 2307-2412 | displayed values, LED bits, knob position | `ToPanelThread::mp_processing`, `mp_led_update`, `mp_do_init` |
| Radio panel | `PanelThreads.cpp` 217-514, 1027-1270, `SaitekProPanels.cpp` 1301-1379, 1575-1640, 2414-2440 | local copies of the frequencies, coarse and fine counters, knob position | `rp_processing` in both directions, flight loop, command handler, `rp_do_init` |
| Switch panel | `PanelThreads.cpp` 681-878, 1736-1761, `SaitekProPanels.cpp` 1386-1569, 1872-2100, 2290-2300 | number of engines, gear LEDs | `sp_processing` in both directions, flight loop, handler, `sp_do_init` |
| HID access | `hidapi/mac/hid.c`, `linux/hid.c`, `linux/hid-libusb.c`, `windows/hid.c` | list of reports, `read_thread`, flags, pending read | `hid_open_path`, `hid_read_timeout`, `hid_close`, callbacks |
| Conversions | `utils.c` | none | `dec2bcd`; `bcd2dec` and `to_bytes` are called nowhere |
| Look-ups | `*panel_refs.cpp`, `multipanel.cpp`, `radiopanel.cpp`, `switchpanel.cpp` | none | find references and register handlers once; write one blank report |
| ptypes, X-Plane SDK | `include/ptypes`, `SDK` | queues and triggers; X-Plane itself | headers of code that is not in the repository: modelled from their use, marked external |
| Not part of the running plugin | `PanelsCheckThread` (compiled out), `test/`, `hidtest/`, `SaitekProPanelsWin.cpp`, `overloaded.cpp` | | |

### How they interact

X-Plane calls everything in `SaitekProPanels.cpp` on its main thread, one call
at a time: the `XPlugin*` callbacks, one flight loop per panel and the command
handlers. Each panel has a `FromPanelThread`, which blocks in `hid_read`,
translates a report into messages and posts them to the panel's `ijq` (and, for
what the panel should show at once, to its own `ojq`), and a `ToPanelThread`,
which takes messages from `ojq` and writes the device. The flight loop takes
messages from `ijq` and runs X-Plane commands; the handlers of these commands
(which the same commands reach when they come from the keyboard) decide whether
they pass and post new values to `ojq`. Both threads wait for a manual-reset
trigger of their panel before every round, read the flags without a lock, and
hold a reference to the global device handle. Below `hid_read`, two of the four
variants of hidapi have a thread of their own, which receives reports and wakes
the reader.

### What is hard

- The callbacks post and reset triggers, clear flags, purge queues and close
  devices while six threads are anywhere in their loops; nothing joins a thread.
- The queues are bounded and a post waits: main thread, `FromPanelThread` and
  `ToPanelThread` could wait on each other.
- Panels are independently absent, but run the same code on the same flags.
- A command reaches its handler by two ways, which only a counter tells apart.
- The same value reaches a display by two ways, in an order nobody fixes.
- Ten hand-written branches of counters, twenty of displays, in which one line
  may be wrong; and messages built in a buffer that is posted by reference.
- A report of the switch panel is up to ten messages in two queues, which
  different threads empty and one callback purges.
- The library's reader sleeps on a condition that another thread signals, and
  a read may outlive the call that started it.

`PROJECT.json` lists each hazard at its line. What makes each component
correct:

- life cycle and threads: threads of an open panel are awake exactly while the
  plugin is enabled; an absent panel is never served; disabling leaves nothing
  behind for the next session but what one report of the user makes; no access
  to a closed device begins; every callback returns; full queues are relieved;
  after `XPluginStop` threads end.
- multi panel commands: one command per threshold of detents in a row; the
  panel's own flaps and autothrottle commands pass and those of the keyboard are
  eaten; no pending count is left over.
- displays: what a panel shows is, once the queues are empty, what X-Plane last
  said and the user dialled; a panel without power is dark exactly while its
  controls are ignored.
- switch panel: X-Plane's switches are as those of the panel once the messages
  have been acted on; ignition reaches all engines; LEDs agree with the gear.
- HID: reports are read in order, none twice, none lost but where the code says
  so; a reader never sleeps past a report; unplugging ends a read and closing
  returns.

## 2. The modules

| module | models | proofs |
|---|---|---|
| `PluginLifecycle` | life cycle, panel threads, queues and triggers; messages are only "blank", "sim", "crash" or "knob" | `PluginLifecycle_proofs`, `PluginShutdown_proofs` |
| `MultiPanel` | multi panel input and commands: counters, flags, `ijq`, and what X-Plane was made to execute | `MultiPanel_proofs` |
| `DetentCounter` | abstract: what tuning with a detented dial promises, one turn and one count | refined by `MultiPanel` |
| `MultiDisplay` | multi panel display: handler, `mp_do_init`, `ToPanelThread`, the rows and the buttons | `MultiDisplay_proofs` |
| `RadioPanel` | the radio panel in both directions: knobs, frequencies, LEDs | `RadioPanel_proofs` |
| `SwitchPanel` | the switch panel in both directions: switches, ignition, gear, LEDs | `SwitchPanel_proofs` |
| `HidDevice` | one device under each variant of hidapi: reader, library thread, removal, closing | `HidDevice_proofs` |
| `HidReports` | abstract: what `hid_read` promises of the reports of a device | refined by `HidDevice` |
| `Following` | abstract: what one side of a queue promises to keep of the other side's things: owed, on its way, there, or lost | refined by `RadioPanel`, `SwitchPanel`, `MultiDisplay` |
| `SequenceFacts` | facts on queues: what posts, urgent posts and gets do to the last message of a kind | used by three proof modules |
| `MC*` | the instances, one module per component | |

Each panel's module composes what happens on its three threads; panels share
only the flags and callbacks `PluginLifecycle` models with any set of panels.

### PluginLifecycle

The main thread is in callback `op` at place `at` with panel number `i` of the
order that callback follows (`XPluginStop` and `purge_queues`: radio, multi,
switch: `OpenOrder`; `XPluginEnable` and `XPluginDisable`: `EnableOrder`). Every access
to something a thread can see at the same time is a step of its own.

| actions | code |
|---|---|
| `Start` | `XPluginStart`, `init_hid`: which panels open is any member of `Plugged`. One step, since no thread exists before, and a thread touches only its own panel. |
| `EnableBegin`, `PurgeTake`, `PurgeNext`, `EnableArm`, `EnableFlag` | `XPluginEnable`: purge, post the triggers of open panels, set the flag if there is one. `XPluginEnable` calls X-Plane's result back only through the flag; X-Plane counts the plugin as enabled. |
| `DisableBegin`, `DisableWake`, `DisableBlank`, `DisablePark`, `Purge*` | `XPluginDisable` |
| `StopBegin`, `StopBlank`, `StopRelease`, `StopHalt`, `StopSleep`, `CloseDevice`, `CloseForget`, `CloseReset`, `Purge*` | `XPluginStop` and `close_hid` |
| `PlaneEvent`, `SimCommand`, `FlightLoop`, `MainPost`, `MainPosted` | `XPluginReceiveMessage`, a command with its handlers, one message of a flight loop: each with the posts they make, one step per post |
| `ToTest` ... `ToWrite` | `ToPanelThread::execute`, one action per access of flag, trigger, queue or handle |
| `FromTest` ... `FromPosted`, `Input` | `FromPanelThread::execute`; `Input` is the user or a read error |

X-Plane sends `XPluginReceiveMessage` to enabled plugins only
(`SDK/CHeaders/XPLM/XPLMPlugin.h`), and one flight loop callback, which takes
up to 100 messages, is as many `FlightLoop` steps. A report posts at most ten
messages (switch panel: eight to `ijq`, two to `ojq`), queues hold 5000:
`RoomAssumption` keeps the order of these two numbers on small limits.
`SleepOutlasts` says whether the 500 ms in `XPluginStop` are longer than what
threads need to reach a place where they block; the threads' own pauses are
100 ms. It is FALSE wherever a property does not need it, and only
`NoUseAfterClose` does.

### MultiPanel

| actions | code |
|---|---|
| `Report`, `Deliver` | `FromPanelThread::mp_processing`: buttons, flaps, trim and tuning exclude each other in that order (`Asked`); the autothrottle switch is posted with every report |
| `Drop`, `Turn`, `WatchedOnce`, `PlainOnce` | one message in `MultiPanelFlightLoopCallback`: dropped without power; a detent of one of ten turns; a command with a pending counter; any other command |
| `Passes`, `CommandOnce`, `Keyboard` | the flaps and autothrottle cases of `MultiPanelCommandHandler`. `XPLMCommandOnce` calls every handler registered for the command for the Begin and for the End phase; a handler that returns `MP_CMD_EAT_EVENT` ends the round. This dispatch is X-Plane's and taken from the SDK headers. |
| `Enable`, `Disable`, `PlaneLoaded`, `PlaneUnloaded` | the flags; a purge is one step here, because only messages posted after it survive it, and those are `outbox` |

`sim` and `held` record what X-Plane was made to do; no action reads them.
`Registered` is how often `multipanel_refs.cpp` registers the handler: once for flaps and
autothrottle toggle, twice for autothrottle on, never for off.
The commands of the ten turns also pass through the handler, whose cases for
them only post to the display: they are in `MultiDisplay`.

### RadioPanel

Composes what happens to one frequency: `FromPanelThread`, the flight loop, X-Plane,
the handler, `ToPanelThread` and the callbacks that enable, disable and purge.

| actions | code |
|---|---|
| `Report`, `Deliver` | `FromPanelThread::rp_processing`: of the controls in a report the last one (`Asked`) makes a message, posted to `ijq` and then to `ojq`; both knob positions follow, one post per step |
| `FlightLoop`, `Keyboard`, `MainPost` | `RadioPanelFlightLoopCallback` or the keyboard makes X-Plane run a command. The handler is registered to run after X-Plane and does not look at the phase: it answers twice, for Begin and for End. Each answer is a post that may have to wait. |
| `Silent` | X-Plane changes a frequency with no command, so that nobody tells the panel |
| `PlaneLoaded`, `PlaneUnloaded` | `XPluginReceiveMessage` and `rp_do_init` |
| `Enable`, `Disable`, `DisablePark`, `PurgeTake`, `PurgeNext` | the callbacks, as in `PluginLifecycle`. `XPluginEnable` posts the trigger before it sets the flag; here that is one step, for `ToPanelThread` reads only the trigger and the others only the flag. |
| `ToWake`, `ToShow` | `ToPanelThread::execute` and the branches of its `rp_processing`: `ShowBlank`, `ShowKnob`, `ShowVal`, `ShowCom2Active`, `ShowTurn`, `ShowAgain` |

A frequency is a number below `Word`, and the LEDs show it modulo `Places`; which bits
of a byte hold a digit is left out. Where a dial points X-Plane to is any member
of `Freqs`. The members the constructor does not initialise (`knob`, `report`) start
with any value (`Junk` on the LEDs). `rp_init` blanks LEDs that are dark already
and is left out. A counter is kept up to the threshold (`CntBound`): beyond it the code only
compares. `stale` records which frequencies X-Plane changed, or whose message
a purge took, since the panel was told last; no action reads it. The modules of the
other two panels use `stale` in the same way.

### MultiDisplay

| actions | code |
|---|---|
| `Command` (`Turn`, `Press`, `Otto`, `FdUpOne`), `MainPost` | `MultiPanelCommandHandler` after X-Plane ran the command, once for Begin and once for End; `Value` and `Sign` are its roundings of the data reference, which differ between up, down and `mp_do_init`. `FdUpOne` makes a message that is not posted. |
| `Silent` | X-Plane changes a readout by itself |
| `PlaneLoaded`, `MainPost`, `MainRewrite` | `mp_do_init` posts everything. "shared" is the buffer of the HDG message, which `MainRewrite` fills with the CRS value while it is in the queue, taken, or freed; "freed" is the same pointer posted a second time. |
| `PlaneUnloaded`, `PlaneCrashed` | the power flags, each the opposite of X-Plane's switch; the crash message |
| `Report`, `Deliver` | `FromPanelThread::mp_processing` ends with the knob position (its other posts go to `ijq`) |
| `Enable`, `Disable`, `DisablePark`, `Purge*` | as in `RadioPanel` |
| `ToWake`, `ToTake`, `ToShow` | `ToPanelThread::execute` takes the pointer first and reads through it later; `Show` has a disjunct for each branch of `mp_processing` that a posted message reaches, `BitAfter` and `BitOf` those of `mp_led_update` and its callers |

Values are in halves, since the handler adds a half before it truncates, so that
rounding stays exact without reals. A readout is the digits `dec2bcd` shows. Buttons
and dials are sets, so that a run takes the ones it asks about.

### SwitchPanel

| actions | code |
|---|---|
| `Report`, `Deliver` | `FromPanelThread::sp_processing`: knob, last of eight switches, lights, gear, to two queues, one post per step. `Left` is where the user's controls then are. |
| `Forget` | `FromPanelThread::execute` reads and drops what comes while the plugin is disabled |
| `FlightLoop` | `SwitchPanelFlightLoopCallback`: `RunKnob` for `Engines(position, number)`, written out in the code for one to four engines; `RunPanel`, `RunGear`, `RunSwitch` |
| `Silent` | `SwitchPanelCommandHandler` lets everything pass |
| `LoadPlane`, `UnloadPlane` | `XPluginReceiveMessage` and `sp_do_init`, which takes the plane's generators for its engines; a disabled plugin hears neither |
| `ToWake`, `ToShow` | `ToPanelThread::sp_processing`: each message is a whole screen |

### HidDevice

`backend` is the variant of hidapi the plugin is built with. Makefiles of the
repository build the ones for Mac OS, Windows and Linux with hidraw; the one with libusb is
in the repository and modelled as well.

| actions | code |
|---|---|
| `OpenMac`, `OpenUsb`, `OpenRaw`, `OpenWin`, `Start` | `hid_open_path` and the first barrier |
| `ReportMac`, `ReportUsb`, `Attached`, `TransferEnds` | `hid_report_callback`, `read_callback`: append, cut the list, signal |
| `Test`, `Returns`, `HandleFails`, `Wake`, `Removed` | `read_thread` around its run loop or its events; the removal callback |
| `ReadList`, `ResumeMac`, `ResumeUsb`, `Spurious`, `TimedOut` | `hid_read_timeout` with `cond_wait`, `cond_timedwait` and `return_data`: the mutex is held from the start to a return or a sleep, so that each stretch is one step |
| `Poll`, `ReadRaw` | `hid_read_timeout` over hidraw |
| `ReadWin`, `Complete`, `ResultWin` | `hid_read_timeout` on Windows, whose overlapped read stays pending when a call times out |
| `CloseMac`, `Signal`, `Barrier`, `Join`, `CloseUsb`, `CloseRaw`, `CloseWin` | `hid_close`, in the order in which it sets flags, wakes the thread and waits for it |

Reports are numbered in the order they were sent in. What the system keeps for hidraw
and for Windows is external.

## 3. The runs

Deadlock is not checked in any run: X-Plane may stop the plugin or the user stop
using the panel, after which nothing has to happen.

| run | instance | shows |
|---|---|---|
| `lifecycle_one` | one panel, limit 2, reports of one post, fairness, `SleepOutlasts` | queues keep their limit (`TypeOK`); a disabled plugin keeps nothing X-Plane said and at most one report of the user (`LeftoverIsOneReport`), nor does the step that enables it find any (`CleanEnable`); nobody uses a closed device (`NoUseAfterClose`); threads end after `XPluginStop` (`StopEndsThreads`), callbacks return (`MainReturns`), full queues get room (`QueuesRelieved`) |
| `lifecycle_two` | two panels in opposite orders, any subset plugged in, limit 1, commands posted to both | triggers agree with the plugin's state (`AwakeWhenEnabled`, `ParkedWhenDisabled`); an absent panel's threads never start to work (`AbsentNeverServed`); the main thread waits only where a consumer is awake (`BlockedPostHasConsumer`) |
| `multi_input` | two dials, all controls, double bits, keyboard, threshold 3 | at most one counter is not zero (`OneTurnCounts`); the counters implement `DetentCounter` (`CountsDetents`); `NothingLeftPending`, `OnlyPanelMovesFlaps`, `PanelCommandPasses` |
| `commands_end` | all controls, threshold 2 | finding: the handler eats the End of the panel's own command |
| `radio_tuning` | COM1, threshold 2, limit 2, three kinds of detents, X-Plane tuning by itself; 3.2 million states | types; the copy of the standby frequency is off by one step at most (`DriftIsOneStep`); lit lines show what is kept (`LitLinesCurrent`) |
| `radio_display` | both radios, knobs that change places, flips of COM2 in either place and of COM1 from the keyboard; 2.8 million states | active frequencies agree with X-Plane (`ActiveAgrees`) and implement `Following` (`ActivesFollow`); `LitLinesCurrent` |
| `multi_display` | altitude, vertical speed, one button, the autopilot off and stepped up, outages, crashes, limit 1; 5.3 million states | on a lit panel the readout at the knob is X-Plane's value but for the rounding (`ReadoutAgrees`), and the lights agree (`ButtonsAgree`) |
| `multi_power` | heading and course with the shared buffer, planes loaded, and unloaded with the power switches either way, outages, crashes, limit 2; 5.1 million states | the display's power is the flight loop's, whatever was posted before, overtaken or purged (`PowerAgrees`) |
| `multi_told` | the airspeed with two values, by command and by itself, planes loaded, and unloaded with both switches on, outages, crashes, limit 2; 0.6 million states | what the panel is told of implements `Following` (`ThingsFollow`) |
| `heading_init` | loading a plane | finding: the heading's message turns into the course's |
| `switch_panel` | a light, the panel lights, the knob and the lever, also between positions; a plane with more engines than generators; 2.2 million states | `LightsFollow`, `GearLedAgrees`, `EnginesFollow`; lights, knob and lever implement `Following` (`ControlsFollow`) |
| `hid` | every variant, threshold 2, fairness | `NoSleepOnData`; reads implement `HidReports` (`ReadsReports`); `UnplugEndsRead`, `CloseReturns` |

Each property has a mutant in `PROJECT.json`: a plausible bug in the code it is
about, with which TLC finds it violated.

### Bounds

Limits are larger than the reports of their run or smaller than what follows,
so that a queue can be empty, full, and full between two posts; larger limits repeat these
cases. One panel has all pairs of threads that share state; two panels have both orders,
since panels share nothing but flags. Two dials give every pair of turns: same
dial other direction, other dial. A threshold of three passes through first, middle and
last counts. `PendingBound` caps `gMpAutothrottle_offPending`, which nothing decrements;
`QueueBound` caps `ijq`, whose real limit `PluginLifecycle` is about.

For the radio panel a limit of two already lets the loopback of a detent come before,
between and after X-Plane's two answers, and blocks each poster while another
goes on. Two frequencies three apart tell a local step from a change X-Plane makes,
both around the end of the word. A small word wraps in both directions. To keep the runs small, `SpecTuning` starts with
one active frequency, `SpecTwoEach` with the same two frequencies in each radio, and
both with the lower knob at neither.

For the display of the multi panel the ordering is in the runs with limit 2. There the queue holds a
message while the next one about the same thing is posted, or both are lost: `XPluginDisable` waits for
a callback to have posted all it owes and for one free place (X-Plane makes one call at a time), so that with limit 2 its purge
takes at most one message of the handlers besides the blank and what `FromPanelThread` posts late, and
`ToPanelThread` may have taken another. In `multi_power` X-Plane's switches stand in two ways when a plane is unloaded, so that either flag
goes off while the other goes on, and the messages of the next plane follow those of the last one. In `multi_told` the
two airspeeds tell an old message from a new one, and the power, the airspeed and the lamp of the autopilot, which stays armed, are
the things. With limit 1, in `multi_display`, the queue is empty when `XPluginDisable` begins, so
that no message of a handler is purged there: one is taken while the next one waits, lost for want of power, or passed over with the autopilot
off. Each readout has one value in that run (399 and -301 halves: neither whole nor a
multiple of what the handler rounds to, one negative), which makes every rounding do something, but does not tell an
old value from a new one; `multi_told` does, and `ReadoutsAgree` (section 4) does for any limit. `multi_display` starts with the autopilot off. `heading_init` takes
limit 2, for the rewritten message must wait in the queue.

The switch panel posts two to five messages per report to queues of two, so that
a report can block half way. The brightness has no steps (`Levels` 0), for no property is about it. The plane has four engines and two generators: knob
positions reach a part of the engines. Reports with the knob or the lever between
positions lie between those at positions.

For a device, `Threshold` 2 and four more reports fill the list to its longest
(`Threshold` + 2), where the code drops the first; `Sendable` bounds the reports, not what can happen to them.

### Fairness

Weak for each thread and for the main thread inside a callback: the
operating system runs what can run, and X-Plane finishes what it has begun.
Strong for a post of the main thread to a queue that is repeatedly full and not
full (a semaphore does not pass the same waiter over for ever), and for the flight loops, which X-Plane calls every
frame though other callbacks come between. No fairness on
`Input`, on commands or on the other callbacks: user and X-Plane owe none.

For the library: weak for its thread, for a reader that can go on, for the
notice of a removal and for timeouts; for the main thread inside `hid_close`. Strong for the
end of a transfer that is cancelled or whose device is gone: libusb does not report
timeouts of it for ever. None on the device, on calls of `hid_read`, or on closing.

## 4. What is proved

All theorems hold for every value of the constants that the named assumptions
of the modules allow: any panels and orders of going through them, any dials, thresholds,
limits, reports, frequencies and widths of a word. Each theorem that `PROJECT.json` lists states
a property that a run checks on a small instance. The invariants below were
first checked with TLC.

`PluginLifecycle_proofs` proves `TypeCorrect`, `NoSleeperWhenEnabled`, `DisabledParks`,
`AbsentSleeps` from `OrderAssumption`, `PostsAssumption` and `RoomAssumption`. None of the last three
invariants is inductive. `HandshakeInv` adds `Control` (which
places each callback can be in, and what plugin state goes with it), `Armed`
(while `XPluginEnable` is at panel `i`, the panels of `EnableOrder` before `i`
have their trigger posted, and whoever sets the flag finds all of them so),
`Parked` (the same for `XPluginDisable` resetting triggers) and `Closed` (`close_hid` has
passed the panels before `i`). That both orders reach every panel is where
`OrderAssumption` is needed.

`PluginShutdown_proofs` builds on it:

- `BlockedPostsServed`, from `Serving`: what X-Plane knows of the plugin goes with the
  callback in progress, and no thread is gone while threads are to run.
- `OneReportStays` and `EnabledClean`, from `LeftInv`: once `purge_queues` has been
  through a queue, it holds what was posted since, and that belongs to the one report
  `FromPanelThread` was in when the flag was cleared. `Leavings` counts the messages of a
  panel over both queues and what is still to be posted; `Bygone` says from where on.
- `ClosedUnused`, under `SleepOutlasts`, from `CloseInv`: when the pause of `XPluginStop` is
  over, each thread is gone, or blocked at a place (`Quiet`) that only the user, or the NULL handle, gets
  it out of. `Released`, `Halted` and `Forgotten` follow `XPluginStop` through the
  panels.

`MultiPanel_proofs` proves `PanelTypes`, `TurnsNeverMix`, `PendingSettled` and
`TenCountersAreOne`, that is `Spec => Detents!Spec`. The invariant `PanelInv` joins types,
one non-zero counter, and settled counts; under it `TurnOf` and
`CountOf` are determined by the counters, and a lemma says what they become when one counter
is set and all others reset. Then each action maps to a `Count`, a `Fire`, an `Other` or
a stutter. `PanelCommandsPass` follows from settled counts as well, and so does
`FlapsArePanels`, which needs the handler to be registered for both commands of the
flaps: its hypothesis.

`HidDevice_proofs` proves `TypesHold`, `NoWakeupLost` (from `WakeInv`: the thread ends only
after it set a flag or was told of a removal, and only variants with a thread have sleepers) and the
refinement `ReadsInOrder`, that is `Spec => Reports!Spec`, with the list and a completed pending read
(`BufInv`) as the reports that wait.

`SwitchPanel_proofs` proves `Types`, `LightsFollowPanel`, `EnginesFollowKnob` and
`GearLedsAgree`. For each control, `FollowInv` says: X-Plane follows it, or the last message about it, in
`ijq` or still to be posted, says where it is, or it was parted and the plugin is
disabled. `LedInv` does this for the LEDs, whose queue also has the urgent blank at its
head, and joins both queues: where the last screen is not the lever's, no command for the
gear is under way either.

`RadioPanel_proofs` proves `Types`, `ActivesAgree` (from `ToldInv`: the last value in `ojq` is
X-Plane's), `OffByOneStep` (from `DriftInv`: of two local turns in `ojq` an answer lies between, and
with no answer on its way the step is either still to be made or made already) and `LinesCurrent`
(from `LitInv`, about the report the thread keeps and the one it sent).

`MultiDisplay_proofs` proves `Types`, `PowersAgree`, `LampsAgree` and `ReadoutsAgree`. `Follows(x)` says
of a power flag, a lamp or a readout: something about it is still to be posted, or was lost (`stale`); or
of the messages about it in `ojq` no outdated one is the last, and if there is none, the one
that was taken is true, or the panel keeps and draws what is (`Kept`). The invariant needs the report as well as the LEDs, for `MP_UPDATE_LEDS`
changes the one and not the other. Messages in the queue go out of date with the next command, whose
answers come behind them: `Closed` of `SequenceFacts` carries that through posts, urgent
posts, gets and purges. `ReadoutsAgree` has a hypothesis, `Fits`: altitudes up to 99900 and other
values up to 9900, which stay at five and four digits when rounded up; a row drops the
digits before these. The instances are within it.

`ActivesAreFollowed`, `ControlsAreFollowed` and `ThingsAreFollowed` are refinements: each panel
implements `Following`. The invariants above say what holds when a message has arrived; `Following`
adds what a step may do. The mapping gives each thing a phase. It is "owed" while a post about it
is still to be made (`answers`, `outbox`), "coming" while a message about it is in the
queue or taken, "lost" where `stale` has it, and "there" otherwise:

| module | things | owed by | what agrees |
|---|---|---|---|
| `RadioPanel` | active frequencies | the main thread | the copy kept is X-Plane's |
| `SwitchPanel` | lights, knob, lever | `FromPanelThread` | X-Plane has the control as it is on the panel; all engines, for the knob |
| `MultiDisplay` | power flags, AP, NAV, IAS, readouts but heading and course | the main thread | the panel keeps and draws what X-Plane has |

A step may make any thing owed or lost. Otherwise an owed thing stays so until a message about
it is sent, and a sent one is coming until it is read; nothing goes from "lost" to "coming" or "there",
nor from "owed" to "there". `EdgeNext` proves this for one thing, from lemmas that say which steps
put into a queue, or take out, what it holds of the thing (`OwedNext`, `ComingNext`, `SentNext`,
`PostSends`, `RewriteSends`, `OtherSends`): a post removes one entry from what is owed and adds its
message in the same step. A thing that is "there" agrees by `ToldInv`, `FollowInv` and `ToldFollow`,
which are the invariants described above in terms of the phases. A stale control of the switch panel is
not lost while a command about it comes to an enabled plugin, for that command was posted later.
`ThingsAreFollowed` has the hypothesis `Fits`, for the readouts.

Heading and course cannot be among the things: the message of the one turns into that of the
other, which `Following` does not allow (finding `heading_init`). Nor can the standby frequencies: the
display steps that of COM1 by itself, and COM2's gets the active one (section 5).

Only model-checked: liveness (`MainReturns`, `QueuesRelieved`, `StopEndsThreads`,
`UnplugEndsRead`, `CloseReturns`), which is out of the prover's reach, as is ENABLED.

## 5. Findings

- `commands_end`: `MultiPanelCommandHandler` ignores the phase. One pending
  count lets the Begin of a flaps command pass; for its End the count is zero and
  the handler eats it.
- `heading_init`: `mp_do_init` allocates a buffer for the CRS value and writes to the one
  it has posted with the HDG value. Unless the thread has read it by then, the
  panel gets the course twice and the heading never, and the buffer is freed twice.

Four more things the models show; the definitions remain in their modules and give
a counterexample when added to a configuration, where there is one to add:

- `MultiPanelFlightLoopCallback` passes `&gMpAltHoldCmdRef` to `XPLMCommandOnce`, all others
  pass the reference: the ALT button executes nothing (`ButtonsExecute` with `commands_end`).
- `rp_processing` of `FromPanelThread` posts a detent to X-Plane first
  and to the display second. If X-Plane answers in between, the local step is added to
  the frequency X-Plane has tuned already, and the standby field stays one off until
  the next answer that differs (`Com1StandbyShown` with `radio_tuning`).
- `RP_COM2_VAL_MSG` falls through into `RP_COM2_STDBY_VAL_MSG`: after a flip
  both fields of COM2 show the active frequency (`Com2StandbyShown` with `radio_display`).
- Read off the models, and nothing in the repository says otherwise: a coarse
  detent up counts in the counter of the fine ones (`Counter`); lines that `XPluginDisable`
  blanked stay dark after `XPluginEnable` until a frequency changes or a knob moves; a local step of
  COM1 is drawn on the upper line only, so `LitLinesCurrent` is about the upper line for COM1;
  the buttons APR and REV toggle their light twice per command, and VS lights ALT's, so that
  `ButtonsAgree` is about AP, NAV and IAS; each report with the panel lights on dims them
  another step; `sp_processing` sets the message of seven switches, from battery to cowl flaps, and posts
  none before the next one sets it again, so that of these only the panel lights, last of
  the eight, reach X-Plane (`Posted`).

An absent panel's queue is filled by command handlers and never emptied; after
5000 messages the main thread blocks. The model shows it when
`BlockedPostHasConsumer` is stated of absent panels; it stays a hazard, as
no line of the repository promises otherwise.

## 6. Not modelled, and why

- Code that cannot be translated: ptypes and the X-Plane SDK are headers of libraries whose source is
  not in the repository. They make up a third of its lines, and are modelled only as
  they are used. So is most of what hidapi does that is not reading: enumeration, strings, feature reports,
  parsing of report descriptors, and error messages are calls into the system with no state of
  their own. Panels do not number their reports, and writing (`hid_write`) keeps nothing.
- Code that is no part of the running plugin: the check thread (compiled out), `test/` and
  `hidtest/` (stubs and a sample program), the entry point for Windows, the allocator, logging.
- Branches nothing reaches: messages that are posted nowhere (`SYS_TIC_MSG`, `MP_ZERO_SCRN_MSG`,
  the UP and DN command messages of the multi panel in `ToPanelThread`), `bcd2dec`, `to_bytes`.
- Look-ups of references (`*_refs.cpp`): one call per name, no state; only how often a handler
  is registered matters (`Registered`). The initialising blank reports: one write.
- Outcomes of undefined behaviour beyond the first step: after `mp_do_init` the freed buffer is read as its old
  value or ignored; that the heap may be damaged is not modelled.
- HID: a barrier of `mac/hid.c` that returns though not all have arrived (it waits on a condition without a
  loop); a reader that still sleeps when `hid_close` frees the device, where `HidDevice` stops; that
  closing one device on Mac OS unregisters the removal callback for all; the loop of `FromPanelThread`
  after a read error, which spins without harm to the state (`Input` of `PluginLifecycle` includes errors);
  a workaround for old Linux kernels.
- Whether the 500 ms in `XPluginStop` outlast the threads is an assumption (`SleepOutlasts`), since
  TLA+ without clocks cannot say.

What could be next: the three panels on the threads of `PluginLifecycle` in one module, with
`XPluginStop`; and an abstract session (enabled, disabled, stopped) that `PluginLifecycle` implements.
