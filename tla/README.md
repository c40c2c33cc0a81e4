# TLA+ model of the ESP32-S3-Touch-LCD-3.5 firmware

The firmware runs on a Waveshare ESP32-S3 board: a 3.5" panel with a touch
controller, an IMU, a power-management chip, a battery-backed clock, a backlight
and Wi-Fi. This directory specifies what its tasks do, model-checks the
specifications with TLC and proves theorems about them with TLAPS. Paths below
are relative to the crate (`src/sensors.rs` and so on); `PROJECT.json` maps every
definition to the lines it stands for.

## 1. The system

All tasks but one run on the single thread-mode executor: `heartbeat`,
`sensor_hub_task`, the network tasks and the UI loop in `main`. Only `flush_task`
runs on an interrupt executor. The tasks never call one another. They share
atomics (`sensors.rs:22-67`, `touch.rs:9-16`, `wifi.rs:24-31`) and nothing else,
so the code between two awaits is atomic with respect to all other tasks of the
thread executor. The hub's loop body (`sensors.rs:186-244`) has no await, so one
hub tick is one step.

| Component | State | Operations | Talks to |
|---|---|---|---|
| Failure tracker (`Health`) | `ok`, `failures` (u8) | `new`, `check` | one per I2C device, in the hub |
| Touch polling | tracker, `was_down`, `TOUCH_STATE`, `TOUCH_XY` | read every tick | LVGL, Play tab |
| IMU polling | tracker, `IMU_STATE`, `IMU_SEQ`, sample cells | bring-up (one await), read every 7th tick | IMU tab |
| PMU polling | tracker, `PMU_FLAGS`, `BAT_MV`, `BAT_PERCENT` | status, voltage and gauge every 67th tick | Home, System tabs |
| RTC | tracker, `RTC_DATE`, `RTC_HMS`, the device on its backup cell | poll, set, re-read | Home tab, SNTP |
| Backlight | `BACKLIGHT_PCT`, the tab's and the hub's caches, PWM duty | apply on change | System tab |
| Sensor hub | `tick` (u32), all of the above | bring-up, ticker loop of 15 ms | owns the I2C bus |
| Wi-Fi station | `WIFI_STATE`, `WIFI_IP`, three tasks | associate, retry, follow DHCP | Home tab |
| SNTP client | position in its loop, `RTC_SET_EPOCH` | wait, attempt, sleep | hub, by `RTC_SET_EPOCH` |
| UI tabs | labels and the values they were rendered from (`last_*`) | `create`, `update`, click callback | read the cells; the slider writes one |
| View (`DemoView`) | active tab, 1 Hz trigger | fan one pass out to the four tabs | LVGL |
| Display and flush | drawing window, panel memory, stripe handed over | `init`, `show_raw_data`, `flush_task` on the interrupt executor | oxivgl |
| Boot | expander shadows, the expander's registers | reset pulse, panel init, spawn order | expander, panel |
| lcd-test | rows pushed | the same boot, one window, bars row by row | panel |
| Other diagnostics binaries | none shared | print | - |

What is hard here: any of several bus operations of a poll may be refused; a
device is given up in the middle of a gesture or of a set command; a command is
taken before it is known to have worked; readers compare caches with counters
that wrap, and some skip updates while hidden; the two network tasks notice a
loss independently; replies are lost, doubled, late or foreign; the clock, the
expander and the panel outlive resets of the processor; a write to the panel may
break off anywhere; LVGL spins on the thread executor until a task on the other
one has acknowledged.

What makes each component correct:

* tracker: never used beyond its budget, gives up for good;
* touch: both cells and the edge state agree, only a real lift releases, and a
  lift is seen in the end;
* IMU: never announced before it is configured or after it is given up; each
  sample plotted once; conversions monotone and in range;
* PMU: no reading of a battery that is not there; given up after five failed polls, or
  how far from that;
* RTC: a time shown as valid was really set; a clean set is what is shown; the
  calendar agrees with the device's; in the end the clock is valid;
* backlight: the knob reaches the panel;
* hub: what is given up is frozen; waits are bounded, the counter's wrap included; slow
  polls are apart, whichever comes first;
* Wi-Fi: the published address is the lease; a network is joined again, a lost
  one is reported;
* SNTP: success means a command was left; it syncs again and again; a late answer
  does not shift those that follow;
* UI: every visible field is exact after a pass, whatever was skipped while it was
  hidden; the 1 Hz figures go on;
* boot: the panel is initialised only out of a reset, other pins are left alone;
* display: pixels land where they were rendered for, and a refused write costs its
  own stripe only; render loop and `flush_task` never wait for each other.

## 2. Modules

| Module | What it models | How it corresponds |
|---|---|---|
| `Health` | `Health` (`sensors.rs:93-125`) | `Check` is `check` on a result; operators only |
| `TouchPoll` | touch part of a tick, `ft6336.rs`, `touch.rs` | one action per outcome of a read: refused (either transaction), a point, no finger, given up |
| `ImuPoll` | `init_imu`, `configure`, the IMU part of a tick | `ImuResetSent` and `ImuConfigure` are the two sides of the bring-up's await |
| `ImuScale` | `accel_mg`, `gyro_mdps`, both axes of the bubble of the IMU tab | i32 wrap of the product included; `dx` negated, `dy` not, as in `imu.rs:188-189` |
| `PmuPoll`, `PmuStreak` | `poll_pmu`, `axp2101.rs` | one action per path through the three bus operations; `PmuStreak` counts failed polls up to the limit |
| `RtcPoll` | RTC part of a tick, `poll_rtc`, `set_rtc`, the device | `HubRtc` is the whole of `sensors.rs:225-243`; the three flags say which bus operation would be answered |
| `CivilDate` | `datetime_from_epoch`, BCD, the device's carries | the device counts on by its own BCD rules, an independent reference for the conversion |
| `Backlight` | slider, `SystemTab::update`, apply | three caches of one number |
| `Cadence`, `CadenceWalk` | which device is due on which tick | operators; the tick walked over its range |
| `SensorHub` | `sensor_hub_task` | conjoins one step of each device module per tick; the rest are steps between ticks |
| `Availability` | abstract: a device is given up at most once, and is then frozen | `SensorHub` implements it, with the live devices and the published cells as refinement mapping |
| `Wifi` | `connection_task`, `ip_task`, Home tab label | one action per await that completes; driver, access point, stack external |
| `Sntp` | `sntp_task`, `sync_once` | one action per await that completes, one per exit of an attempt |
| `SetCommand` | `RTC_SET_EPOCH` | the one cell `RtcPoll` and `Sntp` share |
| `TimeSync` | SNTP client, hub and clock | extends `RtcPoll` and `Sntp`; a hub tick is `HubRtc` |
| `UiMod` | the Wi-Fi cells, `wifi_text`, a label that follows a cell | `Diff` is the "if changed, rewrite" all tabs use |
| `HomeTab` | `home.rs` | four labels followed on every pass, the uptime on the visible tab's 1 Hz pass |
| `ImuTab` | `imu.rs` and the three early returns of its `update` | extends `ImuPoll`; `chart` counts points |
| `PlayTab` | `play.rs` | the click callback, three widgets and the touch sample, followed while visible (the taps always) |
| `SystemTab` | `system.rs` | `Backlight`'s slider and the statistics table |
| `View` | `DemoView::create` and `update` (`ui/mod.rs`) over the whole hub | LVGL's part of a loop (`LvglHandles`) and the update are two steps, hub ticks and network tasks fall between |
| `Mirror` | abstract: a pass makes every visible copy exact and touches nothing else | `View` implements it |
| `Tca9554` | `tca9554.rs` and the chip | shadows against registers, as sets of one bits |
| `St7796` | `display.rs` and the controller | window, cursor and pixel stream; a pixel is where it was rendered for and a colour |
| `Panel` | boot sequence of `main.rs`, render loop, `flush_task`, `lcd-test.rs` | extends both; a panic is a position, a reset may come at any time |
| `MC*` | TLC instances | constants, and for `MCSensorHub`, `MCView`, `MCTimeSync` what is exercised |
| `HealthFacts`, `DeviceProofs`, `HubProofs`, `NetProofs`, `TimeSyncProofs`, `ViewProofs`, `PanelProofs`, `ArithmeticProofs` | theorems | section 5 |

Composition: `SensorHub` extends the five device modules; `View` extends `SensorHub`
and the four tabs; `TimeSync` extends `RtcPoll` and `Sntp`; `Panel` extends
`Tca9554` and `St7796`. `Availability` and `Mirror` are the abstract
specifications.

Operators named "Mutant of X" in a comment are plausible bugs in X, kept beside
it. No specification uses them. Replacing X by one of them makes the property
that guards against it fail.

Abstractions worth knowing: a converted IMU sample is a model value, as
conversion is `ImuScale`'s subject; moments of the clock are small naturals
counting round, and calendar arithmetic is `CivilDate`'s subject (in `HomeTab` a
day has `DayLength` seconds); the battery voltage is a value that is never
compared; a packed cell is the record it packs; a label's text is the value it
was made from. An NTP timestamp counts modulo `NtpWrap` from `NtpToY2k` before 2000,
as the 32-bit seconds do; a datagram is such a timestamp or the check that refuses
it. LVGL makes at most one gesture of a pass. A set of one bits is a register.

`IMU_SEQ`, `TAPS` and `tick` wrap in the models as in the code. `chip_good`,
`failed_polls`, `stale` and `fresh`, `unseen`, `frame` and `lost` are ghosts: no
guard of the code's actions reads them, except that the bound `MaxUnseen` (`ImuTab`)
is a guard on a ghost.

What code outside the crate is taken to do: oxivgl waits for the acknowledgement of a
stripe before it hands over the next, and acknowledges it also after an error; the
areas LVGL hands over lie on the panel and come with all their pixels; LVGL's timer
triggers at most once per pass; the board pulls up an expander pin that is an input;
the panel's soft reset opens the window and leaves its memory undefined.

## 3. Runs

| Run | Question | Bounds |
|---|---|---|
| `hub` | Does the composed hub keep every device's cells coherent, implement `Availability`, see lifts, and bring the knob's value to the panel? | failure limit 5, as in the code; three points; all 16 charger statuses; gauge 0 and 127; tick modulo 5 with periods 1 and 2 |
| `rtc_atomic` (violation) | Does a set "atomically" validate the clock? | moments 0..3, bursts may tear |
| `pmu_streak` (violation) | Is the PMU given up by the fifth failed poll in a row, and by no other? | one voltage, one charge |
| `battery_unknown` (violation) | Does an unknown percentage mean that no battery is attached? | one voltage, one charge |
| `arithmetic` | How late can a device be, how close can the slow polls come, either way round; does the calendar hold over a set and what follows; is the tilt shown honest on both axes; how early can the PMU be given up? | periods 7 and 67, phase 33, wrap 837; every day 2000-2099, three seconds before 10:00, 20:00 and midnight, five readings; all 65536 counts; failure limit 5, a status with a battery and one without |
| `gyro_scale` (violation) | Is the gyro rate what its comment says? | all counts |
| `view` | Are the tabs faithful copies of the cells, is every sample plotted once, do readouts and 1 Hz figures go on? | two points, two samples, counter modulo 3, tick modulo 3, three charger statuses, moments 0..2, three taps, knobs and options, uptime modulo 2, failure limit 3 |
| `wifi` | Are joins, losses and leases reported? | two addresses |
| `wifi_renewed` (violation) | Does the address track DHCP across a renewal? | two addresses |
| `time_sync` | Does success leave a command, do syncs go on with fresh answers, does the clock become valid in the end, is a clean set shown? | moments 0..2, server times 0..3, NTP counts modulo 5 from 1 before 2000, two datagrams on the wire and two in the socket, failure limit 3, torn writes |
| `sntp_era` (violation) | Does the client go on for ever? | server times 0..5, NTP counts modulo 8 from 3 before 2000, one datagram |
| `panel` | Is the panel reset before it is initialised, do drawings land, does every pass end? | two by two pixels, four areas (whole, row, column, pixel), two colours, up to two stripes a pass, two bars, two pins |

Why these bounds are enough.

* `hub`. The devices share nothing but the tick, so `MCSensorHub` exercises them
  in turn ("focus"): the others are unfitted or left alone while the hub still
  takes its whole tick. The focus sets are the five devices and panel and IMU
  together; `HubProofs` covers all combinations for every constant. Tick modulo 5
  is odd, so the cadence slips at the wrap as it does in the code. Three points
  tell a drag from a stale point. The gauge value 127 meets the clamp. Refused
  set bursts write nothing in this run; `time_sync` lets them tear.
* `arithmetic`. 2^32 leaves 4 modulo 7 and 33 modulo 67; 837 is a small number with both
  residues, twelve slow periods long, so the slip at the wrap is the real one. The wrap
  makes the clock wait 33 ticks (`RTC_PHASE`) longer than its period, once in two years;
  `WaitsAreBounded` allows that in the ticks after a wrap and nowhere else. The PMU is
  due on the wrap itself, and its distance from the clock's last poll is the usual one
  or more because the residue 33 does not exceed `RTC_PHASE`; with another phase or
  counter width it could come right after the clock, and `Staggered` would show it. The
  date depends on the day only and the time on the second of the day only; the seconds
  chosen run over both tens carries of the hours and over midnight. The streak of failed
  polls needs every outcome of a poll, and nothing of the values read. The four walks
  share nothing, so `MCSweeps` takes one per behaviour.
* `hub` starts the clock in every state a boot can find it in, the time set before and the
  OS flag kept or lost. That covers resets between two bursts; a burst cut short by the
  reset itself would leave what `rtc_atomic` shows for one cut short by the bus.
* `view`. A field depends on its own cells only, so `MCView` moves one group of sources
  per behaviour (clock, battery, IMU, touch, Play widgets, backlight, 1 Hz and Wi-Fi) and
  switches between the tab concerned and another; `ViewProofs` covers all of them
  together, for every constant. The counters wrap after three. Cells that
  change and change back while hidden take two values. One sample between two UI
  updates is the regular case (a sample is due every 105 ms, and a pass of the UI loop
  blocks the executor for tens of ms, `main.rs:137-140`); after a stall of the executor
  the ticker catches up and samples are lost to the chart, which is the bound's meaning.
* `time_sync`. `MCTimeSync` has two focuses. With the client in focus no clock answers,
  the hub only takes the commands, and the network may delay, double, lose and forge
  datagrams: two on the wire and two in the socket are the fewest for which a leftover
  could be passed on from attempt to attempt. With the clock in focus the network
  loses and delays only. Server times 0..3 against commands 1..2 meet both ends of the
  clamp; timestamp 0 lies before 2000. The failure limit of 3 is the smallest
  the hub's argument allows (section 5) and leaves devices that survive and devices
  that do not.
* `panel`. Every kind of rectangle, adjacent and overlapping, exists on two by two
  pixels: a window with exclusive ends, a stream that goes on into the next
  stripe and a row that starts at the wrong place all show. Two stripes a pass are the
  fewest for which the second waits for the first. `PanelProofs` holds for every size.

What TLC shows in the passing runs is that the properties hold on these
instances. Deadlock is checked wherever the system goes on for ever; it is
switched off for `arithmetic`, `gyro_scale` (sweeps that end), `pmu_streak` and
`battery_unknown` (a PMU that is given up).

### Fairness

* Hub tick (`hub`, `view`, `time_sync`): the ticker fires every 15 ms whatever else
  happens, and a woken task is polled. In `hub` and `view` also the bring-up, which
  has no unbounded wait.
* UI (`hub`, `view`, `wifi`): `main` calls `run_app` last, and its loop never returns;
  each turn LVGL handles its timers and then `DemoView::update` runs. That the 1 Hz
  timer keeps triggering is a condition of `StatsAreLive`, not assumed.
* IMU reads: `ReadoutIsLive` is conditional on `imu.ok`. A device that only refuses is
  given up, so one that stays answers again and again.
* Render loop and `flush_task` (`panel`): the loop never returns, and a stripe handed over
  wakes the task on its own executor. `UiPassEnds` is conditional on the firmware
  running, that is, on no more resets.
* `connection_task`, `ip_task`, `sntp_task`: their timers fire and a woken task
  is polled. The radio driver answers a connect and reports a lost link; the
  stack drops its configuration when the link is down.
* Nothing is assumed of the access point, the servers, the wire, the user or the bus.
  Liveness of the network parts is conditional: "if the network comes back for good"
  (`<>[]ap`), "if it stays calm" (`<>[]calm`: the configuration comes
  up, an owed answer is delivered, no bus operation is refused).

No strong fairness is used.

## 4. What was found

Each has a run whose property quotes the text it contradicts.

1. `gyro_scale`: `raw * 512_000` in i32 (`qmi8658.rs:55`) overflows from a count
   of 4195, about 65 degrees per second, of a range said to be 512. The release
   build shows wrong rates, a debug build panics. Below that the rate is exact
   (`SlowTurnsAreExact`).
2. `wifi_renewed`: `ip_task` waits for the configuration to go down
   (`wifi.rs:159`), so a renewal that changes the address is not seen. The
   property holds for every lease that keeps its address (`LeaseIsPublished`,
   proved).
3. `rtc_atomic`: the burst that sets the clock begins with the seconds register,
   whose OS bit it clears (`pcf85063.rs:74-85`). Refused later, it leaves a valid
   looking clock that was never set. If a refused burst writes nothing, the
   time shown is trustworthy (`TrustedTime`, proved).
4. `pmu_streak`: a device that "fails 5 polls in a row is marked absent"
   (`sensors.rs:10-11`). The tracker counts bus operations, not polls, so for the PMU neither
   half holds. One poll can fail two of them (`:292`, `:295`), and four failed polls can
   suffice, which the run's trace shows. And a status read that works forgives everything
   before it, so polls that fail in the voltage or the gauge may follow one another for ever
   and the PMU is never marked absent (`FailedPollsMayGoOn`, proved). What holds is that
   it is given up one failed poll early at most (`AbsentOnePollEarlyAtMost`, proved).
5. `battery_unknown`: `BAT_PERCENT` is documented as unknown when no battery is
   attached (`sensors.rs:44`). Only a good read of the gauge is stored (`:295`), so after a
   refused first read the percentage stays unknown next to flags and a voltage
   that report a battery, and the Home tab says "no battery" (`home.rs:162-169`).
6. `sntp_era`: the 32-bit seconds of NTP wrap in February 2036. From then on every right
   answer is refused as before 2000 (`sntp.rs:107-109`), and the task that "keeps the
   RTC synced" (`:33`) never syncs again. The clock itself counts to 2099.

Seen while reading, and not a contradiction of any text: a device given up
keeps its last cells, a pressed pointer, `PMU_OK` or a valid time included
(that is what `Availability` says); a set command is swapped out before its
write is known to have worked, and after a refused write the next one is a day
away (`ClockBecomesValid` says it arrives); a late answer to an attempt given up is
accepted by the next one, up to a retry interval old, as the request's timestamp is
not compared (`StaleTimeIsReplaced` says it does not last); the IMU tab notes an
absent device once, so an update before the end of the bring-up uses the note up.
`play.rs:112` says that everything below it can only change while the tab is visible; the
touch cell can change behind it, and the pass after a return catches it up, which
`ImplementsMirror` shows.

## 5. Proofs

All theorems hold for every value of the constants. They assume what the modules
assume of them: points, samples and addresses are any sets with the named
defaults in or out of them; the failure limit is a natural above two; periods are
positive and the phase lies inside the period (`SlowPollsAreStaggered` also takes
`WrapBeforePhase`: the counter wraps no further into a slow period than the phase, which 2^32,
67 and 33 meet with equality, and without which it is false); the slider's range starts at or above
the lowest duty; the panel has at least one pixel, and areas lie on it. Every property
of a passing run is stated by a theorem. `ChartIsContinuous` has a hypothesis of its own,
`OneUnseen`: the UI loop runs at least once per IMU read. The liveness theorems have more,
listed below.

`HealthFacts` states what folding one result, or the three of a PMU poll, does to
a tracker within its budget. `CheckAfterSuccess` is where the limit must exceed
two: a status read forgives everything, and the two failures that may follow
must stay below it. That is also why polls may fail for ever (`FailedPollsMayGoOn`).

`DeviceProofs` has one section per device with an inductive invariant:

| Device | Invariant | Why the strengthening |
|---|---|---|
| touch | types, budget, `TouchCoherent` | `failures` stays in its type only because a given-up tracker is never asked again: the budget is needed for the type |
| IMU | types, budget, `StateTracksHealth` | the same |
| PMU | types, budget, `NoBatterySentinels` | the same; the lemma `FlagsAreGated` ties the battery flag to the status |
| RTC | types, budget, and, unless bursts tear, `ClearFlagMeansGood` and `TrustedTime` | a valid reading is only as good as the flag it was taken from, so the device's flag has to be tied to the ghost of a whole set |
| backlight | types, `last_bl = BACKLIGHT_PCT`, duty follows the hub's cache | `SettledMeansApplied` speaks only of settled states; the steps through unsettled ones need the two halves |

Two action properties follow from these: `ReleaseNeedsLift` by cases on the
actions, `CleanSetIsShown` because a refused set and a refused re-read each leave
a failure in the tracker.

`HubProofs` conjoins these invariants for `SensorHub`. A tick is a conjunction of
device steps, so each device's step lemma applies as it is. It proves types, budgets
(hence no u8 counter ever overflows), the devices' invariants in the
composition, and `HubImplementsAvailability`: one lemma per device says that once
given up it stays so and its cells do not change, and the refinement mapping turns
these into a step of `Availability`. The IMU's case needs `StateTracksHealth`,
since the hub stores 0 in `IMU_STATE` on every tick of an absent device and this must
be a stutter.

`NetProofs` proves `LeaseIsPublished`, strengthened by "while `ip_task` waits for a
lease no address is published", and `SuccessQueuesCommand`, from the lemma that the clamp
never yields 0.

`TimeSyncProofs` composes. `RtcPoll` was specified with a client that may post any
command at any time, `Sntp` with a hub that may take the command at any time.
`ClientKeepsItsSpec` and `ClockKeepsItsSpec` show that the composition is a behaviour of
both: a hub tick is `Consumed` to the client, and a success is `PostEpoch` to the clock,
which takes the client's type invariant, since 0 would be no command.
`TimeOfDayEndToEnd` then follows from the two components' theorems.

`ViewProofs` does the same for the UI. `ViewImplementsHub` shows every step of `View`
to be a step of `SensorHub` or to leave it alone, so the hub's theorems hold of the whole.
`ViewImplementsMirror` rests on an invariant about the caches: if a label's cached value
equals its source, the text is the source's text (`HomeCaches`, `PlayCaches`).
That is what makes "skip if unchanged" right, and it is not obvious where cache and label start
out different: the slider's cache 0 under a knob at 30, the date 0 under an empty
label. `PlotInv` says that chart, cache and `IMU_SEQ` lag one another by what was not
seen; it needs `OneUnseen`.

`PanelProofs` has two invariants. `BootInv` says for each position of the boot
what shadows and registers hold, and that the panel is in reset from the low pulse to
its first command; a refused write leads to a panic, from which only a reset leads back, so
the uncertain register is never relied upon. `DrawInv` says which program draws, what
it has handed over, and that lcd-test's window stays open. Under `StripesLand` lie
lemmas on division with remainder: the cursor goes through an area in the order it was
rendered in (`CursorFollows`), reaches every place once, and stays inside
however early a stream breaks off.

`ArithmeticProofs`: `WaitsAreBounded` and `Staggered` from `WaitsByTick`, which gives each
device's wait as a function of the tick and lets the wrap at any width through, by a
lemma on what a remainder does when the dividend grows by one; `WaitAtWrap` is where the
clock stands when the counter wraps. `StreakInv` says that the tracker has counted at most
one failure more than there were failed polls, as a poll's status read wipes
the slate before two more can fail. The three facts about the
IMU hold over any range of counts that obeys the module's assumption. `CalendarKept`
says that whatever moment up to 2099-12-30 is set, what is read during the next day is that
moment moved on. `CalendarInv` is the equation of the registers with the conversion, and that
at most one midnight passes after the last day, so the device's two digits of the
year never run out. A step needs two facts: the conversion of the day after is the
next date by month lengths and leap years (`DateFollows`, over years that begin in
March, where the leap day comes last), and the BCD carries compute that same next
date (`DeviceTomorrow`). `ReadSet`, that a read undoes a set, gives the property.

The modules that are proved about use no recursion. They are combined with EXTENDS
and not INSTANCE, so that the step lemmas of a part are facts about the very variables
of the whole.

### Liveness

The eleven liveness properties are proved as `Spec /\ []XCanStep => Property`, where `Spec`
states the fairness of section 3 (`FairSpec` and `FairViewSpec` state that of the `hub` and
`view` runs). Each proof names a few state predicates that a behaviour passes through, shows
of every step which of them it keeps, leaves and reaches, and leaves the rest to temporal
logic: a state whose every step stays or moves on, and which enables a fair step that moves
on, ends.

tlapm does not reason about ENABLED, hence the hypothesis. `WifiCanStep`, `HubCanStep`,
`ViewCanStep`, `SyncCanStep` and `PanelCanStep` say that the guards named there enable the
actions that are fair, and nothing else. Each is an invariant: the actions' remaining
conjuncts only pick next values out of sets that are not empty. TLC evaluates ENABLED, and
finds all five true in every reachable state of the instances of the runs (a module that
extends the MC module and the proof module, with the predicate as an INVARIANT).

| Theorem | Argument | Further hypotheses |
|---|---|---|
| `NetworkIsJoined` | `AssocInv`: what `WIFI_STATE`, the driver's answer and the link are at each wait of `connection_task`; with the access point back, every refusal leads through the pause to another connect | none |
| `LeaseReachesTheTab`, `LossReachesTheTab` | `IpInv` and `LabelInv`: an address is published exactly while `ip_task` waits for its loss, and a label whose cache equals the cells shows them; stack, `ip_task`, cells and label settle one after another | none |
| `KnobReachesThePanel` | `BringUpEnds`; then tab, hub's cache and duty take the value in turn and each keeps it | none |
| `LiftReachesTheCells` | every poll reads the lift or adds a failure, so the failures count up to the limit | `MaxFailures <= 5`, the code's |
| `ReadoutsKeepComing` | `ReadoutInv` (hub, tab and plot invariants): the tick's phase goes round, each read is a sample or a failure, and a sample waits for the update | `OneUnseen`; `ImuEvery = 7` and `MaxFailures <= 5`, the code's |
| `FiguresKeepUp` | `TriggerInv`: a trigger waits for the update that follows its own LVGL pass, so each second is taken before the next | `SecondWrap <= 4` |
| `PassesEnd` | `StripesLeft(n)`: a stripe is handed over, acknowledged, and one fewer is left | `MaxStripes <= 12`, the stripes of a full refresh (`display.rs:23`); `Dirty # {}` |
| `ClientKeepsSyncing`, `StaleTimesEnd` | `Idle`, `WireInv` and `Clean`: in a calm network the leftovers of earlier attempts are drained (`CleanForGood`), a clean attempt ends in a sync with its own answer (`CleanAttempts`, `AttemptsEnd`), a sleep ends (`SleepsEnd`) | `EraHolds`; `MaxWire <= 4` |
| `ClockIsSetForGood` | a sync leaves a command, the hub takes it, and on a bus that refuses nothing the set and the re-read make the reading valid | the same |

Three of the hypotheses are the code's own constants. `EraHolds` says that the servers' times
stay below the wrap of the timestamp; it cannot go, as finding 6 shows the property false
without it. `MaxWire` and `SecondWrap` are bounds of the model: temporal logic needs
one predicate per number of datagrams or per second told apart, and induction over a
number that is a parameter is out of the prover's reach.

Only model-checked, then: the five facts about ENABLED. The `expect: violation` runs are
counterexamples and have no theorems.

## 6. Not modelled

* The scan-only build of `wifi.rs`, which publishes nothing, and `effective_password`,
  which picks a constant.
* The parsing of the timezone offset, once at the start of `sntp_task`; an offset that does
  not parse is 0, and `TzSeconds` may be any integer.
* `i2c-scan`, `sensor-test`, `touch-test`: linear programs that read a device and print.
  `heartbeat` only logs; `read_inputs` of the expander and `vbus_mv` of the PMU have no
  caller in the firmware.
* The heap rows of the statistics table, colours, formatting and layout.
* A UI loop slower than the IMU's reads (section 3, `view`).
* Build configuration, and the printer plan in `docs/`, which describes code that is not
  in the repository.

## 7. Plan

Done: the failure tracker and the devices, the hub as their composition and its
refinement of `Availability`; the Wi-Fi tasks; the SNTP client with era and leftovers,
its composition with the clock; calendar, conversions and cadence; the four tabs, the
view and its refinement of `Mirror`; boot, expander, panel and `flush_task`; proofs
of the safety properties of all of these, and of their liveness properties under the
hypotheses of section 5.

Left, most useful first:

1. Wi-Fi tasks, SNTP client and view in one composition: `View` takes the Wi-Fi cells as
   written by anybody; `Wifi` has a Home label of its own.
2. A bound on the age of an answer taken, with time in the model: that a stale answer
   is at most a retry interval old is argued in section 4, not checked.
3. Liveness for any `MaxWire` and `SecondWrap`, and the liveness of the hub inside `View`
   (`LiftIsSeen`, `KnobIsHonest` of the whole) from `ViewImplementsHub`.
