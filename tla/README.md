# Garage fan controller: TLA+ models and proofs

Models of a garage exhaust fan's two programs: the **web console**, a TypeScript
page that mirrors the device, reads its history, edits its settings and updates
it, and the **firmware** of the ESP32-S2 that drives the fan. TLC checks them on
small instances; TLAPS proves the core of both for every value of the constants.
`PROJECT.json` lists the components, the runs, the wrong variants each property
refutes, the source lines each definition translates, the hazards, the
disagreement a run shows and the theorems. Console paths below are relative to
`web/src`, firmware paths to `firmware/arduino/src`, unless they start with
another directory of the repository.

## The system

### The console

One page, one event loop: no two handlers run at once. What is hard is everything
that lies between two handlers. An answer is for a question of a while ago, three
sources tell of the device in no order among them, a person taps and types while
the page repaints itself, the rows under a pinned moment are replaced every
minute, and the device restarts in the middle of the request that asked it to.

| part | state it keeps | operations | talks to |
|---|---|---|---|
| contact (`app.ts`, `api.ts`, `console.ts`) | the newest frame, time of the last word, offline verdict, failed polls, event stream with its failures | `boot`, `poll` every 15 s, `subscribe`, `command`, `paint` | device; every other part is repainted by `paint` |
| history (`app.ts`, `series.ts`, `state.ts`) | chosen range, sequence number of the newest load, rows | `setRange`, `refreshClimate`, `loadHistory` | device, crosshair |
| crosshair and pin (`scrub.ts`, `past.ts`, `history_view.ts`) | row under the pointer, pinned moment, frozen sentence | hover, touch scrub, click, `backToNow`, `settleScrub` | plots, hero, rail, title |
| speed rail (`rail.ts`) | block under the finger, drag, the click to swallow | press, sweep, release, click | contact (`command`), hero |
| settings cards (`settings.ts`, `settings_auto.ts`) | rows built from a frame | `paintSettings`, steppers | contact |
| connection form (`provision.ts`) | inputs, the touched ones | fill, type, save | device |
| release check (`update.ts`, `version.ts`) | a verdict, once per page | `runUpdateCheck`, "Check again" | release feed, settings row |
| install and upload (`updater.ts`, `ota.ts`) | one job; the offered release | download, verify, send, watch, `judgeReboot`, manual upload | update channel, device |
| plots (`charts.ts`, `chart_rows.ts`, `time_axis.ts`, `limit_lines.ts`, `ticks.ts`) | nothing: a function of the rows | draw | history |
| words (`headline.ts`, `reason.ts`, `gauge.ts`) | nothing: a function of a frame | headline, sentence | contact |
| jump bar (`settings_nav.ts`), panel mirror, PWM scope, status bits, DOM, formatting, theme | layout or nothing | - | - |

What makes each part correct, in short: the page **shows** a state the device was
in, never goes back to an earlier one, and says so when it has heard nothing; the
**series** is the picked range's and whole; a **pin** is a moment, not an index;
nothing a person **types** is overwritten or sent where it was not typed, and no
**step** closes a band; nothing unverified is **installed** without the words that
say so, however an install fails the panel can be used again, and the verdict on an
update is what became of it; a **plot** shows all that was measured and claims
nothing of a time when the device was dark; and a **word** about the thermostat is
what the thermostat does next.

### The firmware

One Arduino `loop()` on one task runs everything; the network stack has a task of
its own that only ever appends to the event log. Nothing in the loop preempts
anything else in it, so what is hard is not shared memory but **time**: the loop
parks for seconds in e-ink refreshes, TCP connects and SD mounts, messages cross
on the wire meanwhile, and the board can die or lose power at any instruction,
leaving NVS, RTC memory, the flash partitions, the SD card and the broker's
retained topics each at a different moment of the past.

| part | state it keeps | operations | talks to |
|---|---|---|---|
| control line (`fan/control.cpp`) | speed, auto switch, output fault, duty; speed and auto in NVS | `apply`, `raw_high_us`, `set_auto`, `restore` | LEDC driver, NVS, notify hook |
| thermostat and gas boost (`fan/auto_logic.h`, `fan/control.cpp`) | two latches with run counters, limit verdict, configuration in RAM and NVS | `tick_auto` every 30 s, the setters | sensors, control line |
| control endpoints (`net/web_controls.cpp`) | none | `POST /api/set`, `/api/config`, `/api/raw` | control line, configuration |
| MQTT link (`net/mqtt_link.cpp`) | session, grace window, one echo slot | connect, `on_message`, `echo_set`, `publish_state` | broker, control line, boot health, plug alert |
| OTA rollback (`system/ota_rollback.cpp`) | streak in RTC, confirmed image in NVS | boot check, `mark_healthy`, deadline in the loop | flash slots, MQTT link |
| OTA upload (`net/web_ota.cpp`) | three flags and the Update engine, all outliving a request | `handle_upload`, `handle_done` | flash slots, restart |
| SD card (`storage/sdcard.cpp`) | mount, fail count, quarantine, retry ladder; sentinel and crumb in RTC | mount, retry, format, append, purge, test | crash evidence, heap |
| crash evidence (`system/crashlog.cpp`) | crumb, sentinel | `examine_boot` | SD card |
| event log (`system/eventlog.cpp`, `eventlog_ring.h`) | ring with a flush ledger | `log`, `flush_tick` | SD card, network task |
| plug watch (`net/plug.cpp`, `plug_cycle.h`) | verdict, streak, cycling profile | poll, `judge`, alert | watt meter, broker, control line |
| odometer (`system/odometer.cpp`) | run time and energy, today and total, the local day | `tick`, `restore` | control line, plug, NVS |
| Wi-Fi link (`net/wifi_link.cpp`) | how long it has been down | nudge, restart | boot health |
| weather and outdoor feed, climate, air, battery (`net/weather.cpp`, `sensors/`) | rolling windows, ages | polls | thermostat |
| SSE (`net/sse.cpp`), HTTP transmission (`net/http_tx.cpp`, `chunked_writer.h`) | four peers; a sticky failure | accept, push, send | browsers |
| history and rows (`storage/history.cpp`, `sd_rows.cpp`, `csv_row.h`) | RAM ring, month files | append, read | charts |
| SD purge (`storage/sd_purge.cpp`, `purge_logic.h`) | walk queue | `purge` | SD card |
| credentials (`net/creds.cpp`) | one blob in NVS | `apply_fields` | Wi-Fi, MQTT, weather |
| display, console, scripts, `tools/fantape` | - | rendering and tooling | - |

What makes each part correct, in short: the **line** is driven with what the
device says, and the device says what NVS will resume; the **thermostat** keeps
its dwell, its limits and its bounds, and still gets where it should; the
**broker** ends up remembering what the fan does, and only people switch auto
off; there is always an **image** to boot, and the one that works is the one that
stays; a **card** that killed the board is not touched again by itself, and no
**line** of the flight recorder vanishes unaccounted; a retained **alert** is
neither stale nor masked.

## Modules

### Console

| module | models | state and actions |
|---|---|---|
| `Mirror` | **abstract**: what a page that mirrors one device promises | the device, and the frame shown: a state it was in, never an earlier one than before |
| `Console` | frames over poll, command and event stream, boot and its chain of waits, outages, restarts, time | `req`, `stream` are the wires; `age`, `offline`, `pollFail` the verdict; **implements** `Mirror` (`M == INSTANCE Mirror WITH ...`; `MirrorSpec` is a property of its run and a theorem) |
| `Series` | `series.ts` as operators: window, cadence, gaps, the row a pinned moment lands on | no state |
| `History` | range loads, crosshair, pin, plots, hero, rail and title as last painted; and the device's two sources of rows: the card, cut and thinned by `read_range`, and the RAM ring with derived stamps | each painter is an operator on the view as the step leaves it; `plots`, `hero`, `rail`, `title`, `caption` are what is on the screen, so a painter that is not called leaves them stale |
| `Settings` | settings card and connection form beside a device others write to | rows are the state they were **built from**; a command is the value it carries |
| `Updates` | `version.ts`, `update.ts` as operators | no state |
| `Install` | release check, one-click install, manual upload, and the board that takes the image, confirms it or rolls back | an image is a version and whether its bytes are the published ones; `job.pc` is where the install's chain of awaits stands; an awaited promise that is rejected and not caught ends it, too (`Rejects`) |
| `Ticks` | `ticks.ts` as operators: time steps, local calendar with both clock changes, nice value scales | no state |
| `Charts` | where each row, outage, restart, tick and limit is drawn | the state is a history answer growing row by row; a drawing is the set of its marks |
| `Words` | headline and sentence as functions of a frame of `FanControl` | extends `FanControl`: the page's words beside the thermostat's next tick |
| `SeriesProofs` | what `Series` computes of any rows, and the facts about sets, folds and sequences that the next two rest on | |
| `ConsoleProofs`, `SettingsProofs`, `HistoryProofs`, `ChartsProofs` | theorems about `Console` as a `Mirror`, `Settings`, `History`, and `Charts` with `Ticks` | |
| `MCConsole`, `MCHistory`, `MCSettings`, `MCInstall`, `MCCharts` | the instances TLC checks | constants; `MCInstall` also assumes that `latest_of`, stated as the first of the highest, is what the loop of `update.ts` computes, over small feeds |

### Firmware

| module | models | state and actions |
|---|---|---|
| `FanOutput` | the control line: `apply` with its two stores, driver refusals, raw duties, boot resume | **abstract**: `AutoStep` may move one step any way, or hold. Variables carry the names of `control.cpp`'s globals; `announced` is the notify call of the step |
| `AutoLogic` | `auto_logic.h` as operators: latch with minimum run, limits, ramp, gas floor | no state |
| `FanControl` | the tick, configuration in RAM and NVS, `POST /api/config` and a cut between its stores | extends `FanOutput` and `AutoLogic`; **implements** `FanOutput` (`FanOutputSpec` is a property of its run and a theorem) |
| `FanLive` | `FanControl` under the clock of `loop()`: what it must eventually do | adds `beat`, turned by every tick |
| `MqttLink` | `FanOutput` composed with the broker and the two FIFO directions | `link`, `grace`, the echo slot; the broker's retained command and state |
| `WebOta` | the upload handlers over the Update engine | flags, engine, request |
| `OtaRollback` | slots, boot, streak, confirmation, deadline, composed with `WebOta` | `phase` splits a boot into check and run |
| `SdCard` | mount, retry ladder, quarantine, operations in flight and the evidence of a death | `op` is the operation in flight; every operation has a begin and an end, so a death falls between |
| `EventLog` | ring, ledger, batch flush and the boot log's line, composed with `SdCard` | a flush is Take / write / Acknowledge; lines may arrive between any two |
| `Plug` | poll, verdict, cycling profile, retained alert, session | time counted in polls |
| `FanProofs`, `UpdateProofs`, `PeripheralProofs` | theorems about `FanOutput`, `FanControl`, the words of `Words`, and `MqttLink`; both ends of an update, `OtaRollback` with `WebOta` and the console's `Install`; `SdCard` under `EventLog`, `EventLog` and `Plug` | |
| `MCFanControl`, `MCFanLive`, `MCMqttLink`, `MCOtaRollback`, `MCEventLog`, `MCPlug` | the instances TLC checks | constants only |

Definitions next to a comment `Wrong variant`, or named for the slip after an
underscore (`goTo_hero_only`, `pollFailed_patiently`), are not part of any
specification: each is the named definition with one plausible slip in it, and
the property it is listed with (`mutants` in `PROJECT.json`) fails when it is put
in place.

### Conventions

* An action is a whole handler, up to a point where the code can be overtaken: at
  an `await` of the page; by the network task (inside a flush), a death (inside an
  SD operation) or a power cut (between two NVS stores) of the board.
* A property that a run checks is often the conjunction of named parts
  (`RailHonest == BackToLive /\ PickOutranks`); the parts carry the comments.
* History variables (`settled`, `hasty`, `filled`, `sent`, `drawnFor`, `late`,
  `warned`, `job.ours`, `job.tried`, `astray`) are read by properties only.
* Console times are ticks of five seconds, so all timeouts of `app.ts` and `api.ts`
  are whole; plots count units of five minutes and fortieths of a degree, so that
  half degrees, their middles and their headrooms are whole; a firmware
  temperature is an integer on a scale that keeps every bar (limit, resume
  margin, start gate, thresholds) distinct. `NaN` and `None` are model values.
* Messages, lines, images, frames and releases are names or revisions. Text is
  left out; where a property is about words, a sentence is named for its claim.
* The bounds on outside events (`MaxFaults`, `MaxOutside`, `MaxDeeds`, `MaxLoads`,
  `kInputs`, `kEvents`, ...) count what comes from outside - people, drops, deaths,
  other pages - never what the program does by itself, so no liveness property is
  bought by running out of program steps.
* Environment variables (`driver`, `card`, `reach`) change at any time unless
  a property says otherwise in its antecedent.

## Runs

| run | question | bounds | states |
|---|---|---|---|
| `console` | does the page mirror the device, and does it say so when it cannot? `Console` implements `Mirror` | one command in flight, one restart, one fault (outage, lost answer or stream error), one change of state, queue of one, the timeouts of the code in ticks (2, 3, 4) | 580 k |
| `history` | whose rows are drawn, where is the pin, who owns the rail? | a windowed and a thinned range; a card with an outage and a missed row, a board with RAM only and no clock; 3 loads, one more row logged, one loss of the card or restart, 2 blocks | 659 k |
| `settings` | is anything typed lost or sent astray; do steps keep the band? | 2 fields, 2 deeds of the user, one write by others, three configurations at and next to the edges | 961 k |
| `install` | is the offer sound, what reaches the board, is the verdict true, can the panel be used again? | 2 feeds, of which one comes first, 1 unpublished build, 2 reboots, 1 publication or upload by hand, 1 fault, 1 "Check again" at a time | 641 k |
| `charts` | are rows, outages, restarts and ticks drawn where and as they were? | up to 4 rows of 5 kinds around each clock change, one restart or a loop of three, phone and desktop, a clock that is set or not, two settings of limits | 12 k |
| `fan_safety` | dwell, limits, boost, configuration, under edits, cuts and restarts; what the console says of every frame; `FanControl` implements `FanOutput` | readings: one per region the bars cut out; dwell of 2 ticks; 3 speeds; crossing thresholds, a long request, a bad one, cuts in the first | 117 k |
| `fan_live` | the fan gets there | one configuration per behaviour, changes of maximum | 19 k |
| `mqtt` | agreement, classification on a prompt link, settling | 4 outside events, 3 speeds, people's values beyond the range, text and the empty payload that clears what is retained | 682 k |
| `ota` | bootable, no false success, fair chance, ends confirmed | 4 outside events, 2 parts per request, 3 images, streak of 3 as on the device | 69 k |
| `storage` | ledger, order, quarantine, draining | ring of 2, batches of 2, 3 outside events, cap and backoff of 2 | 434 k |
| `plug` | verdict, alert, episode | window 6, onset 3, quiet 7, settle 2, stale 1 | 54 k |
| `words_disagree` | a comment of `headline.ts` against the code: ends in a counterexample of four states | as `fan_safety` | - |

**Why the bounds are enough.** *Console:* a stale answer takes one restart or one
change of state between two frames on different wires, which one command, one
queued frame and one poll already give; the longest silence a page can overlook
is the chain of waits in `boot()`, and the clock runs past it (`SilenceLimit`).
*History:* three loads let the first be superseded twice and come back last, or
fail last; a row leaves the window when one more is logged; the thinned range has
its outage between kept rows; one loss takes the stamps, or the longer range, from
under a pin and a second load puts them back. *Settings:* the second step is taken from the rows
of before the first, from a repaint, or after another page's write. *Install:*
one reboot takes the image and the second rolls it back; the first feed holds a
candidate dated first, a backported fix before the newest, and a tag that does not
parse; the second one whose patch number runs past its decimal field and a factory
image alone, and a check of it is what a later click meets. *Charts:* four rows hold
every order of a reading, a hole, an outage of hours and one of days, before,
across and after a clock change. *Firmware:* a dwell of two ticks already has a
tick in which release is refused and one in which it is honoured. Readings are
compared with bars only, so one value per region is all the code can tell apart.
The ramp needs two steps to show that it does not jump and three to show that it
stops. One echo and one command in flight take two changes, a drop and a
reconnect: four events. Rollback takes three boots, so an upload, a crash and a
power cut fit around it in four. A ring of two wraps inside a write with one batch
and two arrivals. The plug's window, onset and quiet time keep the order they have
on the device.

`MCInstall` and `MCCharts` do not check for deadlock: a page nobody touches any
more, beside a board out of reboots, and a full window do stop.

## Fairness

* `console`: time passes (`Tick`); a reachable device serves what reached it and
  the event stream opens and delivers; promises settle (`PollAnswered`,
  `PollFailed`, `CommandAnswered`, `CommandFailed`), since every request of
  `api.ts` carries `AbortSignal.timeout`; the interval fires and `boot()` goes on.
  **No** fairness on a change of state, on a command, or on `reach`: `Converges` and
  `GoneIsNamed` say what follows if the device is reachable, or not, for good.
* `install`: the install's own steps (`GoesOn`): a promise that is awaited settles -
  the browser gives up a download or an upload that is never answered, a prompt is
  answered one way or the other - and the watch has its deadline
  (`updater.ts:98`). Nothing forces the board, a release or a person.
* `settings`: `Frame` only: the poll keeps coming, so the page keeps being painted.
  Nobody need leave a field; `RowsCatchUp` asks for it in its antecedent.
* `fan_live`: weak fairness of `Beats`, the tick, only. `loop()` calls `tick_auto`
  every 30 s and nothing in it waits on anybody; people and the environment owe
  nothing. `beat` turns with every tick because a tick that reads what the last
  one read may change nothing, and fairness of such a tick would be satisfied
  only by moving the readings: a garage that stays hot would be no behaviour of
  the specification, and the properties about it empty.
* `mqtt`: the loop keeps calling `mqtt_link::tick` (connect, messages, time), and
  the broker keeps accepting packets. Nothing forces a person or a drop.
* `ota`: `setup()` runs to its end, the deadline in `loop()` fires, a request ends
  (the server's timeout drops a stalled connection). **No** fairness on reaching
  the broker: an image may be able to and never do.
* `storage`: minutes pass, and an operation in flight ends, weakly; `retry_tick`
  and `flush_tick` are strongly fair, because the loop comes by both in every
  30 s pass although other operations keep enabling and disabling them.
* `plug`: polls go on, each of which may read or fail.

But for `InstallEnds` - a job that has begun ends - every liveness property is of the
form "if the condition lasts, the effect comes and stays", which is what the code promises: it restarts its ramp, its retry and
its streak whenever the condition breaks.

## Proofs

`tlapm` checks eight modules. They assume only what the modules under them declare
about their constants (`ConsoleAssumption`, `StepsAssumption`, `DutyAssumption`,
`MinRunAssumption`, `ReadingsAssumption`, `DefaultsAssumption`,
`RequestsAssumption`, `MqttAssumption`, `ImagesAssumption`, `BoundsAssumption`,
`PartsAssumption`, `LadderAssumption`, `RingAssumption`, `PlugAssumption`,
`FormAssumption`, `SteppersAssumption`, `InstallAssumption`, `HistoryAssumption`,
`ChartsAssumption`, `TicksAssumption` and those of `AutoLogic`), which TLC evaluates
in the runs. Of the plots they say that readings and limits lie between -100 and
300 °F, that a temperature plot is at least 220 px high (`console.css:242,367`), and
that the summer hour of a zone ends more than an hour after it starts; of the
steppers, that release lies below engage and the low limit two degrees below the gate
to begin with, as in every configuration the steppers themselves leave. One theorem
carries a condition of its own, `RollBackIsEarned`: the store of the confirmed image
succeeds; it is false otherwise, as the list of divergences says. People publish
commands retained, as `mqtt_link.h` takes for granted.

**The page mirrors one device** (`ConsoleProofs`), for any number of commands in
flight, timeouts, restarts and faults. `ConsoleTypes`, then three arguments:

* `ConsoleMirrors == Spec => MirrorSpec`. What is shown is a device state because
  every frame **held** - shown, queued on the stream, or answered on a wire - is a
  past of the device, and any two held frames are of one history (`OneHistory`):
  `isNewer` compares boots and uptime only, and without that a frame of another
  history could win by its numbers. A step then either leaves what is shown alone
  (a stutter of `Mirror`) or shows a held frame that is not older.
* `OfflineIsHonest`: offline is said of nobody who was heard within the limit. It is
  inductive with the types alone, since every handler that sets one paints the other.
* `SilenceIsNamed`: past the limit the page says offline. The invariant behind it
  (`Silence`) bounds `age + timer` phase by phase: in the chain of waits of `boot()`
  each `await` may take its whole timeout, and a poll in flight when the interval
  fires delays the verdict by one more period. Both make `ContactIsHonest`.

**The settings drawer** (`SettingsProofs`), for any fields, names, settings and
number of clicks:

* `TypingNeverLost`, `OnlyTypedIsSent`: in `FormInv` a filled form shows the page's
  facts in every field that is not touched, and those facts, once known, never
  change; so what a save finds different was typed. Before the form is filled it
  is not so, which is the divergence `OnlyChangedTravels` below;
* `SteppersKeepApart`: while every step is taken from settings the device still has,
  which kept apart when the page was opened, and nobody else writes, at most one
  command is out and it carries a step of those settings (`OneStepOut`), each of
  which keeps the pair apart (`StepApart`).

**What the helpers compute** (`SeriesProofs`), for every sequence of rows. The
library's induction theorems take an operator; `Climbs` states the same for a *set* of
naturals, from the well-foundedness of `<`, and with it a recursive function - a sweep
over rows - is shown to exist (`SweepExists`) and to keep what each of its steps keeps:

* `RanksFill`: under a total order a finite set has an element of every rank below
  its size - the ranks are an injection into as many numbers, so a surjection. From
  it the k-th row of an answer (`NthIs`) and the median step (`MedianIs`) exist;
* `FewGaps`: an outage is longer than the median step, and the steps before the
  median, with itself, are half of them and one: so less than half are outages;
* `TailIs`: in rows in their order the cut of a window loses no stamped row that is
  within it, the newest row's stamp being the greatest;
* `PinnedIs`: the row a pin is set on is the row found again for its stamp, since
  no other has that stamp;
* `FlattenIs`, `FlattenAppend`: what a sequence of groups holds, put end to end.

**The recorded past** (`HistoryProofs`), for any rows on the card and in RAM in the
order of the clock, losses of the card, restarts, ranges, spans, lengths of ring and
answer, numbers of loads and rail blocks, in one inductive invariant, `HistoryInv`:

* `SeriesAlwaysHonest`: requests are numbered and the newest is for the chosen range
  (`LoadInv`), so an answer that is not superseded is for it; what either source
  answers is in the order of the clock (`CardRows`, `RingRows`), the ring's derived
  stamps because it never holds more rows than time has passed (`DeviceInv`);
* `PinAlwaysSafe`: while there is a pin, its row is found and **some** row is looked
  at, under a gesture too (`LookInv`). Without that a refresh under a hover could
  put the crosshair on a row without holding the box;
* `PlotsAlwaysCurrent`: the hero is the row looked at (`HeroIs`), which is what lets
  a change of range or screen repaint the title alone; and a failure leaves no rows;
* `RailAlwaysHonest` is inductive with `HeroIs`: `goTo` repaints the rail when it
  leaves the past, and `paintRail` asks the finger first.

**The plots** (`ChartsProofs`), for every zone with a summer hour, and any answer
however long, with any holes, outages and restarts, all of whose rows have a stamp or
none. The invariant of the state, `ChartsInv`, is small - stamps rise and none is in
the future; what is to prove is what the drawing makes of such an answer:

* `DrawnAlwaysAsMeasured`: after each row the runs are the longest intervals of what is
  on between two cuts (`RowGrows`, `RunsAre`), so each row that is on is in one run, no
  run goes over an outage and two neighbours are parted by a cut only;
* `MarksAlwaysInPlace`: places rise with the stamps, a pointer on a plot has a nearest
  row (`NearestIs`), and between two rows it is one of them, because a place nearer to
  a third row would lie beyond one of the two - all that where the rows have stamps;
  the labels are, for any width of a label, the restarts in their order cut where a
  stem is a label's width from its group's first (`ClustersAre`);
* `AxisAlwaysHolds`: that the search never ends without a scale. The largest of the
  steps within the range has few lines; if it has too few, a finer neighbour has three
  to five inside or outside of the range (`SomeStep`), and the three passes take one
  such step. Moved outward, the ends are at most half as far apart again as the range
  (`WideIsClose`: the step before had six lines inside), which bounds what limits and
  headroom take from the readings;
* `TicksAlwaysOnClock`: the labels of a window are exactly its instants whose wall time
  is a step's, counted from a Monday, and which are the first of that wall time
  (`TicksAre`: what the sweep over the slots leaves; `SlotAligned`, `TicksMarked`:
  slots of days and hours, and their Mondays, are those). `MarkAt` then finds the next
  one wherever none should be missing, and a bijection counts the marks between two
  labels (`MinorsCount`). Where the window shows the hour after the one skipped only
  the order is claimed, and of steps of an hour and more only: `SlotsRise` is false
  of shorter ones (`ticks.ts:258`, below).

**The control line and the thermostat** (`FanProofs`),
for every number of speeds, duty table, dwell, readings, requests and cuts:

* `FanOutputTypes`, `FanTypes`, `AlwaysPersisted`, `RestartsResume`, `OffStaysOff`;
* `LineHonest`: an announced setting is the one the line is driven with. It is
  inductive with the types: every assignment of `speed` to a setting follows a
  `set_wave` of its width, and a refused width leaves both alone;
* `RunsAreCounted`: a latch is high exactly while its counter is positive. The
  counter saturates, which is why `MinRunAssumption` asks that the dwell lie under
  the saturation point, as it does on the device (30 of 65535);
* `DwellAlwaysHonoured` and `LimitAlwaysHonest` from it. The limit is only honest
  across a restart because the configuration read back is the one that was in
  force, so `FanInv` is types, counted runs and stored configuration together;
* `ConfigAlwaysStored`: by what a request, whole or cut after any of its stores,
  leaves in RAM and NVS;
* `FanAlwaysHonest`: the conjunction, which is the invariant the run checks;
* `GapLostByCutAlone`, `GapKeptUncut`: no tick and no request leaves release at or
  above engage; only power lost between two stores of one request can;
* `BoostNeverACeiling`: no tick raises the fan past what the user allowed, none
  pulls it below a standing boost. Both ramps write one speed, so the lemmas tell
  them apart by the bound each respects (`GasFloorBounds`, `TickBounds`);
* `NeverVentsAtFloor`: at the low limit the latch a tick leaves is released,
  whatever the dwell said, so only rest speed or boost can raise the fan;
* `FanImplementsOutput == FanSpec => FanOutputSpec`. The heart of it is that
  `fan_apply_gas_floor` of `fan_auto_speed` is still within one step of the
  previous speed, although thermostat and boost ramp apart from each other.

**The thermostat's words** (`FanProofs`): `SaidIsAlwaysDone` - what the page says of
auto is what the next tick does on the readings it was said of - for any limits,
differentials, dwell and requests. A tick is taken apart by the sentence shown before
it; that the limit on show still bars the next start (`ShownLimitBars`) needs
`LimitAlwaysHonest`.

**The broker's link** (`FanProofs`), for any speeds, duties, people's values,
drops and restarts:

* `BrokerAndFanAgree`: the agreement once every packet has arrived is the end of an
  invariant about the packets still on their way: the last report under way to the
  broker is the fan's state (`StateOnItsWay`), and with no echo under way what the
  broker remembers is the last command on its way to the fan, or the one the fan
  carries out (`CommandOnItsWay`);
* `EchoesAndReplaysTold`: on a prompt link there is one exchange at a time - a greeting,
  its replay, an answer, the fan's own change, a person's command - and in each the
  slot holds just the fan's own change (`OneExchange`);
* `LinkAlwaysSafe`: a person's command is told for one as well. A slot that is set
  with no echo under way is one whose echo died with its session, and stays so until
  the next command that can be read, a replay or a person's (`astray`): of that one
  nothing is said, because the code does take it for the echo (`PersonGrabs` without
  `~astray`, below). Payloads that cannot be read pass the slot by, and a retained
  command may be cleared.

**Updates on the board** (`UpdateProofs`), for every cap, number of parts and set of images:

* `AlwaysOtaSafe`: an image to boot, no restart without this request's token, and
  success only of a whole image that boots next. Inductive with what an upload's
  flags mean between its parts (`UploadInv`: authorisation is this request's token,
  and a part that ended well has selected its slot) and with what a boot runs
  (`BootInv`: until the boot check, the slot the bootloader picks);
* `ChanceIsFair`: in `BootInv` the streak in RTC never exceeds the image's own row
  of fruitless boots when it carries that image's name; noise carries none;
* `RollBackIsEarned`: where the store of the confirmed image succeeds, NVS names
  the proven image the board runs or can fall back on (`ProvenInv`). The two slots
  make this delicate: the proven image may be the *other* one for as long as the
  running one has not reached the broker, and an upload takes its slot.

**Updates in the console** (`UpdateProofs`), for any releases, files, feeds, reboots
and faults:

* `AlwaysVerifiedOrWarned`: whatever runs, is kept or is staged was there before, is
  a published release byte for byte, or went by hand with the words "NOT VERIFIED"
  (`Vouched`), which holds of every file from the moment it may be sent;
* `AlwaysJudged`: facts, state and the end of `boot()` come in any order, the facts
  after any number of failures; whichever of them comes last starts the check, but for
  the state, of which `late` says so;
* `VerdictAlwaysHonest`: while a release is watched for, it waits in the other slot
  until a boot tries it, and the board's boot count tells which of the two it is
  (`UnderWay`, `Waiting`); once confirmed it has nothing staged beside it, so no
  boot replaces it (`Kept`). It speaks of installs whose snapshot of the boot count
  was the board's own at the upload, and which no upload by hand has crossed
  (`job.ours`): of others the code cannot tell;
* `OffersAreSound`: `LatestIs` - of releases that parse there is a first with the
  highest code - and `EvaluateIs`, what a check says in each of its cases.
  `compare` and `evaluate` are written with conditions that exclude one another, in
  the order of the code's returns.

**The quarantine** (`PeripheralProofs`): `QuarantineAlwaysHolds` - after a death in any
marked operation the card is quarantined, after no other, and only a person's
request touches it then - for every retry cap, backoff, ring and batch. The
invariant says that the two marks in RTC are exactly the operation in flight, so
that no error path leaves one behind; every step of the flight recorder is shown
to be a step of the card or to leave it alone (`LogStepsCard`).

**The flight recorder** (`PeripheralProofs`): `LogAlwaysSafe`, for every ring and
batch. `RingOK` says where each retained line is; an append either keeps that or
drops the oldest line, which is counted lost if it was still owed (`AppendKeeps`,
`AppendCounts`). `FileBehind` relates the file to the line in hand: before it is
written every whole entry comes before it, afterwards it is there - so a late
acknowledgement, after the ring has wrapped past that line, marks nothing twice and
skips nothing, and a torn entry can only be repeated, not reordered.

**The watt meter** (`PeripheralProofs`): `PlugAlwaysSafe`, for every table of baselines,
window and pace. The alarms agree with their conditions poll by poll (`JudgeTells`:
whenever the alert would change and nothing is published, it did not change); that a
verdict rests on a reading of its own speed needs `ReadAtSpeed` - a reading younger
than the speed was taken at it - and that settling outlasts staleness.

**Model-checked only.** Liveness (fairness is beyond the prover): `EndsHonest`,
`RowsFollow`, `InstallEnds`, `AirSettles`, `BadAirBoosted`, `FaultHeals`, `Settles`,
`EndsConfirmed`, `Drains`, `EpisodeEnds`. Every safety property of a run that passes
- invariants, action properties, both implementations - is a theorem.

## Where code and words disagree

`words_disagree` shows one: `headline.ts:6-8` says of word and sentence "They must
never disagree, which is why both read the same fields in the same priority". They
read different fields. After a start at a speed above the rest speed the page says
VENTING over a sentence that says auto has dropped the fan, through the ramp and
what is left of the minimum run (`reason.ts:47`).

Thirteen more are stated as properties that the code does not keep to. No run checks
them; put in the configuration of their module's run, the last three without the
part named, TLC refutes each in a handful of steps (`InstallsWhatIsShown` once the
second feed publishes its image in full).

| property | words | code |
|---|---|---|
| `Console!NeverOlder` | `console.ts:280-283`: uptime is monotonic, "the pair orders every frame" | uptime is in whole seconds: of two frames of one second the later to *arrive* is shown, and a late poll repaints the rail back. `Mirror` therefore promises order between seconds only |
| `History!PastIsWhole` | `past.ts:7-9`: hero half past and half now is what the module is there to prevent | a load that fails under a preview brings the hero back to now and leaves the rail in the past until the next frame; a press on the rail that is taken back leaves it live under a pinned past |
| `History!TapsCount` | `rail.ts:28`: `swallowClick` is for "the click it also produces" | a sweep that ends off the block it began on produces no click; the next tap is swallowed instead |
| `Install!InstallsWhatIsShown` | `updater.ts:1`: "the newest published release" | the button closes over the release offered when it was built; a later check changes the row, not the button |
| `Settings!OnlyChangedTravels` | `provision.ts:7`: "only fields the operator actually changed travel" | facts that arrive while a field is being edited are not filled in, and the save compares the other, still blank fields with them: they travel, blank, as changed |
| `MqttLink!EchoRecognised` | the echo of an own publish is not a person | one slot: of two publishes on their way the first's echo counts as a person and switches auto off |
| `MqttLink!ReplayNotManual` | the broker remembering is not a person acting | a retained replay that arrives after the grace window counts as one |
| `SdCard!GivenUpOnlyOnCard` | memory pressure is not the card's fault | a mount refused for want of memory (`NO_MEM`) counts against the cap |
| `SdCard!DeathNoticed` | a card that took the board down is quarantined | `/boots.csv`, the event file's reader and the raw test leave no mark |
| `Plug!OkNotOutlived` | the retained alert is the present verdict | a reading that goes stale takes the verdict from agreement to unknown and publishes nothing: the retained `ok` stays |
| `MqttLink!PersonGrabs`, without `~astray` | `mqtt_link.cpp:46-50`: a command that is not the echo of the last publish is a person's, "correct for a human" at the speed already running, too | the slot is cleared by the next command that can be read only, not at a connect: a publish lost with its session leaves it set, and where the broker has nothing to replay, or something unreadable, a person's command of that speed, however much later, passes for the echo; auto stays on |
| `Install!UpdateJudged`, without `late` | `app.ts:344-349`: a late-arriving device fetch has to nudge the update check, else the row is left "on 'checking…'" | a late *state* leaves it there: `runUpdateCheck` needs that, too, and nothing asks again once facts and `boot()` are over, until "Check again" is pressed |
| `Install!VerdictHonest`, without `job.ours` | `updater.ts:26-29`: "the boot counter is what tells 'the old image is still answering' from 'it rebooted'" | the counter is the one last *seen*: after a restart the page has not heard of, the old image, still answering, is said to have been rolled back to; and a board flashed by hand during the watch is taken for what became of the release |

Others met on the way, in the console:

* `ticks.ts:258`: on a spring-forward day steps of less than an hour fall on 03:00
  and beyond twice, the second time out of order: the guard compares with the last
  tick only. The repeated hour in autumn gets no ticks of its own.
* `charts.ts:351`: labels are grouped by their stems; the last one, flipped to
  the left of its stem, can overlap its neighbour.
* `limit_lines.ts:44`: a limit costs the traces "at most a third of their height". Two
  limits, half the span away on either side, with headroom and ends moved out to a
  line, cost up to seven tenths (`AxisHolds` keeps the other three), and a span under
  6 °F more, the reach being 3 °F at least.
* `provision.ts:51`: after a save the form still compares with the facts of
  before it; they are asked for once per page.
* The status bit for a boost stays lit with auto off; the sentence that the gap
  holds the speed is shown while it still ramps; with auto off and no reading
  the sentence says auto holds although the headline says MANUAL; a raw duty with
  a fault is a fault to one and "set by hand" to the other.

And in the firmware:

* `fan/control.cpp:374` runs after a request only. A request cut between its
  stores can leave release at or above engage in NVS, and `restore` does not
  re-enforce the gap (`GapLostOnlyInCut` says it happens nowhere else).
* `fan/control.h:72`: the boost's indication stays lit when auto is switched off
  in the middle of a boost; nothing ticks the latch any more.
* `fan_controller_main.cpp:15-16` speaks of whichever transport answers first;
  boot resumes NVS, and the broker's retained command then overrides it.
* `system/boot_health.h:21-22` says a confirmed image never rolls back;
  `ota_rollback.cpp:128` does not look at the result of the store, and with
  `NvsMayFail = TRUE` `ProvenStays` fails. Run and theorem have it `FALSE`.
* `README.md:41-42` and `docs/HARDWARE.md:264` speak of three failed boots; the
  third boot already rolls back before it has had its chance, so two have failed.
* An upload aborted after its END keeps the new slot selected; the next restart
  boots it although the client was told nothing.
* `/api/sdtest` mounts a quarantined card without lifting the quarantine.
* `eventlog::lost()` also counts a line that was being written, successfully, at
  the moment the ring wrapped over it (`EveryLineAccounted` is stated as `<=`).
* `plug.cpp:277-278` wants two out-of-band polls; when the second fetch fails the
  first reading is still fresh and is judged again, so one reading suffices. The
  same goes for the two confirmations of `plug_cycle.h:60-61`.
* Connecting while a raw duty is driven publishes `unknown`; if the speed returns
  before the next poll the verdict may still be a disagreement nobody is told of
  until the next edge.
* `system/odometer_logic.h:42`: a fan idle over local midnight keeps yesterday's
  totals as "today", against `odometer.h:14-15`.

## Not modelled, and why

*Console.* The jump bar follows the scroll position: layout. Panel mirror, PWM
scope and status bits decode and draw one answer each and keep nothing. The
gauge's geometry, the placing of the limits' tags, colours and themes are looks.
`dom.ts` and `format.ts` are helpers without state; wording is left out except
where a property is about it. `build.mjs` and `shots.mjs` are tooling. The
browser itself - `fetch`, `EventSource`, pointer events - is taken from how the
page uses it: an answer, an error or a timeout; a click after a press and a
release on one element.

*Firmware.* Parsing and printing of numbers and JSON; the HTTP server's framing;
the Update library's flash format, except for what `hasError`, `isRunning` and
the slot selection say; the result of `File::write` is taken at its word. The
rotation of `/events.log`, of `/boots.csv` and of the months' files: the card holds all
that was written. A clock that is set stays set and is not stepped. The
telemetry windows of the plug (`plug_window.h`) decide nothing. Display and
`fantape` keep no state the device depends on. The token and origin guards are
comparisons without state and are taken as "the request has the token or not"
where an outcome depends on them. The odometer, the Wi-Fi link, the sensors'
windows, the SSE peers, the columns of the rows, the purge's walk, the credentials' blob
and one whole pass of the loop against its watchdog are state machines of their
own and are listed in the plan.

## Plan

Done: the console's contact, history, settings, updates, plots and words; the
control line, the thermostat and its endpoint, the MQTT link, OTA, the card with
the flight recorder, the plug; the proofs of the mirror, the history, the settings,
both ends of the update, the fan, the link, the card, the recorder, the plug and the
plots. What is left, in order:

1. `Odometer`: credit per elapsed second, local day, five stores each 15 min.
2. `SdRows` and `BootLog`: rotation, row width against reader width, RAM ring and
   month file telling the same story; of the rows `History` has the stamps so far.
3. `Purge`: the breadth-first walk with its queue, batch and entry budget.
4. `WifiLink` with `OtaRollback`: restarts for want of a router and the streak.
5. `OutdoorFeed` and `Battery`: staleness with wrapping milliseconds, windows reset
   after a gap, the sticky verdict; composed with the thermostat's readings.
6. `Sse` and `ChunkedWriter`: four slots, refusal, a stalled peer - the other end
   of the console's stream.
7. `Creds` with the console's `Settings`: store before use, migration, refusal.
8. `MainLoop`: the blocking stages of one pass against the watchdog.

Theorems worth having next are those of the modules above; of the modules there are,
what is not proved is liveness.
