# Verification of the Lian Li wireless fan engine

This directory holds TLA+ models of the native engine (`src/src`), of the probe
tool beside it and of the FanControl plugin that hosts it (`src/plugin`), the TLC
configurations that check them, and proofs checked by TLAPS. It is meant to be read
beside the code: every definition that models code is named after it where TLA+
allows, and the comment before every property names the lines it is about.

## The system

A wireless dongle pair (a transmitter and a receiver, both on USB) talks to fan
groups by radio. The receiver lists the devices it hears when it is polled; the
transmitter carries speed commands. The engine's worker thread runs one tick a
second: it takes up what hosts asked, sends a heartbeat, polls the receiver, judges
whether the dongle is lost, drives every group, tries to reconnect a lost dongle,
and publishes a snapshot. The plugin opens the engine through a C interface, hands
it FanControl's percentages and shows what the snapshot says. The probe is a command
line tool that tries the same parts by hand.

| Component (source) | State | Operations | Hard behaviour | What makes it correct |
|---|---|---|---|---|
| Tracker (`groups.rs`) | a record per device heard, votes for changes of identity and shape, the slot order, targets and last sends | `observe`, `sweep`, `set_target`, `clear_target`, `sent`, `slot`, `fans`, `due`, `acknowledged` | garbled records, devices that go quiet and return in any order | slots are a stable numbering, one to a group; changes only on agreement; a record of sends is about the present target; nothing bound is forgotten early |
| Fan loop (`engine.rs`) | wishes, heartbeat, failure count, retry schedule, alarm, snapshot; shared request list and stop flag | the steps of `tick` and of the thread; `set_percent`, `clear`, `stop`, `snapshot` by hosts | any transfer fails; hosts act between any two steps; outages and reconnects; stop at any time | no command below the floor; full speed while the dongle is lost; the alarm tells the truth; requests are applied in order; stop ends the loop; retries go on |
| Log limits and timing (`engine.rs`) | per text and per group the last line and what is held back; the grid of ticks | `fail`, `flush_fail_log`, `log_change`, `flush_change_log`; the sleep between ticks | two functions write lines about one subject; sleeps end late, ticks overrun | lines add up to what happened, are true, spaced, and do come; two heartbeats in a row are never passed over |
| Speed commands (`speed.rs`) | none | percent to duty and back, minimum of a model, `prepare`, `acknowledged` | arithmetic at bounds, chains from the right, duties some fans skip | what is sent reads back as what was asked |
| Dongle (`dongle.rs`, `frame.rs`, parts of `discovery.rs`) | handles, channel, page count | `reopen`, `poll`, `send_on` | late, partial and missing answers; failures between two transfers | an answer is taken for its own question only; every call ends; the contract the engine relies on |
| USB device and lookup (`device.rs`, `enumerate.rs`, `process.rs`, `win.rs`) | file and WinUSB handles, remembered time limits, a device list, what loading the library gave | open, transfers with a time limit, drop; find the pair; look for a program | each of a row of system calls fails; devices vanish, another program holds one | nothing is left open or closed twice; no transfer without a limit |
| C interface (`ffi.rs`, header) | a handle: engine and bounded log | `lianli_open`, `lianli_close`, `lianli_take_log`; requests and states | a close while the worker is in the middle of a reopen; a host that does not drain the log | a closed handle leaves the dongle free; the log keeps the newest lines in order |
| Heartbeat (`heartbeat.rs`) | none | two forms of a payload, an interval | first form once per connection | checked in the fan loop |
| Probe (`bin/probe.rs`) | a session with a tracker of its own, the duties to put back | `set`, `run`, `run --leave` | any step fails, payloads get lost, reports are old | groups are put back, and success is not claimed when they are not |
| Plugin (`WirelessPlugin.cs`, `Sensors.cs`) | engine, last state, what was asked, flags | `Initialize`, `Load`, `Update`, `Close`, `Set`, `Reset` | refreshes, failed openings, groups that are away | what was asked survives a refresh, what was reset does not |
| Group memory (`GroupMemory.cs`) | groups ever seen, in memory and in a file | `Known`, `Remember` | failed reads and writes, deletion, restarts | a control once given is given again |

Interaction: hosts and worker share the request list and the stop flag (under a
lock and atomic), the snapshot and the log (each under a lock); worker, dongle and USB
devices interact by calls of the worker; the tracker is a plain value inside the worker.

## Modules

```
Tracker -- TrackerHistory -- TrackerSpeed (with Speed)          TrackerMC, TrackerSpeedMC
   |  \-- TrackerProofs -- TrackerSpeedProofs (with TrackerSpeed)
Engine -- EngineHistory                                         EngineMC, EngineHistoryMC
   :  \-- EngineOverLink (with Link)                            EngineOverLinkMC
   :          \-- EngineProofs (with EngineHistory, TrackerProofs)
   :.. Failsafe (abstract: what the engine promises)
Cadence -- Log -- LogProofs                                     LogMC
Dongle -- DongleProofs                                          DongleMC
   :.. Link     (abstract: what the engine relies on)
Usb -- Interface -- InterfaceProofs                             InterfaceMC
Speed -- Probe -- ProbeProofs                                   ProbeMC
Plugin -- PluginProofs                                          PluginMC
```

**Tracker** models `groups.rs`. `groups` is a function from known addresses to
records; the slot order, a vector in the code, is the relation "listed no later
than", so that it can be reasoned about without induction. Instants are ages which
stop growing once no comparison can tell them from greater ones. A record keeps an
identity (master, channel, receiver), a shape (kind, fans, side, models), the votes
for another of each, the duties reported, the target and the age of the last send.
A reply names each device once. `Replies` are all partial functions from addresses
to sightings. **TrackerHistory** adds what the code does not keep (sightings in a row,
duties last sent, percentage last asked for) to state properties about agreement, sends and
targets.

**Speed** models `speed.rs` and what `drive` asks it: every device type byte, the rounding both ways, minimum duties, the skipped duties, pump slots, turned
chains, and the tolerance of an acknowledgement. **TrackerSpeed** puts these duties
into the tracker, whose parameters `Prepare` and `Acks` leave them open otherwise.

**Engine** models `engine.rs`: one action per step of the worker, named by `pc`
(drain, apply, heartbeat, poll, sweep, judge, drive, send, recover, publish, pause, woken,
shutdown, done), and the hosts' actions, possible between any two of them. A tick sees
one instant, as in the code; time passes in `Pause`, which stands for the span
from the start of one tick to that of the next, blocked calls included. Every poll,
send and reconnect may fail at will, and a scan of every channel may find another
pairing. `radio` is what the transmitter was last given per device. **Failsafe** is
the abstract promise of the first lines of `engine.rs`; `KeepsPromise` is the
refinement. **EngineHistory** adds what hosts asked last, who was released, what the
failsafe gave, heartbeats per connection and, in an outage, the time since the last
attempt to reconnect with the wait that is due after it.

**Cadence** looks at the same loop in time finer than a tick: starts on a grid, sleeps
that end late by up to `Late`, ticks that overrun and move the grid, and the heartbeat's
test of its interval. **Log** puts the limits on log lines on top of it: `failures` and
`changes` are `fail_log` and `change_log`, `lines` is what the last step wrote. Its history
variables count what happened since the last line about each text and each group. What
fails and which targets change is open, so the module covers any behaviour of the
engine's other parts.

**Dongle** models the exchanges: flush, request, answer for each connect attempt; flush,
request, pieces for a poll; the frames of a payload. Answers and pieces are *on their way*
for any time before they *wait to be read*, which is how a time-out is followed by
its answer; the device may be pulled out or move to another channel. **Link** is the
contract behind the trait of that name in `engine.rs`; `KeepsLink` is the refinement.
**EngineOverLink** joins the two: the fan loop with its calls left to `Link`, a reconnect in two
steps with hosts acting in between; `KeepsEngine` says that it is the engine of **Engine**,
where a reconnect is one step, seen from outside when the call returns.

**Usb** models what the program holds of Windows: file handles, WinUSB interfaces,
device lists and snapshots are counted as Windows counts them, apart from the values
(`devices`, with the limits each remembers) that own them in the program. One step is one
system call or a run of calls that fail alike; devices come and go and another program
takes them in between. **Interface** adds the handle of the C interface, the log with its
capacity, and the thread behind it: a host opens, takes lines and closes while the worker
writes, transfers and reopens.

**Probe** models `set` and `run`: the loop of `apply` and `hold` step by step, the engine
of `run` as far as it drives the groups, and the session that puts them back. Payloads may
be lost in the air, polls may hear any of the groups, and a report may be older than
the last send. Time is open: a limit may be reached at any turn of a loop.

**Plugin** models `WirelessPlugin.cs` with `GroupMemory.cs`. All calls hold one lock, so a
call is a step, save `Initialize`, during whose wait the engine ticks. The engine is seen
from outside: the groups its snapshot lists and the requests it was handed. Ghost
variables hold what the host said last, the groups it was ever given, and whether the
file was harmed since it was last written.

Definitions ending in `Variant` are plausible mistakes, used to make sure that each
property can fail; no specification contains one.

## Runs

Twelve configurations. Bounds are small because what matters is the order of events,
not how many there are; each bound is chosen so that the interesting case happens.

| Run (cfg) | Question | Bounds and why they are enough |
|---|---|---|
| `tracker_order` (`TrackerOrder`) | Does the slot order survive everything devices do? | three devices (the fewest where one can overtake another past a third), two owners, targets set and sent; a device is offline one unit after it was heard and forgotten after two |
| `tracker_history` (`TrackerHistory`) | Are changes agreed on, sends remembered, duties right? | one device, three identities (two wrong ones can alternate), the code's three sightings, two fan models (a CL chain from the right), 30 and 60 percent (60 is a skipped duty) |
| `engine` (`Engine`) | Does the loop keep its promise while two groups are driven one after the other? | two devices, one request pending, loss after one failed poll |
| `engine_history` (`EngineHistory`) | When do alarm, retries, channel scans and requests happen? | one device, loss after three polls as in the code, waits 2, 4, 7 (the cap is not a multiple), ticks of one or two units, two requests pending, a pairing on another channel |
| `engine_live` (`EngineLive`) | Is the loop on a dongle known by its contract only the engine, and what does the worker's own progress bring about? | one device, loss after two polls, waits 1 and 2, so that attempts with and without a scan happen, heartbeats not due at every tick, and a pairing on another channel for the scan to find |
| `log` (`Log`) | Do lines and heartbeats survive ticks that start late? | ticks of three units, of which a sleep may end one late; work that takes no time or more than a tick; limits of two ticks, so that a limit may end just before or just after a start; one group, two targets, two texts |
| `link` (`Dongle`) | Are answers taken for their own questions, do calls end? | two channels, two attempts on one of them, flushes of two and three reads, replies of no device and of more than a page, one answer under way per port; the flushes read more than the one exchange can leave behind |
| `interface` (`Interface`) | Is anything left behind, whichever call fails and whenever a host closes? | three device paths, two of them transmitters, so that a lookup may find a pair, none or too many and a reopen another device; two read limits; a log of two lines, four written |
| `probe` (`Probe`) | Are groups put back? | one fan, and two CL fans chained from the right, found at two speeds or at one that lies between two duties they tell apart; two percentages, one of them a skipped duty |
| `plugin` (`Plugin`) | What survives refreshes, restarts and file errors? | two groups, two fan counts, a value within 100 percent and one above |
| `stop_loses_request` (`EngineStopLoses`), `swapped_dongle` (`EngineSwapped`) | Statements of the source the code does not keep | see *Findings* |

What the passing runs show:

* `tracker_order`: `OrderInv` (the order is total, lists whoever is online, and gives no two
  groups one slot), `PlacesAreKept`, `ForgottenWhenSilent`.
* `tracker_history`: `AgreementIsHeeded` and `ChangesAreAgreed` (three sightings in a row
  change a record and nothing less does); `WireHoldsTarget` (a device counts as sent to only
  if its present target went out); `TargetsReadAsAsked` (the target a device
  has reads on each fan as the percentage last asked for it; with `WireHoldsTarget`, so does what
  goes out) and `AcksAreNear` (what counts as applied is within two percent of the target).
* `engine`: `AlarmIsFullSpeed`, `GroupsAreListedOnce` (no group twice, and none left out of what
  a tick publishes), `KeepsPromise`.
* `engine_history`: `PromiseInv` (the invariant the proofs rest on), `LastRequestCounts`, `FirstFormOnce`, `TargetsHaveReasons`, `FullSpeedBeforeClosing`,
  `RetriesAreSpaced`.
* `engine_live`, on the loop of `EngineOverLink`: `KeepsEngine`, `StopEnds`, `RequestsAreTaken`,
  `RetriesGoOn`, `DutiesArrive`.
* `log`: `SkipsAreSingle` (a late start may pass a heartbeat over, two in a row never);
  `LinesAreTrue` (what is held back is what happened since the last line, and a group's last
  line names its target or the target waits to be told); `LinesAreWholeAndSpaced`;
  `HeldIsTold`.
* `link`: `AnsweredOnItsChannel` and `RepliesAreThisPolls`, both as long as nothing was still
  on its way when the flush before the request ended (the code cannot tell an answer that
  late from a prompt one); `SteadyDevicesAreHeard`, `CallsReturn`, `KeepsLink`.
* `interface`: `DongleIsGivenBack` (with it, that handles and owners agree at every
  call), `TransfersAreTimed`, `NewestAreKept`.
* `probe`: `OkMeansPutBack`, `PutBackIsTried`.
* `plugin`: `OnlyTheLastSaid`, `AskedIsHandedOver`, `FileHoldsMemory`, `GivenOnceGivenAlways`.

The state bounds named in the modules are `MaxRequests` (hosts wait while that many requests
are pending), `MaxUnack` (a count shown to the user stops there), `MaxAir` (answers under
way at once) and `MaxLines` (lines one engine writes).

The engine's runs, `log` and `probe` do not check for deadlock, since what they model ends:
the loop and its log on a stop (`StopEnds` says that the loop ends nowhere else), a
command of the probe when it is done. All others do.

### Fairness

`engine_live` and `HeldIsTold` assume weak fairness of the worker as a whole: it is a thread
that never waits for anybody but the clock (locks are held for copies only) and the dongle,
whose every call returns (`CallsReturn`, `TransfersAreTimed`). Nothing is assumed of hosts or
of the outcome of any call. `DutiesArrive` is conditional
on the group staying reachable and on its sends not being refused for ever, and says so in
the formula; `HeldIsTold` allows for a stop, which drops what is held back. `Dongle`
assumes weak fairness of transfers, each of which has a time limit in the code
(`TransfersAreTimed`); which way a transfer ends is open.

## Findings

Two runs end in a violation, each of a sentence in the source:

* `NoRequestIsLost`: `shutdown` sends every target once more "so a target that arrived just
  before the stop is not lost" (engine.rs:622-623); the requests are not taken again
  after the sleep, so one made since is neither applied nor sent.
* `GroupsBelongToDongle`: after a reconnect found another dongle (engine.rs:366-368) the snapshot
  shows its address, and the tracker goes on looking for groups of the first.

Other places where the code and its words part, met while modelling and kept in the
models as the code has them:

* "Nothing more is sent to it" (engine.rs:221-222), but the failsafe gives a released group a
  target that a stop after the dongle's return sends (`TargetsHaveReasons` allows for it).
* Devices that went offline "rejoin at the end when heard again" (groups.rs:209-210); one
  heard again before the next sweep keeps its place, since `order` is rebuilt by the poll
  that hears it.
* A fresh engine is handed "the percentages FanControl last asked for"
  (WirelessPlugin.cs:137), but only for groups in the state the wait ended with
  (WirelessPlugin.cs:152), which is how `AskedIsHandedOver`
  states it: a group that is away then waits for its next change of value, and no property
  covers it.
* A scan of every channel takes 41 attempts of half a second inside one tick, longer than the
  time after which the plugin reports a stalled engine, which "should never fire"
  (WirelessPlugin.cs:364-368); a close waits for it.
* The plugin drains the log before it closes the engine (WirelessPlugin.cs:405), so lines
  of the stop reach no file; `Interface` drops them with the handle.
* A memory file that cannot be read counts as empty (GroupMemory.cs:124), and the next change
  writes that over it; `harmed` covers it.
* A `set` that succeeds may leave its group at the percentage it tried: a report from before
  it that lies between that percentage and the old duties acknowledges both. The two are
  then within ten of each other, and that is what `OkMeansPutBack` says of `set`.
* The probe announces to restore the previous duty. It sends what `prepare` makes of the
  duties on record, so a chain from the right whose fans differed ends up turned, and a duty
  below a minimum raised (`Back` in `Probe`); and `run` puts back only groups heard by
  its first snapshot.

## Proofs

TLC checks an instance; the theorems hold for all constants that satisfy the modules'
assumptions (addresses are integers, thresholds are ordered as in the code, the
floor is not above full speed, a sleep is late by less than a tick, each path has at most
one role, `None` is none of the values).

* **TrackerProofs**: `TypeCorrect` (the type invariant is inductive), `OrderCorrect`,
  `PlacesCorrect`, `RecordsCorrect`, `ForgettingCorrect`. The order needs a strengthening of
  its own: `OrderBase` joins the types, totality and the listing of everyone online. The
  main lemmas: `RebuiltTotal` (filtering a total order and appending newcomers by address
  gives a total order) and `SlotsFromOrder` (in a finite total order the number of those no
  later than a device tells it from the others), which makes `OrderInv` of `OrderBase`.
* **TrackerSpeedProofs**: `RoundTrip`, `CommandReadsBack` and `MatchesAreNear`, for every device and
  every percentage, the duties reduced to linear arithmetic over bytes; from them
  `TargetsCorrect` (whatever happens to a device, its target reads as the percentage last asked
  for) and `AcksCorrect`, which says the same of what counts as acknowledged; and `AgreementCorrect`, `ChangesCorrect`, `WireCorrect`. `HistoryInv`
  says that a run of sightings and the vote a device keeps tell the same story, that
  the duties last sent are the target whenever a send is on record, and that a target is what
  is prepared for the percentage last asked for and the shape it was asked of; `RunsFollow` is the
  step from one sighting to the next.
* **EngineProofs**: `EngineTypeCorrect`; `UsesTracker` (`EngineSpec => Spec`: every step of the
  engine is a step of the tracker or leaves it alone, so the tracker's theorems hold
  inside the engine); `FailsafeCorrect`; `AlarmCorrect`; `PromiseAlways`; `FloorCorrect`;
  `AlarmIsFullSpeedCorrect`; and `PromiseCorrect`, the refinement of Failsafe. The
  inductive invariant `PromiseInv` adds to types and `FailsafeInv` two facts the other
  properties do not state: every target of a group, every wish and every command is from the
  floor up (`FloorInv`: a wish may become a target much later), and while the alarm stands
  every group already visited by the present drive has full speed for its target (`FullInv`:
  without it the last sends of a stop, or a snapshot, could carry a target from before the
  loss).
  `ListedOnceCorrect` needs `SweptInv`: from the sweep to the snapshot those listed are
  exactly those online.
  With the history (`HistoryRefines`: it adds nothing to what the engine does) come
  `FirstFormCorrect`, `ReasonsCorrect`, `RequestsCorrect`, `ClosingCorrect` and
  `RetriesAreSpacedCorrect`. `RequestInv` follows a queue of any length by its two ends
  (`OneMore`, `OneLess`). `ClosingInv` says what the drive leaves behind it with the failsafe
  in force: full speed for a target, handed to the transmitter or refused; a group passed
  over as not due has it already, because a target that counts as sent is what went out
  last (`SentIsOut`). `OutageInv` ties the schedule to the history: what the engine still
  waits (`retryIn`) is what is left of the wait after the last attempt, and the wait it will
  take next is twice that one or the cap; `RetriesWhenDue` turns it into when `Recover` tries.
  `EngineOverLinkCorrect` is the refinement of Engine by the loop over Link (`OverInv`: while
  a reconnect is under way it was due, the handles are gone, and it scans only if the wait
  had reached its cap). With `KeepsLinkCorrect` (Dongle keeps Link) it puts what is proved
  of Engine on the dongle as `dongle.rs` works it.
* **LogProofs**: `SkipsCorrect`, `LinesTrue`, `LinesWholeAndSpaced`. `CadenceInv` ties the age
  of the heartbeat to the lateness of the present start: one that passed it over was late
  after one that was not, so the next finds it due. `LogInv` adds to `LinesAreTrue`
  that a group was quiet for exactly as long as its entry is old, which makes the two
  functions that write lines about it keep one distance.
* **InterfaceProofs**: `HandlesCorrect` and `TransfersCorrect` for `UsbSpec`, and for the whole
  interface `DongleIsGivenBackCorrect`, `TransfersOfClients` and `NewestCorrect`. `UsbInv`
  joins the properties with the course of an open (`DevicesAreInStep`); `ClientInv` adds
  which thread may be in which call (`WorkerIsInCall`), without which a close could
  return with an open under way.
* **PluginProofs**: `OnlyTheLastSaidCorrect` and `AskedIsHandedOverCorrect` by `HandedInv` (what
  is kept across refreshes is what the host last said, and a present engine was asked
  for that); `FileCorrect` and `GivenCorrect` by `MemoryInv` (what the host was given is in
  memory, or in the file before it is read).
* **DongleProofs**: `KeepsLinkCorrect`, the refinement of Link, and
  `AnsweredOnItsChannelCorrect`, `RepliesAreThisPollsCorrect`, `SteadyDevicesAreHeardCorrect`.
  `ChannelInv` says that a connect is under way without handles only, an exchange with them
  only, and that a connect which does not scan tries no channel but the dongle's.
  `AnswerInv` says whose answers may wait or be on their way at each step of an attempt: none
  but the present one's once a flush has read more than can be there, unless one was late.
  `ReplyInv` says the same of the pieces of replies, with the order of those of one reply;
  it rests on the two flushes being long enough (`ReadsAssumption`: the transmitter's reads
  more than can be on its way, the receiver's all that two polls can have left), which is
  what the code's comments claim of its constants. `HeardInv` ties the page count
  the next poll asks for to what the last one reported; `PagesHoldTheDevices` is the
  division it takes.
* **ProbeProofs**: `OkMeansPutBackCorrect` and `PutBackIsTriedCorrect`. `RunInv` sorts the groups
  of `run` into those still to put back, the one under way and those put back, and says
  that what was heard of a group is what it runs at or was sent. `SetInv` says for
  each part of `set` where its group can be: `PartInv` relates what the group was found at, what
  a put back sends, the present target, the last report and what the fans run at.
  Reports may be older than the last send, so `SetInv` cannot say that they agree; what it
  keeps is that a report which acknowledges two targets makes them near each other
  (`MatchedAreNear`).

Only model-checked: liveness (`StopEnds`, `RequestsAreTaken`, `RetriesGoOn`, `DutiesArrive`,
`HeldIsTold`, `CallsReturn`), since it takes ENABLED, which is beyond the prover. Every other
property of a passing run is a theorem.

## Not modelled, and why

* Bytes of frames, records and payloads, the time of day in a heartbeat, and the layout
  of the native state: no property here tells them apart; the repository's unit tests
  compare them.
* Counters shown to the user, log lines without a limit of their own, the plugin's alarm and
  stall lines, and its file of log lines (`FileLog.cs`), in which a failed write is
  dropped by design.
* A panic caught in a tick: no modelled step panics on the values it can meet.
* A reply that names a device twice, and the last publish of a shutdown, which no sweep
  precedes, so a group may be listed both as online and as offline in it
  (`GroupsAreListedOnce` excludes `done`).
* A request of the plugin that the library refuses: with the arguments the plugin passes and
  an engine that is open, nothing but a panic makes it do so.
* The single reads of which `gather` puts a reply together: `Dongle` reads it page by page, and
  its last page, which the code may take cut short after the last record, whole.
* The cut at 16 groups in `State::from`, which needs more groups than TLC can enumerate; the
  arguments the C functions refuse and the text of the last error.
* The probe's `discover`, which sends nothing, its arguments and what it prints.
* How long a system call takes. A scan that outlasts `OFFLINE_AFTER` is covered as a
  lapse between two ticks; `Interface` lets a worker take any time for its calls.
* The plugin's stubs of the host's contract and the unit tests.

## Plan

Done: Tracker, Engine with Failsafe, histories, Speed, Dongle with Link, the engine over Link,
Plugin, Cadence and Log, Usb and Interface, Probe, each with its proofs. What is left: the 16
groups of a state, with the limit as a constant.
