# A TLA+ model of the LibreScoot battery service

The service runs on the scooter's computer. It reads up to two battery packs over
NFC, switches them on and off, and publishes their status and faults in Redis.
This directory holds the specification of the parts that decide about power, of
what they publish, and of the races between their goroutines. TLC checks them on
small instances. TLAPS proves nearly all of the safety properties for every value
of the parameters: those of the activation gate, of the state machine, of the
fault management and of the seatbox policy. An abstract supply bus states what the
gate promises, and the gate is proved to implement it. Paths below are relative to
`src/battery/` unless they start with `README.md`, which is the repository's own.

## 1. The system

| Part | State | Operations | Interacts with |
|---|---|---|---|
| Pack admission (`admission.go`, `admission_reader.go`) | two slots: identity, last frame, stability history, reservation, ON and OFF times; vehicle, seatbox | `tag`, `observeAbsent`, `failAcquisition`, `observeAcquisition`, `requestOn`, `offAttempt`, `setRole`, `setVehicle`, `setSeatbox` | called by both readers and the Redis subscriber, under one mutex |
| Isolation and handover (`admission_isolation.go`) | one episode: survivor, victim, attempted, OFF confirmed | `reconcileLocked`, `shouldIsolate`, `isolationOffAttempt`, `maintainHandoverLocked` | inside the gate |
| Sampling rounds (`sampling.go`) | the open round, its claims and samples, the last pair | `beginRound`, `claimRound`, `observeAcquisition`, `stopSampling` | poller opens, readers claim and deliver |
| Motion evidence (`stopped_admission.go`, `motion_ipc.go`) | last report, standstill since, source and sequence | `receiveMotionEvidence`, `resetMotionStream` | subscriber of `engine-ecu:motion` |
| NFC transactions (`nfc_operations.go`) | selected tag, failure counter | read, write, discovery poll | the gate, the faults, the state machine |
| Fault management (`fault.go`) | per fault: present, pending, timers, published | `setFault`, timer callbacks, raise and clear of the reader fault, power-off detection | the reader's goroutine and one goroutine per timer, `faultMu` |
| Status publication (`battery_status.go`) | current and previously published frame | `parseStatusData`, `sendStatusUpdate` | Redis transaction and fault set |
| Reader event loop (`reader.go`, `channels.go`) | vehicle, raw seatbox, latch, enabled, role | the cases of the `select`, `fetchInitialRedisState`, `handleDeparture` | channels of size one from the service, events to the state machine |
| Redis subscriber and settings (`service.go`) | configuration, aux-low latch | one handler per field | Redis in, channels and gate out |
| Reader state machine (`fsm/`, `actions.go`) | a hierarchy of states with 13 leaves to wait in, their timers, an event queue | 23 events | calls all of the above |
| Discovery and tag freshness (`discovery.go`, `nfc_operations.go`, `battery_status.go`) | evidence of a quiet search, confirmation of a new tag | poll loop, `FinishDiscovery`, `noteTagPresent`, `noteFrameFreshness` | gate and state machine |
| Drive-start demand (`admission_demand.go`, `service.go`) | deadline, two channels of size one, pending prompts | `setDriveStartStatus`, `runAdmissionRequests`, `pollAdmission` | opens rounds, prompts readers |
| Suspend inhibitor (`inhibitor.go`, `battery_commands.go`) | a socket, held or not | take, release | states that must not be suspended; power manager |
| Diagnostics, logging, command line | none that matters | | |

What is hard here:

* **Two goroutines share a supply bus.** Each reader holds its own NFC lock for
  the whole of a read or a write, never the gate's mutex, so a read is claimed
  before and delivered after whatever the other reader does.
* **Commands are unreliable.** A write that fails may have reached the tag, one
  that succeeds may not be obeyed, and the tag may show an old snapshot. The gate
  therefore *reserves* power before the write and needs evidence to let it go.
* **Timers run in their own goroutines.** `Timer.Stop` does not stop a callback
  that already waits for the mutex.
* **Values overtake each other.** Redis names the field that changed; the value
  is read later, posted to a channel that keeps the newest, and taken in any
  order.
* **Redis may be down** in one of several writes that belong together.
* **The state machine calls back into itself.** An NFC operation inside a state's
  entry sends events (reinit, tag departed, restart) that are handled later, in
  whatever state the machine is then; a timer, the poll loop or a prompt may have
  queued another one before.
* **Silence is evidence.** A pack has left only if a whole search heard nothing;
  a cancelled receive, a controller error or a garbled answer is not silence.

What makes each part correct: the gate never forgets a supply, never has two
unanswered activations, joins packs only on evidence gathered after the last
command, and breaks before it makes; an isolation always leaves one supply; the
fault set shows the faults there are, and faults that have to appear do; outside
a ride the power latch is the seatbox lock, and an active slot is enabled
whenever the policy wants it; the state machine never waits for nothing, does not
keep the scooter awake, forgets a pack only after a quiet search, and once
disturbances end it brings the pack and its published presence to what is wanted;
a rider's demand and a prompt are not lost.

## 2. The modules

| Module | Models | Proofs |
|---|---|---|
| `PackAdmission` | the gate with sampling, isolation and motion | `PackAdmission_proofs`, `PackRelease_proofs`, `PackBus_proofs`, `PackEvidence_proofs` |
| `SupplyBus` | what the gate promises: the life of a supply, without evidence | `PackBus_proofs` (the refinement) |
| `DualPack` | extends `PackAdmission` by the packs and the readers' reads and writes | `DualPack_proofs` |
| `ReaderFSM` | the state machine of one reader, its NFC operations, discovery, freshness, inhibitor | `ReaderFSM_proofs` |
| `DriveStart` | extends `ReaderFSM` by the drive-start demand, the poller and its prompts | `ReaderFSM_proofs` |
| `ReaderFaults` | fault management of one reader with what it publishes | `ReaderFaults_proofs` |
| `SeatboxPolicy` | subscriber, channels and event loop of one reader | `SeatboxPolicy_proofs` |
| `MC...` | definitions for the `.cfg` files of each | |

Operators whose names say what went wrong (`JoinsUnpaired`, `OffKeepingPair`,
`EnterHeartbeatUntimed`...) stand before the definition they vary. They are never
used by a specification; each is a plausible mistake that must break a property,
and shows that the property is not empty.

### PackAdmission

Each method of the Go struct runs under one mutex and is one action. A status
read is two: `StartRead` claims a place in the round, `FinishRead` or `FailRead`
delivers. `reading[i].busy` is the reader holding its NFC lock, so no command or
absence report of the same reader comes in between, and anything else may.

`slots` is `packAdmission.slots` field by field. `OffEvidence`, `Resolved` and
`Recorded` are the three parts of `observeLocked`; `CommandOpen`,
`VehiclePermits`, `OwnEvidence` and `PeerPermits` (with `Joins` and `Selected`)
are the refusals of `requestOn` in their order, `RepeatOn`, `RequalifyOn` and
`ActivateOn` its three ways of saying yes. A refused request only reconciles the
episode, which `ShouldIsolate` does as well.

Abstractions: times are naturals and `Zero` is Go's zero time, further in the
past than any duration (`DurationsAssumption`); a frame keeps the fields a
decision reads, `nonce` stands for temperatures and cycle count; a motion message
is decoded or not (`wellFormed`); `sampling.enabled` and `motion.enabled` are
TRUE, as `loadAdmissionSetting` always leaves them (`service.go:536-537`).
`cancelRoundLocked` also drops the histories, which is `CancelRound` with
`Forget`. The wall clock is an offset to the monotonic one; only the motion
evidence compares them.

### SupplyBus

A slot is off, starting, on, foreign (the pack that got the ON was replaced) or
stopping. The one rule between slots is in `Permit`: a pack is switched on only
next to packs that are known to be off or known to run. `Release` of any state is
left open, because evidence of OFF may come at any time; what evidence that is,
`ReleaseNeedsEvidence` says on the detailed level. The refinement mapping
`SupplyOf` of `PackAdmission` reads the state of a slot off its reservation, its
pending OFF, the doubt about its identity and whether it is seen running; `ImplementsBus` is
`SupplyBus!Spec` under it, so every step of the gate is a step of the bus or
leaves it alone. It catches what no single invariant does, for instance a
pending OFF that turns back into "on" without a confirmation.

### DualPack

The gate's beliefs next to the truth. Packs are *external*: the repository holds
no BMS, so they are modelled from what the service relies on. A pack acts on a
command or drops it within `TimeCmd` (the interval the readers leave,
`BMSTimeCmd`), except that a pack that was not running may take `startDelay` to
start; it writes its state to its tag at once and a new measurement every time
unit; an inserted pack shows an arbitrary old snapshot; a removed pack supplies
nothing. `origin` remembers who switched a pack on, because the gate cannot know
of a pack that was on before it started.

`world` is chosen from `Worlds` at start and never changes: voltages and charges,
which pack is where and which already run, the limits that get set, and what may
happen. A run over several situations costs the sum of their state spaces, where
independent constants would cost the product. `MCDualPack` names the situations.

`SettledReads` says whether the tag is sampled only `TimeCmd` after the last
command. The heartbeat of the state machine waits that long;
`cond_check_presence` reads first and waits afterwards
(`fsm/state_machine.go:363-370`), so the code does not guarantee it. The run
`DualUnsettled` shows what happens without it: a sample taken before the pack
acted on its ON (`early`) is judged by the time at which the read is complete and
ends the reservation. The history variable `misled` holds the packs to which this
happened, until they are reserved again or leave. `DualSingle` and the theorems do
without `SettledReads`: `ReservedUnlessMisled` says that a reservation is lost in
no other way. `DualParallel` and `DualSelect` assume it; what they show holds for
behaviours in which no pack is misled. `Cadence` is how often a selected tag is
read; the time it allows is far shorter than the heartbeat of the code, which only
adds reads.

### ReaderFaults

`reader` holds fault states, armed timers, the current and the previously
published frame, and what Redis holds. `setFault` and a callback's body are
atomic under `faultMu`. A timer that elapses either runs (`Expire`) or starts a
goroutine that waits (`Fire`, later `Run`), and `Disarmed` cannot stop the
latter. A read is answered, parsed and observed, and then published, because a
callback may empty `r.data` between any two of its uses. After a read or a
departure `sendStatusUpdate` runs without `faultMu`, and is three steps: `Collect`
takes the changed faults, `Exec` runs the transaction, `Mark` sets their flags
from the state they have by then; timer callbacks run in between. Called by a
callback or by `setFault`, under the mutex, it is one step. A callback's own Redis
writes are not split: to a publication they come before or after `Exec`. `overtaken`
is history: the faults that Redis has wrong since a callback changed them between
`Collect` and `Exec`. Faults without debounce that clear no others are set and cleared
together (`ApplyPlain`): their order has no effect. Redis answers or not for a
whole step.

### SeatboxPolicy

Redis holds a value per field and a queue of notices; the subscriber reads the
value when it gets to the notice; a channel holds the newest value; the reader
takes any of its channels. The state machine is `told`, the pair of latch and
enabled it last acted on. The position of the aux voltage relative to the two
thresholds is *low*, *band* or *normal*. `history` remembers that a value was not
read or not announced (`missed`), that the role changed (`switched`) and that the
seatbox opened during the ride (`bounced`); only properties refer to it.

### ReaderFSM

`reader` holds the leaf in which the machine waits, its event queue, the armed
timers (`timer` of the leaf, `heartbeat`, `early`), what the `BatteryReader`
remembers (selected tag, cached data, what Redis was last told, failures, the
evidence `quiet`/`unsure` of the search) and the bay it faces. An action is one
event taken from the queue, in one set of leaves, with everything up to the next
leaf: exits, the transition's action, condition states, entries, and the NFC
operations these call. `Leave` and `LeaveTag` are the exits; `Enter...` the
entries; `Cond...` the condition states (`cond_seatbox_lock`,
`cond_just_inserted`, `cond_state_ok`, ...). `Accepting` says where an event has a
transition at all, and `Ignore` drops it elsewhere. The other goroutines are the
poll loop of `tag_absent` (`PollForTagArrival`), the presence check
(`PollPresence`), the timers, which only queue events, and the reader's event
loop.

`librefsm` is *external* (a dependency): what the model relies on is listed at the
head of the module.

The outcome of an NFC operation comes from `scene.outcomes`: success, a frame that
did not move or cannot be decoded, a pack that disobeys, a transient error, an RF
deactivation, no tag, a failing controller, and the failures of the clean-up after
one of these. An empty bay or an exchanged pack overrules the choice (`Answer`).
A tag selected before the exchange is `lost`: it answers with a departure. The
tag on the other side of a pack may hold an old frame (`types.go:128-136`):
`older` shows the pack running, `oldest` shows another charge, as long as nothing
has been written to it (`Unwritten`). Only a pack that does not run shows one: a
running pack writes to the tag that faces the reader, and the gate admits an ON only after it
has seen a write. Frames that cannot be decoded raise fault 33 once; while it is
active another one publishes nothing. `dated` marks data from before the tag was
found again.

The gate is what the machine sees of it: it admits an ON, refuses it, asks for a
corrective OFF, or asks for one and then defers it because the evidence is gone
(`policy.gate`; `admission_reader.go:36-43`), and it holds a reservation or not (`reserved`, the negation
of `waiting()`). `GateObserves` lets it release one when the pack is off, at the
point of the cycle before the read that shows it; it may also never do so.

### DriveStart

`demand` is the deadline, the two channels of `runAdmissionRequests` and whether a
round is open. `setDriveStartStatus` is the subscriber, `PollerTicks`,
`TakeRequest` and `TakeReady` the cases of the poller's `select`, `RoundEnds` the
retry that a finished sample asks for. A prompt sets the reader's flag and queues
an event only when there is room (`prompted`); the machine answers in
`wait_update`, or takes the flag up when it gets there. The other reader is not
modelled, so a round may end at any time, with a retry or without.

## 3. The runs

Every run ends in seconds or a few minutes with two workers. All set
`CHECK_DEADLOCK FALSE`: a behaviour ends when the clock reaches `MaxNow`, when
the bound on changes is used up, or when a reader has nothing to do.

| Run | Checks |
|---|---|
| `PackPair` | `OneOutstandingActivation`, `SamplesFollowCommands`, `PairIntact`, `SecondSupplyQualified`, and the refinement `ImplementsBus`: two slots, reads returning any frame in any interleaving with rounds, ON and corrective OFF |
| `PackDisturbed` | `AbsenceNeverHidesPower`, `CommandsReserved`, `ReleaseNeedsEvidence`, `ImplementsBus`: one slot, any frame, swapped tags and serials, absence, failed reads, OFF, seatbox, shutdown |
| `PackService` | `TypeOK`, `StandstillSound`: motion reports of every kind, clock jumps, roles, limits, vehicle states |
| `DualParallel` | `PowerIsReserved`, `NoMismatchedParallel`, `SupplyKept`, `CorrectiveOffConcludes`: mismatched packs that refuse or start late, with voltages that depend on load and a limit that changes (situation `Mismatched`), or that both run at start while the limit is set and cleared (`Inherited`) |
| `DualSelect` | `HandoverBreaksBeforeMake` (`Level`: the running pack recovers to the other's voltage), `SomePackAdmitted` (`Equal`), with `dual-pack-admission` set to conservative |
| `DualSingle` | `ReservedUnlessMisled`: one slot read at any time, with a pack slow to start, under exchange and loss of sight (`Swapped`), and under OFF, self-switch-off, refusals, read errors and frames that do not change (`Stopped`) |
| `FaultReports` | `TypeOK`, `PendingHasTimer`, `FaultSetTracks`, `TransientsIgnored`, `CommsFaultHeals`, `PowerOffHonest` and, as liveness, `ReaderErrorSurfaces` and `CommsFaultEnds`: late callbacks, callbacks inside a publication, fault bits, a communication fault that comes and goes, a Redis that does |
| `Reader` | `DriveTypeOK`, `InhibitorReleased`, `SomethingPending`, `OpenLoopOff`, `DepartureNeedsQuietSearch` and, as liveness, `PowerConverges`, `PresenceConverges`, `PromptAnswered`, `DemandServed`: the state machine in twelve situations (`MCDriveStart`) |
| `SeatPolicy` | `TypeOK`, `LatchTracksSensor`, `EnabledFollowsPolicy`, `InactiveStaysDisabled`, `PolicyReachesFSM`: every field, role changes, failing Redis, changes during start-up |
| `DualUnsettled`, `FaultLatch`, `SeatBounce` | one violation each, see Findings |

### Bounds

* One time unit of `PackAdmission` is a sampling interval. `PackPair` and
  `PackDisturbed` have two instants, which is enough for a command, a read that
  spans it and a reading after it, because the limits (`TimeCmd`, `MaxAge`,
  `OnSettle`, skew) are 1 or 0: each boundary is met from both sides. The `Dual`
  runs have four instants: wake-up, ON, confirmation, OFF or a second pack.
  `DualSingle` has three, with `OnSettle` 2 and a start delay of 1: a reservation
  can be lost to an early reading in each of the three ways of `OffEvidence` (after
  an OFF, of a confirmed supply, of an ON that settled), and is.
* One round (`MaxRounds`) suffices for a pair; the handover needs three.
* `PackPair` and `PackDisturbed` let a read return any frame of a small set, so
  they do not depend on the model of the packs. `PackDisturbed` monitors one
  slot, because its properties relate fields of one slot.
* `MaxTimers` allows a timer, its waiting predecessor and one more. The debounce
  times keep the order of the code (5 s, 10 s; the 30 s of the reader fault are
  2 ticks). `MaxFailures` is 2 instead of 3, the least that tells a transient
  error from a repeated one.
* `Reader` and `FaultReports` choose a *scene* at start, as `DualPack` chooses a
  world: what may happen and, in `Reader`, how many disturbances of the NFC link
  (`faults`, counted in `spent`) and changes of the surroundings (`changes`) there
  are. Two failures reach every error path of one operation followed by one of the
  next, and the restart after `MaxFailures`; three changes are an opening, an
  exchange or a setting, and a closing. A scene also says what is in the bay at
  first (`bays`): a drained pack only where that matters. `Turned` has tags with
  old frames, `Flapping` a tag that is lost and found with failing reads while the
  seatbox moves. A failure that changes nothing is not
  counted. `MaxQueue` keeps prompts, the presence check and the event loop from
  adding to a queue of two events; the machine's own events are never held back.
  A heartbeat or an early read that fires within the second of a command cycle
  counts as a disturbance, because its period is 3 s at least.
* `MaxChanges` is 3 in `SeatPolicy`: a ride with an opening in it, or a value, the
  one that replaces it, and a change of another field between them.

### Fairness

`ReaderFaults`: time passes (`WF(Tick)`) and the Go runtime runs the callback of
an elapsed timer (`WF` of each timer's step; a timer that is stopped disables its
own step). Nothing is assumed of the reader's goroutine: `ReaderErrorSurfaces`
holds however often the state machine bounces.

`ReaderFSM`: the machine's goroutine, the poll loop and the presence check keep
running, an armed timer fires, a value in a channel is taken, Redis comes back.
A scene has finitely many failures, so fairness of a goroutine is stated for its
steps with outcome "ok"; for a timer or a channel, whose step makes it no longer
due, weak fairness is the equivalent `[]<>~due`, which TLC checks faster. Nothing
is assumed of the surroundings or of the gate (`GateObserves`, `GateAnswers`).

`DriveStart`: the ticker of the poller goes on and its `select` takes a channel
that stays ready. A demand may expire or be withdrawn at any time.

The convergence properties (`<>[]...`) therefore say what happens once failures
stop: that is the recovery the code promises. A pack that never answers, or a
controller that never comes back, is reported (`ReaderErrorSurfaces`), not cured.

### Findings

Three runs show what a comment or document says and the code does not do. The
entry in `PROJECT.json` quotes the line.

| Run | What happens |
|---|---|
| `DualUnsettled` | a tag sampled before a repeated ON took effect, in a read that completes late, releases the reservation of a running pack |
| `FaultLatch` | the second frame with the over-temperature latch publishes `present=true` again |
| `SeatBounce` | the opening is taken before the pending ready-to-drive report |

Seen while the properties were being stated, and the reason for their exact form.
These have no violation run of their own: the code reaches most of them inside the
passing runs, where a property excepts exactly the case and holds for the rest;
where no run or no property meets one, the entry says so.

* after the OFF of a handover both packs may rest at one voltage; the episode
  holds back one of them and the charge tie-break the other
  (`admission.go:338-340`, `419-423`): `SomePackAdmitted` excepts a handover;
* an OFF after an unconfirmed ON is believed after `BMSTimeCmd`
  (`admission.go:248`), so a slow pack may start afterwards: the situation `Stopped`
  of `DualSingle` reaches it, and `ReservedUnlessMisled` excepts it as a reading
  taken while the ON still waited (`misled`);
* a timer callback that runs between the collection of a publication's changes and
  its `Exec` has its own change undone: a lesser fault that a critical one cleared
  is added again, and `PublishedToRedis` is then set from the newer state, so no
  later publication repairs it (`battery_status.go:304-325`), although "Active pack
  faults are held in `battery:<index>:fault`" (`README.md:35`). `FaultSetTracks`
  excepts the faults in `overtaken`. The `present` of the status hash may be
  overwritten in the same way; no property speaks of it;
* a started callback activates the reader fault after recovery, or forgets the
  handle of a newer timer (`fault.go:97-104`): `PendingHasTimer` asks for some
  timer, `TransientsIgnored` looks at the flag;
* a skipped communication fault is marked present (`fault.go:100-101`) and
  published by the next transaction: `FaultSetTracks` lets it be missing;
* successes more frequent than the reset debounce of 10 s keep re-arming it, so
  the communication fault stays (`fault.go:85-89`, `115`,
  `nfc_operations.go:462-463` says that a success "clears it"): `CommsFaultHeals`
  says that an answer starts the end of the fault, and `CommsFaultEnds` that the
  fault ends when nothing starts the reset again for its whole time;
* two failures in one step queue two `EvReinit`, and the second one ends the
  settling time of the controller in `nfc_reader_off` early
  (`nfc_operations.go:70`, `107-110`, `449-450`; `README.md:69-70`);
* the early read that confirms a new tag is not armed again after a transient
  failure (`nfc_operations.go:193-197`);
* `cond_off` takes a pack whose first frame could not be decoded for inactive
  (`actions.go`, `IsInactive`), so it stays on in the open loop: `OpenLoopOff` and
  `PowerConverges` except it by `assumed`;
* a closing of the seatbox takes `check_presence` to `wait_last_cmd` without a
  read (`fsm/state_machine.go:752`): when an ON was written and its read-back lost,
  the tag departs, comes back and cannot be read, and the seatbox is closed and
  opened again at once, `cond_off` judges the pack, which was just inserted, by the
  data from before the ON (`:586-613`, `actions.go:206-208`) and a running pack is
  in the open loop. There it stays on for good, since that loop sends no OFF. The
  proof of `OpenLoopOff` brought it up, and the scene `Flapping` reaches it with a
  departure, a lost read and three changes of the seatbox. `OpenLoopOff` and
  `PowerConverges` except it: `assumed` is also set when the data are `dated`;
* a corrective OFF that the gate defers is not written (`nfc_operations.go:405-407`),
  and the pack runs on: `PowerConverges` asks for OFF only while the gate lets it
  through. That the gate's evidence comes back is not promised by the code;
* an empty pack rests in `wait_update` without a heartbeat: it is not read again
  after a critical fault emptied its data, its status is not published again if
  Redis was down, and it answers no prompt; nor is a full pack re-read whose
  cached data are of the empty one before it, or whose tag shows its old charge
  (`RestsEmpty`);
* the two together leave the machine with nothing to wait for, which the proof of
  `SomethingPending` brought up: an empty pack rests with the seatbox open and
  keep-active on, a critical fault empties its data (`fault.go:163-167`), and a
  full pack takes its place unnoticed (`actions.go:243-250`). `SomethingPending`
  does not except it, and no scene of the run `Reader` reaches it: `Outage` has
  exchanges and critical faults, but never turns keep-active on. The theorem
  `NeverWaitsForNothing` names the condition;
* the deferred release in `writeCommand` gives up the inhibitor that
  `heartbeat_actions` took for the whole cycle (`nfc_operations.go:391`):
  `InhibitorReleased` says when it may be held, not that it is;
* the 5-second default of a missing seatbox key sets the raw value, not the latch
  (`reader.go:104-128`), so the machine takes the open path although the comment
  there says closed;
* a demand that expired is not renewed before it is withdrawn; this is intended
  and tested (`admission_demand_test.go:39-64`, `README.md:164-171`);
* a fault bit that comes and goes during a Redis outage stays active, and a fault
  raised again during one may never be added to the set (`battery_status.go:314`,
  `346`): `FaultSetTracks` is checked with Redis up;
* the initial seatbox value overwrites a newer one fetched by the reader
  (`service.go:219`): `LatchTracksSensor` excepts `missed`;
* the enabled value posted at a role change overwrites a newer one
  (`service.go:683`): `EnabledFollowsPolicy` excepts `switched`.

## 4. The proofs

The theorems hold for every value of the constants that meets the named
assumptions of the modules: the bounds on time, rounds, changes, queues and
failures of the runs play no role in them. The assumptions are types, and these:
durations are smaller than the start time, slot 0 is monitored
(`PackAdmission`), no pack is in two slots at start (`DualPack`), debounce times and the failure threshold are positive,
hardware faults have the numbers 1 to 16 (`ReaderFaults`), the vehicle states
include ready-to-drive and stand-by (`SeatboxPolicy`), a scene lets operations
succeed (`ReaderFSM`).

| Module | Theorem | Statement |
|---|---|---|
| `PackAdmission_proofs` | `Invariance` | `Spec => []Inv` |
| | `TypeCorrect` | `Spec => []TypeOK` |
| | `OneActivationAtATime` | `Spec => []OneOutstandingActivation` |
| | `AbsentPacksKeepTheirReservation` | `Spec => []AbsenceNeverHidesPower` |
| | `CommandsAreReserved` | `Spec => []CommandsReserved` |
| `PackRelease_proofs` | `ReleasesAreEvident` | `Spec => ReleaseNeedsEvidence` |
| `PackBus_proofs` | `GateImplementsBus` | `Spec => ImplementsBus` |
| | `HandoversBreakBeforeMake` | `Spec => []HandoverBreaksBeforeMake` |
| | `CorrectiveOffsConclude` | `Spec => CorrectiveOffConcludes` |
| | `SomePackIsAdmitted` | `Spec => []SomePackAdmitted` |
| `PackEvidence_proofs` | `EvidenceSound` | `Spec => []Sound` |
| | `SamplesAlwaysFollowCommands` | `Spec => []SamplesFollowCommands` |
| | `PairsAreIntact` | `Spec => []PairIntact` |
| | `SecondSuppliesQualify` | `Spec => SecondSupplyQualified` |
| | `StandstillsAreSound` | `Spec => []StandstillSound` |
| `DualPack_proofs` | `PowerStaysReserved` | `DualSpec => []ReservedUnlessMisled` |
| | `MismatchedPacksStayApart` | `DualSpec /\ [](misled = {}) => []NoMismatchedParallel`, under `FixedPacks` |
| | `SupplyIsNeverLost` | `DualSpec /\ [](misled = {}) => []SupplyKept`, under `SteadyPacks` |
| `ReaderFaults_proofs` | `FaultsInvariant` | `Spec => []IInv` |
| | `FaultTypes` | `Spec => []TypeOK` |
| | `DebouncesAreNotLost` | `Spec => []PendingHasTimer` |
| | `FaultSetIsTracked` | `Spec => []FaultSetTracks` |
| | `TransientsAreIgnored` | `Spec => []TransientsIgnored` |
| | `CommsFaultsHeal` | `Spec => []CommsFaultHeals` |
| | `PowerOffsAreHonest` | `Spec => []PowerOffHonest` |
| `SeatboxPolicy_proofs` | `PolicyInvariant` | `Spec => []IInv` |
| | `PolicyTypes` | `Spec => []TypeOK` |
| | `LatchFollowsSensor` | `Spec => []LatchTracksSensor` |
| | `EnabledIsPolicy` | `Spec => []EnabledFollowsPolicy` |
| | `InactiveIsDisabled` | `Spec => []InactiveStaysDisabled` |
| | `PolicyIsTold` | `Spec => []PolicyReachesFSM` |
| `ReaderFSM_proofs` | `ReaderInvariant` | `DriveSpec => []IInv` |
| | `ReaderTypes` | `DriveSpec => []DriveTypeOK` |
| | `InhibitorsAreReleased` | `DriveSpec => []InhibitorReleased` |
| | `NeverWaitsForNothing` | `DriveSpec => []SomethingPending`, in scenes without critical faults, or without exchanges and old charges |
| | `DeparturesNeedQuiet` | `DriveSpec => DepartureNeedsQuietSearch` |
| | `OpenLoopIsOff` | `DriveSpec /\ [][Timely]_driveVars => []OpenLoopOff` |

**The gate.** `Inv` is the types, `SlotSafe` of each slot,
`OneOutstandingActivation` and `ReadersMonitored`. None of the parts is inductive
alone. That two activations are never outstanding rests on `requestOn` skipping a
peer only if it is not monitored, or not power-tracked and without reservation; so
a reservation must imply that the slot is monitored and power-tracked, which
`SlotSafe` says. An absent slot has no reservation because `observeAbsent` says so
at the moment of the absence; that it *stays* so needs that an ON requires a valid
reading and that an absent slot has none. The argument goes by the operation on
one slot. `Quiet(i, s, t)` says that the change of slot `i` from `s` to `t` keeps
it safe and makes no new unconfirmed activation; each of the operators that build
a slot (`ReplaceIdentity`, `Recorded`, `Resolved`, `Granted`, `OffReserved`, ...)
has a lemma that its result is quiet. Every action except `ActivateOn` changes
slots quietly, and `ActivateOn` is the one place where `PeerPermits` is used.
`PackRelease_proofs` adds the one fact of `ReleaseNeedsEvidence`: only `Resolved`
ends a reservation, and only on `OffEvidence`.

**The bus and the episodes.** `PackBus_proofs` sums up the steps once: an action
changes the command state of one slot at most, and in one of a few ways (the slot
is seen running, released, withdrawn, activated, or its pack replaced). Each of
these is a step of `SupplyBus` or a stutter; `Permit`, the one rule between slots,
comes from `PeerPermits` and `OneOutstandingActivation`. The same summary, with
what each action does to the episode, keeps `HandoverBreaksBeforeMake` (inductive
together with `Inv`) and gives `CorrectiveOffConcludes`. `SomePackAdmitted` needs
no step: the choice between two candidates is total.

**The measurements.** `SamplesFollowCommands` and `PairIntact` hold because a
command cancels the round and forgets the histories. To carry this through a read
that spans a command, `Sound` also says what the open round knows: it is newer than
every command and than the last pair, its samples were taken inside it, and no
command lies in the future. That a pair satisfies the alignment test of
`requestOn` uses the two limits of `sampling.go`, which add up to `MaxSkew`.
`SecondSupplyQualified` follows from the guards of `ActivateOn` and `Sound`.

**The packs.** `ReservedUnlessMisled` joins the gate with what it cannot see. No
assumption on timing is made: tags are read at any moment, packs start as late as
they like, and an OFF may come while an ON waits. `DualInv` adds to `Inv` and
`HandoverBreaksBeforeMake` the types of the packs, `PacksSound` (a pack is in one
place, one that delivers says so on its tag, an unread ON has a sender) and two
facts of each slot. `Acquainted`: reader and gate mean the same pack. `Supplied`,
of a pack that the gate switched on: it is identified; if it is powered it is
reserved or misled; and a sample that shows it off was taken before it had acted on
its ON, and says so (`SampleHonest`). The last part makes the invariant inductive:
the sample is taken in one step and judged in a later one. Most steps leave most
slots alone; `Undisturbed` and the lemma `SlotKept` say that once for all actions.
`PowerIsReserved` itself is not proved: it fails without `SettledReads`
(`DualUnsettled`), and with a slow pack and an OFF also with it.

Two more results rest on what the gate can know of packs that stay where they are.
`TagsInv` adds to `DualInv` what a tag can say: a pack that is off but whose tag says
active has not written to it yet, and as long as it has not, no reading of it counts
(`TagsHonest`, `StaleKnown`); a pack that ran from the start is sampled as running
(`InheritedShown`). Every step is then of one of five kinds, by what it does to the
gate's view of the packs: none (`CalmStep`), the loss of one slot's view
(`BlindStep`), the sampling of a tag, a completed read, an ON. The two invariants
on top of `TagsInv` are kept kind by kind.

* `MismatchedPacksStayApart`: `ApartInv` says that a valid reading holds the pack's
  own voltage (`VoltageTrue`), that the gate sees a pack which ran from the start
  (`InheritedSeen`), and that next to a pack that was started anew no pack too far
  from it runs, is reserved or is about to be taken for running (`NewApart`). An ON
  is the step that matters: the other slot is then off by its reading, within the
  limit, or unknown, and an unknown slot makes the gate refuse (`Hidden`).
  `FixedPacks` is what this needs. No exchanges: a pack that is taken out and put
  back unnoticed, with a tag that still says active, is taken for the established
  supply, and its ON is repeated without a comparison, so the property is false
  there. The limit may change as long as it is not cleared, which lets any second
  pack on; packs count as mismatched if they differ by more than every limit that
  is set, under whatever load (`Mismatch`), because the gate compares what it last
  read, under the limit of that moment. A pack that ran from the start must be in
  sight, or the gate cannot know of it. The situation `Inherited` of
  `DualParallel`, whose limit is cleared and set, stays with TLC. `misled = {}` is
  needed because a pack that lost its reservation to an early reading no longer
  counts, and the next ON is admitted without it;
* `SupplyIsNeverLost`: `SupplyInv` says, where a pack ran at the start, that what
  the gate takes for running does run unless it has an OFF pending
  (`SupplyKnown`), and that some slot has a running pack, no OFF on its way and
  none pending (`Retained`). A corrective OFF is reserved only while the
  pack to be kept is read as running and has no OFF pending (`IsolationReady`), so
  that pack is the retained one, and no later step takes it for the victim. `SteadyPacks` excludes what ends the remaining supply by other
  means: an exchange, an OFF from outside the gate, a pack that stops by itself, and
  the handover of conservative admission, which stops one pack before it starts the
  other.

**The faults.** The invariant ties a pending flag, the pointer to a timer and a
live timer of that fault and kind together, with distinct identities for live
timers. A late callback also clears the pointer of a younger timer; so the
converse, every timer is pointed to, holds only while no callback waits, and
`CommsFaultHeals` needs it. `FaultSetTracks`, `TransientsIgnored` and
`PowerOffHonest` are parts of the invariant that need the first part when a
callback runs. A publication keeps `FaultSetTracks` fault by fault: what it collected
is still true at `Exec`, or the fault is `Stale` there and joins `overtaken`, from
which it leaves only when Redis and the reader agree again (`Remember`). `Mark` may
leave a wrong flag behind, so the flags are no part of the argument.

**The policy.** The invariant follows a value through its stations: as long as
nothing was missed, the reader's copy is the field of Redis, or the channel holds
it, or a notice that will fetch it is queued. What the channels overtake is settled
by what each handler leaves behind: the latch never hides a closed lock, enabled is
at least what the policy wants or a refresh is posted, and what the state machine
was not told waits behind a restart.

**The state machine.** `IInv` says of each leaf that it has its own goroutines and
may hold the inhibitor or not, and that its timer is armed or the event into which
the timer turned is queued; in `wait_update`, that a heartbeat runs or an empty
pack rests. An NFC operation loses no event, takes no inhibitor and forgets no pack
(`Kept`), a state's exit leaves nothing of it behind (`Away`), and every entry from
such a state reaches a leaf that is in order (`Reaches`); the lemmas follow the
operators of the module, and one lemma per action puts them together. That an
event is in the queue, not at its head, is enough, because events that have no
transition in a leaf are dropped. That an empty pack never runs (the BMS does not
obey) is needed for the rest in `wait_update`, which the machine enters on the word
of old data.

**The open loop.** `OInv` adds to `IInv` what the machine believes of the pack. It
is `Honest` when a pack that runs does not look off in the cached data, unless these
are `dated`. A step that is not an ON switches no pack on and keeps the reader honest (`Goes`); an ON whose
read-back is lost does not, so honesty cannot be the invariant. What is needed is
less: a pack that was just inserted is judged honestly (`Fine`), no cycle of the
heartbeat has the flag, and the word `off_confirmed_inactive` is queued only while
the pack is off. An ON after that word would make it a lie, so the queue must be
ordered (`InOrder`): no timeout of `send_closed`, which leads to the ON, lies in
front of the word, and for this none lies behind a timeout of `send_off`, which
leads to the read that sends it. One hypothesis comes from there,
`Timely`: the timer of `send_closed` does not fire while a timeout of `send_off`
from an earlier walk is queued. In `send_closed` an event from before the entry is
dropped or leaves the leaf and stops its timer, at once, and the timer runs for
400 ms; it could be otherwise only if `librefsm` armed the timer before the
entry's NFC write and the write took longer than that. The run `Reader` does not
assume it.

Only model-checked:

* the liveness properties `ReaderErrorSurfaces`, `CommsFaultEnds`, `PowerConverges`,
  `PresenceConverges`, `PromptAnswered` and `DemandServed`: fairness is outside
  the prover;
* `PowerIsReserved`, under `SettledReads` for the packs of `DualParallel`;
* `NoMismatchedParallel` and `SupplyKept` in the situations that `FixedPacks` and
  `SteadyPacks` exclude;
* `OpenLoopOff` in behaviours that are not `Timely`;
* `SomethingPending` outside the condition of `NeverWaitsForNothing` does not hold,
  see the list above.

## 5. Not modelled

* Durations of the state machine, except where they forbid an order: the choice
  that `justOpened` makes between two delays, and the settling time of the
  controller, change when something happens and not what.
* `librefsm`, the NFC controller and the packs: external, modelled by how the code
  uses them. Retries inside one NFC operation (`SelectTag`, verification reads,
  the cold-boot reinitialization) are part of its outcome.
* The composition of `ReaderFSM` with `PackAdmission` for two readers: the product
  is out of TLC's reach. Each is checked against the other's interface instead:
  the gate accepts reads and writes in any order (`PackPair`, `PackDisturbed`), the
  machine accepts any answer of the gate. What is lost is that the machine's
  order of reads and commands would discharge `Cadence` and tell which reads come
  before the command interval is over.
* The deadline that confirms a tag whose frames never move: a scene has finitely
  many of these frames.
* `stoppedPairReadyLocked` is not reached, since `requestOn` refuses a second
  supply while driving before it asks.
* The plausibility guard of the first two sensors and the temperature state change
  what is published, not what is decided, except that a substituted sensor makes a
  read fail, which `FailRead` and the validity in `Publish` stand for.
* The 5-second default of the initial state, which is a data race with the event
  loop; `SeatboxPolicy` starts with both keys in Redis.
* Start, Stop and `cleanupFaultManagement` end goroutines; the socket of the power
  manager, Redis reconnection, the command line and the log are I/O. Diagnostics
  work on a clone of the gate.

## 6. The plan

Done: the gate, its packs and the abstract bus, the faults, the seatbox policy,
the state machine with discovery and inhibitor, the drive-start demand, and the
proofs of section 4: every invariant and every action property of the passing runs
but `PowerIsReserved` is stated by a theorem, under the conditions that the table
names. What is left is the liveness that the prover cannot express, and the
composition of `ReaderFSM` with `PackAdmission` for two readers.
