# Verification of dbus-deye-battery

TLA+ models of the driver that presents a Deye LV battery to Victron's Venus OS,
the TLC runs that check them on small instances, and proofs that hold for every
value of their constants. `B/` below stands for `src/deye_virtual_battery/`;
paths are relative to the repository.

- [1. The system](#1-the-system)
- [2. Modules and how they correspond to the code](#2-modules-and-how-they-correspond-to-the-code)
- [3. What the runs check](#3-what-the-runs-check)
- [4. What is proved](#4-what-is-proved)
- [5. Findings](#5-findings)
- [6. Not modelled](#6-not-modelled)

To repeat the checks: `tlc -config MCShadow.cfg MCShadow`, and so on for each
`MC*.cfg` (the module is named in section 3); `tlapm ShadowProofs.tla`, and so on
for each `*Proofs.tla`.

## 1. The system

### Components

| component | state | operations | correct when |
|---|---|---|---|
| CAN intake, decoder (`B/decoder.py`) | none | frame to fields; asks the profile for some | an implausible value is a rejected field, never a wrong valid one |
| Id layout (`B/id_layout.py`) | evidence, active flag | `normalise` | ids are shifted back only on a bus that is proven to be shifted |
| Field cache (`B/cache.py`) | one record per field, event logs, sign cross-check | `apply`, `snapshot` | a field is usable only while fresh; the cross-check counts for the present profile |
| Profile detector (`B/profile.py`) | recent markers of two families, profile, list of changes | `observe`, `resolve` | strays do not move a right profile; all parts of a snapshot see one profile |
| Bank view (`B/packs.py`) | none | sums and extremes over the fresh packs | an incomplete bank is never summed as complete |
| Policy (`B/policy.py`) | none | `evaluate_policy`, a function of a snapshot | a limit is published only from fresh data and never above what the battery asks for |
| Stateful shadow (`B/stateful.py`) | lifecycle, loss countdown, alarm bank, charge voltage filter | `step` | see the first group of properties in section 3 |
| Runtime clock and core (`B/venus_runtime.py`) | last times | `now`, `process`, `step` | time never goes backwards |
| Publisher process (`B/venus_bms_publisher.py`) | qualified service, bindings, main loop | `run`: drain, step, publish every 250 ms | what is published has a bounded age; nothing is registered that nobody updates |
| Keepalive transmitter (`B/can_keepalive.py`) | a thread, the values it shares, a remembered pid | `_run`, `StockDriverWatch` | no more than the pair in flight goes out beside the stock driver |
| Hand-over (`install/service/handoff-can-owner`, `rollback-can-owner`, `install/rc.local`) | consent marker, arm file, the stock service's wanted state | shell scripts | the inverter always has exactly one sender again, and a rollback is final |
| Device instance (`B/venus_instance.py`) | none of its own; reads and writes reservations in localsettings | `resolve_device_instance` | the instance the user has selected does not move, and no two batteries have one |
| VE.Bus locator (`B/venus_discovery.py`) | cached service name, last attempt | `resolve`, `invalidate` | at most one listing per interval, and the service found again; the cross-check stays with its inverter |
| Stage publisher (`B/venus_stage_publisher.py`) | as the publisher, for a bounded time | `run` | as the publisher; gone once a battery is selected |
| Offline replay (`B/simulation.py`) | reorder heap | `simulate_recordings` | frames in order, readings between the right ones |
| D-Bus model, simulator, capture tools, installer | none that outlives a run | | |

### How they interact

Frames reach `VirtualBatteryCache.apply`. It shows each to the profile detector,
copies the detector's changes, undoes a shifted id, decodes, and stores the
fields. Four times a second the publisher's update drains the socket, reads the
VE.Bus voltage, takes a snapshot of the cache and gives it to
`StatefulShadow.step`, which evaluates the policy, advances the lifecycle and
filters alarms and limits; the result goes to D-Bus. The keepalive transmitter
is a thread of the same process. It shares nothing with the main loop but the
values the loop publishes (`Owner`, `FeatureEnabled`, `PairsSent`, `Errors`), and
it talks to the hand-over scripts by two files, the consent marker and the arm
file, by those published values, and by whether the stock driver is found in
`/proc`. The scripts and the supervisor (`svc`) are separate processes.

### What is hard

- *Interleaving and crashes.* Thread, main loop, two scripts, supervisor, stock
  driver, signals, reboots. Each reads what another wrote some time ago.
- *Time.* Five lifecycle states with two qualification times, one candidate per
  alarm path, a charge voltage filter, a countdown over a whole outage: what must
  be measured from the start of a run of steps, and restarted by what.
- *Queries with effects.* Asking the detector for the profile may change it.
- *Blocking.* One thread drains the socket, asks other services questions that may
  take seconds, and publishes; frames are stamped when they are taken out.
- *Overlapping ids.* Some firmware clears a bit of its frames' ids, so that they fall
  on those of other frames.
- *Bounded lists.* Lists that are trimmed and counters of what was copied.
- *Numbers.* Thresholds that scale with the series count and others that do not.

Every hazard, with its line and the properties aimed at it, is listed in
`PROJECT.json`.

## 2. Modules and how they correspond to the code

`PROJECT.json` maps each definition to its lines. Times are integers; `None` is
`-1`.

### The stateful shadow

- **AlarmBank** has the operators of `DebouncedAlarmBank` (`stateful.py:55-104`) on
  the state of one path, and the voltage-disagreement level: `RawVoltageLevel`
  from `policy.py`, `VoltageAlarmTarget` with its hysteresis from `stateful.py`.
  Voltages are in centivolts, the thresholds those of the two configurations, so
  that the series count `CellCount` matters as it does in the code.
- **Shadow** is `StatefulShadow.step` (action `Step`), with one conjunct per part of
  the method in its order: lifecycle, loss countdown, alarms, charge voltage. Of
  the cache it has the times of the last frame and of the oldest required control
  field (`ReceiveOther`, `ReceiveControl`); `Tick` is the runtime clock. What the
  policy says in a step is an input: whether the required fields are known, the
  charge voltage it asks for, the voltages, the other alarm levels.
- **QualifiedService** is the abstract specification of the lifecycle: *connected
  exactly while every step has been ready for long enough*, with none of the five
  states.
- **ShadowRuns** adds history variables, each the first step of a run of steps that
  agree on something, states the properties in their terms, and maps Shadow to
  QualifiedService. **MCShadow** has the observations for TLC.

### The hand-over

- **Keepalive** is the transmitter's thread, with one step for each thing it reads
  (feature marker, arm file, process table) and each frame it sends, because
  another process can act between any two of them; the stock driver watch with
  its remembered pid; and the publisher process around it (start, publication,
  the update that raises and unregisters, exit, kill). A deadline
  (`next_send`, the rescan interval, the publication period) is passed or not by
  choice. `PairsSent` and `Errors` are flags, since the scripts only compare them
  with zero.
- **Handoff** has the scripts, one step per command, with the `EXIT` trap, `set -e`
  and signals, both loops that count their attempts, and the reboot by which
  `rc.local` starts a handoff in the background. A signal is one at any command: where
  a trap is set it runs (`Trap`); before it is set, inside it (its first command resets
  it) and anywhere in `rollback-can-owner` it ends the script on the spot
  (`KillHandoff`, `KillRollback`), as `KILL` does everywhere. The stock driver and its
  supervisor are external.
- **Ownership** puts them together with an operator (one command at a time) and
  faults, and states the properties. `cut` remembers that a signal hit one of the three
  places (`Cut`) where it leaves the stock service down with nothing to send in its
  stead. `RollbackDuringBoot` says whether the
  operator may run a rollback beside the handoff that `rc.local` has started:
  nothing in the scripts prevents it, and the guarantees differ (section 5).

### The profile detector

- **Profile** has the detector (`Observed`, `Candidate`, `Resolved`), the cache's
  copying of its changes (`Synced`), the sign cross-check (`Compare`), and one
  action per kind of frame, plus `Snapshot`. Every question the code puts to the
  detector is a step `Resolved` in the code's order, so a snapshot has four. The
  detector's list of changes is its length, `Listed`.
- **ProfileBus** adds the bus: a sender that changes its profile at most once,
  stray identifiers of the other family, and a count of the contradictions the
  cross-check should have seen under the present profile.

### The device instance

- **Instance** is `resolve_device_instance` with the callbacks that
  `_resolve_instance` gives it, one step per access to localsettings (the selection,
  each reservation, the allocation), because other drivers use it in between.
  `Candidates` has the order of the identities; a serial is known at a start or
  not. `store` is localsettings, external: it gives an identity it does not know the
  configured number or the next free one, as the repository's own tests assume. A
  lost answer of an allocation may have taken effect.
- **Instances** puts several drivers on one system, with a user who selects a battery
  that is on the bus and exchanges cables of stopped drivers. An *upset* is a failed
  access, an exchange, or a serial that was known and is not any more.

An identity is a value of its own: a settings id that two adapters share, or two
serials that are equal after `sanitize_settings_id`, are left out, and so is the
upper bound 32767 of a number.

### The bank and its charge limits

- **Bank** has what the cache holds of a parallel bank (which packs are known, the age
  and content of the frames 0x110, 0x364 and 0x351, which 0x250 values are usable),
  BankView as operators on it (`Online`, `Expected`, `Complete`, `MosClosed`,
  `Ceiling`), and of `evaluate_policy` the readiness and the limits (`CriticalReady`,
  `Ccl`, `Dcl`, `Cvl`). One action per kind of frame; of 0x351 there are three, since the
  charge voltage is judged by its own range and the currents by both voltages'
  (`ReceiveLimits`, `RefuseCurrents`, `RejectLimits`), so that each has its age; `Age` and `ExpireAllowance` are
  the passing of time for `FieldState.snapshot`. The MOS of a pack, the count of
  packs that block and the request exist for either direction, in other bytes of the
  same frames, and are read alike: one of them is in the state. It stands for charge in
  `Ceiling`, `Ccl` and `Cvl`, for discharge in `Dcl`.
- **BankRuns** adds the packs themselves, which open and close their MOS and leave
  and join the link (the master stays), and sends a frame of what is true now, or
  none, at any time: loss of every kind, but no delay.
- **PackAlarms** has the alarms: the union of the conditions of the packs online and
  the worst fault level (`Conditions`, `FaultLevel`), the level of an alarm path
  (`Alarm`), and the test whether a pack's protection is answered by its own MOS
  (`Uncoordinated`), or names no direction, so that no MOS can answer it (`NoStop`, for
  the nine conditions of `policy.py:147-157`), over frames 0x110 and 0x400 that age
  apart. A pack is in one of five states (quiet, warned, full with its charge MOS open,
  too hot with both MOS open, failed with its MOS closed); three alarm paths stand for
  the others, which are other rows of one table.
- **MCBank** has an instance of both for TLC. They share no field but a pack's MOS, of
  which each has its own, so a behaviour is one of limits or one of alarms.

The fields that Bank does not have (measurements, 0x359, the reasons that stop charge
beside MOS and request) are taken as fresh and as no reason, and 0x371 as equal to
0x351.

### The publisher's loop

- **Publisher** is the one thread of `venus_bms_publisher.py`, and of
  `venus_stage_publisher.py` as a mode of it. `Start`, the rounds of `_qualify`
  (`BeginRound`, `TakeTime`, `Step`), `Register` with the time the device instance
  takes, the question for `BmsInstance` that is logged before the main loop starts
  (`Announced`), then the rounds of `update` (the same, and `Publish`), with the `Watch`
  that drains the socket between them until `recv` fails in it (`WatchFails`: the main
  loop then goes on without it), `UpdateFails` for an exception anywhere in a round,
  and `Exit`, which may come at any time and takes the D-Bus service along. A question
  over D-Bus is time that passes (`Patience`) and an answer, or none. Frames wait in
  the socket and are stamped as `_drain_can` does, by a `RuntimeClock` over a wall
  clock that somebody may set (`Anchor`). The lifecycle is what it promises,
  `QualifiedService!Sample`, which Shadow is shown to implement.
- **PublisherRuns** adds since when a battery has been selected, the properties, and the
  invariant behind them.

### The inputs

- **Locator** is `VebusLocator` with the read that drives it, on a bus whose services
  come, go and stop answering; a listing or a read may fail. **LocatorRuns** counts the
  listings and remembers since when the bus has been steady.
- **IdLayout** is `ShiftedIdLayout.normalise` on a bank in which any set of packs has
  the firmware that clears bit 10. A frame is the id that is documented for it; the
  model puts it on the wire and reads it back. Evidence, veto, targets and the energy
  counters' memory are those of the code, one counter standing for the two.
- **Replay** is the generator of `simulation.py` with its heap and window, and the two
  loops that apply frames up to the time of each VE.Bus reading. **OrderedFeed** is what
  it promises: frames in order, each reading with exactly its past, with no window, heap or
  generator.
- **MCInputs** checks the three in one run; they have nothing in common.

## 3. What the runs check

A run that passes checks all behaviours within its bounds; a run that is expected
to fail demonstrates a finding of section 5.

| run | module, cfg | shows |
|---|---|---|
| `shadow` | MCShadow, MCShadow.cfg | lifecycle, countdown, charge voltage, debouncing and hysteresis with 16 cells |
| `alarms_20s` | MCShadow, MCAlarms20.cfg | *violation*: a disagreement alarm of a 20-cell pack never clears |
| `ownership` | Ownership, MCOwnership.cfg | hand-over, safety and liveness |
| `rollback_is_final` | Ownership, MCRollbackIsFinal.cfg | *violation*: a boot handoff undoes a completed rollback |
| `rollback_dead_driver` | Ownership, MCRollbackReturnsStock.cfg | *violation*: a rollback with our service unregistered stops half way |
| `profile` | ProfileBus, MCProfile.cfg | detector and cross-check |
| `profile_readings` | ProfileBus, MCProfileReadings.cfg | *violation*: one snapshot, several profiles |
| `instances` | Instances, MCInstances.cfg | granted numbers are unique, the selected one stays |
| `bank` | MCBank, MCBank.cfg | limits and alarms of a parallel bank with lost frames |
| `publisher` | PublisherRuns, MCPublisher.cfg | age and renewal of what is published |
| `inputs` | MCInputs, MCInputs.cfg | VE.Bus locator, id layout, replay |
| `instances_unique` | Instances, MCInstancesUnique.cfg | *violation*: two batteries with the configured number |

### Properties

`shadow`:
- `ImplementsQualifiedService` — the lifecycle is the qualified service; no path
  through the five states connects early, late, or after a gap.
- `BolCountsWholeOutage` — the loss countdown starts with the first step that is not
  online and no later change restarts it.
- `StaleAlarmCoversOutage` — the stale-data alarm is at level 2 from the step that
  disconnects until the clear time after the one that reconnects.
- `CvlNeverAboveTarget`, `CvlRisesQualified`, `CvlCatchesUp` — the published charge
  voltage falls at once, rises only to what every step of the qualification time
  has asked for, and is not stuck below it.
- `AlarmMovesQualified`, `AlarmCatchesUp` — a level moves if and only if its target
  stood for the delay of that move.
- `HysteresisNeverBelowRaw`, `AgreementReleasesAlarm` — the hysteresis hides no
  level, and lets go when the voltages agree at a resting voltage.

`ownership`:
- `OverlapAtMostOnePair` — beside a stock driver that starts at any time no more
  than one pair of frames goes out.
- `RollbackIsFinal` — after a completed rollback only the pair in flight goes out.
- `StockDownIsOwned` — the stock service is wanted down only while the transmitter
  is armed with consent, or a script that can undo it is running, or a rollback
  has said that it failed, or a signal hit one of three places: the trap between
  lines 113 and 114 of `handoff-can-owner`, the proof between 159 and 160, and
  `rollback-can-owner` between 30 and 41. At every other place a signal is safe.
- `BusNotAbandoned` — again and again the stock driver runs or a pair goes out,
  unless a rollback failed or a signal hit one of those places.

`profile`:
- `RightProfileStays` — a profile that is the sender's is not moved by fewer strays
  than count as evidence while the sender is heard.
- `CrosscheckWhileListed` — until the list is trimmed, streak and conflict are
  those of the present profile.

`instances`:
- `GrantsUnique` — two batteries on the bus share a number only if one of them
  publishes a number it has not been granted (configured, pinned or fallback).
- `SelectedStays` — without upsets, a driver that finds the number it published
  before selected publishes it again, whatever else has been started, reserved or
  selected since.

`bank`:
- `PermissionBacked` — when no pack has accepted current for longer than the freshness
  limit, the published current is zero and the charge voltage that of a blocked bank,
  whatever was lost and whatever the master asks for.
- `StandingBankCharges` — when the bank has stood for that long and the master's count
  arrives, a request within what the accepting packs allow is published as it is,
  whichever of the packs' frames are lost. The current is that of an accepted frame; the
  charge voltage may be that of a frame whose currents were refused.
- `StandingBankDischarges` — the same for discharge, for any request: nothing but the
  MOS states may reduce it.
- `AlarmsFollowPacks` — once the packs stand, no alarm is below what a pack that is heard
  is worth, and none is above what some pack is worth.
- `FlagFollowsPacks` — once the packs stand, the flag for unanswered protections is up
  for a pack that is heard and whose protection its MOS does not answer, or no MOS can;
  and only for such packs.

`publisher`:
- `PublishedDataAge` — limits written while connected are no older than the freshness
  limit and the questions of the round, and what a frame may have waited in the socket
  before: the last round of the qualification, the registration, and a period or the
  question before the main loop, whichever way the wall clock is set.
- `RenewedOrWithdrawn` — what is on D-Bus has been written within the questions of a
  round and a period, or, the first time, the question before the main loop.
- `SelectedIsWithdrawn` — a service that is not to be selected is gone, after it is,
  within the same time.

`inputs`:
- `ListingsBounded`, `FoundAgain` — the locator lists the names once per interval at
  most, and yet reads a voltage again within the longer of the interval and one cycle,
  and two cycles more, after the bus has become steady.
- `CrosscheckStays` — the cross-check moves to another inverter only after a read of
  the present one failed, and never from a configured one.
- `ReadAsDocumented` — whichever packs shift their ids, a frame is read under its
  documented id, except for those that arrive on an id left to another frame (the bank's,
  the inverter's, a pack's `0x110`) and counters that look like a summary before they
  have been recognised.
- `CountersStayCounters` — counters that have been recognised are never again read
  as a summary.
- `ImplementsOrderedFeed` — the replay is the ordered feed: the next frame applied is
  always the first of all that are still to be applied, those the generator has not yet
  read included; a reading samples when the frames up to its time have been; only a
  capture with a late line is given up, and then for good.
- `SampleSeesItsPast` — a reading has been compared with exactly the frames up to its time.

### Bounds

- `shadow`: 10 ticks, startup and reconnect times as in the code (2 and 3 s), the
  freshness limits shortened to 1 s, the charge voltage qualification to 3 s and the alarm times to
  1, 2 and 3. Ten seconds hold a connection, an outage, a failed reconnect and a second
  one. Three charge voltage targets: a raise, a raise replaced by another one, and a
  fall; voltages on both sides of each threshold, including one that is held only by the
  exit of level 2. A behaviour varies the targets or the voltages, which the shadow never
  brings together.
- `ownership`: two commands and two faults (crash, kill, reboot, signal, stall, I/O
  error, end of the stock driver) at any step. Two of each are enough for a
  rollback after a handoff with a fault in either, and for a fault in the undoing
  of a fault. Each of the three places of `Cut` is reached: without any one of them in
  it `StockDownIsOwned` fails. Time has no bound.
- `profile`: 6 ticks of 0.75 s (the quiet time is one, the evidence timeout is
  shortened from four to three, the hold to four), at most 4 changes and a list
  that keeps 2, so that trimming happens; a conflict at 2 contradictions instead of
  5; one stray, with 2 frames needed. `profile_readings` has the code's times in
  quarter seconds.
- `instances`: two adapters and two packs, one adapter with a settings id of its own
  and one whose interface may have a reservation of another device class, the stock
  driver with or without the preferred number, one upset. Seven identities can never
  need a number above `MaxInstance = 6`, since at most five of them are asked for.
  Restarts have no bound.
- `bank`: two packs with the allowances of the repository's test of the same bank, a
  freshness limit of one tick instead of 3 s, and the ages stop one tick above it, so
  that frames of three ages meet; a charge voltage on either side of the ceiling. Two
  packs suffice for a bank that is complete, has one pack not heard, or only its
  master. Neither time nor the number of frames has a bound; ages that stop make the
  state finite.
- `publisher`: 8 ticks. The period is one tick, and the questions of a round, like the
  one before the main loop, take up to two, so that neither hides the other; freshness
  is none, the registration takes up to one; the socket holds one frame, as only the
  newest counts; the wall clock jumps by three. Enough to qualify, register and make a
  round with a frame that has waited through all of them: each of the three limits is
  reached, and one tick less is violated. Starting over has no bound.
- `inputs`: two services and 12 ticks against an interval of 3 and at most 2 between
  reads; four packs whose frames fall on each kind of other id, with counters that grow
  into the range of a summary and through it; every capture of up to four lines with
  four timestamps and a window of one, which suffices for a line that is late, one that is
  just not, and two of one time.

Deadlock is checked in all of them but `inputs`, where a replay ends with its capture;
where a clock ends, steps without time remain.

### Fairness

Only `ownership` checks liveness. (The deadlines of `publisher` and `inputs` are part of
their clocks: time does not pass where the code's own time-outs would have acted, and the
length of a blocking question is a constant.) Weak fairness: the thread loops for ever, the
publisher's timer and the supervisor keep running, the shell scripts go on to
their next command. Strong fairness: a deadline the thread tests in every
iteration (`SendDue`, the rescan of `/proc`) is found passed at some time, as it is
a fixed interval against a clock that advances; a loop of a script that counts its
attempts gives up at some time (`GiveUp`). Nothing is assumed of the operator,
faults, or what the scripts read.

## 4. What is proved

TLAPS checks each proof to the last leaf; no module with proofs relies on anything
but the assumptions its constants carry (delays are naturals, counts are positive,
and so on) and what a theorem names.

**ShadowProofs**, for all delays, targets and alarm paths. `Invariance` establishes
the inductive invariant `IInv` of ShadowRuns. The properties are not inductive: that
the published charge voltage catches up needs to be known of a *waiting* candidate
(it is the present target, since the start of the target's run, and not yet due),
and the same of alarm candidates; the countdown needs its equality with the start
of the outage in every state; the refinement needs what each lifecycle state says
about the run of ready steps (`LifecycleInv`). From it: `TypeCorrect`,
`BolCountdown`, `CvlSafe`, `CvlNotStuck`, `CvlRises`, `AlarmMoves`, `AlarmNotStuck`,
`StaleAlarm` (when raises to level 2 are not delayed, as configured),
`HysteresisHolds` for 16 cells or more and `AgreementReleases` for 16 or fewer (the
thresholds scale with the series count on one side only, see section 5), and
`Refinement`: Shadow implements QualifiedService, initial states to initial states
and each step to a step or a stutter.

**OwnershipProofs**, for any number of commands and faults. `OwnershipTypes` and
`Overlap` hold without further assumption. `OverlapInv` relates the frames that have
gone out beside the stock driver to the thread's place in a pair; that a look at
the process table cannot report the driver absent while it runs is what keeps a
second pair from starting. `RollbackFinal` and `StockDown` assume
`~RollbackDuringBoot`, and rest on `OwnershipInvariance`: which commands of a script
imply marker and arm file (`ScriptsInv`), who answers for a stock service that is
down, a signal at any command included (`OwnedInv`), and that after a completed rollback
only a thread which had read the consent before can still send (`RevokedInv`). Without the assumption the run
`rollback_is_final` violates the property.

**ProfileProofs**, for any times, counts and bus. `ProfileInvariance` rests on
`CrosscheckInv`: a change that has not been copied yet has ended the count of
contradictions, and when all are copied the cache counts what there is to count.
The delicate point is that a frame copies the changes up to some question and the
detector may change again at the next one; `Copied` treats them all at once. From
it: `ProfileTypes` and `Crosscheck`. `RightProfileIsKept` is about the evidence itself and
rests on `StraysInv`: of the markers of the other family that are kept, those from after
the sender's change are among the last ones, no more than there were strays, so that with
fewer strays than a switch takes the oldest that counts is from before the change, and too
old. `SnapshotsAgree` says when finding 4 of section 5 bites: outside `BothOvertaken`, the
overlap in which each family is fresh and due to be replaced by the other, a question
repeated gets the answer it got before, and a snapshot sees one profile (`UnknownInv` is
for a detector that knows none).

**InstanceProofs**, for any number of drivers and packs. `InstanceInvariance` rests
on `StoreInv` (no number is reserved twice), `OwnInv` (a driver asks only under
identities that are its own, and a stopped one holds none, as its cable may move)
and `GrantedInv` (a granted number is still the reservation it came from). From it:
`InstanceTypes` and `GrantsNeverShared`; with `UngrantedInv` also
`OnlyTheConfiguredIsShared`: what finding 5 of section 5 shows can happen to the configured
number only, whatever accesses fail. `SelectedNeverMoves` needs to be known of a driver that
runs, stops and resolves again what it will find: `StaysInv` says, as long as nothing has
been upset, that what it published last is the configured number or the first reservation
among its identities (`KeptInv`), that those asked for so far are not reserved
(`AskedInv`), and that a reservation under the serial is one the driver knows of, as a
serial that is first known later would otherwise find another number. What localsettings
does (`Grant`) is the assumption all of it makes.

**BankProofs**, for any number of packs, any allowances and freshness limit.
`BankInvariance` says what a fresh frame tells: that a pack or the bank accepted charge
when it was sent (`MosInv`, `CountsInv`), and, if nothing has changed since, that it
still does. `PermissionIsBacked` follows since each source of a permission is such a
frame. `StandingBankIsCharged` follows since the online packs of a standing bank are
linked ones, so that they are as many as the master counts only if they are all of them;
otherwise the ceiling is dropped and the count speaks for the rest.
`StandingBankIsDischarged` needs only the latter. `StandingBankTakesNoMore` is the other
side: while every pack is heard and its allowance usable, a pulse of the master's request
does not get through. The sum of the allowances is a fold of the library, which is a fixed
point: that there is one and that it gives a natural (lemma `AmperesNat`) is proved by the
least size of a counterexample, as the library's induction theorems cannot be used. `BankRunTypes` puts the
types together for the system TLC checks, each behaviour of which is one of `BSpec` and one
of `ASpec`.

**PackAlarmsProofs**, for any number of packs and any freshness limit.
`AlarmsInvariance`: a frame still in effect that was sent since its pack last changed tells
the pack's state. From it `AlarmsAreThePacks`, in which a maximum over conditions is
compared with the maximum of one pack, and `FlagIsThePacks`.

**PublisherProofs**, for all times, socket sizes and wall clocks.
`PublisherInvariance` says where the loop can be at which time (`RoundInv`), how long a
frame can have waited (`QueueInv`), and that in the clock's *present* reckoning no stamp
is later than its frame by more than that wait (`CacheInv`): the clock is re-anchored
forwards only, so re-anchoring makes stamps older, never younger. From it
`PublisherTypes`, `DataAgeIsBounded`, `ServiceIsRenewed`, and by `ChosenInv`, which
says in which round a selection can still be overlooked, `SelectedGoesAway`.

**InputsProofs**, for any names, times, banks and captures, in three parts.
- The locator. `LocatorInvariance`: what is asked is what was found, listings are an
  interval apart (`ListingsInv`), and on a steady bus a name that was found before is asked
  once more, then forgotten, and what is looked up after that is there (`SteadyInv`). From
  it `ListingsAreBounded`, `SteadyIsFound` and `CrosscheckStaysPut`.
- The id layout. `FramesReadAsDocumented` needs no invariant: each frame is read as it
  should be whatever was known before it, by cases on the ids of 32 packs.
  `CountersAreRecognised` rests on `EnergyInv` of `LayoutInvariance`: a pack has counted no
  more since the remembered stamp than the time since then, plus the delay a frame can have
  had in the socket, allows; so the allowance of the code, which is at least the delay times
  the rate (`EnergyAssumption`), covers it however many frames are lost.
- The replay. `ReplayInvariance`: every line read that is not late is in the heap or has been
  yielded (`ReadInv`), and what has been yielded is before all that is still to come, as
  it is a window older than the newest line (`YieldedInv`). From it `ReplayIsInOrder`,
  `SamplesSeeTheirPast`, and `ReplayIsAnOrderedFeed`: the replay implements OrderedFeed,
  where applying a frame and taking a sample are its steps, reading a line gives up or
  stutters, and yielding stutters. That a nonempty heap has a first frame is the least
  element of a set of naturals, once for times and once for places.

`InputsTypes` has the types of the three in the system TLC checks, each behaviour of which
is one of each.

Only model-checked: `BusNotAbandoned`, which is liveness under fairness; and the runs that
end in a violation.

## 5. Findings

1. **Voltage alarm of packs with more than 16 cells** (`alarms_20s`,
   `B/stateful.py:44-45`). The thresholds that raise the disagreement alarm scale
   with the series count, those that clear it are volts for 16 cells. A 20-cell pack
   works above them, so an alarm raised once stays. With 15 cells it is the other way
   round: a raw level 2 lies below the threshold that would hold it, and the target falls
   to 1 while the policy still says 2 (pack 54.30 V, VE.Bus 55.30 V).
2. **A boot handoff undoes a rollback** (`rollback_is_final`,
   `install/service/handoff-can-owner:128`). The handoff of `rc.local` waits for its
   preconditions, up to 60 attempts; if a rollback completes meanwhile, it recreates
   the consent marker and takes the bus back.
3. **A rollback needs our service** (`rollback_dead_driver`,
   `install/service/rollback-can-owner:39`). While our service is not registered the
   rollback removes consent and arm file and then ends, with the stock service down.
4. **One snapshot, several profiles** (`profile_readings`, `B/profile.py:201`). In the
   overlap of a switch each question may flip the profile. A snapshot asks up to
   four times and combines the answers. The recorded switch in `tests/data` shows it
   when a snapshot is taken every 0.25 s.
5. **Two batteries with one number** (`instances_unique`, `B/venus_instance.py:191`).
   A driver whose configured number is the selected one publishes it without looking
   whose battery it is. With two drivers of one configuration, selecting the first
   one's battery makes the second one publish the same number at its next start.

Observations without a run of their own:

- *Three places where a signal leaves the inverter without a keepalive.* The trap of
  `handoff-can-owner` resets itself first (111): a signal between removing the arm file
  (113) and `svc -u` (114) ends the undo half way. Between the two assignments after the
  proof (159, 160) a signal removes the consent marker of a handoff that has just
  succeeded, with `handoff_started` already 0. `rollback-can-owner` sets no trap: a
  signal between 30 and 41 ends it with consent and arm file removed and the stock
  service down. Nothing is said in either case. `StockDownIsOwned` and `BusNotAbandoned`
  except exactly these (`Cut`).
- *The charge voltage of a refused frame.* `B/decoder.py:386-393` says that a 0x351 frame
  with an impossible voltage limit "is not a limit request" and that "every field of such a
  frame is rejected", `README.md:274-275` that "the whole frame is refused". The charge voltage is judged by its own
  range alone (396), so a frame refused for its low-voltage limit still replaces it;
  `tests/test_zero_limit_frame.py:93-98` has it so. `RefuseCurrents` is this frame.
- *The trimmed list.* `B/cache.py:414` compares the number of changes it has copied
  with the length of the detector's list, which is trimmed to 200 entries. After 200 changes
  in one process nothing is copied any more, and a sign conflict outlives the profile under
  which it was found. This is why `CrosscheckWhileListed` is stated for an untrimmed list; the
  model trims (a list of 2) and the property fails without that condition.

## 6. Not modelled

- The bit-level decoding of frames, the projection onto D-Bus paths, wording and
  event logs: functions without state, covered by the repository's unit tests.
- Of `step`: the events it returns and the invalidated paths, which are functions
  of the state it leaves.
- Of BankView and the policy: the sums over the packs' energy and current, the system's
  own tables 0x359 and alarms 0x35A, the reasons that stop charge beside MOS and request
  (sign conflict, unknown profile, voltage disagreement), a 0x371 limit unlike that of
  0x351, the records for diagnostics.
- Of the id layout: frames of direction `T` or shorter than eight bytes. Frames that arrive
  on the id of another one (`docs/protocol-notes.md:179-182`) are in the model, and
  `ReadAsDocumented` leaves them out by name (`Aliases`). From pack 17 up the software
  versions are among them: `0x510` arrives as `0x110`, and `B/id_layout.py:121` looks for
  version frames on `0x100` to `0x10F` only.
- Of the cache: the event logs, the health summary, most derived fields.
- The simulated systemcalc, the command line and the reports of the replay.
- The values that a handoff's preconditions look at; they hold or not by choice.
- Frames sent by us and seen again (direction `T`), which the profile detector skips.
- Floating point: the alarm bank's slack of 1e-9 s is below the models' resolution.
- Installer, service wrapper, release and capture tools: files and downloads.
