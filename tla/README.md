# Verification of RT-Control

TLA+ specifications, TLC models and TLAPS proofs for the RT-Control domain of the depalletizing
robot (`src/rt_control/` and its documents under `domains/rt_control/`). RT-Control is the part
of the robot that talks to drives and sensors: hardware components for EtherCAT, CANopen and
CAN, the `ros2_control` controllers above them, and the tools that compose and start them.

Paths below are relative to `src/rt_control/` of the repository.

## 1. The system

### 1.1 Components

| Component | State it keeps | Operations | Talks to |
|---|---|---|---|
| `ctrl_enable_manager`, realtime part (`enable_manager_controller.cpp`, `handshake_device.cpp`, `cia402.cpp`) | phase, owner, batch cursor, stage and its deadline, reset targets, primary failure, control words, device commands | `update()` once per control cycle; `on_activate`, `on_deactivate` | CiA 402 drives through control and status words, handshake devices through enable/reset generation, services through atomics |
| `ctrl_enable_manager`, services and worker (`enable_manager_services.cpp`) | request flags, result slots, "deactivation required", "switch in progress" | `/rt/enable`, `/rt/disable`, `/rt/reset_fault`, motion fault subscription, 20 ms worker timer | `update()` through atomics, the controller manager through `switch_controller` and `list_controllers` |
| `ctrl_enable_manager`, mode switch (`enable_manager_mode_switch.cpp`) | control mode, abort request, drive mode commands, actual sample (seqlock) | set-mode service: stop, switch drive mode, exchange controllers, converge | the same |
| `hw_can_damiao` (head) | head phase, fault latch, handled reset generation, per-motor feedback, rate limiter | read, write, lifecycle, commissioning tool | two motors on CAN; the enable manager sees it as a handshake device |
| `hw_ethercat` (Kinco cyclic mode slave, ZeroErr PP slave) | hold, seed, mode handoff in flight; set-point handshake | PDO cycle: read, start, sent | drives; the mode the manager waits for |
| `hw_canopen` (swerve encoders) | last sample and its age | read | a required state source of the manager |
| `ctrl_rolling_trajectory` | session, image of points in a triple buffer, stop trajectory, stop reason | batch callback, update, state topic, lifecycle | the trajectory client |
| `ctrl_swerve` | held targets, body and wheel speed, alignment gate, fault latch, command and its age | update, command callback, fault stop timer, lifecycle | wheel and steering drives; the enable manager through `~/fault_stop` |
| `ctrl_force_torque_broadcaster` | last sample | update | a sensor |
| `infra_shm_ring` | ring slots and sequence numbers | write, read | one writer, several readers in other processes |
| `infra_modbus`, `infra_socketcan`, `infra_renderer` | connections | read, write, render | devices, templates |
| `periph_bms` | phase of the join or the isolation, latched faults, frames and their ages | control period, reader thread | two battery packs, relay K2 between them, the loads |
| `periph_plc_io` | copies of the coils and pressures | output services, poll | pump and suction valves on Modbus modules |
| `periph_imu_lpms`, `periph_led_ultrasonic` | connection, last values | poll, publish | devices |
| `integ_composer`, `integ_bringup`, `hwcfg_machines` | configuration files, running scopes | compose; start and stop scopes | all of the above |
| `integ_diagnostics`, `integ_head_move`, `integ_operator_web` | an action goal, a teleop connection | aggregate, move, serve pages | operators |

### 1.2 What is hard

The enable manager decides when a drive has torque. It is written as a realtime state machine
that never blocks and a handful of service threads that do; they share about twenty atomics and
no lock. A service reads the phase, wins the owner by compare-and-swap, stores a request flag
and waits for a result slot; `update()` takes the request in the phases in which it looks at the
flag. Every pair of these steps can be separated by any number of cycles. On top of that

* a fault may be sampled in any cycle and turns any phase into an emergency;
* every wait has a deadline, and the caller has one too, of its own;
* the controllers are switched by a second process that may refuse, be late or do something else;
* the drives answer when they like, or go silent with their last status word standing;
* the process may have crashed and found the drives in any state.

A unit test drives one thread at a time with a scripted drive; it reaches few of these. The
hazards, each at its line, are listed in `PROJECT.json`.

### 1.3 What makes each component correct

* Enable manager, realtime: batches climb in order, a fault takes the torque away in the same
  cycle, a fault reset is an edge, devices come last, every stop ends.
* Services: what is answered is what the hardware does; nobody waits for ever; the owner is
  given back.
* Mode switch: the controller that runs fits the mode of the drives; a stop wins.
* Head: motion only with both motors fresh and enabled; a fault is latched until an explicit
  reset has completed; every transition ends.
* Rolling trajectory: the update follows the image of its own session, a replacement leaves the
  promised lead alone, a session always ends at rest and says why.
* Swerve controller: wheels move on commands of this activation only, stop when the client is
  silent, and a fault is latched and passed on.
* Batteries: the packs are joined only while they agree; a faulted secondary is cut off.
* Vacuum I/O: the pump stops only when nothing hangs on it.
* Shared memory ring: a reader never returns a torn or an overwritten record.
* Kinco and ZeroErr slaves: no target is sent in a mode that would misread it; a set-point is
  acknowledged before the next.
* Scope lifecycle: a scope is stopped in the reverse order of its start, also when a step fails.

## 2. Plan

Most important first; 1 to 4 and 8 are done.

1. **The enable manager**, whole: drives, devices, update, services, worker, mode switch, and the
   proofs about it.
2. **The head** (`hw_can_damiao`): state machine and hardware component, with the handshake device
   the manager assumes as its abstract specification, and the proofs about it.
3. **The rolling trajectory controller**: session, buffer and triple buffer under both threads.
4. **The mobile base**: the Kinco slave that the wheels hang on, the swerve controller, the
   batteries, the vacuum I/O; first proofs.
5. Shared state: the ring of `infra_shm_ring` and the seqlock of the manager's actual sample.
6. ZeroErr set-point handshake; scope lifecycle; head move action.
7. An abstract enable service (down, going up, up, going down) that the manager implements.
8. Proofs of every safety property the runs check (section 8).

## 3. The enable manager

### 3.1 Modules

| Module | Models |
|---|---|
| `Handshake` | the phases and moves of a handshake device such as the head (section 4) |
| `Cia402` | the drive's state machine as its decoded status word, and how a drive may answer a control word (`cia402.cpp`; the drive itself is external) |
| `EnableManagerState` | constants with their assumptions, all variables, the type invariant, and the queries over them that the handlers share |
| `EnableUpdate` | `update()` and every handler it calls |
| `EnableServices` | `/rt/enable`, `/rt/disable`, `/rt/reset_fault`, `switchJtc`, the motion fault report, the worker |
| `EnableModeSwitch` | `handleSetMode`, `executeModeSwitch`, `convergeAfterUnsafeModeSwitch` |
| `EnableManager` | activation and deactivation, the hardware, `Init`, `Next`, `Spec`: the composition |
| `EnableProperties` | the properties and the fairness |
| `MCEnableManager`, `MCEnableStops` | instances for TLC |
| `EnableTypes_proofs`, `EnableManager_proofs`, `EnableMode_proofs` | theorems |

### 3.2 Correspondence

**Variables.** `phase`, `owner`, `control_mode`, `result` and `flags` are the manager's atomics;
`flags` is the set of the boolean ones that are true (`enable_request_`, `restart_required_`,
`jtc_deactivation_required_`, ...). `current_batch`, `stage_deadline`, `downward_stage`,
`primary_failure`, `reset_targets`, `interrupted_owner`, `mode_confirmed`, `ready_since` are
plain members that only `update()` touches. `drive`, `mode`, `online`, `sources`, `dev`,
`dev_reset` are the hardware as `update()` samples it; `cw`, `dev_enable`, `mode_cmd` are the
command interfaces. `controllers` is what the controller manager runs. `pc`, `switched`, `seen`
and `source` are the locals of the threads.

**Steps.** One `update()` is one action `Update`, a disjunction of one action per case the code
distinguishes; its guards are disjoint, in the order of the code's early returns. The realtime
thread samples each input once per cycle, so the atomicity is the code's own except for the
atomics it shares with services, which a service could write in the middle of a cycle; such a
write is the same as one before or after the cycle, as each handler reads a flag once. A service
is split wherever another thread can run between two accesses that depend on each other: reading
the phase, winning the owner, each wait, the call of the controller manager, its answer, what is
stored afterwards. Adjacent stores that nobody reads in between are one step. In the mode switch
the last check (`ModeConfirm`, `ModeDrivesWait`), the store of the new mode (`ModeStore`), the release
of the switch (`ModeUnlock`, `unsafeModeSwitch`) and `convergeAfterUnsafeModeSwitch` are steps of
their own: `update()` may run a stop to rest, and other threads an enable, between any two. So is the
loop of `switchDriveModes`: the request is stored without a look at the owner (`ModeDrives`), then
comes the owner, then the displays (`ModeDrivesShown`).

**Time** is counted in update cycles. A deadline is the number of cycles that remain.

**Drives** answer a control word at any time or never, by the transitions of CiA 402; a drive in
its fault reaction ends in `fault`; a fault or a loss of the power stage may come at any time
(`Disturbances`). An offline drive keeps its last status word; `online` is what
`feedback_age`/link state show. A restarted process finds its drives in any state (`Init`).

**Left out** of the modelled files: texts, error codes beyond success or not, diagnostics, the
trace ring, parameter parsing, and the numeric content of commands and of actual samples.
`failEnable` in the middle of the axis loop leaves `mode_confirmed_` and `ready_since_` partly
updated; both are written again when the next enable is taken, so the model leaves them alone.
The displayed drive mode lags the sampled one by at most a cycle and is one variable here.
`mode_callback_active_` is cleared by `on_activate`; the model has no second mode service that
could tell.

### 3.3 Runs

| Run | Instance | Distinct states | Shows |
|---|---|---|---|
| `EnableLadder` | 2 axes, 2 batches, one with the ready terminal; enable and reset; faults, lost power stage, impatient callers, lifecycle | 755 000 | `TypeOK`, `BatchIndex`, `BatchOrder`, `FaultStopsTorque`, `ResetEdge`, `InactiveIsQuiet` |
| `DevicesAndSources` | 1 axis with mode checks, 1 device, a required source; enable and reset; everything may come and go | 492 000 | `ResetQuiet`, `DevicesLast`, `SourcesFirst`, `ResetCommit`, `EnableCommit` |
| `ModeSwitch` | 1 axis in CSV/CSP; enable, disable and set-mode; offline, lost power stage | 1 879 000 | `ReportsRunningMode`, `CspUnderTrajectory`, `EnableCommit`, `DisableCommit` |
| `WorkerStops` | 1 axis, motion controllers, a worker; enable, or disable and reset (`MCEnableStops`); drive and motion faults | 150 000 | `FaultDeactivates`, `MotionFaultStops`, `JtcActivatingSettles`, `EnableReleases`, `StopsSettle` (liveness) |
| `RestartLatch` | 1 axis; enable, set-mode; offline | | violated: see 3.5 |
| `IdleIsDown` | 1 axis; enable, reset | | violated: see 3.5 |

**Bounds.** `BatchTimeout = 4` cycles lets a drive climb from `switch_on_disabled` to operation
and lets it miss the deadline; `DisableStageTimeout = 2` and `FaultResetTimeout = 2` are the
smallest that have both outcomes; `InterBatchDelay = 1`, `ReadyHold = 1` make both waits happen.
Two axes in two batches have an earlier and a later batch; one axis is enough where the question
is about threads. In `WorkerStops` the services of a behaviour are either enable, or disable
and reset: all kinds of stops happen, and the races below do not. One worker tick at a time is the
code's own (a timer in a mutually exclusive callback group). Services are called again and again,
without bound.

`LiveState` is a VIEW of the safety runs: it drops members that are written again before they are
read (the batch cursor outside a walk, the result of a service that has returned, the requests to
the worker in a run without one). The liveness run does without. `EnableAlone` is a CONSTRAINT of
`ModeSwitch`: while an enable is at work no other service is called, but a set-mode that has begun
before goes on beside it, so that the run spends its states on the races of set-mode with a disable
and with the enable that follows; and the link is down only while at most one service is at work: an
emergency beside two services is then that of a lost power stage, which starts the same way and,
unlike that of a lost link, sets no `restart_required_` that keeps later enables out. Motion
faults are reported here but served only in `WorkerStops`, the run with a worker. What an enable's
and a disable's success mean when one preempts the other in a group of several batches is proved,
for any number of either (section 8).

**Fairness** (`Fairness`): the controller manager keeps calling `update()` of an active
controller, a service callback that has started is scheduled until it returns (each has its own
callback group and the executor is multi-threaded), and the worker timer ticks. No service has to
be called, no drive has to answer, no fault has to go away, and the controller manager may answer
what it likes.

**Deadlock** is checked in every run: `update()` is always enabled on an active controller.

### 3.4 What the properties say

`BatchOrder`, `DevicesLast` and `SourcesFirst` are about the very cycle in which a word is
written: it must have *sampled* what it relies on, not remembered it. `EnableCommit`,
`DisableCommit` and `ResetCommit` are about the answers: whichever thread or walk publishes
"success", the hardware sampled in that cycle deserves it. `FaultStopsTorque` holds in any phase,
also in the ones that a service thread stored over the phase of the update. `ResetEdge` includes
that a second reset starts from a zero word. `ResetQuiet` and `BatchIndex` are what the others
rest on. `CspUnderTrajectory` is about what the drives are told under the velocity controller, in
every step of an enabled group; it excepts the group that a lost mode switch is about to disable
(`SwitchLost`, and the races below). `ReportsRunningMode` is what the late store of a mode cannot do:
an enabled group on which no service is at work names the controllers that run. Between a stop and
the next commit `control_mode_` may name any mode. The run has no lifecycle and no worker: `on_activate`
clears `switch_in_progress_`, and a worker of an earlier emergency may stop the controllers of a group
that is enabled again. `StopsSettle` is the promise that a stop ends without the help of the drives.

### 3.5 Where code and documents differ

Two runs state what a document or a comment says and TLC shows a behaviour of the code that
does not keep it; each is a finding in `PROJECT.json` (the two others are in sections 6 and 7.1).

* `RestartLatch`: `convergeAfterUnsafeModeSwitch(false)` *stores* false in `restart_required_`
  and so clears a latch that `update()` has set during the wait for the drives' mode.
* `IdleIsDown`: in `failed`, a reset that finds no fault answers `already_clear` and goes to idle
  whatever the drives do.

**Known races.** The model also has these traces, the first four with wider constants than those of
`WorkerStops`. Most need a thread to be preempted between two adjacent instructions for as long as
another operation takes; the first needs an unlucky deadline, the last none of it.

* *Caller gives up as the hardware becomes ready* (`ClientTimeouts = TRUE` in `WorkerStops`):
  `handleEnable` returns on its timeout, the next cycle enters `kJtcActivating`, and no thread is
  left to activate the controllers or to report failure; `handleDisable` refuses this phase.
* *Stale phase before the owner* (`"reset"` among the clients of `WorkerStops`): an enable (reset)
  that has read `idle` (`failed`) wins the owner after another operation has moved the phase; its
  request flag is not looked at there, the owner stays, and every service and the motion fault
  path answer "operation in progress".
* *Stale phase in disable* (`"disable"` and a motion controller): the decision to deactivate the
  controllers uses the phase read before the owner was won; a group can reach idle with its
  controllers active.
* *Worker before the declaration*: a tick that consumes the emergency's request just before
  `handleEnable` sets `jtc_deactivation_required_` leaves the controllers it then activates.
* *Mode stored into a resting group*: `executeModeSwitch` has passed its last check when an emergency
  comes; the update runs it to rest and stores `kDisabled`, then the thread stores the new mode.
  `failed` or `idle` then reports a motion mode, until the next enable or disable.
* *CSP requested for a group that is enabled again*: the thread is held before `switchDriveModes`
  stores `drive_csp_requested_`, loses its group to a stop, and stores it after the next enable has
  committed. The drives are told CSP under the velocity controller until the thread, which looks at
  the owner next, converges to a disable. The same flag stored into an upward walk is answered in the
  first cycle of `enabled`.
* *Motion fault overtaken by an emergency*: `motion_fault_pending_` is cleared only where the
  update takes the disable in `kEnabled` or `kJtcDeactivating`; if the monitor trips first it
  outlives reset and enable, and the next ordinary disable is reported as a motion fault.

`FaultDeactivates`, `JtcActivatingSettles` and `EnableReleases` are stated and run so that the first
four are outside: they say what holds apart from them. `EnableReleases` in particular is about an
enable that no other service overtakes between its look at the phase and its compare-and-swap; the
hazards of the first two races and the fourth are listed in `PROJECT.json` without a property.

## 4. The head

### 4.1 Modules

| Module | Models |
|---|---|
| `Handshake` | `DeviceMoves`: where a device may go under a command, shared with the manager's model (`DeviceAnswers` in `EnableManager`) |
| `HandshakeDevice` | the abstract specification of a device: the manager's requests and the device's moves |
| `DamiaoHead` | `HeadStateMachine`, `DamiaoSystem`, the manager's requests, the motors and the bus; the properties |
| `MCDamiaoHead` | the instance with two motors |
| `DamiaoHead_proofs` | theorems |

### 4.2 Correspondence

**Cycle.** The controller manager calls `read()`, the controllers' `update()` and `write()` in
turn. `read` and the manager's request are one step (`read /\ Manager`), `write` is the next, and
the lifecycle callbacks come between cycles; `on_error`, after a `read()` or `write()` that has
thrown, comes in the middle of one too (`close`).

**Step.** `HeadStateMachine::step` is one action per phase, with its early returns in their order.
What `write()` does with the actions it returns (resetting of the two limiters, the special frame,
the position frames, the poll) is `Emit`. `since` and `after` stand for `transition_started_at_`:
the cycles since, and which motors have been received later. A counter stops one past the bound
the code compares it with. `valid` is always true after `on_configure`, which waits for the first
feedback.

**Feedback** is a status per motor and its age. On a *good* bus (`bus`, chosen once) each motor
obeys the frames and answers each by the next cycle, and the component is not taken down. On a
*bad* one anything may be read from either motor, or nothing; position commands may leave their
limits, the command interface may hold something else than 0 or 1, and the component may be
deactivated, closed and configured again at any time. All but one of the properties are about
both; `NoSpuriousFault` is about the good bus.

**Manager.** It may request enable or disable, or a new reset generation, in every cycle, in any
order, and may go away and come back. `baseline()` adopts the generation that the head shows as
handled, also while the head is resetting for an earlier manager. `agreed` is a history variable:
the manager took over no outstanding reset. The order of the generations, and with it
`ImplementsDevice`, holds for such managers only: in the other case the reset under way ends with
a handled generation the manager has not issued yet, so that its next request can look done before
it is begun. The head's own promises (`FaultDisables`, `PositionIsSafe`, `ResetConsumes`) do not
depend on it.

### 4.3 Run

`Head` (576 000 states) checks all eight properties: `HeadTypeOK`, `LatchCoherent`,
`NoSpuriousFault`, `FaultDisables`, `PositionIsSafe`, `ResetConsumes`, the refinement
`ImplementsDevice`, and `HeadSettles` (liveness).

**Bounds.** `FeedbackTimeout = 1` and `TransitionTimeout = 2` cycles let a motor be late and still
fresh, and let a transition succeed at once, on a retry, and not at all. `SpecialPeriod = 2` makes
the limiter hold back every other frame; it is the poll's period too, as in the code
(`disabled_poll_interval_ms` is both). The poll is then just fast enough for the feedback timeout,
as in `hwcfg_machines/machines/Alfa_V3/head_gimbal.yaml` (20 ms against 50 ms); `on_init` does not
require it. `CommandPeriod = 1`: a position frame in every cycle. `MaxGeneration = 2`: a reset can
be requested during another.

**Fairness**: the turn goes on changing, that is, the controller manager's loop calls `read()` and
`write()`. No motor has to answer.

## 5. The rolling trajectory controller

### 5.1 Modules

| Module | Models |
|---|---|
| `RollingBuffer` | a trajectory image, sampling it, `RollingBuffer::prepare` and `commit` (`rolling_buffer.cpp`, `limit_checker.cpp`) |
| `RollingTrajectory` | the snapshot exchange and the realtime `update()` (`rolling_snapshot.cpp`, `rolling_trajectory_controller.cpp`, `session_core.cpp`) |
| `RollingSession` | the batch callback, the state topic, the lifecycle, the specification and the properties (`rolling_trajectory_session.cpp`, `rolling_trajectory_state.cpp`) |
| `MCRolling` | clients for TLC |
| `Rolling_proofs` | theorems |

### 5.2 Correspondence

`sh` holds the atomics that both threads use, `rt` the members with the prefix `rt_`, `ex` the three
slots and who owns which, `nr` what `callback_mutex_` guards, `cb` the callback in progress.

**Steps.** `update()` is split at its reading of the epoch, which it repeats up to three times
while a session is being started under it, at its handling of the session state, and at the
publication of the command. The callback is split between the gate, the mutex, the start of a
session, its priming, the preparation of a batch, its commit and its publication; the update can
run between any two. The lifecycle runs in the realtime thread between updates. The admission
context is read through a seqlock: a read that meets an update fails or is repeated, so it is a
read between two updates or a failure.

One pair of neighbouring reads is merged: a priming update looks at `stop_requested_` and then, two
lines later, at `prime_start_ns_` and the gate (`UpdatePriming`). Of the callback's steps only a
publication that fails on an exhausted counter raises that flag; if it falls between the two reads
and also returns the gate there, the code may take up the session's earlier batch and stop it in
the next update, where the model stops at once. The run does not reach that branch (5.3).

**Data.** Time is counted in controller cycles from the activation. A position is the name
`<<batch, t>>` of the point of a batch's curve, so two samples are equal only if they are the same
point of the same curve: `LeadIsFixed` is about these names. A velocity is the number of cycles
that braking takes. What a message contains is chosen when it is admitted; `match` says whether its
first point fits the splice. The limit checks are the braking time against the end of the image.

**Left out**: the cubic arithmetic, single axes, parameters, `last_result` and `last_sequence` of
the state topic. The slot that the producer gets back from the exchange is emptied at once, as
nobody reads it again.

### 5.3 Run

`Rolling` (201 000 states): four kinds of clients (`MCScenarios`) replace a batch the update may not
have seen, replace a longer one, leave snapshots over for the next activation, and open sessions
with batches that are refused.

* `FollowsItsSession`: whatever the callback publishes, abandons or publishes over, the update
  follows an image of its own session in a slot that the producer does not own.
* `LeadIsFixed`: a replacement changes nothing before the boundary that was promised, also if it
  was prepared before the boundary moved or replaces a batch that was never seen.
* `HoldingTellsWhy`: HOLDING means at rest, and after a motion there is a reason, also after any
  number of refused first batches.
* `SessionsEnd` (liveness): a silent, late or finished client leaves the arm at rest.

**Bounds.** `Capacity = 3` points, `MaxHorizon = 6` cycles, `Lead = Guard = 1`, `MaxSpeed = 2`:
enough to have a batch that is too long, too fast to stop, and one whose boundary passes while it is
checked. `UpdateTimeout = 3` is shorter than a batch of four cycles, so both the timeout and the end
of the image are met. `MaxCount = 3` is the width of the epoch and publication counters; it refuses
a session that would exhaust them, and the same branch of `PublishBatch` is not reached.
`Glitches = {0}`: the one wrong period is a zero one. `Patience = 0` and `MaxTime = 20` bound the
waiting; no session lives to see `MaxTime`. Deadlock is not checked: a client's plan ends, and then
nothing happens.

**Fairness**: the update loop runs, a callback that has begun is scheduled until it returns, time
passes. No client has to send.

## 6. The Kinco slave

`Kinco` models `KincoCyclicModeSlave` (`hw_ethercat`): a PDO cycle is `KincoRead` (`onPdoCycleRead`),
writes of the clients (`KincoWrite`, external) and `KincoSend` (`onPdoCycleStart`, the outputs,
`onPdoCycleSent`). `onPdoCycleStart` is a function of the state within a cycle, one operator per
branch in the order of its early returns (`Start`); `Sent` is what the sent frame confirms. The drive
(`MotorStep`, external) enables on the enable word, shows no mode before it is enabled, then, at
some time, the mode of the frame; its position moves and jitters by a count.

A velocity is `Blind` when it is written while the drive shows CSP or a request is in flight, `Early`
while the drive shows no mode yet, `Informed` while it shows CSV; so a velocity that outlives a change
of mode is told from a new one. `mode_request_target_` (`target`) stays after the request has ended
and is cleared by `clear_handoff`: it marks the run of CSV that a request has begun.

`Kinco` (3 576 000 states) checks, for a drive that starts in CSV as the wheels of the Alfa_V3 do,

* `SpeedIsInformed`: in the run of CSV that a request begins, no velocity written in CSP or during the
  request is sent, whatever frames are lost and however the drive enables and disables meanwhile; on
  a drive that starts in CSP none that was written before CSV was shown (8.4);
* `UnownedStays`: the target of an enabled drive that no controller owns does not move, whatever is
  lost, jitters or is commanded.

**Bounds.** `StartupMode = 9` is the mode of the shipped axes that switch; with 8 the run passes too
(2 502 000 states). Two positions with tolerance 0 have an equal and a different one; `AckTimeout = 1` lets a
handoff succeed at the last moment and fail; `MaxRideThrough = 1` has a loss that is ridden through
and one that is not. `MCWrites` has the clients: none, a trajectory controller, one that jumps, a
velocity controller with a mode request, an invalid one.

**A finding.** `KincoRide` states the comment on the ride-through: lost cycles "repeat the last
outputs". The velocity and the mode are repeated; the position is the hold. While a handoff to CSP is
in flight the last position sent was the seed, and the hold is older.

`KincoSpec` is the slave on its own, about which `Kinco_proofs` has theorems (8.4).

**Left out**: `setupSlave`, the encoding of the PDOs, the overflow of the feedback sequence at 2^53,
the exact sequence numbers of a pending write (a flag here), the watchdog of the drive.

## 7. The mobile base

`MCBase` runs one of three nodes that share nothing, chosen at the start; `Base` (116 000 states)
checks the properties of all of them.

### 7.1 The swerve controller (`Swerve`)

`CoreUpdate` is `ControlCore::update` with its early returns, `Stop`, `RampStop` and `Follow` its
operations. `SwerveUpdateBegin` and `SwerveUpdateEnd` are the two halves of the controller's
`update()`: it stores `ready_` at its head and again at its end, and does not take the lock that
`accept_command` holds, so a command can arrive in between. A feedback says which modules are stale,
inconsistent, off their target or turning; one speed stands for the four wheels. Time stamps are kept
as ages up to the one no test tells from a greater one (`Oldest`).

* `QueuedCommandsDie`: what moves the wheels was sent to this activation.
* `SilenceStopsWheels` (liveness): the wheels come to rest when the client falls silent, through the
  ramp, the gate and the smoothing.
* `FaultStopRequested` (liveness): a latched motion fault reaches the enable manager, also if the
  wheels keep turning or the feedback flickers. `MotionFaultStops` (3.3) takes it from there.

**A finding.** `SwerveLatched` states the comment "A latched fault never resumes motion": `ready_` is
true between the two stores of an update whose feedback has recovered, although the fault is latched;
a command accepted there is newer than `block_before_ns_` and is followed by the next update, until
the disable comes.

**Bounds.** One module, `TopSpeed = 1` ramp step, timeouts of 1 or 2 ticks, two activations; the
feedbacks are the good one and one for each thing that can be out of order. **Fairness**: the update
loop, the clock and the fault stop timer; not the client and not the lifecycle.

**Left out**: kinematics, odometry, IMU, an exception or a failing write in `update()`, differences
between modules.

### 7.2 The batteries (`Battery`)

A step is a control period: what has been heard since the last one (`Hear`), then
`update_discharge_control` with `DualBatteryController::update`: the monitor (`Monitored`), the phases
of joining (`Join`) and of isolation (`Isolation`), and the relay command with `hold_relay`. The packs,
the contact and the loads report anything in `Reports`, or nothing, in any order.

* `JoinsWhatAgrees`: a relay that is not known to be closed is commanded to close only in a period in
  which the packs agree, the loads stand and the contact is open, however long the acknowledge and
  the MOS have taken.
* `FaultedSecondaryIsCutOff` (liveness): if the loads become safe to switch, a faulted secondary ends
  with the relay commanded open, whatever fails on the way.

On that way the relay may be commanded to close once more: when the contact does not report open in
time and the primary is faulted too, `kStoppingPrimary` with a contact that still reads closed makes
`hold_relay` publish true. The record of the power flow
(`domains/rt_control/docs/areas-archive/io-power/records/2026-10-06-dual-golden-phoenix-power-flow.md`,
lines 111 to 119) asks for K2 to stay open; `FaultedSecondaryIsCutOff` is about the end.

**Bounds**: `StatusTimeout`, `Observation` and `Stable` of 1 period and `BmsTimeout = 2` let each wait
succeed and fail. `MCReports` has each stage of a join and, for it, one thing at a time out of order
or missing. **Fairness**: the reader thread keeps its control period. **Left out**: the socket and its
reconnect (a lost frame is a report that is missing), byte order detection, cell data, messages.

### 7.3 The vacuum I/O (`Plc`)

The node has one thread; a service call or a poll is one step. Every Modbus request in it may fail
before or after the module has executed it (`Outcomes`), and the module may restart.
`PumpStopsReleased`: the pump goes off only with both suction valves off, however wrong the node's
copies are. A write that the module executes only after later requests is not in the model: its
effect is decided when it fails.

## 8. Proofs

Every invariant and every action property that a passing run checks, but for `ReportsRunningMode`, is
also a theorem, for every value of the constants, one of them under a hypothesis that the code does
not check (`FaultsAreReal`, 8.2); so is the refinement of the handshake device. `ReportsRunningMode`
holds without lifecycle and workers only (3.4) and stays with TLC, as does liveness (fairness and
`ENABLED` are out of the prover's reach): `FaultDeactivates`, `EnableReleases`,
`JtcActivatingSettles`, `MotionFaultStops`, `StopsSettle`, `HeadSettles`, `SessionsEnd`,
`FaultStopRequested`, `SilenceStopsWheels` and `FaultedSecondaryIsCutOff`. Each inductive invariant
was checked with TLC on small instances before it was proved.

### 8.1 The enable manager

`EnableManager_proofs` proves, for every set of axes, every division into batches, any devices,
modes, sources, timeouts, callers and workers that the named assumptions admit:

* `TypeCorrect`, `BatchCursor`, `Quiet`, `ResetIsQuiet`: the invariants `TypeOK`, `BatchIndex`,
  `InactiveIsQuiet`, `ResetQuiet`;
* `BatchesInOrder`, `NoTorqueOverFault`, `ResetIsAnEdge`, `SourcesBeforeDrives`,
  `DevicesAfterAxes`, `EnableMeansEnabled`, `DisableMeansDown`, `ResetMeansClear`: the action
  properties of 3.4.

**Assumptions** are those `on_configure` checks: the batches partition the axes and none is empty
(`TopologyAssumption`), the options are consistent (`OptionAssumption`), timeouts are positive
(`TimingAssumption`), and a service name is not a worker's name. TLC evaluates them in every run.

**Inductive invariant.** `IInv == TypeOK /\ BatchIndex /\ InactiveIsQuiet /\ ResetQuiet`. `TypeOK`
alone is inductive (`EnableTypes_proofs`, one lemma per handler). `BatchIndex` needs the type of
the cursor and that the last batch leads to the device stage; `InactiveIsQuiet` that only
`update()` writes commands and that it does so only while active; `ResetQuiet` that the two reset
phases are entered with zeros and that `reset_disabling` is entered only when every generation is
handled. The device clause is what `ResetMeansClear` needs, and "no reset word in `jtc_activating`"
is what `ResetIsAnEdge` needs: an emergency out of that phase may write the reset words next.
The action properties follow from `IInv` and the definition of each step; the hardware and the
services are stutters for the command interfaces.

**The control mode** (`EnableMode_proofs`). `NoVelocityUnderCsp` is the invariant
`CspUnderTrajectory`, for any number of threads that overlap and over activations. It is not
inductive: what the drives are told, what they show, which controller runs and what is requested are
changed by four parties that do not wait for each other. Over `IInv`, `ModeInv` adds

* `MotionWithoutCsp`: the invariant itself, with the request beside the command;
* `SwitchWithoutCsp`: a mode thread that is about to switch controllers, or to request CSP, stands
  over drives that are not told CSP, or over a group that a disable is requested for;
* `OwnerKeepsControllers`: while the mode thread owns the state machine no enable thread reaches its
  controller switch, so the controllers stay what the mode thread found;
* `CommitAfterSwitch`: once the group is enabled no enable thread is before its controller switch;
* `CspFollowsRequest`: while the group is enabled, command, display and request differ only while the
  mode thread waits for the drives or after it has given the group up;
* `WalkWithoutCsp`: an upward walk begins with no CSP told and leaves no drive of a completed batch in
  it; a request that a lost mode thread stores into the walk is followed by its look at the owner.

`ModeInductive` has one lemma per group of handlers, as `Inductive` has.

### 8.2 The head

`DamiaoHead_proofs` proves, for any set of motors and any positive timeouts and periods
(`HeadAssumption`, which `on_init` checks), all safety properties of `Head`, and that the head implements `HandshakeDevice` (`HeadImplementsDevice`).

**Inductive invariant.** `HInv == HeadTypeOK /\ LatchCoherent /\ AgreedIsBound /\ BusIsRead`.
`LatchCoherent` is inductive with the types: a reset starts only from `fault_latched` and for a
generation other than the handled one, which stays what it is until the reset ends.
`AgreedIsBound` (a manager that has agreed with the head has claimed an active head) is what the
refinement needs of the lifecycle: the generations start anew only where nobody is bound.
`BusIsRead` says that a write which does nothing leaves no old frame behind. `FaultDisables` needs
no invariant: it follows from the reset of the limiter in `Emit`.

**Refinement.** `Shown` maps the seven phases and the latch to what `HandshakeDevice::read` makes
of them; a generation is pending while the handled one is behind it. `StepMoves` has one case per
phase; every step of the manager is the abstract request of the same name, and every change of the
lifecycle that unbinds is `Release`.

**A good bus.** `FaultsAreReal` is `NoSpuriousFault`, for every poll and timeout, under the
hypothesis `CommandPeriod <= FeedbackTimeout + 1`. Its invariant `GoodBus` says for each phase how
far motors, frames and feedback are: at rest everything is off; an enable or disable is answered by
the next read; and while the head is enabled, the age of the feedback plus the wait for the next
position frame, which polls the motors, is less than a command period. The hypothesis is tight: with
`FeedbackTimeout = 1` and `CommandPeriod = 3` TLC finds a fault on a bus that loses nothing.
`on_init` checks that both are positive, not their relation (`damiao_system.cpp:137-138`); the
shipped configuration (250 Hz against 50 ms) satisfies it, and so does the instance of the run.

### 8.3 The mobile base

`Base_proofs` proves for the swerve controller, for every set of modules, every set of feedbacks,
all timeouts and any number of activations (`SwerveAssumption`), that `SInv` is inductive
(`SwerveInductive`) and with it `QueuedCommandsDie` (`QueuedCommandsAreDropped`); and for the vacuum
I/O `PumpStopsReleased` (`PumpStopsAreReleased`).

**Inductive invariant.** `SInv == SwerveTypeOK /\ SpeedHasSender`. `QueuedCommandsDie` speaks of the
drive command and the buffer; in between is the core, which ramps: a speed may be left over from a
command that has been replaced, gone stale or been marked invalid. `SpeedHasSender` says that the
core's speed is what the drives get, that a valid command was sent to the activation it is tagged
with, and that a speed above 0 goes with a command of this activation. The argument is
`OnlyFreshGains`: without a fresh command no path of `ControlCore::update` gains speed.
`PumpStopsReleased` needs only the type of the coils: it rests on `pump_stop_blocker` reading them
anew.

`Battery_proofs` proves `JoinsWhatAgrees` (`JoinsAgree`) for every set of reports and all timeouts
(`BatteryAssumption`). Its inductive invariant `BInv` adds two facts to the type of the controller:
while the relay is awaited its command is "close", so that the repetition of `hold_relay` is not a
new command; and the D9 command is out only after both packs have been seen healthy, so that from
then on a pack that is not healthy is a fault. With it, what the monitor leaves standing in
`waiting_for_mos` meets every join condition (`MonitoredJoin`), and the relay closes from there or
from `waiting_for_join_conditions` only (`JoinStep`); isolation never closes it (`IsolationStep`).

### 8.4 The Kinco slave

`Kinco_proofs` proves for every range of positions, tolerance, timeout, ride through and set of
writes (`KincoAssumption`) `UnownedStays` (`UnownedDriveStays`); that every handoff to CSV discards
what was written before (`HandoffsDiscard`); and `SpeedIsInformed` (`NoBlindSpeedSent`). None of them
depends on the startup mode.

**Argument.** `Outcome(p, t)` is a contract of `onPdoCycleStart` between the frame as it is prepared
and as it is sent: which inputs stay, when an error, a request or a seed may end, which mode, target
and speed the frame may carry. It has one lemma per branch (`SeedOut`, `DisabledOut`, `InFlightOut`,
`FollowPositionOut`, ...), so that the invariants need the contract and not the branches. `HoldInv`:
between two frames no seed is pending, a seed that was sent has a known hold, and in CSP with nothing
in flight the target on the wire is the hold. `SpeedInv` has a half per startup mode.
`FromCsp`: CSV appears on a drive that did not show it only while a request for it is in flight, after
an error or before the seed, and in each of these the velocity in the interface is discarded before
one is followed. `CsvRun`: from the launch of a request until `target` is replaced or cleared, neither
the wire nor `last_sent_velocity_raw_` is blind; once the request has ended, the interface is not
either, every frame asks for CSV, and so the drive shows no mode or CSV and nobody writes blindly.

**What is not shown.** The branch for a disabled drive discards a pending position and not a pending
velocity; a drive that starts in CSV shows it, without a handoff, in the first cycle in which it is
enabled, and follows what was written while it was disabled or, before that, in CSP. On the Alfa_V3
the steering axes start in CSP (`steering_csp`, mode 8) and never switch; the wheels start in CSV
(`drive_csv`, mode 9) and do. Of the wheels, then, the handoffs are shown, and that no velocity is
left in the interface over a disable is up to their controller.

### 8.5 The rolling trajectory controller

`Rolling_proofs` proves for every capacity, horizon, lead, guard, timeout, counter limit, client,
glitch and delay (`BufferAssumption`, `RollingAssumption`), in three layers, each on the one before:

* `SessionIsFollowed` (`FollowsItsSession`) from `SessionInv`: the three slots have one owner each
  and none is newer than the last publication; the realtime thread never sees an epoch before it is
  published and knows its floor; what the callback decided on still holds where it acts on it; a
  session without an accepted batch has published nothing; every slot from the floor on was drawn in
  this activation; and the slot that is sampled is older than what waits in the middle.
* `HoldingIsExplained` (`HoldingTellsWhy`) from `RestInv`: curves ascend in time and a final one ends
  at rest; a running command lies on its curve, a stopping one brakes for as many cycles as it has
  speed, any other is at rest; and an arm that has moved has a reason, kept in `stop_reason_` or,
  while a session is being opened, with the callback.
* `LeadStaysFixed` (`LeadIsFixed`) from `LeadInv`: from the executing time to its earliest change,
  what the callback accepted, what it is preparing, and what it has published without its being
  seen, each is the curve that is followed (`FromActive`, `FromUnseen`), in increasing generations
  (`Generations`). That is what makes it safe to replace a batch nobody has seen: `prepare` draws
  over the accepted image, not over the active one, and the earliest change is the minimum over the
  replaced ones (`PreparedNext`). `KnotIs` and the lemmas on `Spliced` say that a splice samples as
  before up to where it starts (`PreparedAgrees`); `GenerationChanges` that only a running update
  takes a new image up.

`RollingAssumption` asks that a client has a plan for every activation; one that sends nothing has
the plan with no batch to choose from.

## 9. Not modelled

See `components` in `PROJECT.json` for the reason of each: pure I/O (`infra_socketcan`,
`periph_imu_lpms`, `periph_led_ultrasonic`), generators and data (`integ_composer`,
`infra_renderer`, `hwcfg_machines`), commissioning tools, presentation, real arithmetic (kinematics,
odometry, cubic segments). The components of steps 5 to 6 of the plan are not modelled yet. Of the
head: the register checks of `on_configure` are success or failure, the switch of its command
interfaces only sets position values. What the other modules leave out is said in their sections.
