------------------------- MODULE EnableManagerState -------------------------
(***************************************************************************)
(* The state of ctrl_enable_manager::EnableManagerController and of what   *)
(* it talks to: the CiA 402 drives and handshake devices it commands, the  *)
(* controller manager whose controllers it switches, and its own members.  *)
(* The actions are in EnableUpdate (the realtime update), EnableServices   *)
(* (the service threads and the worker) and EnableModeSwitch (the control  *)
(* mode service); EnableManager composes them.                             *)
(***************************************************************************)
EXTENDS Integers, Sequences, FiniteSets, Cia402, Handshake

CONSTANTS
  Axes,               \* managed_joints, numbered 1..n in their order
  Batches,            \* enable_batches_: a sequence of sets of axes
  ReadyTerminal,      \* axes whose disable ends in ready_to_switch_on
  Devices,            \* handshake_devices_
  CheckModes,         \* expected_modes_ is not empty
  ModeSwitchAxes,     \* mode_switch_axis_: drives that may also run in CSP
  HasReadySources,    \* ready_state_indices_ is not empty
  EnableOnly,         \* enable_only_: no motion controller is managed
  MotionModeSwitching,\* motion_mode_switching_
  BatchTimeout, DisableStageTimeout, InterBatchDelay, FaultResetTimeout,
  ReadyHold,          \* the durations, in update cycles
  Workers,            \* ticks of the worker timer that may overlap
  ClientTimeouts      \* service_result_timeout_ may pass before the update answers

(* What on_configure and the composer's schema check of the parameters.    *)
ASSUME TopologyAssumption ==
  /\ Axes = 1..Cardinality(Axes) /\ IsFiniteSet(Axes)
  /\ Batches \in Seq(SUBSET Axes)
  /\ \A i \in 1..Len(Batches) : Batches[i] # {}
  /\ \A a \in Axes : \E i \in 1..Len(Batches) : a \in Batches[i]
  /\ \A i, j \in 1..Len(Batches) : i # j => Batches[i] \cap Batches[j] = {}
  /\ Batches # <<>> \/ Devices # {}
  /\ ReadyTerminal \subseteq Axes /\ ModeSwitchAxes \subseteq Axes
  /\ IsFiniteSet(Devices)

ASSUME OptionAssumption ==
  /\ {CheckModes, HasReadySources, EnableOnly, MotionModeSwitching} \subseteq BOOLEAN
  /\ EnableOnly => ~MotionModeSwitching
  /\ MotionModeSwitching => Axes # {}
  /\ ModeSwitchAxes # {} => CheckModes /\ MotionModeSwitching

ASSUME TimingAssumption ==
  /\ {BatchTimeout, DisableStageTimeout, FaultResetTimeout} \subseteq Nat \ {0}
  /\ {InterBatchDelay, ReadyHold} \subseteq Nat

ASSUME ThreadAssumption ==
  Workers \cap {"enable", "disable", "reset", "mode"} = {}

VARIABLES
  \* the hardware, as the samples of an update show it
  drive,        \* drive[a]: decoded state of axis a's status word
  mode,         \* mode[a]: mode_of_operation_display, relative to the policy
  online,       \* no offline source is stale or outside OP
  sources,      \* every required state source is ready
  dev,          \* dev[d]: phase of handshake device d, "invalid" if unreadable
  dev_reset,    \* devices whose reset_target_ generation is not handled yet
  \* the commands the update leaves in the loaned interfaces
  cw, dev_enable, mode_cmd,
  \* the controller manager: which managed controller set is active
  controllers,
  \* members shared between the update and the service threads
  phase, owner, control_mode,
  flags,        \* the boolean members that are TRUE
  result,       \* the three result slots; "none" while not ready
  \* members of the realtime thread only
  current_batch, stage_deadline, downward_stage, primary_failure,
  reset_targets, interrupted_owner, mode_confirmed, ready_since,
  \* the threads: program counter, outcome of the controller switch, the
  \* phase and owner that handleDisable has read, and the mode that
  \* handleSetMode has read
  pc, switched, seen, source

hwVars      == <<drive, mode, online, sources, dev>>
cmdVars     == <<cw, dev_enable, mode_cmd, dev_reset>>
sharedVars  == <<phase, owner, control_mode, flags, result>>
rtVars      == <<current_batch, stage_deadline, downward_stage, primary_failure,
                 reset_targets, interrupted_owner, mode_confirmed, ready_since>>
threadVars  == <<pc, switched, seen, source>>
vars        == <<hwVars, cmdVars, controllers, sharedVars, rtVars, threadVars>>

Phases ==
  {"inactive", "startup_sanitizing", "idle", "enabling", "inter_batch_delay",
   "jtc_activating", "enabled", "jtc_deactivating", "disabling", "rollback",
   "reset_low", "reset_high", "reset_disabling", "emergency_quick_stop",
   "emergency_disable", "failed"}

Owners == {"none", "enable", "disable", "reset", "mode", "internal"}

(* motion is motion_controller_mode_, alternate the second motion mode     *)
(* (rolling for the arms, the wheel trajectory controller in CSP for the   *)
(* chassis).                                                               *)
ControlModes == {"disabled", "motion", "alternate", "restart_required"}

(* What list_controllers shows: one of the modes, or a mixture.            *)
ControllerSets == {"disabled", "motion", "alternate", "mixed"}

Flags ==
  {"active", "enable_request", "disable_request", "reset_request",
   "enable_hardware_ready", "jtc_activated_request", "jtc_activate_failed_request",
   "jtc_deactivate_failed", "jtc_deactivation_required",
   "emergency_jtc_deactivate_request", "restart_required", "switch_in_progress",
   "motion_fault_request", "motion_fault_pending", "mode_abort_requested",
   "drive_csp_requested",
   \* booleans of the realtime thread
   "device_stage", "enable_preempt_requested", "state_sources_qualified"}

Services == {"enable", "disable", "reset"}
Threads  == Services \cup {"mode"} \cup Workers

(* The stages that publishResult and primary_failure_stage_ carry, as far  *)
(* as the control flow and the properties tell them apart.                 *)
Failures == {"success", "motion_fault", "other"}
Results  == {"none", "ok", "motion_fault", "other"}

DriveModes   == {"expected", "csp", "pending", "other"}

NoDeadline == -1    \* stage_deadline_ns_ == 0
NotSince   == -1    \* ready_since_ns_ == -1
NotSeen    == [phase |-> "inactive", owner |-> "none"]   \* no local copy is live

PcLabels ==
  {"idle", "cas", "wait_hardware", "switch", "call", "after", "wait_result",
   "mode_wait", "begin", "mf_cas", "mf_begin", "mf_switch", "mf_call", "mf_after",
   "stop", "validate", "list", "decide", "drives", "drives_wait", "drives_shown",
   "confirm", "store", "unlock", "converge", "converge_restart", "release"}

SwitchResults == {"none", "success", "failed", "ambiguous"}

TypeOK ==
  /\ drive \in [Axes -> DriveStates]
  /\ mode \in [Axes -> DriveModes]
  /\ online \in BOOLEAN /\ sources \in BOOLEAN
  /\ dev \in [Devices -> DevicePhases]
  /\ dev_reset \in SUBSET Devices
  /\ cw \in [Axes -> ControlWords]
  /\ dev_enable \in BOOLEAN
  /\ mode_cmd \in {"expected", "csp"}
  /\ controllers \in ControllerSets
  /\ phase \in Phases
  /\ owner \in Owners
  /\ control_mode \in ControlModes
  /\ flags \in SUBSET Flags
  /\ result \in [Services -> Results]
  /\ current_batch \in Nat
  /\ stage_deadline \in Int
  /\ downward_stage \in 0..2
  /\ primary_failure \in Failures
  /\ reset_targets \in SUBSET Axes
  /\ interrupted_owner \in Owners
  /\ mode_confirmed \in SUBSET Axes
  /\ ready_since \in Int
  /\ pc \in [Threads -> PcLabels]
  /\ switched \in [Threads -> SwitchResults]
  /\ seen \in [phase : Phases, owner : Owners]
  /\ source \in {"motion", "alternate"}

-----------------------------------------------------------------------------
(* What an update reads of its samples.                                    *)

DeviceFaulted(d)     == dev[d] \in {"fault_latched", "invalid"}
anyDeviceFaulted     == \E d \in Devices : DeviceFaulted(d)
allDevicesEnabled    == \A d \in Devices : dev[d] = "enabled"
allDevicesDisabledOrFaulted ==
  \A d \in Devices : dev[d] = "disabled" \/ DeviceFaulted(d)
allDevicesDisabled ==                  \* mutant: the generation is not compared
  \A d \in Devices : dev[d] = "disabled"
allDeviceResetsComplete ==
  \A d \in Devices : dev[d] = "disabled" /\ d \notin dev_reset

isConfirmedDisableTerminal(a) ==
  \/ drive[a] = "switch_on_disabled"
  \/ drive[a] = "ready_to_switch_on" /\ a \in ReadyTerminal

anyOperationEnabled == \E a \in Axes : drive[a] = "operation_enabled"
anySwitchedOn       == \E a \in Axes : drive[a] = "switched_on"
anyAxisFault        == \E a \in Axes : isFaultState(drive[a])
anyFault            == anyAxisFault \/ anyDeviceFaulted
allOutOfOperation ==                   \* mutant: the terminal is not confirmed
  allDevicesDisabledOrFaulted /\ ~anyOperationEnabled
allNonfaultTerminal ==
  /\ allDevicesDisabledOrFaulted
  /\ \A a \in Axes : isFaultState(drive[a]) \/ isConfirmedDisableTerminal(a)

modeConfirmed(a)        == mode[a] = "expected" \/ ~CheckModes
modePending(a)          == CheckModes /\ mode[a] = "pending"
runningModeConfirmed(a) == modeConfirmed(a) \/ (a \in ModeSwitchAxes /\ mode[a] = "csp")
=============================================================================
