---------------------------- MODULE EnableManager ----------------------------
(***************************************************************************)
(* The enable manager at work: its realtime update, its service threads    *)
(* and its worker, between the drives and devices it commands and the      *)
(* controller manager.                                                     *)
(***************************************************************************)
EXTENDS EnableUpdate, EnableModeSwitch

CONSTANTS
  Clients,      \* the services that are called: a subset of Services and "mode"
  Disturbances, \* what the hardware may do unasked
  Lifecycle     \* the controller may be deactivated and activated again

ASSUME EnvironmentAssumption ==
  /\ Clients \subseteq Services \cup {"mode"}
  /\ "mode" \in Clients => MotionModeSwitching
  /\ Disturbances \subseteq
       {"drive_fault", "power_stage_lost", "offline", "sources", "modes", "device", "motion_fault"}
  /\ Lifecycle \in BOOLEAN

-----------------------------------------------------------------------------
(* on_activate(): every request and latch starts clear, and the update     *)
(* first walks the group down.                                             *)
ActivationCleared ==
  Flags \ {"active", "motion_fault_request", "motion_fault_pending",
           "state_sources_qualified"}

Activate ==
  /\ "active" \notin flags
  /\ \A d \in Devices : dev[d] # "invalid"
  /\ setAllControlWords("disable_voltage")
  /\ dev_enable' = FALSE
  /\ dev_reset' = {}
  /\ phase' = "startup_sanitizing" /\ owner' = "internal" /\ control_mode' = "disabled"
  /\ flags' = (flags \ ActivationCleared) \cup {"active"}
  /\ current_batch' = 1 /\ downward_stage' = 0 /\ stage_deadline' = NoDeadline
  /\ primary_failure' = "success"
  /\ UNCHANGED <<hwVars, mode_cmd, controllers, result, reset_targets, interrupted_owner,
                 mode_confirmed, ready_since, threadVars>>

(* on_deactivate(): the last commands the drives get from this controller. *)
DeactivateSilently ==                  \* mutant: the last words are left standing
  /\ Lifecycle /\ "active" \in flags
  /\ dev_enable' = FALSE
  /\ phase' = "inactive" /\ owner' = "internal" /\ control_mode' = "disabled"
  /\ flags' = (flags \ {"active"}) \cup {"mode_abort_requested"}
  /\ UNCHANGED <<hwVars, cw, mode_cmd, dev_reset, controllers, result, rtVars, threadVars>>

Deactivate ==
  /\ Lifecycle /\ "active" \in flags
  /\ setAllControlWords("disable_voltage")
  /\ dev_enable' = FALSE
  /\ phase' = "inactive" /\ owner' = "internal" /\ control_mode' = "disabled"
  /\ flags' = (flags \ {"active"}) \cup {"mode_abort_requested"}
  /\ UNCHANGED <<hwVars, mode_cmd, dev_reset, controllers, result, rtVars, threadVars>>

-----------------------------------------------------------------------------
(* The hardware.  It is external: what it may do is what the manager's     *)
(* checks are for.                                                         *)

hwFrame == UNCHANGED <<cw, dev_enable, mode_cmd, controllers, sharedVars, rtVars, threadVars>>

(* An offline drive keeps its last status word.                            *)
DriveAnswers(a) ==
  /\ online
  /\ \E s \in Answers(drive[a], cw[a]) : drive' = [drive EXCEPT ![a] = s]
  /\ UNCHANGED <<mode, online, sources, dev, dev_reset>> /\ hwFrame

DriveDisturbed(a) ==
  /\ online
  /\ \/ /\ "drive_fault" \in Disturbances /\ ~isFaultState(drive[a])
        /\ drive' = [drive EXCEPT ![a] = "fault_reaction_active"]
     \/ /\ "power_stage_lost" \in Disturbances /\ drive[a] = "operation_enabled"
        /\ drive' = [drive EXCEPT ![a] = "switch_on_disabled"]
  /\ UNCHANGED <<mode, online, sources, dev, dev_reset>> /\ hwFrame

LinkChanges ==
  /\ "offline" \in Disturbances
  /\ online' = ~online
  /\ UNCHANGED <<drive, mode, sources, dev, dev_reset>> /\ hwFrame

SourcesChange ==
  /\ HasReadySources
  /\ ~sources \/ "sources" \in Disturbances
  /\ sources' = ~sources
  /\ UNCHANGED <<drive, mode, online, dev, dev_reset>> /\ hwFrame

(* The displayed mode of operation follows the commanded one; a drive that *)
(* is not in operation may show none yet.                                  *)
DriveModeShown(a) ==
  /\ CheckModes
  /\ \E m \in {IF a \in ModeSwitchAxes THEN mode_cmd ELSE "expected"}
               \cup (IF drive[a] # "operation_enabled" THEN {"pending"} ELSE {})
               \cup (IF "modes" \in Disturbances THEN {"other"} ELSE {}) :
       m # mode[a] /\ mode' = [mode EXCEPT ![a] = m]
  /\ UNCHANGED <<drive, online, sources, dev, dev_reset>> /\ hwFrame

(* A handshake device moves as the handshake lets it; it may latch a fault *)
(* or become unreadable.                                                   *)
DeviceAnswers(d) ==
  /\ \/ \E mv \in DeviceMoves(dev[d], d \in dev_reset, dev_enable) :
          /\ dev' = [dev EXCEPT ![d] = mv[1]]
          /\ dev_reset' = IF mv[2] THEN dev_reset ELSE dev_reset \ {d}
     \/ /\ "device" \in Disturbances
        /\ \E p \in {"fault_latched", "invalid"} : p # dev[d] /\ dev' = [dev EXCEPT ![d] = p]
        /\ UNCHANGED dev_reset
  /\ UNCHANGED <<drive, mode, online, sources>> /\ hwFrame

Hardware ==
  \/ \E a \in Axes : DriveAnswers(a) \/ DriveDisturbed(a) \/ DriveModeShown(a)
  \/ LinkChanges \/ SourcesChange
  \/ \E d \in Devices : DeviceAnswers(d)

-----------------------------------------------------------------------------
(* The process has just loaded and configured the controller.  The drives  *)
(* may be in any state, operation included: a crashed process leaves them  *)
(* as they were.                                                           *)
Init ==
  /\ drive \in [Axes -> DriveStates]
  /\ mode = [a \in Axes |-> "expected"]
  /\ online = TRUE /\ sources = ~HasReadySources
  /\ dev \in [Devices -> {"disabled", "fault_latched"}]
  /\ dev_reset = {}
  /\ cw = [a \in Axes |-> "disable_voltage"]
  /\ dev_enable = FALSE /\ mode_cmd = "expected"
  /\ controllers = "disabled"
  /\ phase = "inactive" /\ owner = "internal" /\ control_mode = "disabled"
  /\ flags = {} /\ result = [s \in Services |-> "none"]
  /\ current_batch = 1 /\ stage_deadline = NoDeadline /\ downward_stage = 0
  /\ primary_failure = "success" /\ reset_targets = {}
  /\ interrupted_owner = "none" /\ mode_confirmed = {} /\ ready_since = NotSince
  /\ pc = [t \in Threads |-> "idle"] /\ switched = [t \in Threads |-> "none"]
  /\ seen = NotSeen /\ source = "motion"

Calls ==
  \/ "enable" \in Clients /\ EnableService
  \/ "disable" \in Clients /\ DisableService
  \/ "reset" \in Clients /\ ResetService
  \/ "mode" \in Clients /\ ModeService
  \/ "motion_fault" \in Disturbances /\ MotionFaultReport
  \/ \E w \in Workers : Worker(w)

Next == Update \/ Activate \/ Deactivate \/ Hardware \/ Calls

Spec == Init /\ [][Next]_vars

=============================================================================
