---------------------------- MODULE EnableUpdate ----------------------------
(***************************************************************************)
(* EnableManagerController::update(), one action per cycle of the realtime *)
(* thread.  ros2_control reads the hardware before the update and writes   *)
(* it after, in the same thread, so the samples do not change in a cycle.  *)
(* The service threads run between cycles; see README for what the grain   *)
(* of one cycle leaves out.                                                *)
(***************************************************************************)
EXTENDS EnableManagerState

(* stage_deadline_ns_ - now_ns in cycles, as this cycle sees it.           *)
remainingForever == stage_deadline     \* mutant: the clock is not read again
remaining == IF stage_deadline > 0 THEN stage_deadline - 1 ELSE stage_deadline
expired   == remaining <= 0

setAllControlWords(w) == cw' = [a \in Axes |-> w]
publishResult(s, r)   == result' = [result EXCEPT ![s] = r]
Failed(f)             == IF f = "success" THEN "other" ELSE f

(* writeDriveModes(): CSP is requested only while enabled, and the request *)
(* is dropped in every other phase.  S is what the handler leaves raised.  *)
writeDriveModesKeepsCsp(S) ==          \* mutant: the request survives the stop
  /\ flags' = S
  /\ mode_cmd' = IF ModeSwitchAxes = {} THEN mode_cmd
                 ELSE IF "drive_csp_requested" \in flags' THEN "csp" ELSE "expected"

writeDriveModes(S) ==
  /\ flags' = IF phase' = "enabled" \/ ModeSwitchAxes = {}
                THEN S ELSE S \ {"drive_csp_requested"}
  /\ mode_cmd' = IF ModeSwitchAxes = {} THEN mode_cmd
                 ELSE IF "drive_csp_requested" \in flags' THEN "csp" ELSE "expected"

startDownward(p) ==
  /\ phase' = p
  /\ downward_stage' = 0
  /\ stage_deadline' = DisableStageTimeout

-----------------------------------------------------------------------------
(* The downward walk: 0x0007, then 0x0006, then 0x0000, each stage for the *)
(* whole group and under its own deadline.                                 *)

DownwardCommand(s) ==
  CASE s = "operation_enabled" -> "switch_on"
    [] s = "switched_on" -> "shutdown"
    [] OTHER -> "disable_voltage"

DownwardStageDoneAlways(stage) ==      \* mutant: >= 1 in place of = 1
  \/ stage = 0 /\ ~anyOperationEnabled
  \/ stage >= 1 /\ ~anyOperationEnabled /\ ~anySwitchedOn

DownwardStageDone(stage) ==
  \/ stage = 0 /\ ~anyOperationEnabled
  \/ stage = 1 /\ ~anyOperationEnabled /\ ~anySwitchedOn

(* finishDownward() in phase p: the result it publishes, the phase it ends *)
(* in and the control mode it reports.                                     *)
FinishOutcome(p, f) ==
  CASE p = "disabling" ->
         IF anyFault \/ "jtc_deactivate_failed" \in flags THEN "other"
         ELSE IF f # "success" THEN f ELSE "ok"
    [] p = "reset_disabling" -> IF anyFault \/ ~allNonfaultTerminal THEN "other" ELSE "ok"
    [] OTHER -> Failed(f)

FinishSlot(p) ==
  CASE p = "disabling" -> {"disable"}
    [] p = "rollback" -> {"enable"}
    [] p = "reset_disabling" -> {"reset"}
    [] p = "emergency_disable" -> {interrupted_owner} \cap {"enable", "disable"}
    [] OTHER -> {}

FinishFails(p, f) ==
  CASE p = "startup_sanitizing" -> f # "success" \/ anyFault
    [] p \in {"disabling", "reset_disabling"} -> FinishOutcome(p, f) # "ok"
    [] p = "rollback" -> anyFault \/ "restart_required" \in flags
    [] OTHER -> anyFault \/ ~allNonfaultTerminal \/ "restart_required" \in flags

finishDownward(p, f) ==
  /\ control_mode' = IF p = "emergency_disable" /\ "restart_required" \in flags
                       THEN "restart_required" ELSE "disabled"
  /\ result' = [s \in Services |->
                  IF s \in FinishSlot(p) THEN FinishOutcome(p, f) ELSE result[s]]
  /\ phase' = IF FinishFails(p, f) THEN "failed" ELSE "idle"
  /\ owner' = "none"
  /\ stage_deadline' = remaining
  /\ UNCHANGED <<downward_stage, interrupted_owner>>

(* updateDownward() in phase p, a downward phase that is already running.  *)
updateDownward(p) ==
  LET done    == DownwardStageDone(downward_stage)
      finish  == downward_stage = 2 /\ allNonfaultTerminal
      timeout == ~done /\ ~finish /\ expired
  IN
  /\ dev_enable' = FALSE
  /\ cw' = [a \in Axes |->
              IF timeout /\ p = "reset_disabling" THEN "disable_voltage"
                                                 ELSE DownwardCommand(drive[a])]
  /\ UNCHANGED <<dev_reset, current_batch, reset_targets, mode_confirmed, ready_since>>
  /\ \/ /\ done                                   \* the next stage
        /\ downward_stage' = downward_stage + 1
        /\ stage_deadline' = DisableStageTimeout
        /\ UNCHANGED <<phase, owner, control_mode, result, primary_failure,
                       interrupted_owner>>
        /\ writeDriveModes(flags)
     \/ /\ finish
        /\ finishDownward(p, primary_failure)
        /\ UNCHANGED primary_failure
        /\ writeDriveModes(flags)
     \/ /\ ~done /\ ~finish /\ ~expired
        /\ stage_deadline' = remaining
        /\ UNCHANGED <<phase, owner, control_mode, result, primary_failure,
                       interrupted_owner, downward_stage>>
        /\ writeDriveModes(flags)
     \/ /\ timeout /\ p = "reset_disabling"
        /\ publishResult("reset", "other")
        /\ phase' = "failed" /\ owner' = "none"
        /\ stage_deadline' = remaining
        /\ UNCHANGED <<control_mode, primary_failure, interrupted_owner, downward_stage>>
        /\ writeDriveModes(flags)
     \/ /\ timeout /\ p \notin {"reset_disabling", "emergency_disable"}
        /\ primary_failure' = Failed(primary_failure)
        /\ interrupted_owner' = owner
        /\ stage_deadline' = DisableStageTimeout
        /\ phase' = "emergency_quick_stop"
        /\ UNCHANGED <<owner, control_mode, result, downward_stage>>
        /\ writeDriveModes(flags \cup {"emergency_jtc_deactivate_request"})
     \/ /\ timeout /\ p = "emergency_disable"
        /\ primary_failure' = Failed(primary_failure)
        /\ finishDownward(p, Failed(primary_failure))
        /\ writeDriveModes(flags)

(* startDownward(p) and the first updateDownward() in the same cycle: the  *)
(* deadline is fresh, so the walk advances or waits.                       *)
EnterDownward(p) ==
  /\ cw' = [a \in Axes |-> DownwardCommand(drive[a])]
  /\ dev_enable' = FALSE
  /\ phase' = p
  /\ downward_stage' = IF anyOperationEnabled THEN 0 ELSE 1
  /\ stage_deadline' = DisableStageTimeout

-----------------------------------------------------------------------------
(* The emergency path: quick stop while an axis is in operation, then the  *)
(* downward walk as emergency_disable.                                     *)

QuickStopCommand(s) ==
  CASE s \in {"operation_enabled", "quick_stop_active"} -> "quick_stop"
    [] s = "switched_on" -> "shutdown"
    [] OTHER -> "disable_voltage"

(* updateEmergencyQuickStop() with rem cycles left of its deadline.        *)
updateEmergencyQuickStop(rem) ==
  /\ cw' = [a \in Axes |-> QuickStopCommand(drive[a])]
  /\ dev_enable' = FALSE
  /\ IF ~anyOperationEnabled \/ rem <= 0
       THEN startDownward("emergency_disable")
       ELSE /\ phase' = "emergency_quick_stop"
            /\ stage_deadline' = rem
            /\ UNCHANGED downward_stage

(* startEmergency() and the quick stop of the same cycle.  S is what the   *)
(* caller leaves raised.                                                   *)
startEmergency(S) ==
  /\ interrupted_owner' = owner
  /\ primary_failure' = "other"
  /\ owner' = "internal"
  /\ updateEmergencyQuickStop(DisableStageTimeout)
  /\ UNCHANGED <<dev_reset, control_mode, result, current_batch, reset_targets,
                 mode_confirmed, ready_since>>
  /\ writeDriveModes(S \cup {"emergency_jtc_deactivate_request"})

(* The check that guards the phases in which the group holds torque under  *)
(* a motion controller.  A drive that lost power keeps its last status     *)
(* word; only an offline source shows it.                                  *)
Monitored == phase \in {"enabled", "jtc_activating", "jtc_deactivating"}

GroupHealthyByDevices ==               \* mutant: the drives are not sampled
  online /\ allDevicesEnabled

GroupHealthyOffline ==                 \* mutant: stale status words are trusted
  /\ \A a \in Axes : drive[a] = "operation_enabled" /\ runningModeConfirmed(a)
  /\ allDevicesEnabled

GroupHealthy ==
  /\ online
  /\ \A a \in Axes : drive[a] = "operation_enabled" /\ runningModeConfirmed(a)
  /\ allDevicesEnabled

MonitorTrips ==
  /\ Monitored /\ ~GroupHealthy
  /\ startEmergency(IF online THEN flags ELSE flags \cup {"restart_required"})

-----------------------------------------------------------------------------
(* updateEnable(): the upward walk, batch after batch, then the devices.   *)
(* Its early returns are the guards of the actions below, in order.        *)

Enabling == phase \in {"enabling", "inter_batch_delay"}

(* The flags once a disable request has been seen during the walk.         *)
preemptFlags ==
  IF "disable_request" \in flags THEN flags \cup {"enable_preempt_requested"} ELSE flags
preempted == "enable_preempt_requested" \in preemptFlags

(* failEnable(): rollback, or disabling for the disable that preempts.     *)
failEnable ==
  /\ primary_failure' = "other"
  /\ IF preempted
       THEN /\ publishResult("enable", "other")
            /\ owner' = "disable"
            /\ EnterDownward("disabling")
            /\ writeDriveModes(preemptFlags \ {"disable_request"})
       ELSE /\ EnterDownward("rollback")
            /\ UNCHANGED <<result, owner>>
            /\ writeDriveModes(preemptFlags)
  /\ UNCHANGED <<dev_reset, control_mode, current_batch, reset_targets,
                 interrupted_owner, mode_confirmed, ready_since>>

(* A disable takes over a walk that has not failed.  S is what is raised.  *)
preemptedByDisable(S) ==
  /\ publishResult("enable", "other")
  /\ owner' = "disable"
  /\ primary_failure' = "success"
  /\ startDownward("disabling")
  /\ UNCHANGED <<dev_reset, dev_enable, control_mode, current_batch, reset_targets,
                 interrupted_owner>>
  /\ writeDriveModes(S \ {"disable_request"})

EnableFaulted ==
  /\ Enabling /\ anyFault
  /\ startEmergency(preemptFlags \ {"disable_request"})

(* A confirmed axis cannot go back to pending while others are enabling.   *)
ConfirmedHolds ==
  \A a \in mode_confirmed : drive[a] = "operation_enabled" /\ modeConfirmed(a)

EnableReverted == Enabling /\ ~anyFault /\ ~ConfirmedHolds /\ failEnable

(* Required state sources must have been ready for ReadyHold before the    *)
(* first batch, and stay ready.                                            *)
qualified == "state_sources_qualified" \in flags
since     == IF ready_since < 0 THEN 0 ELSE ready_since + 1
qualifies == ~qualified /\ sources /\ since >= ReadyHold

EnableSourcesLost ==
  /\ Enabling /\ ~anyFault /\ ConfirmedHolds
  /\ HasReadySources
  /\ \/ qualified /\ ~sources
     \/ ~qualified /\ ~qualifies /\ (preempted \/ expired)
  /\ failEnable

EnableSourcesWait ==
  /\ Enabling /\ ~anyFault /\ ConfirmedHolds
  /\ HasReadySources /\ ~qualified /\ ~qualifies /\ ~preempted /\ ~expired
  /\ setAllControlWords("disable_voltage")
  /\ ready_since' = IF sources THEN since ELSE NotSince
  /\ stage_deadline' = remaining
  /\ UNCHANGED <<dev_reset, dev_enable, phase, owner, control_mode, result, current_batch,
                 downward_stage, primary_failure, reset_targets, interrupted_owner,
                 mode_confirmed>>
  /\ writeDriveModes(preemptFlags)

(* The walk itself goes on only past those checks; a source that has just  *)
(* qualified restarts the batch deadline.                                  *)
WalkAllowedOnceReady ==                \* mutant: a lost source is not noticed
  /\ Enabling /\ ~anyFault /\ ConfirmedHolds
  /\ HasReadySources => qualified \/ qualifies

WalkAllowed ==
  /\ Enabling /\ ~anyFault /\ ConfirmedHolds
  /\ HasReadySources => (qualified /\ sources) \/ qualifies
walkFlags == IF HasReadySources THEN preemptFlags \cup {"state_sources_qualified"}
                                ELSE preemptFlags
walkRemaining == IF HasReadySources /\ qualifies THEN BatchTimeout ELSE remaining
walkSince ==
  ready_since' = IF HasReadySources /\ ~qualified /\ ready_since < 0 THEN 0 ELSE ready_since

EnableInterBatch ==
  /\ WalkAllowed /\ phase = "inter_batch_delay"
  /\ cw' = [a \in Axes |-> IF drive[a] = "operation_enabled" THEN "enable_operation"
                                                            ELSE "disable_voltage"]
  /\ walkSince /\ UNCHANGED mode_confirmed
  /\ \/ preempted /\ preemptedByDisable(walkFlags)
     \/ /\ ~preempted
        /\ IF walkRemaining <= 0
             THEN /\ current_batch' = current_batch + 1
                  /\ stage_deadline' = BatchTimeout
                  /\ phase' = "enabling"
             ELSE /\ stage_deadline' = walkRemaining
                  /\ UNCHANGED <<current_batch, phase>>
        /\ UNCHANGED <<dev_reset, dev_enable, owner, control_mode, result, downward_stage,
                       primary_failure, reset_targets, interrupted_owner>>
        /\ writeDriveModes(walkFlags)

(* updateDeviceEnable(): every axis must stay enabled while the devices    *)
(* follow.                                                                 *)
DeviceStage == WalkAllowed /\ phase = "enabling" /\ "device_stage" \in flags
AllAxesEnabled == \A a \in Axes : drive[a] = "operation_enabled"

EnableDevicesFail ==
  /\ DeviceStage
  /\ \/ ~AllAxesEnabled
     \/ ~preempted /\ ~allDevicesEnabled /\ walkRemaining <= 0
  /\ failEnable

EnableDevices ==
  /\ DeviceStage /\ AllAxesEnabled
  /\ setAllControlWords("enable_operation")
  /\ walkSince /\ UNCHANGED mode_confirmed
  /\ \/ preempted /\ preemptedByDisable(walkFlags)
     \/ /\ ~preempted /\ (allDevicesEnabled \/ walkRemaining > 0)
        /\ dev_enable' = TRUE
        /\ phase' = IF allDevicesEnabled THEN "jtc_activating" ELSE phase
        /\ stage_deadline' = walkRemaining
        /\ UNCHANGED <<dev_reset, owner, control_mode, result, current_batch, downward_stage,
                       primary_failure, reset_targets, interrupted_owner>>
        /\ writeDriveModes(
             IF allDevicesEnabled
               THEN (walkFlags \ {"device_stage"}) \cup {"enable_hardware_ready"}
               ELSE walkFlags)

(* The current batch climbs one state per drive answer; earlier batches    *)
(* must stay in operation.                                                 *)
BatchStage == WalkAllowed /\ phase = "enabling" /\ "device_stage" \notin flags
current    == Batches[current_batch]
previous   == UNION {Batches[i] : i \in 1..(current_batch - 1)}
pastLastBatch == current_batch > Len(Batches)   \* mutant: off by one
lastBatch == current_batch = Len(Batches)

EnableCommandAll(a) ==                 \* mutant: every batch climbs at once
  IF a \in previous THEN "enable_operation"
  ELSE CASE drive[a] = "switch_on_disabled" -> "shutdown"
         [] drive[a] = "ready_to_switch_on" -> "switch_on"
         [] drive[a] \in {"switched_on", "operation_enabled"} -> "enable_operation"
         [] OTHER -> "disable_voltage"

EnableCommand(a) ==
  IF a \in previous THEN "enable_operation"
  ELSE IF a \notin current THEN "disable_voltage"
  ELSE CASE drive[a] = "switch_on_disabled" -> "shutdown"
         [] drive[a] = "ready_to_switch_on" -> "switch_on"
         [] drive[a] \in {"switched_on", "operation_enabled"} -> "enable_operation"
         [] OTHER -> "disable_voltage"

BatchInvalid ==
  \/ \E a \in previous : drive[a] # "operation_enabled"
  \/ \E a \in current :
       \/ ~modeConfirmed(a) /\ ~modePending(a)
       \/ drive[a] \notin {"switch_on_disabled", "ready_to_switch_on", "switched_on",
                           "operation_enabled"}
BatchComplete == \A a \in current : drive[a] = "operation_enabled" /\ modeConfirmed(a)

EnableBatchFail ==
  /\ BatchStage
  /\ BatchInvalid \/ (~BatchComplete /\ walkRemaining <= 0)
  /\ failEnable

EnableBatch ==
  /\ BatchStage /\ ~BatchInvalid /\ (BatchComplete \/ walkRemaining > 0)
  /\ cw' = [a \in Axes |-> EnableCommand(a)]
  /\ walkSince
  /\ mode_confirmed' = mode_confirmed \cup
       {a \in current : CheckModes /\ drive[a] = "operation_enabled" /\ modeConfirmed(a)}
  /\ \/ BatchComplete /\ preempted /\ preemptedByDisable(walkFlags)
     \/ /\ ~(BatchComplete /\ preempted)
        /\ phase' = IF ~BatchComplete \/ (lastBatch /\ Devices # {}) THEN phase
                    ELSE IF lastBatch THEN "jtc_activating" ELSE "inter_batch_delay"
        /\ stage_deadline' = IF ~BatchComplete THEN walkRemaining
                             ELSE IF ~lastBatch THEN InterBatchDelay
                             ELSE IF Devices # {} THEN BatchTimeout ELSE walkRemaining
        /\ UNCHANGED <<dev_reset, dev_enable, owner, control_mode, result, current_batch,
                       downward_stage, primary_failure, reset_targets, interrupted_owner>>
        /\ writeDriveModes(
             IF ~BatchComplete \/ ~lastBatch THEN walkFlags
             ELSE IF Devices # {} THEN walkFlags \cup {"device_stage"}
             ELSE walkFlags \cup {"enable_hardware_ready"})

-----------------------------------------------------------------------------
(* updateReset(): a cycle of zeros, then 0x0080 to the axes that faulted,  *)
(* until every axis and device has left its fault.                         *)

ResetPreempted ==
  /\ phase \in {"reset_low", "reset_high"} /\ "disable_request" \in flags
  /\ setAllControlWords("disable_voltage")
  /\ publishResult("reset", "other")
  /\ owner' = "disable"
  /\ primary_failure' = "success"
  /\ startDownward("disabling")
  /\ UNCHANGED <<dev_reset, dev_enable, control_mode, current_batch, reset_targets,
                 interrupted_owner, mode_confirmed, ready_since>>
  /\ writeDriveModes(flags \ {"disable_request"})

ResetLow ==
  /\ phase = "reset_low" /\ "disable_request" \notin flags
  /\ setAllControlWords("disable_voltage")
  /\ stage_deadline' = FaultResetTimeout
  /\ phase' = "reset_high"
  /\ UNCHANGED <<dev_reset, dev_enable, owner, control_mode, result, current_batch,
                 downward_stage, primary_failure, reset_targets, interrupted_owner,
                 mode_confirmed, ready_since>>
  /\ writeDriveModes(flags)

ResetCommandEarly(a) ==                \* mutant: the fault reaction is reset too
  IF a \in reset_targets THEN "fault_reset" ELSE "disable_voltage"

ResetCommand(a) ==
  IF a \in reset_targets /\ drive[a] = "fault" THEN "fault_reset" ELSE "disable_voltage"

ResetHigh ==
  LET cleared == ~anyAxisFault /\ allDeviceResetsComplete
      timeout == ~cleared /\ expired
  IN
  /\ phase = "reset_high" /\ "disable_request" \notin flags
  /\ cw' = [a \in Axes |-> IF timeout THEN "disable_voltage" ELSE ResetCommand(a)]
  /\ reset_targets' = {a \in reset_targets : isFaultState(drive[a])}
  /\ \/ /\ cleared
        /\ startDownward("reset_disabling")
        /\ UNCHANGED <<owner, result>>
     \/ /\ timeout
        /\ publishResult("reset", "other")
        /\ phase' = "failed" /\ owner' = "none"
        /\ stage_deadline' = remaining
        /\ UNCHANGED downward_stage
     \/ /\ ~cleared /\ ~expired
        /\ stage_deadline' = remaining
        /\ UNCHANGED <<phase, owner, result, downward_stage>>
  /\ UNCHANGED <<dev_reset, dev_enable, control_mode, current_batch, primary_failure,
                 interrupted_owner, mode_confirmed, ready_since>>
  /\ writeDriveModes(flags)

-----------------------------------------------------------------------------
(* The resting phases, in which update() takes the requests.               *)

Resting == phase \in {"idle", "failed"}

(* What the resting phases leave alone whatever they take.                 *)
RestingFrame ==
  /\ setAllControlWords("disable_voltage")
  /\ dev_enable' = FALSE
  /\ UNCHANGED <<control_mode, interrupted_owner>>

RestIdly ==
  /\ Resting /\ RestingFrame
  /\ flags \cap {"disable_request", "reset_request"} = {}
  /\ phase = "idle" => "enable_request" \notin flags
  /\ stage_deadline' = remaining
  /\ UNCHANGED <<dev_reset, phase, owner, result, current_batch, downward_stage,
                 primary_failure, reset_targets, mode_confirmed, ready_since>>
  /\ writeDriveModes(flags)

(* rejectIfOffline(): the phase and the recorded failure stay.             *)
rejectIfOffline(s) ==
  /\ ~online
  /\ publishResult(s, "other")
  /\ owner' = "none"
  /\ stage_deadline' = remaining
  /\ UNCHANGED <<dev_reset, phase, current_batch, downward_stage, primary_failure,
                 reset_targets, mode_confirmed, ready_since>>

TakeEnable ==
  /\ phase = "idle" /\ "enable_request" \in flags /\ RestingFrame
  /\ \/ rejectIfOffline("enable") /\ writeDriveModes(flags \ {"enable_request"})
     \/ /\ online
        /\ current_batch' = 1
        /\ ready_since' = NotSince
        /\ primary_failure' = "success"
        /\ mode_confirmed' = {}
        /\ stage_deadline' = BatchTimeout
        /\ phase' = "enabling"
        /\ UNCHANGED <<dev_reset, owner, result, downward_stage, reset_targets>>
        /\ writeDriveModes(
             (flags \ {"enable_request", "enable_preempt_requested", "enable_hardware_ready",
                       "jtc_activated_request", "jtc_activate_failed_request",
                       "device_stage", "state_sources_qualified"})
             \cup (IF Batches = <<>> THEN {"device_stage"} ELSE {})
             \cup (IF HasReadySources THEN {} ELSE {"state_sources_qualified"}))

(* In idle a reset goes before a disable, in failed after it.              *)
TakeReset ==
  /\ Resting /\ "reset_request" \in flags /\ RestingFrame
  /\ phase = "idle" => "enable_request" \notin flags
  /\ phase = "failed" => "disable_request" \notin flags
  /\ \/ rejectIfOffline("reset")
     \/ /\ online
        /\ reset_targets' = {a \in Axes : isFaultState(drive[a])}
        /\ IF ~anyFault
             THEN /\ publishResult("reset", "ok")
                  /\ phase' = "idle" /\ owner' = "none"
                  /\ UNCHANGED dev_reset
             ELSE /\ dev_reset' = dev_reset \cup {d \in Devices : DeviceFaulted(d)}
                  /\ phase' = "reset_low"
                  /\ UNCHANGED <<result, owner>>
        /\ stage_deadline' = remaining
        /\ UNCHANGED <<current_batch, downward_stage, primary_failure, mode_confirmed,
                       ready_since>>
  /\ writeDriveModes(flags \ {"reset_request"})

TakeDisable ==
  /\ Resting /\ "disable_request" \in flags /\ RestingFrame
  /\ \/ /\ phase = "idle" /\ flags \cap {"enable_request", "reset_request"} = {}
        /\ publishResult("disable", "ok")
        /\ owner' = "none"
        /\ stage_deadline' = remaining
        /\ UNCHANGED <<phase, downward_stage>>
     \/ /\ phase = "failed"
        /\ startDownward("disabling")
        /\ UNCHANGED <<result, owner>>
  /\ UNCHANGED <<dev_reset, current_batch, primary_failure, reset_targets, mode_confirmed,
                 ready_since>>
  /\ writeDriveModes(flags \ {"disable_request"})

-----------------------------------------------------------------------------
(* The phases that hold torque, once the monitor has passed.               *)

HoldFrame ==
  /\ UNCHANGED <<dev_reset, dev_enable, current_batch, reset_targets, interrupted_owner,
                 mode_confirmed, ready_since>>

JtcActivating ==
  /\ phase = "jtc_activating" /\ GroupHealthy /\ HoldFrame
  /\ \/ /\ "jtc_activate_failed_request" \in flags
        /\ primary_failure' = "other"
        /\ startDownward("rollback")
        /\ UNCHANGED <<cw, owner, control_mode, result>>
        /\ writeDriveModes(flags \ {"jtc_activate_failed_request"})
     \/ /\ "jtc_activate_failed_request" \notin flags
        /\ "jtc_activated_request" \in flags            \* commit
        /\ setAllControlWords("enable_operation")
        /\ control_mode' = IF MotionModeSwitching THEN "motion" ELSE control_mode
        /\ phase' = "enabled" /\ owner' = "none"
        /\ publishResult("enable", "ok")
        /\ stage_deadline' = remaining
        /\ UNCHANGED <<downward_stage, primary_failure>>
        /\ writeDriveModes(flags \ {"jtc_activated_request"})
     \/ /\ flags \cap {"jtc_activate_failed_request", "jtc_activated_request"} = {}
        /\ setAllControlWords("enable_operation")
        /\ stage_deadline' = remaining
        /\ UNCHANGED <<phase, owner, control_mode, result, downward_stage, primary_failure>>
        /\ writeDriveModes(flags)

Hold ==
  /\ phase \in {"enabled", "jtc_deactivating"} /\ GroupHealthy /\ HoldFrame
  /\ setAllControlWords("enable_operation")
  /\ UNCHANGED <<owner, control_mode, result>>
  /\ \/ /\ "disable_request" \notin flags
        /\ stage_deadline' = remaining
        /\ UNCHANGED <<phase, downward_stage, primary_failure>>
        /\ writeDriveModes(flags)
     \/ /\ "disable_request" \in flags
        /\ primary_failure' = IF "motion_fault_pending" \in flags THEN "motion_fault"
                                                                 ELSE primary_failure
        /\ startDownward("disabling")
        /\ writeDriveModes(flags \ {"disable_request", "motion_fault_pending"})

-----------------------------------------------------------------------------
StartupSanitizing ==
  /\ phase = "startup_sanitizing" /\ stage_deadline = NoDeadline
  /\ EnterDownward("startup_sanitizing")
  /\ UNCHANGED <<dev_reset, owner, control_mode, result, current_batch, primary_failure,
                 reset_targets, interrupted_owner, mode_confirmed, ready_since>>
  /\ writeDriveModes(flags)

Downward ==
  /\ \/ phase = "startup_sanitizing" /\ stage_deadline # NoDeadline
     \/ phase \in {"disabling", "rollback", "reset_disabling", "emergency_disable"}
  /\ updateDownward(phase)

EmergencyQuickStop ==
  /\ phase = "emergency_quick_stop"
  /\ updateEmergencyQuickStop(remaining)
  /\ UNCHANGED <<dev_reset, owner, control_mode, result, current_batch, primary_failure,
                 reset_targets, interrupted_owner, mode_confirmed, ready_since>>
  /\ writeDriveModes(flags)

(* One call of update().                                                   *)
Update ==
  /\ "active" \in flags
  /\ UNCHANGED <<hwVars, controllers, threadVars>>
  /\ \/ MonitorTrips \/ JtcActivating \/ Hold
     \/ StartupSanitizing \/ Downward \/ EmergencyQuickStop
     \/ RestIdly \/ TakeEnable \/ TakeReset \/ TakeDisable
     \/ EnableFaulted \/ EnableReverted \/ EnableSourcesLost \/ EnableSourcesWait
     \/ EnableInterBatch \/ EnableDevicesFail \/ EnableDevices
     \/ EnableBatchFail \/ EnableBatch
     \/ ResetPreempted \/ ResetLow \/ ResetHigh
=============================================================================
