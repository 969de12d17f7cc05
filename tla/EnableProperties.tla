-------------------------- MODULE EnableProperties --------------------------
(***************************************************************************)
(* What the enable manager promises, and the fairness under which it       *)
(* promises that things happen.                                            *)
(***************************************************************************)
EXTENDS EnableManager

InOperation(a) == drive[a] = "operation_enabled"
Published(s, r) == result[s] = "none" /\ result'[s] = r

-----------------------------------------------------------------------------
(* What a cycle of update() may never do                                   *)

BatchOrderStep ==
  \A i \in 1..Len(Batches) : \A a \in Batches[i] :
    Update /\ Raises(drive[a], cw'[a]) =>
       /\ ~anyFault
       /\ \A j \in 1..(i - 1) : \A b \in Batches[j] : InOperation(b)

(* Batch order (updateEnable): whenever a cycle writes a word that takes a *)
(* drive up, every axis of every earlier batch was sampled in operation    *)
(* and no axis or device was sampled in a fault in that very cycle.        *)
BatchOrder == [][BatchOrderStep]_vars

FaultStopStep ==
  Update /\ anyFault =>
    ~dev_enable' /\ \A a \in Axes : cw'[a] # "enable_operation"

(* Fault stop (update's monitor and updateEnable): a cycle that samples a  *)
(* fault of any axis or device, in whatever phase the threads have left    *)
(* the manager, commands no axis to operate and no device to be enabled.   *)
FaultStopsTorque == [][FaultStopStep]_vars

ResetEdgeStep ==
  \A a \in Axes : Update /\ cw'[a] = "fault_reset" =>
    drive[a] = "fault" /\ cw[a] \in {"disable_voltage", "fault_reset"}

(* Reset edge (updateReset): 0x0080 goes only to an axis sampled in Fault  *)
(* and not in its fault reaction, and as a rising edge of bit 7 or its     *)
(* continuation, however the reset came about.                             *)
ResetEdge == [][ResetEdgeStep]_vars

DevicesLastStep ==
  ~dev_enable /\ dev_enable' =>
    /\ \A a \in Axes : InOperation(a)
    /\ ~anyFault
    /\ HasReadySources => sources

(* Devices last (updateDeviceEnable): a cycle that raises the device       *)
(* enable sampled every axis in operation, no fault anywhere and every     *)
(* required state source ready.                                            *)
DevicesLast == [][DevicesLastStep]_vars

SourcesFirstStep ==
  \A a \in Axes :
    Update /\ Raises(drive[a], cw'[a]) => (HasReadySources => sources)

(* Sources first (updateEnable): no word takes a drive up in a cycle that  *)
(* samples a required state source not ready.                              *)
SourcesFirst == [][SourcesFirstStep]_vars

-----------------------------------------------------------------------------
(* What an answer means                                                    *)

EnableCommitStep ==
  Published("enable", "ok") =>
    /\ online
    /\ \A a \in Axes :
         /\ InOperation(a)
         /\ CheckModes => mode[a] = "expected" \/ (a \in ModeSwitchAxes /\ mode[a] = "csp")
    /\ \A d \in Devices : dev[d] = "enabled"

(* Enable's answer (update, kJtcActivating): success is published only by  *)
(* a cycle that samples the whole group in operation, online, in a mode    *)
(* its policy allows and with every device enabled.                        *)
EnableCommit == [][EnableCommitStep]_vars

DisableCommitStep ==
  phase = "disabling" /\ Published("disable", "ok") =>
    /\ \A a \in Axes : isConfirmedDisableTerminal(a)
    /\ \A d \in Devices : dev[d] = "disabled"
    /\ "jtc_deactivate_failed" \notin flags

(* Disable's answer (finishDownward): success of a downward walk means     *)
(* that every axis is in its confirmed disable terminal, no device is      *)
(* enabled or faulted, and the controllers' deactivation has not failed.   *)
DisableCommit == [][DisableCommitStep]_vars

ResetCommitStep ==
  Published("reset", "ok") =>
    ~anyFault /\ (phase = "reset_disabling" => dev_reset = {})

(* Reset's answer (updateReset, finishDownward): success leaves no axis    *)
(* and no device in a fault, and a reset that commanded the devices has    *)
(* seen every one of them handle its generation.                           *)
ResetCommit == [][ResetCommitStep]_vars

-----------------------------------------------------------------------------
(* What holds in every state                                               *)

(* The batch cursor stays inside enable_batches_ wherever updateEnable     *)
(* reads through it: an index past the end would be read unchecked.        *)
BatchIndex ==
  /\ phase = "inter_batch_delay" => current_batch \in 1..(Len(Batches) - 1)
  /\ phase = "enabling" /\ "device_stage" \notin flags => current_batch \in 1..Len(Batches)

(* A controller that is not active leaves its drives without voltage       *)
(* (on_deactivate), whatever its threads still do.                         *)
InactiveIsQuiet ==
  "active" \notin flags => ~dev_enable /\ \A a \in Axes : cw[a] = "disable_voltage"

(* What a reset has left behind it (updateReset): no device is enabled     *)
(* while it runs, only zeros and resets stand when its second phase runs,  *)
(* and it walks down only after every device has handled its generation.   *)
(* No reset word stands while the controllers are activated.               *)
ResetQuiet ==
  /\ phase \in {"reset_low", "reset_high"} => ~dev_enable
  /\ phase = "reset_high" => \A a \in Axes : cw[a] \in {"disable_voltage", "fault_reset"}
  /\ phase = "reset_disabling" => dev_reset = {}
  /\ phase = "jtc_activating" => \A a \in Axes : cw[a] # "fault_reset"

(* A mode switch that has lost its group, and knows it or will at its next *)
(* look at the owner: it has asked for a disable or is about to.           *)
SwitchLost ==
  \/ pc["mode"] = "drives_wait" /\ owner # "mode"
  \/ pc["mode"] = "converge"
  \/ "disable_request" \in flags

(* The swerve velocity controller of an enabled group never runs while the *)
(* wheel drives are told CSP (executeModeSwitch's order and                *)
(* writeDriveModes), but for a group that is on its way down because a     *)
(* mode switch of before the last stop has stored its request late.        *)
CspUnderTrajectory ==
  phase = "enabled" /\ mode_cmd = "csp" => controllers # "motion" \/ SwitchLost

(* An enabled group on which no service is at work reports the mode whose  *)
(* controllers run: the store of a mode switch that has lost to a stop     *)
(* comes late, into a resting group, but never after the next enable has   *)
(* committed (executeModeSwitch holds switch_in_progress_ over it).        *)
ReportsRunningMode ==
  /\ phase = "enabled" /\ "disable_request" \notin flags
  /\ \A t \in Threads : pc[t] \in {"idle", "wait_result"}
  => control_mode \in {controllers, "disabled", "restart_required"}

-----------------------------------------------------------------------------
(* Fairness: the controller manager calls update() as long as the          *)
(* controller is active, a service callback that has started is run to its *)
(* end, and the worker timer keeps ticking.  Nobody has to call a service, *)
(* and no drive has to answer.                                             *)
Running(s, Service) == s \in Clients /\ pc[s] # "idle" /\ Service

Fairness ==
  /\ WF_vars(Update)
  /\ WF_vars(Running("enable", EnableService))
  /\ WF_vars(Running("disable", DisableService))
  /\ WF_vars(Running("reset", ResetService))
  /\ WF_vars(Running("mode", ModeService))
  /\ \A w \in Workers : WF_vars(Worker(w))

FairSpec == Spec /\ Fairness

(* Every stop comes to rest: a downward walk, an emergency, a reset or the *)
(* startup walk ends in idle or failed even if no drive ever answers,      *)
(* because every stage has a deadline (updateDownward, updateReset).       *)
Stopping ==
  phase \in {"startup_sanitizing", "disabling", "rollback", "reset_low", "reset_high",
             "reset_disabling", "emergency_quick_stop", "emergency_disable"}
StopsSettle == Stopping ~> Resting

(* The group does not stay in jtc_activating, holding torque without a     *)
(* motion controller and refusing disable, while the enable's caller waits *)
(* for it (handleEnable after hardware_ready).                             *)
JtcActivatingSettles == phase = "jtc_activating" ~> phase # "jtc_activating"

(* An enable that owns the state machine gives it back, while its caller   *)
(* waits and no other service has moved the group between its look at the  *)
(* phase and its compare-and-swap: every path by which update() takes the  *)
(* request, every fault on the way and every answer of the controller      *)
(* manager to handleEnable ends with the owner released.                   *)
EnableReleases == owner = "enable" ~> owner # "enable"

(* The monitor's emergency stops the motion controllers of an enabled      *)
(* group, or a restart is required: the worker may lose the switch to a    *)
(* service and the controller manager may refuse it                        *)
(* (handleNonRtFaultStop).  It is said of a group whose worker has no      *)
(* earlier stop under way: a tick that took the request of an earlier      *)
(* emergency may not have declared its end yet.                            *)
FaultDeactivates ==
  /\ phase = "enabled" /\ ~GroupHealthy
  /\ controllers # "disabled" /\ "jtc_deactivation_required" \in flags
  /\ \A w \in Workers : pc[w] = "idle"
  ~> controllers = "disabled" \/ "restart_required" \in flags

(* A motion fault reported while the group is enabled brings the group to  *)
(* rest (handleMotionFault), whatever else stops it meanwhile.             *)
MotionFaultStops == "motion_fault_request" \in flags /\ phase = "enabled" ~> Resting

-----------------------------------------------------------------------------
(* What the repository's documents and comments say and the code does not  *)
(* keep.                                                                   *)

(* Idle means down: "非故障轴终态确认", every axis that is not in a fault is  *)
(* in its disable terminal when the state machine rests in IDLE.           *)
IdleIsDown == phase = "idle" => allNonfaultTerminal

(* "restart_required" asks for a restart of the whole process: only an     *)
(* activation clears it.                                                   *)
RestartLatch ==
  [][Activate \/ ("restart_required" \in flags => "restart_required" \in flags')]_vars
=============================================================================
