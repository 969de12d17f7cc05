------------------------ MODULE EnableManager_proofs ------------------------
(***************************************************************************)
(* What holds of the enable manager for every group of axes and devices,   *)
(* every batch order, every timing and any number of overlapping worker    *)
(* ticks.                                                                  *)
(***************************************************************************)
EXTENDS EnableTypes_proofs

(* The inductive invariant.  ResetQuiet is what the reset's properties     *)
(* need of earlier cycles; the cursor is what types Batches[current_batch].*)
IInv == TypeOK /\ BatchIndex /\ InactiveIsQuiet /\ ResetQuiet

-----------------------------------------------------------------------------
(* What a cycle writes                                                     *)

(* A cycle takes a drive up only in EnableBatch and only an axis of the    *)
(* current batch, commands operation or an enabled device only if it       *)
(* samples no fault, and resets only an axis in Fault, in ResetHigh.       *)
CycleWords ==
  /\ \A a \in Axes : Raises(drive[a], cw'[a]) =>
       EnableBatch /\ a \in current /\ a \notin previous
  /\ anyFault => ~dev_enable' /\ \A a \in Axes : cw'[a] # "enable_operation"
  /\ \A a \in Axes : cw'[a] = "fault_reset" => phase = "reset_high" /\ drive[a] = "fault"
  /\ ~dev_enable /\ dev_enable' => EnableDevices

(* A cycle of stop words has nothing to show.                              *)
LEMMA StopCycle ==
  ASSUME dev_enable' = FALSE,
         \A a \in Axes : /\ ~Raises(drive[a], cw'[a])
                         /\ cw'[a] \notin {"enable_operation", "fault_reset"}
  PROVE  CycleWords
  BY DEF CycleWords

(* 0x0000 raises nothing.                                                  *)
LEMMA AllZero ==
  ASSUME setAllControlWords("disable_voltage")
  PROVE  \A a \in Axes : /\ ~Raises(drive[a], cw'[a])
                         /\ cw'[a] = "disable_voltage"
  BY DEF setAllControlWords, Raises

(* The words of the emergency and of a failed enable.                      *)
LEMMA StopWordsWritten ==
  /\ \A S : startEmergency(S) => CycleWords
  /\ failEnable => CycleWords
  /\ \A rem : updateEmergencyQuickStop(rem) => CycleWords
  /\ \A p : EnterDownward(p) => CycleWords
<1>1. ASSUME NEW rem, updateEmergencyQuickStop(rem)
      PROVE  CycleWords
  BY <1>1, StopWords, StopCycle DEF updateEmergencyQuickStop
<1>2. ASSUME NEW p, EnterDownward(p)
      PROVE  CycleWords
  BY <1>2, StopWords, StopCycle DEF EnterDownward
<1> QED
  BY <1>1, <1>2 DEF startEmergency, failEnable

(* Every cycle of update() writes its words that way, action by action.    *)
LEMMA UpdateWords ==
  ASSUME IInv, Update
  PROVE  CycleWords
<1>1. CASE MonitorTrips \/ EnableFaulted
  BY <1>1, StopWordsWritten DEF MonitorTrips, EnableFaulted
<1>2. CASE EnableReverted \/ EnableSourcesLost \/ EnableDevicesFail \/ EnableBatchFail
  BY <1>2, StopWordsWritten
     DEF EnableReverted, EnableSourcesLost, EnableDevicesFail, EnableBatchFail
<1>3. CASE StartupSanitizing \/ EmergencyQuickStop
  BY <1>3, StopWordsWritten DEF StartupSanitizing, EmergencyQuickStop
<1>4. CASE Downward
  <2>1. dev_enable' = FALSE
    BY <1>4 DEF Downward, updateDownward
  <2>2. \A a \in Axes : cw'[a] \in {"disable_voltage", DownwardCommand(drive[a])}
    BY <1>4 DEF Downward, updateDownward
  <2>3. \A a \in Axes : ~Raises(drive[a], "disable_voltage")
    BY DEF Raises
  <2> QED
    BY <2>1, <2>2, <2>3, StopWords, StopCycle
<1>5. CASE RestIdly \/ TakeEnable \/ TakeReset \/ TakeDisable
  BY <1>5, AllZero, StopCycle DEF RestIdly, TakeEnable, TakeReset, TakeDisable, RestingFrame
<1>6. CASE EnableSourcesWait
  BY <1>6, AllZero DEF EnableSourcesWait, CycleWords
<1>7. GroupHealthy => ~anyFault
  BY DEF GroupHealthy, anyFault, anyAxisFault, anyDeviceFaulted, DeviceFaulted,
         isFaultState, allDevicesEnabled
<1>8. CASE JtcActivating \/ Hold
  <2>1. \A a \in Axes : drive[a] = "operation_enabled"
    BY <1>8 DEF JtcActivating, Hold, GroupHealthy
  <2>2. \A a \in Axes : ~Raises(drive[a], cw'[a])
    BY <2>1 DEF Raises
  <2>3. \A a \in Axes : cw'[a] # "fault_reset"
    BY <1>8 DEF JtcActivating, Hold, setAllControlWords, IInv, ResetQuiet
  <2> QED
    BY <1>7, <1>8, <2>2, <2>3 DEF JtcActivating, Hold, HoldFrame, CycleWords
<1>9. CASE EnableInterBatch
  <2>1. \A a \in Axes : /\ ~Raises(drive[a], cw'[a])
                        /\ cw'[a] # "fault_reset"
    BY <1>9 DEF EnableInterBatch, Raises
  <2> QED
    BY <1>9, <2>1 DEF EnableInterBatch, WalkAllowed, preemptedByDisable, CycleWords
<1>10. CASE EnableDevices
  <2>1. \A a \in Axes : /\ ~Raises(drive[a], cw'[a])
                        /\ cw'[a] # "fault_reset"
    BY <1>10 DEF EnableDevices, AllAxesEnabled, setAllControlWords, Raises
  <2> QED
    BY <1>10, <2>1 DEF EnableDevices, DeviceStage, WalkAllowed, CycleWords
<1>11. CASE EnableBatch
  <2>1. ~anyFault /\ \A a \in previous : drive[a] = "operation_enabled"
    BY <1>11 DEF EnableBatch, BatchStage, WalkAllowed, BatchInvalid
  <2>2. \A a \in Axes : cw'[a] = EnableCommand(a)
    BY <1>11 DEF EnableBatch
  <2>3. ASSUME NEW a \in Axes, Raises(drive[a], cw'[a])
        PROVE  a \in current /\ a \notin previous
    BY <2>1, <2>2, <2>3 DEF EnableCommand, Raises
  <2>4. dev_enable' = dev_enable
    BY <1>11 DEF EnableBatch, preemptedByDisable
  <2> QED
    BY <1>11, <2>1, <2>2, <2>3, <2>4, WalkWords DEF CycleWords
<1>12. CASE ResetPreempted \/ ResetLow
  <2>1. ~dev_enable /\ dev_enable' = dev_enable
    BY <1>12 DEF ResetPreempted, ResetLow, IInv, ResetQuiet
  <2> QED
    BY <1>12, <2>1, AllZero DEF ResetPreempted, ResetLow, CycleWords
<1>13. CASE ResetHigh
  <2>1. phase = "reset_high" /\ ~dev_enable /\ dev_enable' = dev_enable
    BY <1>13 DEF ResetHigh, IInv, ResetQuiet
  <2>2. \A a \in Axes : cw'[a] \in {"disable_voltage", ResetCommand(a)}
    BY <1>13 DEF ResetHigh
  <2>3. \A a \in Axes : /\ cw'[a] \in {"disable_voltage", "fault_reset"}
                        /\ cw'[a] = "fault_reset" => drive[a] = "fault"
    BY <2>2, WalkWords
  <2>4. \A a \in Axes : ~Raises(drive[a], cw'[a])
    BY <2>3 DEF Raises
  <2> QED
    BY <2>1, <2>3, <2>4 DEF CycleWords
<1> QED
  BY <1>1, <1>2, <1>3, <1>4, <1>5, <1>6, <1>8, <1>9, <1>10, <1>11, <1>12, <1>13 DEF Update

-----------------------------------------------------------------------------
(* Where a cycle moves                                                     *)

(* The manager stays active, and the phases the invariant speaks of are    *)
(* entered as it says.                                                     *)
CycleMoves == "active" \in flags' /\ BatchIndex' /\ ResetQuiet'

(* writeDriveModes() leaves the two flags the invariant reads.             *)
LEMMA FlagsWritten ==
  ASSUME TypeOK, "active" \in flags, NEW S \in SUBSET Flags, "active" \in S,
         writeDriveModes(S)
  PROVE  "active" \in flags' /\ ("device_stage" \in flags' <=> "device_stage" \in S)
<1>1. mode_cmd \in {"expected", "csp"}
  BY DEF TypeOK
<1> QED
  BY <1>1, DriveModesWritten

(* Moving to a phase of which the invariant says nothing.                  *)
LEMMA PlainMove ==
  ASSUME TypeOK, "active" \in flags, NEW S \in SUBSET Flags, "active" \in S,
         writeDriveModes(S),
         phase' \notin {"enabling", "inter_batch_delay", "reset_low", "reset_high",
                       "reset_disabling", "jtc_activating"}
  PROVE  CycleMoves
  BY FlagsWritten DEF CycleMoves, BatchIndex, ResetQuiet

(* An emergency, a failed enable and a preempting disable move so.         *)
LEMMA StopMoves ==
  ASSUME TypeOK, "active" \in flags
  PROVE  /\ \A S \in SUBSET Flags : "active" \in S /\ startEmergency(S) => CycleMoves
         /\ failEnable => CycleMoves
         /\ \A S \in SUBSET Flags : "active" \in S /\ preemptedByDisable(S) => CycleMoves
<1>1. preemptFlags \in SUBSET Flags /\ "active" \in preemptFlags
  BY DEF preemptFlags, TypeOK, Flags
<1>2. ASSUME NEW S \in SUBSET Flags, "active" \in S, startEmergency(S)
      PROVE  CycleMoves
  <2>1. phase' \in {"emergency_quick_stop", "emergency_disable"}
    BY <1>2 DEF startEmergency, updateEmergencyQuickStop, startDownward
  <2>2. S \cup {"emergency_jtc_deactivate_request"} \in SUBSET Flags
    BY DEF Flags
  <2> QED
    BY <1>2, <2>1, <2>2, PlainMove DEF startEmergency
<1>3. ASSUME failEnable
      PROVE  CycleMoves
  <2>1. phase' \in {"disabling", "rollback"}
    BY <1>3 DEF failEnable, EnterDownward
  <2>2. \E S \in SUBSET Flags : "active" \in S /\ writeDriveModes(S)
    BY <1>1, <1>3 DEF failEnable
  <2> QED
    BY <2>1, <2>2, PlainMove
<1>4. ASSUME NEW S \in SUBSET Flags, "active" \in S, preemptedByDisable(S)
      PROVE  CycleMoves
  <2>1. phase' = "disabling"
    BY <1>4 DEF preemptedByDisable, startDownward
  <2>2. S \ {"disable_request"} \in SUBSET Flags /\ "active" \in S \ {"disable_request"}
    BY <1>4
  <2> QED
    BY <1>4, <2>1, <2>2, PlainMove DEF preemptedByDisable
<1> QED
  BY <1>2, <1>3, <1>4

(* Every cycle of update() moves so, action by action.                     *)
LEMMA UpdateMoves ==
  ASSUME IInv, Update
  PROVE  CycleMoves
<1>1. TypeOK /\ "active" \in flags
  BY DEF IInv, Update
<1>2. /\ flags \in SUBSET Flags
      /\ preemptFlags \in SUBSET Flags /\ "active" \in preemptFlags
      /\ walkFlags \in SUBSET Flags /\ "active" \in walkFlags
      /\ "device_stage" \in preemptFlags <=> "device_stage" \in flags
      /\ "device_stage" \in walkFlags <=> "device_stage" \in flags
  BY <1>1 DEF TypeOK, preemptFlags, walkFlags, Flags
<1>3. CASE MonitorTrips \/ EnableFaulted
  <2>1. flags \cup {"restart_required"} \in SUBSET Flags
    BY <1>2 DEF Flags
  <2> QED
    BY <1>1, <1>2, <1>3, <2>1, StopMoves DEF MonitorTrips, EnableFaulted
<1>4. CASE EnableReverted \/ EnableSourcesLost \/ EnableDevicesFail \/ EnableBatchFail
  BY <1>1, <1>4, StopMoves
     DEF EnableReverted, EnableSourcesLost, EnableDevicesFail, EnableBatchFail
<1>5. CASE StartupSanitizing \/ EmergencyQuickStop
  <2>1. phase' \in {"startup_sanitizing", "emergency_quick_stop", "emergency_disable"}
    BY <1>5 DEF StartupSanitizing, EnterDownward, EmergencyQuickStop,
                updateEmergencyQuickStop, startDownward
  <2> QED
    BY <1>1, <1>2, <1>5, <2>1, PlainMove DEF StartupSanitizing, EmergencyQuickStop
<1>6. CASE Downward
  <2>1. \E S \in SUBSET Flags : "active" \in S /\ writeDriveModes(S)
    <3>1. flags \cup {"emergency_jtc_deactivate_request"} \in SUBSET Flags
      BY <1>2 DEF Flags
    <3> QED
      BY <1>1, <1>2, <1>6, <3>1 DEF Downward, updateDownward
  <2>2. phase' \in {phase, "idle", "failed", "emergency_quick_stop"} /\ dev_reset' = dev_reset
    BY <1>6 DEF Downward, updateDownward, finishDownward
  <2>3. phase \in {"startup_sanitizing", "disabling", "rollback", "reset_disabling",
                   "emergency_disable"}
    BY <1>6 DEF Downward
  <2>4. CASE phase' = "reset_disabling"
    BY <1>1, <2>1, <2>2, <2>3, <2>4, FlagsWritten DEF CycleMoves, BatchIndex, ResetQuiet, IInv
  <2> QED
    BY <1>1, <2>1, <2>2, <2>3, <2>4, PlainMove
<1>7. CASE RestIdly \/ TakeDisable
  <2>1. phase' \in {"idle", "failed", "disabling"}
    BY <1>7 DEF RestIdly, TakeDisable, Resting, startDownward
  <2>2. \E S \in SUBSET Flags : "active" \in S /\ writeDriveModes(S)
    BY <1>1, <1>2, <1>7 DEF RestIdly, TakeDisable
  <2> QED
    BY <1>1, <2>1, <2>2, PlainMove
<1>8. CASE TakeReset
  <2>1. flags \ {"reset_request"} \in SUBSET Flags /\ "active" \in flags \ {"reset_request"}
    BY <1>1, <1>2
  <2>2. phase' \in {"idle", "failed", "reset_low"} /\ dev_enable' = FALSE
    BY <1>8 DEF TakeReset, rejectIfOffline, Resting, RestingFrame
  <2> QED
    BY <1>1, <1>8, <2>1, <2>2, FlagsWritten DEF TakeReset, CycleMoves, BatchIndex, ResetQuiet
<1>9. CASE TakeEnable
  <2>1. CASE rejectIfOffline("enable") /\ writeDriveModes(flags \ {"enable_request"})
    <3>1. phase' = "idle"
      BY <1>9, <2>1 DEF TakeEnable, rejectIfOffline
    <3>2. flags \ {"enable_request"} \in SUBSET Flags /\ "active" \in flags \ {"enable_request"}
      BY <1>1, <1>2
    <3> QED
      BY <1>1, <2>1, <3>1, <3>2, PlainMove
  <2>2. CASE ~(rejectIfOffline("enable") /\ writeDriveModes(flags \ {"enable_request"}))
    <3>1. phase' = "enabling" /\ current_batch' = 1
      BY <1>9, <2>2 DEF TakeEnable
    <3>2. PICK S \in SUBSET Flags :
            /\ writeDriveModes(S) /\ "active" \in S
            /\ "device_stage" \notin S => Batches # <<>>
      BY <1>1, <1>2, <1>9, <2>2 DEF TakeEnable, Flags
    <3>3. "active" \in flags' /\ ("device_stage" \in flags' <=> "device_stage" \in S)
      BY <1>1, <3>2, FlagsWritten
    <3>4. Batches # <<>> => 1 \in 1..Len(Batches)
      BY TopologyAssumption
    <3> QED
      BY <3>1, <3>2, <3>3, <3>4 DEF CycleMoves, BatchIndex, ResetQuiet
  <2> QED
    BY <2>1, <2>2
<1>10. CASE EnableSourcesWait
  <2>1. "active" \in flags' /\ ("device_stage" \in flags' <=> "device_stage" \in flags)
    BY <1>1, <1>2, <1>10, FlagsWritten DEF EnableSourcesWait
  <2> QED
    BY <1>10, <2>1 DEF EnableSourcesWait, Enabling, CycleMoves, BatchIndex, ResetQuiet, IInv
<1>11. CASE EnableInterBatch
  <2>1. CASE preempted /\ preemptedByDisable(walkFlags)
    BY <1>1, <1>2, <2>1, StopMoves
  <2>2. CASE ~(preempted /\ preemptedByDisable(walkFlags))
    <3>1. "active" \in flags'
      BY <1>1, <1>2, <1>11, <2>2, FlagsWritten DEF EnableInterBatch
    <3>2. current_batch \in 1..(Len(Batches) - 1) /\ Len(Batches) \in Nat
      BY <1>11, TopologyAssumption DEF EnableInterBatch, IInv, BatchIndex
    <3>3. \/ phase' = "enabling" /\ current_batch' = current_batch + 1
          \/ phase' = "inter_batch_delay" /\ current_batch' = current_batch
      BY <1>11, <2>2 DEF EnableInterBatch
    <3>4. BatchIndex'
      BY <3>2, <3>3 DEF BatchIndex
    <3> QED
      BY <3>1, <3>3, <3>4 DEF CycleMoves, ResetQuiet
  <2> QED
    BY <2>1, <2>2
<1>12. CASE EnableDevices
  <2>1. CASE preempted /\ preemptedByDisable(walkFlags)
    BY <1>1, <1>2, <2>1, StopMoves
  <2>2. CASE ~(preempted /\ preemptedByDisable(walkFlags))
    <3>1. \A a \in Axes : cw'[a] # "fault_reset"
      BY <1>12 DEF EnableDevices, setAllControlWords
    <3>2. CASE allDevicesEnabled
      <4>1. phase' = "jtc_activating"
        BY <1>12, <2>2, <3>2 DEF EnableDevices
      <4>2. \E S \in SUBSET Flags : "active" \in S /\ writeDriveModes(S)
        BY <1>2, <1>12, <2>2, <3>2 DEF EnableDevices, Flags
      <4> QED
        BY <1>1, <3>1, <4>1, <4>2, FlagsWritten DEF CycleMoves, BatchIndex, ResetQuiet
    <3>3. CASE ~allDevicesEnabled
      <4>1. phase' = "enabling" /\ writeDriveModes(walkFlags) /\ "device_stage" \in flags
        BY <1>12, <2>2, <3>3 DEF EnableDevices, DeviceStage
      <4> QED
        BY <1>1, <1>2, <4>1, FlagsWritten DEF CycleMoves, BatchIndex, ResetQuiet
    <3> QED
      BY <3>2, <3>3
  <2> QED
    BY <2>1, <2>2
<1>13. CASE EnableBatch
  <2>1. CASE preempted /\ preemptedByDisable(walkFlags)
    BY <1>1, <1>2, <2>1, StopMoves
  <2>2. CASE ~(preempted /\ preemptedByDisable(walkFlags))
    <3>1. /\ phase = "enabling" /\ "device_stage" \notin flags
          /\ current_batch' = current_batch
          /\ phase' = IF ~BatchComplete \/ (lastBatch /\ Devices # {}) THEN phase
                      ELSE IF lastBatch THEN "jtc_activating" ELSE "inter_batch_delay"
      BY <1>13, <2>2 DEF EnableBatch, BatchStage
    <3>2. PICK S \in SUBSET Flags :
            /\ "active" \in S /\ writeDriveModes(S)
      BY <1>2, <1>13, <2>2 DEF EnableBatch, Flags
    <3>3. "active" \in flags'
      BY <1>1, <3>2, FlagsWritten
    <3>4. current_batch \in 1..Len(Batches) /\ Len(Batches) \in Nat
      BY <3>1, TopologyAssumption DEF IInv, BatchIndex
    <3>5. BatchIndex'
      BY <3>1, <3>4 DEF BatchIndex, lastBatch
    <3>6. \A a \in Axes : cw'[a] # "fault_reset"
      BY <1>13, WalkWords DEF EnableBatch
    <3> QED
      BY <3>1, <3>3, <3>5, <3>6 DEF CycleMoves, ResetQuiet
  <2> QED
    BY <2>1, <2>2
<1>14. CASE JtcActivating
  <2>1. \E S \in SUBSET Flags : "active" \in S /\ writeDriveModes(S)
    BY <1>1, <1>2, <1>14 DEF JtcActivating
  <2>2. phase' \in {"rollback", "enabled", "jtc_activating"}
    BY <1>14 DEF JtcActivating, startDownward
  <2>3. \A a \in Axes : cw'[a] # "fault_reset"
    BY <1>14 DEF JtcActivating, setAllControlWords, IInv, ResetQuiet
  <2> QED
    BY <1>1, <2>1, <2>2, <2>3, FlagsWritten DEF CycleMoves, BatchIndex, ResetQuiet
<1>15. CASE Hold \/ ResetPreempted
  <2>1. \E S \in SUBSET Flags : "active" \in S /\ writeDriveModes(S)
    BY <1>1, <1>2, <1>15 DEF Hold, ResetPreempted
  <2>2. phase' \in {"enabled", "jtc_deactivating", "disabling"}
    BY <1>15 DEF Hold, ResetPreempted, startDownward
  <2> QED
    BY <1>1, <2>1, <2>2, PlainMove
<1>16. CASE ResetLow
  <2>1. phase' = "reset_high" /\ \A a \in Axes : cw'[a] = "disable_voltage"
    BY <1>16 DEF ResetLow, setAllControlWords
  <2>2. ~dev_enable'
    BY <1>16 DEF ResetLow, IInv, ResetQuiet
  <2>3. "active" \in flags'
    BY <1>1, <1>2, <1>16, FlagsWritten DEF ResetLow
  <2> QED
    BY <2>1, <2>2, <2>3 DEF CycleMoves, BatchIndex, ResetQuiet
<1>17. CASE ResetHigh
  <2>1. \A a \in Axes : cw'[a] \in {"disable_voltage", "fault_reset"}
    BY <1>17, WalkWords DEF ResetHigh
  <2>2. ~dev_enable'
    BY <1>17 DEF ResetHigh, IInv, ResetQuiet
  <2>3. "active" \in flags'
    BY <1>1, <1>2, <1>17, FlagsWritten DEF ResetHigh
  <2>4. phase' \in {"reset_disabling", "failed", "reset_high"} /\ dev_reset' = dev_reset
    BY <1>17 DEF ResetHigh, startDownward
  <2>5. phase' = "reset_disabling" => allDeviceResetsComplete
    BY <1>17 DEF ResetHigh
  <2>6. phase' = "reset_disabling" => dev_reset' = {}
    BY <1>1, <2>4, <2>5 DEF allDeviceResetsComplete, TypeOK
  <2> QED
    BY <2>1, <2>2, <2>3, <2>4, <2>6 DEF CycleMoves, BatchIndex, ResetQuiet
<1> QED
  BY <1>3, <1>4, <1>5, <1>6, <1>7, <1>8, <1>9, <1>10, <1>11, <1>12, <1>13, <1>14, <1>15,
     <1>16, <1>17 DEF Update

-----------------------------------------------------------------------------
(* The inductive invariant                                                 *)

(* A fresh process: nothing is commanded and the manager is inactive.      *)
LEMMA InitIInv ==
  Init => IInv
<1> SUFFICES ASSUME Init PROVE IInv
  OBVIOUS
<1>1. drive \in [Axes -> DriveStates] /\ mode \in [Axes -> DriveModes]
  BY DEF Init, DriveModes
<1>2. online \in BOOLEAN /\ sources \in BOOLEAN /\ dev_enable \in BOOLEAN
  BY DEF Init
<1>3. dev \in [Devices -> DevicePhases] /\ dev_reset \in SUBSET Devices
  BY DEF Init, DevicePhases
<1>4. cw \in [Axes -> ControlWords] /\ mode_cmd \in {"expected", "csp"}
  BY DEF Init, ControlWords
<1>5. /\ controllers \in ControllerSets /\ phase \in Phases /\ owner \in Owners
      /\ control_mode \in ControlModes /\ flags \in SUBSET Flags
      /\ result \in [Services -> Results]
  BY DEF Init, ControllerSets, Phases, Owners, ControlModes, Results
<1>6. /\ current_batch \in Nat /\ stage_deadline \in Int /\ downward_stage \in 0..2
      /\ primary_failure \in Failures /\ reset_targets \in SUBSET Axes
      /\ interrupted_owner \in Owners /\ mode_confirmed \in SUBSET Axes
      /\ ready_since \in Int
  BY DEF Init, NoDeadline, NotSince, Failures, Owners
<1>7. /\ pc \in [Threads -> PcLabels] /\ switched \in [Threads -> SwitchResults]
      /\ seen \in [phase : Phases, owner : Owners] /\ source \in {"motion", "alternate"}
  BY DEF Init, PcLabels, SwitchResults, NotSeen, Phases, Owners
<1>8. TypeOK
  BY <1>1, <1>2, <1>3, <1>4, <1>5, <1>6, <1>7 DEF TypeOK
<1> QED
  BY <1>8 DEF Init, IInv, BatchIndex, InactiveIsQuiet, ResetQuiet

(* Every step of the system keeps it: a cycle by UpdateType and            *)
(* UpdateMoves, the threads and the hardware because they write none of    *)
(* the commands, and the lifecycle because it clears them.                 *)
LEMMA NextIInv ==
  IInv /\ [Next]_vars => IInv'
<1> SUFFICES ASSUME IInv, [Next]_vars PROVE IInv'
  OBVIOUS
<1>1. CASE Update
  <2>1. TypeOK'
    BY <1>1, UpdateType DEF IInv
  <2> QED
    BY <1>1, <2>1, UpdateMoves DEF CycleMoves, IInv, InactiveIsQuiet
<1>2. CASE Activate \/ Deactivate
  <2>1. /\ dev_enable' = FALSE /\ cw' = [a \in Axes |-> "disable_voltage"]
        /\ phase' \in {"startup_sanitizing", "inactive"}
    BY <1>2 DEF Activate, Deactivate, setAllControlWords
  <2>2. flags' \in SUBSET Flags
    BY <1>2 DEF Activate, Deactivate, IInv, TypeOK, Flags
  <2>3. cw' \in [Axes -> ControlWords] /\ dev_enable' \in BOOLEAN
    BY <2>1 DEF ControlWords
  <2>4. TypeOK'
    BY <1>2, <2>2, <2>3
       DEF Activate, Deactivate, IInv, TypeOK, hwVars, rtVars, threadVars, Phases, Owners,
           ControlModes, Failures, NoDeadline
  <2> QED
    BY <2>1, <2>4 DEF IInv, BatchIndex, InactiveIsQuiet, ResetQuiet
<1>3. CASE Hardware
  <2>1. TypeOK' /\ HardwareFrame
    BY <1>3, HardwareStep DEF IInv
  <2> QED
    BY <2>1 DEF HardwareFrame, hwFrame, sharedVars, rtVars, IInv, BatchIndex, InactiveIsQuiet,
                ResetQuiet
<1>4. CASE Calls
  <2>1. TypeOK' /\ CallFrame
    BY <1>4, CallsStep DEF IInv
  <2> QED
    BY <2>1 DEF CallFrame, FlagsKept, cmdVars, rtVars, IInv, BatchIndex, InactiveIsQuiet,
                ResetQuiet
<1>5. CASE UNCHANGED vars
  BY <1>5 DEF vars, hwVars, cmdVars, sharedVars, rtVars, threadVars, IInv, TypeOK, BatchIndex,
              InactiveIsQuiet, ResetQuiet
<1> QED
  BY <1>1, <1>2, <1>3, <1>4, <1>5 DEF Next
-----------------------------------------------------------------------------
(* Who answers, and when                                                   *)

(* What finishDownward() looks at before it answers a walk with success.   *)
LEMMA FinishGuards ==
  ASSUME NEW p \in Phases, NEW f \in Failures
  PROVE  /\ "enable" \in FinishSlot(p) => p \in {"rollback", "emergency_disable"}
         /\ "disable" \in FinishSlot(p) => p \in {"disabling", "emergency_disable"}
         /\ "reset" \in FinishSlot(p) => p = "reset_disabling"
         /\ p \in {"disabling", "reset_disabling"} /\ FinishOutcome(p, f) = "ok" => ~anyFault
         /\ p = "disabling" /\ FinishOutcome(p, f) = "ok" =>
              "jtc_deactivate_failed" \notin flags
  BY DEF FinishSlot, FinishOutcome, Phases

(* Success is published by a cycle, and by one of four: the enable commit, *)
(* a reset with nothing to clear, a disable in idle, and the end of a walk *)
(* that found the group down.                                              *)
LEMMA SuccessAnswers ==
  ASSUME IInv, Update, NEW s \in Services, Published(s, "ok")
  PROVE  \/ s = "enable" /\ JtcActivating
         \/ s = "reset" /\ Resting /\ ~anyFault
         \/ s = "disable" /\ phase = "idle"
         \/ /\ Downward /\ allNonfaultTerminal
            /\ s \in FinishSlot(phase) /\ FinishOutcome(phase, primary_failure) = "ok"
<1> USE DEF Services
<1>1. result \in [Services -> Results] /\ phase \in Phases /\ primary_failure \in Failures
  BY DEF IInv, TypeOK
<1>2. result[s] = "none" /\ result'[s] = "ok"
  BY DEF Published
<1>3. CASE MonitorTrips \/ EnableFaulted
  BY <1>2, <1>3 DEF MonitorTrips, EnableFaulted, startEmergency
<1>4. CASE EnableReverted \/ EnableSourcesLost \/ EnableDevicesFail \/ EnableBatchFail
  BY <1>1, <1>2, <1>4
     DEF EnableReverted, EnableSourcesLost, EnableDevicesFail, EnableBatchFail, failEnable,
         publishResult
<1>5. CASE StartupSanitizing \/ EmergencyQuickStop \/ RestIdly \/ EnableSourcesWait \/ Hold
           \/ ResetLow
  BY <1>2, <1>5 DEF StartupSanitizing, EmergencyQuickStop, RestIdly, EnableSourcesWait, Hold,
                    ResetLow
<1>6. CASE EnableInterBatch \/ EnableDevices \/ EnableBatch
  BY <1>1, <1>2, <1>6 DEF EnableInterBatch, EnableDevices, EnableBatch, preemptedByDisable,
                          publishResult
<1>7. CASE TakeEnable \/ TakeDisable \/ TakeReset
  BY <1>1, <1>2, <1>7 DEF TakeEnable, TakeDisable, TakeReset, rejectIfOffline, publishResult
<1>8. CASE ResetPreempted \/ ResetHigh
  BY <1>1, <1>2, <1>8 DEF ResetPreempted, ResetHigh, publishResult
<1>9. CASE JtcActivating
  BY <1>1, <1>2, <1>9 DEF JtcActivating, publishResult
<1>10. CASE Downward
  <2>1. ASSUME NEW f \in Failures, finishDownward(phase, f)
        PROVE  s \in FinishSlot(phase) /\ FinishOutcome(phase, f) = "ok"
    BY <1>2, <2>1 DEF finishDownward
  <2>2. Failed(primary_failure) \in Failures
    BY <1>1, FinishResults DEF Failures
  <2>3. ~(phase = "emergency_disable" /\ finishDownward(phase, Failed(primary_failure)))
    BY <1>1, <2>1, <2>2, FinishResults
  <2>4. result' # result
    BY <1>2
  <2>5. ~publishResult("reset", "other")
    BY <1>1, <1>2 DEF publishResult
  <2>6. finishDownward(phase, primary_failure) /\ allNonfaultTerminal
    BY <1>10, <2>3, <2>4, <2>5 DEF Downward, updateDownward
  <2> QED
    BY <1>1, <1>10, <2>1, <2>6
<1> QED
  BY <1>3, <1>4, <1>5, <1>6, <1>7, <1>8, <1>9, <1>10 DEF Update

(* The threads, the hardware and the lifecycle neither answer with success *)
(* nor raise the device enable: only a cycle does.                         *)
LEMMA OnlyUpdateAnswers ==
  ASSUME IInv, [Next]_vars, ~Update
  PROVE  /\ \A s \in Services : ~Published(s, "ok")
         /\ ~(~dev_enable /\ dev_enable')
<1>1. CASE Activate \/ Deactivate
  BY <1>1 DEF Activate, Deactivate, Published
<1>2. CASE Hardware
  BY <1>2, HardwareStep DEF IInv, HardwareFrame, hwFrame, sharedVars, Published
<1>3. CASE Calls
  BY <1>3, CallsStep DEF IInv, TypeOK, CallFrame, cmdVars, Published, Services
<1>4. CASE UNCHANGED vars
  BY <1>4 DEF vars, cmdVars, sharedVars, Published
<1> QED
  BY <1>1, <1>2, <1>3, <1>4 DEF Next

-----------------------------------------------------------------------------
(* The theorems                                                            *)

(* The types of every variable, and the inductive invariant itself.        *)
THEOREM Inductive == Spec => []IInv
  BY InitIInv, NextIInv, PTL DEF Spec

(* Type correctness: no action of the update, of the services, of the mode *)
(* switch, of the worker or of the lifecycle leaves the types.             *)
THEOREM TypeCorrect == Spec => []TypeOK
<1>1. IInv => TypeOK
  BY DEF IInv
<1> QED
  BY <1>1, Inductive, PTL

(* The cursor of updateEnable never leaves enable_batches_, for any batch  *)
(* order and whenever a disable, a fault or another activation cuts in.    *)
THEOREM BatchCursor == Spec => []BatchIndex
<1>1. IInv => BatchIndex
  BY DEF IInv
<1> QED
  BY <1>1, Inductive, PTL

(* A controller that is not active has left its drives without voltage.    *)
THEOREM Quiet == Spec => []InactiveIsQuiet
<1>1. IInv => InactiveIsQuiet
  BY DEF IInv
<1> QED
  BY <1>1, Inductive, PTL

(* While a reset runs only zeros and resets stand, no device is enabled,   *)
(* and it walks down only when every device has handled its generation.    *)
THEOREM ResetIsQuiet == Spec => []ResetQuiet
<1>1. IInv => ResetQuiet
  BY DEF IInv
<1> QED
  BY <1>1, Inductive, PTL

(* Batch order for every partition of the axes into batches.               *)
THEOREM BatchesInOrder == Spec => BatchOrder
<1>1. IInv /\ [Next]_vars => [BatchOrderStep]_vars
  <2> SUFFICES ASSUME IInv, Update, NEW i \in 1..Len(Batches), NEW a \in Batches[i],
                      Raises(drive[a], cw'[a])
               PROVE  /\ ~anyFault
                      /\ \A j \in 1..(i - 1) : \A b \in Batches[j] : InOperation(b)
    BY DEF BatchOrderStep
  <2>1. a \in Axes /\ Len(Batches) \in Nat
    BY TopologyAssumption
  <2>2. EnableBatch /\ a \in current
    BY <2>1, UpdateWords DEF CycleWords
  <2>3. ~anyFault /\ \A b \in previous : drive[b] = "operation_enabled"
    BY <2>2 DEF EnableBatch, BatchStage, WalkAllowed, BatchInvalid
  <2>4. current_batch \in 1..Len(Batches)
    BY <2>2 DEF EnableBatch, BatchStage, IInv, BatchIndex
  <2>5. current_batch = i
    BY <2>2, <2>4, TopologyAssumption DEF current
  <2> QED
    BY <2>3, <2>5 DEF previous, InOperation
<1> QED
  BY <1>1, Inductive, PTL DEF Spec, BatchOrder

(* No torque over a fault, in whatever phase the threads leave the update. *)
THEOREM NoTorqueOverFault == Spec => FaultStopsTorque
<1>1. IInv /\ [Next]_vars => [FaultStopStep]_vars
  BY UpdateWords DEF CycleWords, FaultStopStep
<1> QED
  BY <1>1, Inductive, PTL DEF Spec, FaultStopsTorque

(* 0x0080 is a rising edge to an axis in Fault.                            *)
THEOREM ResetIsAnEdge == Spec => ResetEdge
<1>1. IInv /\ [Next]_vars => [ResetEdgeStep]_vars
  BY UpdateWords DEF CycleWords, ResetEdgeStep, IInv, ResetQuiet
<1> QED
  BY <1>1, Inductive, PTL DEF Spec, ResetEdge

(* No drive is taken up while a required state source is not ready.        *)
THEOREM SourcesBeforeDrives == Spec => SourcesFirst
<1>1. IInv /\ [Next]_vars => [SourcesFirstStep]_vars
  <2>1. EnableBatch /\ HasReadySources => sources
    BY DEF EnableBatch, BatchStage, WalkAllowed, qualifies
  <2> QED
    BY <2>1, UpdateWords DEF CycleWords, SourcesFirstStep
<1> QED
  BY <1>1, Inductive, PTL DEF Spec, SourcesFirst

(* The devices follow the axes.                                            *)
THEOREM DevicesAfterAxes == Spec => DevicesLast
<1>1. IInv /\ [Next]_vars => [DevicesLastStep]_vars
  <2> SUFFICES ASSUME IInv, [Next]_vars, ~dev_enable, dev_enable'
               PROVE  /\ \A a \in Axes : InOperation(a)
                      /\ ~anyFault
                      /\ HasReadySources => sources
    BY DEF DevicesLastStep
  <2>1. Update
    BY OnlyUpdateAnswers
  <2>2. EnableDevices
    BY <2>1, UpdateWords DEF CycleWords
  <2> QED
    BY <2>2 DEF EnableDevices, DeviceStage, WalkAllowed, AllAxesEnabled, InOperation, qualifies
<1> QED
  BY <1>1, Inductive, PTL DEF Spec, DevicesLast

(* What enable's success promises.                                         *)
THEOREM EnableMeansEnabled == Spec => EnableCommit
<1>1. IInv /\ [Next]_vars => [EnableCommitStep]_vars
  <2> SUFFICES ASSUME IInv, [Next]_vars, Published("enable", "ok")
               PROVE  EnableCommitStep
    BY DEF EnableCommitStep
  <2>1. Update
    BY OnlyUpdateAnswers DEF Services
  <2>2. JtcActivating
    <3>1. phase \in Phases /\ primary_failure \in Failures
      BY DEF IInv, TypeOK
    <3> QED
      BY <2>1, <3>1, SuccessAnswers, FinishGuards, FinishResults DEF Services
  <2> QED
    BY <2>2 DEF JtcActivating, GroupHealthy, EnableCommitStep, InOperation, modeConfirmed,
                runningModeConfirmed, allDevicesEnabled
<1> QED
  BY <1>1, Inductive, PTL DEF Spec, EnableCommit

(* What disable's success promises.                                        *)
THEOREM DisableMeansDown == Spec => DisableCommit
<1>1. IInv /\ [Next]_vars => [DisableCommitStep]_vars
  <2> SUFFICES ASSUME IInv, [Next]_vars, phase = "disabling", Published("disable", "ok")
               PROVE  DisableCommitStep
    BY DEF DisableCommitStep
  <2>1. phase \in Phases /\ primary_failure \in Failures
    BY DEF IInv, TypeOK
  <2>2. Update
    BY OnlyUpdateAnswers DEF Services
  <2>3. allNonfaultTerminal /\ FinishOutcome(phase, primary_failure) = "ok"
    BY <2>2, SuccessAnswers DEF Services
  <2>4. ~anyFault /\ "jtc_deactivate_failed" \notin flags
    BY <2>1, <2>3, FinishGuards
  <2> QED
    BY <2>3, <2>4 DEF allNonfaultTerminal, allDevicesDisabledOrFaulted, anyFault, anyAxisFault,
                      anyDeviceFaulted, DisableCommitStep
<1> QED
  BY <1>1, Inductive, PTL DEF Spec, DisableCommit

(* What a reset's success promises.                                        *)
THEOREM ResetMeansClear == Spec => ResetCommit
<1>1. IInv /\ [Next]_vars => [ResetCommitStep]_vars
  <2> SUFFICES ASSUME IInv, [Next]_vars, Published("reset", "ok")
               PROVE  ~anyFault /\ (phase = "reset_disabling" => dev_reset = {})
    BY DEF ResetCommitStep
  <2>1. phase \in Phases /\ primary_failure \in Failures
    BY DEF IInv, TypeOK
  <2>2. Update
    BY OnlyUpdateAnswers DEF Services
  <2>3. ~anyFault
    BY <2>1, <2>2, SuccessAnswers, FinishGuards DEF Services
  <2> QED
    BY <2>3 DEF IInv, ResetQuiet
<1> QED
  BY <1>1, Inductive, PTL DEF Spec, ResetCommit
=============================================================================
