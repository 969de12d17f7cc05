------------------------- MODULE EnableTypes_proofs -------------------------
(***************************************************************************)
(* The lemmas about the enable manager's operators and actions: the words  *)
(* a walk computes, what a step of each thread may touch, and that every   *)
(* action keeps the types.  EnableManager_proofs draws the theorems from   *)
(* them.                                                                   *)
(***************************************************************************)
EXTENDS EnableProperties, TLAPS

-----------------------------------------------------------------------------
(* The operators the update is built from                                  *)

(* Every word a walk computes for a drive is one of the control words, and *)
(* no downward or quick stop word takes a drive up, enables its operation  *)
(* or resets it.                                                           *)
LEMMA StopWords ==
  ASSUME NEW s
  PROVE  /\ DownwardCommand(s) \in {"switch_on", "shutdown", "disable_voltage"}
         /\ QuickStopCommand(s) \in {"quick_stop", "shutdown", "disable_voltage"}
         /\ ~Raises(s, DownwardCommand(s))
         /\ ~Raises(s, QuickStopCommand(s))
  BY DEF DownwardCommand, QuickStopCommand, Raises

(* The words of the upward walk and of a reset are control words; the walk *)
(* resets nothing, and a reset goes only to a drive in Fault.              *)
LEMMA WalkWords ==
  ASSUME NEW a \in Axes
  PROVE  /\ EnableCommand(a) \in ControlWords \ {"fault_reset"}
         /\ ResetCommand(a) \in {"fault_reset", "disable_voltage"}
         /\ ResetCommand(a) \in ControlWords
         /\ ResetCommand(a) = "fault_reset" => drive[a] = "fault"
  BY DEF EnableCommand, ResetCommand, ControlWords

(* What a finished walk publishes is a result, and never a success for an  *)
(* enable (finishDownward).                                                *)
LEMMA FinishResults ==
  ASSUME NEW p \in Phases, NEW f \in Failures
  PROVE  /\ Failed(f) \in {"motion_fault", "other"}
         /\ FinishOutcome(p, f) \in {"ok", "motion_fault", "other"}
         /\ p \in {"rollback", "emergency_disable"} => FinishOutcome(p, f) # "ok"
  BY DEF FinishOutcome, Failed, Failures, Phases

(* writeDriveModes keeps the flags it is given, the CSP request apart.     *)
LEMMA DriveModesWritten ==
  ASSUME NEW S \in SUBSET Flags, writeDriveModes(S), mode_cmd \in {"expected", "csp"}
  PROVE  /\ flags' \in SUBSET S
         /\ S \ {"drive_csp_requested"} \subseteq flags'
         /\ mode_cmd' \in {"expected", "csp"}
  BY DEF writeDriveModes

(* The clock of a stage is a number of cycles.                             *)
LEMMA Durations ==
  /\ {BatchTimeout, DisableStageTimeout, FaultResetTimeout, InterBatchDelay} \subseteq Int
  /\ stage_deadline \in Int => remaining \in Int /\ walkRemaining \in Int
  BY TimingAssumption DEF remaining, walkRemaining
-----------------------------------------------------------------------------
(* Type correctness                                                        *)

(* An action of the update is type correct if it leaves the flags it is    *)
(* given to writeDriveModes and types the variables it writes.             *)
LEMMA StepType ==
  ASSUME TypeOK, UNCHANGED <<hwVars, controllers, threadVars>>,
         NEW S \in SUBSET Flags, writeDriveModes(S),
         cw' \in [Axes -> ControlWords], dev_enable' \in BOOLEAN,
         dev_reset' \in SUBSET Devices, phase' \in Phases, owner' \in Owners,
         control_mode' \in ControlModes, result' \in [Services -> Results],
         current_batch' \in Nat, stage_deadline' \in Int, downward_stage' \in 0..2,
         primary_failure' \in Failures, reset_targets' \in SUBSET Axes,
         interrupted_owner' \in Owners, mode_confirmed' \in SUBSET Axes,
         ready_since' \in Int
  PROVE  TypeOK'
<1>1. mode_cmd \in {"expected", "csp"}
  BY DEF TypeOK
<1>2. flags' \in SUBSET Flags /\ mode_cmd' \in {"expected", "csp"}
  BY <1>1, DriveModesWritten
<1> QED
  BY <1>2 DEF TypeOK, hwVars, threadVars

(* finishDownward keeps the types of what it writes.                       *)
LEMMA FinishType ==
  ASSUME TypeOK, NEW p \in Phases, NEW f \in Failures, finishDownward(p, f)
  PROVE  /\ phase' \in Phases /\ owner' \in Owners /\ control_mode' \in ControlModes
         /\ result' \in [Services -> Results] /\ stage_deadline' \in Int
         /\ downward_stage' \in 0..2 /\ interrupted_owner' \in Owners
<1>1. FinishOutcome(p, f) \in Results
  BY FinishResults DEF Results
<1>2. stage_deadline' \in Int
  BY Durations DEF finishDownward, TypeOK
<1> QED
  BY <1>1, <1>2 DEF finishDownward, TypeOK, Phases, Owners, ControlModes, Services

(* updateDownward: each of its outcomes is type correct.                   *)
LEMMA DownwardType ==
  ASSUME TypeOK, UNCHANGED <<hwVars, controllers, threadVars>>,
         updateDownward(phase)
  PROVE  TypeOK'
<1> DEFINE p == phase
           done    == DownwardStageDone(downward_stage)
           finish  == downward_stage = 2 /\ allNonfaultTerminal
           timeout == ~done /\ ~finish /\ expired
<1>1. cw' \in [Axes -> ControlWords]
  BY StopWords DEF updateDownward, ControlWords
<1>2. /\ dev_enable' \in BOOLEAN /\ dev_reset' \in SUBSET Devices
      /\ current_batch' \in Nat /\ reset_targets' \in SUBSET Axes
      /\ mode_confirmed' \in SUBSET Axes /\ ready_since' \in Int
  BY DEF updateDownward, TypeOK
<1>3. /\ p \in Phases /\ primary_failure \in Failures /\ remaining \in Int
      /\ DisableStageTimeout \in Int /\ Failed(primary_failure) \in Failures
      /\ flags \in SUBSET Flags
      /\ flags \cup {"emergency_jtc_deactivate_request"} \in SUBSET Flags
  BY Durations, FinishResults DEF TypeOK, Failures, Flags
<1>4. CASE /\ done
           /\ downward_stage' = downward_stage + 1
           /\ stage_deadline' = DisableStageTimeout
           /\ UNCHANGED <<phase, owner, control_mode, result, primary_failure,
                          interrupted_owner>>
           /\ writeDriveModes(flags)
  <2>1. downward_stage' \in 0..2
    BY <1>4 DEF DownwardStageDone, TypeOK
  <2> QED
    BY <1>1, <1>2, <1>3, <1>4, <2>1, StepType DEF TypeOK
<1>5. CASE /\ finish
           /\ finishDownward(p, primary_failure)
           /\ UNCHANGED primary_failure
           /\ writeDriveModes(flags)
  BY <1>1, <1>2, <1>3, <1>5, FinishType, StepType DEF TypeOK
<1>6. CASE /\ ~done /\ ~finish /\ ~expired
           /\ stage_deadline' = remaining
           /\ UNCHANGED <<phase, owner, control_mode, result, primary_failure,
                          interrupted_owner, downward_stage>>
           /\ writeDriveModes(flags)
  BY <1>1, <1>2, <1>3, <1>6, StepType DEF TypeOK
<1>7. CASE /\ timeout /\ p = "reset_disabling"
           /\ publishResult("reset", "other")
           /\ phase' = "failed" /\ owner' = "none"
           /\ stage_deadline' = remaining
           /\ UNCHANGED <<control_mode, primary_failure, interrupted_owner, downward_stage>>
           /\ writeDriveModes(flags)
  BY <1>1, <1>2, <1>3, <1>7, StepType
     DEF TypeOK, publishResult, Phases, Owners, Results, Services
<1>8. CASE /\ timeout /\ p \notin {"reset_disabling", "emergency_disable"}
           /\ primary_failure' = Failed(primary_failure)
           /\ interrupted_owner' = owner
           /\ stage_deadline' = DisableStageTimeout
           /\ phase' = "emergency_quick_stop"
           /\ UNCHANGED <<owner, control_mode, result, downward_stage>>
           /\ writeDriveModes(flags \cup {"emergency_jtc_deactivate_request"})
  BY <1>1, <1>2, <1>3, <1>8, StepType DEF TypeOK, Phases
<1>9. CASE /\ timeout /\ p = "emergency_disable"
           /\ primary_failure' = Failed(primary_failure)
           /\ finishDownward(p, Failed(primary_failure))
           /\ writeDriveModes(flags)
  BY <1>1, <1>2, <1>3, <1>9, FinishType, StepType
<1> QED
  BY <1>4, <1>5, <1>6, <1>7, <1>8, <1>9 DEF updateDownward

(* The updates that enter another phase: a downward walk or an emergency.  *)
LEMMA EnterType ==
  ASSUME TypeOK, UNCHANGED <<hwVars, controllers, threadVars>>
  PROVE  /\ \A S \in SUBSET Flags : startEmergency(S) => TypeOK'
         /\ failEnable => TypeOK'
         /\ \A S \in SUBSET Flags :
              /\ preemptedByDisable(S)
              /\ cw' \in [Axes -> ControlWords]
              /\ mode_confirmed' \in SUBSET Axes /\ ready_since' \in Int
              => TypeOK'
<1>1. preemptFlags \in SUBSET Flags
  BY DEF preemptFlags, TypeOK, Flags
<1>3. ASSUME NEW S \in SUBSET Flags, startEmergency(S)
      PROVE  TypeOK'
  <2>1. phase' \in Phases /\ downward_stage' \in 0..2 /\ stage_deadline' \in Int
    BY <1>3, Durations
       DEF startEmergency, updateEmergencyQuickStop, startDownward, TypeOK, Phases
  <2>3. cw' \in [Axes -> ControlWords] /\ dev_enable' \in BOOLEAN
    BY <1>3, StopWords DEF startEmergency, updateEmergencyQuickStop, ControlWords
  <2>2. S \cup {"emergency_jtc_deactivate_request"} \in SUBSET Flags
    BY DEF Flags
  <2> QED
    BY <1>3, <2>1, <2>2, <2>3, StepType DEF startEmergency, TypeOK, Owners, Failures
<1>4. ASSUME failEnable
      PROVE  TypeOK'
  <2>1. phase' \in Phases /\ downward_stage' \in 0..2 /\ stage_deadline' \in Int
    BY <1>4, Durations DEF failEnable, EnterDownward, Phases
  <2>4. cw' \in [Axes -> ControlWords] /\ dev_enable' \in BOOLEAN
    BY <1>4, StopWords DEF failEnable, EnterDownward, ControlWords
  <2>2. result' \in [Services -> Results] /\ owner' \in Owners
    BY <1>4 DEF failEnable, publishResult, TypeOK, Results, Owners, Services
  <2>3. \E S \in SUBSET Flags : writeDriveModes(S)
    BY <1>1, <1>4 DEF failEnable
  <2> QED
    BY <1>4, <2>1, <2>2, <2>3, <2>4, StepType DEF failEnable, TypeOK, Failures
<1>5. ASSUME NEW S \in SUBSET Flags, preemptedByDisable(S), cw' \in [Axes -> ControlWords],
             mode_confirmed' \in SUBSET Axes, ready_since' \in Int
      PROVE  TypeOK'
  <2>1. /\ phase' \in Phases /\ downward_stage' \in 0..2 /\ stage_deadline' \in Int
        /\ result' \in [Services -> Results] /\ owner' \in Owners
    BY <1>5, Durations
       DEF preemptedByDisable, startDownward, publishResult, TypeOK, Phases, Results,
           Owners, Services
  <2>2. S \ {"disable_request"} \in SUBSET Flags
    OBVIOUS
  <2> QED
    BY <1>5, <2>1, <2>2, StepType DEF preemptedByDisable, TypeOK, Failures
<1> QED
  BY <1>3, <1>4, <1>5

(* One cycle of update() is type correct, action by action.                *)
LEMMA UpdateType ==
  ASSUME TypeOK, BatchIndex, Update
  PROVE  TypeOK'
<1> USE DEF Phases, Owners, ControlModes, Results, Services, Failures
<1>1. UNCHANGED <<hwVars, controllers, threadVars>>
  BY DEF Update
<1>2. flags \in SUBSET Flags /\ preemptFlags \in SUBSET Flags /\ walkFlags \in SUBSET Flags
  BY DEF TypeOK, preemptFlags, walkFlags, Flags
<1>3. stage_deadline \in Int /\ remaining \in Int /\ walkRemaining \in Int
  BY Durations DEF TypeOK
<1>4. ASSUME NEW w \in ControlWords, setAllControlWords(w)
      PROVE  cw' \in [Axes -> ControlWords]
  BY <1>4 DEF setAllControlWords
<1>5. "disable_voltage" \in ControlWords /\ "enable_operation" \in ControlWords
  BY DEF ControlWords
<1>6. CASE MonitorTrips
  <2>1. flags \cup {"restart_required"} \in SUBSET Flags
    BY <1>2 DEF Flags
  <2> QED
    BY <1>1, <1>2, <1>6, <2>1, EnterType DEF MonitorTrips
<1>7. CASE JtcActivating
  <2>1. cw' \in [Axes -> ControlWords]
    BY <1>4, <1>5, <1>7 DEF JtcActivating, TypeOK
  <2>2. \E S \in SUBSET Flags : writeDriveModes(S)
    BY <1>2, <1>7 DEF JtcActivating
  <2>3. /\ result' \in [Services -> Results] /\ stage_deadline' \in Int
        /\ downward_stage' \in 0..2
    BY <1>3, <1>7, Durations DEF JtcActivating, publishResult, startDownward, TypeOK
  <2> QED
    BY <1>1, <1>7, <2>1, <2>2, <2>3, StepType DEF JtcActivating, HoldFrame, startDownward, TypeOK
<1>8. CASE Hold
  <2>1. cw' \in [Axes -> ControlWords]
    BY <1>4, <1>5, <1>8 DEF Hold
  <2>2. \E S \in SUBSET Flags : writeDriveModes(S)
    BY <1>2, <1>8 DEF Hold
  <2>3. stage_deadline' \in Int /\ downward_stage' \in 0..2
    BY <1>3, <1>8, Durations DEF Hold, startDownward, TypeOK
  <2> QED
    BY <1>1, <1>8, <2>1, <2>2, <2>3, StepType DEF Hold, HoldFrame, startDownward, TypeOK
<1>9. CASE StartupSanitizing
  <2>1. cw' \in [Axes -> ControlWords] /\ dev_enable' \in BOOLEAN
    BY <1>9, StopWords DEF StartupSanitizing, EnterDownward, ControlWords
  <2>2. stage_deadline' \in Int /\ downward_stage' \in 0..2
    BY <1>9, Durations DEF StartupSanitizing, EnterDownward
  <2> QED
    BY <1>1, <1>2, <1>9, <2>1, <2>2, StepType DEF StartupSanitizing, EnterDownward, TypeOK
<1>10. CASE Downward
  BY <1>1, <1>10, DownwardType DEF Downward
<1>11. CASE EmergencyQuickStop
  <2>1. cw' \in [Axes -> ControlWords] /\ dev_enable' \in BOOLEAN
    BY <1>11, StopWords DEF EmergencyQuickStop, updateEmergencyQuickStop, ControlWords
  <2>2. stage_deadline' \in Int /\ downward_stage' \in 0..2 /\ phase' \in Phases
    BY <1>3, <1>11, Durations
       DEF EmergencyQuickStop, updateEmergencyQuickStop, startDownward, TypeOK
  <2> QED
    BY <1>1, <1>2, <1>11, <2>1, <2>2, StepType DEF EmergencyQuickStop, TypeOK
<1>12. CASE RestIdly
  <2>1. cw' \in [Axes -> ControlWords] /\ dev_enable' \in BOOLEAN
    BY <1>4, <1>5, <1>12 DEF RestIdly, RestingFrame
  <2> QED
    BY <1>1, <1>2, <1>3, <1>12, <2>1, StepType DEF RestIdly, RestingFrame, TypeOK
<1>13. CASE TakeEnable
  <2>1. cw' \in [Axes -> ControlWords] /\ dev_enable' \in BOOLEAN
    BY <1>4, <1>5, <1>13 DEF TakeEnable, RestingFrame
  <2>2. \E S \in SUBSET Flags : writeDriveModes(S)
    BY <1>2, <1>13 DEF TakeEnable, Flags
  <2>3. /\ result' \in [Services -> Results] /\ stage_deadline' \in Int
        /\ ready_since' \in Int
    BY <1>3, <1>13, Durations
       DEF TakeEnable, rejectIfOffline, publishResult, TypeOK, NotSince
  <2> QED
    BY <1>1, <1>13, <2>1, <2>2, <2>3, StepType
       DEF TakeEnable, RestingFrame, rejectIfOffline, TypeOK
<1>14. CASE TakeReset
  <2>1. cw' \in [Axes -> ControlWords] /\ dev_enable' \in BOOLEAN
    BY <1>4, <1>5, <1>14 DEF TakeReset, RestingFrame
  <2>2. flags \ {"reset_request"} \in SUBSET Flags
    BY <1>2
  <2>3. /\ result' \in [Services -> Results] /\ stage_deadline' \in Int
        /\ reset_targets' \in SUBSET Axes /\ dev_reset' \in SUBSET Devices
    BY <1>3, <1>14 DEF TakeReset, rejectIfOffline, publishResult, TypeOK
  <2> QED
    BY <1>1, <1>14, <2>1, <2>2, <2>3, StepType
       DEF TakeReset, RestingFrame, rejectIfOffline, TypeOK
<1>15. CASE TakeDisable
  <2>1. cw' \in [Axes -> ControlWords] /\ dev_enable' \in BOOLEAN
    BY <1>4, <1>5, <1>15 DEF TakeDisable, RestingFrame
  <2>2. flags \ {"disable_request"} \in SUBSET Flags
    BY <1>2
  <2>3. /\ result' \in [Services -> Results] /\ stage_deadline' \in Int
        /\ downward_stage' \in 0..2 /\ phase' \in Phases
    BY <1>3, <1>15, Durations DEF TakeDisable, startDownward, publishResult, TypeOK
  <2> QED
    BY <1>1, <1>15, <2>1, <2>2, <2>3, StepType DEF TakeDisable, RestingFrame, TypeOK
<1>16. CASE EnableFaulted
  BY <1>1, <1>2, <1>16, EnterType DEF EnableFaulted
<1>17. CASE EnableReverted \/ EnableSourcesLost \/ EnableDevicesFail \/ EnableBatchFail
  BY <1>1, <1>17, EnterType
     DEF EnableReverted, EnableSourcesLost, EnableDevicesFail, EnableBatchFail
<1>18. CASE EnableSourcesWait
  <2>1. cw' \in [Axes -> ControlWords]
    BY <1>4, <1>5, <1>18 DEF EnableSourcesWait
  <2>2. ready_since' \in Int
    BY <1>18 DEF EnableSourcesWait, since, NotSince, TypeOK
  <2> QED
    BY <1>1, <1>2, <1>3, <1>18, <2>1, <2>2, StepType DEF EnableSourcesWait, TypeOK
<1>19. walkSince => ready_since' \in Int
  BY DEF walkSince, TypeOK
<1>20. CASE EnableInterBatch
  <2>1. cw' \in [Axes -> ControlWords]
    BY <1>20 DEF EnableInterBatch, ControlWords
  <2>2. CASE preempted /\ preemptedByDisable(walkFlags)
    BY <1>1, <1>2, <1>19, <1>20, <2>1, <2>2, EnterType DEF EnableInterBatch, TypeOK
  <2>3. CASE ~(preempted /\ preemptedByDisable(walkFlags))
    <3>1. /\ current_batch' \in Nat /\ stage_deadline' \in Int /\ phase' \in Phases
          /\ ready_since' \in Int
      BY <1>3, <1>19, <1>20, <2>3, Durations DEF EnableInterBatch, TypeOK
    <3> QED
      BY <1>1, <1>2, <1>20, <2>1, <2>3, <3>1, StepType DEF EnableInterBatch, TypeOK
  <2> QED
    BY <2>2, <2>3
<1>21. CASE EnableDevices
  <2>1. cw' \in [Axes -> ControlWords]
    BY <1>4, <1>5, <1>21 DEF EnableDevices
  <2>2. CASE preempted /\ preemptedByDisable(walkFlags)
    BY <1>1, <1>2, <1>19, <1>21, <2>1, <2>2, EnterType DEF EnableDevices, TypeOK
  <2>3. CASE ~(preempted /\ preemptedByDisable(walkFlags))
    <3>1. \E S \in SUBSET Flags : writeDriveModes(S)
      BY <1>2, <1>21, <2>3 DEF EnableDevices, Flags
    <3>2. phase' \in Phases /\ ready_since' \in Int /\ stage_deadline' \in Int
      BY <1>3, <1>19, <1>21, <2>3 DEF EnableDevices, TypeOK
    <3>3. dev_enable' \in BOOLEAN
      BY <1>21, <2>3 DEF EnableDevices
    <3> QED
      BY <1>1, <1>21, <2>1, <2>3, <3>1, <3>2, <3>3, StepType DEF EnableDevices, TypeOK
  <2> QED
    BY <2>2, <2>3
<1>22. CASE EnableBatch
  <2>1. cw' \in [Axes -> ControlWords]
    BY <1>22, WalkWords DEF EnableBatch
  <2>2. mode_confirmed' \in SUBSET Axes
    <3>1. current_batch \in 1..Len(Batches)
      BY <1>22 DEF EnableBatch, BatchStage, BatchIndex
    <3>2. current \subseteq Axes
      BY <3>1, TopologyAssumption DEF current
    <3> QED
      BY <1>22, <3>2 DEF EnableBatch, TypeOK
  <2>3. CASE BatchComplete /\ preempted /\ preemptedByDisable(walkFlags)
    BY <1>1, <1>2, <1>19, <1>22, <2>1, <2>2, <2>3, EnterType DEF EnableBatch
  <2>4. CASE ~(BatchComplete /\ preempted /\ preemptedByDisable(walkFlags))
    <3>1. \E S \in SUBSET Flags : writeDriveModes(S)
      BY <1>2, <1>22, <2>4 DEF EnableBatch, Flags
    <3>2. phase' \in Phases /\ ready_since' \in Int /\ stage_deadline' \in Int
      BY <1>3, <1>19, <1>22, <2>4, Durations DEF EnableBatch, TypeOK
    <3> QED
      BY <1>1, <1>22, <2>1, <2>2, <2>4, <3>1, <3>2, StepType DEF EnableBatch, TypeOK
  <2> QED
    BY <2>3, <2>4
<1>23. CASE ResetPreempted \/ ResetLow
  <2>1. cw' \in [Axes -> ControlWords]
    BY <1>4, <1>5, <1>23 DEF ResetPreempted, ResetLow
  <2>2. \E S \in SUBSET Flags : writeDriveModes(S)
    BY <1>2, <1>23 DEF ResetPreempted, ResetLow
  <2>3. /\ result' \in [Services -> Results] /\ stage_deadline' \in Int
        /\ downward_stage' \in 0..2 /\ phase' \in Phases
    BY <1>23, Durations DEF ResetPreempted, ResetLow, startDownward, publishResult, TypeOK
  <2> QED
    BY <1>1, <1>23, <2>1, <2>2, <2>3, StepType DEF ResetPreempted, ResetLow, TypeOK
<1>24. CASE ResetHigh
  <2>1. cw' \in [Axes -> ControlWords]
    BY <1>5, <1>24, WalkWords DEF ResetHigh
  <2>2. /\ result' \in [Services -> Results] /\ stage_deadline' \in Int
        /\ downward_stage' \in 0..2 /\ phase' \in Phases
        /\ reset_targets' \in SUBSET Axes /\ owner' \in Owners
    BY <1>3, <1>24, Durations DEF ResetHigh, startDownward, publishResult, TypeOK
  <2> QED
    BY <1>1, <1>2, <1>24, <2>1, <2>2, StepType DEF ResetHigh, TypeOK
<1> QED
  BY <1>6, <1>7, <1>8, <1>9, <1>10, <1>11, <1>12, <1>13, <1>14, <1>15, <1>16, <1>17,
     <1>18, <1>20, <1>21, <1>22, <1>23, <1>24 DEF Update

(* A step of a service thread or of the worker is type correct, and leaves *)
(* the commands, the hardware and the realtime members alone; it moves the *)
(* phase only to jtc_deactivating, clears results but publishes none, and  *)
(* touches neither the activity flag nor the device stage.                 *)
FlagsKept ==
  /\ flags' \subseteq Flags
  /\ "active" \in flags' <=> "active" \in flags
  /\ "device_stage" \in flags' <=> "device_stage" \in flags

CallFrame ==
  /\ UNCHANGED <<hwVars, cmdVars, rtVars>>
  /\ phase' \in {phase, "jtc_deactivating"}
  /\ FlagsKept
  /\ result' = result \/ \E s \in Services : result' = [result EXCEPT ![s] = "none"]

ServiceFlags == Flags \ {"active", "device_stage"}

(* The flags a thread is given back as they were, raised or lowered.       *)
LEMMA FlagsRaised ==
  ASSUME TypeOK, NEW A \in SUBSET ServiceFlags,
         flags' = flags \/ Raise(A) \/ Lower(A)
  PROVE  FlagsKept
  BY DEF FlagsKept, ServiceFlags, TypeOK, Raise, Lower

(* It is enough that the step types what a thread may write.               *)
LEMMA CallStep ==
  ASSUME TypeOK, serviceFrame, FlagsKept,
         NEW t \in Threads, NEW l \in PcLabels, Goto(t, l),
         \/ UNCHANGED switched
         \/ \E r \in SwitchResults : switched' = [switched EXCEPT ![t] = r],
         controllers' \in ControllerSets, phase' \in {phase, "jtc_deactivating"},
         owner' \in Owners, control_mode' \in ControlModes,
         UNCHANGED result \/ \E s \in Services : ForgetResult(s),
         seen' \in [phase : Phases, owner : Owners], source' \in {"motion", "alternate"}
  PROVE  TypeOK' /\ CallFrame
<1>1. pc' \in [Threads -> PcLabels]
  BY DEF Goto, TypeOK
<1>2. phase' \in Phases
  BY DEF TypeOK, Phases
<1>3. result' \in [Services -> Results]
  BY DEF TypeOK, ForgetResult, Results
<1>4. switched' \in [Threads -> SwitchResults]
  BY DEF TypeOK
<1>5. TypeOK'
  BY <1>1, <1>2, <1>3, <1>4 DEF TypeOK, serviceFrame, FlagsKept, hwVars, cmdVars, rtVars
<1> QED
  BY <1>5 DEF CallFrame, serviceFrame, ForgetResult

(* What a thread leaves alone keeps its type.                              *)
LEMMA CallTypes ==
  ASSUME TypeOK
  PROVE  /\ controllers \in ControllerSets /\ owner \in Owners
         /\ control_mode \in ControlModes /\ flags \subseteq Flags
         /\ seen \in [phase : Phases, owner : Owners] /\ source \in {"motion", "alternate"}
  BY DEF TypeOK

(* switchJtc(), for whichever thread calls it.                             *)
LEMMA SwitchStep ==
  ASSUME TypeOK, NEW t \in Threads, NEW begin \in PcLabels, NEW call \in PcLabels,
         NEW after \in PcLabels, NEW target_set \in ControllerSets,
         \/ switchBegin(t, begin, call, after)
         \/ switchCall(t, call, after, target_set)
  PROVE  TypeOK' /\ CallFrame
<1>1. {"switch_in_progress"} \in SUBSET ServiceFlags
  BY DEF ServiceFlags, Flags
<1>2. CASE switchBegin(t, begin, call, after)
  <2>1. FlagsKept
    BY <1>1, <1>2, FlagsRaised DEF switchBegin
  <2>2. UNCHANGED switched \/ \E r \in SwitchResults : switched' = [switched EXCEPT ![t] = r]
    BY <1>2 DEF switchBegin, SwitchResults
  <2>3. \E l \in PcLabels : Goto(t, l)
    BY <1>2 DEF switchBegin
  <2> QED
    BY <1>2, <2>1, <2>2, <2>3, CallStep, CallTypes DEF switchBegin
<1>3. CASE switchCall(t, call, after, target_set)
  <2>1. FlagsKept
    BY <1>1, <1>3, FlagsRaised DEF switchCall
  <2>2. \E r \in SwitchResults : switched' = [switched EXCEPT ![t] = r]
    BY <1>3 DEF switchCall, SwitchResults
  <2>3. controllers' \in ControllerSets
    BY <1>3, CallTypes DEF switchCall
  <2> QED
    BY <1>3, <2>1, <2>2, <2>3, CallStep, CallTypes DEF switchCall
<1> QED
  BY <1>2, <1>3

(* The labels and sets the callers of switchJtc() give it.                 *)
LEMMA SwitchLabels ==
  /\ "switch" \in PcLabels /\ "call" \in PcLabels /\ "after" \in PcLabels
  /\ "mf_switch" \in PcLabels /\ "mf_call" \in PcLabels /\ "mf_after" \in PcLabels
  /\ "motion" \in ControllerSets /\ "disabled" \in ControllerSets
  BY DEF PcLabels, ControllerSets

(* Every step of the thread of /rt/enable.                                 *)
LEMMA EnableServiceStep ==
  ASSUME TypeOK, EnableService
  PROVE  TypeOK' /\ CallFrame
<1>1. "enable" \in Threads /\ "enable" \in Services
  BY DEF Threads, Services
<1>2. CASE EnableEnter \/ waitForResult("enable")
  <2>1. FlagsKept
    BY <1>2 DEF EnableEnter, waitForResult, sharedVars, FlagsKept, TypeOK
  <2> QED
    BY <1>1, <1>2, <2>1, CallStep, CallTypes
       DEF EnableEnter, waitForResult, sharedVars, PcLabels
<1>3. CASE EnableCas
  <2>1. FlagsKept
    BY <1>3 DEF EnableCas, FlagsKept, TypeOK, Flags
  <2> QED
    BY <1>1, <1>3, <2>1, CallStep, CallTypes DEF EnableCas, Owners, PcLabels
<1>4. CASE EnableWaitHardware
  <2>1. FlagsKept
    BY <1>4 DEF EnableWaitHardware, FlagsKept, TypeOK, Flags, Raise
  <2> QED
    BY <1>1, <1>4, <2>1, CallStep, CallTypes DEF EnableWaitHardware, PcLabels
<1>5. CASE EnableSwitch
  BY <1>1, <1>5, SwitchStep, SwitchLabels DEF EnableSwitch
<1>6. CASE EnableAfterSwitch
  <2>1. FlagsKept
    BY <1>6 DEF EnableAfterSwitch, FlagsKept, TypeOK, Flags
  <2>2. \E r \in SwitchResults : switched' = [switched EXCEPT !["enable"] = r]
    BY <1>6 DEF EnableAfterSwitch, SwitchResults
  <2> QED
    BY <1>1, <1>6, <2>1, <2>2, CallStep, CallTypes DEF EnableAfterSwitch, PcLabels
<1> QED
  BY <1>2, <1>3, <1>4, <1>5, <1>6 DEF EnableService

(* Every step of the thread of /rt/disable.                                *)
LEMMA DisableServiceStep ==
  ASSUME TypeOK, DisableService
  PROVE  TypeOK' /\ CallFrame
<1>1. "disable" \in Threads /\ "disable" \in Services
  BY DEF Threads, Services
<1>2. CASE waitForResult("disable")
  <2>1. FlagsKept
    BY <1>2 DEF waitForResult, sharedVars, FlagsKept, TypeOK
  <2> QED
    BY <1>1, <1>2, <2>1, CallStep, CallTypes DEF waitForResult, sharedVars, PcLabels
<1>3. CASE DisableEnter
  <2>1. FlagsKept
    BY <1>3, CallTypes DEF DisableEnter, FlagsKept, Flags, Raise
  <2>2. seen' \in [phase : Phases, owner : Owners]
    BY <1>3 DEF DisableEnter, TypeOK
  <2> QED
    BY <1>1, <1>3, <2>1, <2>2, CallStep, CallTypes DEF DisableEnter, PcLabels
<1>4. CASE DisableModeWait
  <2>1. FlagsKept
    BY <1>4 DEF DisableModeWait, FlagsKept, TypeOK, Flags, Raise
  <2>2. seen' \in [phase : Phases, owner : Owners]
    BY <1>4 DEF DisableModeWait, NotSeen, TypeOK, Phases, Owners
  <2> QED
    BY <1>1, <1>4, <2>1, <2>2, CallStep, CallTypes DEF DisableModeWait, PcLabels, ControlModes
<1>5. CASE DisableCas
  <2>1. FlagsKept
    BY <1>5 DEF DisableCas, FlagsKept, TypeOK
  <2>2. seen' \in [phase : Phases, owner : Owners]
    BY <1>5 DEF DisableCas, NotSeen, TypeOK, Phases, Owners
  <2> QED
    BY <1>1, <1>5, <2>1, <2>2, CallStep, CallTypes DEF DisableCas, PcLabels, Owners
<1>6. CASE DisableBegin
  <2>1. FlagsKept
    BY <1>6, CallTypes DEF DisableBegin, FlagsKept, Flags, Lower
  <2>2. seen' \in [phase : Phases, owner : Owners]
    BY <1>6 DEF DisableBegin, NotSeen, Phases, Owners
  <2> QED
    BY <1>1, <1>6, <2>1, <2>2, CallStep, CallTypes DEF DisableBegin, PcLabels
<1>7. CASE DisableSwitch
  BY <1>1, <1>7, SwitchStep, SwitchLabels DEF DisableSwitch
<1>8. CASE DisableAfterSwitch
  <2>1. FlagsKept
    BY <1>8 DEF DisableAfterSwitch, deactivated, FlagsKept, TypeOK, Flags
  <2>2. \E r \in SwitchResults : switched' = [switched EXCEPT !["disable"] = r]
    BY <1>8 DEF DisableAfterSwitch, deactivated, SwitchResults
  <2> QED
    BY <1>1, <1>8, <2>1, <2>2, CallStep, CallTypes DEF DisableAfterSwitch, PcLabels
<1> QED
  BY <1>2, <1>3, <1>4, <1>5, <1>6, <1>7, <1>8 DEF DisableService

(* Every step of the thread of /rt/reset_fault.                            *)
LEMMA ResetServiceStep ==
  ASSUME TypeOK, ResetService
  PROVE  TypeOK' /\ CallFrame
<1>1. "reset" \in Threads /\ "reset" \in Services
  BY DEF Threads, Services
<1>2. CASE ResetEnter \/ waitForResult("reset")
  <2>1. FlagsKept
    BY <1>2 DEF ResetEnter, waitForResult, sharedVars, FlagsKept, TypeOK
  <2> QED
    BY <1>1, <1>2, <2>1, CallStep, CallTypes
       DEF ResetEnter, waitForResult, sharedVars, PcLabels
<1>3. CASE ResetCas
  <2>1. FlagsKept
    BY <1>3 DEF ResetCas, FlagsKept, TypeOK, Flags, Raise
  <2> QED
    BY <1>1, <1>3, <2>1, CallStep, CallTypes DEF ResetCas, Owners, PcLabels
<1> QED
  BY <1>2, <1>3 DEF ResetService

(* Every step of a worker tick.                                            *)
LEMMA WorkerStep ==
  ASSUME TypeOK, NEW w \in Workers, Worker(w)
  PROVE  TypeOK' /\ CallFrame
<1>1. w \in Threads /\ "disable" \in Services
  BY DEF Threads, Services
<1>2. CASE WorkerTick(w)
  <2>1. FlagsKept
    BY <1>2 DEF WorkerTick, FlagsKept, TypeOK, Lower
  <2> QED
    BY <1>1, <1>2, <2>1, CallStep, CallTypes DEF WorkerTick, PcLabels
<1>3. CASE MotionFaultCas(w)
  <2>1. FlagsKept
    BY <1>3 DEF MotionFaultCas, FlagsKept, TypeOK, Flags
  <2> QED
    BY <1>1, <1>3, <2>1, CallStep, CallTypes DEF MotionFaultCas, PcLabels, Owners
<1>4. CASE MotionFaultBegin(w)
  <2>1. FlagsKept
    BY <1>4 DEF MotionFaultBegin, FlagsKept, TypeOK
  <2> QED
    BY <1>1, <1>4, <2>1, CallStep, CallTypes DEF MotionFaultBegin, PcLabels
<1>5. CASE MotionFaultSwitch(w) \/ FaultStopSwitch(w)
  BY <1>1, <1>5, SwitchStep, SwitchLabels DEF MotionFaultSwitch, FaultStopSwitch
<1>6. CASE MotionFaultAfterSwitch(w)
  <2>1. FlagsKept
    BY <1>6 DEF MotionFaultAfterSwitch, deactivated, FlagsKept, TypeOK, Flags
  <2>2. \E r \in SwitchResults : switched' = [switched EXCEPT ![w] = r]
    BY <1>6 DEF MotionFaultAfterSwitch, deactivated, SwitchResults
  <2> QED
    BY <1>1, <1>6, <2>1, <2>2, CallStep, CallTypes DEF MotionFaultAfterSwitch, PcLabels
<1>7. CASE FaultStop(w)
  <2>1. FlagsKept
    BY <1>7 DEF FaultStop, FlagsKept, TypeOK, Lower
  <2> QED
    BY <1>1, <1>7, <2>1, CallStep, CallTypes DEF FaultStop, PcLabels
<1>8. CASE FaultStopAfterSwitch(w)
  <2>1. FlagsKept
    BY <1>8, CallTypes DEF FaultStopAfterSwitch, FlagsKept, Flags, Raise, Lower
  <2>2. \E r \in SwitchResults : switched' = [switched EXCEPT ![w] = r]
    BY <1>8 DEF FaultStopAfterSwitch, SwitchResults
  <2> QED
    BY <1>1, <1>8, <2>1, <2>2, CallStep, CallTypes DEF FaultStopAfterSwitch, PcLabels
<1> QED
  BY <1>2, <1>3, <1>4, <1>5, <1>6, <1>7, <1>8 DEF Worker

(* The ways on and the ways out of a mode switch.                          *)
LEMMA ModeOutcomes ==
  ASSUME TypeOK, serviceFrame, UNCHANGED <<phase, seen, source>>,
         UNCHANGED controllers,
         \/ UNCHANGED switched
         \/ \E r \in SwitchResults : switched' = [switched EXCEPT !["mode"] = r],
         \/ \E l \in PcLabels : modeMoves(l)
         \/ \E b \in BOOLEAN : unsafeModeSwitch(b)
         \/ preemptedModeSwitch
  PROVE  TypeOK' /\ CallFrame
<1>1. "mode" \in Threads /\ {"release", "converge", "converge_restart"} \subseteq PcLabels
  BY DEF Threads, PcLabels
<1>2. CASE \E l \in PcLabels : modeMoves(l)
  <2>1. FlagsKept
    BY <1>2, CallTypes DEF modeMoves, FlagsKept
  <2> QED
    BY <1>1, <1>2, <2>1, CallStep, CallTypes DEF modeMoves
<1>3. CASE \E b \in BOOLEAN : unsafeModeSwitch(b)
  <2>1. FlagsKept
    BY <1>3, CallTypes DEF unsafeModeSwitch, FlagsKept, Lower
  <2> QED
    BY <1>1, <1>3, <2>1, CallStep, CallTypes DEF unsafeModeSwitch
<1>4. CASE preemptedModeSwitch
  <2>1. FlagsKept
    BY <1>4, CallTypes DEF preemptedModeSwitch, FlagsKept, Flags
  <2> QED
    BY <1>1, <1>4, <2>1, CallStep, CallTypes DEF preemptedModeSwitch, ControlModes
<1> QED
  BY <1>2, <1>3, <1>4

(* Every step of the thread of the control mode service.                   *)
LEMMA ModeServiceStep ==
  ASSUME TypeOK, ModeService
  PROVE  TypeOK' /\ CallFrame
<1>1. "mode" \in Threads
  BY DEF Threads
<1>2. CASE ModeEnter
  <2>1. FlagsKept
    BY <1>2, CallTypes DEF ModeEnter, sharedVars, FlagsKept
  <2> QED
    BY <1>1, <1>2, <2>1, CallStep, CallTypes DEF ModeEnter, sharedVars, PcLabels
<1>3. CASE ModeCas
  <2>1. FlagsKept
    BY <1>3, CallTypes DEF ModeCas, FlagsKept, Lower
  <2> QED
    BY <1>1, <1>3, <2>1, CallStep, CallTypes DEF ModeCas, modeFrame, PcLabels, Owners
<1>4. CASE ModeValidate
  <2>1. FlagsKept
    BY <1>4, CallTypes DEF ModeValidate, FlagsKept
  <2> QED
    BY <1>1, <1>4, <2>1, CallStep, CallTypes DEF ModeValidate, modeFrame, PcLabels
<1>5. CASE ModeList
  <2>1. FlagsKept
    BY <1>5, CallTypes DEF ModeList, FlagsKept, Raise, Flags
  <2> QED
    BY <1>1, <1>5, <2>1, CallStep, CallTypes DEF ModeList, modeFrame, PcLabels
<1>6. CASE ModeDecide
  <2>1. \/ \E l \in {"unlock", "drives", "call"} : modeMoves(l)
        \/ \E b \in BOOLEAN : unsafeModeSwitch(b)
        \/ preemptedModeSwitch
    BY <1>6 DEF ModeDecide
  <2> QED
    BY <1>6, <2>1, ModeOutcomes DEF ModeDecide, modeFrame, PcLabels
<1>7. CASE ModeDrives
  <2>1. FlagsKept
    BY <1>7, CallTypes DEF ModeDrives, FlagsKept, Raise, Lower, Flags
  <2> QED
    BY <1>1, <1>7, <2>1, CallStep, CallTypes DEF ModeDrives, modeFrame, PcLabels
<1>8. CASE ModeCall
  <2>1. FlagsKept
    BY <1>8, CallTypes DEF ModeCall, FlagsKept
  <2>2. \E r \in SwitchResults : switched' = [switched EXCEPT !["mode"] = r]
    BY <1>8 DEF ModeCall, SwitchResults
  <2>3. controllers' \in ControllerSets
    BY <1>8, CallTypes DEF ModeCall, target, ControllerSets
  <2> QED
    BY <1>1, <1>8, <2>1, <2>2, <2>3, CallStep, CallTypes DEF ModeCall, modeFrame, PcLabels
<1>9. CASE ModeConfirm
  <2>1. \E r \in SwitchResults : switched' = [switched EXCEPT !["mode"] = r]
    BY <1>9 DEF ModeConfirm, SwitchResults
  <2>2. \/ \E l \in {"unlock", "drives", "store"} : modeMoves(l)
        \/ \E b \in BOOLEAN : unsafeModeSwitch(b)
        \/ preemptedModeSwitch
    BY <1>9 DEF ModeConfirm, completeModeSwitch
  <2> QED
    BY <1>9, <2>1, <2>2, ModeOutcomes DEF ModeConfirm, modeFrame, PcLabels
<1>10. CASE ModeDrivesWait \/ ModeDrivesShown
  <2>1. \/ \E l \in {"drives_shown", "drives_wait", "store", "call"} : modeMoves(l)
        \/ \E b \in BOOLEAN : unsafeModeSwitch(b)
    BY <1>10 DEF ModeDrivesWait, ModeDrivesShown, completeModeSwitch
  <2> QED
    BY <1>10, <2>1, ModeOutcomes DEF ModeDrivesWait, ModeDrivesShown, modeFrame, PcLabels
<1>11. CASE ModeRelease
  <2>1. FlagsKept
    BY <1>11, CallTypes DEF ModeRelease, FlagsKept
  <2> QED
    BY <1>1, <1>11, <2>1, CallStep, CallTypes DEF ModeRelease, modeFrame, PcLabels, Owners
<1>12. CASE ModeStore
  <2>1. FlagsKept
    BY <1>12, CallTypes DEF ModeStore, FlagsKept
  <2> QED
    BY <1>1, <1>12, <2>1, CallStep, CallTypes
       DEF ModeStore, modeFrame, PcLabels, ControlModes, target
<1>13. CASE ModeUnlock
  <2>1. FlagsKept
    BY <1>13, CallTypes DEF ModeUnlock, FlagsKept, Lower
  <2> QED
    BY <1>1, <1>13, <2>1, CallStep, CallTypes DEF ModeUnlock, modeFrame, PcLabels
<1>14. ASSUME NEW b \in BOOLEAN, convergeAfterUnsafeModeSwitch(b)
       PROVE  TypeOK' /\ CallFrame
  <2>1. FlagsKept
    BY <1>14, CallTypes DEF convergeAfterUnsafeModeSwitch, FlagsKept, Flags
  <2>2. "disable" \in Services
    BY DEF Services
  <2> QED
    BY <1>1, <1>14, <2>1, <2>2, CallStep, CallTypes
       DEF convergeAfterUnsafeModeSwitch, modeFrame, PcLabels, Owners, ControlModes
<1> QED
  BY <1>2, <1>3, <1>4, <1>5, <1>6, <1>7, <1>8, <1>9, <1>10, <1>11, <1>12, <1>13, <1>14
     DEF ModeService

(* Every step of the threads.                                              *)
LEMMA CallsStep ==
  ASSUME TypeOK, Calls
  PROVE  TypeOK' /\ CallFrame
<1>1. CASE MotionFaultReport
  <2>1. FlagsKept
    BY <1>1, CallTypes DEF MotionFaultReport, FlagsKept, Raise, Flags
  <2>2. TypeOK'
    BY <1>1, <2>1
       DEF MotionFaultReport, serviceFrame, TypeOK, FlagsKept, hwVars, cmdVars, rtVars, threadVars
  <2> QED
    BY <1>1, <2>1, <2>2 DEF MotionFaultReport, CallFrame, serviceFrame
<1> QED
  BY <1>1, EnableServiceStep, DisableServiceStep, ResetServiceStep, ModeServiceStep,
     WorkerStep DEF Calls

(* The hardware changes only what it shows.                                *)
HardwareFrame == hwFrame /\ dev_reset' \subseteq dev_reset

(* It keeps the types, and does so within that frame.                      *)
LEMMA HardwareStep ==
  ASSUME TypeOK, Hardware
  PROVE  TypeOK' /\ HardwareFrame
<1>1. ASSUME hwFrame, drive' \in [Axes -> DriveStates], mode' \in [Axes -> DriveModes],
             online' \in BOOLEAN, sources' \in BOOLEAN, dev' \in [Devices -> DevicePhases],
             dev_reset' \subseteq dev_reset
      PROVE  TypeOK' /\ HardwareFrame
  BY <1>1 DEF HardwareFrame, hwFrame, TypeOK, sharedVars, rtVars, threadVars
<1>2. /\ drive \in [Axes -> DriveStates] /\ mode \in [Axes -> DriveModes]
      /\ online \in BOOLEAN /\ sources \in BOOLEAN /\ dev \in [Devices -> DevicePhases]
  BY DEF TypeOK
<1>3. ASSUME NEW a \in Axes, DriveAnswers(a) \/ DriveDisturbed(a)
      PROVE  TypeOK' /\ HardwareFrame
  <2>1. Answers(drive[a], cw[a]) \subseteq DriveStates
    BY DEF Answers, DriveStates
  <2>2. drive' \in [Axes -> DriveStates]
    BY <1>2, <1>3, <2>1 DEF DriveAnswers, DriveDisturbed, DriveStates
  <2> QED
    BY <1>1, <1>2, <1>3, <2>2 DEF DriveAnswers, DriveDisturbed
<1>4. ASSUME NEW a \in Axes, DriveModeShown(a)
      PROVE  TypeOK' /\ HardwareFrame
  <2>1. mode_cmd \in DriveModes
    BY DEF TypeOK, DriveModes
  <2>2. mode' \in [Axes -> DriveModes]
    BY <1>2, <1>4, <2>1 DEF DriveModeShown, DriveModes
  <2> QED
    BY <1>1, <1>2, <1>4, <2>2 DEF DriveModeShown
<1>5. CASE LinkChanges \/ SourcesChange
  BY <1>1, <1>2, <1>5 DEF LinkChanges, SourcesChange
<1>6. ASSUME NEW d \in Devices, DeviceAnswers(d)
      PROVE  TypeOK' /\ HardwareFrame
  <2>1. dev' \in [Devices -> DevicePhases] /\ dev_reset' \subseteq dev_reset
    BY <1>2, <1>6 DEF DeviceAnswers, DeviceMoves, DevicePhases
  <2> QED
    BY <1>1, <1>2, <1>6, <2>1 DEF DeviceAnswers
<1> QED
  BY <1>3, <1>4, <1>5, <1>6 DEF Hardware
=============================================================================
