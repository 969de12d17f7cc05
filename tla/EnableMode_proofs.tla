-------------------------- MODULE EnableMode_proofs --------------------------
(***************************************************************************)
(* The control mode of the enable manager, for every group, any number of  *)
(* overlapping threads and any lifecycle: the velocity controller of an    *)
(* enabled chassis never runs over wheel drives that are told CSP, but for *)
(* a group that is already lost to a disable.  Four parties decide over    *)
(* it, none of which waits for the others: the cycle that writes the       *)
(* drives' modes, the enable and the mode threads that switch the          *)
(* controllers, and a disable or a worker that stops the group in the      *)
(* middle of either.                                                       *)
(***************************************************************************)
EXTENDS EnableManager_proofs

CspRequest == "drive_csp_requested"

(* Neither is CSP requested, nor are the drives told it.                   *)
NoCsp == CspRequest \notin flags /\ mode_cmd = "expected"

(* A wheel drive among B still shows CSP.                                  *)
ShowsCsp(B) == \E a \in B \cap ModeSwitchAxes : mode[a] = "csp"

(* The axes of the first n batches.                                        *)
FirstBatches(n) == UNION {Batches[i] : i \in 1..n}

Walking    == {"enabling", "inter_batch_delay"}

(* The labels between the decision to switch and the last look at the      *)
(* group, at which the invariant speaks of the mode thread.                *)
Switching == {"call", "confirm", "drives", "drives_wait", "drives_shown"}
USE DEF Switching

(* The mode thread is in the loop of switchDriveModes().                   *)
WaitsForDrives  == pc["mode"] \in {"drives_wait", "drives_shown"}
WaitsForCsp     == WaitsForDrives /\ switchedDrivesUseCsp(target)
WaitsForStartup == WaitsForDrives /\ ~switchedDrivesUseCsp(target)

(* A disable of the group is requested, or the mode thread is about to     *)
(* request it.                                                             *)
Doomed == pc["mode"] = "converge" \/ "disable_request" \in flags

(* The enable thread has made its controller switch.                       *)
EnableAnswered == pc["enable"] \in {"wait_result", "idle"}

-----------------------------------------------------------------------------
(* The inductive invariant, part by part                                   *)

(* Without drives that switch modes there is no request.                   *)
NoDrivesNoCsp == ModeSwitchAxes = {} => NoCsp

(* What is to be shown, and what it rests on: no request stands either.    *)
MotionWithoutCsp ==
  phase = "enabled" /\ controllers = "motion" => NoCsp \/ SwitchLost

(* A mode thread on its way to another controller set, or to the request,  *)
(* finds the drives of an enabled group not told CSP; one that waits for   *)
(* the drives to leave CSP has taken the request back.                     *)
SwitchWithoutCsp ==
  /\ /\ phase = "enabled"
     /\ \/ pc["mode"] \in {"call", "confirm"}
        \/ pc["mode"] = "drives" /\ switchedDrivesUseCsp(target)
     => NoCsp \/ "disable_request" \in flags
  /\ WaitsForStartup => CspRequest \notin flags

(* While the mode thread owns the state machine no enable thread reaches   *)
(* its controller switch, and so the controllers stay what they were found *)
(* to be.                                                                  *)
OwnerKeepsControllers ==
  owner = "mode" =>
    /\ pc["mode"] \in Switching => pc["enable"] \in {"idle", "cas", "wait_result"}
    /\ pc["mode"] = "drives" /\ switchedDrivesUseCsp(target) => controllers # "motion"

(* An enabled group has no enable thread before its controller switch.     *)
CommitAfterSwitch ==
  /\ phase \in Walking => "jtc_activated_request" \notin flags
  /\ phase = "jtc_activating" /\ "jtc_activated_request" \in flags => EnableAnswered
  /\ phase = "enabled" => EnableAnswered

(* While the group is enabled, what the drives are told or still show and  *)
(* what is requested differ only while the mode thread waits for them, or  *)
(* after it has given up.                                                  *)
CspFollowsRequest ==
  phase = "enabled" =>
    /\ CspRequest \notin flags /\ (mode_cmd = "csp" \/ ShowsCsp(Axes)) =>
         WaitsForStartup \/ Doomed
    /\ CspRequest \in flags /\ mode_cmd = "expected" =>
         (WaitsForCsp /\ ~ShowsCsp(Axes)) \/ Doomed
    /\ mode_cmd = "csp" /\ (\E a \in ModeSwitchAxes : mode[a] = "expected") =>
         (WaitsForCsp /\ CspRequest \in flags) \/ Doomed

(* The upward walk begins with no CSP told, and leaves no drive of a       *)
(* completed batch in it.                                                  *)
WalkShowsNoCsp ==
  /\ phase = "inter_batch_delay" =>
       "device_stage" \notin flags /\ ~ShowsCsp(FirstBatches(current_batch))
  /\ phase = "enabling" /\ "device_stage" \notin flags =>
       ~ShowsCsp(FirstBatches(current_batch - 1))
  /\ phase = "enabling" /\ "device_stage" \in flags => ~ShowsCsp(Axes)
  /\ phase = "jtc_activating" => ~ShowsCsp(Axes)

(* A mode thread may store its request late, into the walk: it then looks  *)
(* at the owner next, and gives the group up.                              *)
WalkWithoutCsp ==
  /\ WalkShowsNoCsp
  /\ phase \in Walking \cup {"jtc_activating"} =>
       /\ mode_cmd = "expected"
       /\ CspRequest \in flags => pc["mode"] = "drives_wait" \/ Doomed

ModeInv ==
  /\ NoDrivesNoCsp /\ MotionWithoutCsp /\ SwitchWithoutCsp /\ OwnerKeepsControllers
  /\ CommitAfterSwitch /\ CspFollowsRequest /\ WalkWithoutCsp

-----------------------------------------------------------------------------
(* What a cycle does                                                       *)

(* The flags a cycle leaves raised: it never raises the CSP request or the *)
(* report of an activation, and announces the hardware only from enabling. *)
CycleFlags(S) ==
  /\ S \in SUBSET Flags /\ writeDriveModes(S)
  /\ CspRequest \in S <=> CspRequest \in flags
  /\ "jtc_activated_request" \in S => "jtc_activated_request" \in flags
  /\ "enable_hardware_ready" \in S => "enable_hardware_ready" \in flags \/ phase = "enabling"

(* The flags of every action, as it gives them to writeDriveModes.         *)
LEMMA UpdateFlags ==
  ASSUME TypeOK, Update
  PROVE  \E S : CycleFlags(S)
<1> USE DEF CycleFlags, CspRequest
<1>1. /\ flags \in SUBSET Flags
      /\ preemptFlags \in SUBSET Flags /\ preemptFlags \subseteq flags \cup {"enable_preempt_requested"}
      /\ flags \subseteq preemptFlags
      /\ walkFlags \in SUBSET Flags /\ flags \subseteq walkFlags
      /\ walkFlags \subseteq flags \cup {"enable_preempt_requested", "state_sources_qualified"}
  BY DEF TypeOK, preemptFlags, walkFlags, Flags
<1>2. ASSUME NEW S \in SUBSET Flags, startEmergency(S),
             S \subseteq flags \cup {"enable_preempt_requested", "restart_required"},
             CspRequest \in flags => CspRequest \in S
      PROVE  \E T : CycleFlags(T)
  <2>1. S \cup {"emergency_jtc_deactivate_request"} \in SUBSET Flags
    BY DEF Flags
  <2> QED
    BY <1>2, <2>1 DEF startEmergency
<1>3. CASE MonitorTrips \/ EnableFaulted
  <2>1. flags \cup {"restart_required"} \in SUBSET Flags
    BY <1>1 DEF Flags
  <2> QED
    BY <1>1, <1>2, <1>3, <2>1 DEF MonitorTrips, EnableFaulted
<1>4. CASE EnableReverted \/ EnableSourcesLost \/ EnableDevicesFail \/ EnableBatchFail
  <2>1. failEnable
    BY <1>4 DEF EnableReverted, EnableSourcesLost, EnableDevicesFail, EnableBatchFail
  <2> QED
    BY <1>1, <2>1 DEF failEnable
<1>5. CASE StartupSanitizing \/ EmergencyQuickStop \/ RestIdly \/ ResetLow \/ ResetHigh
  BY <1>1, <1>5 DEF StartupSanitizing, EmergencyQuickStop, RestIdly, ResetLow, ResetHigh
<1>6. CASE Downward
  <2>1. flags \cup {"emergency_jtc_deactivate_request"} \in SUBSET Flags
    BY <1>1 DEF Flags
  <2> QED
    BY <1>1, <1>6, <2>1 DEF Downward, updateDownward
<1>7. CASE TakeReset \/ TakeDisable \/ ResetPreempted
  BY <1>1, <1>7 DEF TakeReset, TakeDisable, ResetPreempted
<1>8. CASE TakeEnable
  <2> DEFINE T == (flags \ {"enable_request", "enable_preempt_requested", "enable_hardware_ready",
                            "jtc_activated_request", "jtc_activate_failed_request",
                            "device_stage", "state_sources_qualified"})
                  \cup (IF Batches = <<>> THEN {"device_stage"} ELSE {})
                  \cup (IF HasReadySources THEN {} ELSE {"state_sources_qualified"})
  <2>1. /\ T \in SUBSET Flags
        /\ CspRequest \in T <=> CspRequest \in flags
        /\ "jtc_activated_request" \notin T /\ "enable_hardware_ready" \notin T
    BY <1>1 DEF Flags
  <2>2. writeDriveModes(flags \ {"enable_request"}) \/ writeDriveModes(T)
    BY <1>8 DEF TakeEnable
  <2> HIDE DEF T
  <2> QED
    BY <1>1, <2>1, <2>2
<1>9. CASE EnableSourcesWait
  BY <1>1, <1>9 DEF EnableSourcesWait
<1>10. ASSUME preemptedByDisable(walkFlags)
       PROVE  \E S : CycleFlags(S)
  BY <1>1, <1>10 DEF preemptedByDisable
<1>11. CASE EnableInterBatch
  BY <1>1, <1>10, <1>11 DEF EnableInterBatch
<1>12. CASE EnableDevices
  <2>1. phase = "enabling"
    BY <1>12 DEF EnableDevices, DeviceStage
  <2>2. (walkFlags \ {"device_stage"}) \cup {"enable_hardware_ready"} \in SUBSET Flags
    BY <1>1 DEF Flags
  <2> QED
    BY <1>1, <1>10, <1>12, <2>1, <2>2 DEF EnableDevices
<1>13. CASE EnableBatch
  <2>1. phase = "enabling"
    BY <1>13 DEF EnableBatch, BatchStage
  <2>2. /\ walkFlags \cup {"device_stage"} \in SUBSET Flags
        /\ walkFlags \cup {"enable_hardware_ready"} \in SUBSET Flags
    BY <1>1 DEF Flags
  <2> QED
    BY <1>1, <1>10, <1>13, <2>1, <2>2 DEF EnableBatch
<1>14. CASE JtcActivating \/ Hold
  BY <1>1, <1>14 DEF JtcActivating, Hold
<1> QED
  BY <1>3, <1>4, <1>5, <1>6, <1>7, <1>8, <1>9, <1>11, <1>12, <1>13, <1>14 DEF Update

(* Hence the drives are told CSP only by a cycle of an enabled group that  *)
(* samples the request, and a cycle that leaves another phase drops it.    *)
LEMMA CycleModes ==
  ASSUME TypeOK, NoDrivesNoCsp, Update
  PROVE  /\ phase' # "enabled" \/ NoCsp => NoCsp'
         /\ phase' = "enabled" => (CspRequest \in flags' <=> CspRequest \in flags)
         /\ phase' = "enabled" /\ ModeSwitchAxes # {} =>
              mode_cmd' = IF CspRequest \in flags THEN "csp" ELSE "expected"
         /\ CspRequest \in flags' => CspRequest \in flags
         /\ "jtc_activated_request" \in flags' => "jtc_activated_request" \in flags
         /\ UNCHANGED <<mode, controllers, pc, source>>
<1>1. PICK S : CycleFlags(S)
  BY UpdateFlags
<1>2. UNCHANGED <<mode, controllers, pc, source>>
  BY DEF Update, hwVars, threadVars
<1>3. flags' \subseteq S
  BY <1>1 DEF CycleFlags, writeDriveModes
<1>4. CASE ModeSwitchAxes = {}
  BY <1>1, <1>2, <1>3, <1>4 DEF CycleFlags, writeDriveModes, NoDrivesNoCsp, NoCsp
<1>5. CASE ModeSwitchAxes # {}
  BY <1>1, <1>2, <1>3, <1>5 DEF CycleFlags, writeDriveModes, NoCsp, CspRequest
<1> QED
  BY <1>4, <1>5

(* No cycle makes the mode thread the owner.                               *)
LEMMA CycleOwner ==
  ASSUME Update
  PROVE  owner' = "mode" => owner = "mode"
<1>1. ASSUME NEW S, startEmergency(S) \/ failEnable \/ preemptedByDisable(S)
      PROVE  owner' = "mode" => owner = "mode"
  BY <1>1 DEF startEmergency, failEnable, preemptedByDisable
<1>2. CASE \/ MonitorTrips \/ EnableFaulted \/ EnableReverted \/ EnableSourcesLost
           \/ EnableDevicesFail \/ EnableBatchFail
  BY <1>1, <1>2 DEF MonitorTrips, EnableFaulted, EnableReverted, EnableSourcesLost,
                    EnableDevicesFail, EnableBatchFail
<1>3. CASE EnableSourcesWait \/ EnableInterBatch \/ EnableDevices \/ EnableBatch
  BY <1>1, <1>3 DEF EnableSourcesWait, EnableInterBatch, EnableDevices, EnableBatch
<1>4. CASE \/ JtcActivating \/ Hold \/ StartupSanitizing \/ EmergencyQuickStop
           \/ ResetPreempted \/ ResetLow \/ ResetHigh
  BY <1>4 DEF JtcActivating, Hold, StartupSanitizing, EmergencyQuickStop, ResetPreempted,
              ResetLow, ResetHigh
<1>5. CASE RestIdly \/ TakeEnable \/ TakeReset \/ TakeDisable
  BY <1>5 DEF RestIdly, TakeEnable, TakeReset, TakeDisable, RestingFrame, rejectIfOffline
<1>6. CASE Downward
  BY <1>6 DEF Downward, updateDownward, finishDownward
<1> QED
  BY <1>2, <1>3, <1>4, <1>5, <1>6 DEF Update

(* Where a cycle moves the phase: an enabled group comes from the commit,  *)
(* which leaves a request to disable it standing, and a walk from idle.    *)
CyclePhase ==
  /\ phase' = "enabled" =>
       /\ "disable_request" \in flags => "disable_request" \in flags'
       /\ \/ phase = "enabled"
          \/ phase = "jtc_activating" /\ "jtc_activated_request" \in flags /\ owner' = "none"
  /\ phase' = "jtc_activating" => phase \in {"enabling", "jtc_activating"}
  /\ phase' \in Walking => phase \in Walking \/ "jtc_activated_request" \notin flags'
  /\ WalkShowsNoCsp'

(* Moving to a phase of which the invariant says nothing.                  *)
LEMMA PhaseOutside ==
  ASSUME phase' \notin Walking \cup {"enabled", "jtc_activating"}
  PROVE  CyclePhase
  BY DEF CyclePhase, WalkShowsNoCsp, Walking

(* An emergency, a failed enable and a preempting disable leave the walk.  *)
LEMMA PhaseStops ==
  /\ \A S : startEmergency(S) => CyclePhase
  /\ failEnable => CyclePhase
  /\ \A S : preemptedByDisable(S) => CyclePhase
<1>1. ASSUME NEW S, startEmergency(S)
      PROVE  CyclePhase
  <2>1. phase' \in {"emergency_quick_stop", "emergency_disable"}
    BY <1>1 DEF startEmergency, updateEmergencyQuickStop, startDownward
  <2> QED
    BY <2>1, PhaseOutside DEF Walking
<1>2. ASSUME failEnable
      PROVE  CyclePhase
  <2>1. phase' \in {"disabling", "rollback"}
    BY <1>2 DEF failEnable, EnterDownward
  <2> QED
    BY <2>1, PhaseOutside DEF Walking
<1>3. ASSUME NEW S, preemptedByDisable(S)
      PROVE  CyclePhase
  <2>1. phase' = "disabling"
    BY <1>3 DEF preemptedByDisable, startDownward
  <2> QED
    BY <2>1, PhaseOutside DEF Walking
<1> QED
  BY <1>1, <1>2, <1>3

(* The batches add up: the first n are those before n and n itself, and    *)
(* all of them are the axes.                                               *)
LEMMA BatchesAddUp ==
  /\ Len(Batches) \in Nat
  /\ FirstBatches(0) = {}
  /\ \A n \in 1..Len(Batches) : FirstBatches(n) = FirstBatches(n - 1) \cup Batches[n]
  /\ Axes \subseteq FirstBatches(Len(Batches))
<1>1. Len(Batches) \in Nat
  BY TopologyAssumption
<1>2. \A n \in 1..Len(Batches) : 1..n = 1..(n - 1) \cup {n}
  BY <1>1
<1>3. \A n \in 1..Len(Batches) : FirstBatches(n) = FirstBatches(n - 1) \cup Batches[n]
  BY <1>1, <1>2 DEF FirstBatches
<1>4. FirstBatches(0) = {}
  BY DEF FirstBatches
<1>5. Axes \subseteq FirstBatches(Len(Batches))
  BY <1>1, TopologyAssumption DEF FirstBatches
<1> QED
  BY <1>1, <1>3, <1>4, <1>5

(* A completed batch shows no CSP: its modes are confirmed.                *)
LEMMA CompleteShowsNoCsp ==
  ASSUME BatchComplete
  PROVE  ~ShowsCsp(current)
  BY OptionAssumption DEF BatchComplete, modeConfirmed, ShowsCsp

(* The walk's own cycles: each completed batch joins those that show none. *)
LEMMA WalkPhase ==
  ASSUME IInv, WalkShowsNoCsp, "active" \in flags,
         UNCHANGED <<hwVars, controllers, threadVars>>,
         \/ TakeEnable \/ EnableSourcesWait \/ EnableInterBatch
         \/ EnableDevices \/ EnableBatch
  PROVE  CyclePhase
<1>1. TypeOK /\ mode' = mode
  BY DEF IInv, hwVars
<1>2. /\ flags \in SUBSET Flags
      /\ preemptFlags \in SUBSET Flags /\ "active" \in preemptFlags
      /\ walkFlags \in SUBSET Flags /\ "active" \in walkFlags
      /\ "device_stage" \in preemptFlags <=> "device_stage" \in flags
      /\ "device_stage" \in walkFlags <=> "device_stage" \in flags
  BY <1>1 DEF TypeOK, preemptFlags, walkFlags, Flags
<1>3. \A B : ShowsCsp(B)' <=> ShowsCsp(B)
  BY <1>1 DEF ShowsCsp
<1>4. \A B : ~ShowsCsp(B) <=> \A a \in B \cap ModeSwitchAxes : mode[a] # "csp"
  BY DEF ShowsCsp
<1>5. CASE TakeEnable
  <2>1. CASE rejectIfOffline("enable") /\ writeDriveModes(flags \ {"enable_request"})
    BY <1>5, <2>1, PhaseOutside DEF TakeEnable, RestingFrame, rejectIfOffline, Walking
  <2>2. CASE ~(rejectIfOffline("enable") /\ writeDriveModes(flags \ {"enable_request"}))
    <3>1. phase' = "enabling" /\ current_batch' = 1
      BY <1>5, <2>2 DEF TakeEnable
    <3>2. PICK S \in SUBSET Flags :
            /\ writeDriveModes(S) /\ "active" \in S
            /\ "jtc_activated_request" \notin S
            /\ "device_stage" \in S => Batches = <<>>
      BY <1>2, <1>5, <2>2 DEF TakeEnable, Flags
    <3>3. "device_stage" \in flags' => Batches = <<>>
      BY <1>1, <3>2, FlagsWritten
    <3>4. "jtc_activated_request" \notin flags'
      BY <3>2 DEF writeDriveModes
    <3>5. Batches = <<>> => Axes = {}
      BY TopologyAssumption
    <3>6. ~ShowsCsp({}) /\ FirstBatches(current_batch' - 1) = {}
      BY <3>1, BatchesAddUp DEF ShowsCsp
    <3>7. WalkShowsNoCsp'
      BY <1>3, <3>1, <3>3, <3>5, <3>6 DEF WalkShowsNoCsp, FirstBatches
    <3> QED
      BY <3>1, <3>4, <3>7 DEF CyclePhase, Walking
  <2> QED
    BY <2>1, <2>2
<1>6. CASE EnableSourcesWait
  <2>1. "device_stage" \in flags' <=> "device_stage" \in flags
    BY <1>1, <1>2, <1>6, FlagsWritten DEF EnableSourcesWait
  <2>2. phase' = phase /\ current_batch' = current_batch /\ phase \in Walking
    BY <1>6 DEF EnableSourcesWait, Enabling, Walking
  <2>3. WalkShowsNoCsp'
    BY <1>3, <2>1, <2>2 DEF WalkShowsNoCsp, FirstBatches
  <2> QED
    BY <2>2, <2>3 DEF CyclePhase, Walking
<1>7. CASE preemptedByDisable(walkFlags)
  BY <1>7, PhaseStops
<1>8. CASE EnableInterBatch /\ ~preemptedByDisable(walkFlags)
  <2>1. /\ phase = "inter_batch_delay" /\ "device_stage" \notin flags
        /\ ~ShowsCsp(FirstBatches(current_batch))
    BY <1>8 DEF EnableInterBatch, WalkShowsNoCsp
  <2>2. current_batch \in 1..(Len(Batches) - 1) /\ Len(Batches) \in Nat
    BY <2>1, BatchesAddUp DEF IInv, BatchIndex
  <2>3. \/ phase' = "enabling" /\ current_batch' = current_batch + 1
        \/ phase' = "inter_batch_delay" /\ current_batch' = current_batch
    BY <1>8, <2>1 DEF EnableInterBatch
  <2>4. "device_stage" \notin flags'
    BY <1>1, <1>2, <1>8, <2>1, FlagsWritten DEF EnableInterBatch
  <2>5. current_batch' = current_batch + 1 => current_batch' - 1 = current_batch
    BY <2>2
  <2>6. WalkShowsNoCsp'
    BY <1>3, <2>1, <2>3, <2>4, <2>5 DEF WalkShowsNoCsp, FirstBatches
  <2> QED
    BY <2>1, <2>3, <2>6 DEF CyclePhase, Walking
<1>9. CASE EnableDevices /\ ~preemptedByDisable(walkFlags)
  <2>1. phase = "enabling" /\ "device_stage" \in flags /\ ~ShowsCsp(Axes)
    BY <1>9 DEF EnableDevices, DeviceStage, WalkShowsNoCsp
  <2>2. CASE allDevicesEnabled
    <3>1. phase' = "jtc_activating"
      BY <1>9, <2>2 DEF EnableDevices
    <3> QED
      BY <1>3, <2>1, <3>1 DEF CyclePhase, WalkShowsNoCsp, Walking
  <2>3. CASE ~allDevicesEnabled
    <3>1. phase' = "enabling" /\ writeDriveModes(walkFlags)
      BY <1>9, <2>1, <2>3 DEF EnableDevices
    <3>2. "device_stage" \in flags'
      BY <1>1, <1>2, <2>1, <3>1, FlagsWritten
    <3> QED
      BY <1>3, <2>1, <3>1, <3>2 DEF CyclePhase, WalkShowsNoCsp, Walking
  <2> QED
    BY <2>2, <2>3
<1>10. CASE EnableBatch /\ ~preemptedByDisable(walkFlags)
  <2>1. /\ phase = "enabling" /\ "device_stage" \notin flags
        /\ ~ShowsCsp(FirstBatches(current_batch - 1))
    BY <1>10 DEF EnableBatch, BatchStage, WalkShowsNoCsp
  <2>2. current_batch \in 1..Len(Batches)
    BY <2>1 DEF IInv, BatchIndex
  <2>3. current_batch' = current_batch
    BY <1>10 DEF EnableBatch
  <2>4. BatchComplete => ~ShowsCsp(FirstBatches(current_batch))
    BY <1>4, <2>1, <2>2, BatchesAddUp, CompleteShowsNoCsp DEF current
  <2>5. BatchComplete /\ lastBatch => ~ShowsCsp(Axes)
    BY <1>4, <2>4, BatchesAddUp DEF lastBatch
  <2>6. CASE ~BatchComplete
    <3>1. phase' = "enabling" /\ writeDriveModes(walkFlags)
      BY <1>10, <2>1, <2>6 DEF EnableBatch
    <3>2. "device_stage" \notin flags'
      BY <1>1, <1>2, <2>1, <3>1, FlagsWritten
    <3> QED
      BY <1>3, <2>1, <2>3, <3>1, <3>2
         DEF CyclePhase, WalkShowsNoCsp, Walking, FirstBatches
  <2>7. CASE BatchComplete /\ ~lastBatch
    <3>1. phase' = "inter_batch_delay" /\ writeDriveModes(walkFlags)
      BY <1>10, <2>7 DEF EnableBatch
    <3>2. "device_stage" \notin flags'
      BY <1>1, <1>2, <2>1, <3>1, FlagsWritten
    <3> QED
      BY <1>3, <2>1, <2>3, <2>4, <2>7, <3>1, <3>2
         DEF CyclePhase, WalkShowsNoCsp, Walking, FirstBatches
  <2>8. CASE BatchComplete /\ lastBatch
    <3>1. \/ phase' = "jtc_activating"
          \/ phase' = "enabling" /\ writeDriveModes(walkFlags \cup {"device_stage"})
      BY <1>10, <2>1, <2>8 DEF EnableBatch
    <3>2. walkFlags \cup {"device_stage"} \in SUBSET Flags
      BY <1>2 DEF Flags
    <3>3. phase' = "enabling" => "device_stage" \in flags'
      BY <1>1, <1>2, <3>1, <3>2, FlagsWritten
    <3> QED
      BY <1>3, <2>1, <2>5, <2>8, <3>1, <3>3
         DEF CyclePhase, WalkShowsNoCsp, Walking
  <2> QED
    BY <2>6, <2>7, <2>8
<1> QED
  BY <1>5, <1>6, <1>7, <1>8, <1>9, <1>10

(* Every cycle of update() moves so, action by action.                     *)
LEMMA UpdatePhase ==
  ASSUME IInv, WalkShowsNoCsp, Update
  PROVE  CyclePhase
<1>1. TypeOK /\ "active" \in flags /\ UNCHANGED <<hwVars, controllers, threadVars>>
  BY DEF IInv, Update
<1>2. CASE MonitorTrips \/ EnableFaulted
  BY <1>2, PhaseStops DEF MonitorTrips, EnableFaulted
<1>3. CASE EnableReverted \/ EnableSourcesLost \/ EnableDevicesFail \/ EnableBatchFail
  BY <1>3, PhaseStops DEF EnableReverted, EnableSourcesLost, EnableDevicesFail, EnableBatchFail
<1>4. CASE StartupSanitizing \/ EmergencyQuickStop
  <2>1. phase' \in {"startup_sanitizing", "emergency_quick_stop", "emergency_disable"}
    BY <1>4 DEF StartupSanitizing, EnterDownward, EmergencyQuickStop,
                updateEmergencyQuickStop, startDownward
  <2> QED
    BY <2>1, PhaseOutside DEF Walking
<1>5. CASE Downward
  <2>1. phase \in {"startup_sanitizing", "disabling", "rollback", "reset_disabling",
                   "emergency_disable"}
    BY <1>5 DEF Downward
  <2>2. phase' \in {phase, "idle", "failed", "emergency_quick_stop"}
    BY <1>5 DEF Downward, updateDownward, finishDownward
  <2> QED
    BY <2>1, <2>2, PhaseOutside DEF Walking
<1>6. CASE RestIdly \/ TakeReset \/ ResetLow \/ ResetHigh
  <2>1. phase' \in {"idle", "failed", "reset_low", "reset_high", "reset_disabling"}
    BY <1>6 DEF RestIdly, TakeReset, ResetLow, ResetHigh, Resting, RestingFrame,
                rejectIfOffline, startDownward
  <2> QED
    BY <2>1, PhaseOutside DEF Walking
<1>7. CASE TakeDisable \/ ResetPreempted
  <2>1. phase' \in {"disabling", "idle", "failed"}
    BY <1>7 DEF TakeDisable, ResetPreempted, Resting, RestingFrame, startDownward
  <2> QED
    BY <2>1, PhaseOutside DEF Walking
<1>8. CASE \/ TakeEnable \/ EnableSourcesWait \/ EnableInterBatch
           \/ EnableDevices \/ EnableBatch
  BY <1>1, <1>8, WalkPhase
<1>9. CASE JtcActivating
  <2>1. phase = "jtc_activating" /\ phase' \in {"rollback", "enabled", "jtc_activating"}
    BY <1>9 DEF JtcActivating, startDownward
  <2>2. phase' = "enabled" =>
          /\ "jtc_activated_request" \in flags /\ owner' = "none"
          /\ writeDriveModes(flags \ {"jtc_activated_request"})
    BY <1>9 DEF JtcActivating, startDownward
  <2>3. phase' = "enabled" /\ "disable_request" \in flags => "disable_request" \in flags'
    BY <2>2 DEF writeDriveModes
  <2>4. mode' = mode
    BY <1>1 DEF hwVars
  <2> QED
    BY <2>1, <2>2, <2>3, <2>4 DEF CyclePhase, WalkShowsNoCsp, ShowsCsp, Walking
<1>10. CASE Hold
  <2>1. \/ phase' = "disabling"
        \/ /\ phase \in {"enabled", "jtc_deactivating"} /\ phase' = phase
           /\ "disable_request" \notin flags
    BY <1>10 DEF Hold, startDownward
  <2> QED
    BY <2>1 DEF CyclePhase, WalkShowsNoCsp, Walking
<1> QED
  BY <1>2, <1>3, <1>4, <1>5, <1>6, <1>7, <1>8, <1>9, <1>10 DEF Update

(* A cycle keeps the invariant.                                            *)
LEMMA UpdateMode ==
  ASSUME IInv, ModeInv, Update
  PROVE  ModeInv'
<1> USE DEF ModeInv
<1>1. TypeOK
  BY DEF IInv
<1>2. CyclePhase /\ (owner' = "mode" => owner = "mode")
  BY UpdatePhase, CycleOwner DEF WalkWithoutCsp
<1>3. /\ phase' # "enabled" \/ NoCsp => NoCsp'
      /\ phase' = "enabled" => (CspRequest \in flags' <=> CspRequest \in flags)
      /\ phase' = "enabled" /\ ModeSwitchAxes # {} =>
           mode_cmd' = IF CspRequest \in flags THEN "csp" ELSE "expected"
      /\ CspRequest \in flags' => CspRequest \in flags
      /\ "jtc_activated_request" \in flags' => "jtc_activated_request" \in flags
      /\ UNCHANGED <<mode, controllers, pc, source>>
  BY <1>1, CycleModes
<1>4. NoDrivesNoCsp'
  BY <1>3 DEF NoDrivesNoCsp
<1>5. /\ WaitsForCsp' <=> WaitsForCsp
      /\ WaitsForStartup' <=> WaitsForStartup
      /\ switchedDrivesUseCsp(target)' <=> switchedDrivesUseCsp(target)
      /\ phase' = "enabled" /\ Doomed => Doomed'
  BY <1>2, <1>3 DEF CyclePhase, WaitsForCsp, WaitsForStartup, WaitsForDrives,
                    switchedDrivesUseCsp, target, Doomed
(* A group that is enabled now was so before, or has just been committed.  *)
<1>6. CASE phase' = "enabled" /\ phase = "jtc_activating"
  <2>1. /\ owner' = "none" /\ ~ShowsCsp(Axes)' /\ mode_cmd = "expected"
        /\ CspRequest \in flags => pc["mode"] = "drives_wait" \/ Doomed
        /\ "jtc_activated_request" \in flags /\ EnableAnswered
    BY <1>2, <1>3, <1>6
       DEF CyclePhase, WalkWithoutCsp, WalkShowsNoCsp, ShowsCsp, CommitAfterSwitch
  <2>2. ~NoCsp' => CspRequest \in flags /\ ModeSwitchAxes # {}
    BY <1>3, <1>4, <2>1 DEF NoCsp, NoDrivesNoCsp
  <2>3. CspRequest \in flags => (pc["mode"] = "drives_wait" /\ WaitsForCsp) \/ Doomed
    BY <2>1 DEF SwitchWithoutCsp, WaitsForDrives, WaitsForCsp, WaitsForStartup
  <2>4. MotionWithoutCsp'
    BY <1>3, <1>5, <2>1, <2>2 DEF MotionWithoutCsp, SwitchLost, Doomed
  <2>5. SwitchWithoutCsp'
    BY <1>2, <1>3, <1>5, <1>6, <2>1, <2>2 DEF SwitchWithoutCsp, Doomed, CyclePhase
  <2>6. OwnerKeepsControllers' /\ CommitAfterSwitch' /\ WalkWithoutCsp'
    BY <1>2, <1>3, <1>6, <2>1
       DEF OwnerKeepsControllers, CommitAfterSwitch, EnableAnswered, WalkWithoutCsp, CyclePhase,
           Walking
  <2>7. CspFollowsRequest'
    <3>1. CspRequest \notin flags' => mode_cmd' = "expected"
      BY <1>3, <2>2 DEF NoCsp
    <3>2. CspRequest \in flags' => mode_cmd' = "csp" /\ (WaitsForCsp' \/ Doomed')
      BY <1>3, <1>4, <1>5, <1>6, <2>3 DEF NoCsp, NoDrivesNoCsp
    <3> QED
      BY <2>1, <3>1, <3>2 DEF CspFollowsRequest
  <2> QED
    BY <1>4, <2>4, <2>5, <2>6, <2>7
<1>7. CASE phase' = "enabled" /\ phase = "enabled"
  <2>1. ShowsCsp(Axes)' <=> ShowsCsp(Axes)
    BY <1>3 DEF ShowsCsp
  <2>2. MotionWithoutCsp'
    BY <1>2, <1>3, <1>5, <1>7 DEF MotionWithoutCsp, SwitchLost, Doomed
  <2>3. SwitchWithoutCsp'
    BY <1>2, <1>3, <1>5, <1>7 DEF SwitchWithoutCsp, CyclePhase
  <2>4. OwnerKeepsControllers' /\ CommitAfterSwitch' /\ WalkWithoutCsp'
    BY <1>2, <1>3, <1>5, <1>7
       DEF OwnerKeepsControllers, CommitAfterSwitch, EnableAnswered, WalkWithoutCsp, CyclePhase,
           Walking
  <2>5. ModeSwitchAxes = {} => CspFollowsRequest'
    BY <1>4 DEF NoDrivesNoCsp, NoCsp, CspFollowsRequest, ShowsCsp
  <2>6. ModeSwitchAxes # {} => CspFollowsRequest'
    <3>1. mode_cmd \in {"csp", "expected"}
      BY <1>1 DEF TypeOK
    <3> QED
      BY <1>3, <1>5, <1>7, <2>1, <3>1 DEF CspFollowsRequest
  <2> QED
    BY <1>4, <2>2, <2>3, <2>4, <2>5, <2>6
<1>8. CASE phase' # "enabled"
  <2>1. NoCsp'
    BY <1>3, <1>8
  <2>2. MotionWithoutCsp' /\ SwitchWithoutCsp' /\ CspFollowsRequest'
    BY <1>8, <2>1 DEF MotionWithoutCsp, SwitchWithoutCsp, CspFollowsRequest, NoCsp
  <2>3. OwnerKeepsControllers' /\ CommitAfterSwitch' /\ WalkWithoutCsp'
    BY <1>2, <1>3, <1>5, <1>8, <2>1
       DEF OwnerKeepsControllers, CommitAfterSwitch, EnableAnswered, WalkWithoutCsp, CyclePhase,
           Walking, NoCsp
  <2> QED
    BY <1>4, <2>2, <2>3
<1> QED
  BY <1>2, <1>6, <1>7, <1>8 DEF CyclePhase

-----------------------------------------------------------------------------
(* What the threads do                                                     *)

(* The flags that the enable thread, the mode thread and a cycle tell each *)
(* other of the controllers and the modes.                                 *)
ModeFlags ==
  {"drive_csp_requested", "jtc_activated_request", "enable_hardware_ready", "device_stage"}

(* A step that is neither the enable's nor the mode's: it may stop the     *)
(* group, take its controllers down and ask for a disable.                 *)
StopFrame ==
  /\ UNCHANGED <<hwVars, cmdVars, rtVars, source>>
  /\ phase' \in {phase, "jtc_deactivating"}
  /\ owner' = "mode" => owner = "mode"
  /\ controllers' \in {controllers, "disabled"}
  /\ "disable_request" \in flags => "disable_request" \in flags'
  /\ pc'["enable"] = pc["enable"] /\ pc'["mode"] = pc["mode"]
  /\ \A f \in ModeFlags : f \in flags' <=> f \in flags

(* Such a step keeps the invariant.                                        *)
LEMMA StopFrameMode ==
  ASSUME ModeInv, StopFrame
  PROVE  ModeInv'
<1> USE DEF ModeInv
<1>1. /\ CspRequest \in flags' <=> CspRequest \in flags
      /\ "jtc_activated_request" \in flags' <=> "jtc_activated_request" \in flags
      /\ "enable_hardware_ready" \in flags' <=> "enable_hardware_ready" \in flags
      /\ "device_stage" \in flags' <=> "device_stage" \in flags
  BY DEF StopFrame, ModeFlags, CspRequest
<1>2. mode' = mode /\ mode_cmd' = mode_cmd /\ current_batch' = current_batch
  BY DEF StopFrame, hwVars, cmdVars, rtVars
<1>3. /\ NoCsp' <=> NoCsp
      /\ \A B : ShowsCsp(B)' <=> ShowsCsp(B)
      /\ switchedDrivesUseCsp(target)' <=> switchedDrivesUseCsp(target)
  BY <1>1, <1>2 DEF StopFrame, NoCsp, ShowsCsp, switchedDrivesUseCsp, target
<1>4. /\ WaitsForCsp' <=> WaitsForCsp
      /\ WaitsForStartup' <=> WaitsForStartup
      /\ Doomed => Doomed'
      /\ SwitchLost => SwitchLost'
  BY <1>3 DEF StopFrame, WaitsForCsp, WaitsForStartup, WaitsForDrives, Doomed, SwitchLost
<1>5. NoDrivesNoCsp' /\ MotionWithoutCsp' /\ SwitchWithoutCsp' /\ CommitAfterSwitch'
  BY <1>1, <1>3, <1>4 DEF StopFrame, NoDrivesNoCsp, MotionWithoutCsp, SwitchWithoutCsp,
                          CommitAfterSwitch, EnableAnswered, Walking
<1>6. OwnerKeepsControllers'
  BY <1>3 DEF StopFrame, OwnerKeepsControllers
<1>7. CspFollowsRequest'
  BY <1>1, <1>2, <1>3, <1>4 DEF StopFrame, CspFollowsRequest
<1>8. WalkWithoutCsp'
  BY <1>1, <1>2, <1>3, <1>4
     DEF StopFrame, WalkWithoutCsp, WalkShowsNoCsp, Walking, FirstBatches
<1> QED
  BY <1>5, <1>6, <1>7, <1>8

(* A thread that moves on leaves the other threads where they are.         *)
LEMMA OthersStay ==
  ASSUME TypeOK, NEW t \in Threads, NEW l, Goto(t, l)
  PROVE  /\ pc'[t] = l
         /\ \A u \in Threads : u # t => pc'[u] = pc[u]
  BY DEF Goto, TypeOK

(* The controller switch of a stopping thread.                             *)
LEMMA StopSwitches ==
  ASSUME TypeOK, NEW t \in Threads, t # "enable", t # "mode",
         NEW begin, NEW call, NEW after,
         \/ switchBegin(t, begin, call, after)
         \/ switchCall(t, call, after, "disabled")
  PROVE  StopFrame
<1>1. "enable" \in Threads /\ "mode" \in Threads
  BY DEF Threads, Services
<1>2. \E l : Goto(t, l)
  BY DEF switchBegin, switchCall
<1>3. pc'["enable"] = pc["enable"] /\ pc'["mode"] = pc["mode"]
  BY <1>1, <1>2, OthersStay
<1>4. CASE switchBegin(t, begin, call, after)
  <2>1. flags' = flags \/ flags' = flags \cup {"switch_in_progress"}
    BY <1>4 DEF switchBegin, Raise
  <2> QED
    BY <1>3, <1>4, <2>1 DEF switchBegin, StopFrame, serviceFrame, ModeFlags
<1>5. CASE switchCall(t, call, after, "disabled")
  <2>1. flags' = flags \ {"switch_in_progress"} /\ controllers' \in {controllers, "disabled"}
    BY <1>5 DEF switchCall, Lower
  <2> QED
    BY <1>3, <1>5, <2>1 DEF switchCall, StopFrame, serviceFrame, ModeFlags
<1> QED
  BY <1>4, <1>5

(* The threads of /rt/disable and /rt/reset_fault, the worker and the      *)
(* motion fault subscription only stop.                                    *)
LEMMA StoppingThreads ==
  ASSUME TypeOK,
         DisableService \/ ResetService \/ MotionFaultReport \/ (\E w \in Workers : Worker(w))
  PROVE  StopFrame
<1>1. {"enable", "disable", "reset", "mode"} \subseteq Threads /\ Workers \subseteq Threads
  BY DEF Threads, Services
<1>2. \A w \in Workers : w # "enable" /\ w # "mode"
  BY ThreadAssumption
<1>3. ASSUME NEW t \in Threads, t # "enable", t # "mode", NEW l, Goto(t, l)
      PROVE  pc'["enable"] = pc["enable"] /\ pc'["mode"] = pc["mode"]
  BY <1>1, <1>3, OthersStay
<1>4. CASE MotionFaultReport
  BY <1>4 DEF MotionFaultReport, serviceFrame, threadVars, Raise, StopFrame, ModeFlags
<1>5. CASE ResetService
  <2>1. \E l : Goto("reset", l)
    BY <1>5 DEF ResetService, ResetEnter, ResetCas, waitForResult
  <2>2. pc'["enable"] = pc["enable"] /\ pc'["mode"] = pc["mode"]
    BY <1>1, <1>3, <2>1
  <2>3. flags' = flags \/ flags' = flags \cup {"reset_request"}
    BY <1>5 DEF ResetService, ResetEnter, ResetCas, waitForResult, sharedVars, Raise
  <2> QED
    BY <1>5, <2>2, <2>3 DEF ResetService, ResetEnter, ResetCas, waitForResult, sharedVars,
                            serviceFrame, StopFrame, ModeFlags
<1>6. CASE DisableService
  <2>1. CASE DisableSwitch
    BY <1>1, <2>1, StopSwitches DEF DisableSwitch
  <2>2. CASE waitForResult("disable") \/ DisableCas
    <3>1. pc'["enable"] = pc["enable"] /\ pc'["mode"] = pc["mode"]
      BY <1>1, <1>3, <2>2 DEF waitForResult, DisableCas
    <3> QED
      BY <2>2, <3>1 DEF waitForResult, DisableCas, sharedVars, serviceFrame, StopFrame
  <2>3. CASE DisableEnter
    <3>1. pc'["enable"] = pc["enable"] /\ pc'["mode"] = pc["mode"]
      BY <1>1, <1>3, <2>3 DEF DisableEnter
    <3>2. /\ \A f \in ModeFlags : f \in flags' <=> f \in flags
          /\ "disable_request" \in flags => "disable_request" \in flags'
      BY <2>3 DEF DisableEnter, Raise, ModeFlags
    <3> QED
      BY <2>3, <3>1, <3>2 DEF DisableEnter, serviceFrame, StopFrame
  <2>4. CASE DisableModeWait
    <3>1. pc'["enable"] = pc["enable"] /\ pc'["mode"] = pc["mode"]
      BY <1>1, <1>3, <2>4 DEF DisableModeWait
    <3>2. /\ \A f \in ModeFlags : f \in flags' <=> f \in flags
          /\ "disable_request" \in flags => "disable_request" \in flags'
      BY <2>4 DEF DisableModeWait, Raise, ModeFlags
    <3> QED
      BY <2>4, <3>1, <3>2 DEF DisableModeWait, serviceFrame, StopFrame
  <2>5. CASE DisableBegin
    <3>1. pc'["enable"] = pc["enable"] /\ pc'["mode"] = pc["mode"]
      BY <1>1, <1>3, <2>5 DEF DisableBegin
    <3>2. /\ \A f \in ModeFlags : f \in flags' <=> f \in flags
          /\ "disable_request" \in flags => "disable_request" \in flags'
      BY <2>5 DEF DisableBegin, Lower, ModeFlags
    <3> QED
      BY <2>5, <3>1, <3>2 DEF DisableBegin, serviceFrame, StopFrame
  <2>6. CASE DisableAfterSwitch
    <3>1. pc'["enable"] = pc["enable"] /\ pc'["mode"] = pc["mode"]
      BY <1>1, <1>3, <2>6 DEF DisableAfterSwitch
    <3>2. /\ \A f \in ModeFlags : f \in flags' <=> f \in flags
          /\ "disable_request" \in flags => "disable_request" \in flags'
      BY <2>6 DEF DisableAfterSwitch, deactivated, ModeFlags
    <3> QED
      BY <2>6, <3>1, <3>2 DEF DisableAfterSwitch, serviceFrame, StopFrame
  <2> QED
    BY <1>6, <2>1, <2>2, <2>3, <2>4, <2>5, <2>6 DEF DisableService
<1>7. ASSUME NEW w \in Workers, Worker(w)
      PROVE  StopFrame
  <2>1. w \in Threads /\ w # "enable" /\ w # "mode"
    BY <1>1, <1>2
  <2>2. CASE MotionFaultSwitch(w) \/ FaultStopSwitch(w)
    BY <2>1, <2>2, StopSwitches DEF MotionFaultSwitch, FaultStopSwitch
  <2>3. CASE WorkerTick(w) \/ MotionFaultCas(w) \/ MotionFaultBegin(w)
             \/ MotionFaultAfterSwitch(w) \/ FaultStop(w) \/ FaultStopAfterSwitch(w)
    <3>1. \E l : Goto(w, l)
      BY <2>3 DEF WorkerTick, MotionFaultCas, MotionFaultBegin, MotionFaultAfterSwitch,
                  FaultStop, FaultStopAfterSwitch
    <3>2. pc'["enable"] = pc["enable"] /\ pc'["mode"] = pc["mode"]
      BY <1>3, <2>1, <3>1
    <3>3. /\ \A f \in ModeFlags : f \in flags' <=> f \in flags
          /\ "disable_request" \in flags => "disable_request" \in flags'
      BY <2>3 DEF WorkerTick, MotionFaultCas, MotionFaultBegin, MotionFaultAfterSwitch,
                  FaultStop, FaultStopAfterSwitch, deactivated, Raise, Lower, ModeFlags
    <3> QED
      BY <2>3, <3>2, <3>3
         DEF WorkerTick, MotionFaultCas, MotionFaultBegin, MotionFaultAfterSwitch, FaultStop,
             FaultStopAfterSwitch, serviceFrame, StopFrame
  <2> QED
    BY <1>7, <2>2, <2>3 DEF Worker
<1> QED
  BY <1>4, <1>5, <1>6, <1>7

(* What the enable thread leaves alone: the drives, the phase, a request   *)
(* to disable the group, and the mode thread with its request.             *)
EnableFrame ==
  /\ UNCHANGED <<hwVars, cmdVars, rtVars, phase, source>>
  /\ owner' = "mode" => owner = "mode"
  /\ pc'["mode"] = pc["mode"]
  /\ \A f \in {"drive_csp_requested", "device_stage", "disable_request"} :
       f \in flags' <=> f \in flags

(* It is then enough to know where it stands and what it tells the cycle,  *)
(* and that it switches the controllers of no enabled group.               *)
LEMMA EnableFrameMode ==
  ASSUME ModeInv, EnableFrame,
         controllers' = controllers \/ phase # "enabled",
         OwnerKeepsControllers', CommitAfterSwitch'
  PROVE  ModeInv'
<1> USE DEF ModeInv
<1>1. /\ CspRequest \in flags' <=> CspRequest \in flags
      /\ "device_stage" \in flags' <=> "device_stage" \in flags
      /\ "disable_request" \in flags' <=> "disable_request" \in flags
  BY DEF EnableFrame, CspRequest
<1>2. /\ mode' = mode /\ mode_cmd' = mode_cmd /\ current_batch' = current_batch
      /\ phase' = phase /\ pc'["mode"] = pc["mode"] /\ source' = source
      /\ owner' = "mode" => owner = "mode"
  BY DEF EnableFrame, hwVars, cmdVars, rtVars
<1>3. /\ NoCsp' <=> NoCsp
      /\ \A B : ShowsCsp(B)' <=> ShowsCsp(B)
      /\ switchedDrivesUseCsp(target)' <=> switchedDrivesUseCsp(target)
  BY <1>1, <1>2 DEF NoCsp, ShowsCsp, switchedDrivesUseCsp, target
<1>4. /\ WaitsForCsp' <=> WaitsForCsp
      /\ WaitsForStartup' <=> WaitsForStartup
      /\ Doomed' <=> Doomed
      /\ SwitchLost => SwitchLost'
  BY <1>1, <1>2, <1>3 DEF WaitsForCsp, WaitsForStartup, WaitsForDrives, Doomed, SwitchLost
<1>5. NoDrivesNoCsp' /\ MotionWithoutCsp' /\ SwitchWithoutCsp'
  BY <1>1, <1>2, <1>3, <1>4 DEF NoDrivesNoCsp, MotionWithoutCsp, SwitchWithoutCsp
<1>6. CspFollowsRequest'
  BY <1>1, <1>2, <1>3, <1>4 DEF CspFollowsRequest
<1>7. WalkWithoutCsp'
  BY <1>1, <1>2, <1>3, <1>4 DEF WalkWithoutCsp, WalkShowsNoCsp, FirstBatches
<1> QED
  BY <1>5, <1>6, <1>7

(* The thread of /rt/enable keeps the invariant: it activates the velocity *)
(* controller of a group that is not enabled before it has done so, and    *)
(* not while the mode thread owns the state machine.                       *)
LEMMA EnableMode ==
  ASSUME TypeOK, ModeInv, EnableService
  PROVE  ModeInv'
<1>1. "enable" \in Threads /\ "mode" \in Threads
  BY DEF Threads, Services
<1>2. \E l : Goto("enable", l)
  BY DEF EnableService, EnableEnter, EnableCas, EnableWaitHardware, EnableSwitch, switchBegin,
         switchCall, EnableAfterSwitch, waitForResult
<1>3. pc'["mode"] = pc["mode"]
  BY <1>1, <1>2, OthersStay
<1>4. \A f \in {"drive_csp_requested", "device_stage", "disable_request"} :
        f \in flags' <=> f \in flags
  BY DEF EnableService, EnableEnter, EnableCas, EnableWaitHardware, EnableSwitch, switchBegin,
         switchCall, EnableAfterSwitch, waitForResult, sharedVars, Raise, Lower
<1>5. EnableFrame
  BY <1>3, <1>4
     DEF EnableFrame, EnableService, EnableEnter, EnableCas, EnableWaitHardware, EnableSwitch,
         switchBegin, switchCall, EnableAfterSwitch, waitForResult, sharedVars, serviceFrame
<1>6. /\ phase' = phase /\ (owner' = "mode" => owner = "mode")
      /\ switchedDrivesUseCsp(target)' <=> switchedDrivesUseCsp(target)
  BY <1>5 DEF EnableFrame, switchedDrivesUseCsp, target
<1>7. OwnerKeepsControllers /\ CommitAfterSwitch
  BY DEF ModeInv
<1> USE DEF EnableAnswered
(* Outside its controller switch it is enough where it goes.               *)
<1>8. ASSUME UNCHANGED controllers,
             owner' = "mode" /\ pc["enable"] \in {"idle", "cas", "wait_result"} =>
               pc'["enable"] \in {"idle", "cas", "wait_result"},
             CommitAfterSwitch'
      PROVE  ModeInv'
  <2>1. OwnerKeepsControllers'
    BY <1>3, <1>6, <1>7, <1>8 DEF OwnerKeepsControllers
  <2> QED
    BY <1>5, <1>8, <2>1, EnableFrameMode
<1>9. CASE EnableEnter
  <2>1. phase = "idle" /\ pc'["enable"] = "cas" /\ UNCHANGED <<controllers, flags>>
    BY <1>1, <1>9, OthersStay DEF EnableEnter, sharedVars
  <2>2. CommitAfterSwitch'
    BY <1>6, <2>1 DEF CommitAfterSwitch, Walking
  <2> QED
    BY <1>8, <2>1, <2>2
<1>10. CASE EnableCas
  <2>1. pc["enable"] = "cas" /\ UNCHANGED controllers
    BY <1>10 DEF EnableCas
  <2>2. \/ pc'["enable"] = "idle" /\ flags' = flags
        \/ /\ pc'["enable"] = "wait_hardware" /\ owner' = "enable"
           /\ flags' = (flags \ {"enable_hardware_ready"}) \cup {"enable_request"}
    BY <1>1, <1>10, OthersStay DEF EnableCas
  <2>3. "jtc_activated_request" \in flags' <=> "jtc_activated_request" \in flags
    BY <2>2
  <2>4. CommitAfterSwitch'
    BY <1>6, <1>7, <2>1, <2>2, <2>3 DEF CommitAfterSwitch
  <2> QED
    BY <1>8, <2>1, <2>2, <2>4
<1>11. CASE EnableWaitHardware
  <2>1. pc["enable"] = "wait_hardware" /\ UNCHANGED controllers
    BY <1>11 DEF EnableWaitHardware
  <2>2. \/ pc'["enable"] = "idle" /\ flags' = flags
        \/ pc'["enable"] = "switch" /\ flags' = flags \cup {"jtc_deactivation_required"}
    BY <1>1, <1>11, OthersStay DEF EnableWaitHardware, Raise
  <2>3. "jtc_activated_request" \in flags' <=> "jtc_activated_request" \in flags
    BY <2>2
  <2>4. CommitAfterSwitch'
    BY <1>6, <1>7, <2>1, <2>2, <2>3 DEF CommitAfterSwitch
  <2> QED
    BY <1>8, <2>1, <2>2, <2>4
<1>12. CASE EnableSwitch
  <2>1. pc["enable"] \in {"switch", "call"}
    BY <1>12 DEF EnableSwitch, switchBegin, switchCall
  <2>2. pc'["enable"] \in {"call", "after"}
    BY <1>1, <1>12, OthersStay DEF EnableSwitch, switchBegin, switchCall
  <2>3. "jtc_activated_request" \in flags' <=> "jtc_activated_request" \in flags
    BY <1>12 DEF EnableSwitch, switchBegin, switchCall, Raise, Lower
  <2>4. phase # "enabled" /\ CommitAfterSwitch'
    BY <1>6, <1>7, <2>1, <2>2, <2>3 DEF CommitAfterSwitch
  <2>5. owner' = owner
    BY <1>12 DEF EnableSwitch, switchBegin, switchCall
  <2>6. pc["mode"] \in Switching => owner # "mode"
    BY <1>7, <2>1 DEF OwnerKeepsControllers
  <2>7. OwnerKeepsControllers'
    BY <1>3, <2>5, <2>6 DEF OwnerKeepsControllers
  <2> QED
    BY <1>5, <2>4, <2>7, EnableFrameMode
<1>13. CASE EnableAfterSwitch
  <2>1. pc["enable"] = "after" /\ UNCHANGED controllers
    BY <1>13 DEF EnableAfterSwitch
  <2>2. pc'["enable"] = "wait_result"
    BY <1>1, <1>13, OthersStay DEF EnableAfterSwitch
  <2>3. phase # "jtc_activating" /\ "jtc_activated_request" \in flags' =>
          "jtc_activated_request" \in flags
    BY <1>13 DEF EnableAfterSwitch
  <2>4. CommitAfterSwitch'
    BY <1>6, <1>7, <2>1, <2>2, <2>3 DEF CommitAfterSwitch, Walking
  <2> QED
    BY <1>8, <2>1, <2>2, <2>4
<1>14. CASE waitForResult("enable")
  <2>1. UNCHANGED <<controllers, flags>>
    BY <1>14 DEF waitForResult, sharedVars
  <2>2. pc'["enable"] = "idle"
    BY <1>1, <1>14, OthersStay DEF waitForResult
  <2>3. CommitAfterSwitch'
    BY <1>6, <1>7, <2>1, <2>2 DEF CommitAfterSwitch
  <2> QED
    BY <1>8, <2>1, <2>2, <2>3
<1> QED
  BY <1>9, <1>10, <1>11, <1>12, <1>13, <1>14 DEF EnableService

(* What the mode thread leaves alone: the drives, the phase, a request to  *)
(* disable the group, and the enable thread with what it tells the cycle.  *)
ModeThreadFrame ==
  /\ UNCHANGED <<hwVars, cmdVars, rtVars, phase>>
  /\ pc'["enable"] = pc["enable"]
  /\ \A f \in ModeFlags \ {"drive_csp_requested"} : f \in flags' <=> f \in flags
  /\ "disable_request" \in flags => "disable_request" \in flags'

(* It is then enough to know of the parts in which it has a say.           *)
LEMMA ModeFrameMode ==
  ASSUME ModeInv, ModeThreadFrame,
         NoDrivesNoCsp', MotionWithoutCsp', SwitchWithoutCsp', OwnerKeepsControllers',
         CspFollowsRequest',
         phase \in Walking \cup {"jtc_activating"} /\ CspRequest \in flags' =>
           pc'["mode"] = "drives_wait" \/ Doomed'
  PROVE  ModeInv'
<1> USE DEF ModeInv
<1>1. /\ "jtc_activated_request" \in flags' <=> "jtc_activated_request" \in flags
      /\ "device_stage" \in flags' <=> "device_stage" \in flags
  BY DEF ModeThreadFrame, ModeFlags
<1>2. /\ mode' = mode /\ mode_cmd' = mode_cmd /\ current_batch' = current_batch
      /\ phase' = phase /\ pc'["enable"] = pc["enable"]
  BY DEF ModeThreadFrame, hwVars, cmdVars, rtVars
<1>3. \A B : ShowsCsp(B)' <=> ShowsCsp(B)
  BY <1>2 DEF ShowsCsp
<1>4. CommitAfterSwitch'
  BY <1>1, <1>2 DEF CommitAfterSwitch, EnableAnswered
<1>5. WalkWithoutCsp'
  BY <1>1, <1>2, <1>3 DEF WalkWithoutCsp, WalkShowsNoCsp, Walking, FirstBatches
<1> QED
  BY <1>4, <1>5

(* A step out of the switch that waits for no drive, or gives the group    *)
(* up, and one outside it, leave what the drives are told as it was.       *)
LEMMA CalmStep ==
  ASSUME ModeInv, ModeThreadFrame, UNCHANGED controllers,
         CspRequest \in flags' <=> CspRequest \in flags,
         pc["mode"] \notin {"drives_wait", "drives_shown", "converge"} \/ Doomed',
         pc'["mode"] \notin Switching
  PROVE  ModeInv'
<1> USE DEF ModeInv
<1>1. /\ mode' = mode /\ mode_cmd' = mode_cmd /\ phase' = phase
      /\ \A B : ShowsCsp(B)' <=> ShowsCsp(B)
  BY DEF ModeThreadFrame, hwVars, cmdVars, ShowsCsp
<1>2. NoCsp' <=> NoCsp
  BY <1>1 DEF NoCsp
<1>3. ~WaitsForDrives'
  BY DEF WaitsForDrives
<1>4. /\ WaitsForDrives \/ Doomed => Doomed'
      /\ SwitchLost \/ pc["mode"] = "drives_wait" => SwitchLost'
  BY DEF ModeThreadFrame, WaitsForDrives, Doomed, SwitchLost
<1>5. NoDrivesNoCsp' /\ MotionWithoutCsp'
  BY <1>1, <1>2, <1>4 DEF NoDrivesNoCsp, MotionWithoutCsp
<1>6. SwitchWithoutCsp' /\ OwnerKeepsControllers'
  BY <1>3 DEF SwitchWithoutCsp, OwnerKeepsControllers, WaitsForStartup
<1>7. CspFollowsRequest'
  BY <1>1, <1>4 DEF CspFollowsRequest, WaitsForCsp, WaitsForStartup
<1>8. phase \in Walking \cup {"jtc_activating"} /\ CspRequest \in flags' =>
        pc'["mode"] = "drives_wait" \/ Doomed'
  BY <1>4 DEF WalkWithoutCsp, WaitsForDrives
<1> QED
  BY <1>5, <1>6, <1>7, <1>8, ModeFrameMode

(* The steps that go no further into a switch.                             *)
LEMMA ModeCalm ==
  ASSUME TypeOK, ModeInv,
         \/ ModeEnter \/ ModeCas \/ ModeValidate \/ ModeList \/ ModeStore \/ ModeUnlock
         \/ (\E b \in BOOLEAN : convergeAfterUnsafeModeSwitch(b)) \/ ModeRelease
         \/ /\ modeFrame /\ UNCHANGED controllers
            /\ \/ /\ pc["mode"] \in {"decide", "confirm"}
                  /\ \/ unsafeModeSwitch(TRUE) \/ unsafeModeSwitch(FALSE)
                     \/ preemptedModeSwitch \/ modeMoves("unlock") \/ modeMoves("store")
               \/ pc["mode"] = "drives_wait" /\ unsafeModeSwitch(FALSE)
  PROVE  ModeInv'
<1>1. "mode" \in Threads /\ "enable" \in Threads /\ "mode" # "enable"
  BY DEF Threads, Services
<1> USE DEF ModeEnter, ModeCas, ModeValidate, ModeList, ModeStore, ModeUnlock,
            convergeAfterUnsafeModeSwitch, ModeRelease, unsafeModeSwitch, preemptedModeSwitch,
            modeMoves
<1>2. PICK l \in PcLabels \ Switching : Goto("mode", l)
  BY DEF PcLabels
<1>3. pc'["mode"] = l /\ pc'["enable"] = pc["enable"]
  BY <1>1, <1>2, OthersStay
<1>4. /\ \A f \in ModeFlags : f \in flags' <=> f \in flags
      /\ "disable_request" \in flags => "disable_request" \in flags'
  BY DEF sharedVars, Raise, Lower, ModeFlags
<1>5. serviceFrame /\ UNCHANGED <<phase, controllers>>
  BY DEF sharedVars, modeFrame
<1>6. ModeThreadFrame /\ (CspRequest \in flags' <=> CspRequest \in flags)
  BY <1>3, <1>4, <1>5 DEF ModeThreadFrame, serviceFrame, CspRequest, ModeFlags
<1>7. pc["mode"] \in {"drives_wait", "drives_shown", "converge"} =>
        Goto("mode", "converge") \/ "disable_request" \in flags'
  OBVIOUS
<1>8. pc["mode"] \notin {"drives_wait", "drives_shown", "converge"} \/ Doomed'
  BY <1>1, <1>7, OthersStay DEF Doomed
<1> QED
  BY <1>2, <1>3, <1>5, <1>6, <1>8, CalmStep

(* The steps further into a switch leave the owner and the controllers,    *)
(* and the request too but for the store of switchDriveModes().            *)
LEMMA MovesOn ==
  ASSUME TypeOK, ModeInv, modeFrame, UNCHANGED <<controllers, owner>>,
         NEW l, Goto("mode", l),
         flags' \in {flags, flags \cup {"drive_csp_requested"}, flags \ {"drive_csp_requested"}}
  PROVE  /\ ModeThreadFrame /\ pc'["mode"] = l
         /\ UNCHANGED <<mode, mode_cmd, phase, source>>
         /\ "disable_request" \in flags' <=> "disable_request" \in flags
         /\ flags' = flags => (NoCsp' <=> NoCsp)
         /\ ShowsCsp(Axes)' <=> ShowsCsp(Axes)
         /\ switchedDrivesUseCsp(target)' <=> switchedDrivesUseCsp(target)
<1>1. "mode" \in Threads /\ "enable" \in Threads /\ "mode" # "enable"
  BY DEF Threads, Services
<1>2. pc'["mode"] = l /\ pc'["enable"] = pc["enable"]
  BY <1>1, OthersStay
<1>3. \A f \in (ModeFlags \ {"drive_csp_requested"}) \cup {"disable_request"} :
        f \in flags' <=> f \in flags
  BY DEF ModeFlags
<1>4. UNCHANGED <<mode, mode_cmd, phase, source>> /\ serviceFrame
  BY DEF modeFrame, serviceFrame, hwVars, cmdVars
<1> QED
  BY <1>2, <1>3, <1>4
     DEF ModeThreadFrame, serviceFrame, NoCsp, ShowsCsp, switchedDrivesUseCsp, target

(* On to the controller switch, or to the request, with the request as it  *)
(* is: the drives of an enabled group have to be clear of CSP.             *)
LEMMA StepIntoSwitch ==
  ASSUME TypeOK, ModeInv, modeFrame, UNCHANGED controllers,
         NEW l \in {"call", "drives"}, modeMoves(l),
         pc["mode"] \in {"decide", "confirm"} \/ (pc["mode"] = "drives_shown" /\ WaitsForStartup),
         pc["mode"] = "drives_shown" => l = "call" /\ drivesIn("expected"),
         owner = "mode" => pc["enable"] \in {"idle", "cas", "wait_result"},
         l = "drives" /\ switchedDrivesUseCsp(target) => controllers # "motion",
         /\ pc["mode"] # "drives_shown" /\ phase = "enabled"
         /\ l = "call" \/ switchedDrivesUseCsp(target)
         => NoCsp \/ "disable_request" \in flags
  PROVE  ModeInv'
<1> USE DEF ModeInv
<1>1. Goto("mode", l) /\ flags' = flags /\ UNCHANGED owner
  BY DEF modeMoves
<1>2. /\ ModeThreadFrame /\ pc'["mode"] = l
      /\ UNCHANGED <<mode, mode_cmd, phase, source>>
      /\ NoCsp' <=> NoCsp
      /\ ShowsCsp(Axes)' <=> ShowsCsp(Axes)
      /\ switchedDrivesUseCsp(target)' <=> switchedDrivesUseCsp(target)
  BY <1>1, MovesOn
<1>3. /\ WaitsForCsp => FALSE
      /\ ~WaitsForDrives'
      /\ Doomed' <=> "disable_request" \in flags
      /\ Doomed <=> "disable_request" \in flags
      /\ SwitchLost' <=> "disable_request" \in flags
      /\ SwitchLost <=> "disable_request" \in flags
  BY <1>1, <1>2 DEF WaitsForCsp, WaitsForStartup, WaitsForDrives, Doomed, SwitchLost
(* One that has waited for the drives finds them out of CSP.               *)
<1>4. pc["mode"] = "drives_shown" /\ phase = "enabled" =>
        /\ CspRequest \notin flags /\ ~ShowsCsp(Axes)
        /\ NoCsp \/ "disable_request" \in flags
  <2> SUFFICES ASSUME pc["mode"] = "drives_shown", phase = "enabled"
               PROVE  /\ CspRequest \notin flags /\ ~ShowsCsp(Axes)
                      /\ NoCsp \/ "disable_request" \in flags
    OBVIOUS
  <2>1. CspRequest \notin flags
    BY DEF SwitchWithoutCsp
  <2>2. \A a \in ModeSwitchAxes : mode[a] = "expected"
    BY DEF drivesIn
  <2>3. mode_cmd \in {"expected", "csp"}
    BY DEF TypeOK
  <2>4. CASE ModeSwitchAxes = {}
    BY <2>1, <2>4 DEF ShowsCsp, NoDrivesNoCsp
  <2>5. CASE ModeSwitchAxes # {}
    BY <1>3, <2>1, <2>2, <2>3, <2>5 DEF ShowsCsp, NoCsp, CspFollowsRequest
  <2> QED
    BY <2>4, <2>5
<1>5. NoDrivesNoCsp' /\ MotionWithoutCsp'
  BY <1>2, <1>3 DEF NoDrivesNoCsp, MotionWithoutCsp
<1>6. SwitchWithoutCsp'
  BY <1>1, <1>2, <1>3, <1>4 DEF SwitchWithoutCsp, WaitsForStartup
<1>7. OwnerKeepsControllers'
  BY <1>1, <1>2 DEF OwnerKeepsControllers, ModeThreadFrame
<1>8. CspFollowsRequest'
  <2>1. WaitsForStartup => pc["mode"] = "drives_shown"
    BY DEF WaitsForStartup, WaitsForDrives
  <2> QED
    BY <1>1, <1>2, <1>3, <1>4, <2>1 DEF CspFollowsRequest, NoCsp
<1>9. phase \in Walking \cup {"jtc_activating"} /\ CspRequest \in flags' => Doomed'
  BY <1>1, <1>3 DEF WalkWithoutCsp, Doomed
<1> QED
  BY <1>2, <1>5, <1>6, <1>7, <1>8, <1>9, ModeFrameMode

(* The decision: a group in motion control is not told CSP, and one under  *)
(* the trajectory controller first leaves it.                              *)
LEMMA DecideMode ==
  ASSUME TypeOK, ModeInv, ModeDecide
  PROVE  ModeInv'
<1>1. modeFrame /\ UNCHANGED controllers /\ pc["mode"] = "decide"
  BY DEF ModeDecide
<1>2. CASE \/ unsafeModeSwitch(TRUE) \/ preemptedModeSwitch \/ modeMoves("unlock")
  BY <1>1, <1>2, ModeCalm
<1>3. CASE /\ ~safetyPreempted /\ controllers = source
           /\ modeMoves(IF switchedDrivesUseCsp(source) THEN "drives" ELSE "call")
  <2>1. phase = "enabled" /\ pc["enable"] \in {"idle", "cas", "wait_result"}
    BY <1>3 DEF safetyPreempted, ModeInv, CommitAfterSwitch, EnableAnswered
  <2>2. switchedDrivesUseCsp(source) => ~switchedDrivesUseCsp(target)
    BY DEF switchedDrivesUseCsp, target
  <2>3. ~switchedDrivesUseCsp(source) => NoCsp \/ "disable_request" \in flags
    <3>1. source \in {"motion", "alternate"}
      BY DEF TypeOK
    <3> QED
      BY <1>1, <1>3, <2>1, <3>1
         DEF switchedDrivesUseCsp, ModeInv, NoDrivesNoCsp, MotionWithoutCsp, SwitchLost
  <2> DEFINE l == IF switchedDrivesUseCsp(source) THEN "drives" ELSE "call"
  <2>4. l \in {"call", "drives"} /\ modeMoves(l)
    BY <1>3
  <2>5. l = "drives" => ~switchedDrivesUseCsp(target)
    BY <2>2
  <2>6. l = "call" \/ switchedDrivesUseCsp(target) => NoCsp \/ "disable_request" \in flags
    BY <2>2, <2>3
  <2> HIDE DEF l
  <2> QED
    BY <1>1, <2>1, <2>4, <2>5, <2>6, StepIntoSwitch
<1> QED
  BY <1>2, <1>3 DEF ModeDecide

(* The request and its withdrawal.                                         *)
LEMMA DrivesMode ==
  ASSUME TypeOK, ModeInv, ModeDrives
  PROVE  ModeInv'
<1> USE DEF ModeInv
<1>1. /\ modeFrame /\ UNCHANGED <<controllers, owner>> /\ pc["mode"] = "drives"
      /\ Goto("mode", "drives_wait")
      /\ flags' = IF switchedDrivesUseCsp(target) THEN flags \cup {"drive_csp_requested"}
                                                  ELSE flags \ {"drive_csp_requested"}
  BY DEF ModeDrives, Raise, Lower
<1>2. /\ ModeThreadFrame /\ pc'["mode"] = "drives_wait"
      /\ UNCHANGED <<mode, mode_cmd, phase, source>>
      /\ "disable_request" \in flags' <=> "disable_request" \in flags
      /\ ShowsCsp(Axes)' <=> ShowsCsp(Axes)
      /\ switchedDrivesUseCsp(target)' <=> switchedDrivesUseCsp(target)
  BY <1>1, MovesOn
<1>3. /\ CspRequest \in flags' <=> switchedDrivesUseCsp(target)
      /\ WaitsForCsp' <=> switchedDrivesUseCsp(target)
      /\ WaitsForStartup' <=> ~switchedDrivesUseCsp(target)
      /\ ~WaitsForDrives
  BY <1>1, <1>2 DEF CspRequest, WaitsForCsp, WaitsForStartup, WaitsForDrives
<1>4. /\ Doomed <=> "disable_request" \in flags
      /\ "disable_request" \in flags => Doomed' /\ SwitchLost'
      /\ SwitchLost <=> "disable_request" \in flags
      /\ owner # "mode" => SwitchLost'
  BY <1>1, <1>2 DEF Doomed, SwitchLost
<1>5. OwnerKeepsControllers'
  BY <1>1, <1>2 DEF OwnerKeepsControllers, ModeThreadFrame
<1>6. CASE switchedDrivesUseCsp(target)
  <2>1. ModeSwitchAxes # {}
    BY <1>6 DEF switchedDrivesUseCsp
  <2>2. MotionWithoutCsp'
    BY <1>1, <1>2, <1>4, <1>6 DEF MotionWithoutCsp, OwnerKeepsControllers
  <2>3. phase = "enabled" => (NoCsp /\ ~ShowsCsp(Axes)) \/ "disable_request" \in flags
    BY <1>1, <1>3, <1>4, <1>6
       DEF SwitchWithoutCsp, CspFollowsRequest, NoCsp, WaitsForStartup
  <2>4. CspFollowsRequest'
    BY <1>2, <1>3, <1>4, <1>6, <2>3 DEF CspFollowsRequest, NoCsp
  <2>5. SwitchWithoutCsp' /\ NoDrivesNoCsp'
    BY <1>2, <1>3, <1>6, <2>1 DEF SwitchWithoutCsp, NoDrivesNoCsp
  <2> QED
    BY <1>2, <1>5, <2>2, <2>4, <2>5, ModeFrameMode
<1>7. CASE ~switchedDrivesUseCsp(target)
  <2>1. NoCsp => NoCsp'
    BY <1>2, <1>3, <1>7 DEF NoCsp
  <2>2. NoDrivesNoCsp' /\ MotionWithoutCsp'
    BY <1>1, <1>2, <1>4, <2>1 DEF NoDrivesNoCsp, MotionWithoutCsp
  <2>3. SwitchWithoutCsp'
    BY <1>2, <1>3, <1>7 DEF SwitchWithoutCsp
  <2>4. CspFollowsRequest'
    BY <1>2, <1>3, <1>4, <1>7 DEF CspFollowsRequest, WaitsForCsp
  <2> QED
    BY <1>2, <1>3, <1>5, <1>7, <2>2, <2>3, <2>4, ModeFrameMode
<1> QED
  BY <1>6, <1>7

(* The wait: a look at the owner, and a look at the displays.              *)
LEMMA WaitMode ==
  ASSUME TypeOK, ModeInv, ModeDrivesWait \/ ModeDrivesShown
  PROVE  ModeInv'
<1> USE DEF ModeInv
<1>1. modeFrame /\ UNCHANGED controllers /\ pc["mode"] \in {"drives_wait", "drives_shown"}
  BY DEF ModeDrivesWait, ModeDrivesShown
<1>2. CASE pc["mode"] = "drives_wait" /\ unsafeModeSwitch(FALSE)
  BY <1>1, <1>2, ModeCalm
(* Waiting on, or having found the owner to be its own.                    *)
<1>3. ASSUME NEW l \in {"drives_wait", "drives_shown"}, modeMoves(l),
             l = "drives_shown" => owner = "mode" /\ phase = "enabled"
      PROVE  ModeInv'
  <2>1. Goto("mode", l) /\ flags' = flags /\ UNCHANGED owner
    BY <1>3 DEF modeMoves
  <2>2. /\ ModeThreadFrame /\ pc'["mode"] = l
        /\ UNCHANGED <<mode, mode_cmd, phase, source>>
        /\ NoCsp' <=> NoCsp
        /\ ShowsCsp(Axes)' <=> ShowsCsp(Axes)
        /\ switchedDrivesUseCsp(target)' <=> switchedDrivesUseCsp(target)
    BY <1>1, <2>1, MovesOn
  <2>3. /\ WaitsForCsp' <=> WaitsForCsp
        /\ WaitsForStartup' <=> WaitsForStartup
        /\ Doomed' <=> Doomed
        /\ SwitchLost => SwitchLost'
    BY <1>1, <1>3, <2>1, <2>2
       DEF WaitsForCsp, WaitsForStartup, WaitsForDrives, Doomed, SwitchLost
  <2>4. NoDrivesNoCsp' /\ MotionWithoutCsp' /\ SwitchWithoutCsp'
    BY <1>1, <2>1, <2>2, <2>3 DEF NoDrivesNoCsp, MotionWithoutCsp, SwitchWithoutCsp
  <2>5. OwnerKeepsControllers'
    BY <1>1, <2>1, <2>2 DEF OwnerKeepsControllers, ModeThreadFrame
  <2>6. CspFollowsRequest'
    BY <2>1, <2>2, <2>3 DEF CspFollowsRequest
  <2>7. phase \in Walking \cup {"jtc_activating"} /\ CspRequest \in flags' =>
          pc'["mode"] = "drives_wait" \/ Doomed'
    BY <1>3, <2>1, <2>2, <2>3 DEF WalkWithoutCsp, Walking
  <2> QED
    BY <2>2, <2>4, <2>5, <2>6, <2>7, ModeFrameMode
<1>4. CASE ~safetyPreempted /\ modeMoves("drives_shown")
  BY <1>3, <1>4 DEF safetyPreempted
<1>5. CASE modeMoves("drives_wait")
  BY <1>3, <1>5
<1>6. CASE /\ pc["mode"] = "drives_shown" /\ ~switchedDrivesUseCsp(target)
           /\ drivesIn("expected") /\ modeMoves("call")
  <2>1. WaitsForStartup
    BY <1>6 DEF WaitsForStartup, WaitsForDrives
  <2>2. owner = "mode" => pc["enable"] \in {"idle", "cas", "wait_result"}
    BY <1>6 DEF OwnerKeepsControllers
  <2> QED
    BY <1>1, <1>6, <2>1, <2>2, StepIntoSwitch
(* The drives are in CSP: the request is there, and they are told it.      *)
<1>7. CASE /\ pc["mode"] = "drives_shown" /\ switchedDrivesUseCsp(target)
           /\ drivesIn("csp") /\ completeModeSwitch
  <2>1. Goto("mode", "store") /\ flags' = flags /\ UNCHANGED owner
    BY <1>7 DEF completeModeSwitch, modeMoves
  <2>2. /\ ModeThreadFrame /\ pc'["mode"] = "store"
        /\ UNCHANGED <<mode, mode_cmd, phase, source>>
        /\ NoCsp' <=> NoCsp
        /\ ShowsCsp(Axes)' <=> ShowsCsp(Axes)
    BY <1>1, <2>1, MovesOn
  <2>3. /\ ~WaitsForStartup /\ ~WaitsForDrives'
        /\ Doomed' <=> "disable_request" \in flags
        /\ Doomed <=> "disable_request" \in flags
        /\ SwitchLost <=> "disable_request" \in flags
        /\ SwitchLost' <=> "disable_request" \in flags
    BY <1>7, <2>1, <2>2 DEF WaitsForStartup, WaitsForDrives, Doomed, SwitchLost
  <2>4. ShowsCsp(Axes) /\ \A a \in ModeSwitchAxes : mode[a] = "csp"
    BY <1>7, TopologyAssumption DEF drivesIn, ShowsCsp, switchedDrivesUseCsp
  <2>5. CspFollowsRequest'
    BY <2>1, <2>2, <2>3, <2>4 DEF CspFollowsRequest
  <2>6. NoDrivesNoCsp' /\ MotionWithoutCsp' /\ SwitchWithoutCsp' /\ OwnerKeepsControllers'
    BY <1>1, <2>2, <2>3
       DEF NoDrivesNoCsp, MotionWithoutCsp, SwitchWithoutCsp, OwnerKeepsControllers,
           WaitsForStartup
  <2>7. phase \in Walking \cup {"jtc_activating"} /\ CspRequest \in flags' => Doomed'
    BY <1>7, <2>1, <2>3 DEF WalkWithoutCsp
  <2> QED
    BY <2>2, <2>5, <2>6, <2>7, ModeFrameMode
<1> QED
  BY <1>2, <1>4, <1>5, <1>6, <1>7 DEF ModeDrivesWait, ModeDrivesShown

(* The controller switch, over drives that are not told CSP.               *)
LEMMA CallMode ==
  ASSUME TypeOK, ModeInv, ModeCall
  PROVE  ModeInv'
<1> USE DEF ModeInv
<1>1. /\ pc["mode"] = "call" /\ modeFrame /\ UNCHANGED <<owner, flags>>
      /\ Goto("mode", "confirm")
  BY DEF ModeCall
<1>2. "mode" \in Threads /\ "enable" \in Threads /\ "mode" # "enable"
  BY DEF Threads, Services
<1>3. pc'["mode"] = "confirm" /\ pc'["enable"] = pc["enable"]
  BY <1>1, <1>2, OthersStay
<1>4. UNCHANGED <<mode, mode_cmd, phase, source, current_batch, flags>> /\ ModeThreadFrame
  BY <1>1, <1>3 DEF modeFrame, serviceFrame, ModeThreadFrame, hwVars, cmdVars, rtVars
<1>5. /\ NoCsp' <=> NoCsp
      /\ ShowsCsp(Axes)' <=> ShowsCsp(Axes)
  BY <1>4 DEF NoCsp, ShowsCsp
<1>6. /\ ~WaitsForDrives /\ ~WaitsForDrives'
      /\ Doomed' <=> Doomed
      /\ Doomed <=> "disable_request" \in flags
      /\ "disable_request" \in flags => SwitchLost'
  BY <1>1, <1>3 DEF WaitsForDrives, Doomed, SwitchLost
<1>7. NoDrivesNoCsp' /\ MotionWithoutCsp' /\ SwitchWithoutCsp'
  BY <1>1, <1>3, <1>4, <1>5, <1>6
     DEF NoDrivesNoCsp, MotionWithoutCsp, SwitchWithoutCsp, WaitsForStartup
<1>8. OwnerKeepsControllers'
  BY <1>1, <1>3 DEF OwnerKeepsControllers
<1>9. CspFollowsRequest'
  BY <1>4, <1>5, <1>6 DEF CspFollowsRequest, WaitsForCsp, WaitsForStartup
<1>10. phase \in Walking \cup {"jtc_activating"} /\ CspRequest \in flags' => Doomed'
  BY <1>1, <1>6 DEF WalkWithoutCsp
<1> QED
  BY <1>4, <1>7, <1>8, <1>9, <1>10, ModeFrameMode

(* The confirmation of the switch.                                         *)
LEMMA ConfirmMode ==
  ASSUME TypeOK, ModeInv, ModeConfirm
  PROVE  ModeInv'
<1>1. modeFrame /\ UNCHANGED controllers /\ pc["mode"] = "confirm"
  BY DEF ModeConfirm
<1>2. CASE \/ unsafeModeSwitch(TRUE) \/ unsafeModeSwitch(FALSE) \/ preemptedModeSwitch
           \/ modeMoves("unlock") \/ completeModeSwitch
  BY <1>1, <1>2, ModeCalm DEF completeModeSwitch
<1>3. CASE /\ ~safetyPreempted /\ controllers = target /\ switchedDrivesUseCsp(target)
           /\ modeMoves("drives")
  <2>1. phase = "enabled" /\ pc["enable"] \in {"idle", "cas", "wait_result"}
    BY <1>3 DEF safetyPreempted, ModeInv, CommitAfterSwitch, EnableAnswered
  <2>2. controllers # "motion"
    BY <1>3 DEF switchedDrivesUseCsp
  <2>3. NoCsp \/ "disable_request" \in flags
    BY <1>1, <2>1 DEF ModeInv, SwitchWithoutCsp
  <2> QED
    BY <1>1, <1>3, <2>1, <2>2, <2>3, StepIntoSwitch
<1> QED
  BY <1>2, <1>3 DEF ModeConfirm

(* The thread of the control mode service keeps the invariant.             *)
LEMMA ModeMode ==
  ASSUME TypeOK, ModeInv, ModeService
  PROVE  ModeInv'
  BY ModeCalm, DecideMode, DrivesMode, WaitMode, CallMode, ConfirmMode DEF ModeService

-----------------------------------------------------------------------------
(* What the hardware and the lifecycle do                                  *)

(* A drive shows CSP only when it is told so, and its startup mode only    *)
(* when it is not.                                                         *)
LEMMA HardwareMode ==
  ASSUME TypeOK, ModeInv, Hardware
  PROVE  ModeInv'
<1> USE DEF ModeInv
<1>1. UNCHANGED <<mode_cmd, controllers, phase, owner, flags, current_batch, pc, source>>
  BY HardwareStep DEF HardwareFrame, hwFrame, sharedVars, rtVars, threadVars
<1>2. \A a \in ModeSwitchAxes :
        /\ mode'[a] = "csp" => mode[a] = "csp" \/ mode_cmd = "csp"
        /\ mode'[a] = "expected" => mode[a] = "expected" \/ mode_cmd = "expected"
  <2>1. ModeSwitchAxes \subseteq Axes /\ mode \in [Axes -> DriveModes]
    BY TopologyAssumption DEF TypeOK
  <2>2. CASE UNCHANGED mode
    BY <2>2
  <2>3. ASSUME NEW b \in Axes, DriveModeShown(b), NEW a \in ModeSwitchAxes
        PROVE  /\ mode'[a] = "csp" => mode[a] = "csp" \/ mode_cmd = "csp"
               /\ mode'[a] = "expected" => mode[a] = "expected" \/ mode_cmd = "expected"
    <3>1. PICK m : /\ mode' = [mode EXCEPT ![b] = m]
                   /\ b \in ModeSwitchAxes => m \in {mode_cmd, "pending", "other"}
      BY <2>3 DEF DriveModeShown
    <3> QED
      BY <2>1, <3>1
  <2> QED
    BY <2>2, <2>3 DEF Hardware, DriveAnswers, DriveDisturbed, LinkChanges, SourcesChange,
                      DeviceAnswers
<1>3. NoCsp' <=> NoCsp
  BY <1>1 DEF NoCsp
<1>4. mode_cmd = "expected" => \A B : ShowsCsp(B)' => ShowsCsp(B)
  BY <1>2 DEF ShowsCsp
<1>8. /\ WaitsForCsp' <=> WaitsForCsp
      /\ WaitsForStartup' <=> WaitsForStartup
      /\ switchedDrivesUseCsp(target)' <=> switchedDrivesUseCsp(target)
      /\ Doomed' <=> Doomed
      /\ SwitchLost' <=> SwitchLost
  BY <1>1 DEF WaitsForCsp, WaitsForStartup, WaitsForDrives, switchedDrivesUseCsp, target, Doomed,
              SwitchLost
<1>5. /\ NoDrivesNoCsp' /\ MotionWithoutCsp' /\ SwitchWithoutCsp' /\ CommitAfterSwitch'
      /\ OwnerKeepsControllers'
  BY <1>1, <1>3, <1>8 DEF NoDrivesNoCsp, MotionWithoutCsp, SwitchWithoutCsp, CommitAfterSwitch,
                          EnableAnswered, OwnerKeepsControllers
<1>6. WalkWithoutCsp'
  BY <1>1, <1>4, <1>8 DEF WalkWithoutCsp, WalkShowsNoCsp, Walking, FirstBatches
<1>7. CspFollowsRequest'
  <2>1. mode_cmd = "expected" \/ mode_cmd = "csp"
    BY DEF TypeOK
  <2>2. CASE mode_cmd = "expected"
    BY <1>1, <1>4, <1>8, <2>2 DEF CspFollowsRequest
  <2>3. CASE mode_cmd = "csp"
    <3>1. (\E a \in ModeSwitchAxes : mode'[a] = "expected") =>
            (\E a \in ModeSwitchAxes : mode[a] = "expected")
      BY <1>2, <2>3
    <3> QED
      BY <1>1, <1>8, <2>3, <3>1 DEF CspFollowsRequest
  <2> QED
    BY <2>1, <2>2, <2>3
<1> QED
  BY <1>5, <1>6, <1>7

(* An activation or a deactivation leaves every phase the invariant speaks *)
(* of and raises no request; the drives keep the mode they are told.       *)
LEMMA LifecycleMode ==
  ASSUME ModeInv, Activate \/ Deactivate
  PROVE  ModeInv'
<1>1. /\ phase' \in {"startup_sanitizing", "inactive"} /\ owner' = "internal"
      /\ UNCHANGED <<mode_cmd, controllers, pc, source>>
  BY DEF Activate, Deactivate, threadVars
<1>2. /\ CspRequest \in flags' => CspRequest \in flags
      /\ "enable_hardware_ready" \in flags' => "enable_hardware_ready" \in flags
  BY DEF Activate, Deactivate, CspRequest
<1>3. NoCsp => NoCsp'
  BY <1>1, <1>2 DEF NoCsp
<1> QED
  BY <1>1, <1>2, <1>3
     DEF ModeInv, NoDrivesNoCsp, MotionWithoutCsp, SwitchWithoutCsp, OwnerKeepsControllers,
         CommitAfterSwitch, CspFollowsRequest, WalkWithoutCsp, WalkShowsNoCsp, Walking,
         WaitsForStartup, WaitsForDrives, switchedDrivesUseCsp, target

-----------------------------------------------------------------------------
(* The theorems                                                            *)

(* A fresh process tells no drive CSP.                                     *)
LEMMA InitMode ==
  Init => ModeInv
<1> SUFFICES ASSUME Init PROVE ModeInv
  OBVIOUS
<1>1. /\ phase = "inactive" /\ flags = {} /\ mode_cmd = "expected"
      /\ controllers = "disabled" /\ owner = "internal"
  BY DEF Init
<1>2. NoCsp
  BY <1>1 DEF NoCsp
<1> QED
  BY <1>1, <1>2
     DEF ModeInv, NoDrivesNoCsp, MotionWithoutCsp, SwitchWithoutCsp, OwnerKeepsControllers,
         CommitAfterSwitch, CspFollowsRequest, WalkWithoutCsp, WalkShowsNoCsp, Walking, NoCsp

(* Every step keeps the invariant.                                         *)
LEMMA NextMode ==
  IInv /\ ModeInv /\ [Next]_vars => ModeInv'
<1> SUFFICES ASSUME IInv, ModeInv, [Next]_vars PROVE ModeInv'
  OBVIOUS
<1>1. TypeOK
  BY DEF IInv
<1>2. CASE Update
  BY <1>2, UpdateMode
<1>3. CASE Activate \/ Deactivate
  BY <1>3, LifecycleMode
<1>4. CASE Hardware
  BY <1>1, <1>4, HardwareMode
<1>5. CASE Calls
  BY <1>1, <1>5, EnableMode, ModeMode, StoppingThreads, StopFrameMode DEF Calls
<1>6. CASE UNCHANGED vars
  BY <1>6, StopFrameMode
     DEF StopFrame, vars, hwVars, cmdVars, sharedVars, rtVars, threadVars
<1> QED
  BY <1>2, <1>3, <1>4, <1>5, <1>6 DEF Next

(* The inductive invariant of the control mode.                            *)
THEOREM ModeInductive == Spec => []ModeInv
  BY InitMode, NextMode, Inductive, PTL DEF Spec

(* The velocity controller of an enabled chassis does not run while the    *)
(* wheel drives are told CSP, whatever stops and late or contradictory     *)
(* answers come between, but for a group whose disable is requested or     *)
(* about to be by a mode switch that finds out it has lost it.             *)
THEOREM NoVelocityUnderCsp == Spec => []CspUnderTrajectory
<1>1. ModeInv => CspUnderTrajectory
  BY DEF ModeInv, MotionWithoutCsp, NoCsp, CspUnderTrajectory
<1> QED
  BY <1>1, ModeInductive, PTL
=============================================================================
