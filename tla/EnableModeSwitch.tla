-------------------------- MODULE EnableModeSwitch --------------------------
(***************************************************************************)
(* The control mode service of the enable manager (handleSetMode and       *)
(* executeModeSwitch): while the group is enabled it exchanges the motion  *)
(* controller for the alternate one, and for the chassis moves the wheel   *)
(* drives between their startup mode and CSP.  One thread, "mode".  What   *)
(* it reads of owner_ and phase_ may have changed when it stores: a check  *)
(* and the store it admits are two steps.                                  *)
(***************************************************************************)
EXTENDS EnableServices

target == IF source = "motion" THEN "alternate" ELSE "motion"
switchedDrivesUseCsp(m) == m = "alternate" /\ ModeSwitchAxes # {}
safetyPreempted == owner # "mode" \/ phase # "enabled"
drivesIn(m) == \A a \in ModeSwitchAxes : mode[a] = m

modeFrame == serviceFrame /\ UNCHANGED <<phase, seen, source>>
modeMoves(l) == Goto("mode", l) /\ UNCHANGED <<owner, control_mode, flags, result>>

(* An emergency or another owner came first: the switch is left alone.     *)
preemptedModeSwitch ==
  /\ flags' = (flags \ {"switch_in_progress"}) \cup {"restart_required"}
  /\ control_mode' = "restart_required"
  /\ Goto("mode", "release")
  /\ UNCHANGED <<owner, result>>

(* release_switch() before convergeAfterUnsafeModeSwitch(): another thread *)
(* may switch controllers between the two.                                 *)
unsafeModeSwitch(require_restart) ==
  /\ Lower({"switch_in_progress"})
  /\ Goto("mode", IF require_restart THEN "converge_restart" ELSE "converge")
  /\ UNCHANGED <<owner, control_mode, result>>

completeUnlocked ==                    \* mutant: the switch is released first
  Lower({"switch_in_progress"}) /\ Goto("mode", "store") /\ UNCHANGED <<owner, control_mode, result>>

completeModeSwitch == modeMoves("store")

-----------------------------------------------------------------------------
ModeEnter ==
  /\ pc["mode"] = "idle"
  /\ Up("active") /\ ~Up("restart_required")
  /\ phase = "enabled" /\ owner = "none"
  /\ control_mode \in {"motion", "alternate"}
  /\ source' = control_mode
  /\ Goto("mode", "cas")
  /\ serviceFrame
  /\ UNCHANGED <<controllers, sharedVars, switched, seen>>

ModeCas ==
  /\ pc["mode"] = "cas"
  /\ Lower({"mode_abort_requested"})
  /\ IF owner = "none" THEN owner' = "mode" /\ Goto("mode", "validate")
                       ELSE UNCHANGED owner /\ Goto("mode", "idle")
  /\ modeFrame
  /\ UNCHANGED <<controllers, control_mode, result, switched>>

(* validateModeSource(): fresh feedback, a window of stable samples and a  *)
(* fresh source state admit the switch; each may be missing.               *)
ModeValidate ==
  /\ pc["mode"] = "validate"
  /\ \/ ~Up("mode_abort_requested") /\ ~safetyPreempted /\ Goto("mode", "list")
     \/ Goto("mode", "release")
  /\ modeFrame
  /\ UNCHANGED <<controllers, owner, control_mode, flags, result, switched>>

ModeList ==
  /\ pc["mode"] = "list"
  /\ IF flags \cap {"mode_abort_requested", "switch_in_progress"} # {}
       THEN Goto("mode", "release") /\ UNCHANGED flags
       ELSE Goto("mode", "decide") /\ Raise({"switch_in_progress"})
  /\ modeFrame
  /\ UNCHANGED <<controllers, owner, control_mode, result, switched>>

(* From the answer of the first list_controllers to the switch request, or *)
(* to the drives when the group leaves CSP.                                *)
ModeDecide ==
  LET matches == ~safetyPreempted /\ controllers = source
      aborts  == Up("mode_abort_requested")
  IN
  /\ pc["mode"] = "decide"
  /\ \/ unsafeModeSwitch(TRUE)                  \* no answer, or no manager
     \/ safetyPreempted /\ preemptedModeSwitch
     \/ ~safetyPreempted /\ controllers # source /\ unsafeModeSwitch(TRUE)
     \/ matches /\ aborts /\ modeMoves("unlock")
     \/ /\ matches /\ ~aborts
        /\ modeMoves(IF switchedDrivesUseCsp(source) THEN "drives" ELSE "call")
  /\ modeFrame /\ UNCHANGED <<controllers, switched>>

(* switchDriveModes(): before the velocity controller takes over, or after *)
(* the trajectory controller has.  The request is stored without a look at *)
(* the owner, then the loop looks at the owner, and then at the displays.  *)
ModeDrives ==
  /\ pc["mode"] = "drives"
  /\ IF switchedDrivesUseCsp(target) THEN Raise({"drive_csp_requested"})
                                     ELSE Lower({"drive_csp_requested"})
  /\ Goto("mode", "drives_wait")
  /\ modeFrame
  /\ UNCHANGED <<controllers, owner, control_mode, result, switched>>

ModeDrivesWait ==
  /\ pc["mode"] = "drives_wait"
  /\ \/ ~safetyPreempted /\ modeMoves("drives_shown")
     \/ unsafeModeSwitch(FALSE)                 \* preempted, or not in time
  /\ modeFrame /\ UNCHANGED <<controllers, switched>>

ModeDrivesShown ==
  LET csp == switchedDrivesUseCsp(target) IN
  /\ pc["mode"] = "drives_shown"
  /\ IF drivesIn(IF csp THEN "csp" ELSE "expected")
       THEN IF csp THEN completeModeSwitch ELSE modeMoves("call")
       ELSE modeMoves("drives_wait")
  /\ modeFrame /\ UNCHANGED <<controllers, switched>>

(* The switch request.  An answer in time is true of the controllers; a    *)
(* refusal or a late answer may leave any of the sets.                     *)
ModeCall ==
  /\ pc["mode"] = "call"
  /\ \/ switched' = [switched EXCEPT !["mode"] = "success"] /\ controllers' = target
     \/ /\ \E r \in {"failed", "ambiguous"} : switched' = [switched EXCEPT !["mode"] = r]
        /\ controllers' \in ControllerSets
  /\ Goto("mode", "confirm")
  /\ modeFrame
  /\ UNCHANGED <<owner, control_mode, flags, result>>

ModeConfirm ==
  LET answer == switched["mode"] IN
  /\ pc["mode"] = "confirm"
  /\ \/ unsafeModeSwitch(TRUE)                  \* the second list failed
     \/ safetyPreempted /\ preemptedModeSwitch
     \/ /\ ~safetyPreempted /\ answer = "success" /\ controllers = target
        /\ IF switchedDrivesUseCsp(target) THEN modeMoves("drives") ELSE completeModeSwitch
     \/ /\ ~safetyPreempted /\ answer = "failed" /\ controllers = source
        /\ modeMoves("unlock")
     \/ /\ ~safetyPreempted /\ answer # "ambiguous" /\ controllers = "disabled"
        /\ unsafeModeSwitch(FALSE)
  /\ switched' = [switched EXCEPT !["mode"] = "none"]
  /\ modeFrame /\ UNCHANGED controllers

(* The new mode is stored whatever has happened since the last check.      *)
ModeStore ==
  /\ pc["mode"] = "store"
  /\ control_mode' = target
  /\ Goto("mode", "unlock")
  /\ modeFrame
  /\ UNCHANGED <<controllers, owner, flags, result, switched>>

(* release_switch() on the ways out that leave the group enabled.          *)
ModeUnlock ==
  /\ pc["mode"] = "unlock"
  /\ Lower({"switch_in_progress"})
  /\ Goto("mode", "release")
  /\ modeFrame
  /\ UNCHANGED <<controllers, owner, control_mode, result, switched>>

(* convergeAfterUnsafeModeSwitch(): the group is driven down on the mode   *)
(* service's own authority.                                                *)
convergeAfterUnsafeModeSwitch(require_restart) ==
  /\ pc["mode"] = IF require_restart THEN "converge_restart" ELSE "converge"
  /\ flags' = (flags \ {"restart_required"})
       \cup {"jtc_deactivation_required", "disable_request"}
       \cup (IF require_restart
               THEN {"restart_required", "emergency_jtc_deactivate_request"} ELSE {})
  /\ control_mode' = IF require_restart THEN "restart_required" ELSE "disabled"
  /\ ForgetResult("disable")
  /\ owner' = "disable"
  /\ Goto("mode", "release")
  /\ modeFrame
  /\ UNCHANGED <<controllers, switched>>

(* releaseModeOwnership() and the answer.                                  *)
ModeRelease ==
  /\ pc["mode"] = "release"
  /\ owner' = IF owner = "mode" THEN "none" ELSE owner
  /\ Goto("mode", "idle")
  /\ modeFrame
  /\ UNCHANGED <<controllers, control_mode, flags, result, switched>>

ModeService ==
  \/ ModeEnter \/ ModeCas \/ ModeValidate \/ ModeList \/ ModeDecide \/ ModeCall \/ ModeConfirm
  \/ ModeDrives \/ ModeDrivesWait \/ ModeDrivesShown \/ ModeStore \/ ModeUnlock
  \/ \E require_restart \in BOOLEAN : convergeAfterUnsafeModeSwitch(require_restart)
  \/ ModeRelease
=============================================================================
