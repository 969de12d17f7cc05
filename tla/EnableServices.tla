--------------------------- MODULE EnableServices ---------------------------
(***************************************************************************)
(* The non-realtime side of the enable manager: the threads that run       *)
(* /rt/enable, /rt/disable and /rt/reset_fault, and the ticks of the 20 ms *)
(* worker timer.  An action is the code of one thread between two points   *)
(* at which another thread or the update can run; the callback guards      *)
(* allow one thread per service.  A service answers its client where pc    *)
(* returns to "idle".  The controller manager is external.                 *)
(***************************************************************************)
EXTENDS EnableManagerState

Goto(t, l)   == pc' = [pc EXCEPT ![t] = l]
Raise(S)     == flags' = flags \cup S
Lower(S)     == flags' = flags \ S
Up(f)        == f \in flags
ForgetResult(s) == result' = [result EXCEPT ![s] = "none"]

serviceFrame == UNCHANGED <<hwVars, cmdVars, rtVars>>

(* A wait ends when the manager is deactivated or at its own deadline,     *)
(* which the update does not know of: where it can pass, it may pass at    *)
(* any time.                                                               *)
waitGivesUp == ClientTimeouts \/ ~Up("active")

waitForResult(t) ==
  /\ pc[t] = "wait_result"
  /\ result[t] # "none" \/ waitGivesUp
  /\ Goto(t, "idle")
  /\ serviceFrame
  /\ UNCHANGED <<controllers, sharedVars, switched, seen, source>>

-----------------------------------------------------------------------------
(* switchJtc(activate), for a thread at label begin.  The controller       *)
(* manager may be unreachable; a request may be refused, in which case     *)
(* STRICT leaves the controllers as they were; an answer may come too late *)
(* or contradict list_controllers, in which case they may be either way.   *)

switchBegin(t, begin, call, after) ==
  /\ pc[t] = begin
  /\ \/ /\ EnableOnly
        /\ Goto(t, after) /\ switched' = [switched EXCEPT ![t] = "success"]
        /\ UNCHANGED flags
     \/ /\ ~EnableOnly                     \* busy, or the manager is unreachable
        /\ Goto(t, after) /\ switched' = [switched EXCEPT ![t] = "ambiguous"]
        /\ UNCHANGED flags
     \/ /\ ~EnableOnly /\ ~Up("switch_in_progress")
        /\ Raise({"switch_in_progress"})
        /\ Goto(t, call) /\ UNCHANGED switched
  /\ serviceFrame
  /\ UNCHANGED <<controllers, phase, owner, control_mode, result, seen, source>>

switchCall(t, call, after, target) ==
  /\ pc[t] = call
  /\ \E outcome \in {"success", "failed", "ambiguous"} :
       /\ switched' = [switched EXCEPT ![t] = outcome]
       /\ \/ outcome = "success" /\ controllers' = target
          \/ outcome = "failed" /\ UNCHANGED controllers
          \/ outcome = "ambiguous" /\ controllers' \in {controllers, target}
  /\ Lower({"switch_in_progress"})
  /\ Goto(t, after)
  /\ serviceFrame
  /\ UNCHANGED <<phase, owner, control_mode, result, seen, source>>

-----------------------------------------------------------------------------
(* handleEnable                                                            *)

EnableEnter ==
  /\ pc["enable"] = "idle"
  /\ Up("active") /\ ~Up("restart_required")
  /\ phase = "idle"
  /\ Goto("enable", "cas")
  /\ serviceFrame
  /\ UNCHANGED <<controllers, sharedVars, switched, seen, source>>

EnableCas ==
  /\ pc["enable"] = "cas"
  /\ \/ /\ owner # "none"
        /\ Goto("enable", "idle")
        /\ UNCHANGED <<owner, flags, result>>
     \/ /\ owner = "none"
        /\ owner' = "enable"
        /\ ForgetResult("enable")
        /\ flags' = (flags \ {"enable_hardware_ready"}) \cup {"enable_request"}
        /\ Goto("enable", "wait_hardware")
  /\ serviceFrame
  /\ UNCHANGED <<controllers, phase, control_mode, switched, seen, source>>

(* The wait ends on the result or the deadline, or goes on to activate the *)
(* motion controllers once the hardware is ready.                          *)
EnableWaitHardware ==
  /\ pc["enable"] = "wait_hardware"
  /\ \/ /\ \/ result["enable"] # "none"
           \/ ~Up("enable_hardware_ready") /\ waitGivesUp
        /\ Goto("enable", "idle")
        /\ UNCHANGED flags
     \/ /\ result["enable"] = "none" /\ Up("enable_hardware_ready")
        /\ Raise({"jtc_deactivation_required"})
        /\ Goto("enable", "switch")
  /\ serviceFrame
  /\ UNCHANGED <<controllers, phase, owner, control_mode, result, switched, seen, source>>

EnableSwitch ==
  \/ switchBegin("enable", "switch", "call", "after")
  \/ switchCall("enable", "call", "after", "motion")

EnableAfterSwitchSilent ==             \* mutant: a failed activation is not told
  /\ pc["enable"] = "after"
  /\ flags' = IF switched["enable"] = "success" /\ phase = "jtc_activating"
                THEN flags \cup {"jtc_activated_request"} ELSE flags
  /\ switched' = [switched EXCEPT !["enable"] = "none"]
  /\ Goto("enable", "wait_result")
  /\ serviceFrame
  /\ UNCHANGED <<controllers, phase, owner, control_mode, result, seen, source>>

EnableAfterSwitch ==
  /\ pc["enable"] = "after"
  /\ LET outcome == switched["enable"]
         kept == IF outcome = "failed" THEN flags \ {"jtc_deactivation_required"} ELSE flags
     IN flags' = kept
          \cup (IF outcome = "ambiguous"
                  THEN {"restart_required", "emergency_jtc_deactivate_request"} ELSE {})
          \cup (IF phase # "jtc_activating" THEN {}
                ELSE IF outcome = "success" THEN {"jtc_activated_request"}
                ELSE {"jtc_activate_failed_request"})
  /\ switched' = [switched EXCEPT !["enable"] = "none"]
  /\ Goto("enable", "wait_result")
  /\ serviceFrame
  /\ UNCHANGED <<controllers, phase, owner, control_mode, result, seen, source>>

-----------------------------------------------------------------------------
(* handleDisable                                                           *)

NotDisableable ==
  {"idle", "startup_sanitizing", "emergency_quick_stop", "emergency_disable",
   "jtc_activating", "disabling", "rollback"}

DisableEnter ==
  /\ pc["disable"] = "idle"
  /\ Up("active")
  /\ phase \notin NotDisableable
  /\ seen' = [phase |-> phase, owner |-> owner]
  /\ IF MotionModeSwitching /\ owner = "mode"
       THEN Raise({"mode_abort_requested"}) /\ Goto("disable", "mode_wait")
       ELSE UNCHANGED flags /\ Goto("disable", "cas")
  /\ serviceFrame
  /\ UNCHANGED <<controllers, phase, owner, control_mode, result, switched, source>>

(* The disable waits for a mode switch to abort.  If it does not, the      *)
(* group is driven down without the mode owner and a restart is required.  *)
DisableModeWait ==
  /\ pc["disable"] = "mode_wait"
  /\ seen' = IF owner # "mode" /\ phase = "enabled"
               THEN [phase |-> phase, owner |-> owner] ELSE NotSeen
  /\ \/ /\ owner = "mode"
        /\ control_mode' = "restart_required"
        /\ Raise({"restart_required", "jtc_deactivation_required",
                  "emergency_jtc_deactivate_request", "disable_request"})
        /\ Goto("disable", "idle")
     \/ /\ owner # "mode"
        /\ Goto("disable", IF phase = "enabled" THEN "cas" ELSE "idle")
        /\ UNCHANGED <<flags, control_mode>>
  /\ serviceFrame
  /\ UNCHANGED <<controllers, phase, owner, result, switched, source>>

preemptEnable == seen.owner = "enable" /\ seen.phase \in {"enabling", "inter_batch_delay"}
preemptReset  == seen.owner = "reset" /\ seen.phase \in {"reset_low", "reset_high"}

DisableCas ==
  /\ pc["disable"] = "cas"
  /\ IF preemptEnable \/ preemptReset
       THEN Goto("disable", "begin") /\ UNCHANGED owner
       ELSE IF owner = "none"
              THEN Goto("disable", "begin") /\ owner' = "disable"
              ELSE Goto("disable", "idle") /\ UNCHANGED owner
  /\ seen' = IF pc'["disable"] = "idle" THEN NotSeen ELSE seen
  /\ serviceFrame
  /\ UNCHANGED <<controllers, phase, control_mode, flags, result, switched, source>>

(* The phase was read before the owner was won; it is stored regardless.   *)
DisableBegin ==
  /\ pc["disable"] = "begin"
  /\ ForgetResult("disable") /\ seen' = NotSeen
  /\ IF seen.phase = "enabled"
       THEN /\ Lower({"jtc_deactivate_failed"})
            /\ phase' = "jtc_deactivating"
            /\ Goto("disable", "switch")
       ELSE /\ flags' = (flags \ {"jtc_deactivate_failed"}) \cup {"disable_request"}
            /\ UNCHANGED phase
            /\ Goto("disable", "wait_result")
  /\ serviceFrame
  /\ UNCHANGED <<controllers, owner, control_mode, switched, source>>

DisableSwitch ==
  \/ switchBegin("disable", "switch", "call", "after")
  \/ switchCall("disable", "call", "after", "disabled")

(* After the switch, for the disable service and for a motion fault.       *)
deactivatedOrNot(t) ==                 \* mutant: no disable after a failed switch
  /\ flags' = IF switched[t] = "success"
                THEN (flags \ {"jtc_deactivation_required"}) \cup {"disable_request"}
                ELSE flags \cup {"jtc_deactivate_failed", "restart_required"}
  /\ switched' = [switched EXCEPT ![t] = "none"]

deactivated(t) ==
  /\ flags' = IF switched[t] = "success"
                THEN (flags \ {"jtc_deactivation_required"}) \cup {"disable_request"}
                ELSE flags \cup {"jtc_deactivate_failed", "restart_required", "disable_request"}
  /\ switched' = [switched EXCEPT ![t] = "none"]

DisableAfterSwitch ==
  /\ pc["disable"] = "after"
  /\ deactivated("disable")
  /\ Goto("disable", "wait_result")
  /\ serviceFrame
  /\ UNCHANGED <<controllers, phase, owner, control_mode, result, seen, source>>

-----------------------------------------------------------------------------
(* handleResetFault                                                        *)

ResetEnter ==
  /\ pc["reset"] = "idle"
  /\ Up("active") /\ ~Up("restart_required")
  /\ phase \in {"idle", "failed"}
  /\ Goto("reset", "cas")
  /\ serviceFrame
  /\ UNCHANGED <<controllers, sharedVars, switched, seen, source>>

ResetCas ==
  /\ pc["reset"] = "cas"
  /\ \/ /\ owner # "none"
        /\ Goto("reset", "idle")
        /\ UNCHANGED <<owner, flags, result>>
     \/ /\ owner = "none"
        /\ owner' = "reset"
        /\ ForgetResult("reset")
        /\ Raise({"reset_request"})
        /\ Goto("reset", "wait_result")
  /\ serviceFrame
  /\ UNCHANGED <<controllers, phase, control_mode, switched, seen, source>>

-----------------------------------------------------------------------------
(* The motion fault subscription and the worker timer.                     *)

MotionFaultReport ==
  /\ phase = "enabled" /\ ~Up("motion_fault_request")
  /\ Raise({"motion_fault_request"})
  /\ serviceFrame
  /\ UNCHANGED <<controllers, phase, owner, control_mode, result, threadVars>>

(* handleMotionFault(), the first half of a tick.                          *)
WorkerTick(w) ==
  /\ pc[w] = "idle"
  /\ flags \cap {"motion_fault_request", "emergency_jtc_deactivate_request"} # {}
  /\ IF Up("motion_fault_request") /\ phase = "enabled"
       THEN Goto(w, "mf_cas") /\ UNCHANGED flags
       ELSE Goto(w, "stop") /\ Lower({"motion_fault_request"})
  /\ serviceFrame
  /\ UNCHANGED <<controllers, phase, owner, control_mode, result, switched, seen, source>>

MotionFaultCas(w) ==
  /\ pc[w] = "mf_cas"
  /\ \/ owner # "none" /\ Goto(w, "stop") /\ UNCHANGED <<owner, flags, result>>
     \/ /\ owner = "none"
        /\ owner' = "disable"
        /\ flags' = (flags \ {"motion_fault_request", "jtc_deactivate_failed"})
                      \cup {"motion_fault_pending"}
        /\ ForgetResult("disable")
        /\ Goto(w, "mf_begin")
  /\ serviceFrame
  /\ UNCHANGED <<controllers, phase, control_mode, switched, seen, source>>

MotionFaultBegin(w) ==
  /\ pc[w] = "mf_begin"
  /\ phase' = "jtc_deactivating"
  /\ Goto(w, "mf_switch")
  /\ serviceFrame
  /\ UNCHANGED <<controllers, owner, control_mode, flags, result, switched, seen, source>>

MotionFaultSwitch(w) ==
  \/ switchBegin(w, "mf_switch", "mf_call", "mf_after")
  \/ switchCall(w, "mf_call", "mf_after", "disabled")

MotionFaultAfterSwitch(w) ==
  /\ pc[w] = "mf_after"
  /\ deactivated(w)
  /\ Goto(w, "stop")
  /\ serviceFrame
  /\ UNCHANGED <<controllers, phase, owner, control_mode, result, seen, source>>

(* handleNonRtFaultStop(), the second half: the controllers of a group     *)
(* that has stopped in an emergency are deactivated.                       *)
FaultStop(w) ==
  /\ pc[w] = "stop"
  /\ IF Up("switch_in_progress") \/ ~Up("emergency_jtc_deactivate_request")
       THEN Goto(w, "idle") /\ UNCHANGED flags
       ELSE /\ Lower({"emergency_jtc_deactivate_request"})
            /\ Goto(w, IF Up("jtc_deactivation_required") THEN "switch" ELSE "idle")
  /\ serviceFrame
  /\ UNCHANGED <<controllers, phase, owner, control_mode, result, switched, seen, source>>

FaultStopSwitch(w) ==
  \/ switchBegin(w, "switch", "call", "after")
  \/ switchCall(w, "call", "after", "disabled")

FaultStopAfterSwitchSilent(w) ==       \* mutant: a failed stop is not latched
  /\ pc[w] = "after"
  /\ Lower(IF switched[w] = "success" THEN {"jtc_deactivation_required"} ELSE {})
  /\ switched' = [switched EXCEPT ![w] = "none"]
  /\ Goto(w, "idle")
  /\ serviceFrame
  /\ UNCHANGED <<controllers, phase, owner, control_mode, result, seen, source>>

FaultStopAfterSwitch(w) ==
  /\ pc[w] = "after"
  /\ IF switched[w] = "success" THEN Lower({"jtc_deactivation_required"})
                                ELSE Raise({"restart_required"})
  /\ switched' = [switched EXCEPT ![w] = "none"]
  /\ Goto(w, "idle")
  /\ serviceFrame
  /\ UNCHANGED <<controllers, phase, owner, control_mode, result, seen, source>>

-----------------------------------------------------------------------------
EnableService ==
  \/ EnableEnter \/ EnableCas \/ EnableWaitHardware \/ EnableSwitch
  \/ EnableAfterSwitch \/ waitForResult("enable")

DisableService ==
  \/ DisableEnter \/ DisableModeWait \/ DisableCas \/ DisableBegin \/ DisableSwitch
  \/ DisableAfterSwitch \/ waitForResult("disable")

ResetService == ResetEnter \/ ResetCas \/ waitForResult("reset")

Worker(w) ==
  \/ WorkerTick(w) \/ MotionFaultCas(w) \/ MotionFaultBegin(w) \/ MotionFaultSwitch(w)
  \/ MotionFaultAfterSwitch(w) \/ FaultStop(w) \/ FaultStopSwitch(w) \/ FaultStopAfterSwitch(w)
=============================================================================
