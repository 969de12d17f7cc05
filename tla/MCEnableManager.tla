--------------------------- MODULE MCEnableManager ---------------------------
(* Instances of the enable manager for model checking.                     *)
EXTENDS EnableProperties

TwoBatches == <<{1}, {2}>>
OneBatch   == <<{1}>>
NoBatches  == <<>>

(* The state without the members that are written again before the next    *)
(* time they are read: what the runs of safety properties tell apart.      *)
Upward   == phase \in {"enabling", "inter_batch_delay"}
Downhill == phase \in {"startup_sanitizing", "disabling", "rollback", "reset_disabling",
                       "emergency_disable"}
DeadFlags ==
  (IF Upward THEN {} ELSE {"enable_preempt_requested", "device_stage", "state_sources_qualified"})
  \cup (IF phase = "jtc_activating" THEN {}
        ELSE {"jtc_activated_request", "jtc_activate_failed_request"})
  \cup (IF pc["enable"] = "wait_hardware" THEN {} ELSE {"enable_hardware_ready"})
  \cup (IF pc["mode"] \in {"validate", "list", "decide"} THEN {} ELSE {"mode_abort_requested"})
  \cup (IF Workers = {} THEN {"emergency_jtc_deactivate_request", "jtc_deactivation_required",
                               "motion_fault_request"}
                        ELSE {})

LiveState ==
  <<hwVars, cmdVars, controllers, phase, owner, control_mode, flags \ DeadFlags,
    [s \in Services |-> IF pc[s] \in {"idle", "cas", "mode_wait", "begin"} /\ result[s] # "none"
                          THEN "stale" ELSE result[s]],
    IF Upward THEN <<current_batch, mode_confirmed, ready_since>> ELSE <<>>,
    IF Upward \/ Downhill \/ phase \in {"emergency_quick_stop", "reset_high"}
      THEN stage_deadline ELSE 0,
    IF Downhill THEN downward_stage ELSE 0,
    primary_failure,
    IF phase \in {"reset_low", "reset_high"} THEN reset_targets ELSE {},
    IF phase \in {"emergency_quick_stop", "emergency_disable"} THEN interrupted_owner ELSE "none",
    pc, switched, seen,
    IF pc["mode"] \in {"idle", "unlock", "converge", "converge_restart", "release"}
      THEN "motion" ELSE source>>

(* A bound on the interleavings: no other service is called while an       *)
(* enable is at work, but a mode switch that has begun before goes on; and *)
(* the link is down only while at most one service is at work.             *)
EnableAlone ==
  /\ pc["enable"] # "idle" => \A t \in Threads \ {"enable", "mode"} : pc[t] = "idle"
  /\ ~online => \A s, t \in Threads : s = t \/ "idle" \in {pc[s], pc[t]}
=============================================================================
