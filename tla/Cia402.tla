------------------------------- MODULE Cia402 -------------------------------
(***************************************************************************)
(* The CiA 402 drive as the enable manager sees it: the states that        *)
(* decode_cia402_state distinguishes in a status word, the control words   *)
(* the manager writes, and how a drive may answer one.  The drive itself   *)
(* is external hardware; it is modelled from the standard's state diagram  *)
(* and from the answers the manager waits for.                             *)
(***************************************************************************)

(* The enumerators of hw_semantic_components::Cia402State.                 *)
DriveStates ==
  {"not_ready_to_switch_on", "switch_on_disabled", "ready_to_switch_on",
   "switched_on", "operation_enabled", "quick_stop_active",
   "fault_reaction_active", "fault", "unknown"}

(* The control words of the manager, by name:                              *)
(*   disable_voltage 0x0000   quick_stop       0x0002   shutdown    0x0006 *)
(*   switch_on       0x0007   enable_operation 0x000F   fault_reset 0x0080 *)
(* 0x0007 is "switch on" below operation enabled and "disable operation"   *)
(* in it.                                                                  *)
ControlWords ==
  {"disable_voltage", "quick_stop", "shutdown", "switch_on",
   "enable_operation", "fault_reset"}

isFaultState(s) == s \in {"fault", "fault_reaction_active"}

(* Where a drive in state s may go while it is given the word w.  A drive  *)
(* needs time, so it may also stay; spontaneous changes are not here.      *)
Answers(s, w) ==
  CASE s = "not_ready_to_switch_on" -> {"switch_on_disabled"}
    [] s = "switch_on_disabled" ->
         IF w = "shutdown" THEN {"ready_to_switch_on"} ELSE {}
    [] s = "ready_to_switch_on" ->
         IF w \in {"switch_on", "enable_operation"} THEN {"switched_on"}
         ELSE IF w \in {"disable_voltage", "quick_stop"} THEN {"switch_on_disabled"}
         ELSE {}
    [] s = "switched_on" ->
         IF w = "enable_operation" THEN {"operation_enabled"}
         ELSE IF w = "shutdown" THEN {"ready_to_switch_on"}
         ELSE IF w \in {"disable_voltage", "quick_stop"} THEN {"switch_on_disabled"}
         ELSE {}
    [] s = "operation_enabled" ->
         IF w = "switch_on" THEN {"switched_on"}
         ELSE IF w = "shutdown" THEN {"ready_to_switch_on"}
         ELSE IF w = "quick_stop" THEN {"quick_stop_active"}
         ELSE IF w = "disable_voltage" THEN {"switch_on_disabled"}
         ELSE {}
    [] s = "quick_stop_active" ->
         IF w \in {"disable_voltage", "quick_stop"} THEN {"switch_on_disabled"} ELSE {}
    [] s = "fault_reaction_active" -> {"fault"}
    [] s = "fault" -> IF w = "fault_reset" THEN {"switch_on_disabled"} ELSE {}
    [] OTHER -> DriveStates \ {"unknown"}    \* the first valid sample

(* A word that takes the drive one step up towards torque.                 *)
Raises(s, w) ==
  \/ s = "switch_on_disabled" /\ w = "shutdown"
  \/ s = "ready_to_switch_on" /\ w \in {"switch_on", "enable_operation"}
  \/ s = "switched_on" /\ w = "enable_operation"
=============================================================================
