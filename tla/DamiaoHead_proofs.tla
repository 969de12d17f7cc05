------------------------- MODULE DamiaoHead_proofs -------------------------
(***************************************************************************)
(* Theorems about the head, for any number of motors and any timeouts:     *)
(* its invariant, what its frames promise, and that it implements the      *)
(* handshake device the enable manager's model assumes.                    *)
(***************************************************************************)
EXTENDS DamiaoHead, TLAPS

(* A manager that has agreed with the head has claimed an active head.     *)
AgreedIsBound == agreed => bound /\ lifecycle = "active"

(* What stands on the bus when write() runs has been answered.             *)
BusIsRead == turn = "write" => sent = {}

HInv == HeadTypeOK /\ LatchCoherent /\ AgreedIsBound /\ BusIsRead

-----------------------------------------------------------------------------
(* Types                                                                   *)

SystemTypes  == /\ sent \in SUBSET Frames
                /\ special_wait \in 0..SpecialPeriod /\ command_wait \in 0..CommandPeriod
                /\ poll_wait \in 0..SpecialPeriod
MachineTypes == /\ phase \in Phases /\ fault_latched \in BOOLEAN
                /\ handled_reset_generation \in Nat /\ pending_reset_generation \in Nat
                /\ since \in 0..(TransitionTimeout + 1)
                /\ after \in [Motors -> BOOLEAN]

(* Emit sends frames, and its limiters stay in their ranges.               *)
LEMMA EmitTypes ==
  ASSUME SystemTypes, NEW p, NEW actions \in SUBSET Frames, Emit(p, actions)
  PROVE  SystemTypes'
  BY HeadAssumption DEF SystemTypes, Emit, Frames, Special

(* A step of the state machine keeps the types.                            *)
LEMMA StepTypes ==
  ASSUME HeadTypeOK, step PROVE SystemTypes' /\ MachineTypes'
<1> SystemTypes /\ MachineTypes /\ reset_generation \in Nat
  BY DEF HeadTypeOK, SystemTypes, MachineTypes
<1>0. /\ {} \in SUBSET Frames /\ {"disable"} \in SUBSET Frames
      /\ {"clear_fault"} \in SUBSET Frames /\ {"position"} \in SUBSET Frames
      /\ {"position", "enable"} \in SUBSET Frames
  BY DEF Frames, Special
<1>1. ASSUME latch_fault PROVE SystemTypes' /\ MachineTypes'
  <2>1. SystemTypes' BY <1>0, <1>1, EmitTypes DEF latch_fault
  <2>2. MachineTypes' BY <1>1 DEF latch_fault, latched, MachineTypes, Phases
  <2> QED BY <2>1, <2>2
<1>2. ASSUME NEW a \in SUBSET Frames, stays(a) PROVE SystemTypes' /\ MachineTypes'
  <2>1. SystemTypes' BY <1>2, EmitTypes DEF stays
  <2>2. MachineTypes' BY <1>2 DEF stays, machineVars, MachineTypes
  <2> QED BY <2>1, <2>2
<1>3. ASSUME NEW p \in Phases, NEW a \in SUBSET Frames, transition(p, a),
             pending_reset_generation' \in Nat
      PROVE SystemTypes' /\ MachineTypes'
  <2>1. SystemTypes' BY <1>3, EmitTypes DEF transition
  <2>2. MachineTypes' BY <1>3, HeadAssumption DEF transition, MachineTypes
  <2> QED BY <2>1, <2>2
<1>4. CASE stepDisabled
  <2>1. CASE latch_fault BY <2>1, <1>1
  <2>2. CASE ~latch_fault
    <3>1. SystemTypes' BY <1>4, <2>2, <1>0, EmitTypes DEF stepDisabled
    <3>2. MachineTypes'
      <4>1. /\ handled_reset_generation' = reset_generation
            /\ UNCHANGED <<fault_latched, pending_reset_generation>>
        BY <1>4, <2>2 DEF stepDisabled
      <4>2. CASE phase' = "enabling" /\ since' = 0 /\ after' = [m \in Motors |-> FALSE]
        BY <4>1, <4>2, HeadAssumption DEF MachineTypes, Phases
      <4>3. CASE UNCHANGED <<phase, since, after>>
        BY <4>1, <4>3 DEF MachineTypes
      <4> QED BY <1>4, <2>2, <4>2, <4>3 DEF stepDisabled
    <3> QED BY <3>1, <3>2
  <2> QED BY <2>1, <2>2
<1>5. CASE stepEnabling
  <2>1. CASE latch_fault_from_transition
    <3>1. SystemTypes' BY <2>1, <1>0, EmitTypes DEF latch_fault_from_transition
    <3>2. MachineTypes'
      BY <2>1, HeadAssumption DEF latch_fault_from_transition, MachineTypes, Phases
    <3> QED BY <3>1, <3>2
  <2>2. CASE ~latch_fault_from_transition
    BY <1>5, <2>2, <1>0, <1>1, <1>2, <1>3 DEF stepEnabling, Phases, MachineTypes
  <2> QED BY <2>1, <2>2
<1>6. CASE stepEnabled
  BY <1>6, <1>0, <1>1, <1>2, <1>3 DEF stepEnabled, Phases, MachineTypes
<1>7. CASE stepDisabling
  BY <1>7, <1>0, <1>1, <1>2, <1>3 DEF stepDisabling, Phases, MachineTypes
<1>8. CASE stepFaultLatched
  BY <1>8, <1>0, <1>1, <1>2, <1>3 DEF stepFaultLatched, Phases
<1>9. CASE stepResetDisabling
  BY <1>9, <1>0, <1>1, <1>2, <1>3 DEF stepResetDisabling, Phases, MachineTypes
<1>10. CASE stepResetting
  <2>1. CASE latch_fault BY <2>1, <1>1
  <2>2. CASE stays({"clear_fault"}) BY <2>2, <1>0, <1>2
  <2>3. CASE ~latch_fault /\ ~stays({"clear_fault"})
    <3>1. SystemTypes' BY <1>10, <2>3, <1>0, EmitTypes DEF stepResetting
    <3>2. MachineTypes' BY <1>10, <2>3 DEF stepResetting, MachineTypes, Phases
    <3> QED BY <3>1, <3>2
  <2> QED BY <2>1, <2>2, <2>3
<1> QED BY <1>4, <1>5, <1>6, <1>7, <1>8, <1>9, <1>10 DEF step

(* Every step keeps the types.                                             *)
LEMMA NextTypes ==
  ASSUME HeadTypeOK, [Next]_vars PROVE HeadTypeOK'
<1> USE DEF systemVars, machineVars, commandVars, busVars
<1>1. CASE read /\ Manager
  <2>1. /\ enable_request' \in {"off", "on", "garbled"} /\ reset_generation' \in Nat
        /\ bound' \in BOOLEAN /\ agreed' \in BOOLEAN
    <3>1. /\ enable_request \in {"off", "on", "garbled"} /\ reset_generation \in Nat
          /\ handled_reset_generation \in Nat /\ bound \in BOOLEAN /\ agreed \in BOOLEAN
      BY DEF HeadTypeOK
    <3>2. CASE request_enable BY <3>1, <3>2 DEF request_enable, commands
    <3>3. CASE start_reset BY <3>1, <3>3 DEF start_reset, commands
    <3>4. CASE garble BY <3>1, <3>4 DEF garble, commands
    <3>5. CASE baseline BY <3>1, <3>5 DEF baseline, commands
    <3>6. CASE release BY <3>1, <3>6 DEF release
    <3> QED BY <1>1, <3>2, <3>3, <3>4, <3>5, <3>6 DEF Manager
  <2>2. /\ lifecycle' = lifecycle /\ phase' = phase /\ fault_latched' = fault_latched
        /\ handled_reset_generation' = handled_reset_generation
        /\ pending_reset_generation' = pending_reset_generation /\ bus' = bus
        /\ turn' = "write" /\ sent' = {}
    BY <1>1 DEF read
  <2>3. motor' \in [Motors -> Statuses]
    BY <1>1 DEF read, HeadTypeOK, MotorAfter, Statuses
  <2>4. PICK rx \in [Motors -> Statuses \cup {"none"}] :
          IF lifecycle = "unconfigured" THEN UNCHANGED <<status, age, after>>
          ELSE /\ status' = [m \in Motors |-> IF rx[m] # "none" THEN rx[m] ELSE status[m]]
               /\ age' = [m \in Motors |-> IF rx[m] # "none" THEN 0
                                            ELSE Stop(age[m], FeedbackTimeout + 1)]
               /\ after' = [m \in Motors |-> rx[m] # "none" \/ after[m]]
    BY <1>1 DEF read
  <2>5. status' \in [Motors -> Statuses] BY <2>4 DEF HeadTypeOK
  <2>6. age' \in [Motors -> 0..(FeedbackTimeout + 1)]
    BY <2>4, HeadAssumption DEF HeadTypeOK, Stop
  <2>7. after' \in [Motors -> BOOLEAN] BY <2>4 DEF HeadTypeOK
  <2>8. /\ since' \in 0..(TransitionTimeout + 1) /\ special_wait' \in 0..SpecialPeriod
        /\ command_wait' \in 0..CommandPeriod /\ poll_wait' \in 0..SpecialPeriod
    BY <1>1, HeadAssumption DEF read, HeadTypeOK, Stop, Tick
  <2> QED BY <2>1, <2>2, <2>3, <2>5, <2>6, <2>7, <2>8 DEF HeadTypeOK
<1>2. CASE write
  <2>1. UNCHANGED <<lifecycle, status, age, commandVars, busVars>> /\ turn' = "read"
    BY <1>2 DEF write
  <2>2. SystemTypes' /\ MachineTypes'
    <3>1. CASE step BY <3>1, StepTypes
    <3>2. CASE latched /\ sent' = {"disable"} /\ UNCHANGED <<special_wait, command_wait, poll_wait>>
      BY <3>2 DEF latched, HeadTypeOK, SystemTypes, MachineTypes, Phases, Frames, Special
    <3>3. CASE UNCHANGED <<sent, machineVars, special_wait, command_wait, poll_wait>>
      BY <3>3 DEF HeadTypeOK, SystemTypes, MachineTypes
    <3> QED BY <1>2, <3>1, <3>2, <3>3 DEF write
  <2> QED BY <2>1, <2>2 DEF HeadTypeOK, SystemTypes, MachineTypes
<1>3. CASE on_configure
  <2>1. {"off", "fault"} \subseteq Statuses BY DEF Statuses
  <2>2. phase' \in Phases /\ fault_latched' \in BOOLEAN
    BY <1>3 DEF on_configure, FirstPhase, Phases
  <2> QED BY <1>3, <2>1, <2>2, HeadAssumption DEF on_configure, HeadTypeOK, Frames
<1>4. CASE on_configure_fails
  BY <1>4 DEF on_configure_fails, HeadTypeOK, Frames, Special
<1>5. CASE on_activate
  BY <1>5, HeadAssumption DEF on_activate, HeadTypeOK
<1>6. CASE on_deactivate
  BY <1>6 DEF on_deactivate, release, HeadTypeOK, Frames, Special
<1>7. CASE close
  BY <1>7 DEF close, release, HeadTypeOK, Frames, Special
<1>8. CASE UNCHANGED vars
  BY <1>8 DEF vars, HeadTypeOK
<1> QED BY <1>1, <1>2, <1>3, <1>4, <1>5, <1>6, <1>7, <1>8 DEF Next, Loop, Lifecycle

-----------------------------------------------------------------------------
(* The inductive invariant                                                 *)

(* A step of the state machine keeps the latch and the generations         *)
(* coherent.                                                               *)
LEMMA StepCoherent ==
  ASSUME HInv, step, UNCHANGED <<reset_generation, agreed>> PROVE LatchCoherent'
<1> USE DEF Resets
<1>0. /\ LatchCoherent /\ phase \in Phases /\ fault_latched \in BOOLEAN
      /\ reset_generation \in Nat /\ handled_reset_generation \in Nat
      /\ pending_reset_generation \in Nat
  BY DEF HInv, HeadTypeOK
<1>1. ASSUME latch_fault PROVE LatchCoherent'
  BY <1>0, <1>1 DEF latch_fault, latched, LatchCoherent
<1>2. ASSUME NEW a, stays(a) PROVE LatchCoherent'
  BY <1>0, <1>2 DEF stays, machineVars, LatchCoherent
<1>3. CASE stepDisabled
  <2>1. CASE latch_fault BY <2>1, <1>1
  <2>2. CASE ~latch_fault
    <3>1. /\ handled_reset_generation' = reset_generation /\ fault_latched' = fault_latched
          /\ phase' \in {"disabled", "enabling"}
      BY <1>3, <2>2 DEF stepDisabled
    <3> QED BY <1>0, <1>3, <3>1 DEF stepDisabled, LatchCoherent
  <2> QED BY <2>1, <2>2
<1>4. CASE stepEnabling
  <2>1. CASE latch_fault_from_transition
    BY <1>0, <2>1 DEF latch_fault_from_transition, LatchCoherent
  <2>2. ASSUME NEW p \in {"disabling", "enabled"}, NEW a, transition(p, a) PROVE LatchCoherent'
    BY <1>0, <1>4, <2>2 DEF stepEnabling, transition, LatchCoherent
  <2> QED BY <1>4, <1>1, <1>2, <2>1, <2>2 DEF stepEnabling
<1>5. CASE stepEnabled
  <2>1. ASSUME NEW a, transition("disabling", a) PROVE LatchCoherent'
    BY <1>0, <1>5, <2>1 DEF stepEnabled, transition, LatchCoherent
  <2> QED BY <1>5, <1>1, <1>2, <2>1 DEF stepEnabled
<1>6. CASE stepDisabling
  <2>1. ASSUME NEW a, transition("disabled", a) PROVE LatchCoherent'
    BY <1>0, <1>6, <2>1 DEF stepDisabling, transition, LatchCoherent
  <2> QED BY <1>6, <1>1, <1>2, <2>1 DEF stepDisabling
<1>7. CASE stepFaultLatched
  <2>1. ASSUME transition("reset_disabling", {"disable"}),
               pending_reset_generation' = reset_generation,
               reset_generation # handled_reset_generation
        PROVE LatchCoherent'
    BY <1>0, <1>7, <2>1 DEF stepFaultLatched, transition, LatchCoherent
  <2> QED BY <1>7, <1>2, <2>1 DEF stepFaultLatched
<1>8. CASE stepResetDisabling
  <2>1. ASSUME transition("resetting", {"clear_fault"}), UNCHANGED pending_reset_generation
        PROVE LatchCoherent'
    BY <1>0, <1>8, <2>1 DEF stepResetDisabling, transition, LatchCoherent
  <2> QED BY <1>8, <1>1, <1>2, <2>1 DEF stepResetDisabling
<1>9. CASE stepResetting
  <2>1. ASSUME phase' = "disabled", fault_latched' = FALSE,
               handled_reset_generation' = pending_reset_generation
        PROVE LatchCoherent'
    BY <1>0, <1>9, <2>1 DEF stepResetting, LatchCoherent
  <2> QED BY <1>9, <1>1, <1>2, <2>1 DEF stepResetting
<1> QED BY <1>3, <1>4, <1>5, <1>6, <1>7, <1>8, <1>9 DEF step

(* HInv is inductive.                                                      *)
LEMMA NextHInv ==
  ASSUME HInv, [Next]_vars PROVE HInv'
<1> USE DEF systemVars, machineVars, commandVars, busVars, Resets
<1>0. /\ LatchCoherent /\ AgreedIsBound /\ HeadTypeOK
      /\ phase \in Phases /\ fault_latched \in BOOLEAN
      /\ reset_generation \in Nat /\ handled_reset_generation \in Nat
      /\ pending_reset_generation \in Nat /\ bound \in BOOLEAN /\ agreed \in BOOLEAN
      /\ turn \in {"read", "write"}
  BY DEF HInv, HeadTypeOK
<1>1. HeadTypeOK' /\ BusIsRead'
  <2>1. HeadTypeOK' BY <1>0, NextTypes
  <2>2. BusIsRead'
    BY DEF HInv, BusIsRead, Next, Loop, Lifecycle, read, write, on_configure, on_configure_fails,
           on_activate, on_deactivate, close, vars
  <2> QED BY <2>1, <2>2
<1>2. CASE read /\ Manager
  <2>1. UNCHANGED <<lifecycle, phase, fault_latched, handled_reset_generation,
                    pending_reset_generation>>
    BY <1>2 DEF read
  <2>2. CASE request_enable \/ garble
    BY <1>0, <1>1, <2>1, <2>2 DEF request_enable, garble, commands, HInv, LatchCoherent, AgreedIsBound, BusIsRead
  <2>3. CASE start_reset
    BY <1>0, <1>1, <2>1, <2>3 DEF start_reset, commands, HInv, LatchCoherent, AgreedIsBound, BusIsRead
  <2>4. CASE baseline
    BY <1>0, <1>1, <2>1, <2>4 DEF baseline, commands, HInv, LatchCoherent, AgreedIsBound, BusIsRead
  <2>5. CASE release
    BY <1>0, <1>1, <2>1, <2>5 DEF release, HInv, LatchCoherent, AgreedIsBound, BusIsRead
  <2> QED BY <1>2, <2>2, <2>3, <2>4, <2>5 DEF Manager
<1>3. CASE write
  <2>1. UNCHANGED <<lifecycle, commandVars>> BY <1>3 DEF write
  <2>2. AgreedIsBound' BY <1>0, <2>1 DEF AgreedIsBound
  <2>3. LatchCoherent'
    <3>1. CASE step BY <2>1, <3>1, StepCoherent
    <3>2. CASE latched BY <1>0, <2>1, <3>2 DEF latched, LatchCoherent
    <3>3. CASE UNCHANGED machineVars BY <1>0, <2>1, <3>3 DEF LatchCoherent
    <3> QED BY <1>3, <3>1, <3>2, <3>3 DEF write
  <2> QED BY <1>1, <2>2, <2>3 DEF HInv
<1>4. CASE on_configure
  <2>1. phase' \in {"fault_latched", "disabled"} /\ (fault_latched' <=> phase' = "fault_latched")
    BY <1>4 DEF on_configure, FirstPhase
  <2>2. handled_reset_generation' = 0 /\ UNCHANGED commandVars /\ ~agreed
    BY <1>0, <1>4 DEF on_configure, AgreedIsBound
  <2> QED BY <1>0, <1>1, <2>1, <2>2 DEF HInv, LatchCoherent, AgreedIsBound, BusIsRead
<1>5. CASE on_configure_fails \/ on_activate
  <2>1. UNCHANGED <<machineVars, commandVars>> /\ (lifecycle' = "active" \/ lifecycle' = lifecycle)
    BY <1>5 DEF on_configure_fails, on_activate
  <2> QED BY <1>0, <1>1, <2>1 DEF HInv, LatchCoherent, AgreedIsBound, BusIsRead
<1>6. CASE on_deactivate \/ close
  <2>1. UNCHANGED machineVars /\ release
    BY <1>6 DEF on_deactivate, close
  <2> QED BY <1>0, <1>1, <2>1 DEF release, HInv, LatchCoherent, AgreedIsBound, BusIsRead
<1>7. CASE UNCHANGED vars
  BY <1>0, <1>1, <1>7 DEF vars, HInv, LatchCoherent, AgreedIsBound, BusIsRead
<1> QED BY <1>2, <1>3, <1>4, <1>5, <1>6, <1>7 DEF Next, Loop, Lifecycle

(* The component that has just been configured satisfies HInv.             *)
LEMMA InitHInv ==
  ASSUME Init PROVE HInv
<1>1. phase \in {"fault_latched", "disabled"} /\ (fault_latched <=> phase = "fault_latched")
      /\ fault_latched \in BOOLEAN
  BY DEF Init, FirstPhase
<1>2. status \in [Motors -> Statuses] BY DEF Init, Statuses
<1>3. HeadTypeOK
  <2>1. /\ lifecycle = "inactive" /\ bus \in {"good", "bad"} /\ turn = "read"
        /\ handled_reset_generation = 0 /\ pending_reset_generation = 0
        /\ since = TransitionTimeout + 1
        /\ special_wait = 0 /\ command_wait = 0 /\ poll_wait = 0 /\ sent = {}
        /\ enable_request = "off" /\ reset_generation = 0 /\ bound = FALSE /\ agreed = FALSE
    BY DEF Init
  <2>2. /\ motor \in [Motors -> Statuses] /\ age \in [Motors -> 0..(FeedbackTimeout + 1)]
        /\ after \in [Motors -> BOOLEAN]
    BY HeadAssumption DEF Init, Statuses
  <2>3. /\ since \in 0..(TransitionTimeout + 1) /\ special_wait \in 0..SpecialPeriod
        /\ command_wait \in 0..CommandPeriod /\ poll_wait \in 0..SpecialPeriod
        /\ handled_reset_generation \in Nat /\ pending_reset_generation \in Nat
        /\ reset_generation \in Nat
    BY <2>1, HeadAssumption
  <2>4. sent \in SUBSET Frames /\ phase \in Phases /\ bound \in BOOLEAN /\ agreed \in BOOLEAN
    BY <1>1, <2>1 DEF Phases
  <2> QED BY <1>1, <1>2, <2>1, <2>2, <2>3, <2>4 DEF HeadTypeOK
<1>4. LatchCoherent /\ AgreedIsBound /\ BusIsRead
  BY <1>1 DEF Init, LatchCoherent, AgreedIsBound, BusIsRead, Resets
<1> QED BY <1>3, <1>4 DEF HInv

(* The types, the coherence of the latch with the phase and the            *)
(* generations, and who is bound, in every reachable state of the head.    *)
THEOREM HeadInductive == Spec => []HInv
<1>1. Init => HInv BY InitHInv
<1>2. HInv /\ [Next]_vars => HInv' BY NextHInv
<1> QED BY <1>1, <1>2, PTL DEF Spec

(* Type correctness of the head (DamiaoSystem, HeadStateMachine).          *)
THEOREM HeadTypeCorrect == Spec => []HeadTypeOK
<1>1. HInv => HeadTypeOK BY DEF HInv
<1> QED BY <1>1, HeadInductive, PTL

(* A fault is reported until its reset is done, and resets are of          *)
(* unhandled generations (latch_fault, step).                              *)
THEOREM LatchIsCoherent == Spec => []LatchCoherent
<1>1. HInv => LatchCoherent BY DEF HInv
<1> QED BY <1>1, HeadInductive, PTL

-----------------------------------------------------------------------------
(* What the frames promise                                                 *)

(* The frames of Emit come from its actions and from the poll.             *)
LEMMA EmitSends ==
  ASSUME NEW p, NEW actions, Emit(p, actions)
  PROVE  /\ p # phase /\ "disable" \in actions => "disable" \in sent'
         /\ "position" \in sent' => "position" \in actions
         /\ "clear_fault" \in sent' => "clear_fault" \in actions
         /\ "disable" \in sent' => "disable" \in actions \/ p = "disabled"
  BY DEF Emit, Special

(* A write that latches a fault disables the motors in the same write.     *)
THEOREM FaultsDisable == Spec => FaultDisables
<1>1. ASSUME write, phase' = "fault_latched", phase # phase' PROVE "disable" \in sent'
  <2>1. CASE latch_fault
    BY <1>1, <2>1, EmitSends DEF latch_fault
  <2>2. CASE latch_fault_from_transition
    BY <1>1, <2>2, EmitSends DEF latch_fault_from_transition
  <2>3. CASE ~latch_fault /\ ~latch_fault_from_transition
    <3>1. ASSUME NEW a, stays(a) PROVE FALSE
      BY <1>1, <3>1 DEF stays, machineVars
    <3>2. ~step
      BY <1>1, <2>3, <3>1 DEF step, stepDisabled, stepEnabling, stepEnabled, stepDisabling,
         stepFaultLatched, stepResetDisabling, stepResetting, transition
    <3> QED BY <1>1, <3>2 DEF write, machineVars
  <2> QED BY <2>1, <2>2, <2>3
<1> QED BY <1>1, PTL DEF Spec, FaultDisables

(* A step that sends a position frame does so over fresh feedback without  *)
(* a fault, towards an enabled head.                                       *)
LEMMA PositionStep ==
  ASSUME HeadTypeOK, step, "position" \in sent'
  PROVE  /\ all_fresh /\ ~any_fault /\ enable_requested
         /\ "disable" \notin sent' /\ "clear_fault" \notin sent'
<1>1. ASSUME latch_fault \/ latch_fault_from_transition PROVE FALSE
  BY <1>1, EmitSends DEF latch_fault, latch_fault_from_transition
<1>2. ASSUME NEW a, stays(a) PROVE Emit(phase, a)
  BY <1>2 DEF stays
<1>3. ASSUME NEW p, NEW a, transition(p, a) PROVE Emit(p, a)
  BY <1>3 DEF transition
<1>4. ASSUME NEW p, NEW a, Emit(p, a), "position" \notin a PROVE FALSE
  BY <1>4, EmitSends
<1>5. ASSUME NEW p, NEW a \in {{"position"}, {"position", "enable"}}, Emit(p, a), p # "disabled"
      PROVE "disable" \notin sent' /\ "clear_fault" \notin sent'
  BY <1>5, EmitSends
<1>6. CASE stepDisabled
  <2>1. enable_requested /\ all_fresh /\ ~any_fault /\ Emit("enabling", {"position", "enable"})
    BY <1>1, <1>4, <1>6 DEF stepDisabled
  <2> QED BY <2>1, <1>5
<1>7. CASE stepEnabling
  <2>1. /\ enable_requested /\ all_fresh /\ ~any_fault
        /\ \/ Emit("enabled", {"position"})
           \/ phase = "enabling" /\ Emit(phase, {"position", "enable"})
    BY <1>1, <1>2, <1>3, <1>4, <1>7 DEF stepEnabling
  <2> QED BY <2>1, <1>5
<1>8. CASE stepEnabled
  <2>1. /\ enable_requested /\ all_fresh /\ all_status("on")
        /\ phase = "enabled" /\ Emit(phase, {"position"})
    BY <1>1, <1>2, <1>3, <1>4, <1>8 DEF stepEnabled
  <2>2. ~any_fault BY <2>1 DEF any_fault, all_status
  <2> QED BY <2>1, <2>2, <1>5
<1>9. CASE stepDisabling \/ stepFaultLatched \/ stepResetDisabling \/ stepResetting
  BY <1>1, <1>2, <1>3, <1>4, <1>9
     DEF stepDisabling, stepFaultLatched, stepResetDisabling, stepResetting
<1> QED BY <1>6, <1>7, <1>8, <1>9 DEF step

(* A position frame goes out only over fresh feedback without a fault and  *)
(* never beside a frame that disables (write).                             *)
THEOREM PositionsAreSafe == Spec => PositionIsSafe
<1>1. ASSUME HInv, write, "position" \in sent'
      PROVE  /\ \A m \in Motors : age[m] <= FeedbackTimeout /\ status[m] # "fault"
             /\ enable_request = "on" /\ sent' \cap {"disable", "clear_fault"} = {}
  <2>1. CASE step
    BY <1>1, <2>1, PositionStep DEF HInv, all_fresh, any_fault, enable_requested
  <2>2. CASE ~step
    BY <1>1, <2>2 DEF write, HInv, BusIsRead
  <2> QED BY <2>1, <2>2
<1>2. HInv /\ [Next]_vars =>
        [write /\ "position" \in sent' =>
           /\ \A m \in Motors : age[m] <= FeedbackTimeout /\ status[m] # "fault"
           /\ enable_request = "on" /\ sent' \cap {"disable", "clear_fault"} = {}]_vars
  BY <1>1
<1> QED BY <1>2, HeadInductive, PTL DEF Spec, PositionIsSafe

(* A reset ends over new feedback of both motors that shows neither fault  *)
(* nor enable, and consumes its generation (stepResetting).                *)
THEOREM ResetsConsume == Spec => ResetConsumes
<1>1. ASSUME HInv, write, fault_latched, ~fault_latched'
      PROVE  /\ handled_reset_generation # handled_reset_generation'
             /\ agreed => handled_reset_generation < handled_reset_generation'
             /\ \A m \in Motors : after[m] /\ status[m] = "off"
  <2>1. phase \in Resets \cup {"fault_latched"} BY <1>1 DEF HInv, LatchCoherent
  <2>2. ~latched /\ ~latch_fault /\ ~latch_fault_from_transition
    BY <1>1 DEF latch_fault, latched, latch_fault_from_transition
  <2>3. \A a : ~stays(a) BY <1>1 DEF stays, machineVars
  <2>4. \A p, a : ~transition(p, a) BY <1>1 DEF transition
  <2>5. step BY <1>1, <2>2 DEF write, machineVars
  <2>6. stepResetting
    BY <2>1, <2>2, <2>3, <2>4, <2>5
       DEF step, stepDisabled, stepEnabling, stepEnabled, stepDisabling, stepFaultLatched,
           stepResetDisabling, Resets
  <2>7. /\ phase = "resetting" /\ all_received_after_transition /\ all_status("off")
        /\ handled_reset_generation' = pending_reset_generation
    BY <2>2, <2>3, <2>6 DEF stepResetting
  <2> QED BY <1>1, <2>7 DEF HInv, LatchCoherent, Resets, all_received_after_transition, all_status
<1>2. HInv /\ [Next]_vars =>
        [write /\ fault_latched /\ ~fault_latched' =>
           /\ handled_reset_generation # handled_reset_generation'
           /\ agreed => handled_reset_generation < handled_reset_generation'
           /\ \A m \in Motors : after[m] /\ status[m] = "off"]_vars
  BY <1>1
<1> QED BY <1>2, HeadInductive, PTL DEF Spec, ResetConsumes

-----------------------------------------------------------------------------
(* The head implements the handshake device                                *)

DevPending == agreed /\ handled_reset_generation < reset_generation
DevEnable  == agreed /\ enable_requested

(* A step of the state machine is a move of the device, or none.           *)
LEMMA StepMoves ==
  ASSUME HInv, agreed, step, UNCHANGED <<enable_request, reset_generation, agreed>>
  PROVE  \/ UNCHANGED <<Shown, DevPending>>
         \/ Shown' = "fault_latched" /\ UNCHANGED DevPending
         \/ <<Shown', DevPending'>> \in DeviceMoves(Shown, DevPending, DevEnable)
<1> USE DEF Shown, DevPending, DevEnable, DevicePhases, Resets
<1>0. /\ phase \in Phases /\ fault_latched \in BOOLEAN /\ agreed \in BOOLEAN
      /\ reset_generation \in Nat /\ handled_reset_generation \in Nat
      /\ pending_reset_generation \in Nat
      /\ (fault_latched <=> phase \in Resets \cup {"fault_latched"})
      /\ handled_reset_generation <= reset_generation
      /\ phase \in Resets => handled_reset_generation < pending_reset_generation
  BY DEF HInv, HeadTypeOK, LatchCoherent
<1>1. CASE latch_fault \/ latch_fault_from_transition
  BY <1>0, <1>1 DEF latch_fault, latched, latch_fault_from_transition
<1>2. CASE \E a : stays(a)
  BY <1>0, <1>2 DEF stays, machineVars
<1>3. CASE ~latch_fault /\ ~latch_fault_from_transition /\ \A a : ~stays(a)
  <2>1. CASE stepDisabled
    <3>1. /\ phase = "disabled" /\ fault_latched' = fault_latched
          /\ handled_reset_generation' = reset_generation
          /\ phase' = "disabled" \/ (phase' = "enabling" /\ enable_requested)
      BY <1>3, <2>1 DEF stepDisabled
    <3>2. Shown = "disabled" /\ ~DevPending' BY <1>0, <3>1
    <3>3. CASE phase' = "disabled"
      BY <1>0, <3>1, <3>2, <3>3 DEF DeviceMoves
    <3>4. CASE phase' = "enabling" /\ enable_requested
      BY <1>0, <3>1, <3>2, <3>4 DEF DeviceMoves
    <3> QED BY <3>1, <3>3, <3>4
  <2>2. CASE stepEnabling
    <3>1. /\ phase = "enabling" /\ UNCHANGED <<fault_latched, handled_reset_generation>>
          /\ phase' = "disabling" \/ (phase' = "enabled" /\ enable_requested)
      BY <1>3, <2>2 DEF stepEnabling, transition
    <3> QED BY <1>0, <3>1 DEF DeviceMoves
  <2>3. CASE stepEnabled
    <3>1. /\ phase = "enabled" /\ UNCHANGED <<fault_latched, handled_reset_generation>>
          /\ phase' = "disabling" /\ ~enable_requested
      BY <1>3, <2>3 DEF stepEnabled, transition
    <3> QED BY <1>0, <3>1 DEF DeviceMoves
  <2>4. CASE stepDisabling
    <3>1. /\ phase = "disabling" /\ UNCHANGED <<fault_latched, handled_reset_generation>>
          /\ phase' = "disabled"
      BY <1>3, <2>4 DEF stepDisabling, transition
    <3> QED BY <1>0, <3>1 DEF DeviceMoves
  <2>5. CASE stepFaultLatched \/ stepResetDisabling
    <3>1. /\ phase \in Resets \cup {"fault_latched"}
          /\ UNCHANGED <<fault_latched, handled_reset_generation>>
      BY <1>3, <2>5 DEF stepFaultLatched, stepResetDisabling, transition
    <3> QED BY <1>0, <3>1
  <2>6. CASE stepResetting
    <3>1. /\ phase = "resetting" /\ phase' = "disabled" /\ fault_latched' = FALSE
          /\ handled_reset_generation' = pending_reset_generation /\ ~enable_requested
      BY <1>3, <2>6 DEF stepResetting
    <3>2. DevPending BY <1>0, <3>1 DEF HInv, LatchCoherent
    <3> QED BY <1>0, <3>1, <3>2 DEF DeviceMoves
  <2> QED BY <2>1, <2>2, <2>3, <2>4, <2>5, <2>6 DEF step
<1> QED BY <1>1, <1>2, <1>3

(* Every step of the head is a step of the device, or none.                *)
LEMMA NextDevice ==
  ASSUME HInv, HInv', [Next]_vars PROVE [Device!Next]_(Device!vars)
<1>0. /\ Shown \in DevicePhases /\ Shown' \in DevicePhases
      /\ DevPending \in BOOLEAN /\ DevPending' \in BOOLEAN
      /\ DevEnable \in BOOLEAN /\ DevEnable' \in BOOLEAN /\ agreed \in BOOLEAN
  <2>1. Shown \in DevicePhases
    BY DEF HInv, HeadTypeOK, LatchCoherent, Shown, DevicePhases, Phases, Resets
  <2>2. Shown' \in DevicePhases
    BY DEF HInv, HeadTypeOK, LatchCoherent, Shown, DevicePhases, Phases, Resets
  <2>3. agreed \in BOOLEAN /\ agreed' \in BOOLEAN BY DEF HInv, HeadTypeOK
  <2>4. DevPending \in BOOLEAN /\ DevPending' \in BOOLEAN BY <2>3 DEF DevPending
  <2>5. DevEnable \in BOOLEAN /\ DevEnable' \in BOOLEAN BY <2>3 DEF DevEnable
  <2> QED BY <2>1, <2>2, <2>3, <2>4, <2>5
<1>A. Device!DevicePhases = DevicePhases BY DEF Device!DevicePhases, DevicePhases
<1>B. Device!DeviceMoves(Shown, DevPending, DevEnable) = DeviceMoves(Shown, DevPending, DevEnable)
  BY <1>A DEF Device!DeviceMoves, DeviceMoves
<1>1. ASSUME UNCHANGED <<DevEnable, DevPending, Shown>> PROVE UNCHANGED Device!vars
  BY <1>1 DEF DevEnable, DevPending, Device!vars
<1>2. ASSUME DevEnable' = FALSE, DevPending' = FALSE, Shown' = "invalid" PROVE Device!Next
  BY <1>2 DEF DevEnable, DevPending, Device!Next, Device!Release
<1>3. ASSUME UNCHANGED <<DevPending, Shown>> PROVE Device!Next
  BY <1>0, <1>3 DEF DevEnable, DevPending, Device!Next, Device!request_enable
<1>4. ASSUME ~agreed' PROVE Device!Next
  BY <1>2, <1>4 DEF DevEnable, DevPending, Shown
<1>5. CASE read /\ Manager
  <2>1. UNCHANGED <<phase, fault_latched, handled_reset_generation>> BY <1>5 DEF read
  <2>2. CASE request_enable \/ garble
    <3>1. UNCHANGED <<agreed, reset_generation>> BY <2>2 DEF request_enable, garble, commands
    <3> QED BY <2>1, <3>1, <1>3 DEF DevPending, Shown
  <2>3. CASE start_reset
    <3>1. /\ enable_request' = "off" /\ reset_generation' = reset_generation + 1
          /\ agreed' = agreed
      BY <2>3 DEF start_reset, commands
    <3>2. CASE ~agreed BY <3>1, <3>2, <1>4
    <3>3. CASE agreed
      <4>1. DevEnable' = FALSE BY <3>1 DEF DevEnable, enable_requested
      <4>2. DevPending' = TRUE
        BY <2>1, <3>1, <3>3 DEF DevPending, HInv, HeadTypeOK, LatchCoherent
      <4>3. Shown' = Shown BY <2>1, <3>1 DEF Shown
      <4> QED BY <4>1, <4>2, <4>3 DEF DevEnable, DevPending, Device!Next, Device!start_reset
    <3> QED BY <1>0, <3>2, <3>3
  <2>4. CASE baseline
    <3>1. ~agreed /\ enable_request' = "off" /\ reset_generation' = handled_reset_generation
      BY <2>4 DEF baseline, commands, HInv, AgreedIsBound
    <3>2. Shown = "invalid" BY <3>1 DEF Shown
    <3>3. DevEnable' = FALSE BY <3>1 DEF DevEnable, enable_requested
    <3>4. DevPending' = FALSE BY <2>1, <3>1 DEF DevPending, HInv, HeadTypeOK
    <3> QED BY <1>0, <1>A, <3>2, <3>3, <3>4 DEF DevEnable, DevPending, Device!Next, Device!Bind
  <2>5. CASE release BY <2>5, <1>4 DEF release
  <2> QED BY <1>5, <2>2, <2>3, <2>4, <2>5 DEF Manager
<1>6. CASE write
  <2>1. UNCHANGED <<enable_request, reset_generation, agreed>>
    BY <1>6 DEF write, commandVars
  <2>2. UNCHANGED DevEnable BY <2>1 DEF DevEnable, enable_requested
  <2>3. CASE ~agreed BY <2>1, <2>3, <1>4
  <2>4. ASSUME agreed, Shown' = "fault_latched", UNCHANGED DevPending PROVE Device!Next
    BY <2>2, <2>4 DEF DevEnable, DevPending, Device!Next, Device!Move
  <2>5. CASE agreed /\ step
    <3>1. CASE <<Shown', DevPending'>> \in DeviceMoves(Shown, DevPending, DevEnable)
      <4>1. \E mv \in DeviceMoves(Shown, DevPending, DevEnable) :
              Shown' = mv[1] /\ DevPending' = mv[2]
        BY <3>1
      <4> QED BY <2>2, <4>1, <1>B DEF DevEnable, DevPending, Device!Next, Device!Move
    <3> QED BY <2>1, <2>4, <2>5, <3>1, <1>3, StepMoves
  <2>6. CASE agreed /\ latched
    BY <2>1, <2>4, <2>6 DEF latched, Shown, DevPending
  <2>7. CASE agreed /\ UNCHANGED machineVars
    BY <2>1, <2>7, <1>3 DEF machineVars, Shown, DevPending
  <2> QED BY <1>0, <1>6, <2>3, <2>5, <2>6, <2>7 DEF write, machineVars
<1>7. CASE Lifecycle
  <2>1. CASE on_configure
    BY <2>1, <1>4 DEF on_configure, commandVars, HInv, AgreedIsBound
  <2>2. CASE on_configure_fails \/ on_activate
    BY <2>2, <1>3 DEF on_configure_fails, on_activate, machineVars, commandVars, Shown, DevPending
  <2>3. CASE on_deactivate \/ close
    BY <2>3, <1>4 DEF on_deactivate, close, release
  <2> QED BY <1>7, <2>1, <2>2, <2>3 DEF Lifecycle
<1>8. CASE UNCHANGED vars
  <2>1. UNCHANGED <<DevEnable, DevPending, Shown>>
    BY <1>8 DEF vars, machineVars, commandVars, DevEnable, DevPending, Shown, enable_requested
  <2> QED BY <2>1, <1>1
<1> QED BY <1>5, <1>6, <1>7, <1>8 DEF Next, Loop

(* The head implements HandshakeDevice: what the enable manager's model    *)
(* lets its devices do covers all that the head does (handshake_device.cpp *)
(* against head_state_machine.cpp).                                        *)
THEOREM HeadImplementsDevice == Spec => ImplementsDevice
<1>1. Init => Device!Init
  BY DEF Init, Device!Init, Shown
<1>2. HInv /\ HInv' /\ [Next]_vars => [Device!Next]_(Device!vars)
  BY NextDevice
<1> QED BY <1>1, <1>2, HeadInductive, PTL DEF Spec, ImplementsDevice, Device!Spec

-----------------------------------------------------------------------------
(* A good bus                                                              *)

(* Each motor has answered the frames of the last write with status s.     *)
Answered(s) ==
  /\ since <= TransitionTimeout
  /\ \A m \in Motors : motor[m] = s /\ status[m] = s /\ age[m] = 0 /\ after[m]

(* On a bus that loses nothing a head at rest stays off, ...               *)
Rests ==
  /\ \A m \in Motors : motor[m] = "off" /\ status[m] = "off"
  /\ "enable" \notin sent

(* ... an enable is answered by the next read, ...                         *)
GoesUp ==
  \/ turn = "read" /\ since = 0 /\ "enable" \in sent /\ \A m \in Motors : motor[m] = "off"
  \/ turn = "write" /\ Answered("on")

(* ... so is a disable, ...                                                *)
GoesDown ==
  \/ /\ turn = "read" /\ since = 0 /\ "disable" \in sent /\ "enable" \notin sent
     /\ \A m \in Motors : motor[m] \in {"off", "on"}
  \/ turn = "write" /\ Answered("off")

(* ... and while the head is enabled the age of the feedback and the time  *)
(* to the next position frame never exceed a command period.               *)
Follows ==
  /\ \A m \in Motors : motor[m] = "on" /\ status[m] = "on"
  /\ \/ turn = "read" /\ sent # {} /\ "disable" \notin sent
     \/ /\ turn = "read" => sent = {} /\ command_wait > 0
        /\ \A m \in Motors : age[m] + command_wait < CommandPeriod

GoodPhase ==
  \/ phase = "disabled" /\ Rests
  \/ phase = "enabling" /\ GoesUp
  \/ phase = "enabled" /\ Follows
  \/ phase = "disabling" /\ GoesDown

GoodBus ==
  bus = "good" =>
    /\ lifecycle \in {"inactive", "active"} /\ enable_request # "garbled"
    /\ phase # "disabled" => lifecycle = "active"
    /\ GoodPhase

(* read() on a good bus: every motor answers what was sent.                *)
LEMMA GoodRead ==
  ASSUME HInv, bus = "good", lifecycle # "unconfigured", GoodPhase, read
  PROVE  GoodPhase'
<1> USE HeadAssumption
<1>1. /\ motor \in [Motors -> Statuses] /\ status \in [Motors -> Statuses]
      /\ age \in [Motors -> 0 .. (FeedbackTimeout + 1)] /\ after \in [Motors -> BOOLEAN]
      /\ command_wait \in 0 .. CommandPeriod
  BY DEF HInv, HeadTypeOK
<1>2. /\ turn = "read" /\ turn' = "write" /\ phase' = phase /\ sent' = {}
      /\ since' = Stop(since, TransitionTimeout + 1) /\ command_wait' = Tick(command_wait)
      /\ motor' = [m \in Motors |-> MotorAfter(motor[m])]
  BY DEF read
<1>3. PICK rx \in [Motors -> Statuses \cup {"none"}] :
        /\ \A m \in Motors : rx[m] \in Answers(m)
        /\ status' = [m \in Motors |-> IF rx[m] # "none" THEN rx[m] ELSE status[m]]
        /\ age' = [m \in Motors |-> IF rx[m] # "none" THEN 0
                                     ELSE Stop(age[m], FeedbackTimeout + 1)]
        /\ after' = [m \in Motors |-> rx[m] # "none" \/ after[m]]
  BY DEF read
<1>4. ASSUME NEW m \in Motors
      PROVE  /\ motor'[m] = MotorAfter(motor[m])
             /\ sent # {} => status'[m] = MotorAfter(motor[m]) /\ age'[m] = 0 /\ after'[m]
             /\ sent = {} => status'[m] = status[m] /\ age'[m] = Stop(age[m], FeedbackTimeout + 1)
  <2>1. rx[m] = IF sent = {} THEN "none" ELSE MotorAfter(motor[m])
    BY <1>3 DEF Answers
  <2>2. MotorAfter(motor[m]) # "none"
    BY <1>1 DEF MotorAfter, Statuses
  <2> QED
    BY <1>1, <1>2, <1>3, <2>1, <2>2
<1>5. CASE phase = "disabled" /\ Rests
  BY <1>2, <1>4, <1>5 DEF Rests, MotorAfter, GoodPhase
<1>6. CASE phase = "enabling" /\ GoesUp
  <2>1. since' <= TransitionTimeout
    BY <1>2, <1>6 DEF GoesUp, Stop
  <2>2. \A m \in Motors : motor'[m] = "on" /\ status'[m] = "on" /\ age'[m] = 0 /\ after'[m]
    BY <1>2, <1>4, <1>6 DEF GoesUp, MotorAfter
  <2> QED
    BY <1>2, <1>6, <2>1, <2>2 DEF GoesUp, GoodPhase, Answered
<1>7. CASE phase = "disabling" /\ GoesDown
  <2>1. since' <= TransitionTimeout
    BY <1>2, <1>7 DEF GoesDown, Stop
  <2>2. \A m \in Motors : motor'[m] = "off" /\ status'[m] = "off" /\ age'[m] = 0 /\ after'[m]
    BY <1>2, <1>4, <1>7 DEF GoesDown, MotorAfter
  <2> QED
    BY <1>2, <1>7, <2>1, <2>2 DEF GoesDown, GoodPhase, Answered
<1>8. CASE phase = "enabled" /\ Follows
  <2>1. \A m \in Motors : motor'[m] = "on" /\ status'[m] = "on"
    BY <1>2, <1>4, <1>8 DEF Follows, MotorAfter
  <2>2. \A m \in Motors : age'[m] + command_wait' < CommandPeriod
    <3> TAKE m \in Motors
    <3>1. age[m] \in Int /\ command_wait \in Int /\ 0 <= command_wait /\ command_wait <= CommandPeriod
      BY <1>1
    <3>2. CASE sent # {}
      BY <1>2, <1>4, <3>1, <3>2 DEF Tick
    <3>3. CASE sent = {}
      <4>1. command_wait > 0 /\ age[m] + command_wait < CommandPeriod
        BY <1>2, <1>8, <3>3 DEF Follows
      <4> QED
        BY <1>2, <1>4, <3>1, <3>3, <4>1 DEF Tick, Stop
    <3> QED
      BY <3>2, <3>3
  <2> QED
    BY <1>2, <1>8, <2>1, <2>2 DEF Follows, GoodPhase
<1> QED
  BY <1>5, <1>6, <1>7, <1>8 DEF GoodPhase

(* A step of the state machine over the answers of a good bus latches no   *)
(* fault, and the frames of a change of phase go out at once.              *)
LEMMA GoodStep ==
  ASSUME CommandPeriod <= FeedbackTimeout + 1,
         HInv, bus = "good", turn = "write", turn' = "read", UNCHANGED <<status, age, motor>>,
         lifecycle = "active", enable_request # "garbled", GoodPhase, step
  PROVE  GoodPhase'
<1> USE HeadAssumption
<1>1. /\ age \in [Motors -> 0 .. (FeedbackTimeout + 1)] /\ command_wait \in 0 .. CommandPeriod
  BY DEF HInv, HeadTypeOK
<1>2. CASE phase = "disabled" /\ Rests
  <2>1. ~any_fault
    BY <1>2 DEF Rests, any_fault
  <2>2. CASE phase' = "enabling"
    <3>1. since' = 0 /\ Emit("enabling", {"position", "enable"})
      BY <1>2, <2>1, <2>2 DEF step, stepDisabled, stepEnabling, stepEnabled, stepDisabling,
         stepFaultLatched, stepResetDisabling, stepResetting
    <3>2. "enable" \in sent'
      BY <1>2, <3>1 DEF Emit, Special
    <3> QED
      BY <1>2, <2>2, <3>1, <3>2 DEF Rests, GoesUp, GoodPhase
  <2>3. CASE phase' # "enabling"
    <3>1. phase' = "disabled" /\ Emit("disabled", {})
      BY <1>2, <2>1, <2>3 DEF step, stepDisabled, stepEnabling, stepEnabled, stepDisabling,
         stepFaultLatched, stepResetDisabling, stepResetting
    <3>2. "enable" \notin sent'
      BY <1>2, <3>1 DEF Emit, Special
    <3> QED
      BY <1>2, <3>1, <3>2 DEF Rests, GoodPhase
  <2> QED
    BY <2>2, <2>3
<1>3. ASSUME transition("disabling", {"disable"}), phase # "disabling",
             \A m \in Motors : motor[m] \in {"off", "on"}
      PROVE  GoodPhase'
  <2>1. phase' = "disabling" /\ since' = 0 /\ Emit("disabling", {"disable"})
    BY <1>3 DEF transition
  <2>2. "disable" \in sent' /\ "enable" \notin sent'
    BY <1>3, <2>1 DEF Emit, Special
  <2> QED
    BY <1>3, <2>1, <2>2 DEF GoesDown, GoodPhase
<1>4. CASE phase = "enabling" /\ GoesUp
  <2>1. Answered("on")
    BY <1>4 DEF GoesUp
  <2>2. all_fresh /\ ~any_fault /\ ~transition_timed_out /\ all_received_after_transition
        /\ all_status("on")
    <3>1. since \in Int /\ TransitionTimeout \in Int
      BY DEF HInv, HeadTypeOK
    <3> QED
      BY <2>1, <3>1 DEF Answered, all_fresh, any_fault, transition_timed_out,
         all_received_after_transition, all_status
  <2>3. CASE ~enable_requested
    <3>1. transition("disabling", {"disable"})
      BY <1>4, <2>3 DEF step, stepDisabled, stepEnabling, stepEnabled, stepDisabling,
         stepFaultLatched, stepResetDisabling, stepResetting
    <3> QED
      BY <1>3, <1>4, <2>1, <3>1 DEF Answered
  <2>4. CASE enable_requested
    <3>1. transition("enabled", {"position"})
      BY <1>4, <2>2, <2>4 DEF step, stepDisabled, stepEnabling, stepEnabled, stepDisabling,
         stepFaultLatched, stepResetDisabling, stepResetting, commands_invalid
    <3>2. phase' = "enabled" /\ Emit("enabled", {"position"})
      BY <3>1 DEF transition
    <3>3. sent' = {"position"}
      BY <1>4, <3>2 DEF Emit, Special
    <3> QED
      BY <2>1, <3>2, <3>3 DEF Answered, Follows, GoodPhase
  <2> QED
    BY <2>3, <2>4
<1>5. CASE phase = "enabled" /\ Follows
  <2>1. /\ \A m \in Motors : motor[m] = "on" /\ status[m] = "on"
        /\ \A m \in Motors : age[m] + command_wait < CommandPeriod
    BY <1>5 DEF Follows
  <2>2. all_fresh /\ all_status("on")
    BY <1>1, <2>1 DEF all_fresh, all_status
  <2>3. CASE ~enable_requested
    <3>1. transition("disabling", {"disable"})
      BY <1>5, <2>3 DEF step, stepDisabled, stepEnabling, stepEnabled, stepDisabling,
         stepFaultLatched, stepResetDisabling, stepResetting
    <3> QED
      BY <1>3, <1>5, <2>1, <3>1
  <2>4. CASE enable_requested
    <3>1. stays({"position"})
      BY <1>5, <2>2, <2>4 DEF step, stepDisabled, stepEnabling, stepEnabled, stepDisabling,
         stepFaultLatched, stepResetDisabling, stepResetting, commands_invalid
    <3>2. phase' = "enabled" /\ Emit("enabled", {"position"})
      BY <1>5, <3>1 DEF stays, machineVars
    <3>3. \/ sent' = {"position"}
          \/ sent' = {} /\ command_wait # 0 /\ command_wait' = command_wait
      BY <1>5, <3>2 DEF Emit, Special
    <3> QED
      BY <1>1, <2>1, <3>2, <3>3 DEF Follows, GoodPhase
  <2> QED
    BY <2>3, <2>4
<1>6. CASE phase = "disabling" /\ GoesDown
  <2>1. Answered("off")
    BY <1>6 DEF GoesDown
  <2>2. all_fresh /\ ~any_fault /\ ~transition_timed_out /\ all_received_after_transition
        /\ all_status("off")
    <3>1. since \in Int /\ TransitionTimeout \in Int
      BY DEF HInv, HeadTypeOK
    <3> QED
      BY <2>1, <3>1 DEF Answered, all_fresh, any_fault, transition_timed_out,
         all_received_after_transition, all_status
  <2>3. transition("disabled", {})
    BY <1>6, <2>2 DEF step, stepDisabled, stepEnabling, stepEnabled, stepDisabling,
       stepFaultLatched, stepResetDisabling, stepResetting
  <2>4. phase' = "disabled" /\ Emit("disabled", {})
    BY <2>3 DEF transition
  <2>5. "enable" \notin sent'
    BY <2>4 DEF Emit, Special
  <2> QED
    BY <2>1, <2>4, <2>5 DEF Answered, Rests, GoodPhase
<1> QED
  BY <1>2, <1>4, <1>5, <1>6 DEF GoodPhase

(* Every step on a good bus keeps the head in step with its motors.        *)
LEMMA GoodNext ==
  ASSUME CommandPeriod <= FeedbackTimeout + 1, HInv, GoodBus, [Next]_vars
  PROVE  GoodBus'
<1> USE DEF systemVars, machineVars, commandVars, busVars
<1>1. bus' = bus
  BY DEF Next, Loop, Lifecycle, read, write, on_configure, on_configure_fails, on_activate,
         on_deactivate, close, vars
<1> SUFFICES ASSUME bus = "good"
             PROVE  /\ lifecycle' \in {"inactive", "active"} /\ enable_request' # "garbled"
                    /\ phase' # "disabled" => lifecycle' = "active"
                    /\ GoodPhase'
  BY <1>1 DEF GoodBus
<1>2. /\ lifecycle \in {"inactive", "active"} /\ enable_request # "garbled"
      /\ phase # "disabled" => lifecycle = "active"
      /\ GoodPhase
  BY DEF GoodBus
<1>3. CASE read /\ Manager
  <2>1. lifecycle' = lifecycle /\ phase' = phase
    BY <1>3 DEF read
  <2>2. enable_request' # "garbled"
    BY <1>2, <1>3 DEF Manager, request_enable, start_reset, garble, baseline, release, commands
  <2>3. GoodPhase'
    BY <1>2, <1>3, GoodRead
  <2> QED
    BY <1>2, <2>1, <2>2, <2>3
<1>4. CASE write
  <2>1. /\ UNCHANGED <<lifecycle, status, age, motor, enable_request>>
        /\ turn = "write" /\ turn' = "read"
    BY <1>4 DEF write
  <2>2. CASE lifecycle = "active"
    BY <1>2, <1>4, <2>1, <2>2, GoodStep DEF write
  <2>3. CASE lifecycle # "active"
    <3>1. phase' = phase /\ sent' = sent
      BY <1>4, <2>3 DEF write
    <3> QED
      BY <1>2, <2>1, <2>3, <3>1 DEF GoodPhase, Rests
  <2> QED
    BY <2>2, <2>3
<1>5. CASE on_activate
  BY <1>2, <1>5 DEF on_activate, GoodPhase, Rests, GoesUp, GoesDown, Follows, Answered
<1>6. CASE UNCHANGED vars
  BY <1>2, <1>6 DEF vars, GoodPhase, Rests, GoesUp, GoesDown, Follows, Answered
<1> QED
  BY <1>3, <1>4, <1>5, <1>6 DEF Next, Loop, Lifecycle, on_configure, on_configure_fails,
     on_deactivate, close

(* If the position frames come at least as often as the feedback expires,  *)
(* no fault is ever latched on a bus that loses nothing with motors that   *)
(* do not fail (step, write), at whatever moment a request comes, for all  *)
(* timeouts, poll periods and motors.  on_init does not check the          *)
(* relation of the two periods.                                            *)
THEOREM FaultsAreReal ==
  ASSUME CommandPeriod <= FeedbackTimeout + 1
  PROVE  Spec => []NoSpuriousFault
<1>1. Init => GoodBus
  BY DEF Init, FirstPhase, GoodBus, GoodPhase, Rests
<1>2. HInv /\ GoodBus /\ [Next]_vars => GoodBus'
  BY GoodNext
<1>3. HInv /\ GoodBus => NoSpuriousFault
  BY DEF HInv, LatchCoherent, GoodBus, GoodPhase, NoSpuriousFault, Resets
<1> QED
  BY <1>1, <1>2, <1>3, HeadInductive, PTL DEF Spec
=============================================================================
