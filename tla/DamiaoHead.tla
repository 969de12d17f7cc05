----------------------------- MODULE DamiaoHead -----------------------------
(***************************************************************************)
(* hw_can_damiao: the hardware component of the robot's head.  Two motors  *)
(* on a CAN bus answer each frame with their status; HeadStateMachine      *)
(* takes them up and down and through a fault reset on the handshake of    *)
(* the enable manager; DamiaoSystem reads, steps it and writes once per    *)
(* cycle of the controller manager.  Time is counted in cycles.            *)
(***************************************************************************)
EXTENDS Integers, Handshake

CONSTANTS
  Motors,
  FeedbackTimeout, TransitionTimeout,
  SpecialPeriod,    \* disabled_poll_interval_ms: the special rate limiter and the poll
  CommandPeriod,    \* 1 / command_rate_hz
  MaxGeneration     \* a bound on the resets that are requested

ASSUME HeadAssumption ==
  /\ {FeedbackTimeout, TransitionTimeout, SpecialPeriod, CommandPeriod} \subseteq Nat \ {0}
  /\ MaxGeneration \in Nat

VARIABLES
  \* DamiaoSystem
  lifecycle,        \* hardware_active_ and whether the socket is open
  status,           \* status[m]: the last feedback of motor m
  age,              \* age[m]: cycles since it was received
  special_wait, command_wait, poll_wait,   \* cycles until the limiter or the poll is due
  sent,             \* the frames the last callback has put on the bus
  \* HeadStateMachine
  phase, fault_latched, handled_reset_generation, pending_reset_generation,
  since,            \* cycles since transition_started_at_
  after,            \* after[m]: motor m was received after it
  \* the command interfaces and the manager that has claimed them
  enable_request, reset_generation, bound,
  agreed,           \* a history variable: it claimed them with no reset outstanding
  \* the motors and the bus
  motor,            \* motor[m]: what motor m does, on a good bus
  bus,              \* "good": it loses nothing and nothing fails
  \* the controller manager's loop
  turn

systemVars  == <<lifecycle, status, age, special_wait, command_wait, poll_wait, sent>>
machineVars == <<phase, fault_latched, handled_reset_generation, pending_reset_generation,
                 since, after>>
commandVars == <<enable_request, reset_generation, bound, agreed>>
busVars     == <<motor, bus>>
vars == <<systemVars, machineVars, commandVars, busVars, turn>>

Phases == {"disabled", "enabling", "enabled", "disabling", "reset_disabling", "resetting",
           "fault_latched"}
Resets == {"reset_disabling", "resetting"}
Statuses == {"off", "on", "fault"}         \* 0, 1 and every greater one
Special  == {"disable", "clear_fault", "enable"}
Frames   == Special \cup {"position"}

(* Types; a counter stops where the code no longer tells its values apart. *)
HeadTypeOK ==
  /\ lifecycle \in {"unconfigured", "inactive", "active"}
  /\ status \in [Motors -> Statuses]
  /\ age \in [Motors -> 0..(FeedbackTimeout + 1)]
  /\ special_wait \in 0..SpecialPeriod /\ command_wait \in 0..CommandPeriod
  /\ poll_wait \in 0..SpecialPeriod
  /\ sent \in SUBSET Frames
  /\ phase \in Phases /\ fault_latched \in BOOLEAN
  /\ handled_reset_generation \in Nat /\ pending_reset_generation \in Nat
  /\ since \in 0..(TransitionTimeout + 1)
  /\ after \in [Motors -> BOOLEAN]
  /\ enable_request \in {"off", "on", "garbled"}
  /\ reset_generation \in Nat /\ bound \in BOOLEAN /\ agreed \in BOOLEAN
  /\ motor \in [Motors -> Statuses]
  /\ bus \in {"good", "bad"}
  /\ turn \in {"read", "write"}

Stop(n, max) == IF n < max THEN n + 1 ELSE n
TickOver(n) == n - 1      \* mutant: a limiter that is due goes on counting
Tick(n) == IF n > 0 THEN n - 1 ELSE 0

-----------------------------------------------------------------------------
(* The motors and the bus, external.  Every frame goes to both motors, and *)
(* on a good bus a motor answers it with its new status by the next read.  *)
(* On a bad one frames and answers are lost or late and motors fail:       *)
(* anything may be read, or nothing.                                       *)

MotorAfter(s) ==
  IF "enable" \in sent /\ s = "off" THEN "on"
  ELSE IF "disable" \in sent /\ s = "on" THEN "off" ELSE s

Answers(m) ==
  IF bus = "bad" THEN Statuses \cup {"none"}
  ELSE {IF sent = {} THEN "none" ELSE MotorAfter(motor[m])}

-----------------------------------------------------------------------------
(* HeadStateMachine::step, on the feedback that read() has left.           *)

enable_requested == enable_request = "on"
both_faults == \A m \in Motors : status[m] = "fault"   \* mutant: only both count
any_fault == \E m \in Motors : status[m] = "fault"
all_status(s) == \A m \in Motors : status[m] = s
none_enabled == \A m \in Motors : status[m] # "on"
all_fresh == \A m \in Motors : age[m] <= FeedbackTimeout
received_ever == TRUE                   \* mutant: old feedback confirms
all_received_after_transition == \A m \in Motors : after[m]
never_timed_out == FALSE                \* mutant: no transition timeout
transition_timed_out == since > TransitionTimeout

(* mutant: a change of phase does not reset the limiters                   *)
EmitUnreset(p, actions) ==
  LET signals == special_wait = 0 /\ actions \cap Special # {}
      moves   == command_wait = 0 /\ "position" \in actions
      polls   == ~moves /\ p = "disabled" /\ poll_wait = 0
  IN  /\ sent' = (IF signals THEN actions \cap Special ELSE {})
                  \cup (IF moves THEN {"position"} ELSE {}) \cup (IF polls THEN {"disable"} ELSE {})
      /\ special_wait' = IF signals THEN SpecialPeriod ELSE special_wait
      /\ command_wait' = IF moves THEN CommandPeriod ELSE command_wait
      /\ poll_wait' = IF polls THEN SpecialPeriod ELSE poll_wait

(* What write() does with the actions of a step that ends in phase p: a    *)
(* change of phase makes the next special frame due at once, and a start   *)
(* of motion the next position frame; the disabled head is polled.         *)
Emit(p, actions) ==
  LET special == IF p # phase THEN 0 ELSE special_wait
      command == IF p # phase /\ p \in {"enabling", "enabled"} THEN 0 ELSE command_wait
      wanted  == actions \cap Special
      signals == special = 0 /\ wanted # {}
      moves   == command = 0 /\ "position" \in actions
      polls   == ~moves /\ p = "disabled" /\ poll_wait = 0
  IN  /\ sent' = (IF signals THEN wanted ELSE {}) \cup (IF moves THEN {"position"} ELSE {})
                  \cup (IF polls THEN {"disable"} ELSE {})
      /\ special_wait' = IF signals THEN SpecialPeriod ELSE special
      /\ command_wait' = IF moves THEN CommandPeriod ELSE command
      /\ poll_wait' = IF polls THEN SpecialPeriod ELSE poll_wait

stays(actions) ==
  /\ UNCHANGED machineVars
  /\ Emit(phase, actions)

transitionUntimed(p, actions) ==        \* mutant: the clock of the transition runs on
  /\ phase' = p /\ UNCHANGED since /\ after' = [m \in Motors |-> FALSE]
  /\ UNCHANGED <<fault_latched, handled_reset_generation>>
  /\ Emit(p, actions)

transition(p, actions) ==
  /\ phase' = p /\ since' = 0 /\ after' = [m \in Motors |-> FALSE]
  /\ UNCHANGED <<fault_latched, handled_reset_generation>>
  /\ Emit(p, actions)

latched ==
  /\ phase' = "fault_latched" /\ fault_latched' = TRUE
  /\ UNCHANGED <<handled_reset_generation, pending_reset_generation, since, after>>
latch_fault == latched /\ Emit("fault_latched", {"disable"})

(* force_fault() in the write whose step has just entered "enabled".  (The *)
(* command limiter, reset then, is reset again before it is used.)         *)
latch_fault_from_transition ==
  /\ phase' = "fault_latched" /\ fault_latched' = TRUE
  /\ since' = 0 /\ after' = [m \in Motors |-> FALSE]
  /\ UNCHANGED <<handled_reset_generation, pending_reset_generation>>
  /\ Emit("fault_latched", {"disable"})

(* A position command that is not finite or out of its limits is a fault.  *)
commands_invalid == bus = "bad"

stepDisabled ==
  /\ phase = "disabled"
  /\ \/ any_fault /\ latch_fault
     \/ /\ ~any_fault
        /\ handled_reset_generation' = reset_generation
        /\ UNCHANGED <<fault_latched, pending_reset_generation>>
        /\ IF enable_requested /\ all_fresh /\ all_status("off")
             THEN /\ phase' = "enabling" /\ since' = 0 /\ after' = [m \in Motors |-> FALSE]
                  /\ Emit("enabling", {"position", "enable"})
             ELSE /\ UNCHANGED <<phase, since, after>>
                  /\ Emit("disabled", {})

stepEnabling ==
  /\ phase = "enabling"
  /\ \/ /\ ~enable_requested
        /\ transition("disabling", {"disable"}) /\ UNCHANGED pending_reset_generation
     \/ /\ enable_requested
        /\ ~all_fresh \/ any_fault \/ transition_timed_out
        /\ latch_fault
     \/ /\ enable_requested /\ all_fresh /\ ~any_fault /\ ~transition_timed_out
        /\ IF all_received_after_transition /\ all_status("on")
             THEN \/ /\ transition("enabled", {"position"})
                     /\ UNCHANGED pending_reset_generation
                  \/ commands_invalid /\ latch_fault_from_transition
             ELSE stays({"position", "enable"})

stepEnabled ==
  /\ phase = "enabled"
  /\ \/ /\ ~enable_requested
        /\ transition("disabling", {"disable"}) /\ UNCHANGED pending_reset_generation
     \/ /\ enable_requested
        /\ ~all_fresh \/ ~all_status("on") \/ commands_invalid
        /\ latch_fault
     \/ /\ enable_requested /\ all_fresh /\ all_status("on")
        /\ stays({"position"})

stepDisabling ==
  /\ phase = "disabling"
  /\ IF ~all_fresh \/ any_fault \/ transition_timed_out THEN latch_fault
     ELSE IF all_received_after_transition /\ all_status("off")
       THEN transition("disabled", {}) /\ UNCHANGED pending_reset_generation
       ELSE stays({"disable"})

stepFaultLatchedRetries ==              \* mutant: a handled generation resets again
  /\ phase = "fault_latched"
  /\ IF ~enable_requested
       THEN /\ transition("reset_disabling", {"disable"})
            /\ pending_reset_generation' = reset_generation
       ELSE stays({"disable"})

stepFaultLatched ==
  /\ phase = "fault_latched"
  /\ IF ~enable_requested /\ reset_generation # handled_reset_generation
       THEN /\ transition("reset_disabling", {"disable"})
            /\ pending_reset_generation' = reset_generation
       ELSE stays({"disable"})

stepResetDisabling ==
  /\ phase = "reset_disabling"
  /\ IF enable_requested \/ ~all_fresh \/ transition_timed_out THEN latch_fault
     ELSE IF all_received_after_transition /\ none_enabled
       THEN transition("resetting", {"clear_fault"}) /\ UNCHANGED pending_reset_generation
       ELSE stays({"disable"})

stepResettingKeepsLatch ==              \* mutant: the latch is not cleared
  /\ phase = "resetting"
  /\ IF enable_requested \/ ~all_fresh \/ transition_timed_out THEN latch_fault
     ELSE IF all_received_after_transition /\ all_status("off")
       THEN transition("disabled", {}) /\ UNCHANGED pending_reset_generation
       ELSE stays({"clear_fault"})

stepResetting ==
  /\ phase = "resetting"
  /\ IF enable_requested \/ ~all_fresh \/ transition_timed_out THEN latch_fault
     ELSE IF all_received_after_transition /\ all_status("off")
       THEN /\ phase' = "disabled" /\ fault_latched' = FALSE
            /\ handled_reset_generation' = pending_reset_generation
            /\ UNCHANGED <<pending_reset_generation, since, after>>
            /\ Emit("disabled", {})
       ELSE stays({"clear_fault"})

step == \/ stepDisabled \/ stepEnabling \/ stepEnabled \/ stepDisabling
        \/ stepFaultLatched \/ stepResetDisabling \/ stepResetting

-----------------------------------------------------------------------------
(* DamiaoSystem in the loop of the controller manager: read, the           *)
(* controllers' update, write.                                             *)

read ==
  /\ turn = "read" /\ turn' = "write"
  /\ motor' = [m \in Motors |-> IF bus = "good" THEN MotorAfter(motor[m]) ELSE motor[m]]
  /\ \E rx \in [Motors -> Statuses \cup {"none"}] :
       /\ \A m \in Motors : rx[m] \in Answers(m)
       /\ IF lifecycle = "unconfigured" THEN UNCHANGED <<status, age, after>>
          ELSE /\ status' = [m \in Motors |-> IF rx[m] # "none" THEN rx[m] ELSE status[m]]
               /\ age' = [m \in Motors |-> IF rx[m] # "none" THEN 0
                                            ELSE Stop(age[m], FeedbackTimeout + 1)]
               /\ after' = [m \in Motors |-> rx[m] # "none" \/ after[m]]
  /\ since' = Stop(since, TransitionTimeout + 1)
  /\ special_wait' = Tick(special_wait) /\ command_wait' = Tick(command_wait)
  /\ poll_wait' = Tick(poll_wait)
  /\ sent' = {}
  /\ UNCHANGED <<lifecycle, phase, fault_latched, handled_reset_generation,
                 pending_reset_generation, bus>>

write ==
  /\ turn = "write" /\ turn' = "read"
  /\ \/ /\ lifecycle # "active"
        /\ UNCHANGED <<sent, machineVars, special_wait, command_wait, poll_wait>>
     \/ /\ lifecycle = "active" /\ enable_request = "garbled"
        /\ latched /\ sent' = {"disable"}
        /\ UNCHANGED <<special_wait, command_wait, poll_wait>>
     \/ lifecycle = "active" /\ enable_request # "garbled" /\ step
  /\ UNCHANGED <<lifecycle, status, age, commandVars, busVars>>

-----------------------------------------------------------------------------
(* What the enable manager asks for (HandshakeDevice) in its update, which *)
(* runs between read() and write().                                        *)

commands(e, g) == enable_request' = e /\ reset_generation' = g

request_enable ==
  /\ bound /\ \E e \in {"off", "on"} : commands(e, reset_generation)
  /\ UNCHANGED <<bound, agreed>>

start_reset ==
  /\ bound /\ reset_generation < MaxGeneration
  /\ commands("off", reset_generation + 1)
  /\ UNCHANGED <<bound, agreed>>

(* Something else than a 0 or a 1 stands in the command interface.         *)
garble ==
  /\ bus = "bad" /\ bound /\ commands("garbled", reset_generation)
  /\ UNCHANGED <<bound, agreed>>

(* baseline() on the manager's activation adopts the handled generation,   *)
(* also when the head is at work on one that was requested before.         *)
baseline ==
  /\ ~bound /\ lifecycle = "active"
  /\ commands("off", handled_reset_generation) /\ bound' = TRUE
  /\ agreed' = (reset_generation = handled_reset_generation /\ phase \notin Resets)

(* The manager's on_deactivate(), and a cycle without a manager.           *)
release == enable_request' = "off" /\ bound' = FALSE /\ agreed' = FALSE /\ UNCHANGED reset_generation

Manager == request_enable \/ start_reset \/ garble \/ baseline \/ release

-----------------------------------------------------------------------------
(* The lifecycle of the hardware component.  The controller manager stops  *)
(* the controllers of a component that it deactivates or that has failed.  *)

(* on_configure(): the motors are told to disable and must answer; the     *)
(* state machine starts anew with what they say.                           *)
FirstPhase(st) == IF \E m \in Motors : st[m] = "fault" THEN "fault_latched" ELSE "disabled"

on_configure ==
  /\ bus = "bad" /\ turn = "read" /\ lifecycle = "unconfigured"
  /\ lifecycle' = "inactive"
  /\ status' \in [Motors -> {"off", "fault"}] /\ age' = [m \in Motors |-> 0]
  /\ phase' = FirstPhase(status') /\ fault_latched' = (phase' = "fault_latched")
  /\ handled_reset_generation' = 0 /\ pending_reset_generation' = 0
  /\ since' = TransitionTimeout + 1 /\ after' = [m \in Motors |-> TRUE]
  /\ sent' = {}
  /\ UNCHANGED <<special_wait, command_wait, poll_wait, commandVars, busVars, turn>>

on_configure_fails ==
  /\ bus = "bad" /\ turn = "read" /\ lifecycle = "unconfigured"
  /\ sent' = {"disable"}
  /\ UNCHANGED <<lifecycle, status, age, special_wait, command_wait, poll_wait, machineVars,
                 commandVars, busVars, turn>>

on_activate ==
  /\ turn = "read" /\ lifecycle = "inactive"
  /\ lifecycle' = "active" /\ poll_wait' = 0
  /\ UNCHANGED <<status, age, special_wait, command_wait, sent, machineVars, commandVars,
                 busVars, turn>>

on_deactivate ==
  /\ bus = "bad" /\ turn = "read" /\ lifecycle = "active"
  /\ lifecycle' = "inactive"
  /\ sent' = {"disable"} /\ release
  /\ UNCHANGED <<status, age, special_wait, command_wait, poll_wait, machineVars,
                 busVars, turn>>

(* on_cleanup(), on_shutdown(), and on_error() after a read or a write     *)
(* that has thrown: the motors are told to disable, if the bus still does, *)
(* and the socket is closed.                                               *)
close ==
  /\ bus = "bad" /\ lifecycle # "unconfigured"
  /\ turn = "write" => lifecycle = "active"
  /\ lifecycle' = "unconfigured" /\ turn' = "read"
  /\ sent' = {"disable"} /\ release
  /\ UNCHANGED <<status, age, special_wait, command_wait, poll_wait, machineVars,
                 busVars>>

-----------------------------------------------------------------------------
(* The component has just been configured.                                 *)
Init ==
  /\ bus \in {"good", "bad"}
  /\ motor = [m \in Motors |-> "off"]
  /\ lifecycle = "inactive"
  /\ status \in [Motors -> IF bus = "good" THEN {"off"} ELSE {"off", "fault"}]
  /\ age = [m \in Motors |-> 0]
  /\ phase = FirstPhase(status) /\ fault_latched = (phase = "fault_latched")
  /\ handled_reset_generation = 0 /\ pending_reset_generation = 0
  /\ since = TransitionTimeout + 1 /\ after = [m \in Motors |-> TRUE]
  /\ special_wait = 0 /\ command_wait = 0 /\ poll_wait = 0 /\ sent = {}
  /\ enable_request = "off" /\ reset_generation = 0 /\ bound = FALSE /\ agreed = FALSE
  /\ turn = "read"

Loop      == (read /\ Manager) \/ write
Lifecycle == on_configure \/ on_configure_fails \/ on_activate \/ on_deactivate \/ close

Next == Loop \/ Lifecycle

Spec == Init /\ [][Next]_vars

(* The controller manager's loop runs: reads and writes go on.             *)
Turns    == turn' \in {"read", "write"} \ {turn}
FairSpec == Spec /\ WF_turn(Turns)

-----------------------------------------------------------------------------
(* What the head promises                                                  *)

(* The latch and the phase agree (latch_fault, step): a fault stays        *)
(* reported through the whole of its reset, which is for a generation that *)
(* is not handled.  With a manager that took over no outstanding reset the *)
(* generations are also in order, so that reset_complete() means it.       *)
LatchCoherent ==
  /\ fault_latched <=> phase \in Resets \cup {"fault_latched"}
  /\ phase \in Resets => handled_reset_generation # pending_reset_generation
  /\ agreed =>
       /\ handled_reset_generation <= reset_generation
       /\ phase \in Resets => /\ handled_reset_generation < pending_reset_generation
                              /\ pending_reset_generation <= reset_generation

(* A write that latches a fault tells both motors to disable in that same  *)
(* write (the special rate limiter's reset), whatever it sent before.      *)
FaultDisables ==
  [][write /\ phase' = "fault_latched" /\ phase # phase' => "disable" \in sent']_vars

(* A position frame goes out only over fresh feedback without a fault of   *)
(* both motors, and never with a frame that disables them.                 *)
PositionIsSafe ==
  [][write /\ "position" \in sent' =>
       /\ \A m \in Motors : age[m] <= FeedbackTimeout /\ status[m] # "fault"
       /\ enable_request = "on" /\ sent' \cap {"disable", "clear_fault"} = {}]_vars

(* Each reset of a latched fault consumes a generation of its own, and     *)
(* happens over new feedback of both motors that shows neither fault nor   *)
(* enable.                                                                 *)
ResetConsumes ==
  [][write /\ fault_latched /\ ~fault_latched' =>
       /\ handled_reset_generation # handled_reset_generation'
       /\ agreed => handled_reset_generation < handled_reset_generation'
       /\ \A m \in Motors : after[m] /\ status[m] = "off"]_vars

(* On a bus that loses nothing, with motors that do not fail, no fault is  *)
(* ever latched: polls and limiters keep the feedback fresh through every  *)
(* change of phase, at any moment at which a request may come.             *)
NoSpuriousFault == bus = "good" => ~fault_latched

(* The head as an enable manager sees it that has agreed with it.          *)
Shown ==
  IF ~agreed THEN "invalid"
  ELSE IF fault_latched THEN "fault_latched"
  ELSE IF phase \in {"enabling", "disabling"} THEN "transition"
  ELSE phase
Device == INSTANCE HandshakeDevice WITH
  enable  <- agreed /\ enable_requested,
  pending <- agreed /\ handled_reset_generation < reset_generation,
  dev     <- Shown

(* The head is a handshake device: what the enable manager's model assumes *)
(* of its devices, the head does, for a manager that took over no          *)
(* outstanding reset.                                                      *)
ImplementsDevice == Device!Spec

(* Every change of phase ends, also when a motor never answers again       *)
(* (feedback_timeout_, transition_timeout_).                               *)
HeadSettles ==
  lifecycle = "active" /\ phase \in {"enabling", "disabling"} \cup Resets ~>
    lifecycle # "active" \/ phase \in {"disabled", "enabled", "fault_latched"}
=============================================================================
