------------------------------- MODULE Swerve -------------------------------
(* The swerve drive controller (ctrl_swerve): ControlCore, which turns     *)
(* feedback and a command into wheel speeds, and SwerveController, its     *)
(* realtime update, subscriber callback, fault stop timer and lifecycle.   *)
(* The update does not take lifecycle_mutex_: a command may arrive between *)
(* its first store to ready_ and its last.                                 *)
(*                                                                         *)
(* The four modules steer and drive alike: one speed stands for the four   *)
(* wheel targets, and a feedback says which modules are out of order.      *)
(* Angles and kinematics appear as what they decide: whether a module is   *)
(* within its limits, off its held target, or badly aligned.  Time stamps  *)
(* are kept as ages in clock ticks, up to Oldest.                          *)
EXTENDS Integers, FiniteSets

CONSTANTS Modules,
          Feedbacks,        \* what a cycle may read, see FeedbackType
          Smoothing,        \* finite max_body_acceleration
          TopSpeed,         \* the speed a moving command asks for, in ramp steps
          EncoderWindow,    \* encoder_fault_window
          CommandTimeout,   \* 0.5 s
          FaultHold,        \* fault_stop_hold
          FaultTimeout,     \* fault_stop_timeout
          MaxActivations    \* bound: activations of the controller

(* The ages that no test tells from a greater one.                         *)
Oldest == [block |-> CommandTimeout + 3, received |-> CommandTimeout + 2,
           fault |-> FaultTimeout + 1, stopped |-> FaultHold + 1]

(* stale: not fresh, not enabled or out of its travel; inconsistent: the   *)
(* external encoder disagrees; off: measured, enabled and away from the    *)
(* held target; turning: the wheel is not at rest; lost: a wheel speed     *)
(* cannot be measured; error: the largest alignment error against release  *)
(* and threshold; limit: a new steering target would leave the travel; dt: *)
(* the period, 1 is good, 0 not positive, 2 longer than max_update_period. *)
FeedbackType ==
    [stale : SUBSET Modules, inconsistent : SUBSET Modules, off : SUBSET Modules,
     turning : SUBSET Modules, lost : BOOLEAN,
     error : {"small", "middle", "large"}, limit : BOOLEAN, dt : 0 .. 2]

ASSUME SwerveAssumption ==
    /\ Feedbacks \subseteq FeedbackType /\ Smoothing \in BOOLEAN
    /\ \A f \in Feedbacks : f.lost => f.stale # {}
    /\ {TopSpeed, EncoderWindow, CommandTimeout, FaultHold, FaultTimeout, MaxActivations}
         \subseteq Nat
    /\ TopSpeed > 0

VARIABLES core,         \* the ControlCore
          ctl,          \* the controller's flags and, within an update, what it read
          command,      \* command_buffer_, with the activation it was sent to
          age,          \* of block_before_ns_, the update's now, the command, the fault, the rest
          generation,
          drive,        \* the drive velocity command interfaces
          faultStop     \* the last message on ~/fault_stop

swerveVars == <<core, ctl, command, age, generation, drive, faultStop>>

Never == -1
NoCommand == [valid |-> FALSE, request |-> "zero", generation |-> 0, sentTo |-> 0]
GoodFeedback == [stale |-> {}, inconsistent |-> {}, off |-> {}, turning |-> {}, lost |-> FALSE,
                 error |-> "small", limit |-> FALSE, dt |-> 1]

(* Configured and inactive.                                                *)
SwerveInit ==
    /\ core = [active |-> FALSE, holdFault |-> FALSE, bad |-> [m \in Modules |-> 0],
               holding |-> FALSE, speed |-> 0, body |-> 0, waiting |-> TRUE, gated |-> FALSE]
    /\ ctl = [active |-> FALSE, ready |-> FALSE, latched |-> FALSE, stopReady |-> FALSE,
              pc |-> "idle", read |-> GoodFeedback]
    /\ command = NoCommand
    /\ age = [block |-> 0, now |-> 0, received |-> Oldest.received, fault |-> Never, stopped |-> Never]
    /\ generation = 0 /\ drive = 0 /\ faultStop = FALSE

-----------------------------------------------------------------------------
(* ControlCore.  Its operations return the next core and the status.       *)

GoodPeriod(f) == f.dt = 1

Toward(x, goal) == IF x < goal THEN x + 1 ELSE IF x > goal THEN x - 1 ELSE x

\* The gate closes above the threshold and opens within the release.
Gate(c, f) == f.error = "large" \/ (f.error = "middle" /\ c.gated)

BadTime(c, f) ==
    [m \in Modules |-> IF m \notin f.inconsistent THEN 0
                       ELSE IF c.bad[m] + f.dt > EncoderWindow THEN EncoderWindow + 1
                       ELSE c.bad[m] + f.dt]

(* Hold at once.  A module that left its held target latches the hold      *)
(* fault.                                                                  *)
Stop(c, f, status) ==
    LET fault == c.holdFault \/ (c.active /\ f.off # {})
    IN  [core |-> [c EXCEPT !.holding = TRUE, !.holdFault = fault, !.speed = 0, !.body = 0,
                            !.waiting = TRUE, !.gated = FALSE],
         status |-> IF c.active /\ fault THEN "steering_hold_fault" ELSE status]

(* Ramp the wheels down and latch the steering targets that are reached.   *)
RampStop(c, f, status) ==
    IF ~GoodPeriod(f) THEN Stop(c, f, status)
    ELSE IF f.limit THEN Stop(c, f, "steering_limit")
    ELSE [core |-> [c EXCEPT !.holding = TRUE, !.speed = Toward(@, 0), !.gated = Gate(c, f)],
          status |-> status]

(* A valid command: the shaped body speed, the alignment gate, the wheels. *)
Follow(c, f, request) ==
    LET zero == request = "zero"
        waiting == Smoothing /\ c.waiting
        goal == IF zero THEN 0 ELSE TopSpeed
        body == IF waiting \/ ~Smoothing THEN goal ELSE Toward(c.body, goal)
        shaped == IF waiting THEN c ELSE [c EXCEPT !.body = body]
        gated == Gate(c, f)
        speed == Toward(c.speed, IF gated \/ waiting THEN 0 ELSE body)
        pause == Smoothing /\ (gated \/ waiting)
        again == IF pause THEN gated \/ speed # 0 ELSE c.waiting
    IN  IF waiting /\ zero THEN RampStop(c, f, "running")
        ELSE IF body = 0
        THEN RampStop(IF zero THEN [shaped EXCEPT !.body = 0, !.waiting = TRUE] ELSE shaped,
                      f, "running")
        ELSE IF f.limit THEN Stop(shaped, f, "steering_limit")
        ELSE [core |-> [shaped EXCEPT !.holding = FALSE, !.gated = gated, !.speed = speed,
                                      !.body = IF pause THEN 0 ELSE @, !.waiting = again],
              status |-> IF gated \/ (waiting /\ again) THEN "alignment_gated" ELSE "running"]

(* ControlCore::update.                                                    *)
CoreUpdate(c, f, request, fresh) ==
    LET m == [c EXCEPT !.bad = BadTime(c, f)]
    IN  IF ~c.active THEN Stop(c, f, "inactive")
        ELSE IF c.holdFault THEN Stop(c, f, "steering_hold_fault")
        ELSE IF f.stale # {} THEN Stop(c, f, "feedback_fault")
        ELSE IF \E i \in Modules : m.bad[i] > EncoderWindow THEN Stop(m, f, "feedback_fault")
        ELSE IF m.holding /\ f.off # {}
        THEN Stop([m EXCEPT !.holdFault = TRUE], f, "steering_hold_fault")
        ELSE IF ~fresh
        THEN RampStop([m EXCEPT !.body = 0, !.waiting = TRUE], f, "command_timeout")
        ELSE IF ~GoodPeriod(f) THEN Stop(m, f, "invalid_command")
        ELSE Follow(m, f, request)

-----------------------------------------------------------------------------
(* The controller.                                                         *)

(* Activation needs good feedback and an encoder that confirms it; it      *)
(* drops the commands of earlier activations and forgets their faults.     *)
SwerveActivate ==
    /\ ~ctl.active /\ generation < MaxActivations
    /\ \E f \in Feedbacks :
         /\ f.stale = {} /\ f.inconsistent = {}
         /\ core' = [core EXCEPT !.active = TRUE, !.holdFault = FALSE,
                                 !.bad = [m \in Modules |-> 0], !.holding = TRUE, !.speed = 0,
                                 !.body = 0, !.waiting = TRUE, !.gated = Gate(core, f)]
    /\ generation' = generation + 1
    /\ command' = NoCommand
    /\ ctl' = [ctl EXCEPT !.active = TRUE, !.ready = TRUE, !.latched = FALSE,
                          !.stopReady = FALSE]
    /\ age' = [age EXCEPT !.block = 0, !.received = Oldest.received, !.fault = Never, !.stopped = Never]
    /\ drive' = 0
    /\ UNCHANGED faultStop

SwerveDeactivate ==
    /\ ctl.active /\ ctl.pc = "idle"
    /\ ctl' = [ctl EXCEPT !.active = FALSE, !.ready = FALSE]
    /\ core' = [core EXCEPT !.active = FALSE, !.speed = 0, !.body = 0, !.gated = FALSE]
    /\ drive' = 0
    /\ UNCHANGED <<command, age, generation, faultStop>>

\* The plausible mistake: a queued callback of an earlier activation is heard.
AcceptAnyGeneration(g, request) ==
    /\ ctl.active /\ ctl.ready
    /\ command' = IF request = "bad" THEN [command EXCEPT !.valid = FALSE, !.request = "zero"]
                   ELSE [valid |-> TRUE, request |-> request, generation |-> generation,
                         sentTo |-> g]
    /\ age' = [age EXCEPT !.received = IF request = "bad" THEN Oldest.received ELSE 0]
    /\ UNCHANGED <<core, ctl, generation, drive, faultStop>>

(* A message of the subscription made by activation g.                     *)
AcceptCommand(g, request) ==
    /\ ctl.active /\ ctl.ready /\ g = generation
    /\ command' = IF request = "bad" THEN [command EXCEPT !.valid = FALSE, !.request = "zero"]
                   ELSE [valid |-> TRUE, request |-> request, generation |-> generation,
                         sentTo |-> g]
    /\ age' = [age EXCEPT !.received = IF request = "bad" THEN Oldest.received ELSE 0]
    /\ UNCHANGED <<core, ctl, generation, drive, faultStop>>

(* update() up to its store to ready_.                                     *)
SwerveUpdateBegin(f) ==
    LET ready == ~core.holdFault /\ f.stale = {} /\ GoodPeriod(f)
    IN  /\ ctl.active /\ ctl.pc = "idle"
        /\ ctl' = [ctl EXCEPT !.pc = "read", !.ready = ready, !.read = f]
        /\ age' = [age EXCEPT !.now = 0, !.block = IF ready THEN @ ELSE 0]
        /\ UNCHANGED <<core, command, generation, drive, faultStop>>

\* The plausible mistake: the age of the command is not looked at.
CommandFreshForever == command.valid /\ command.generation = generation /\ age.received < age.block

(* Received in this activation, after the last cycle that blocked, not     *)
(* after the update began and not longer than the timeout before it.       *)
CommandFresh ==
    /\ command.valid /\ command.generation = generation
    /\ age.received < age.block
    /\ age.received >= age.now /\ age.received - age.now <= CommandTimeout

\* The plausible mistake: wheels that never come to rest are waited for.
FaultStopDueAtRest(stopped, lost, rest, fault) == (stopped /\ rest >= FaultHold) \/ lost

(* The disable may be requested: the wheels are at rest, cannot be         *)
(* measured, or have had their time.                                       *)
FaultStopDue(stopped, lost, rest, fault) ==
    (stopped /\ rest >= FaultHold) \/ lost \/ fault >= FaultTimeout

(* The rest of update(): the core, the outputs, track_fault and the latch. *)
SwerveUpdateEnd ==
    LET f == ctl.read
        r == CoreUpdate(core, f, command.request, CommandFresh)
        fault == r.status \in {"feedback_fault", "steering_hold_fault", "steering_limit"}
        latched == ctl.latched \/ fault
        since == IF ctl.latched THEN age.fault ELSE age.now
        stopped == f.turning = {} /\ ~f.lost
        rest == IF ~stopped THEN Never
                ELSE IF ~ctl.latched \/ age.stopped = Never THEN age.now ELSE age.stopped
    IN  /\ ctl.pc = "read"
        /\ core' = r.core
        /\ drive' = r.core.speed
        /\ ctl' = [ctl EXCEPT
             !.pc = "idle", !.read = GoodFeedback,
             !.ready = @ /\ r.status # "steering_hold_fault" /\ ~latched,
             !.latched = latched,
             !.stopReady = @ \/ (latched /\ FaultStopDue(stopped, f.lost, rest - age.now,
                                                         since - age.now))]
        /\ age' = [age EXCEPT
             !.now = 0,
             !.block = IF latched \/ r.status \in {"steering_hold_fault", "steering_limit",
                                                   "invalid_command"}
                       THEN age.now ELSE @,
             !.fault = IF latched THEN since ELSE Never,
             !.stopped = IF latched /\ ~ctl.stopReady THEN rest ELSE @]
        /\ UNCHANGED <<command, generation, faultStop>>

(* The timer that repeats the latched fault to the enable manager.         *)
FaultStopTimer ==
    /\ faultStop' = (ctl.active /\ ctl.stopReady)
    /\ UNCHANGED <<core, ctl, command, age, generation, drive>>

(* The clock; an update takes at most a tick.                              *)
SwerveClock ==
    /\ ctl.active /\ (ctl.pc = "idle" \/ age.now = 0)
    /\ age' = [stamp \in DOMAIN age |->
                  IF stamp = "now" THEN IF ctl.pc = "idle" THEN 0 ELSE 1
                  ELSE IF age[stamp] \in {Never, Oldest[stamp]} THEN age[stamp]
                  ELSE age[stamp] + 1]
    /\ UNCHANGED <<core, ctl, command, generation, drive, faultStop>>

SwerveUpdate == (\E f \in Feedbacks : SwerveUpdateBegin(f)) \/ SwerveUpdateEnd

SwerveNext ==
    \/ SwerveActivate \/ SwerveDeactivate \/ SwerveUpdate \/ FaultStopTimer \/ SwerveClock
    \/ \E g \in 1 .. generation, request \in {"zero", "go", "bad"} : AcceptCommand(g, request)

SwerveSpec == SwerveInit /\ [][SwerveNext]_swerveVars

-----------------------------------------------------------------------------
(* "A latched fault never resumes motion, even if feedback recovers"       *)
(* (swerve_controller.cpp): from the end of the update that latches a      *)
(* motion fault to the next activation the wheels are commanded to rest.   *)
FaultNeverResumes == ctl.active /\ ctl.latched /\ ctl.pc = "idle" => drive = 0

(* A motion fault is passed on: unless the controller is deactivated the   *)
(* enable manager is asked for the ordered disable, even if the wheels     *)
(* keep turning, their feedback flickers or the fault clears again.        *)
FaultStopRequested == (ctl.active /\ ctl.latched) ~> (faultStop \/ ~ctl.active)

(* Wheels come to rest when the client falls silent, whatever the feedback *)
(* and the periods are meanwhile (command timeout and ramp).               *)
SilenceStopsWheels == <>[](age.received > CommandTimeout) => <>[](drive = 0)

(* What moves the wheels was sent to this activation: a callback that was  *)
(* queued when an earlier one ended is never heard.                        *)
QueuedCommandsDie == drive > 0 => command.sentTo = generation

=============================================================================
