---------------------------- MODULE Base_proofs ----------------------------
(* Theorems about the swerve controller and the vacuum I/O node, for every *)
(* number of modules, every set of feedbacks and every timeout.            *)
EXTENDS Swerve, Plc, TLAPS

CoreType ==
    [active : BOOLEAN, holdFault : BOOLEAN, bad : [Modules -> Nat], holding : BOOLEAN,
     speed : Nat, body : Nat, waiting : BOOLEAN, gated : BOOLEAN]

SwerveTypeOK ==
    /\ core \in CoreType
    /\ ctl \in [active : BOOLEAN, ready : BOOLEAN, latched : BOOLEAN, stopReady : BOOLEAN,
                pc : {"idle", "read"}, read : FeedbackType]
    /\ command \in [valid : BOOLEAN, request : {"zero", "go"}, generation : Nat, sentTo : Nat]
    /\ generation \in Nat
    /\ drive \in Nat

(* The wheels turn at the core's speed, a command that counts was sent to  *)
(* the activation that took it, and a speed comes from a command that was  *)
(* sent to this activation.                                                *)
SpeedHasSender ==
    /\ drive = core.speed
    /\ command.valid => command.sentTo = command.generation
    /\ core.speed > 0 => command.sentTo = generation

SInv == SwerveTypeOK /\ SpeedHasSender

-----------------------------------------------------------------------------
(* ControlCore keeps its types, and its wheels gain speed only from a      *)
(* command that is fresh.                                                  *)

LEMMA TowardType ==
  ASSUME NEW x \in Nat, NEW goal \in Nat
  PROVE  Toward(x, goal) \in Nat
BY DEF Toward

LEMMA TowardRest ==
  ASSUME NEW x \in Nat
  PROVE  Toward(x, 0) \in Nat /\ Toward(x, 0) <= x
BY DEF Toward

LEMMA GateType ==
  ASSUME NEW c \in CoreType, NEW f \in FeedbackType
  PROVE  Gate(c, f) \in BOOLEAN
BY DEF Gate, CoreType

LEMMA MovedType ==
  ASSUME NEW c \in CoreType, NEW gated \in BOOLEAN, NEW speed \in Nat, NEW body \in Nat,
         NEW waiting \in BOOLEAN
  PROVE  [c EXCEPT !.holding = FALSE, !.gated = gated, !.speed = speed, !.body = body,
                   !.waiting = waiting] \in CoreType
BY DEF CoreType

LEMMA StopRests ==
  ASSUME NEW c \in CoreType, NEW f \in FeedbackType, NEW status
  PROVE  Stop(c, f, status).core \in CoreType /\ Stop(c, f, status).core.speed = 0
BY DEF Stop, CoreType

LEMMA RampSlows ==
  ASSUME NEW c \in CoreType, NEW f \in FeedbackType, NEW status
  PROVE  /\ RampStop(c, f, status).core \in CoreType
         /\ RampStop(c, f, status).core.speed <= c.speed
<1>0. c.speed \in Nat
  BY DEF CoreType
<1>1. CASE ~GoodPeriod(f) \/ f.limit
  BY <1>0, <1>1, StopRests DEF RampStop
<1>2. CASE GoodPeriod(f) /\ ~f.limit
  <2>1. RampStop(c, f, status).core =
          [c EXCEPT !.holding = TRUE, !.speed = Toward(c.speed, 0), !.gated = Gate(c, f)]
    BY <1>2 DEF RampStop
  <2>2. Toward(c.speed, 0) \in Nat /\ Toward(c.speed, 0) <= c.speed /\ Gate(c, f) \in BOOLEAN
    BY <1>0, TowardRest, GateType
  <2>3. QED
    BY <2>1, <2>2 DEF CoreType
<1>3. QED
  BY <1>1, <1>2

LEMMA FollowType ==
  ASSUME NEW c \in CoreType, NEW f \in FeedbackType, NEW request
  PROVE  Follow(c, f, request).core \in CoreType
<1> DEFINE zero == request = "zero"
           waiting == Smoothing /\ c.waiting
           goal == IF zero THEN 0 ELSE TopSpeed
           body == IF waiting \/ ~Smoothing THEN goal ELSE Toward(c.body, goal)
           shaped == IF waiting THEN c ELSE [c EXCEPT !.body = body]
           gated == Gate(c, f)
           speed == Toward(c.speed, IF gated \/ waiting THEN 0 ELSE body)
           pause == Smoothing /\ (gated \/ waiting)
           again == IF pause THEN gated \/ speed # 0 ELSE c.waiting
           ended == [shaped EXCEPT !.body = 0, !.waiting = TRUE]
           moved == [shaped EXCEPT !.holding = FALSE, !.gated = gated, !.speed = speed,
                                   !.body = IF pause THEN 0 ELSE shaped.body,
                                   !.waiting = again]
<1>0. Smoothing \in BOOLEAN /\ TopSpeed \in Nat
  BY SwerveAssumption
<1>1. goal \in Nat /\ body \in Nat
  BY <1>0, TowardType DEF CoreType
<1>2. gated \in BOOLEAN /\ waiting \in BOOLEAN /\ pause \in BOOLEAN
  BY <1>0, GateType DEF CoreType
<1>3. speed \in Nat
  BY <1>1, <1>2, TowardType DEF CoreType
<1>4. again \in BOOLEAN
  BY <1>2, <1>3 DEF CoreType
<1>5. shaped \in CoreType
  BY <1>1, <1>2 DEF CoreType
<1>6. ended \in CoreType
  BY <1>5 DEF CoreType
<1>7. moved \in CoreType
  <2>1. (IF pause THEN 0 ELSE shaped.body) \in Nat
    BY <1>5 DEF CoreType
  <2>2. QED
    <3> HIDE DEF shaped, gated, speed, pause, again
    <3>1. QED
      BY <1>2, <1>3, <1>4, <1>5, <2>1, MovedType
<1>8. Follow(c, f, request).core \in
        {RampStop(c, f, "running").core, RampStop(ended, f, "running").core,
         RampStop(shaped, f, "running").core, Stop(shaped, f, "steering_limit").core, moved}
  BY DEF Follow
<1>9. QED
  BY <1>5, <1>6, <1>7, <1>8, RampSlows, StopRests

LEMMA BadTimeType ==
  ASSUME NEW c \in CoreType, NEW f \in FeedbackType
  PROVE  BadTime(c, f) \in [Modules -> Nat]
<1>1. EncoderWindow \in Nat /\ f.dt \in Nat
  BY SwerveAssumption DEF FeedbackType
<1>2. QED
  BY <1>1 DEF BadTime, CoreType

LEMMA OnlyFreshGains ==
  ASSUME NEW c \in CoreType, NEW f \in FeedbackType, NEW request, NEW fresh \in BOOLEAN
  PROVE  /\ CoreUpdate(c, f, request, fresh).core \in CoreType
         /\ ~fresh => CoreUpdate(c, f, request, fresh).core.speed <= c.speed
<1> DEFINE m == [c EXCEPT !.bad = BadTime(c, f)]
           late == [m EXCEPT !.body = 0, !.waiting = TRUE]
           held == [m EXCEPT !.holdFault = TRUE]
           next == CoreUpdate(c, f, request, fresh).core
<1>1. m \in CoreType /\ m.speed = c.speed
  BY BadTimeType DEF CoreType
<1>2. late \in CoreType /\ late.speed = c.speed /\ held \in CoreType
  BY <1>1 DEF CoreType
<1>3. \/ \E status : \E from \in CoreType : next = Stop(from, f, status).core
      \/ ~fresh /\ next = RampStop(late, f, "command_timeout").core
      \/ fresh /\ next = Follow(m, f, request).core
  <2> HIDE DEF m, late, held
  <2>1. \/ next \in {Stop(c, f, "inactive").core, Stop(c, f, "steering_hold_fault").core,
                     Stop(c, f, "feedback_fault").core, Stop(m, f, "feedback_fault").core,
                     Stop(held, f, "steering_hold_fault").core,
                     Stop(m, f, "invalid_command").core}
        \/ ~fresh /\ next = RampStop(late, f, "command_timeout").core
        \/ fresh /\ next = Follow(m, f, request).core
    BY DEF CoreUpdate, m, late, held
  <2>2. QED
    BY <1>1, <1>2, <2>1
<1>4. c.speed \in Nat
  BY DEF CoreType
<1>5. QED
  <2> HIDE DEF m, late, held, next
  <2>1. CASE \E status : \E from \in CoreType : next = Stop(from, f, status).core
    BY <1>4, <2>1, StopRests DEF next
  <2>2. CASE ~fresh /\ next = RampStop(late, f, "command_timeout").core
    BY <1>2, <2>2, RampSlows DEF next
  <2>3. CASE fresh /\ next = Follow(m, f, request).core
    BY <1>1, <2>3, FollowType DEF next
  <2>4. QED
    BY <1>3, <2>1, <2>2, <2>3

-----------------------------------------------------------------------------
(* The controller.                                                         *)

LEMMA GoodFeedbackType == GoodFeedback \in FeedbackType
BY DEF GoodFeedback, FeedbackType

LEMMA SwerveStarts == SwerveInit => SInv
<1>1. GoodFeedback \in FeedbackType
  BY GoodFeedbackType
<1>2. QED
  BY <1>1 DEF SwerveInit, SInv, SwerveTypeOK, SpeedHasSender, CoreType, NoCommand

LEMMA ActivateKeeps == SInv /\ SwerveActivate => SInv'
<1> SUFFICES ASSUME SInv, SwerveActivate PROVE SInv'
  OBVIOUS
<1> USE DEF SInv, SwerveTypeOK, SpeedHasSender
<1>1. PICK f \in Feedbacks :
        core' = [core EXCEPT !.active = TRUE, !.holdFault = FALSE,
                             !.bad = [m \in Modules |-> 0], !.holding = TRUE, !.speed = 0,
                             !.body = 0, !.waiting = TRUE, !.gated = Gate(core, f)]
  BY DEF SwerveActivate
<1>2. Gate(core, f) \in BOOLEAN
  BY GateType, SwerveAssumption
<1>3. core' \in CoreType /\ core'.speed = 0
  BY <1>1, <1>2 DEF CoreType
<1>4. command' = NoCommand /\ drive' = 0 /\ generation' \in Nat /\ generation' = generation + 1
  BY DEF SwerveActivate
<1>5. ctl' \in [active : BOOLEAN, ready : BOOLEAN, latched : BOOLEAN, stopReady : BOOLEAN,
                pc : {"idle", "read"}, read : FeedbackType]
  BY DEF SwerveActivate
<1>6. SwerveTypeOK'
  BY <1>3, <1>4, <1>5 DEF NoCommand
<1>7. SpeedHasSender'
  BY <1>3, <1>4 DEF NoCommand
<1>8. QED
  BY <1>6, <1>7

LEMMA UpdateEndKeeps == SInv /\ SwerveUpdateEnd => SInv'
<1> SUFFICES ASSUME SInv, SwerveUpdateEnd PROVE SInv'
  OBVIOUS
<1> USE DEF SInv, SwerveTypeOK, SpeedHasSender
<1> DEFINE next == CoreUpdate(core, ctl.read, command.request, CommandFresh).core
<1>1. core' = next /\ drive' = next.speed /\ UNCHANGED <<command, generation>>
  BY DEF SwerveUpdateEnd
<1>2. ctl' \in [active : BOOLEAN, ready : BOOLEAN, latched : BOOLEAN, stopReady : BOOLEAN,
                pc : {"idle", "read"}, read : FeedbackType]
  BY GoodFeedbackType DEF SwerveUpdateEnd
<1>3. next \in CoreType /\ (~CommandFresh => next.speed <= core.speed)
  <2>1. CommandFresh \in BOOLEAN
    BY DEF CommandFresh
  <2>2. QED
    BY <2>1, OnlyFreshGains
<1>4. next.speed \in Nat /\ core.speed \in Nat
  BY <1>3 DEF CoreType
<1>5. next.speed > 0 => command.sentTo = generation
  <2>1. CASE CommandFresh
    BY <2>1 DEF CommandFresh
  <2>2. CASE ~CommandFresh
    BY <1>3, <1>4, <2>2
  <2>3. QED
    BY <2>1, <2>2
<1>6. QED
  <2> HIDE DEF next
  <2>1. QED
    BY <1>1, <1>2, <1>3, <1>4, <1>5

LEMMA SwerveStepKeeps == SInv /\ [SwerveNext]_swerveVars => SInv'
<1> SUFFICES ASSUME SInv, [SwerveNext]_swerveVars PROVE SInv'
  OBVIOUS
<1> USE DEF SInv, SwerveTypeOK, SpeedHasSender
<1>1. CASE SwerveActivate
  BY <1>1, ActivateKeeps
<1>2. CASE SwerveDeactivate
  <2>1. core' \in CoreType /\ core'.speed = 0 /\ drive' = 0
    BY <1>2 DEF SwerveDeactivate, CoreType
  <2>2. ctl' \in [active : BOOLEAN, ready : BOOLEAN, latched : BOOLEAN, stopReady : BOOLEAN,
                  pc : {"idle", "read"}, read : FeedbackType]
    BY <1>2 DEF SwerveDeactivate
  <2>3. UNCHANGED <<command, generation>>
    BY <1>2 DEF SwerveDeactivate
  <2>4. QED
    BY <2>1, <2>2, <2>3
<1>3. CASE SwerveUpdateEnd
  BY <1>3, UpdateEndKeeps
<1>4. ASSUME NEW f \in Feedbacks, SwerveUpdateBegin(f) PROVE SInv'
  <2>1. f \in FeedbackType
    BY SwerveAssumption
  <2>2. ctl' \in [active : BOOLEAN, ready : BOOLEAN, latched : BOOLEAN, stopReady : BOOLEAN,
                  pc : {"idle", "read"}, read : FeedbackType]
    BY <1>4, <2>1 DEF SwerveUpdateBegin, GoodPeriod, CoreType
  <2>3. QED
    BY <1>4, <2>2 DEF SwerveUpdateBegin
<1>5. ASSUME NEW g \in 1 .. generation, NEW request \in {"zero", "go", "bad"},
             AcceptCommand(g, request)
      PROVE  SInv'
  BY <1>5 DEF AcceptCommand
<1>6. CASE FaultStopTimer \/ SwerveClock
  BY <1>6 DEF FaultStopTimer, SwerveClock
<1>7. CASE UNCHANGED swerveVars
  BY <1>7 DEF swerveVars
<1>8. QED
  <2> HIDE DEF SInv, SwerveTypeOK, SpeedHasSender
  <2>1. QED
    BY <1>1, <1>2, <1>3, <1>4, <1>5, <1>6, <1>7 DEF SwerveNext, SwerveUpdate

(* The inductive invariant of the swerve controller holds for every set of *)
(* feedbacks, every timeout and any number of activations.                 *)
THEOREM SwerveInductive == SwerveSpec => []SInv
BY SwerveStarts, SwerveStepKeeps, PTL DEF SwerveSpec

(* What moves the wheels was sent to this activation (accept_command's     *)
(* generation tag, the command buffer emptied by on_activate, and the      *)
(* ramp, which only slows without a fresh command).                        *)
THEOREM QueuedCommandsAreDropped == SwerveSpec => []QueuedCommandsDie
<1>1. SInv => QueuedCommandsDie
  BY DEF SInv, SwerveTypeOK, SpeedHasSender, QueuedCommandsDie
<1>2. QED
  BY <1>1, SwerveInductive, PTL

-----------------------------------------------------------------------------
(* The vacuum I/O node.                                                    *)

CoilType == coil \in [Outputs -> BOOLEAN]

LEMMA CoilStep == CoilType /\ [PlcNext]_plcVars => CoilType'
<1> SUFFICES ASSUME CoilType, [PlcNext]_plcVars PROVE CoilType'
  OBVIOUS
<1>1. CASE PlcPoll \/ ModuleRestart \/ UNCHANGED plcVars
  BY <1>1 DEF CoilType, PlcPoll, ModuleRestart, plcVars
<1>2. ASSUME NEW o \in Outputs, NEW enabled \in BOOLEAN, OutputCommand(o, enabled)
      PROVE  CoilType'
  BY <1>2 DEF CoilType, OutputCommand
<1>3. QED
  BY <1>1, <1>2 DEF PlcNext

(* The pump goes off only with both suction valves off (pump_stop_blocker, *)
(* which reads the coils anew), whatever requests have failed before.      *)
THEOREM PumpStopsAreReleased == PlcSpec => PumpStopsReleased
<1> DEFINE Released == coil["pump"] /\ ~coil'["pump"] => ~coil'["left"] /\ ~coil'["right"]
<1>1. PlcInit => CoilType
  BY DEF PlcInit, CoilType
<1>2. CoilType /\ [PlcNext]_plcVars => [Released]_plcVars
  <2> SUFFICES ASSUME CoilType, [PlcNext]_plcVars PROVE [Released]_plcVars
    OBVIOUS
  <2>1. CASE PlcPoll \/ ModuleRestart \/ UNCHANGED plcVars
    BY <2>1 DEF CoilType, PlcPoll, ModuleRestart, plcVars, Outputs
  <2>2. ASSUME NEW o \in Outputs, NEW enabled \in BOOLEAN, OutputCommand(o, enabled)
        PROVE  Released
    <3>1. coil' = coil \/ coil' = [coil EXCEPT ![o] = enabled]
      BY <2>2 DEF OutputCommand
    <3>2. CASE o = "pump" /\ ~enabled
      BY <2>2, <3>1, <3>2 DEF OutputCommand, PumpStopBlocked, CoilType, Outputs
    <3>3. CASE ~(o = "pump" /\ ~enabled)
      BY <3>1, <3>3 DEF CoilType, Outputs
    <3>4. QED
      BY <3>2, <3>3
  <2>3. QED
    BY <2>1, <2>2 DEF PlcNext
<1>3. QED
  BY <1>1, <1>2, CoilStep, PTL DEF PlcSpec, PumpStopsReleased

=============================================================================
