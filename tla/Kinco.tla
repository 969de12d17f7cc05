-------------------------------- MODULE Kinco --------------------------------
(* KincoCyclicModeSlave (hw_ethercat): the EtherCAT slave of a Kinco drive   *)
(* that runs in CSP or CSV.  A PDO cycle reads the inputs, lets the clients  *)
(* of the command interfaces write, and sends a frame; the read and the      *)
(* frame are each one step of the realtime thread.  The drive is external.   *)
(*                                                                           *)
(* Positions and velocities are raw counts.  A velocity is named for what    *)
(* its writer could know: Blind while the drive shows CSP or a request is in *)
(* flight, Early while it shows no mode yet, Informed while it shows CSV.    *)
EXTENDS Integers

CONSTANTS MaxPosition,       \* positions are 0 .. MaxPosition
          TakeoverTolerance, \* in counts
          StartupMode,       \* mode_of_operation
          ModeSwitching,     \* mode_switching
          AckTimeout,        \* mode_ack_timeout_seconds, in cycles
          MaxRideThrough,    \* kMaxRideThroughCycles
          Writes             \* what clients leave in the command interfaces

Positions == 0 .. MaxPosition
CSP == 8
CSV == 9
Undefined == -1              \* NaN, or never
Invalid == -2                \* a value outside its limits
Blind == 1
Informed == 2
Early == 3

ASSUME KincoAssumption ==
    /\ {MaxPosition, TakeoverTolerance, AckTimeout, MaxRideThrough} \subseteq Nat
    /\ StartupMode \in {CSP, CSV} /\ ModeSwitching \in BOOLEAN
    /\ Writes \subseteq [position : Positions \cup {Undefined, Invalid},
                         velocity : {0, Blind, Undefined}, mode : {Undefined, 0, CSP, CSV},
                         word : {"enable", "inhibit"},
                         mask : SUBSET {"position", "velocity", "mode"}]

VARIABLES slave,    \* the members of the slave
          cmd,      \* the command interfaces
          pub,      \* the state interfaces of the handoff
          frame,    \* the outputs of the last frame
          motor     \* the drive

kincoVars == <<slave, cmd, pub, frame, motor>>

KincoInit ==
    /\ slave = [operational |-> FALSE, pc |-> "read", got |-> "lost", have |-> FALSE,
                position |-> 0, moving |-> FALSE, enabled |-> FALSE, mode |-> 0,
                seedPending |-> FALSE, seedSent |-> FALSE, hold |-> 0, holdKnown |-> FALSE,
                owned |-> FALSE, wait |-> Undefined, error |-> FALSE,
                preseedPending |-> FALSE, preseedSent |-> FALSE, inFlight |-> FALSE,
                target |-> 0, age |-> 0, zeroPending |-> FALSE, needFresh |-> TRUE,
                quarantine |-> FALSE, incomplete |-> 0, cspSeed |-> 0, csvHold |-> 0,
                lastVelocity |-> 0, lastMode |-> 0]
    /\ cmd = [position |-> Undefined, velocity |-> Undefined, mode |-> Undefined,
              word |-> "inhibit", mask |-> {}]
    /\ pub = [ready |-> FALSE, ack |-> FALSE, fresh |-> FALSE, error |-> FALSE, sent |-> FALSE]
    /\ frame = [position |-> 0, velocity |-> 0, mode |-> 0, word |-> "off"]
    /\ motor = [position |-> 0, moving |-> FALSE, enabled |-> FALSE, mode |-> 0]

-----------------------------------------------------------------------------
(* Operators on s = [slave, cmd, pub, frame], the state within a cycle.      *)

ValidPosition(s) == s.cmd.position \in Positions
ValidVelocity(s) == s.cmd.velocity \in {0, Blind, Early, Informed}
Desired(s) == IF ModeSwitching /\ s.cmd.mode # Undefined THEN s.cmd.mode ELSE StartupMode
Apart(x, y) == x - y > TakeoverTolerance \/ y - x > TakeoverTolerance

ClearHandoff(s, error) ==
    [s EXCEPT !.slave = [s.slave EXCEPT !.error = s.slave.error \/ error, !.target = 0,
                           !.preseedPending = FALSE, !.preseedSent = FALSE, !.inFlight = FALSE,
                           !.zeroPending = FALSE, !.quarantine = FALSE],
              !.pub = [s.pub EXCEPT !.ready = FALSE, !.ack = FALSE, !.fresh = FALSE,
                                    !.error = error]]

LoseSeed(s, error) == ClearHandoff([s EXCEPT !.slave.seedSent = FALSE], error)

InvalidateVelocity(s) == [s EXCEPT !.cmd.velocity = Undefined]

InhibitOperation(s) ==
    LET word == IF s.frame.word = "enable" THEN "inhibit" ELSE s.frame.word
    IN  [s EXCEPT !.frame = [s.frame EXCEPT !.word = word, !.velocity = 0]]

\* The plausible mistake: a path that gives no position follows the drive.
ActualPosition(s) == IF s.slave.have THEN s.slave.position ELSE s.slave.hold

(* "Never fall back to the live actual position": the latched hold.          *)
HoldPosition(s) ==
    IF s.slave.holdKnown THEN s.slave.hold ELSE IF s.slave.have THEN s.slave.position ELSE 0

RideThrough(s) ==
    /\ s.slave.got = "lost" /\ s.slave.operational /\ s.slave.seedSent
    /\ s.slave.incomplete <= MaxRideThrough

(* What the frame carries unless a branch of onPdoCycleStart decides more.   *)
Prepared(s) ==
    LET word == IF s.slave.operational /\ (s.slave.got # "lost" \/ RideThrough(s))
                THEN s.cmd.word ELSE "off"
    IN  [s EXCEPT
           !.frame = [position |-> HoldPosition(s), velocity |-> 0,
                      mode |-> IF s.slave.have /\ s.slave.mode # 0 THEN s.slave.mode
                               ELSE StartupMode,
                      word |-> IF ~s.slave.seedSent /\ word = "enable" THEN "inhibit" ELSE word],
           !.pub = [s.pub EXCEPT !.ready = FALSE, !.ack = FALSE, !.fresh = FALSE]]

(* The first complete cycle latches the position it reads.                   *)
Seed(s) ==
    InvalidateVelocity(
      [s EXCEPT !.frame.position = s.slave.position,
                !.slave = [s.slave EXCEPT !.hold = s.slave.position, !.holdKnown = TRUE,
                                          !.owned = FALSE, !.seedPending = TRUE]])

(* A latched error keeps the drive out of operation.                         *)
Refuse(s) == InhibitOperation([s EXCEPT !.pub.error = TRUE])

(* The drive is not in Operation Enabled: the hold tracks it, an error ends  *)
(* once enable is no longer asked for, and an old target is discarded.       *)
Disabled(s) ==
    LET error == s.slave.error /\ s.cmd.word = "enable"
        t == [s EXCEPT !.frame.position = s.slave.position,
                       !.slave = [s.slave EXCEPT !.hold = s.slave.position, !.holdKnown = TRUE,
                                                 !.error = error]]
    IN  IF error THEN Refuse(t)
        ELSE IF Desired(s) \notin {CSP, CSV} THEN ClearHandoff(t, TRUE)
        ELSE ClearHandoff(
               [t EXCEPT !.frame.mode = StartupMode, !.cmd.position = Undefined,
                         !.slave = [t.slave EXCEPT !.owned = FALSE, !.wait = Undefined]], FALSE)

(* Enabled, but the drive does not show a mode yet.                          *)
AwaitStartupMode(s) ==
    LET waited == IF s.slave.wait = Undefined THEN 0 ELSE s.slave.wait + 1
        t == [s EXCEPT !.slave.wait = waited]
    IN  IF Desired(s) # StartupMode \/ waited > AckTimeout
        THEN ClearHandoff([t EXCEPT !.slave.wait = AckTimeout], TRUE)
        ELSE InvalidateVelocity(
               [t EXCEPT !.frame = [t.frame EXCEPT !.mode = StartupMode,
                                                   !.position = s.slave.hold]])

\* The plausible mistake: the mode display alone ends the request.
ConfirmCsvOnDisplay(s) ==
    LET t == [s EXCEPT !.frame.position = s.slave.csvHold]
    IN  IF s.slave.mode = CSV
        THEN [t EXCEPT !.slave.inFlight = FALSE, !.slave.needFresh = TRUE, !.pub.ack = TRUE]
        ELSE t

(* CSP to CSV: zero velocity until the drive shows CSV and a frame of zero   *)
(* was sent in it; see Sent.                                                 *)
ConfirmCsv(s) ==
    InvalidateVelocity([s EXCEPT !.frame.position = s.slave.csvHold,
                                 !.slave.zeroPending = @ \/ s.slave.mode = CSV])

(* CSV to CSP: the seed until the drive shows CSP.                           *)
ConfirmCsp(s) ==
    LET t == [s EXCEPT !.frame.position = s.slave.cspSeed, !.pub.ready = s.slave.preseedSent]
    IN  IF s.slave.mode = CSP
        THEN [t EXCEPT !.slave = [t.slave EXCEPT !.owned = TRUE, !.hold = s.slave.cspSeed,
                                                 !.inFlight = FALSE, !.preseedSent = FALSE],
                       !.pub.ack = TRUE]
        ELSE t

InFlight(s) ==
    LET age == s.slave.age + 1
        t == [s EXCEPT !.slave.age = age, !.frame.mode = s.slave.target]
    IN  IF Desired(s) # s.slave.target \/ age > AckTimeout THEN ClearHandoff(s, TRUE)
        ELSE IF s.slave.target = CSP THEN ConfirmCsp(t) ELSE ConfirmCsv(t)

Launch(s, mode) ==
    [s EXCEPT !.frame.mode = mode,
              !.slave = [s.slave EXCEPT !.target = mode, !.inFlight = TRUE, !.age = 0]]

(* CSV to CSP asks for a drive at rest and a command equal to its position,  *)
(* sent in a frame of CSV first.                                             *)
RequestCsp(s) ==
    LET t == [s EXCEPT !.frame.position = s.slave.position, !.slave.cspSeed = s.slave.position]
    IN  IF s.cmd.position # s.slave.position \/ s.slave.moving THEN s
        ELSE IF ~s.slave.preseedSent THEN [t EXCEPT !.slave.preseedPending = TRUE]
        ELSE Launch([t EXCEPT !.pub.ready = TRUE], CSP)

RequestCsv(s) ==
    IF ~ValidPosition(s) THEN ClearHandoff(s, TRUE)
    ELSE Launch(InvalidateVelocity([s EXCEPT !.frame.position = s.cmd.position,
                                             !.slave.csvHold = s.cmd.position]), CSV)

(* CSP: the hold until a controller takes over, within the tolerance.        *)
FollowPosition(s) ==
    LET t == [s EXCEPT !.frame.position = s.slave.hold]
        drifted == ~s.slave.owned /\ Apart(s.slave.position, s.slave.hold)
        jump == ~s.slave.owned /\ Apart(s.cmd.position, s.slave.position)
    IN  IF drifted THEN InhibitOperation(ClearHandoff(t, TRUE))
        ELSE IF s.cmd.position = Undefined /\ ~s.slave.owned THEN t
        ELSE IF ~ValidPosition(s) \/ jump THEN InhibitOperation(ClearHandoff(t, TRUE))
        ELSE [s EXCEPT !.slave = [s.slave EXCEPT !.owned = TRUE, !.hold = s.cmd.position],
                       !.frame.position = s.cmd.position, !.pub.fresh = TRUE]

(* The masked interfaces of the pending write hold valid values.             *)
PendingValid(s) ==
    /\ s.cmd.mask # {}
    /\ "velocity" \in s.cmd.mask => ValidVelocity(s)
    /\ "position" \in s.cmd.mask => ValidPosition(s)
    /\ "mode" \in s.cmd.mask => s.cmd.mode \in {CSP, CSV}

(* CSV: the velocity, once one was written after the quarantine.             *)
FollowVelocity(s) ==
    LET t == IF PendingValid(s) /\ "position" \in s.cmd.mask
             THEN [s EXCEPT !.frame.position = s.cmd.position] ELSE s
    IN  IF s.slave.quarantine THEN InvalidateVelocity([t EXCEPT !.slave.quarantine = FALSE])
        ELSE IF ValidVelocity(s)
        THEN [t EXCEPT !.slave.needFresh = FALSE, !.frame.velocity = s.cmd.velocity,
                       !.pub.fresh = TRUE]
        ELSE [t EXCEPT !.pub.error = @ \/ ~s.slave.needFresh]

Steady(s) ==
    LET t == [s EXCEPT !.pub = [s.pub EXCEPT !.ready = TRUE, !.ack = TRUE]]
    IN  IF s.slave.mode = CSP THEN FollowPosition(t) ELSE FollowVelocity(t)

(* Enabled and showing CSP or CSV.                                           *)
Operate(s) ==
    LET owned == s.slave.owned /\ s.slave.mode = CSP
        t == [s EXCEPT !.slave = [s.slave EXCEPT !.wait = Undefined, !.owned = owned]]
    IN  IF t.slave.inFlight THEN InFlight(t)
        ELSE IF Desired(t) = t.slave.mode THEN Steady(t)
        ELSE IF t.slave.mode = CSV THEN RequestCsp(t) ELSE RequestCsv(t)

(* onPdoCycleStart.                                                          *)
Start(s) ==
    LET p == Prepared(s)
        k == s.slave
    IN  IF RideThrough(s)
        THEN [p EXCEPT !.frame = [p.frame EXCEPT !.velocity = k.lastVelocity,
                                                 !.mode = k.lastMode]]
        ELSE IF k.got = "lost" THEN LoseSeed(p, TRUE)
        ELSE IF ~k.operational \/ ~k.have THEN LoseSeed(p, FALSE)
        ELSE IF k.got = "late" THEN LoseSeed(p, TRUE)
        ELSE IF ~k.seedSent THEN Seed(p)
        ELSE IF ~k.enabled THEN Disabled(p)
        ELSE IF k.error THEN Refuse(p)
        ELSE IF Desired(p) \notin {CSP, CSV} THEN ClearHandoff(p, TRUE)
        ELSE IF k.mode = 0 THEN AwaitStartupMode(p)
        ELSE Operate(p)

(* onPdoCycleSent, after the frame of s; pending: the commands at its start. *)
Sent(s, pending) ==
    LET k == s.slave
        exact == /\ PendingValid(pending) /\ ~k.error /\ k.enabled
                 /\ "velocity" \in pending.cmd.mask => pending.cmd.velocity = s.frame.velocity
                 /\ "position" \in pending.cmd.mask => pending.cmd.position = s.frame.position
                 /\ "mode" \in pending.cmd.mask => pending.cmd.mode = s.frame.mode
        seededCsv == k.seedPending /\ (k.mode = CSV \/ (k.mode = 0 /\ StartupMode = CSV))
        preseeded == /\ k.preseedPending /\ s.frame.position = k.position
                     /\ s.frame.velocity = 0 /\ s.frame.mode = CSV
        zeroed == k.zeroPending /\ s.frame.velocity = 0 /\ s.frame.mode = CSV
    IN  IF k.got = "lost" \/ ~k.operational THEN s
        ELSE [s EXCEPT
                !.slave = [k EXCEPT
                    !.lastVelocity = s.frame.velocity, !.lastMode = s.frame.mode,
                    !.seedPending = FALSE, !.seedSent = k.seedSent \/ k.seedPending,
                    !.preseedPending = k.preseedPending /\ ~preseeded,
                    !.preseedSent = k.preseedSent \/ preseeded,
                    !.zeroPending = k.zeroPending /\ ~zeroed,
                    !.inFlight = k.inFlight /\ ~zeroed,
                    !.needFresh = k.needFresh \/ seededCsv \/ zeroed,
                    !.quarantine = k.quarantine \/ zeroed],
                !.cmd.velocity = IF seededCsv \/ zeroed THEN Undefined ELSE s.cmd.velocity,
                !.pub = [s.pub EXCEPT !.ready = s.pub.ready \/ preseeded,
                                      !.ack = s.pub.ack \/ zeroed,
                                      !.sent = s.pub.sent \/ exact]]

-----------------------------------------------------------------------------
(* onPdoCycleRead and the inputs.                                            *)
KincoRead(got) ==
    LET lost == got = "lost"
        count == IF ~lost THEN 0
                 ELSE IF slave.incomplete > MaxRideThrough THEN slave.incomplete
                 ELSE slave.incomplete + 1
        read == [slave EXCEPT !.pc = "write", !.got = got, !.have = ~lost, !.incomplete = count]
        s == [slave |-> IF lost THEN read
                        ELSE [read EXCEPT !.position = motor.position, !.moving = motor.moving,
                                          !.enabled = motor.enabled, !.mode = motor.mode],
              cmd |-> cmd, pub |-> pub, frame |-> frame]
        t == IF lost /\ (~slave.seedSent \/ count > MaxRideThrough) THEN LoseSeed(s, TRUE) ELSE s
    IN  /\ slave.pc = "read"
        /\ slave' = t.slave /\ pub' = t.pub
        /\ UNCHANGED <<cmd, frame, motor>>

(* The controllers and the mode coordinator write between read and frame.    *)
KincoWrite(w) ==
    LET speed == IF slave.inFlight \/ slave.mode = CSP THEN Blind
                 ELSE IF slave.mode = CSV THEN Informed ELSE Early
    IN  /\ slave.pc = "write"
        /\ cmd' = [w EXCEPT !.velocity = IF @ = Blind THEN speed ELSE @]
        /\ pub' = [pub EXCEPT !.sent = FALSE]
        /\ UNCHANGED <<slave, frame, motor>>

(* The frame of the cycle: onPdoCycleStart, the outputs, onPdoCycleSent.     *)
KincoSend ==
    LET s == [slave |-> slave, cmd |-> cmd, pub |-> pub, frame |-> frame]
        t == Sent(Start(s), s)
    IN  /\ slave.pc = "write"
        /\ slave' = [t.slave EXCEPT !.pc = "read"]
        /\ cmd' = t.cmd /\ pub' = t.pub /\ frame' = t.frame
        /\ UNCHANGED motor

(* set_state_is_operational.                                                 *)
KincoOperational(operational) ==
    LET down == [slave EXCEPT !.operational = FALSE, !.got = "lost", !.seedPending = FALSE,
                              !.seedSent = FALSE, !.error = FALSE, !.wait = Undefined,
                              !.owned = FALSE, !.holdKnown = FALSE, !.incomplete = 0]
        t == InvalidateVelocity(
               ClearHandoff([slave |-> down, cmd |-> cmd, pub |-> [pub EXCEPT !.sent = FALSE],
                             frame |-> frame], FALSE))
    IN  /\ slave.pc = "read" /\ slave.operational # operational
        /\ IF operational
           THEN slave' = [slave EXCEPT !.operational = TRUE] /\ UNCHANGED <<cmd, pub>>
           ELSE slave' = t.slave /\ cmd' = t.cmd /\ pub' = t.pub
        /\ UNCHANGED <<frame, motor>>

(* The drive: it is enabled by the enable word only, shows no mode before,   *)
(* then the mode of the frame, and it moves and jitters by a count.          *)
MotorStep ==
    /\ slave.pc = "read"
    /\ \/ motor' = [motor EXCEPT !.enabled = FALSE, !.mode = 0, !.moving = FALSE]
       \/ /\ frame.word = "enable" /\ ~motor.enabled
          /\ motor' = [motor EXCEPT !.enabled = TRUE]
       \/ /\ motor.enabled
          /\ motor' = [motor EXCEPT !.mode = frame.mode]
       \/ \E p \in Positions, moving \in BOOLEAN :
            /\ p - motor.position \in {-1, 0, 1} /\ (moving => motor.mode = CSV)
            /\ motor' = [motor EXCEPT !.position = p, !.moving = moving]
    /\ UNCHANGED <<slave, cmd, pub, frame>>

KincoNext ==
    \/ \E got \in {"complete", "late", "lost"} : KincoRead(got)
    \/ \E w \in Writes : KincoWrite(w)
    \/ KincoSend \/ MotorStep
    \/ \E operational \in BOOLEAN : KincoOperational(operational)

KincoSpec == KincoInit /\ [][KincoNext]_kincoVars

-----------------------------------------------------------------------------
(* From a request for CSV until the next one for CSP or clear_handoff, the   *)
(* wire never carries a velocity that was written while the drive ran in CSP *)
(* or the request was in flight: onPdoCycleStart and onPdoCycleSent discard  *)
(* it, whatever the drive and the lost frames do meanwhile.  A drive whose   *)
(* StartupMode is CSP enters CSV in no other way, so none is sent that was   *)
(* written before it showed CSV.  (One that starts in CSV shows it without a *)
(* request once it is enabled; then only the position has been discarded.)   *)
SpeedIsInformed ==
    /\ slave.target = CSV => frame.velocity # Blind
    /\ StartupMode = CSP => frame.velocity \notin {Blind, Early}

(* An enabled drive runs in CSP and no controller owns its position.         *)
Unowned ==
    /\ slave.enabled /\ slave.mode = CSP /\ ~slave.owned /\ ~slave.inFlight
    /\ frame.word = "enable" /\ frame.mode = CSP

(* Such a drive gets the same target in every frame: lost frames, an invalid *)
(* mode command and the jitter of the measurement do not move it.            *)
UnownedStays == [][Unowned /\ Unowned' => frame'.position = frame.position]_kincoVars

(* "Up to kMaxRideThroughCycles consecutive lost cycles repeat the last      *)
(* outputs" (onPdoCycleRead): a lost read does not change the target of an   *)
(* enabled drive that runs in CSP.                                           *)
LostFrameKeepsTarget ==
    [][/\ KincoSend /\ slave.got = "lost" /\ frame'.word = "enable"
       /\ motor.enabled /\ motor.mode = CSP /\ frame.mode = CSP
       => frame'.position = frame.position]_kincoVars

=============================================================================
