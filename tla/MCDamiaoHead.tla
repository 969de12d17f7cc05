---------------------------- MODULE MCDamiaoHead ----------------------------
(* An instance of the head for model checking: its two motors.             *)
EXTENDS DamiaoHead

TwoMotors == {"yaw", "pitch"}
=============================================================================
