-------------------------- MODULE HandshakeDevice --------------------------
(***************************************************************************)
(* What the enable manager assumes of a handshake device, as a             *)
(* specification of its own: the requests of the manager and the moves of  *)
(* the device.                                                             *)
(***************************************************************************)
EXTENDS Handshake

VARIABLES enable,    \* enable_requested_
          pending,   \* the requested generation is not handled yet
          dev        \* the phase the manager reads

vars == <<enable, pending, dev>>

TypeOK == enable \in BOOLEAN /\ pending \in BOOLEAN /\ dev \in DevicePhases

(* The manager is not bound to the device.                                 *)
Init == enable = FALSE /\ pending = FALSE /\ dev = "invalid"

(* baseline(), and the manager's or the hardware's deactivation.           *)
Bind    == dev = "invalid" /\ dev' \in DevicePhases /\ enable' = FALSE /\ pending' = FALSE
Release == dev' = "invalid" /\ enable' = FALSE /\ pending' = FALSE

request_enable == enable' \in BOOLEAN /\ UNCHANGED <<pending, dev>>
start_reset    == enable' = FALSE /\ pending' = TRUE /\ UNCHANGED dev

(* The device may also find a fault, or become unreadable, at any time.    *)
Move ==
  /\ \/ \E mv \in DeviceMoves(dev, pending, enable) : dev' = mv[1] /\ pending' = mv[2]
     \/ dev' \in {"fault_latched", "invalid"} /\ UNCHANGED pending
  /\ UNCHANGED enable

Next == Bind \/ Release \/ request_enable \/ start_reset \/ Move

Spec == Init /\ [][Next]_vars
=============================================================================
