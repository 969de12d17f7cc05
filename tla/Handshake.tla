----------------------------- MODULE Handshake -----------------------------
(***************************************************************************)
(* The handshake between the enable manager and a device whose hardware    *)
(* component runs its own enable sequence: an enable command, a reset      *)
(* generation, and the phase the device shows (handshake_device.cpp).      *)
(***************************************************************************)

(* What HandshakeDevice makes of the phase, the fault flag and the motion  *)
(* flag it reads: "invalid" if it cannot make anything of them.            *)
DevicePhases == {"disabled", "enabled", "transition", "fault_latched", "invalid"}

(* Where a device in phase s may go by itself under the command e, with a  *)
(* reset generation pending or not.  It follows the command, finishes a    *)
(* way down that it has begun, and takes a generation in a fault, when it  *)
(* is not told to enable, or when it is down already.                      *)
DeviceMoves(s, pending, e) ==
  {mv \in DevicePhases \X BOOLEAN :
     \/ /\ mv[2] = pending
        /\ \/ s = "disabled" /\ e /\ mv[1] = "transition"
           \/ s = "enabled" /\ ~e /\ mv[1] = "transition"
           \/ s = "transition" /\ e /\ mv[1] = "enabled"
           \/ s = "transition" /\ mv[1] = "disabled"
           \/ s = "invalid" /\ mv[1] # "invalid"
     \/ /\ pending /\ ~e
        /\ s = "fault_latched" /\ mv[1] = "disabled"
     \/ /\ pending /\ ~mv[2]
        /\ s = "disabled" /\ (mv[1] = "disabled" \/ (e /\ mv[1] = "transition"))}
=============================================================================
