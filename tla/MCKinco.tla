------------------------------ MODULE MCKinco ------------------------------
(* A small instance of Kinco for TLC: two positions and the command sets of *)
(* a trajectory controller, a velocity controller and a coordinator.        *)
EXTENDS Kinco

Write(position, velocity, mode, word, mask) ==
    [position |-> position, velocity |-> velocity, mode |-> mode, word |-> word, mask |-> mask]

MCWrites ==
    {Write(Undefined, Undefined, 0, "enable", {}),
     Write(0, 0, CSP, "enable", {"position"}),
     Write(1, Blind, CSP, "enable", {}),
     Write(0, Blind, CSV, "enable", {"position", "mode"}),
     Write(Invalid, 0, Undefined, "inhibit", {"velocity"})}

=============================================================================
