--------------------------------- MODULE Plc ---------------------------------
(* The vacuum I/O node (periph_plc_io): a pump and two suction valves as    *)
(* coils of a Modbus module, two pressures as registers of another.  The    *)
(* node has one thread, so a service call or a poll is one step; but any    *)
(* request in it may fail, before or after the module has executed it, and  *)
(* the module may restart with its coils off.  Pressures are external: a    *)
(* register reads anything.                                                 *)
EXTENDS Naturals

Outputs == {"pump", "left", "right"}
Valves == {"left", "right"}

VARIABLES coil,     \* the coils of the DI/DO module (external)
          io        \* the node: its copy of the outputs, whether valid, the pressure samples

plcVars == <<coil, io>>

(* The coils may be on when the node starts; it has read nothing yet.      *)
PlcInit ==
    /\ coil \in [Outputs -> BOOLEAN]
    /\ io = [on |-> [o \in Outputs |-> FALSE], valid |-> FALSE,
             pressure |-> [v \in Valves |-> "none"], connected |-> FALSE]

(* One Modbus transaction: answered and executed or not, or failed (lost,  *)
(* late, refused, malformed) before or after its execution.                *)
Outcomes == [executed : BOOLEAN, answered : BOOLEAN]

\* The plausible mistake: the node's own copies are trusted.
PumpStopBlockedByCopy ==
    \/ io.on["left"] \/ io.on["right"]
    \/ \E v \in Valves : io.pressure[v] # "released"

(* Why an ordinary pump stop is refused: a valve that reads on now, or a   *)
(* pressure of the last poll that is invalid or below -1 kPa.              *)
PumpStopBlocked ==
    \/ coil["left"] \/ coil["right"]
    \/ \E v \in Valves : io.pressure[v] # "released"

(* on_output_command where the reads before the write succeed (a failed    *)
(* one leaves everything as it is): the write if the coil differs, and the *)
(* read back.  A refused pump stop does nothing.                           *)
OutputCommand(o, enabled) ==
    /\ ~(o = "pump" /\ ~enabled /\ PumpStopBlocked)
    /\ \E write \in Outcomes, readback \in BOOLEAN :
         /\ coil' = IF write.executed THEN [coil EXCEPT ![o] = enabled] ELSE coil
         /\ io' = IF (coil[o] = enabled \/ write.answered) /\ readback
                  THEN [io EXCEPT !.on[o] = coil'[o]] ELSE io

(* poll_all_inputs.  The pump, the left and the right coil are read in     *)
(* this order until a read fails, then the pressures in the same way.      *)
PlcPoll ==
    /\ \E coils \in {{}, {"pump"}, {"pump", "left"}, Outputs},
          sides \in {{}, {"left"}, Valves} :
       \E sample \in [sides -> {"released", "held", "invalid"}] :
         io' = [on |-> [o \in Outputs |-> IF o \in coils THEN coil[o] ELSE io.on[o]],
                valid |-> coils = Outputs,
                pressure |-> [v \in Valves |-> IF v \in sides THEN sample[v] ELSE "none"],
                connected |-> sides = Valves]
    /\ UNCHANGED coil

(* The module restarts: all coils off at once (external).                  *)
ModuleRestart ==
    /\ coil' = [o \in Outputs |-> FALSE]
    /\ UNCHANGED io

PlcNext ==
    \/ PlcPoll \/ ModuleRestart
    \/ \E o \in Outputs, enabled \in BOOLEAN : OutputCommand(o, enabled)

PlcSpec == PlcInit /\ [][PlcNext]_plcVars

-----------------------------------------------------------------------------
(* The pump goes off only when both suction valves are off, so no held box *)
(* is let go: whatever requests have failed, with or without effect, and   *)
(* however old the node's copies of the coils are.                         *)
PumpStopsReleased == [][coil["pump"] /\ ~coil'["pump"] => ~coil'["left"] /\ ~coil'["right"]]_plcVars

=============================================================================
