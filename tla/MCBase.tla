------------------------------- MODULE MCBase -------------------------------
(* The mobile base's nodes for TLC: the swerve controller, the battery node *)
(* and the vacuum I/O node share nothing, so a behaviour runs one of them,  *)
(* chosen at the start, and leaves the others in their initial state.       *)
EXTENDS Swerve, Battery, Plc

VARIABLE under      \* the component that runs

baseVars == <<under, swerveVars, batteryVars, plcVars>>

Read(stale, inconsistent, off, turning, lost, error) ==
    [stale |-> stale, inconsistent |-> inconsistent, off |-> off, turning |-> turning,
     lost |-> lost, error |-> error, limit |-> FALSE, dt |-> 1]

(* Good; a late cycle; an encoder that disagrees; a bad alignment; a       *)
(* module off its target; a stale one; one that cannot be measured; a      *)
(* target out of travel.                                                   *)
MCFeedbacks ==
    LET good == Read({}, {}, {}, {}, FALSE, "small")
    IN  {good, [good EXCEPT !.dt = 2, !.turning = {1}],
         Read({}, {1}, {}, {1}, FALSE, "middle"), Read({}, {}, {}, {1}, FALSE, "large"),
         Read({}, {}, {1}, {}, FALSE, "small"),
         Read({1}, {}, {}, {1}, FALSE, "small"), Read({1}, {}, {}, {}, TRUE, "small"),
         [good EXCEPT !.limit = TRUE, !.turning = {1}]}

Report(mos, contact) ==
    [status |-> [p \in Packs |-> "good"],
     mos |-> [p \in Packs |-> IF p = "primary" THEN "on" ELSE mos],
     volts |-> "near", amps |-> "small", relay |-> contact, loads |-> "stopped",
     ack |-> TRUE, authorized |-> TRUE]

(* One thing at a time that is out of order, or not heard of.              *)
Odd(r) ==
    {[r EXCEPT !.volts = "apart"],
     [r EXCEPT !.volts = "far", !.loads = "running"],
     [r EXCEPT !.amps = "large", !.authorized = FALSE],
     [r EXCEPT !.status["secondary"] = "silent", !.ack = FALSE],
     [r EXCEPT !.status["secondary"] = "fault", !.mos["secondary"] = "other"],
     [r EXCEPT !.status["primary"] = "sick"],
     [r EXCEPT !.mos["primary"] = "off", !.relay = "silent"]}

Missing(r) ==
    {[r EXCEPT !.mos = [p \in Packs |-> "silent"], !.ack = FALSE],
     [r EXCEPT !.relay = "silent", !.loads = "silent"]}

MCReports ==
    LET opened == Report("off", "open")
        joining == Report("on", "open")
        joined == Report("on", "closed")
    IN  {Report("off", "closed"), opened, joining, joined}
          \cup Missing(opened) \cup Missing(joined) \cup Odd(joining) \cup Odd(joined)

Init ==
    /\ under \in {"swerve", "battery", "plc"}
    /\ SwerveInit /\ BatteryInit /\ PlcInit
    /\ under # "plc" => \A o \in Outputs : ~coil[o]

RunsSwerve(A) == under = "swerve" /\ A /\ UNCHANGED <<under, batteryVars, plcVars>>
RunsBattery == under = "battery" /\ BatteryNext /\ UNCHANGED <<under, swerveVars, plcVars>>
RunsPlc == under = "plc" /\ PlcNext /\ UNCHANGED <<under, swerveVars, batteryVars>>

Next == RunsSwerve(SwerveNext) \/ RunsBattery \/ RunsPlc

(* The control loop runs, its clock advances, the fault stop timer fires   *)
(* and the battery node's reader thread keeps its control period.          *)
Fairness ==
    /\ WF_baseVars(RunsSwerve(SwerveUpdate)) /\ WF_baseVars(RunsSwerve(SwerveClock))
    /\ WF_baseVars(RunsSwerve(FaultStopTimer)) /\ WF_baseVars(RunsBattery)

Spec == Init /\ [][Next]_baseVars /\ Fairness

=============================================================================
