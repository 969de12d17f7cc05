------------------------------- MODULE Battery -------------------------------
(* The battery node (periph_bms): two packs, the primary wired to the bus   *)
(* and the secondary joined to it by relay K2.  DualBatteryController       *)
(* decides in every control period, from what has been heard of the packs, *)
(* the relay's contact and the loads; BmsNode publishes the relay command.  *)
(*                                                                          *)
(* A step is a control period: the frames and feedback heard since the     *)
(* last one, then update_discharge_control.  Stamps are kept as ages in    *)
(* periods; a frame heard in a period is newer than a command sent in an   *)
(* earlier one.  The packs, the contact and the loads are external: a      *)
(* period may report anything of them that is in Reports, or nothing.      *)
EXTENDS Naturals

CONSTANTS Reports,          \* what a period may hear, see ReportType
          StatusTimeout,    \* control_status_timeout_s
          BmsTimeout,       \* command_timeout_s
          Observation,      \* secondary_observation_s
          Stable            \* join_stable_s

Packs == {"primary", "secondary"}

(* status of a pack: all frames but the MOS frame; "sick" is a measurement *)
(* out of its range or a charger, "fault" a fault bit.  volts: the packs'  *)
(* difference is within max_voltage_delta_v, within trip_voltage_delta_v,  *)
(* or above; amps: whether both currents are within max_abs_current_a.     *)
ReportType ==
    [status : [Packs -> {"good", "sick", "fault", "silent"}],
     mos : [Packs -> {"on", "off", "other", "silent"}],
     volts : {"near", "apart", "far"}, amps : {"small", "large"},
     relay : {"open", "closed", "silent"}, loads : {"stopped", "running", "silent"},
     ack : BOOLEAN, authorized : BOOLEAN]

ASSUME BatteryAssumption ==
    /\ Reports \subseteq ReportType
    /\ {StatusTimeout, BmsTimeout, Observation, Stable} \subseteq Nat

VARIABLES heard,            \* primary_, secondary_ and the feedback members of the node
          bms,              \* the DualBatteryController and the action it returned
          relayCommand      \* the last message on the relay command topic

batteryVars == <<heard, bms, relayCommand>>

Stale == StatusTimeout + 1
Expired == BmsTimeout + Observation + Stable + 1

BatteryInit ==
    /\ heard = [status |-> [p \in Packs |-> "none"], statusAge |-> [p \in Packs |-> Stale],
                mos |-> [p \in Packs |-> "none"], mosAge |-> [p \in Packs |-> Stale],
                volts |-> "near", amps |-> "small", relay |-> "none", relayAge |-> Stale,
                loads |-> "running", loadsAge |-> Stale, ack |-> FALSE, authorized |-> FALSE]
    /\ bms = [phase |-> "waiting_for_relay_open", since |-> Expired, action |-> "none",
              seen |-> {}, faulted |-> {}, attempted |-> {}]
    /\ relayCommand = "none"

-----------------------------------------------------------------------------
(* What a period hears.  ack: a positive D9 acknowledge has come since the *)
(* command; authorized: relay and loads have a subscriber.                 *)

Older(age) == IF age < Stale THEN age + 1 ELSE age
Newest(new, old) == IF new = "silent" THEN old ELSE new

Hear(r) ==
    LET some == \E p \in Packs : r.status[p] # "silent"
        ages(new, old) == [p \in Packs |-> IF new[p] = "silent" THEN Older(old[p]) ELSE 0]
    IN  [status |-> [p \in Packs |-> Newest(r.status[p], heard.status[p])],
         statusAge |-> ages(r.status, heard.statusAge),
         mos |-> [p \in Packs |-> Newest(r.mos[p], heard.mos[p])],
         mosAge |-> ages(r.mos, heard.mosAge),
         volts |-> IF some THEN r.volts ELSE heard.volts,
         amps |-> IF some THEN r.amps ELSE heard.amps,
         relay |-> Newest(r.relay, heard.relay),
         relayAge |-> IF r.relay = "silent" THEN Older(heard.relayAge) ELSE 0,
         loads |-> Newest(r.loads, heard.loads),
         loadsAge |-> IF r.loads = "silent" THEN Older(heard.loadsAge) ELSE 0,
         ack |-> r.ack, authorized |-> r.authorized]

-----------------------------------------------------------------------------
(* DualBatteryController.                                                  *)

Fresh(stamp) == stamp <= StatusTimeout

MosOn(h, p) == h.mos[p] = "on" /\ Fresh(h.mosAge[p])
ContactIs(h, position) == h.relay = position /\ Fresh(h.relayAge)
LoadsStopped(h) == h.loads = "stopped" /\ Fresh(h.loadsAge)

Healthy(h, p) ==
    h.status[p] = "good" /\ Fresh(h.statusAge[p]) /\ h.mos[p] # "none" /\ Fresh(h.mosAge[p])

\* Healthy but for the age of its MOS frame.
HealthyStatus(h, p) == h.status[p] = "good" /\ Fresh(h.statusAge[p]) /\ h.mos[p] # "none"

JoinInterlocks(h) == MosOn(h, "primary") /\ ContactIs(h, "open")

LoadsSafeToSwitch(h) ==
    LoadsStopped(h) /\ (\A p \in Packs : Fresh(h.statusAge[p])) /\ h.amps = "small"

JoinConditions(h) ==
    /\ h.authorized /\ LoadsStopped(h) /\ JoinInterlocks(h)
    /\ (\A p \in Packs : Healthy(h, p)) /\ h.mos["secondary"] \in {"off", "on"}
    /\ h.volts = "near" /\ h.amps = "small"

BeforeCommand == {"waiting_for_secondary", "waiting_for_join_conditions"}
WaitingForD9 == {"waiting_for_ack", "waiting_for_mos"}
Connected == {"observing_secondary", "running"}
ExpectsPrimary == BeforeCommand \cup WaitingForD9 \cup {"waiting_for_relay_closed"} \cup Connected
Isolating == {"stopping_loads", "stopping_secondary", "opening_relay", "stopping_primary",
              "fault_latched", "awaiting_isolation_policy"}

\* The plausible mistake: the wait for the MOS counts as done with the join conditions.
JoiningWithoutMos == {"waiting_for_ack", "waiting_for_relay_closed", "observing_secondary"}

Joining == WaitingForD9 \cup {"waiting_for_relay_closed", "observing_secondary"}

LatchFault(c, faults) ==
    [c EXCEPT !.faulted = @ \cup faults,
              !.phase = IF faults = {} \/ @ \in Isolating THEN @ ELSE "stopping_loads"]

PrimaryFault(c, h) ==
    \/ h.status["primary"] = "fault"
    \/ /\ "primary" \in c.seen
       /\ IF c.phase \in BeforeCommand THEN ~HealthyStatus(h, "primary") ELSE ~Healthy(h, "primary")

SecondaryFault(c, h) ==
    LET bothOk == \A p \in Packs : Healthy(h, p)
    IN  \/ h.status["secondary"] = "fault"
        \/ "secondary" \in c.seen /\ ~Healthy(h, "secondary")
        \/ c.phase \in WaitingForD9 /\ ~JoinInterlocks(h)
        \/ c.phase \in BeforeCommand /\ ContactIs(h, "closed")
        \/ c.phase \in Joining /\ bothOk
             /\ (h.volts # "near" \/ h.amps # "small" \/ ~LoadsStopped(h))
        \/ c.phase \in Joining \cup Connected /\ ~h.authorized
        \/ c.phase \in Connected /\ (~ContactIs(h, "closed") \/ h.mos["secondary"] # "on")
        \/ c.phase \in Connected /\ bothOk /\ h.volts = "far"

(* The monitor at the head of update(); since is the age of command_s_,    *)
(* stable_since_s_ or observation_s_, whichever the phase reads.           *)
Monitored(h) ==
    LET aged == [bms EXCEPT !.since = IF @ < Expired THEN @ + 1 ELSE @,
                            !.seen = @ \cup {p \in Packs : Healthy(h, p)}]
    IN  LatchFault(aged, {p \in Packs : \/ p = "primary" /\ PrimaryFault(aged, h)
                                        \/ p = "secondary" /\ SecondaryFault(aged, h)})

\* The primary supply is lost where the phase relies on it.
SupplyLost(h) ==
    bms.phase \in ExpectsPrimary /\ Fresh(h.mosAge["primary"]) /\ h.mos["primary"] # "on"

Stay(c, action) == [c EXCEPT !.action = action]
Go(c, phase, action) == [c EXCEPT !.phase = phase, !.action = action, !.since = Expired]
Command(c, phase, action) == [c EXCEPT !.phase = phase, !.action = action, !.since = 0]

Reported(h, p, position, c) == h.mosAge[p] < c.since /\ h.mos[p] = position

\* A join step that was not confirmed in time is a fault of the secondary.
Await(c) ==
    IF c.since > BmsTimeout
    THEN [LatchFault(c, {"secondary"}) EXCEPT !.action = "stop_loads", !.since = Expired]
    ELSE Stay(c, "none")

Isolate(c, p) ==
    [Command(c, IF p = "primary" THEN "stopping_primary" ELSE "stopping_secondary",
             IF p = "primary" THEN "disable_primary" ELSE "disable_secondary")
       EXCEPT !.attempted = @ \cup {p}]

Due(c, p) == p \in c.faulted /\ p \notin c.attempted

(* The phases in which the secondary is waited for and joined.             *)
Join(c, h) ==
    CASE c.phase = "waiting_for_relay_open" ->
           IF ContactIs(h, "open") THEN Go(c, "waiting_for_primary", "none")
           ELSE Stay(LatchFault(c, IF ContactIs(h, "closed") THEN {"secondary"} ELSE {}),
                     "stop_loads")
      [] c.phase = "waiting_for_primary" ->
           IF Healthy(h, "primary") /\ h.mos["primary"] = "on"
           THEN Go(c, "waiting_for_secondary", "none") ELSE Stay(c, "none")
      [] c.phase = "waiting_for_secondary" ->
           IF Healthy(h, "secondary") /\ JoinInterlocks(h)
           THEN Go(c, "waiting_for_join_conditions", "none") ELSE Stay(c, "none")
      [] c.phase = "waiting_for_join_conditions" ->
           IF ~JoinConditions(h) THEN Go(c, c.phase, "none")
           ELSE IF c.since = Expired THEN Command(c, c.phase, "none")
           ELSE IF c.since < Stable THEN Stay(c, "none")
           ELSE IF h.mos["secondary"] = "off" THEN Command(c, "waiting_for_ack", "enable_secondary")
           ELSE Command(c, "waiting_for_relay_closed", "close_relay")
      [] c.phase = "waiting_for_ack" ->
           IF h.ack THEN [c EXCEPT !.phase = "waiting_for_mos", !.action = "none"] ELSE Await(c)
      [] c.phase = "waiting_for_mos" ->
           IF Reported(h, "secondary", "on", c)
           THEN Command(c, "waiting_for_relay_closed", "close_relay") ELSE Await(c)
      [] c.phase = "waiting_for_relay_closed" ->
           IF ContactIs(h, "closed") /\ h.relayAge < c.since
           THEN Command(c, "observing_secondary", "none") ELSE Await(c)
      [] c.phase = "observing_secondary" ->
           IF c.since >= Observation THEN Go(c, "running", "none") ELSE Stay(c, "none")
      [] c.phase = "running" -> Stay(c, "none")

\* The plausible mistake: the relay opens only when the secondary's MOS reports off.
StoppingSecondaryForMos(c, h) ==
    IF ~LoadsSafeToSwitch(h) THEN Stay(c, "stop_loads")
    ELSE IF ~Reported(h, "secondary", "off", c) THEN Stay(c, "disable_secondary")
    ELSE Command(c, "opening_relay", "open_relay")

StoppingSecondary(c, h) ==
    IF ~LoadsSafeToSwitch(h) THEN Stay(c, "stop_loads")
    ELSE IF ~Reported(h, "secondary", "off", c) /\ c.since <= BmsTimeout
    THEN Stay(c, "disable_secondary")
    ELSE Command(c, "opening_relay", "open_relay")

(* The phases in which faulted packs are isolated, the secondary first.    *)
Isolation(c, h) ==
    CASE c.phase = "stopping_loads" ->
           IF ~LoadsSafeToSwitch(h) THEN Stay(c, "stop_loads")
           ELSE IF Due(c, "secondary") THEN Isolate(c, "secondary")
           ELSE IF Due(c, "primary") THEN Isolate(c, "primary")
           ELSE Go(c, "fault_latched", "none")
      [] c.phase = "stopping_secondary" -> StoppingSecondary(c, h)
      [] c.phase = "opening_relay" ->
           IF ~ContactIs(h, "open") /\ c.since <= BmsTimeout THEN Stay(c, "open_relay")
           ELSE IF Due(c, "primary") THEN Isolate(c, "primary")
           ELSE Go(c, "fault_latched", "none")
      [] c.phase = "stopping_primary" ->
           IF ~Reported(h, "primary", "off", c) /\ c.since <= BmsTimeout
           THEN Stay(c, IF LoadsSafeToSwitch(h) THEN "disable_primary" ELSE "stop_loads")
           ELSE Go(c, "fault_latched", "none")
      [] c.phase = "fault_latched" ->
           IF \E p \in Packs : Due(c, p) THEN Go(c, "stopping_loads", "stop_loads")
           ELSE Stay(c, IF "secondary" \in c.faulted THEN "open_relay" ELSE "none")

BmsUpdate(h) ==
    LET c == Monitored(h)
    IN  IF bms.phase = "awaiting_isolation_policy" THEN Stay(bms, "stop_loads")
        ELSE IF SupplyLost(h)
        THEN [Go(bms, "awaiting_isolation_policy", "stop_loads")
                EXCEPT !.faulted = @ \cup {"primary"}]
        ELSE IF c.phase \in Isolating THEN Isolation(c, h) ELSE Join(c, h)

(* hold_relay: the command is repeated so that the relay does not drop.    *)
HoldRelay(c, h) ==
    \/ c.phase = "waiting_for_relay_closed"
    \/ /\ h.relay = "closed"
       /\ \/ c.phase \in Connected \cup {"stopping_loads", "stopping_secondary",
                                         "stopping_primary", "awaiting_isolation_policy"}
          \/ c.phase = "fault_latched" /\ "secondary" \notin c.faulted

(* A control period.  The D9 frame and the stop request of the action go   *)
(* to the packs and the loads, or are lost; their answers are in Reports.  *)
ControlPeriod(r) ==
    /\ heard' = Hear(r)
    /\ bms' = BmsUpdate(heard')
    /\ relayCommand' = IF bms'.action = "open_relay" THEN "open"
                       ELSE IF bms'.action = "close_relay" \/ HoldRelay(bms', heard') THEN "close"
                       ELSE relayCommand

BatteryNext == \E r \in Reports : ControlPeriod(r)

BatterySpec == BatteryInit /\ [][BatteryNext]_batteryVars

-----------------------------------------------------------------------------
(* K2 joins two packs that agree: a relay that is not known to be closed   *)
(* is commanded to close only while, in that very period, both packs are   *)
(* healthy, near in voltage and unloaded, the loads stand, both MOS are    *)
(* on and the contact is open - however long the acknowledge and the MOS   *)
(* have taken since the conditions were found stable.                      *)
JoinsWhatAgrees ==
    [][relayCommand' = "close" /\ relayCommand # "close" /\ heard'.relay # "closed"
         => JoinConditions(heard') /\ heard'.mos["secondary"] = "on"]_batteryVars

(* A faulted secondary is cut off: if the loads come to be safe to switch, *)
(* a secondary whose fault was latched ends with K2 commanded open, even   *)
(* if its MOS never reports off, the contact never moves or the primary    *)
(* fails as well.                                                          *)
FaultedSecondaryIsCutOff ==
    <>[]LoadsSafeToSwitch(heard) /\ <>("secondary" \in bms.faulted)
      => <>[](relayCommand = "open")

=============================================================================
