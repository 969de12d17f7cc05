--------------------------- MODULE Battery_proofs ---------------------------
(* The batteries join only while they agree, for every set of reports and  *)
(* every timeout.                                                          *)
EXTENDS Battery, TLAPS

JoinPhases ==
    {"waiting_for_relay_open", "waiting_for_primary"} \cup BeforeCommand \cup WaitingForD9
      \cup {"waiting_for_relay_closed"} \cup Connected

AllPhases == JoinPhases \cup Isolating

ActionType == {"none", "stop_loads", "enable_secondary", "close_relay", "disable_secondary",
               "open_relay", "disable_primary"}

BmsType ==
    [phase : AllPhases, since : Nat, action : ActionType,
     seen : SUBSET Packs, faulted : SUBSET Packs, attempted : SUBSET Packs]

(* While the relay is awaited it is commanded to close, and the D9 command *)
(* is sent only after both packs have been seen healthy: from then on a    *)
(* pack that is not healthy is a fault.                                    *)
BInv ==
    /\ bms \in BmsType
    /\ bms.phase = "waiting_for_relay_closed" => relayCommand = "close"
    /\ bms.phase \in WaitingForD9 => bms.seen = Packs

LEMMA Timeouts == BmsTimeout \in Nat /\ Stable \in Nat /\ Observation \in Nat /\ Expired \in Nat
BY BatteryAssumption DEF Expired

-----------------------------------------------------------------------------
(* The operators that make the next state of the controller.               *)

LEMMA StayType ==
  ASSUME NEW c \in BmsType, NEW action \in ActionType
  PROVE  /\ Stay(c, action) \in BmsType
         /\ Stay(c, action).phase = c.phase /\ Stay(c, action).seen = c.seen
         /\ Stay(c, action).action = action
BY DEF Stay, BmsType

LEMMA GoType ==
  ASSUME NEW c \in BmsType, NEW phase \in AllPhases, NEW action \in ActionType
  PROVE  /\ Go(c, phase, action) \in BmsType
         /\ Go(c, phase, action).phase = phase /\ Go(c, phase, action).seen = c.seen
         /\ Go(c, phase, action).action = action
BY Timeouts DEF Go, BmsType

LEMMA CommandType ==
  ASSUME NEW c \in BmsType, NEW phase \in AllPhases, NEW action \in ActionType
  PROVE  /\ Command(c, phase, action) \in BmsType
         /\ Command(c, phase, action).phase = phase /\ Command(c, phase, action).seen = c.seen
         /\ Command(c, phase, action).action = action
BY DEF Command, BmsType

LEMMA LatchType ==
  ASSUME NEW c \in BmsType, NEW faults \in SUBSET Packs
  PROVE  /\ LatchFault(c, faults) \in BmsType
         /\ LatchFault(c, faults).seen = c.seen
         /\ LatchFault(c, faults).action = c.action
         /\ LatchFault(c, faults).phase = IF faults = {} \/ c.phase \in Isolating
                                          THEN c.phase ELSE "stopping_loads"
<1>1. (IF faults = {} \/ c.phase \in Isolating THEN c.phase ELSE "stopping_loads")
        \in AllPhases
  BY DEF BmsType, AllPhases, Isolating
<1>2. QED
  BY <1>1 DEF LatchFault, BmsType

LEMMA AwaitType ==
  ASSUME NEW c \in BmsType, c.phase \notin Isolating
  PROVE  /\ Await(c) \in BmsType /\ Await(c).seen = c.seen
         /\ \/ Await(c).phase = c.phase /\ Await(c).action = "none"
            \/ Await(c).phase = "stopping_loads" /\ Await(c).action = "stop_loads"
<1> DEFINE latched == LatchFault(c, {"secondary"})
<1>1. latched \in BmsType /\ latched.seen = c.seen /\ latched.phase = "stopping_loads"
  BY LatchType DEF Packs
<1>2. CASE c.since > BmsTimeout
  <2> HIDE DEF latched
  <2>1. Await(c) = [latched EXCEPT !.action = "stop_loads", !.since = Expired]
    BY <1>2 DEF Await, latched
  <2>2. QED
    BY <1>1, <2>1, Timeouts DEF BmsType, ActionType
<1>3. CASE ~(c.since > BmsTimeout)
  BY <1>3, StayType DEF Await, ActionType
<1>4. QED
  BY <1>2, <1>3

LEMMA IsolateType ==
  ASSUME NEW c \in BmsType, NEW p \in Packs
  PROVE  /\ Isolate(c, p) \in BmsType
         /\ Isolate(c, p).phase \in Isolating
         /\ Isolate(c, p).action # "close_relay"
BY DEF Isolate, Command, BmsType, AllPhases, Isolating, ActionType, Packs

-----------------------------------------------------------------------------
(* What Join may do: the relay is closed from two phases only.             *)
ClosesFrom(c, h) ==
    /\ h.mos["secondary"] = "on"
    /\ \/ c.phase = "waiting_for_join_conditions" /\ JoinConditions(h)
       \/ c.phase = "waiting_for_mos"

JoinMakes(c, h, n) ==
    /\ n \in BmsType /\ n.seen = c.seen
    /\ n.phase = "waiting_for_relay_closed" => n.action # "open_relay"
    /\ n.phase = "waiting_for_relay_closed" \/ n.action = "close_relay" =>
         c.phase = "waiting_for_relay_closed" \/ ClosesFrom(c, h)
    /\ n.phase \in WaitingForD9 => c.phase \in WaitingForD9 \/ JoinConditions(h)

LEMMA Phases ==
  /\ "waiting_for_primary" \in AllPhases
  /\ "waiting_for_secondary" \in AllPhases
  /\ "waiting_for_join_conditions" \in AllPhases
  /\ "waiting_for_ack" \in AllPhases
  /\ "waiting_for_mos" \in AllPhases
  /\ "waiting_for_relay_closed" \in AllPhases
  /\ "observing_secondary" \in AllPhases
  /\ "running" \in AllPhases
  /\ "none" \in ActionType /\ "stop_loads" \in ActionType
  /\ "enable_secondary" \in ActionType /\ "close_relay" \in ActionType
  /\ \A p \in JoinPhases : p \notin Isolating
BY DEF AllPhases, JoinPhases, BeforeCommand, WaitingForD9, Connected, Isolating, ActionType

Plain(phase) == phase # "waiting_for_relay_closed" /\ phase \notin WaitingForD9

LEMMA PlainMakes ==
  ASSUME NEW c, NEW h, NEW n \in BmsType, n.seen = c.seen, Plain(n.phase),
         n.action # "close_relay"
  PROVE  JoinMakes(c, h, n)
BY DEF JoinMakes, Plain

LEMMA AwaitMakes ==
  ASSUME NEW c \in BmsType, NEW h, c.phase \notin Isolating
  PROVE  JoinMakes(c, h, Await(c))
<1> DEFINE n == Await(c)
<1>1. /\ n \in BmsType /\ n.seen = c.seen
      /\ \/ n.phase = c.phase /\ n.action = "none"
         \/ n.phase = "stopping_loads" /\ n.action = "stop_loads"
  BY AwaitType
<1> HIDE DEF n
<1>2. JoinMakes(c, h, n)
  BY <1>1 DEF JoinMakes, WaitingForD9
<1>3. QED
  BY <1>2 DEF n

LEMMA StayMakes ==
  ASSUME NEW c \in BmsType, NEW h, Plain(c.phase)
  PROVE  JoinMakes(c, h, Stay(c, "none"))
<1> DEFINE n == Stay(c, "none")
<1>1. n \in BmsType /\ n.seen = c.seen /\ n.phase = c.phase /\ n.action = "none"
  BY StayType, Phases
<1> HIDE DEF n
<1>2. JoinMakes(c, h, n)
  BY <1>1, PlainMakes
<1>3. QED
  BY <1>2 DEF n

LEMMA GoMakes ==
  ASSUME NEW c \in BmsType, NEW h, NEW phase \in AllPhases, Plain(phase)
  PROVE  JoinMakes(c, h, Go(c, phase, "none")) /\ JoinMakes(c, h, Command(c, phase, "none"))
<1> DEFINE n == Go(c, phase, "none")
           m == Command(c, phase, "none")
<1>1. n \in BmsType /\ n.seen = c.seen /\ n.phase = phase /\ n.action = "none"
  BY GoType, Phases
<1>2. m \in BmsType /\ m.seen = c.seen /\ m.phase = phase /\ m.action = "none"
  BY CommandType, Phases
<1> HIDE DEF n, m
<1>3. JoinMakes(c, h, n) /\ JoinMakes(c, h, m)
  BY <1>1, <1>2, PlainMakes
<1>4. QED
  BY <1>3 DEF n, m

LEMMA CloseMakes ==
  ASSUME NEW c \in BmsType, NEW h, ClosesFrom(c, h)
  PROVE  JoinMakes(c, h, Command(c, "waiting_for_relay_closed", "close_relay"))
<1> DEFINE n == Command(c, "waiting_for_relay_closed", "close_relay")
<1>1. n \in BmsType /\ n.seen = c.seen /\ n.phase = "waiting_for_relay_closed"
      /\ n.action = "close_relay"
  BY CommandType, Phases
<1> HIDE DEF n
<1>2. JoinMakes(c, h, n)
  BY <1>1 DEF JoinMakes, WaitingForD9
<1>3. QED
  BY <1>2 DEF n

LEMMA EnableMakes ==
  ASSUME NEW c \in BmsType, NEW h, JoinConditions(h)
  PROVE  JoinMakes(c, h, Command(c, "waiting_for_ack", "enable_secondary"))
<1> DEFINE n == Command(c, "waiting_for_ack", "enable_secondary")
<1>1. n \in BmsType /\ n.seen = c.seen /\ n.phase = "waiting_for_ack"
      /\ n.action = "enable_secondary"
  BY CommandType, Phases
<1> HIDE DEF n
<1>2. JoinMakes(c, h, n)
  BY <1>1 DEF JoinMakes
<1>3. QED
  BY <1>2 DEF n

LEMMA JoinStep ==
  ASSUME NEW c \in BmsType, NEW h, c.phase \in JoinPhases
  PROVE  JoinMakes(c, h, Join(c, h))
<1>0. c.phase \notin Isolating
  BY Phases
<1>a. /\ Plain("waiting_for_primary") /\ Plain("waiting_for_secondary")
      /\ Plain("waiting_for_join_conditions") /\ Plain("observing_secondary")
      /\ Plain("running") /\ Plain("waiting_for_relay_open") /\ Plain("stopping_loads")
  BY DEF Plain, WaitingForD9
<1>1. CASE c.phase = "waiting_for_relay_open"
  <2>1. \/ Join(c, h) = Go(c, "waiting_for_primary", "none")
        \/ \E faults \in SUBSET Packs : Join(c, h) = Stay(LatchFault(c, faults), "stop_loads")
    BY <1>1 DEF Join, Packs
  <2>2. ASSUME NEW faults \in SUBSET Packs
        PROVE  JoinMakes(c, h, Stay(LatchFault(c, faults), "stop_loads"))
    <3> DEFINE l == LatchFault(c, faults)
               n == Stay(l, "stop_loads")
    <3>1. l \in BmsType /\ l.seen = c.seen
          /\ (l.phase = "waiting_for_relay_open" \/ l.phase = "stopping_loads")
      BY <1>1, LatchType
    <3> HIDE DEF l
    <3>2. n \in BmsType /\ n.seen = l.seen /\ n.phase = l.phase /\ n.action = "stop_loads"
      BY <3>1, StayType, Phases
    <3> HIDE DEF n
    <3>3. JoinMakes(c, h, n)
      BY <1>a, <3>1, <3>2, PlainMakes
    <3>4. QED
      BY <3>3 DEF n, l
  <2>3. JoinMakes(c, h, Go(c, "waiting_for_primary", "none"))
    BY <1>a, GoMakes, Phases
  <2>4. QED
    BY <2>1, <2>2, <2>3
<1>2. CASE c.phase = "waiting_for_primary"
  <2>1. Join(c, h) = Go(c, "waiting_for_secondary", "none") \/ Join(c, h) = Stay(c, "none")
    BY <1>2 DEF Join
  <2>2. JoinMakes(c, h, Go(c, "waiting_for_secondary", "none"))
    BY <1>a, GoMakes, Phases
  <2>3. JoinMakes(c, h, Stay(c, "none"))
    BY <1>2, <1>a, StayMakes
  <2>4. QED
    BY <2>1, <2>2, <2>3
<1>3. CASE c.phase = "waiting_for_secondary"
  <2>1. Join(c, h) = Go(c, "waiting_for_join_conditions", "none") \/ Join(c, h) = Stay(c, "none")
    BY <1>3 DEF Join
  <2>2. JoinMakes(c, h, Go(c, "waiting_for_join_conditions", "none"))
    BY <1>a, GoMakes, Phases
  <2>3. JoinMakes(c, h, Stay(c, "none"))
    BY <1>3, <1>a, StayMakes
  <2>4. QED
    BY <2>1, <2>2, <2>3
<1>4. CASE c.phase = "waiting_for_join_conditions"
  <2>1. \/ Join(c, h) = Go(c, c.phase, "none") \/ Join(c, h) = Command(c, c.phase, "none")
        \/ Join(c, h) = Stay(c, "none")
        \/ JoinConditions(h) /\ Join(c, h) = Command(c, "waiting_for_ack", "enable_secondary")
        \/ JoinConditions(h) /\ h.mos["secondary"] # "off"
             /\ Join(c, h) = Command(c, "waiting_for_relay_closed", "close_relay")
    BY <1>4 DEF Join
  <2>2. JoinMakes(c, h, Go(c, c.phase, "none")) /\ JoinMakes(c, h, Command(c, c.phase, "none"))
    BY <1>4, <1>a, GoMakes, Phases
  <2>3. JoinMakes(c, h, Stay(c, "none"))
    BY <1>4, <1>a, StayMakes
  <2>4. JoinConditions(h) /\ h.mos["secondary"] # "off" => ClosesFrom(c, h)
    BY <1>4 DEF JoinConditions, ClosesFrom
  <2>5. QED
    BY <2>1, <2>2, <2>3, <2>4, CloseMakes, EnableMakes
<1>5. CASE c.phase = "waiting_for_ack"
  <2> DEFINE n == [c EXCEPT !.phase = "waiting_for_mos", !.action = "none"]
  <2>1. Join(c, h) = n \/ Join(c, h) = Await(c)
    BY <1>5 DEF Join
  <2>2. n \in BmsType /\ n.seen = c.seen /\ n.phase = "waiting_for_mos" /\ n.action = "none"
    BY Phases DEF BmsType
  <2> HIDE DEF n
  <2>3. JoinMakes(c, h, n)
    BY <1>5, <2>2 DEF JoinMakes, WaitingForD9
  <2>4. JoinMakes(c, h, Await(c))
    BY <1>0, AwaitMakes
  <2>5. QED
    BY <2>1, <2>3, <2>4
<1>6. CASE c.phase = "waiting_for_mos"
  <2>1. \/ Join(c, h) = Await(c)
        \/ Reported(h, "secondary", "on", c)
             /\ Join(c, h) = Command(c, "waiting_for_relay_closed", "close_relay")
    BY <1>6 DEF Join
  <2>2. Reported(h, "secondary", "on", c) => ClosesFrom(c, h)
    BY <1>6 DEF Reported, ClosesFrom
  <2>3. QED
    BY <1>0, <2>1, <2>2, AwaitMakes, CloseMakes
<1>7. CASE c.phase = "waiting_for_relay_closed"
  <2>1. Join(c, h) = Command(c, "observing_secondary", "none") \/ Join(c, h) = Await(c)
    BY <1>7 DEF Join
  <2>2. JoinMakes(c, h, Command(c, "observing_secondary", "none"))
    BY <1>a, GoMakes, Phases
  <2>3. QED
    BY <1>0, <2>1, <2>2, AwaitMakes
<1>8. CASE c.phase \in Connected
  <2>1. Join(c, h) = Go(c, "running", "none") \/ Join(c, h) = Stay(c, "none")
    BY <1>8 DEF Join, Connected
  <2>2. JoinMakes(c, h, Go(c, "running", "none"))
    BY <1>a, GoMakes, Phases
  <2>3. JoinMakes(c, h, Stay(c, "none"))
    BY <1>8, <1>a, StayMakes DEF Connected
  <2>4. QED
    BY <2>1, <2>2, <2>3
<1>9. QED
  BY <1>1, <1>2, <1>3, <1>4, <1>5, <1>6, <1>7, <1>8
  DEF JoinPhases, BeforeCommand, WaitingForD9, Connected

-----------------------------------------------------------------------------
(* What Isolation may do: it never leaves the isolating phases and never   *)
(* closes the relay.                                                       *)
Isolates(n) == n \in BmsType /\ n.phase \in Isolating /\ n.action # "close_relay"

LEMMA IsolatingMakes ==
  ASSUME NEW c \in BmsType
  PROVE  /\ \A p \in Packs : Isolates(Isolate(c, p))
         /\ c.phase \in Isolating =>
              \A a \in ActionType \ {"close_relay"} : Isolates(Stay(c, a))
         /\ \A p \in Isolating, a \in ActionType \ {"close_relay"} :
              Isolates(Go(c, p, a)) /\ Isolates(Command(c, p, a))
<1>1. \A p \in Packs : Isolates(Isolate(c, p))
  BY IsolateType DEF Isolates
<1>2. ASSUME NEW a \in ActionType \ {"close_relay"}, c.phase \in Isolating
      PROVE  Isolates(Stay(c, a))
  <2> DEFINE n == Stay(c, a)
  <2>1. n \in BmsType /\ n.phase = c.phase /\ n.action = a
    BY StayType
  <2> HIDE DEF n
  <2>2. Isolates(n)
    BY <1>2, <2>1 DEF Isolates
  <2>3. QED
    BY <2>2 DEF n
<1>3. ASSUME NEW p \in Isolating, NEW a \in ActionType \ {"close_relay"}
      PROVE  Isolates(Go(c, p, a)) /\ Isolates(Command(c, p, a))
  <2> DEFINE n == Go(c, p, a)
             m == Command(c, p, a)
  <2>0. p \in AllPhases
    BY DEF AllPhases
  <2>1. n \in BmsType /\ n.phase = p /\ n.action = a
    BY <2>0, GoType
  <2>2. m \in BmsType /\ m.phase = p /\ m.action = a
    BY <2>0, CommandType
  <2> HIDE DEF n, m
  <2>3. Isolates(n) /\ Isolates(m)
    BY <2>1, <2>2 DEF Isolates
  <2>4. QED
    BY <2>3 DEF n, m
<1>4. QED
  BY <1>1, <1>2, <1>3

LEMMA IsolationStep ==
  ASSUME NEW c \in BmsType, NEW h, c.phase \in Isolating, c.phase # "awaiting_isolation_policy"
  PROVE  Isolates(Isolation(c, h))
<1>a. /\ {"none", "stop_loads", "disable_secondary", "open_relay", "disable_primary"}
            \subseteq ActionType \ {"close_relay"}
      /\ {"fault_latched", "opening_relay", "stopping_loads"} \subseteq Isolating
      /\ "primary" \in Packs /\ "secondary" \in Packs
  BY DEF ActionType, Isolating, Packs
<1>b. /\ \A a \in ActionType \ {"close_relay"} : Isolates(Stay(c, a))
      /\ \A p \in Packs : Isolates(Isolate(c, p))
      /\ \A p \in Isolating, a \in ActionType \ {"close_relay"} :
           Isolates(Go(c, p, a)) /\ Isolates(Command(c, p, a))
  BY IsolatingMakes
<1>c. /\ Isolates(Stay(c, "none")) /\ Isolates(Stay(c, "stop_loads"))
      /\ Isolates(Stay(c, "disable_secondary")) /\ Isolates(Stay(c, "open_relay"))
      /\ Isolates(Stay(c, "disable_primary"))
      /\ Isolates(Isolate(c, "primary")) /\ Isolates(Isolate(c, "secondary"))
      /\ Isolates(Go(c, "fault_latched", "none"))
      /\ Isolates(Go(c, "stopping_loads", "stop_loads"))
      /\ Isolates(Command(c, "opening_relay", "open_relay"))
  BY <1>a, <1>b
<1>1. CASE c.phase = "stopping_loads"
  BY <1>1, <1>c DEF Isolation
<1>2. CASE c.phase = "stopping_secondary"
  BY <1>2, <1>c DEF Isolation, StoppingSecondary
<1>3. CASE c.phase = "opening_relay"
  BY <1>3, <1>c DEF Isolation
<1>4. CASE c.phase = "stopping_primary"
  BY <1>4, <1>c DEF Isolation
<1>5. CASE c.phase = "fault_latched"
  BY <1>5, <1>c DEF Isolation
<1>6. QED
  BY <1>1, <1>2, <1>3, <1>4, <1>5 DEF Isolating

-----------------------------------------------------------------------------
(* The monitor: what it leaves standing is healthy where it was seen       *)
(* healthy before, and meets the conditions of its phase.                  *)
LEMMA MonitoredFacts ==
  ASSUME bms \in BmsType, NEW h
  PROVE  /\ Monitored(h) \in BmsType
         /\ Monitored(h).seen = bms.seen \cup {p \in Packs : Healthy(h, p)}
         /\ Monitored(h).phase = "awaiting_isolation_policy"
              => bms.phase = "awaiting_isolation_policy"
         /\ Monitored(h).phase \notin Isolating =>
              /\ Monitored(h).phase = bms.phase
              /\ ~PrimaryFault(Monitored(h), h) /\ ~SecondaryFault(Monitored(h), h)
<1> DEFINE aged == [bms EXCEPT !.since = IF @ < Expired THEN @ + 1 ELSE @,
                               !.seen = @ \cup {p \in Packs : Healthy(h, p)}]
           faults == {p \in Packs : \/ p = "primary" /\ PrimaryFault(aged, h)
                                    \/ p = "secondary" /\ SecondaryFault(aged, h)}
           c == LatchFault(aged, faults)
<1>1. /\ aged \in BmsType /\ aged.phase = bms.phase
      /\ aged.seen = bms.seen \cup {p \in Packs : Healthy(h, p)}
  <2> DEFINE since == IF bms.since < Expired THEN bms.since + 1 ELSE bms.since
             seen == bms.seen \cup {p \in Packs : Healthy(h, p)}
  <2>1. since \in Nat
    BY Timeouts DEF BmsType
  <2>2. seen \in SUBSET Packs
    BY DEF BmsType
  <2>3. aged = [bms EXCEPT !.since = since, !.seen = seen]
    OBVIOUS
  <2> HIDE DEF since, seen, aged
  <2>4. aged \in BmsType /\ aged.phase = bms.phase /\ aged.seen = seen
    BY <2>1, <2>2, <2>3 DEF BmsType
  <2>5. QED
    BY <2>4 DEF seen
<1>2. Monitored(h) = c
  BY DEF Monitored
<1> HIDE DEF aged
<1>3. faults \in SUBSET Packs
  OBVIOUS
<1>4. faults = {} => ~PrimaryFault(aged, h) /\ ~SecondaryFault(aged, h)
  BY DEF Packs
<1> HIDE DEF faults
<1>5. /\ c \in BmsType /\ c.seen = aged.seen
      /\ c.phase = IF faults = {} \/ aged.phase \in Isolating THEN aged.phase ELSE "stopping_loads"
  BY <1>1, <1>3, LatchType
<1> HIDE DEF c
<1>6. ASSUME c.phase \notin Isolating
      PROVE  c.phase = bms.phase /\ ~PrimaryFault(c, h) /\ ~SecondaryFault(c, h)
  <2>1. faults = {} /\ c.phase = aged.phase
    BY <1>5, <1>6 DEF Isolating
  <2>2. PrimaryFault(c, h) = PrimaryFault(aged, h)
    BY <1>5, <2>1 DEF PrimaryFault
  <2>3. SecondaryFault(c, h) = SecondaryFault(aged, h)
    BY <1>5, <2>1 DEF SecondaryFault
  <2>4. QED
    BY <1>1, <1>4, <2>1, <2>2, <2>3
<1>7. c.phase = "awaiting_isolation_policy" => bms.phase = "awaiting_isolation_policy"
  BY <1>1, <1>5
<1>8. QED
  BY <1>1, <1>2, <1>5, <1>6, <1>7

(* In the wait for the MOS every join condition but the MOS is monitored.  *)
LEMMA MonitoredJoin ==
  ASSUME NEW c, NEW h, c.phase = "waiting_for_mos", c.seen = Packs,
         ~PrimaryFault(c, h), ~SecondaryFault(c, h), h.mos["secondary"] = "on"
  PROVE  JoinConditions(h)
<1>1. Healthy(h, "primary")
  BY DEF PrimaryFault, BeforeCommand, Packs
<1>2. Healthy(h, "secondary")
  BY DEF SecondaryFault, Packs
<1>3. \A p \in Packs : Healthy(h, p)
  BY <1>1, <1>2 DEF Packs
<1>4. JoinInterlocks(h)
  BY DEF SecondaryFault, WaitingForD9
<1>5. h.volts = "near" /\ h.amps = "small" /\ LoadsStopped(h) /\ h.authorized
  BY <1>3 DEF SecondaryFault, Joining, WaitingForD9
<1>6. QED
  BY <1>3, <1>4, <1>5 DEF JoinConditions

-----------------------------------------------------------------------------
(* What a control period makes of the controller.                          *)
PeriodMakes(h, n) ==
    /\ n \in BmsType
    /\ n.phase = "waiting_for_relay_closed" => n.action # "open_relay"
    /\ n.phase = "waiting_for_relay_closed" \/ n.action = "close_relay" =>
         \/ bms.phase = "waiting_for_relay_closed"
         \/ JoinConditions(h) /\ h.mos["secondary"] = "on"
    /\ n.phase \in WaitingForD9 => n.seen = Packs

LEMMA PeriodStep ==
  ASSUME BInv, NEW h
  PROVE  PeriodMakes(h, BmsUpdate(h))
<1> DEFINE c == Monitored(h)
<1>0. bms \in BmsType /\ (bms.phase \in WaitingForD9 => bms.seen = Packs)
  BY DEF BInv
<1>1. /\ c \in BmsType /\ c.seen = bms.seen \cup {p \in Packs : Healthy(h, p)}
      /\ c.phase = "awaiting_isolation_policy" => bms.phase = "awaiting_isolation_policy"
      /\ c.phase \notin Isolating =>
           c.phase = bms.phase /\ ~PrimaryFault(c, h) /\ ~SecondaryFault(c, h)
  BY <1>0, MonitoredFacts
<1>2. \A n : Isolates(n) => PeriodMakes(h, n)
  BY DEF Isolates, PeriodMakes, Isolating, WaitingForD9
<1>a. "stop_loads" \in ActionType \ {"close_relay"} /\ "awaiting_isolation_policy" \in Isolating
  BY DEF ActionType, Isolating
<1>3. CASE bms.phase = "awaiting_isolation_policy"
  <2>1. BmsUpdate(h) = Stay(bms, "stop_loads")
    BY <1>3 DEF BmsUpdate
  <2>2. Isolates(Stay(bms, "stop_loads"))
    BY <1>0, <1>3, <1>a, IsolatingMakes
  <2>3. QED
    BY <1>2, <2>1, <2>2
<1>4. CASE bms.phase # "awaiting_isolation_policy" /\ SupplyLost(h)
  <2> DEFINE g == Go(bms, "awaiting_isolation_policy", "stop_loads")
             n == [g EXCEPT !.faulted = @ \cup {"primary"}]
  <2>1. BmsUpdate(h) = n
    BY <1>4 DEF BmsUpdate
  <2>2. Isolates(g)
    BY <1>0, <1>a, IsolatingMakes
  <2> HIDE DEF g
  <2>3. Isolates(n)
    BY <2>2 DEF Isolates, BmsType, Packs
  <2>4. QED
    BY <1>2, <2>1, <2>3
<1>5. CASE bms.phase # "awaiting_isolation_policy" /\ ~SupplyLost(h) /\ c.phase \in Isolating
  <2>1. BmsUpdate(h) = Isolation(c, h)
    BY <1>5 DEF BmsUpdate
  <2> HIDE DEF c
  <2>2. Isolates(Isolation(c, h))
    BY <1>1, <1>5, IsolationStep
  <2>3. QED
    BY <1>2, <2>1, <2>2
<1>6. CASE bms.phase # "awaiting_isolation_policy" /\ ~SupplyLost(h) /\ c.phase \notin Isolating
  <2> DEFINE n == Join(c, h)
  <2>1. BmsUpdate(h) = n
    BY <1>6 DEF BmsUpdate
  <2> HIDE DEF c
  <2>2. c.phase \in JoinPhases
    BY <1>1, <1>6 DEF BmsType, AllPhases
  <2>3. JoinMakes(c, h, n)
    BY <1>1, <2>2, JoinStep
  <2> HIDE DEF n
  <2>4. ASSUME ClosesFrom(c, h)
        PROVE  JoinConditions(h) /\ h.mos["secondary"] = "on"
    <3>1. CASE c.phase = "waiting_for_mos"
      <4>1. bms.phase \in WaitingForD9
        BY <1>1, <1>6, <3>1 DEF WaitingForD9
      <4>2. c.seen = Packs
        BY <1>0, <1>1, <4>1
      <4>3. QED
        BY <1>1, <1>6, <2>4, <3>1, <4>2, MonitoredJoin DEF ClosesFrom
    <3>2. QED
      BY <2>4, <3>1 DEF ClosesFrom
  <2>5. ASSUME n.phase \in WaitingForD9
        PROVE  n.seen = Packs
    <3>1. CASE c.phase \in WaitingForD9
      BY <1>0, <1>1, <1>6, <2>3, <3>1 DEF JoinMakes
    <3>2. CASE JoinConditions(h)
      <4>1. \A p \in Packs : Healthy(h, p)
        BY <3>2 DEF JoinConditions
      <4>2. c.seen \subseteq Packs
        BY <1>1 DEF BmsType
      <4>3. QED
        BY <1>1, <2>3, <4>1, <4>2 DEF JoinMakes
    <3>3. QED
      BY <2>3, <2>5, <3>1, <3>2 DEF JoinMakes
  <2>6. PeriodMakes(h, n)
    BY <1>1, <1>6, <2>3, <2>4, <2>5 DEF PeriodMakes, JoinMakes
  <2>7. QED
    BY <2>1, <2>6
<1>7. QED
  BY <1>3, <1>4, <1>5, <1>6

(* BInv is inductive.                                                      *)
LEMMA BatteryInitial == BatteryInit => BInv
<1> SUFFICES ASSUME BatteryInit PROVE BInv
  OBVIOUS
<1>1. bms = [phase |-> "waiting_for_relay_open", since |-> Expired, action |-> "none",
             seen |-> {}, faulted |-> {}, attempted |-> {}]
  BY DEF BatteryInit
<1>2. "waiting_for_relay_open" \in AllPhases /\ "none" \in ActionType
  BY DEF AllPhases, JoinPhases, ActionType
<1>3. bms \in BmsType
  BY <1>1, <1>2, Timeouts DEF BmsType
<1>4. QED
  BY <1>1, <1>3 DEF BInv, WaitingForD9

LEMMA BatteryStep ==
  ASSUME BInv, BatteryNext
  PROVE  /\ BInv'
         /\ relayCommand' = "close" /\ relayCommand # "close" /\ heard'.relay # "closed"
              => JoinConditions(heard') /\ heard'.mos["secondary"] = "on"
<1>1. PICK r \in Reports : ControlPeriod(r)
  BY DEF BatteryNext
<1>2. bms' = BmsUpdate(heard')
  BY <1>1 DEF ControlPeriod
<1>3. PeriodMakes(heard', bms')
  <2> DEFINE h == heard'
  <2> HIDE DEF h
  <2>1. PeriodMakes(h, BmsUpdate(h))
    BY PeriodStep
  <2>2. QED
    BY <1>2, <2>1 DEF h
<1>4. relayCommand' = IF bms'.action = "open_relay" THEN "open"
                      ELSE IF bms'.action = "close_relay" \/ HoldRelay(bms', heard') THEN "close"
                      ELSE relayCommand
  BY <1>1 DEF ControlPeriod
<1>5. bms'.phase = "waiting_for_relay_closed" => relayCommand' = "close"
  BY <1>3, <1>4 DEF PeriodMakes, HoldRelay
<1>6. BInv'
  BY <1>3, <1>5 DEF BInv, PeriodMakes
<1>7. ASSUME relayCommand' = "close", relayCommand # "close", heard'.relay # "closed"
      PROVE  JoinConditions(heard') /\ heard'.mos["secondary"] = "on"
  <2>1. bms'.action = "close_relay" \/ bms'.phase = "waiting_for_relay_closed"
    BY <1>4, <1>7 DEF HoldRelay
  <2>2. bms.phase # "waiting_for_relay_closed"
    BY <1>7 DEF BInv
  <2>3. QED
    BY <1>3, <2>1, <2>2 DEF PeriodMakes
<1>8. QED
  BY <1>6, <1>7

(* The relay command of BmsNode joins the packs only while they agree,     *)
(* for every set of reports a period may hear and every timeout: the       *)
(* conditions that were stable before the D9 command still hold in the     *)
(* period that closes K2.                                                  *)
THEOREM JoinsAgree == BatterySpec => JoinsWhatAgrees
<1> DEFINE Agree == relayCommand' = "close" /\ relayCommand # "close" /\ heard'.relay # "closed"
                      => JoinConditions(heard') /\ heard'.mos["secondary"] = "on"
<1>1. BatteryInit => BInv
  BY BatteryInitial
<1>2. BInv /\ [BatteryNext]_batteryVars => BInv'
  <2> SUFFICES ASSUME BInv, [BatteryNext]_batteryVars PROVE BInv'
    OBVIOUS
  <2>1. CASE BatteryNext
    BY <2>1, BatteryStep
  <2>2. CASE UNCHANGED batteryVars
    BY <2>2 DEF batteryVars, BInv
  <2>3. QED
    BY <2>1, <2>2
<1>3. BInv /\ [BatteryNext]_batteryVars => [Agree]_batteryVars
  <2> SUFFICES ASSUME BInv, [BatteryNext]_batteryVars PROVE Agree \/ UNCHANGED batteryVars
    OBVIOUS
  <2>1. CASE BatteryNext
    BY <2>1, BatteryStep
  <2>2. QED
    BY <2>1
<1>4. QED
  BY <1>1, <1>2, <1>3, PTL DEF BatterySpec, JoinsWhatAgrees
=============================================================================
