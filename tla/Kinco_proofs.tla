---------------------------- MODULE Kinco_proofs ----------------------------
(* Theorems about the Kinco slave, for every range of positions, tolerance,  *)
(* timeout, ride through and set of writes.  The lemmas follow the code: one *)
(* per branch of onPdoCycleStart, then onPdoCycleSent, then the actions.     *)
EXTENDS Kinco, TLAPS

(* The fields of the records, all that the proofs need of their types.       *)
SlaveFields == {"operational", "pc", "got", "have", "position", "moving", "enabled", "mode",
                "seedPending", "seedSent", "hold", "holdKnown", "owned", "wait", "error",
                "preseedPending", "preseedSent", "inFlight", "target", "age", "zeroPending",
                "needFresh", "quarantine", "incomplete", "cspSeed", "csvHold",
                "lastVelocity", "lastMode"}
CmdFields == {"position", "velocity", "mode", "word", "mask"}
PubFields == {"ready", "ack", "fresh", "error", "sent"}
FrameFields == {"position", "velocity", "mode", "word"}

Shaped(s) ==
    /\ DOMAIN s = {"slave", "cmd", "pub", "frame"}
    /\ DOMAIN s.slave = SlaveFields
    /\ DOMAIN s.cmd = CmdFields
    /\ DOMAIN s.pub = PubFields
    /\ DOMAIN s.frame = FrameFields

(* onPdoCycleStart touches neither the inputs of the cycle nor the last      *)
(* frame.                                                                    *)
SameInputs(s, t) ==
    /\ t.slave.operational = s.slave.operational
    /\ t.slave.got = s.slave.got
    /\ t.slave.have = s.slave.have
    /\ t.slave.enabled = s.slave.enabled
    /\ t.slave.mode = s.slave.mode
    /\ t.slave.lastVelocity = s.slave.lastVelocity
    /\ t.slave.lastMode = s.slave.lastMode

(* Between two frames no seed and no zero frame is pending, a seed that was  *)
(* sent belongs to an operational slave with a known hold, and a request in  *)
(* flight to a seed that was sent.                                           *)
Coherent(s) ==
    /\ ~s.slave.seedPending /\ ~s.slave.zeroPending
    /\ s.slave.seedSent => s.slave.operational /\ s.slave.holdKnown
    /\ s.slave.inFlight => s.slave.seedSent /\ s.slave.target \in {CSP, CSV}

(* The mode of a frame in which no branch decides about it.                  *)
ShownMode(s) == IF s.slave.mode # 0 THEN s.slave.mode ELSE StartupMode

(* The frame as Prepared leaves it: at rest, at the hold, and without the    *)
(* enable word before the seed.                                              *)
FrameReady(p) ==
    /\ Shaped(p) /\ Coherent(p)
    /\ p.frame.velocity = 0
    /\ p.slave.holdKnown => p.frame.position = p.slave.hold
    /\ ~p.slave.seedSent => p.frame.word # "enable"

(* What a branch of onPdoCycleStart makes of the state: an error ends only   *)
(* with the drive disabled, a request in flight only with an error, a lost   *)
(* seed, the drive disabled or the requested CSP shown; the seed and the     *)
(* zero frame discard the velocity or wait for CSV; the target CSV is        *)
(* launched or was there before.                                             *)
Keeps(p, t) ==
    /\ Shaped(t) /\ SameInputs(p, t)
    /\ t.slave.seedSent => p.slave.seedSent /\ t.slave.holdKnown
    /\ t.slave.inFlight => t.slave.seedSent /\ t.slave.target \in {CSP, CSV}
    /\ t.cmd.velocity = p.cmd.velocity \/ t.cmd.velocity = Undefined
    /\ p.slave.error => t.slave.error \/ ~p.slave.enabled
    /\ p.slave.inFlight => t.slave.inFlight \/ t.slave.error \/ ~t.slave.seedSent
                   \/ ~p.slave.enabled \/ (p.slave.target = CSP /\ p.slave.mode = CSP)
    /\ t.slave.seedPending =>
         /\ ~p.slave.seedSent /\ ~t.slave.inFlight /\ t.cmd.velocity = Undefined
         /\ t.slave.holdKnown
    /\ t.slave.zeroPending => t.slave.mode = CSV /\ t.frame.mode = CSV /\ t.frame.velocity = 0
    /\ t.slave.target = CSV =>
         \/ t.slave.inFlight /\ ~p.slave.inFlight /\ p.slave.mode # CSV
         \/ p.slave.target = CSV /\ (t.slave.inFlight <=> p.slave.inFlight)

(* The mode of the frame is the shown one, the startup one or the requested  *)
(* one.                                                                      *)
FrameMode(p, t) ==
    /\ t.frame.mode = ShownMode(p) \/ t.frame.mode = StartupMode
       \/ (t.slave.inFlight /\ t.frame.mode = t.slave.target)

(* A frame in CSP carries the hold, unless a request is in flight.           *)
FrameTarget(p, t) ==
    t.frame.mode = CSP /\ ~t.slave.inFlight => t.frame.position = t.slave.hold

(* A frame carries a speed only in CSV, with nothing in flight and no error. *)
FrameSpeed(p, t) ==
    t.frame.velocity = 0 \/
      /\ t.frame.velocity = p.cmd.velocity
      /\ p.slave.mode = CSV /\ ~p.slave.inFlight /\ ~p.slave.error /\ p.slave.seedSent

(* A frame that enables a drive in CSP which nobody owns carries the old     *)
(* hold.                                                                     *)
FrameStays(p, t) ==
   /\ p.slave.enabled /\ p.slave.mode = CSP /\ ~p.slave.owned /\ ~p.slave.inFlight
   /\ ~t.slave.owned /\ ~t.slave.inFlight /\ t.frame.word = "enable"
   => p.slave.seedSent /\ t.frame.position = p.slave.hold

(* All of it: the contract of each branch.                                   *)
Outcome(p, t) ==
    /\ Keeps(p, t) /\ FrameMode(p, t) /\ FrameTarget(p, t)
    /\ FrameSpeed(p, t) /\ FrameStays(p, t)

(* clear_handoff leaves inputs, commands and frame alone, and ends the       *)
(* handoff.                                                                  *)
LEMMA ClearShape ==
  ASSUME NEW s, Shaped(s), NEW e \in BOOLEAN
  PROVE /\ Shaped(ClearHandoff(s, e)) /\ SameInputs(s, ClearHandoff(s, e))
        /\ ClearHandoff(s, e).cmd = s.cmd /\ ClearHandoff(s, e).frame = s.frame
BY DEF ClearHandoff, Shaped, SlaveFields, SameInputs

LEMMA ClearValues ==
  ASSUME NEW s, Shaped(s), NEW e \in BOOLEAN
  PROVE
     /\ ClearHandoff(s, e).slave.seedSent = s.slave.seedSent
     /\ ClearHandoff(s, e).slave.seedPending = s.slave.seedPending
     /\ ClearHandoff(s, e).slave.holdKnown = s.slave.holdKnown
     /\ ClearHandoff(s, e).slave.hold = s.slave.hold
     /\ ClearHandoff(s, e).slave.owned = s.slave.owned
     /\ ~ClearHandoff(s, e).slave.inFlight /\ ~ClearHandoff(s, e).slave.zeroPending
     /\ ClearHandoff(s, e).slave.target = 0
     /\ s.slave.error \/ e => ClearHandoff(s, e).slave.error
BY DEF ClearHandoff, Shaped, SlaveFields

(* invalidate_velocity_command and inhibit_operation.                        *)
LEMMA InvalidateOut ==
  ASSUME NEW s, Shaped(s)
  PROVE LET t == InvalidateVelocity(s) IN
     /\ Shaped(t) /\ t.slave = s.slave /\ t.frame = s.frame /\ t.cmd.velocity = Undefined
BY DEF InvalidateVelocity, Shaped, CmdFields

LEMMA InhibitOut ==
  ASSUME NEW s, Shaped(s)
  PROVE LET t == InhibitOperation(s) IN
     /\ Shaped(t) /\ t.slave = s.slave /\ t.cmd = s.cmd
     /\ t.frame.position = s.frame.position /\ t.frame.mode = s.frame.mode
     /\ t.frame.velocity = 0 /\ t.frame.word # "enable"
BY DEF InhibitOperation, Shaped, FrameFields

(* A latched error.                                                          *)
LEMMA RefuseOut ==
  ASSUME NEW p, FrameReady(p), p.frame.mode = ShownMode(p), p.slave.error, p.slave.seedSent
  PROVE Outcome(p, Refuse(p))
<1> DEFINE q == [p EXCEPT !.pub.error = TRUE]
<1>1. Shaped(q) /\ q.slave = p.slave /\ q.cmd = p.cmd /\ q.frame = p.frame
  BY DEF FrameReady, Shaped, PubFields
<1>2. Refuse(p) = InhibitOperation(q)
  BY DEF Refuse
<1> DEFINE t == InhibitOperation(q)
<1> HIDE DEF q
<1>3. /\ Shaped(t) /\ t.slave = p.slave /\ t.cmd = p.cmd
      /\ t.frame.position = p.frame.position /\ t.frame.mode = p.frame.mode
      /\ t.frame.velocity = 0 /\ t.frame.word # "enable"
  BY <1>1, InhibitOut
<1> HIDE DEF t
<1>4. Keeps(p, t)
  BY <1>3 DEF Keeps, FrameReady, Coherent, SameInputs
<1>5. FrameMode(p, t) /\ FrameTarget(p, t) /\ FrameSpeed(p, t) /\ FrameStays(p, t)
  BY <1>3 DEF FrameMode, FrameTarget, FrameSpeed, FrameStays, FrameReady, Coherent
<1> QED BY <1>2, <1>4, <1>5 DEF Outcome, t

(* Giving up a handoff with an error, or without one on a disabled drive,    *)
(* from any state t whose frame is at rest and at the hold.                  *)
LEMMA ClearedOut ==
  ASSUME NEW p, FrameReady(p), NEW e \in BOOLEAN,
          NEW t, Shaped(t), SameInputs(p, t), t.cmd.velocity = p.cmd.velocity,
          t.slave.seedSent => p.slave.seedSent,
          t.slave.holdKnown, ~t.slave.seedPending,
          t.frame.position = t.slave.hold, t.frame.velocity = 0,
          t.frame.mode = ShownMode(p) \/ t.frame.mode = StartupMode,
          e \/ ~p.slave.enabled,
          p.slave.error => t.slave.error \/ ~p.slave.enabled,
          p.slave.seedSent,
          t.slave.hold = p.slave.hold \/ ~p.slave.enabled
  PROVE  Outcome(p, ClearHandoff(t, e))
<1> DEFINE u == ClearHandoff(t, e)
<1>1. /\ Shaped(u) /\ SameInputs(t, u)
      /\ u.cmd = t.cmd /\ u.frame = t.frame
      /\ u.slave.seedSent = t.slave.seedSent
      /\ u.slave.seedPending = t.slave.seedPending
      /\ u.slave.holdKnown = t.slave.holdKnown
      /\ u.slave.hold = t.slave.hold
      /\ ~u.slave.inFlight /\ ~u.slave.zeroPending /\ u.slave.target = 0
      /\ t.slave.error \/ e => u.slave.error
  BY ClearShape, ClearValues
<1> HIDE DEF u
<1>2. Keeps(p, u) BY <1>1 DEF Keeps, SameInputs, CSV
<1>3. FrameMode(p, u) /\ FrameTarget(p, u) /\ FrameSpeed(p, u) BY <1>1
      DEF FrameMode, FrameTarget, FrameSpeed
<1>4. FrameStays(p, u) BY <1>1 DEF FrameStays
<1> QED BY <1>2, <1>3, <1>4 DEF Outcome, u

(* In particular from the state of the frame itself: an invalid mode         *)
(* command.                                                                  *)
LEMMA GiveUpOut ==
  ASSUME NEW p, FrameReady(p), p.frame.mode = ShownMode(p), p.slave.seedSent
  PROVE Outcome(p, ClearHandoff(p, TRUE))
BY ClearedOut DEF FrameReady, Coherent, SameInputs

(* The drive is not in Operation Enabled.                                    *)
LEMMA DisabledOut ==
  ASSUME NEW p, FrameReady(p), p.frame.mode = ShownMode(p), ~p.slave.enabled,
         p.slave.seedSent
  PROVE Outcome(p, Disabled(p))
<1> DEFINE error == p.slave.error /\ p.cmd.word = "enable"
           t == [p EXCEPT !.frame.position = p.slave.position,
                       !.slave = [p.slave EXCEPT !.hold = p.slave.position, !.holdKnown = TRUE,
                                                 !.error = error]]
           r == [t EXCEPT !.frame.mode = StartupMode, !.cmd.position = Undefined,
                         !.slave = [t.slave EXCEPT !.owned = FALSE, !.wait = Undefined]]
<1>1. /\ Shaped(t) /\ SameInputs(p, t) /\ t.cmd = p.cmd
      /\ t.frame.position = t.slave.hold /\ t.frame.mode = p.frame.mode /\ t.frame.velocity = 0
      /\ t.slave.holdKnown /\ t.slave.inFlight = p.slave.inFlight
      /\ t.slave.target = p.slave.target
      /\ t.slave.seedSent = p.slave.seedSent
      /\ ~t.slave.seedPending /\ ~t.slave.zeroPending
      /\ t.slave.error = error
  BY DEF FrameReady, Coherent, Shaped, SlaveFields, FrameFields, CmdFields, SameInputs
<1> HIDE DEF t
<1>2. /\ Shaped(r) /\ SameInputs(t, r) /\ r.cmd.velocity = t.cmd.velocity
      /\ r.frame.position = r.slave.hold /\ r.frame.mode = StartupMode /\ r.frame.velocity = 0
      /\ r.slave.holdKnown /\ r.slave.seedSent = t.slave.seedSent
      /\ ~r.slave.seedPending
  BY <1>1 DEF Shaped, SlaveFields, FrameFields, CmdFields, SameInputs
<1> HIDE DEF r
<1>3. CASE error
  <2>1. Disabled(p) = InhibitOperation([t EXCEPT !.pub.error = TRUE])
    BY <1>3 DEF Disabled, Refuse, t
  <2> DEFINE q == [t EXCEPT !.pub.error = TRUE]
  <2>2. Shaped(q) /\ q.slave = t.slave /\ q.cmd = t.cmd /\ q.frame = t.frame
    BY <1>1 DEF Shaped, PubFields
  <2> HIDE DEF q
  <2>3. Disabled(p) = InhibitOperation(q)
    BY <2>1 DEF q
  <2> DEFINE u == InhibitOperation(q)
  <2>4. /\ Shaped(u) /\ u.slave = t.slave /\ u.cmd = p.cmd
        /\ u.frame.position = t.frame.position /\ u.frame.mode = p.frame.mode
        /\ u.frame.velocity = 0 /\ u.frame.word # "enable"
    BY <1>1, <2>2, InhibitOut
  <2> HIDE DEF u
  <2>5. Keeps(p, u)
    BY <1>1, <1>3, <2>4 DEF Keeps, FrameReady, Coherent, SameInputs
  <2>6. FrameMode(p, u) /\ FrameTarget(p, u) /\ FrameSpeed(p, u) /\ FrameStays(p, u)
    BY <1>1, <2>4 DEF FrameMode, FrameTarget, FrameSpeed, FrameStays
  <2> QED BY <2>3, <2>5, <2>6 DEF Outcome, u
<1>4. CASE ~error /\ Desired(p) \notin {CSP, CSV}
  <2>1. Disabled(p) = ClearHandoff(t, TRUE)
    BY <1>4 DEF Disabled, t
  <2> QED BY <1>1, <1>4, <2>1, ClearedOut
<1>5. CASE ~error /\ Desired(p) \in {CSP, CSV}
  <2>1. Disabled(p) = ClearHandoff(r, FALSE)
    BY <1>5 DEF Disabled, t, r
  <2> QED BY <1>1, <1>2, <1>5, <2>1, ClearedOut DEF SameInputs
<1> QED BY <1>3, <1>4, <1>5

(* The first complete cycle.                                                 *)
LEMMA SeedOut ==
  ASSUME NEW p, FrameReady(p), p.frame.mode = ShownMode(p), ~p.slave.seedSent
  PROVE Outcome(p, Seed(p))
<1> DEFINE t == [p EXCEPT !.frame.position = p.slave.position,
                !.slave = [p.slave EXCEPT !.hold = p.slave.position, !.holdKnown = TRUE,
                                          !.owned = FALSE, !.seedPending = TRUE]]
<1>1. /\ Shaped(t) /\ SameInputs(p, t) /\ t.cmd = p.cmd
      /\ t.frame.position = t.slave.hold /\ t.frame.mode = p.frame.mode /\ t.frame.velocity = 0
      /\ t.slave.holdKnown /\ t.slave.inFlight = p.slave.inFlight
      /\ t.slave.target = p.slave.target
      /\ t.slave.seedSent = p.slave.seedSent
      /\ ~t.slave.zeroPending
      /\ t.slave.error = p.slave.error
      /\ t.frame.word = p.frame.word
  BY DEF FrameReady, Coherent, Shaped, SlaveFields, FrameFields, CmdFields, SameInputs
<1>2. Seed(p) = InvalidateVelocity(t)
  BY DEF Seed
<1> HIDE DEF t
<1> QED BY <1>1, <1>2, InvalidateOut
      DEF Outcome, Keeps, FrameMode, FrameTarget, FrameSpeed, FrameStays, FrameReady,
          Coherent, SameInputs

(* Enabled, no mode shown yet.                                               *)
LEMMA AwaitOut ==
  ASSUME NEW p, FrameReady(p), p.frame.mode = ShownMode(p), p.slave.seedSent,
         p.slave.mode = 0
  PROVE Outcome(p, AwaitStartupMode(p))
<1> DEFINE waited == IF p.slave.wait = Undefined THEN 0 ELSE p.slave.wait + 1
           t == [p EXCEPT !.slave.wait = waited]
           u == [t EXCEPT !.slave.wait = AckTimeout]
           r == [t EXCEPT !.frame = [t.frame EXCEPT !.mode = StartupMode,
                                                   !.position = p.slave.hold]]
<1>1. /\ Shaped(t) /\ SameInputs(p, t) /\ t.cmd = p.cmd /\ t.frame = p.frame
      /\ t.slave = [p.slave EXCEPT !.wait = waited]
  BY DEF FrameReady, Coherent, Shaped, SlaveFields, SameInputs
<1> HIDE DEF t, waited
<1>2. /\ Shaped(u) /\ SameInputs(p, u) /\ u.cmd = p.cmd /\ u.frame = p.frame
      /\ u.slave = [p.slave EXCEPT !.wait = AckTimeout]
  BY <1>1 DEF FrameReady, Coherent, Shaped, SlaveFields, SameInputs
<1>3. /\ Shaped(r) /\ r.cmd = p.cmd /\ r.slave = t.slave
      /\ r.frame.mode = StartupMode /\ r.frame.position = p.slave.hold /\ r.frame.velocity = 0
  BY <1>1 DEF FrameReady, Coherent, Shaped, FrameFields
<1> HIDE DEF u, r
<1>4. AwaitStartupMode(p) \in {ClearHandoff(u, TRUE), InvalidateVelocity(r)}
  BY DEF AwaitStartupMode, waited, t, u, r
<1>5. CASE AwaitStartupMode(p) = ClearHandoff(u, TRUE)
  <2>1. /\ u.slave.hold = p.slave.hold /\ u.slave.holdKnown = p.slave.holdKnown
        /\ u.slave.seedSent = p.slave.seedSent /\ u.slave.error = p.slave.error
        /\ u.slave.seedPending = p.slave.seedPending
    <3>1. DOMAIN p.slave = SlaveFields BY DEF FrameReady, Shaped
    <3>2. u.slave = [p.slave EXCEPT !.wait = AckTimeout] BY <1>2
    <3> QED BY ONLY <3>1, <3>2 DEF SlaveFields
  <2>2. /\ p.slave.holdKnown /\ p.frame.velocity = 0 /\ p.frame.position = p.slave.hold
        /\ ~p.slave.seedPending
    BY DEF FrameReady, Coherent
  <2>3. Outcome(p, ClearHandoff(u, TRUE))
    BY <1>2, <2>1, <2>2, ClearedOut
  <2> QED BY <2>3, <1>5
<1>6. CASE AwaitStartupMode(p) = InvalidateVelocity(r)
  BY <1>1, <1>3, <1>6, InvalidateOut
        DEF Outcome, Keeps, FrameMode, FrameTarget, FrameSpeed, FrameStays, FrameReady,
            Coherent, SameInputs, Shaped, SlaveFields, CSP
<1> QED BY <1>4, <1>5, <1>6

(* A request in flight, for CSP and for CSV, and its timeout.                *)
LEMMA ConfirmCspOut ==
  ASSUME NEW p, FrameReady(p), p.slave.seedSent, p.slave.inFlight,
          NEW t, Shaped(t), t.cmd = p.cmd, NEW age, t.slave = [p.slave EXCEPT !.age = age],
          t.frame = [p.frame EXCEPT !.mode = p.slave.target], p.slave.target = CSP
  PROVE Outcome(p, ConfirmCsp(t))
<1>1. /\ SameInputs(p, t) /\ t.slave.seedSent /\ t.slave.holdKnown
      /\ ~t.slave.seedPending /\ ~t.slave.zeroPending
      /\ t.slave.inFlight /\ t.slave.target = CSP /\ t.slave.error = p.slave.error
      /\ t.frame.mode = CSP /\ t.frame.velocity = 0 /\ t.slave.mode = p.slave.mode
  <2>1. DOMAIN p.slave = SlaveFields /\ DOMAIN p.frame = FrameFields BY
        DEF FrameReady, Shaped
  <2> QED BY <2>1 DEF FrameReady, Coherent, SlaveFields, FrameFields, SameInputs
<1> DEFINE u == [t EXCEPT !.frame.position = t.slave.cspSeed, !.pub.ready = t.slave.preseedSent]
           r == [u EXCEPT !.slave = [u.slave EXCEPT !.owned = TRUE, !.hold = t.slave.cspSeed,
                                                 !.inFlight = FALSE, !.preseedSent = FALSE],
                          !.pub.ack = TRUE]
<1>2. /\ Shaped(u) /\ u.slave = t.slave /\ u.cmd = t.cmd /\ u.frame.position = t.slave.cspSeed
      /\ u.frame.mode = t.frame.mode /\ u.frame.velocity = t.frame.velocity
  BY DEF Shaped, FrameFields, PubFields
<1> HIDE DEF u
<1>3. /\ Shaped(r) /\ SameInputs(u, r) /\ r.cmd = u.cmd /\ r.frame = u.frame
      /\ r.slave.owned /\ r.slave.hold = t.slave.cspSeed /\ ~r.slave.inFlight
      /\ r.slave.seedSent = u.slave.seedSent /\ r.slave.seedPending = u.slave.seedPending
      /\ r.slave.zeroPending = u.slave.zeroPending /\ r.slave.error = u.slave.error
      /\ r.slave.holdKnown = u.slave.holdKnown /\ r.slave.target = u.slave.target
  BY <1>2 DEF Shaped, SlaveFields, PubFields, SameInputs
<1> HIDE DEF r
<1>4. ConfirmCsp(t) = IF t.slave.mode = CSP THEN r ELSE u
  BY DEF ConfirmCsp, u, r
<1>5. CASE t.slave.mode = CSP
  <2>1. ConfirmCsp(t) = r BY <1>4, <1>5
  <2>2. Keeps(p, r) BY <1>1, <1>2, <1>3, <1>5 DEF Keeps, SameInputs, CSP, CSV
  <2>3. FrameMode(p, r) /\ FrameTarget(p, r) /\ FrameSpeed(p, r) /\ FrameStays(p, r)
    BY <1>1, <1>2, <1>3, <1>5
          DEF FrameMode, ShownMode, FrameTarget, FrameSpeed, FrameStays, CSP
  <2> QED BY <2>1, <2>2, <2>3 DEF Outcome
<1>6. CASE t.slave.mode # CSP
  <2>1. ConfirmCsp(t) = u BY <1>4, <1>6
  <2>2. Keeps(p, u) BY <1>1, <1>2, <1>6 DEF Keeps, SameInputs
  <2>3. FrameMode(p, u) /\ FrameTarget(p, u) /\ FrameSpeed(p, u) /\ FrameStays(p, u)
    BY <1>1, <1>2, <1>6 DEF FrameMode, FrameTarget, FrameSpeed, FrameStays
  <2> QED BY <2>1, <2>2, <2>3 DEF Outcome
<1> QED BY <1>5, <1>6

LEMMA ConfirmCsvOut ==
  ASSUME NEW p, FrameReady(p), p.slave.seedSent, p.slave.inFlight,
          NEW t, Shaped(t), t.cmd = p.cmd, NEW age, t.slave = [p.slave EXCEPT !.age = age],
          t.frame = [p.frame EXCEPT !.mode = p.slave.target], p.slave.target = CSV
  PROVE Outcome(p, ConfirmCsv(t))
<1>1. /\ SameInputs(p, t) /\ t.slave.seedSent /\ t.slave.holdKnown
      /\ ~t.slave.seedPending /\ ~t.slave.zeroPending
      /\ t.slave.inFlight /\ t.slave.target = CSV /\ t.slave.error = p.slave.error
      /\ t.frame.mode = CSV /\ t.frame.velocity = 0 /\ t.slave.mode = p.slave.mode
  <2>1. DOMAIN p.slave = SlaveFields /\ DOMAIN p.frame = FrameFields BY
        DEF FrameReady, Shaped
  <2> QED BY <2>1 DEF FrameReady, Coherent, SlaveFields, FrameFields, SameInputs
<1> DEFINE u == [t EXCEPT !.frame.position = t.slave.csvHold,
                          !.slave.zeroPending = @ \/ t.slave.mode = CSV]
<1>2. /\ Shaped(u) /\ SameInputs(t, u) /\ u.cmd = t.cmd
      /\ u.frame.mode = t.frame.mode /\ u.frame.velocity = t.frame.velocity
      /\ u.slave.zeroPending => t.slave.mode = CSV
      /\ u.slave.seedSent = t.slave.seedSent /\ u.slave.seedPending = t.slave.seedPending
      /\ u.slave.inFlight = t.slave.inFlight /\ u.slave.error = t.slave.error
      /\ u.slave.holdKnown = t.slave.holdKnown /\ u.slave.target = t.slave.target
  BY <1>1 DEF Shaped, FrameFields, SlaveFields, SameInputs
<1>3. ConfirmCsv(t) = InvalidateVelocity(u)
  BY DEF ConfirmCsv
<1> DEFINE r == InvalidateVelocity(u)
<1> HIDE DEF u
<1>4. /\ Shaped(r) /\ r.slave = u.slave /\ r.frame = u.frame /\ r.cmd.velocity = Undefined
  BY <1>2, InvalidateOut
<1> HIDE DEF r
<1>5. Keeps(p, r) BY <1>1, <1>2, <1>4 DEF Keeps, SameInputs
<1>6. FrameMode(p, r) /\ FrameTarget(p, r) /\ FrameSpeed(p, r) /\ FrameStays(p, r)
    BY <1>1, <1>2, <1>4 DEF FrameMode, FrameTarget, FrameSpeed, FrameStays
<1> QED BY <1>3, <1>5, <1>6 DEF Outcome, r

LEMMA InFlightOut ==
  ASSUME NEW p, FrameReady(p), p.frame.mode = ShownMode(p), p.slave.seedSent,
         p.slave.inFlight
  PROVE Outcome(p, InFlight(p))
<1> DEFINE age == p.slave.age + 1
           t == [p EXCEPT !.slave.age = age, !.frame.mode = p.slave.target]
<1>1. /\ Shaped(t) /\ t.cmd = p.cmd /\ t.slave = [p.slave EXCEPT !.age = age]
      /\ t.frame = [p.frame EXCEPT !.mode = p.slave.target]
  BY DEF FrameReady, Shaped
<1>2. InFlight(p) \in {ClearHandoff(p, TRUE),
                       IF p.slave.target = CSP THEN ConfirmCsp(t) ELSE ConfirmCsv(t)}
  BY DEF InFlight
<1>3. p.slave.target \in {CSP, CSV}
  BY DEF FrameReady, Coherent
<1> HIDE DEF age, t
<1>4. Outcome(p, ClearHandoff(p, TRUE))
  BY GiveUpOut
<1>5. CASE p.slave.target = CSP
  <2>1. Outcome(p, ConfirmCsp(t)) BY <1>1, <1>5, ConfirmCspOut
  <2> QED BY <1>2, <1>4, <1>5, <2>1
<1>6. CASE p.slave.target = CSV
  <2>1. Outcome(p, ConfirmCsv(t)) BY <1>1, <1>6, ConfirmCsvOut
  <2>2. p.slave.target # CSP BY <1>6 DEF CSP, CSV
  <2> QED BY <1>2, <1>4, <2>1, <2>2
<1> QED BY <1>3, <1>5, <1>6

(* A request that starts.                                                    *)
LEMMA RequestCspOut ==
  ASSUME NEW p, FrameReady(p), p.frame.mode = ShownMode(p), p.slave.seedSent,
         ~p.slave.inFlight,
          p.slave.mode = CSV
  PROVE Outcome(p, RequestCsp(p))
<1> DEFINE t == [p EXCEPT !.frame.position = p.slave.position, !.slave.cspSeed = p.slave.position]
           u == [t EXCEPT !.slave.preseedPending = TRUE]
           v == [t EXCEPT !.pub.ready = TRUE]
           r == Launch(v, CSP)
<1>1. RequestCsp(p) \in {p, u, r}
  BY DEF RequestCsp
<1>2. /\ Shaped(t) /\ t.cmd = p.cmd /\ t.slave = [p.slave EXCEPT !.cspSeed = p.slave.position]
      /\ t.frame = [p.frame EXCEPT !.position = p.slave.position]
  BY DEF FrameReady, Shaped
<1> HIDE DEF t
<1>3. /\ Shaped(u) /\ u.cmd = p.cmd /\ u.slave = [t.slave EXCEPT !.preseedPending = TRUE]
      /\ u.frame = t.frame
  BY <1>2 DEF Shaped
<1>4. /\ Shaped(v) /\ v.cmd = p.cmd /\ v.slave = t.slave /\ v.frame = t.frame
  BY <1>2 DEF Shaped
<1> HIDE DEF u, v
<1>5. /\ Shaped(r) /\ r.cmd = p.cmd /\ r.frame = [v.frame EXCEPT !.mode = CSP]
      /\ r.slave = [v.slave EXCEPT !.target = CSP, !.inFlight = TRUE, !.age = 0]
  BY <1>4 DEF Shaped, Launch
<1> HIDE DEF r
<1>6. DOMAIN p.slave = SlaveFields /\ DOMAIN p.frame = FrameFields
  BY DEF FrameReady, Shaped
<1>7. Outcome(p, p)
  BY
        DEF Outcome, Keeps, FrameMode, FrameTarget, FrameSpeed, FrameStays, FrameReady,
            Coherent, SameInputs, CSP, CSV
<1>8. Outcome(p, u)
  <2>1. /\ SameInputs(p, u) /\ u.slave.seedSent /\ u.slave.holdKnown /\ ~u.slave.seedPending
        /\ ~u.slave.zeroPending /\ ~u.slave.inFlight /\ u.slave.error = p.slave.error
        /\ u.frame.mode = p.frame.mode /\ u.frame.velocity = 0
        /\ u.slave.target = p.slave.target
    BY <1>2, <1>3, <1>6 DEF FrameReady, Coherent, SlaveFields, FrameFields, SameInputs
  <2>2. p.frame.mode = CSV
    BY DEF ShownMode, CSV
  <2>3. Keeps(p, u) BY <1>3, <2>1 DEF Keeps, SameInputs
  <2>4. FrameMode(p, u) /\ FrameTarget(p, u) /\ FrameSpeed(p, u) /\ FrameStays(p, u)
    BY <2>1, <2>2 DEF FrameMode, FrameTarget, FrameSpeed, FrameStays, CSP, CSV
  <2> QED BY <2>3, <2>4 DEF Outcome
<1>9. Outcome(p, r)
  <2>1. /\ SameInputs(p, r) /\ r.slave.seedSent /\ r.slave.holdKnown /\ ~r.slave.seedPending
        /\ ~r.slave.zeroPending /\ r.slave.inFlight /\ r.slave.error = p.slave.error
        /\ r.frame.mode = CSP /\ r.frame.velocity = 0 /\ r.slave.target = CSP
    BY <1>2, <1>4, <1>5, <1>6 DEF FrameReady, Coherent, SlaveFields, FrameFields, SameInputs
  <2>2. Keeps(p, r) BY <1>5, <2>1 DEF Keeps, SameInputs, CSP, CSV
  <2>3. FrameMode(p, r) /\ FrameTarget(p, r) /\ FrameSpeed(p, r) /\ FrameStays(p, r)
    BY <2>1 DEF FrameMode, FrameTarget, FrameSpeed, FrameStays
  <2> QED BY <2>2, <2>3 DEF Outcome
<1> QED BY <1>1, <1>7, <1>8, <1>9

LEMMA RequestCsvOut ==
  ASSUME NEW p, FrameReady(p), p.frame.mode = ShownMode(p), p.slave.seedSent,
         ~p.slave.inFlight, p.slave.mode # CSV
  PROVE Outcome(p, RequestCsv(p))
<1> DEFINE t == [p EXCEPT !.frame.position = p.cmd.position, !.slave.csvHold = p.cmd.position]
           u == InvalidateVelocity(t)
           r == Launch(u, CSV)
<1>1. RequestCsv(p) \in {ClearHandoff(p, TRUE), r}
  BY DEF RequestCsv
<1>2. /\ Shaped(t) /\ t.slave = [p.slave EXCEPT !.csvHold = p.cmd.position]
      /\ t.frame = [p.frame EXCEPT !.position = p.cmd.position]
  BY DEF FrameReady, Shaped
<1> HIDE DEF t
<1>3. Shaped(u) /\ u.slave = t.slave /\ u.frame = t.frame /\ u.cmd.velocity = Undefined
  BY <1>2, InvalidateOut
<1> HIDE DEF u
<1>4. /\ Shaped(r) /\ r.cmd = u.cmd /\ r.frame = [u.frame EXCEPT !.mode = CSV]
      /\ r.slave = [u.slave EXCEPT !.target = CSV, !.inFlight = TRUE, !.age = 0]
  BY <1>3 DEF Shaped, Launch
<1> HIDE DEF r
<1>5. DOMAIN p.slave = SlaveFields /\ DOMAIN p.frame = FrameFields
  BY DEF FrameReady, Shaped
<1>6. Outcome(p, ClearHandoff(p, TRUE))
  BY GiveUpOut
<1>7. Outcome(p, r)
  <2>1. /\ SameInputs(p, r) /\ r.slave.seedSent /\ r.slave.holdKnown /\ ~r.slave.seedPending
        /\ ~r.slave.zeroPending /\ r.slave.inFlight /\ r.slave.error = p.slave.error
        /\ r.frame.mode = CSV /\ r.frame.velocity = 0 /\ r.slave.target = CSV
    BY <1>2, <1>3, <1>4, <1>5 DEF FrameReady, Coherent, SlaveFields, FrameFields, SameInputs
  <2>2. Keeps(p, r) BY <1>3, <1>4, <2>1 DEF Keeps, SameInputs
  <2>3. FrameMode(p, r) /\ FrameTarget(p, r) /\ FrameSpeed(p, r) /\ FrameStays(p, r)
    BY <2>1 DEF FrameMode, FrameTarget, FrameSpeed, FrameStays
  <2> QED BY <2>2, <2>3 DEF Outcome
<1> QED BY <1>1, <1>6, <1>7

(* The two modes without a request.                                          *)
LEMMA FollowPositionOut ==
  ASSUME NEW p, FrameReady(p), p.frame.mode = ShownMode(p), p.slave.seedSent,
         ~p.slave.inFlight,
          p.slave.mode = CSP
  PROVE Outcome(p, FollowPosition(p))
<1> DEFINE t == [p EXCEPT !.frame.position = p.slave.hold]
           c == ClearHandoff(t, TRUE)
           u == InhibitOperation(c)
           r == [p EXCEPT !.slave = [p.slave EXCEPT !.owned = TRUE, !.hold = p.cmd.position],
                       !.frame.position = p.cmd.position, !.pub.fresh = TRUE]
<1>1. FollowPosition(p) \in {t, u, r}
  BY DEF FollowPosition
<1>2. /\ Shaped(t) /\ t.slave = p.slave /\ t.cmd = p.cmd
      /\ t.frame = [p.frame EXCEPT !.position = p.slave.hold]
  BY DEF FrameReady, Shaped
<1>3. /\ Shaped(r) /\ r.slave = [p.slave EXCEPT !.owned = TRUE, !.hold = p.cmd.position]
      /\ r.cmd = p.cmd /\ r.frame = [p.frame EXCEPT !.position = p.cmd.position]
  BY DEF FrameReady, Shaped
<1> HIDE DEF t, r
<1>4. DOMAIN p.slave = SlaveFields /\ DOMAIN p.frame = FrameFields
  BY DEF FrameReady, Shaped
<1>5. /\ t.frame.position = p.slave.hold /\ t.frame.mode = p.frame.mode /\ t.frame.velocity = 0
      /\ p.slave.holdKnown /\ ~p.slave.seedPending /\ ~p.slave.zeroPending
  BY <1>2, <1>4 DEF FrameFields, FrameReady, Coherent
<1>6. Outcome(p, t)
  <2>1. Keeps(p, t) BY <1>2, <1>5 DEF Keeps, SameInputs
  <2>2. FrameMode(p, t) /\ FrameTarget(p, t) /\ FrameSpeed(p, t) /\ FrameStays(p, t)
    BY <1>2, <1>5 DEF FrameMode, FrameTarget, FrameSpeed, FrameStays
  <2> QED BY <2>1, <2>2 DEF Outcome
<1>7. Outcome(p, c) /\ Shaped(c)
  BY <1>2, <1>5, ClearedOut, ClearShape DEF SameInputs
<1> HIDE DEF c
<1>8. /\ Shaped(u) /\ u.slave = c.slave /\ u.cmd = c.cmd
      /\ u.frame.position = c.frame.position /\ u.frame.mode = c.frame.mode
      /\ u.frame.velocity = 0 /\ u.frame.word # "enable"
  BY <1>7, InhibitOut
<1> HIDE DEF u
<1>9. Outcome(p, u)
  <2>1. Keeps(p, u) BY <1>7, <1>8 DEF Outcome, Keeps, SameInputs
  <2>2. FrameMode(p, u) /\ FrameTarget(p, u) /\ FrameSpeed(p, u) /\ FrameStays(p, u)
    BY <1>7, <1>8 DEF Outcome, FrameMode, FrameTarget, FrameSpeed, FrameStays
  <2> QED BY <2>1, <2>2 DEF Outcome
<1>10. Outcome(p, r)
  <2>1. /\ SameInputs(p, r) /\ r.slave.seedSent /\ r.slave.holdKnown /\ ~r.slave.seedPending
        /\ ~r.slave.zeroPending /\ ~r.slave.inFlight /\ r.slave.error = p.slave.error
        /\ r.slave.owned /\ r.slave.hold = p.cmd.position
        /\ r.slave.target = p.slave.target
        /\ r.frame.mode = p.frame.mode /\ r.frame.velocity = 0
        /\ r.frame.position = p.cmd.position
    BY <1>3, <1>4, <1>5 DEF FrameReady, Coherent, SlaveFields, FrameFields, SameInputs
  <2>2. Keeps(p, r) BY <1>3, <2>1 DEF Keeps, SameInputs
  <2>3. FrameMode(p, r) /\ FrameTarget(p, r) /\ FrameSpeed(p, r) /\ FrameStays(p, r)
    BY <2>1 DEF FrameMode, FrameTarget, FrameSpeed, FrameStays
  <2> QED BY <2>2, <2>3 DEF Outcome
<1> QED BY <1>1, <1>6, <1>9, <1>10

LEMMA FollowVelocityOut ==
  ASSUME NEW p, FrameReady(p), p.frame.mode = ShownMode(p), p.slave.seedSent,
         ~p.slave.inFlight,
          p.slave.mode = CSV, ~p.slave.error
  PROVE Outcome(p, FollowVelocity(p))
<1> DEFINE t == IF PendingValid(p) /\ "position" \in p.cmd.mask
             THEN [p EXCEPT !.frame.position = p.cmd.position] ELSE p
           q == [t EXCEPT !.slave.quarantine = FALSE]
           u == InvalidateVelocity(q)
           v == [t EXCEPT !.slave.needFresh = FALSE, !.frame.velocity = p.cmd.velocity,
                       !.pub.fresh = TRUE]
           r == [t EXCEPT !.pub.error = @ \/ ~p.slave.needFresh]
<1>1. FollowVelocity(p) \in {u, v, r}
  BY DEF FollowVelocity
<1>2. DOMAIN p.slave = SlaveFields /\ DOMAIN p.frame = FrameFields
  BY DEF FrameReady, Shaped
<1>3. /\ Shaped(t) /\ t.slave = p.slave /\ t.cmd = p.cmd
      /\ t.frame.mode = p.frame.mode /\ t.frame.velocity = 0
  BY DEF FrameReady, Shaped, FrameFields
<1> HIDE DEF t
<1>4. /\ Shaped(q) /\ q.slave = [p.slave EXCEPT !.quarantine = FALSE] /\ q.frame = t.frame
  BY <1>3 DEF Shaped
<1>5. /\ Shaped(v) /\ v.slave = [p.slave EXCEPT !.needFresh = FALSE] /\ v.cmd = p.cmd
      /\ v.frame = [t.frame EXCEPT !.velocity = p.cmd.velocity]
  BY <1>3 DEF Shaped
<1>6. /\ Shaped(r) /\ r.slave = p.slave /\ r.cmd = p.cmd /\ r.frame = t.frame
  BY <1>3 DEF Shaped
<1> HIDE DEF q, v, r
<1>7. Shaped(u) /\ u.slave = q.slave /\ u.frame = q.frame /\ u.cmd.velocity = Undefined
  BY <1>4, InvalidateOut
<1> HIDE DEF u
<1>8. /\ p.frame.mode = CSV /\ p.slave.holdKnown /\ ~p.slave.seedPending /\ ~p.slave.zeroPending
  BY DEF ShownMode, CSV, FrameReady, Coherent
<1>9. Outcome(p, u)
  <2>1. /\ SameInputs(p, u) /\ u.slave.seedSent /\ u.slave.holdKnown /\ ~u.slave.seedPending
        /\ ~u.slave.zeroPending /\ ~u.slave.inFlight /\ u.slave.error = p.slave.error
        /\ u.slave.target = p.slave.target
    BY <1>2, <1>4, <1>7, <1>8 DEF SlaveFields, SameInputs
  <2>2. Keeps(p, u) BY <1>7, <2>1 DEF Keeps, SameInputs
  <2>3. FrameMode(p, u) /\ FrameTarget(p, u) /\ FrameSpeed(p, u) /\ FrameStays(p, u)
    BY <1>3, <1>4, <1>7, <1>8, <2>1
          DEF FrameMode, FrameTarget, FrameSpeed, FrameStays, CSP, CSV
  <2> QED BY <2>2, <2>3 DEF Outcome
<1>10. Outcome(p, v)
  <2>1. /\ SameInputs(p, v) /\ v.slave.seedSent /\ v.slave.holdKnown /\ ~v.slave.seedPending
        /\ ~v.slave.zeroPending /\ ~v.slave.inFlight /\ v.slave.error = p.slave.error
        /\ v.slave.target = p.slave.target
    BY <1>2, <1>5, <1>8 DEF SlaveFields, SameInputs
  <2>2. v.frame.mode = CSV /\ v.frame.velocity = p.cmd.velocity
    BY <1>3, <1>5, <1>8 DEF Shaped, FrameFields
  <2>3. Keeps(p, v) BY <1>5, <2>1 DEF Keeps, SameInputs
  <2>4. FrameMode(p, v) /\ FrameTarget(p, v) /\ FrameSpeed(p, v) /\ FrameStays(p, v)
    BY <1>8, <2>1, <2>2 DEF FrameMode, FrameTarget, FrameSpeed, FrameStays, CSP, CSV
  <2> QED BY <2>3, <2>4 DEF Outcome
<1>11. Outcome(p, r)
  <2>1. Keeps(p, r) BY <1>6, <1>8 DEF Keeps, SameInputs
  <2>2. FrameMode(p, r) /\ FrameTarget(p, r) /\ FrameSpeed(p, r) /\ FrameStays(p, r)
    BY <1>3, <1>6, <1>8 DEF FrameMode, FrameTarget, FrameSpeed, FrameStays, CSP, CSV
  <2> QED BY <2>1, <2>2 DEF Outcome
<1> QED BY <1>1, <1>9, <1>10, <1>11

LEMMA SteadyOut ==
  ASSUME NEW p, FrameReady(p), p.frame.mode = ShownMode(p), p.slave.seedSent,
         ~p.slave.inFlight,
          p.slave.mode \in {CSP, CSV}, ~p.slave.error
  PROVE Outcome(p, Steady(p))
<1> DEFINE t == [p EXCEPT !.pub = [p.pub EXCEPT !.ready = TRUE, !.ack = TRUE]]
<1>1. Shaped(t) /\ t.slave = p.slave /\ t.cmd = p.cmd /\ t.frame = p.frame
  BY DEF FrameReady, Shaped
<1>2. Steady(p) = IF p.slave.mode = CSP THEN FollowPosition(t) ELSE FollowVelocity(t)
  BY DEF Steady
<1> HIDE DEF t
<1>3. FrameReady(t) /\ t.frame.mode = ShownMode(t)
  BY <1>1 DEF FrameReady, Coherent, ShownMode
<1>4. Outcome(t, Steady(p))
  BY <1>1, <1>2, <1>3, FollowPositionOut, FollowVelocityOut
<1> DEFINE u == Steady(p)
<1> HIDE DEF u
<1>5. Outcome(t, u) => Outcome(p, u)
  BY <1>1
        DEF Outcome, Keeps, FrameMode, FrameTarget, FrameSpeed, FrameStays, SameInputs,
            ShownMode
<1> QED BY <1>4, <1>5 DEF u

LEMMA OperateOut ==
  ASSUME NEW p, FrameReady(p), p.frame.mode = ShownMode(p), p.slave.seedSent,
          Desired(p) \in {CSP, CSV}, ~p.slave.error
  PROVE Outcome(p, Operate(p))
<1> DEFINE owned == p.slave.owned /\ p.slave.mode = CSP
           t == [p EXCEPT !.slave = [p.slave EXCEPT !.wait = Undefined, !.owned = owned]]
<1>1. /\ Shaped(t) /\ t.slave = [p.slave EXCEPT !.wait = Undefined, !.owned = owned]
      /\ t.cmd = p.cmd /\ t.frame = p.frame
  BY DEF FrameReady, Shaped
<1>2. Operate(p) = IF t.slave.inFlight THEN InFlight(t)
                   ELSE IF Desired(t) = t.slave.mode THEN Steady(t)
                   ELSE IF t.slave.mode = CSV THEN RequestCsp(t) ELSE RequestCsv(t)
  BY DEF Operate
<1> HIDE DEF t
<1>3. /\ SameInputs(p, t) /\ t.slave.seedSent = p.slave.seedSent
      /\ t.slave.seedPending = p.slave.seedPending /\ t.slave.zeroPending = p.slave.zeroPending
      /\ t.slave.inFlight = p.slave.inFlight /\ t.slave.target = p.slave.target
      /\ t.slave.hold = p.slave.hold /\ t.slave.holdKnown = p.slave.holdKnown
      /\ t.slave.error = p.slave.error /\ t.slave.owned = owned
  <2>1. DOMAIN p.slave = SlaveFields BY DEF FrameReady, Shaped
  <2> QED BY ONLY <1>1, <2>1 DEF SlaveFields, SameInputs
<1>4. FrameReady(t) /\ t.frame.mode = ShownMode(t)
  BY <1>1, <1>3 DEF FrameReady, Coherent, ShownMode, SameInputs
<1>5. t.slave.seedSent /\ ~t.slave.error /\ Desired(t) \in {CSP, CSV}
  BY <1>1, <1>3 DEF Desired
<1>6. Outcome(t, Operate(p))
  BY <1>2, <1>4, <1>5, InFlightOut, SteadyOut, RequestCspOut, RequestCsvOut
<1> DEFINE u == Operate(p)
<1> HIDE DEF u
<1>7. Keeps(t, u) => Keeps(p, u)
  BY <1>1, <1>3 DEF Keeps, SameInputs
<1>8. /\ FrameMode(t, u) => FrameMode(p, u)
      /\ FrameTarget(t, u) => FrameTarget(p, u)
      /\ FrameSpeed(t, u) => FrameSpeed(p, u)
  BY <1>1, <1>3 DEF FrameMode, FrameTarget, FrameSpeed, SameInputs, ShownMode
<1>9. FrameStays(t, u) => FrameStays(p, u)
  BY <1>1, <1>3 DEF FrameStays, SameInputs
<1> QED BY <1>6, <1>7, <1>8, <1>9 DEF Outcome, u

-----------------------------------------------------------------------------
(* What precedes the branches, and the loss of the seed.                     *)
LEMMA PreparedOut ==
  ASSUME NEW s, Shaped(s)
  PROVE LET p == Prepared(s) IN
     /\ Shaped(p) /\ p.slave = s.slave /\ p.cmd = s.cmd
     /\ p.frame.velocity = 0 /\ p.frame.position = HoldPosition(s)
     /\ s.slave.have => p.frame.mode = ShownMode(s)
     /\ ~s.slave.seedSent => p.frame.word # "enable"
BY DEF Prepared, Shaped, PubFields, FrameFields, ShownMode

LEMMA LoseSeedOut ==
  ASSUME NEW s, Shaped(s), NEW e \in BOOLEAN
  PROVE LET t == LoseSeed(s, e) IN
     /\ Shaped(t) /\ SameInputs(s, t) /\ t.cmd = s.cmd /\ t.frame = s.frame
     /\ ~t.slave.seedSent /\ ~t.slave.inFlight /\ ~t.slave.zeroPending
     /\ t.slave.seedPending = s.slave.seedPending /\ t.slave.target = 0
     /\ t.slave.pc = s.slave.pc
     /\ t.slave.hold = s.slave.hold /\ t.slave.holdKnown = s.slave.holdKnown
<1> DEFINE u == [s EXCEPT !.slave.seedSent = FALSE]
<1>1. /\ Shaped(u) /\ u.slave = [s.slave EXCEPT !.seedSent = FALSE]
      /\ u.cmd = s.cmd /\ u.frame = s.frame /\ u.pub = s.pub
  BY DEF Shaped
<1>2. LoseSeed(s, e) = ClearHandoff(u, e)
  BY DEF LoseSeed
<1> HIDE DEF u
<1>3. /\ SameInputs(s, u) /\ ~u.slave.seedSent
      /\ u.slave.seedPending = s.slave.seedPending /\ u.slave.pc = s.slave.pc
      /\ u.slave.hold = s.slave.hold /\ u.slave.holdKnown = s.slave.holdKnown
  BY <1>1 DEF Shaped, SlaveFields, SameInputs
<1>4. ClearHandoff(u, e).slave.pc = u.slave.pc
  BY <1>1 DEF Shaped, SlaveFields, ClearHandoff
<1> DEFINE t == ClearHandoff(u, e)
<1>5. /\ Shaped(t) /\ SameInputs(u, t) /\ t.cmd = u.cmd /\ t.frame = u.frame
      /\ t.slave.seedSent = u.slave.seedSent /\ t.slave.seedPending = u.slave.seedPending
      /\ ~t.slave.inFlight /\ ~t.slave.zeroPending /\ t.slave.target = 0
      /\ t.slave.hold = u.slave.hold /\ t.slave.holdKnown = u.slave.holdKnown
  BY <1>1, ClearShape, ClearValues
<1> HIDE DEF t
<1>6. SameInputs(s, t)
  BY <1>3, <1>5 DEF SameInputs
<1> QED BY <1>1, <1>2, <1>3, <1>4, <1>5, <1>6 DEF t

(* The three ways through onPdoCycleStart: the last outputs are repeated,    *)
(* the seed is lost, or a branch decides.                                    *)
Rides(s, t) ==
    /\ Shaped(t) /\ t.slave = s.slave /\ t.cmd = s.cmd
    /\ s.slave.got = "lost" /\ s.slave.seedSent
    /\ t.frame.position = s.slave.hold /\ t.frame.velocity = s.slave.lastVelocity
    /\ t.frame.mode = s.slave.lastMode
Loses(s, t) ==
    /\ Shaped(t) /\ SameInputs(s, t) /\ t.cmd = s.cmd
    /\ ~t.slave.seedSent /\ ~t.slave.inFlight /\ ~t.slave.zeroPending /\ ~t.slave.seedPending
    /\ t.frame.velocity = 0 /\ t.slave.target = 0
    /\ t.frame.word = "enable" => s.slave.seedSent /\ t.frame.position = s.slave.hold
Decides(s, t) ==
    /\ s.slave.got # "lost" /\ s.slave.operational
    /\ Outcome(s, t)

(* onPdoCycleStart takes one of them.                                        *)
LEMMA StartOut ==
  ASSUME NEW s, Shaped(s), Coherent(s), s.slave.have <=> s.slave.got # "lost"
  PROVE Rides(s, Start(s)) \/ Loses(s, Start(s)) \/ Decides(s, Start(s))
<1> DEFINE p == Prepared(s)
           k == s.slave
<1>1. /\ Shaped(p) /\ p.slave = s.slave /\ p.cmd = s.cmd
      /\ p.frame.velocity = 0 /\ p.frame.position = HoldPosition(s)
      /\ s.slave.have => p.frame.mode = ShownMode(s)
      /\ ~s.slave.seedSent => p.frame.word # "enable"
  BY PreparedOut
<1>2. k.seedSent => p.frame.position = k.hold
  BY <1>1 DEF Coherent, HoldPosition
<1> HIDE DEF p
<1>3. CASE RideThrough(s)
  <2> DEFINE t == [p EXCEPT !.frame = [p.frame EXCEPT !.velocity = k.lastVelocity,
                                                 !.mode = k.lastMode]]
  <2>1. Start(s) = t BY <1>3 DEF Start, p
  <2>2. Rides(s, t)
    BY <1>1, <1>2, <1>3 DEF Rides, RideThrough, Shaped, FrameFields
  <2> QED BY <2>1, <2>2
<1>4. ASSUME NEW e \in BOOLEAN, Start(s) = LoseSeed(p, e) PROVE Loses(s, Start(s))
  <2>1. /\ Shaped(Start(s)) /\ SameInputs(p, Start(s)) /\ Start(s).cmd = p.cmd
        /\ Start(s).frame = p.frame
        /\ ~Start(s).slave.seedSent /\ ~Start(s).slave.inFlight /\ ~Start(s).slave.zeroPending
        /\ Start(s).slave.target = 0
        /\ Start(s).slave.seedPending = p.slave.seedPending
    BY <1>1, <1>4, LoseSeedOut
  <2> QED BY <1>1, <1>2, <2>1 DEF Loses, Coherent, SameInputs
<1>5. CASE ~RideThrough(s) /\ (k.got = "lost" \/ ~k.operational \/ ~k.have \/ k.got = "late")
  <2>1. Start(s) = LoseSeed(p, TRUE) \/ Start(s) = LoseSeed(p, FALSE)
    BY <1>5 DEF Start, p
  <2> QED BY <1>4, <2>1
<1>6. CASE ~RideThrough(s) /\ k.got # "lost" /\ k.operational /\ k.have /\ k.got # "late"
  <2>1. FrameReady(p) /\ p.frame.mode = ShownMode(p)
    BY <1>1, <1>2, <1>6 DEF FrameReady, Coherent, ShownMode, HoldPosition
  <2>2. Outcome(p, Start(s))
    <3>1. CASE ~k.seedSent
      <4>1. Start(s) = Seed(p) BY <1>6, <3>1 DEF Start, p
      <4>2. Outcome(p, Seed(p)) BY <1>1, <2>1, <3>1, SeedOut
      <4> QED BY <4>1, <4>2
    <3>2. CASE k.seedSent /\ ~k.enabled
      <4>1. Start(s) = Disabled(p) BY <1>6, <3>2 DEF Start, p
      <4>2. Outcome(p, Disabled(p)) BY <1>1, <2>1, <3>2, DisabledOut
      <4> QED BY <4>1, <4>2
    <3>3. CASE k.seedSent /\ k.enabled /\ k.error
      <4>1. Start(s) = Refuse(p) BY <1>6, <3>3 DEF Start, p
      <4>2. Outcome(p, Refuse(p)) BY <1>1, <2>1, <3>3, RefuseOut
      <4> QED BY <4>1, <4>2
    <3>4. CASE k.seedSent /\ k.enabled /\ ~k.error /\ Desired(p) \notin {CSP, CSV}
      <4>1. Start(s) = ClearHandoff(p, TRUE) BY <1>6, <3>4 DEF Start, p
      <4>2. Outcome(p, ClearHandoff(p, TRUE)) BY <1>1, <2>1, <3>4, GiveUpOut
      <4> QED BY <4>1, <4>2
    <3>5. CASE k.seedSent /\ k.enabled /\ ~k.error /\ Desired(p) \in {CSP, CSV} /\ k.mode = 0
      <4>1. Start(s) = AwaitStartupMode(p) BY <1>6, <3>5 DEF Start, p
      <4>2. Outcome(p, AwaitStartupMode(p)) BY <1>1, <2>1, <3>5, AwaitOut
      <4> QED BY <4>1, <4>2
    <3>6. CASE k.seedSent /\ k.enabled /\ ~k.error /\ Desired(p) \in {CSP, CSV} /\ k.mode # 0
      <4>1. Start(s) = Operate(p) BY <1>6, <3>6 DEF Start, p
      <4>2. Outcome(p, Operate(p)) BY <1>1, <2>1, <3>6, OperateOut
      <4> QED BY <4>1, <4>2
    <3> QED BY <3>1, <3>2, <3>3, <3>4, <3>5, <3>6
  <2> DEFINE u == Start(s)
  <2> HIDE DEF u
  <2>3. Outcome(p, u) => Outcome(s, u)
    BY <1>1
          DEF Outcome, Keeps, FrameMode, FrameTarget, FrameSpeed, FrameStays, SameInputs,
              ShownMode
  <2> QED BY <1>6, <2>2, <2>3 DEF Decides, u
<1> QED BY <1>3, <1>5, <1>6

-----------------------------------------------------------------------------
(* The frame of zero velocity that ends a request for CSV.                   *)
Zeroed(t) == t.slave.zeroPending /\ t.frame.velocity = 0 /\ t.frame.mode = CSV

(* What onPdoCycleSent does after the frame of t.                            *)
Sends(t, u) ==
    /\ Shaped(u) /\ u.frame = t.frame
    /\ u.slave.operational = t.slave.operational
    /\ u.slave.got = t.slave.got
    /\ u.slave.have = t.slave.have
    /\ u.slave.enabled = t.slave.enabled
    /\ u.slave.mode = t.slave.mode
    /\ u.slave.hold = t.slave.hold
    /\ u.slave.holdKnown = t.slave.holdKnown
    /\ u.slave.owned = t.slave.owned
    /\ u.slave.error = t.slave.error
    /\ u.slave.target = t.slave.target
    /\ u.slave.lastVelocity = t.frame.velocity
    /\ u.slave.lastMode = t.frame.mode
    /\ ~u.slave.seedPending
    /\ u.slave.seedSent <=> t.slave.seedSent \/ t.slave.seedPending
    /\ u.slave.zeroPending <=> t.slave.zeroPending /\ ~Zeroed(t)
    /\ u.slave.inFlight <=> t.slave.inFlight /\ ~Zeroed(t)
    /\ Zeroed(t) => /\ u.cmd.velocity = Undefined
                    /\ u.slave.quarantine /\ u.slave.needFresh
    /\ u.cmd.velocity = t.cmd.velocity \/ u.cmd.velocity = Undefined

LEMMA SentOut ==
  ASSUME NEW s, NEW t, Shaped(t), t.slave.got # "lost", t.slave.operational
  PROVE  Sends(t, Sent(t, s))
<1> DEFINE k == t.slave
           seededCsv == k.seedPending /\ (k.mode = CSV \/ (k.mode = 0 /\ StartupMode = CSV))
           preseeded == /\ k.preseedPending /\ t.frame.position = k.position
                        /\ t.frame.velocity = 0 /\ t.frame.mode = CSV
           zeroed == k.zeroPending /\ t.frame.velocity = 0 /\ t.frame.mode = CSV
           velocity == IF seededCsv \/ zeroed THEN Undefined ELSE t.cmd.velocity
           sent == [k EXCEPT
                    !.lastVelocity = t.frame.velocity, !.lastMode = t.frame.mode,
                    !.seedPending = FALSE, !.seedSent = k.seedSent \/ k.seedPending,
                    !.preseedPending = k.preseedPending /\ ~preseeded,
                    !.preseedSent = k.preseedSent \/ preseeded,
                    !.zeroPending = k.zeroPending /\ ~zeroed,
                    !.inFlight = k.inFlight /\ ~zeroed,
                    !.needFresh = k.needFresh \/ seededCsv \/ zeroed,
                    !.quarantine = k.quarantine \/ zeroed]
           exact == /\ PendingValid(s) /\ ~k.error /\ k.enabled
                    /\ "velocity" \in s.cmd.mask => s.cmd.velocity = t.frame.velocity
                    /\ "position" \in s.cmd.mask => s.cmd.position = t.frame.position
                    /\ "mode" \in s.cmd.mask => s.cmd.mode = t.frame.mode
           pubs == [t.pub EXCEPT !.ready = t.pub.ready \/ preseeded,
                                 !.ack = t.pub.ack \/ zeroed,
                                 !.sent = t.pub.sent \/ exact]
<1>1. Sent(t, s) = [t EXCEPT !.slave = sent, !.cmd.velocity = velocity, !.pub = pubs]
  BY DEF Sent
<1>2. /\ DOMAIN sent = SlaveFields
      /\ sent.operational = k.operational
      /\ sent.got = k.got
      /\ sent.have = k.have
      /\ sent.enabled = k.enabled
      /\ sent.mode = k.mode
      /\ sent.hold = k.hold
      /\ sent.holdKnown = k.holdKnown
      /\ sent.owned = k.owned
      /\ sent.error = k.error
      /\ sent.target = k.target
      /\ sent.lastVelocity = t.frame.velocity
      /\ sent.lastMode = t.frame.mode
      /\ ~sent.seedPending
      /\ sent.seedSent <=> k.seedSent \/ k.seedPending
      /\ sent.zeroPending <=> k.zeroPending /\ ~zeroed
      /\ sent.inFlight <=> k.inFlight /\ ~zeroed
      /\ zeroed => sent.quarantine /\ sent.needFresh
  <2>1. DOMAIN k = SlaveFields BY DEF Shaped
  <2> HIDE DEF zeroed, preseeded, seededCsv, k
  <2> QED BY <2>1 DEF SlaveFields
<1>3. zeroed = Zeroed(t)
  BY DEF Zeroed
<1>4. /\ zeroed => velocity = Undefined
      /\ velocity = t.cmd.velocity \/ velocity = Undefined
  OBVIOUS
<1>6. DOMAIN pubs = PubFields
  BY DEF Shaped
<1> HIDE DEF sent, velocity, zeroed, preseeded, pubs
<1>5. /\ Shaped(Sent(t, s)) /\ Sent(t, s).frame = t.frame /\ Sent(t, s).slave = sent
      /\ Sent(t, s).cmd.velocity = velocity
  BY <1>1, <1>2, <1>6 DEF Shaped, CmdFields
<1> QED BY <1>2, <1>3, <1>4, <1>5 DEF Sends

-----------------------------------------------------------------------------
(* The state of the cycle, and the inductive invariants.                     *)
Now == [slave |-> slave, cmd |-> cmd, pub |-> pub, frame |-> frame]

(* Between read and frame the slave shows the drive as it is; a disabled     *)
(* drive shows no mode.                                                      *)
ReadInputs ==
    /\ slave.pc = "write" => (slave.have <=> slave.got # "lost")
    /\ slave.pc = "write" /\ slave.got # "lost" =>
          slave.mode = motor.mode /\ slave.enabled = motor.enabled
    /\ ~motor.enabled => motor.mode = 0

(* Seeded, in CSP and with nothing in flight, the target on the wire is the  *)
(* hold.                                                                     *)
TargetIsHold ==
    slave.seedSent /\ frame.mode = CSP /\ ~slave.inFlight => frame.position = slave.hold

(* The inductive invariant behind UnownedStays.                              *)
HoldInv ==
    /\ Shaped(Now) /\ DOMAIN motor = {"position", "moving", "enabled", "mode"}
    /\ Coherent(Now) /\ ReadInputs /\ TargetIsHold

(* CSV may appear on a slave that does not show it yet only while a request  *)
(* for it is in flight, after an error, or before the seed: in each case no  *)
(* velocity is followed before it was discarded.                             *)
Expected(s) ==
    (s.slave.inFlight /\ s.slave.target = CSV) \/ s.slave.error \/ ~s.slave.seedSent

ShowsExpected(s, shown) ==
    s.slave.mode # CSV /\ CSV \in {shown, s.frame.mode, s.slave.lastMode} => Expected(s)

(* What was written before the drive showed CSV.                             *)
Uninformed == {Blind, Early}

(* Such a velocity is still in the interface of a drive in CSV only where it *)
(* is not followed.                                                          *)
Waits(s) ==
    s.cmd.velocity \in Uninformed /\ s.slave.mode = CSV
    => s.slave.inFlight \/ s.slave.error \/ ~s.slave.seedSent

NotSent(s) == s.frame.velocity \notin Uninformed /\ s.slave.lastVelocity \notin Uninformed

(* The inductive invariant behind SpeedIsInformed for a drive that starts in *)
(* CSP.                                                                      *)
FromCsp ==
    /\ slave.pc = "read" \/ slave.got = "lost" => ShowsExpected(Now, motor.mode)
    /\ Waits(Now) /\ NotSent(Now)

(* For a drive that starts in CSV, it is about the run of CSV that a request *)
(* begins: neither the wire nor the velocity a ride through repeats is       *)
(* blind.  Once the request has ended every frame asks for CSV, so the drive *)
(* does not show CSP again and nobody writes blindly.                        *)
CsvRun(s, shown) ==
    s.slave.target = CSV =>
      /\ s.frame.velocity # Blind /\ s.slave.lastVelocity # Blind
      /\ ~s.slave.inFlight =>
           /\ s.cmd.velocity # Blind
           /\ s.frame.mode = CSV /\ s.slave.lastMode = CSV
           /\ s.slave.mode \in {0, CSV} /\ shown \in {0, CSV}

SpeedInv ==
    /\ StartupMode = CSP => FromCsp
    /\ StartupMode = CSV => CsvRun(Now, motor.mode)

(* The frame that ends a request for CSV without a failure is one of zero    *)
(* velocity in CSV, and leaves no velocity to follow.                        *)
EndsAtZero(s, u) ==
    s.slave.inFlight /\ s.slave.target = CSV /\ ~u.slave.inFlight =>
        \/ u.slave.error \/ ~u.slave.seedSent \/ ~u.slave.enabled
        \/ /\ s.slave.mode = CSV /\ u.frame.mode = CSV /\ u.frame.velocity = 0
           /\ u.cmd.velocity = Undefined /\ u.slave.quarantine /\ u.slave.needFresh

(* What one frame leaves, for the hold and for a handoff.                    *)
SendResult(s, u) ==
    /\ Shaped(u) /\ Coherent(u)
    /\ u.slave.have = s.slave.have /\ u.slave.got = s.slave.got
    /\ u.slave.mode = s.slave.mode /\ u.slave.enabled = s.slave.enabled
    /\ u.slave.seedSent /\ u.frame.mode = CSP /\ ~u.slave.inFlight
       => u.frame.position = u.slave.hold
    /\ FrameStays(s, u)
    /\ EndsAtZero(s, u)

(* The whole frame keeps the target at the hold.                             *)
LEMMA SendHolds ==
  ASSUME NEW s, Shaped(s), Coherent(s), s.slave.have <=> s.slave.got # "lost"
  PROVE  SendResult(s, Sent(Start(s), s))
<1> DEFINE t == Start(s)
           u == Sent(t, s)
<1>2. Rides(s, t) \/ Loses(s, t) \/ Decides(s, t)
  BY StartOut
<1>3. t.slave.got = "lost" \/ ~t.slave.operational => u = t
  BY DEF Sent
<1> HIDE DEF t
<1>4. Shaped(t)
  BY <1>2 DEF Rides, Loses, Decides, Outcome, Keeps
<1>5. t.slave.got # "lost" /\ t.slave.operational => Sends(t, u)
  BY <1>4, SentOut
<1> HIDE DEF u
<1> SUFFICES SendResult(s, u)
  BY DEF t, u
<1>6. CASE Rides(s, t)
  <2>1. u = t /\ u.slave = s.slave
    BY <1>3, <1>6 DEF Rides
  <2>2. Coherent(u) /\ FrameStays(s, u) /\ EndsAtZero(s, u)
    BY <1>6, <2>1 DEF Rides, Coherent, FrameStays, EndsAtZero
  <2> QED BY <1>6, <2>1, <2>2 DEF Rides, SendResult
<1>7. CASE Loses(s, t)
  <2>1. CASE t.slave.got = "lost" \/ ~t.slave.operational
    <3>1. u = t
      BY <1>3, <2>1
    <3>2. Coherent(u) /\ FrameStays(s, u) /\ EndsAtZero(s, u)
      BY <1>7, <3>1 DEF Loses, Coherent, FrameStays, EndsAtZero
    <3> QED BY <1>7, <3>1, <3>2 DEF Loses, SendResult, SameInputs
  <2>2. CASE t.slave.got # "lost" /\ t.slave.operational
    <3>1. Coherent(u) /\ FrameStays(s, u) /\ EndsAtZero(s, u) /\ ~u.slave.seedSent
      BY <1>5, <1>7, <2>2 DEF Loses, Sends, Coherent, FrameStays, EndsAtZero
    <3> QED BY <1>5, <1>7, <2>2, <3>1 DEF Loses, Sends, SendResult, SameInputs
  <2> QED BY <2>1, <2>2
<1>8. CASE Decides(s, t)
  <2>1. Sends(t, u)
    BY <1>5, <1>8 DEF Decides, Outcome, Keeps, SameInputs
  <2>2. t.slave.zeroPending <=> Zeroed(t)
    BY <1>8 DEF Decides, Outcome, Keeps, Zeroed
  <2>3. Coherent(u)
    BY <1>8, <2>1, <2>2 DEF Decides, Outcome, Keeps, Coherent, Sends, SameInputs
  <2>4. FrameStays(s, u)
    BY <1>8, <2>1, <2>2
          DEF Decides, Outcome, Keeps, FrameStays, Sends, Zeroed, SameInputs, CSP, CSV
  <2>5. u.slave.seedSent /\ u.frame.mode = CSP /\ ~u.slave.inFlight
       => u.frame.position = u.slave.hold
    BY <1>8, <2>1, <2>2 DEF Decides, Outcome, FrameTarget, Sends, Zeroed, CSP, CSV
  <2>6. EndsAtZero(s, u)
    BY <1>8, <2>1, <2>2
          DEF Decides, Outcome, Keeps, Coherent, EndsAtZero, Sends, Zeroed, SameInputs,
              CSP, CSV
  <2> QED BY <1>8, <2>1, <2>3, <2>4, <2>5, <2>6
        DEF SendResult, Decides, Outcome, Keeps, SameInputs, Sends
<1> QED BY <1>2, <1>6, <1>7, <1>8

(* The whole frame of a drive that starts in CSP.                            *)
LEMMA SendFromCsp ==
  ASSUME StartupMode = CSP,
         NEW s, Shaped(s), Coherent(s), s.slave.have <=> s.slave.got # "lost",
         NEW shown, s.slave.got = "lost" => ShowsExpected(s, shown),
         s.slave.got # "lost" => s.slave.mode = shown /\ (~s.slave.enabled => s.slave.mode = 0),
         Waits(s), NotSent(s)
  PROVE  LET u == Sent(Start(s), s) IN
         ShowsExpected(u, shown) /\ Waits(u) /\ NotSent(u)
<1> DEFINE t == Start(s)
           u == Sent(t, s)
<1>2. Rides(s, t) \/ Loses(s, t) \/ Decides(s, t)
  BY StartOut
<1>3. t.slave.got = "lost" \/ ~t.slave.operational => u = t
  BY DEF Sent
<1> HIDE DEF t
<1>4. Shaped(t)
  BY <1>2 DEF Rides, Loses, Decides, Outcome, Keeps
<1>5. t.slave.got # "lost" /\ t.slave.operational => Sends(t, u)
  BY <1>4, SentOut
<1> HIDE DEF u
<1> SUFFICES ShowsExpected(u, shown) /\ Waits(u) /\ NotSent(u)
  BY DEF t, u
<1>6. CASE Rides(s, t)
  <2>1. u = t /\ u.slave = s.slave /\ u.cmd = s.cmd /\ s.slave.got = "lost"
    BY <1>3, <1>6 DEF Rides
  <2>2. u.frame.velocity = s.slave.lastVelocity /\ u.frame.mode = s.slave.lastMode
    BY <1>6, <2>1 DEF Rides
  <2>3. ShowsExpected(u, shown)
    BY <2>1, <2>2 DEF ShowsExpected, Expected
  <2> QED BY <2>1, <2>2, <2>3 DEF Waits, NotSent
<1>7. CASE Loses(s, t)
  <2>1. ~u.slave.seedSent
    BY <1>3, <1>5, <1>7 DEF Loses, Sends
  <2>2. NotSent(u)
    BY <1>3, <1>5, <1>7 DEF Loses, Sends, NotSent, SameInputs, Uninformed, Blind, Early
  <2> QED BY <2>1, <2>2 DEF ShowsExpected, Expected, Waits
<1>8. CASE Decides(s, t)
  <2>1. Sends(t, u) /\ s.slave.got # "lost"
    BY <1>5, <1>8 DEF Decides, Outcome, Keeps, SameInputs
  <2>2. t.slave.zeroPending <=> Zeroed(t)
    BY <1>8 DEF Decides, Outcome, Keeps, Zeroed
  <2>3. ShowsExpected(u, shown)
    BY <1>8, <2>1, <2>2
          DEF Decides, Outcome, Keeps, FrameMode, ShownMode, SameInputs, Sends,
              ShowsExpected, Expected, CSP, CSV
  <2>4. Waits(u)
    BY <1>8, <2>1, <2>2
          DEF Decides, Outcome, Keeps, SameInputs, Sends, Waits, CSP, CSV,
              Undefined, Uninformed, Blind, Early
  <2>5. NotSent(u)
    BY <1>8, <2>1
          DEF Decides, Outcome, FrameSpeed, Sends, Waits, NotSent, Uninformed, Blind, Early
  <2> QED BY <2>3, <2>4, <2>5
<1> QED BY <1>2, <1>6, <1>7, <1>8

(* The whole frame of a drive that starts in CSV.                            *)
LEMMA SendCsvRun ==
  ASSUME StartupMode = CSV,
         NEW s, Shaped(s), Coherent(s), s.slave.have <=> s.slave.got # "lost",
         NEW shown, s.slave.got # "lost" => s.slave.mode = shown,
         CsvRun(s, shown)
  PROVE  CsvRun(Sent(Start(s), s), shown)
<1> DEFINE t == Start(s)
           u == Sent(t, s)
<1>2. Rides(s, t) \/ Loses(s, t) \/ Decides(s, t)
  BY StartOut
<1>3. t.slave.got = "lost" \/ ~t.slave.operational => u = t
  BY DEF Sent
<1> HIDE DEF t
<1>4. Shaped(t)
  BY <1>2 DEF Rides, Loses, Decides, Outcome, Keeps
<1>5. t.slave.got # "lost" /\ t.slave.operational => Sends(t, u)
  BY <1>4, SentOut
<1> HIDE DEF u
<1> SUFFICES ASSUME u.slave.target = CSV PROVE CsvRun(u, shown)
  BY DEF t, u, CsvRun
<1>6. CASE Rides(s, t)
  BY <1>3, <1>6 DEF Rides, CsvRun
<1>7. CASE Loses(s, t)
  BY <1>3, <1>5, <1>7 DEF Loses, Sends, CSV
<1>8. CASE Decides(s, t)
  <2>1. Sends(t, u) /\ s.slave.got # "lost" /\ t.slave.target = CSV
    BY <1>5, <1>8 DEF Decides, Outcome, Keeps, SameInputs, Sends
  <2>2. t.slave.zeroPending <=> Zeroed(t)
    BY <1>8 DEF Decides, Outcome, Keeps, Zeroed
  <2>3. \/ t.slave.inFlight /\ ~s.slave.inFlight /\ s.slave.mode # CSV
        \/ s.slave.target = CSV /\ (t.slave.inFlight <=> s.slave.inFlight)
    BY <1>8, <2>1 DEF Decides, Outcome, Keeps
  <2>4. u.frame.velocity # Blind /\ u.slave.lastVelocity # Blind
    BY <1>8, <2>1, <2>3 DEF Decides, Outcome, FrameSpeed, Sends, CsvRun, Blind
  <2>5. ASSUME ~u.slave.inFlight, t.slave.inFlight
        PROVE  /\ u.cmd.velocity # Blind /\ u.frame.mode = CSV /\ u.slave.lastMode = CSV
               /\ u.slave.mode \in {0, CSV} /\ shown \in {0, CSV}
    BY <1>8, <2>1, <2>5
          DEF Decides, Outcome, Keeps, SameInputs, Sends, Zeroed, Undefined, Blind
  <2>6. ASSUME ~t.slave.inFlight
        PROVE  /\ u.cmd.velocity # Blind /\ u.frame.mode = CSV /\ u.slave.lastMode = CSV
               /\ u.slave.mode \in {0, CSV} /\ shown \in {0, CSV}
    BY <1>8, <2>1, <2>3, <2>6
          DEF Decides, Outcome, Keeps, FrameMode, ShownMode, SameInputs, Sends, CsvRun,
              Undefined, Blind
  <2> QED BY <2>1, <2>4, <2>5, <2>6 DEF CsvRun, Sends
<1> QED BY <1>2, <1>6, <1>7, <1>8

-----------------------------------------------------------------------------
(* The invariants hold initially, and each action keeps them.                *)
LEMMA NowFields ==
   /\ Now.slave = slave /\ Now.cmd = cmd /\ Now.pub = pub /\ Now.frame = frame
   /\ DOMAIN Now = {"slave", "cmd", "pub", "frame"}
BY DEF Now

LEMMA InitHolds == KincoInit => HoldInv
<1> SUFFICES ASSUME KincoInit PROVE HoldInv
  OBVIOUS
<1>1. Shaped(Now) /\ DOMAIN motor = {"position", "moving", "enabled", "mode"}
  <2>1. DOMAIN slave = SlaveFields BY DEF KincoInit, SlaveFields
  <2>2. DOMAIN cmd = CmdFields BY DEF KincoInit, CmdFields
  <2>3. DOMAIN pub = PubFields BY DEF KincoInit, PubFields
  <2>4. DOMAIN frame = FrameFields BY DEF KincoInit, FrameFields
  <2>5. DOMAIN motor = {"position", "moving", "enabled", "mode"} BY DEF KincoInit
  <2> QED BY <2>1, <2>2, <2>3, <2>4, <2>5, NowFields DEF Shaped
<1>2. Coherent(Now)
  BY NowFields DEF KincoInit, Coherent
<1>3. ReadInputs /\ TargetIsHold
  BY DEF KincoInit, ReadInputs, TargetIsHold
<1> QED BY <1>1, <1>2, <1>3 DEF HoldInv

LEMMA InitSpeed == KincoInit => SpeedInv
<1> SUFFICES ASSUME KincoInit PROVE SpeedInv
  OBVIOUS
<1>1. StartupMode = CSP => FromCsp
  BY NowFields
        DEF KincoInit, FromCsp, ShowsExpected, Expected, Waits, NotSent, Uninformed, Blind,
            Early, Undefined, CSV
<1>2. CsvRun(Now, motor.mode)
  BY NowFields DEF KincoInit, CsvRun, CSV
<1> QED BY <1>1, <1>2 DEF SpeedInv

(* A read changes the inputs; a lost one may lose the seed.                  *)
ReadResult(got) ==
    /\ slave.pc = "read" /\ Shaped(Now)' /\ UNCHANGED <<cmd, frame, motor>>
    /\ slave'.pc = "write" /\ slave'.got = got
    /\ slave'.have <=> got # "lost"
    /\ slave'.mode = (IF got = "lost" THEN slave.mode ELSE motor.mode)
    /\ slave'.enabled = (IF got = "lost" THEN slave.enabled ELSE motor.enabled)
    /\ slave'.operational = slave.operational /\ slave'.seedPending = slave.seedPending
    /\ slave'.hold = slave.hold /\ slave'.holdKnown = slave.holdKnown
    /\ slave'.lastVelocity = slave.lastVelocity /\ slave'.lastMode = slave.lastMode
    /\ \/ /\ got = "lost" /\ ~slave'.seedSent /\ ~slave'.inFlight /\ ~slave'.zeroPending
          /\ slave'.target = 0
       \/ /\ slave'.seedSent = slave.seedSent /\ slave'.inFlight = slave.inFlight
          /\ slave'.zeroPending = slave.zeroPending /\ slave'.target = slave.target
          /\ slave'.error = slave.error

LEMMA ReadStep ==
  ASSUME Shaped(Now), NEW got, KincoRead(got)
  PROVE  ReadResult(got)
<1> DEFINE lost == got = "lost"
           count == IF ~lost THEN 0
                 ELSE IF slave.incomplete > MaxRideThrough THEN slave.incomplete
                 ELSE slave.incomplete + 1
           read == [slave EXCEPT !.pc = "write", !.got = got, !.have = ~lost, !.incomplete = count]
           inputs == IF lost THEN read
                        ELSE [read EXCEPT !.position = motor.position, !.moving = motor.moving,
                                          !.enabled = motor.enabled, !.mode = motor.mode]
           s == [slave |-> inputs, cmd |-> cmd, pub |-> pub, frame |-> frame]
<1>1. DOMAIN slave = SlaveFields
  BY NowFields DEF Shaped
<1>2. /\ DOMAIN inputs = SlaveFields
      /\ inputs.pc = "write" /\ inputs.got = got
      /\ inputs.have <=> got # "lost"
      /\ inputs.mode = IF got = "lost" THEN slave.mode ELSE motor.mode
      /\ inputs.enabled = IF got = "lost" THEN slave.enabled ELSE motor.enabled
      /\ inputs.operational = slave.operational /\ inputs.seedPending = slave.seedPending
      /\ inputs.hold = slave.hold /\ inputs.holdKnown = slave.holdKnown
      /\ inputs.lastVelocity = slave.lastVelocity /\ inputs.lastMode = slave.lastMode
      /\ inputs.seedSent = slave.seedSent /\ inputs.inFlight = slave.inFlight
      /\ inputs.zeroPending = slave.zeroPending /\ inputs.target = slave.target
      /\ inputs.error = slave.error
  <2> HIDE DEF count
  <2>1. CASE lost BY <1>1, <2>1 DEF SlaveFields
  <2>2. CASE ~lost BY <1>1, <2>2 DEF SlaveFields
  <2> QED BY <2>1, <2>2
<1>3. /\ slave.pc = "read" /\ UNCHANGED <<cmd, frame, motor>>
      /\ \/ slave' = s.slave /\ pub' = s.pub
         \/ lost /\ slave' = LoseSeed(s, TRUE).slave /\ pub' = LoseSeed(s, TRUE).pub
  BY DEF KincoRead
<1> HIDE DEF inputs
<1>4. Shaped(s) /\ s.slave = inputs /\ s.pub = pub /\ s.frame = frame /\ s.cmd = cmd
  BY <1>2, NowFields DEF Shaped
<1> HIDE DEF s
<1>5. CASE slave' = s.slave /\ pub' = s.pub
  <2>1. Shaped(Now)'
    BY <1>3, <1>4, <1>5, NowFields DEF Shaped, Now
  <2> QED BY <1>2, <1>3, <1>4, <1>5, <2>1 DEF ReadResult
<1>6. CASE lost /\ slave' = LoseSeed(s, TRUE).slave /\ pub' = LoseSeed(s, TRUE).pub
  <2> DEFINE t == LoseSeed(s, TRUE)
  <2>1. /\ Shaped(t) /\ SameInputs(s, t)
        /\ ~t.slave.seedSent /\ ~t.slave.inFlight /\ ~t.slave.zeroPending
        /\ t.slave.seedPending = s.slave.seedPending /\ t.slave.pc = s.slave.pc
        /\ t.slave.target = 0
        /\ t.slave.hold = s.slave.hold /\ t.slave.holdKnown = s.slave.holdKnown
    BY <1>4, LoseSeedOut
  <2> HIDE DEF t
  <2>2. slave' = t.slave /\ pub' = t.pub
    BY <1>6 DEF t
  <2>3. Shaped(Now)'
    BY <1>3, <1>4, <2>1, <2>2, NowFields DEF Shaped, Now
  <2> QED BY <1>2, <1>3, <1>4, <1>6, <2>1, <2>2, <2>3 DEF ReadResult, SameInputs
<1> QED BY <1>3, <1>5, <1>6

LEMMA ReadHolds ==
  ASSUME HoldInv, NEW got, KincoRead(got)
  PROVE  HoldInv'
<1>1. ReadResult(got)
  BY ReadStep DEF HoldInv
<1>2. Coherent(Now)'
  BY <1>1, NowFields DEF ReadResult, HoldInv, Coherent, Now
<1>3. ReadInputs' /\ TargetIsHold'
  BY <1>1 DEF ReadResult, HoldInv, ReadInputs, TargetIsHold
<1> QED BY <1>1, <1>2, <1>3 DEF HoldInv, ReadResult

LEMMA ReadSpeed ==
  ASSUME HoldInv, SpeedInv, NEW got, KincoRead(got)
  PROVE  SpeedInv'
<1>1. ReadResult(got)
  BY ReadStep DEF HoldInv
<1>2. CASE StartupMode = CSP
  <2>1. ShowsExpected(Now, motor.mode) /\ Waits(Now) /\ NotSent(Now)
    BY <1>1, <1>2 DEF SpeedInv, FromCsp, ReadResult
  <2>2. slave'.pc = "read" \/ slave'.got = "lost" => ShowsExpected(Now, motor.mode)'
    BY <1>1, <2>1, NowFields DEF ReadResult, ShowsExpected, Expected, Now
  <2>3. Waits(Now)' /\ NotSent(Now)'
    BY <1>1, <2>1, NowFields
          DEF ReadResult, ShowsExpected, Expected, Waits, NotSent, Now
  <2> QED BY <1>2, <2>2, <2>3 DEF SpeedInv, FromCsp, CSP, CSV
<1>3. CASE StartupMode = CSV
  BY <1>1, <1>3, NowFields DEF ReadResult, SpeedInv, CsvRun, Now, CSP, CSV
<1> QED BY <1>2, <1>3 DEF SpeedInv

(* A write changes the commands, uninformed only outside of CSV.             *)
LEMMA WriteStep ==
  ASSUME Shaped(Now), NEW w \in Writes, KincoWrite(w)
  PROVE  /\ Shaped(Now)' /\ UNCHANGED <<slave, frame, motor>>
         /\ cmd'.velocity \in Uninformed => slave.mode # CSV \/ slave.inFlight
         /\ cmd'.velocity = Blind => slave.mode = CSP \/ slave.inFlight
<1>1. w.velocity \in {0, Blind, Undefined} /\ DOMAIN w = CmdFields
  BY KincoAssumption DEF CmdFields
<1>2. /\ DOMAIN cmd' = CmdFields
      /\ cmd'.velocity \in Uninformed => slave.mode # CSV \/ slave.inFlight
      /\ cmd'.velocity = Blind => slave.mode = CSP \/ slave.inFlight
  BY <1>1 DEF KincoWrite, CmdFields, Uninformed, Blind, Early, Undefined, Informed, CSP, CSV
<1>3. DOMAIN pub' = DOMAIN pub /\ UNCHANGED <<slave, frame, motor>>
  BY DEF KincoWrite
<1> QED BY <1>2, <1>3, NowFields DEF Shaped, Now

LEMMA WriteHolds ==
  ASSUME HoldInv, NEW w \in Writes, KincoWrite(w)
  PROVE  HoldInv'
BY WriteStep, NowFields DEF HoldInv, Coherent, ReadInputs, TargetIsHold, Now

LEMMA WriteSpeed ==
  ASSUME HoldInv, SpeedInv, NEW w \in Writes, KincoWrite(w)
  PROVE  SpeedInv'
<1>1. FromCsp => FromCsp'
  BY WriteStep, NowFields DEF HoldInv, FromCsp, ShowsExpected, Expected, Waits, NotSent, Now
<1>2. CsvRun(Now, motor.mode) => CsvRun(Now, motor.mode)'
  BY WriteStep, NowFields DEF HoldInv, CsvRun, Now, CSP, CSV
<1> QED BY <1>1, <1>2 DEF SpeedInv

(* The drive shows no mode, its old one or the mode of the frame.            *)
LEMMA MotorStepOut ==
  ASSUME HoldInv, MotorStep
  PROVE  /\ slave.pc = "read" /\ UNCHANGED <<slave, cmd, pub, frame>>
         /\ DOMAIN motor' = {"position", "moving", "enabled", "mode"}
         /\ motor'.mode \in {0, motor.mode, frame.mode}
         /\ ~motor'.enabled => motor'.mode = 0
<1> USE DEF HoldInv, ReadInputs
<1>1. slave.pc = "read" /\ UNCHANGED <<slave, cmd, pub, frame>>
  BY DEF MotorStep
<1>2. CASE motor' = [motor EXCEPT !.enabled = FALSE, !.mode = 0, !.moving = FALSE]
  BY <1>1, <1>2
<1>3. CASE ~motor.enabled /\ motor' = [motor EXCEPT !.enabled = TRUE]
  BY <1>1, <1>3
<1>4. CASE motor.enabled /\ motor' = [motor EXCEPT !.mode = frame.mode]
  BY <1>1, <1>4
<1>5. CASE \E p \in Positions, moving \in BOOLEAN :
             motor' = [motor EXCEPT !.position = p, !.moving = moving]
  BY <1>1, <1>5
<1> QED BY <1>2, <1>3, <1>4, <1>5 DEF MotorStep

LEMMA MotorHolds ==
  ASSUME HoldInv, MotorStep
  PROVE  HoldInv'
BY MotorStepOut, NowFields DEF HoldInv, Coherent, ReadInputs, TargetIsHold, Now

LEMMA MotorSpeed ==
  ASSUME HoldInv, SpeedInv, MotorStep
  PROVE  SpeedInv'
<1>1. Now' = Now
  BY MotorStepOut DEF Now
<1>2. FromCsp => FromCsp'
  BY <1>1, MotorStepOut, NowFields
        DEF FromCsp, ShowsExpected, Expected, Waits, NotSent, CSV
<1>3. CsvRun(Now, motor.mode) => CsvRun(Now, motor.mode)'
  BY <1>1, MotorStepOut, NowFields DEF CsvRun
<1> QED BY <1>2, <1>3 DEF SpeedInv

(* The frame.                                                                *)
LEMMA SendStep ==
  ASSUME HoldInv, KincoSend
  PROVE  LET u == Sent(Start(Now), Now) IN
         /\ slave.pc = "write" /\ slave' = [u.slave EXCEPT !.pc = "read"] /\ cmd' = u.cmd
         /\ pub' = u.pub /\ frame' = u.frame /\ motor' = motor
         /\ Shaped(Now) /\ Coherent(Now) /\ (Now.slave.have <=> Now.slave.got # "lost")
         /\ SendResult(Now, u)
<1>1. /\ slave.pc = "write" /\ motor' = motor
      /\ slave' = [Sent(Start(Now), Now).slave EXCEPT !.pc = "read"]
      /\ cmd' = Sent(Start(Now), Now).cmd /\ pub' = Sent(Start(Now), Now).pub
      /\ frame' = Sent(Start(Now), Now).frame
  BY DEF KincoSend, Now
<1>2. Shaped(Now) /\ Coherent(Now) /\ (Now.slave.have <=> Now.slave.got # "lost")
  BY <1>1, NowFields DEF HoldInv, ReadInputs
<1> QED BY <1>1, <1>2, SendHolds

LEMMA SendKeepsHold ==
  ASSUME HoldInv, KincoSend
  PROVE  HoldInv'
<1> DEFINE u == Sent(Start(Now), Now)
<1>1. /\ slave.pc = "write" /\ slave' = [u.slave EXCEPT !.pc = "read"] /\ cmd' = u.cmd
      /\ pub' = u.pub /\ frame' = u.frame /\ motor' = motor /\ SendResult(Now, u)
  BY SendStep
<1> HIDE DEF u
<1>2. DOMAIN u.slave = SlaveFields /\ Shaped(u) /\ Coherent(u)
  BY <1>1 DEF SendResult, Shaped
<1>3. /\ DOMAIN slave' = SlaveFields /\ slave'.pc = "read"
      /\ slave'.seedPending = u.slave.seedPending /\ slave'.zeroPending = u.slave.zeroPending
      /\ slave'.seedSent = u.slave.seedSent /\ slave'.operational = u.slave.operational
      /\ slave'.holdKnown = u.slave.holdKnown /\ slave'.inFlight = u.slave.inFlight
      /\ slave'.target = u.slave.target /\ slave'.hold = u.slave.hold
  BY <1>1, <1>2 DEF SlaveFields
<1>4. Shaped(Now)'
  BY <1>1, <1>2, <1>3, NowFields DEF Shaped, Now
<1>5. Coherent(Now)'
  BY <1>2, <1>3, NowFields DEF Coherent, Now
<1>6. ReadInputs' /\ TargetIsHold'
  BY <1>1, <1>3 DEF HoldInv, ReadInputs, TargetIsHold, SendResult
<1> QED BY <1>1, <1>4, <1>5, <1>6 DEF HoldInv

LEMMA SendKeepsSpeed ==
  ASSUME HoldInv, SpeedInv, KincoSend
  PROVE  SpeedInv'
<1> DEFINE u == Sent(Start(Now), Now)
<1>1. /\ slave.pc = "write" /\ slave' = [u.slave EXCEPT !.pc = "read"] /\ cmd' = u.cmd
      /\ pub' = u.pub /\ frame' = u.frame /\ motor' = motor /\ SendResult(Now, u)
      /\ Shaped(Now) /\ Coherent(Now) /\ (Now.slave.have <=> Now.slave.got # "lost")
  BY SendStep
<1>2. Now.slave.got # "lost" => /\ Now.slave.mode = motor.mode
                                /\ ~Now.slave.enabled => Now.slave.mode = 0
  BY <1>1, NowFields DEF HoldInv, ReadInputs
<1>3. ASSUME StartupMode = CSP
      PROVE  ShowsExpected(u, motor.mode) /\ Waits(u) /\ NotSent(u)
  <2>1. /\ Now.slave.got = "lost" => ShowsExpected(Now, motor.mode)
        /\ Waits(Now) /\ NotSent(Now)
    BY <1>3, NowFields DEF SpeedInv, FromCsp
  <2> QED BY <1>1, <1>2, <1>3, <2>1, SendFromCsp
<1>6. ASSUME StartupMode = CSV PROVE CsvRun(u, motor.mode)
  BY <1>1, <1>2, <1>6, SendCsvRun DEF SpeedInv
<1> HIDE DEF u
<1>4. DOMAIN u.slave = SlaveFields
  BY <1>1 DEF SendResult, Shaped
<1>5. /\ slave'.mode = u.slave.mode /\ slave'.seedSent = u.slave.seedSent
      /\ slave'.inFlight = u.slave.inFlight /\ slave'.target = u.slave.target
      /\ slave'.error = u.slave.error /\ slave'.lastMode = u.slave.lastMode
      /\ slave'.lastVelocity = u.slave.lastVelocity
  BY <1>1, <1>4 DEF SlaveFields
<1>7. StartupMode = CSP => FromCsp'
  BY <1>1, <1>3, <1>5, NowFields DEF FromCsp, ShowsExpected, Expected, Waits, NotSent, Now
<1>8. StartupMode = CSV => CsvRun(Now, motor.mode)'
  BY <1>1, <1>6, <1>5, NowFields DEF CsvRun, Now
<1> QED BY <1>7, <1>8 DEF SpeedInv

(* A slave that stops being operational forgets seed, handoff and velocity.  *)
LEMMA OperationalStep ==
  ASSUME Shaped(Now), NEW operational \in BOOLEAN, KincoOperational(operational)
  PROVE  /\ slave.pc = "read" /\ slave'.pc = "read" /\ Shaped(Now)' /\ UNCHANGED <<frame, motor>>
         /\ slave'.mode = slave.mode /\ slave'.lastVelocity = slave.lastVelocity
         /\ \/ slave' = [slave EXCEPT !.operational = TRUE] /\ cmd' = cmd
            \/ /\ ~slave'.seedPending /\ ~slave'.zeroPending /\ ~slave'.seedSent
               /\ ~slave'.inFlight /\ cmd'.velocity = Undefined /\ slave'.target = 0
<1> DEFINE down == [slave EXCEPT !.operational = FALSE, !.got = "lost", !.seedPending = FALSE,
                              !.seedSent = FALSE, !.error = FALSE, !.wait = Undefined,
                              !.owned = FALSE, !.holdKnown = FALSE, !.incomplete = 0]
           quiet == [pub EXCEPT !.sent = FALSE]
           s == [slave |-> down, cmd |-> cmd, pub |-> quiet, frame |-> frame]
           c == ClearHandoff(s, FALSE)
           t == InvalidateVelocity(c)
<1>1. /\ slave.pc = "read" /\ UNCHANGED <<frame, motor>>
      /\ \/ slave' = [slave EXCEPT !.operational = TRUE] /\ UNCHANGED <<cmd, pub>>
         \/ slave' = t.slave /\ cmd' = t.cmd /\ pub' = t.pub
  BY DEF KincoOperational
<1>2. /\ DOMAIN slave = SlaveFields /\ DOMAIN cmd = CmdFields /\ DOMAIN pub = PubFields
      /\ DOMAIN frame = FrameFields
  BY NowFields DEF Shaped
<1>3. CASE slave' = [slave EXCEPT !.operational = TRUE] /\ UNCHANGED <<cmd, pub>>
  <2>1. /\ DOMAIN slave' = SlaveFields /\ slave'.pc = "read" /\ slave'.mode = slave.mode
        /\ slave'.lastVelocity = slave.lastVelocity
    BY <1>1, <1>2, <1>3 DEF SlaveFields
  <2>2. Shaped(Now)'
    BY <1>1, <1>2, <1>3, <2>1 DEF Shaped, Now
  <2> QED BY <1>1, <1>3, <2>1, <2>2
<1>4. CASE slave' = t.slave /\ cmd' = t.cmd /\ pub' = t.pub
  <2>1. /\ DOMAIN down = SlaveFields /\ down.pc = slave.pc /\ down.mode = slave.mode
        /\ down.lastVelocity = slave.lastVelocity /\ ~down.seedPending /\ ~down.seedSent
    BY <1>2 DEF SlaveFields
  <2>2. DOMAIN quiet = PubFields
    BY <1>2
  <2> HIDE DEF down, quiet
  <2>3. Shaped(s) /\ s.slave = down
    BY <1>2, <2>1, <2>2 DEF Shaped
  <2> HIDE DEF s
  <2>4. /\ Shaped(c) /\ SameInputs(s, c) /\ c.slave.seedSent = s.slave.seedSent
        /\ c.slave.seedPending = s.slave.seedPending
        /\ ~c.slave.inFlight /\ ~c.slave.zeroPending /\ c.slave.target = 0
    BY <2>3, ClearShape, ClearValues
  <2>5. c.slave.pc = s.slave.pc
    BY <2>3 DEF ClearHandoff, Shaped, SlaveFields
  <2> HIDE DEF c
  <2>6. Shaped(t) /\ t.slave = c.slave /\ t.cmd.velocity = Undefined
    BY <2>4, InvalidateOut
  <2> HIDE DEF t
  <2>7. Shaped(Now)'
    BY <1>1, <1>2, <1>4, <2>6 DEF Shaped, Now
  <2> QED BY <1>1, <1>4, <2>1, <2>3, <2>4, <2>5, <2>6, <2>7 DEF SameInputs
<1> QED BY <1>1, <1>3, <1>4

LEMMA OperationalHolds ==
  ASSUME HoldInv, NEW operational \in BOOLEAN, KincoOperational(operational)
  PROVE  HoldInv'
<1>1. /\ slave.pc = "read" /\ slave'.pc = "read" /\ Shaped(Now)' /\ UNCHANGED <<frame, motor>>
      /\ \/ slave' = [slave EXCEPT !.operational = TRUE]
         \/ /\ ~slave'.seedPending /\ ~slave'.zeroPending /\ ~slave'.seedSent
            /\ ~slave'.inFlight
  BY OperationalStep DEF HoldInv
<1>2. CASE slave' = [slave EXCEPT !.operational = TRUE]
  <2>1. DOMAIN slave = SlaveFields
    BY NowFields DEF HoldInv, Shaped
  <2>2. /\ slave'.operational = TRUE /\ slave'.seedPending = slave.seedPending
        /\ slave'.zeroPending = slave.zeroPending /\ slave'.seedSent = slave.seedSent
        /\ slave'.holdKnown = slave.holdKnown /\ slave'.inFlight = slave.inFlight
        /\ slave'.target = slave.target /\ slave'.hold = slave.hold
    BY <1>2, <2>1 DEF SlaveFields
  <2> QED BY <1>1, <2>2, NowFields DEF HoldInv, Coherent, ReadInputs, TargetIsHold, Now
<1>3. CASE /\ ~slave'.seedPending /\ ~slave'.zeroPending /\ ~slave'.seedSent /\ ~slave'.inFlight
  BY <1>1, <1>3, NowFields DEF HoldInv, Coherent, ReadInputs, TargetIsHold, Now
<1> QED BY <1>1, <1>2, <1>3

LEMMA OperationalSpeed ==
  ASSUME HoldInv, SpeedInv, NEW operational \in BOOLEAN, KincoOperational(operational)
  PROVE  SpeedInv'
<1>1. /\ slave.pc = "read" /\ UNCHANGED <<frame, motor>>
      /\ slave'.mode = slave.mode /\ slave'.lastVelocity = slave.lastVelocity
      /\ \/ slave' = [slave EXCEPT !.operational = TRUE] /\ cmd' = cmd
         \/ ~slave'.seedSent /\ cmd'.velocity = Undefined /\ slave'.target = 0
  BY OperationalStep DEF HoldInv
<1>2. CASE slave' = [slave EXCEPT !.operational = TRUE] /\ cmd' = cmd
  <2>1. DOMAIN slave = SlaveFields
    BY NowFields DEF HoldInv, Shaped
  <2>2. /\ slave'.seedSent = slave.seedSent /\ slave'.inFlight = slave.inFlight
        /\ slave'.target = slave.target /\ slave'.error = slave.error
        /\ slave'.lastMode = slave.lastMode
    BY <1>2, <2>1 DEF SlaveFields
  <2>3. FromCsp => FromCsp'
    BY <1>1, <1>2, <2>2, NowFields
          DEF FromCsp, ShowsExpected, Expected, Waits, NotSent, Now
  <2>4. CsvRun(Now, motor.mode) => CsvRun(Now, motor.mode)'
    BY <1>1, <1>2, <2>2, NowFields DEF CsvRun, Now
  <2> QED BY <2>3, <2>4 DEF SpeedInv
<1>3. CASE ~slave'.seedSent /\ cmd'.velocity = Undefined /\ slave'.target = 0
  <2>1. FromCsp => FromCsp'
    BY <1>1, <1>3, NowFields
          DEF FromCsp, ShowsExpected, Expected, Waits, NotSent, Now, Uninformed, Undefined,
              Blind, Early
  <2>2. CsvRun(Now, motor.mode)'
    BY <1>3, NowFields DEF CsvRun, Now, CSV
  <2> QED BY <2>1, <2>2 DEF SpeedInv
<1> QED BY <1>1, <1>2, <1>3

(* Every step keeps both invariants.                                         *)
LEMMA NextHolds == HoldInv /\ [KincoNext]_kincoVars => HoldInv'
<1> SUFFICES ASSUME HoldInv, [KincoNext]_kincoVars PROVE HoldInv'
  OBVIOUS
<1>1. CASE UNCHANGED kincoVars
  BY <1>1 DEF kincoVars, HoldInv, ReadInputs, TargetIsHold, Coherent, Shaped, Now
<1> QED BY <1>1, ReadHolds, WriteHolds, SendKeepsHold, MotorHolds, OperationalHolds
      DEF KincoNext

LEMMA NextSpeed == HoldInv /\ SpeedInv /\ [KincoNext]_kincoVars => SpeedInv'
<1> SUFFICES ASSUME HoldInv, SpeedInv, [KincoNext]_kincoVars PROVE SpeedInv'
  OBVIOUS
<1>1. CASE UNCHANGED kincoVars
  BY <1>1
        DEF kincoVars, SpeedInv, FromCsp, CsvRun, ShowsExpected, Expected, Waits, NotSent, Now
<1> QED BY <1>1, ReadSpeed, WriteSpeed, SendKeepsSpeed, MotorSpeed, OperationalSpeed
      DEF KincoNext

(* HoldInv holds in every reachable state, whatever the startup mode.        *)
THEOREM HoldInductive == KincoSpec => []HoldInv
BY InitHolds, NextHolds, PTL DEF KincoSpec

(* A step between two states without an owner keeps the target.              *)
LEMMA StepStays ==
  HoldInv /\ [KincoNext]_kincoVars
  => [Unowned /\ Unowned' => frame'.position = frame.position]_kincoVars
<1> SUFFICES ASSUME HoldInv, [KincoNext]_kincoVars, Unowned, Unowned'
             PROVE  frame'.position = frame.position
  OBVIOUS
<1>1. CASE KincoSend
  <2> DEFINE u == Sent(Start(Now), Now)
  <2>1. /\ slave' = [u.slave EXCEPT !.pc = "read"] /\ frame' = u.frame /\ SendResult(Now, u)
    BY <1>1, SendStep
  <2> HIDE DEF u
  <2>2. DOMAIN u.slave = SlaveFields
    BY <2>1 DEF SendResult, Shaped
  <2>3. slave'.owned = u.slave.owned /\ slave'.inFlight = u.slave.inFlight
    BY <2>1, <2>2 DEF SlaveFields
  <2>4. slave.seedSent /\ frame'.position = slave.hold
    BY <2>1, <2>3, NowFields DEF SendResult, FrameStays, Unowned
  <2> QED BY <2>4 DEF HoldInv, TargetIsHold, Unowned
<1>2. CASE UNCHANGED frame
  BY <1>2
<1> QED BY <1>1, <1>2
      DEF KincoNext, KincoRead, KincoWrite, MotorStep, KincoOperational, kincoVars

(* UnownedStays: lost frames, an invalid mode command, an error and the      *)
(* jitter of the measurement never move an enabled drive in CSP that no      *)
(* controller owns.                                                          *)
THEOREM UnownedDriveStays == KincoSpec => UnownedStays
BY HoldInductive, StepStays, PTL DEF KincoSpec, UnownedStays

(* A handoff to CSV ends with an error, a lost seed, the drive disabled, or  *)
(* a sent frame of zero velocity in CSV after which nothing is followed that *)
(* was written before: the interface is empty, and what the next update      *)
(* writes is quarantined.                                                    *)
HandoffDiscards ==
    [][ slave.inFlight /\ slave.target = CSV /\ ~slave'.inFlight =>
            \/ slave'.error \/ ~slave'.seedSent \/ ~slave'.enabled
            \/ /\ slave.mode = CSV /\ frame'.mode = CSV /\ frame'.velocity = 0
               /\ cmd'.velocity = Undefined /\ slave'.quarantine /\ slave'.needFresh
      ]_kincoVars

LEMMA StepDiscards ==
  ASSUME HoldInv, [KincoNext]_kincoVars,
         slave.inFlight, slave.target = CSV, ~slave'.inFlight
  PROVE  \/ slave'.error \/ ~slave'.seedSent \/ ~slave'.enabled
         \/ /\ slave.mode = CSV /\ frame'.mode = CSV /\ frame'.velocity = 0
            /\ cmd'.velocity = Undefined /\ slave'.quarantine /\ slave'.needFresh
<1>1. CASE KincoSend
  <2> DEFINE u == Sent(Start(Now), Now)
  <2>1. /\ slave' = [u.slave EXCEPT !.pc = "read"] /\ frame' = u.frame /\ cmd' = u.cmd
        /\ SendResult(Now, u)
    BY <1>1, SendStep
  <2> HIDE DEF u
  <2>2. DOMAIN u.slave = SlaveFields
    BY <2>1 DEF SendResult, Shaped
  <2>3. /\ slave'.inFlight = u.slave.inFlight /\ slave'.error = u.slave.error
        /\ slave'.seedSent = u.slave.seedSent /\ slave'.enabled = u.slave.enabled
        /\ slave'.quarantine = u.slave.quarantine /\ slave'.needFresh = u.slave.needFresh
    BY <2>1, <2>2 DEF SlaveFields
  <2> QED BY <2>1, <2>3, NowFields DEF SendResult, EndsAtZero
<1>2. ASSUME NEW got, KincoRead(got) PROVE ~slave'.seedSent
  BY <1>2, ReadStep DEF ReadResult, HoldInv
<1>3. ASSUME NEW operational \in BOOLEAN, KincoOperational(operational) PROVE ~slave'.seedSent
  <2>1. slave' # [slave EXCEPT !.operational = TRUE]
    <3>1. DOMAIN slave = SlaveFields
      BY NowFields DEF HoldInv, Shaped
    <3> QED BY <3>1 DEF SlaveFields
  <2> QED BY <1>3, <2>1, OperationalStep DEF HoldInv
<1>4. slave' # slave
  OBVIOUS
<1> QED BY <1>1, <1>2, <1>3, <1>4 DEF KincoNext, KincoWrite, MotorStep, kincoVars

(* HandoffDiscards, whatever the startup mode and the writes of the clients  *)
(* (onPdoCycleStart, onPdoCycleSent).                                        *)
THEOREM HandoffsDiscard == KincoSpec => HandoffDiscards
<1>1. HoldInv /\ [KincoNext]_kincoVars =>
        [slave.inFlight /\ slave.target = CSV /\ ~slave'.inFlight =>
            \/ slave'.error \/ ~slave'.seedSent \/ ~slave'.enabled
            \/ /\ slave.mode = CSV /\ frame'.mode = CSV /\ frame'.velocity = 0
               /\ cmd'.velocity = Undefined /\ slave'.quarantine /\ slave'.needFresh
        ]_kincoVars
  BY StepDiscards
<1> QED BY <1>1, HoldInductive, PTL DEF KincoSpec, HandoffDiscards

(* SpeedInv holds in every reachable state: FromCsp of a drive that starts   *)
(* in CSP, CsvRun of one that starts in CSV.                                 *)
THEOREM SpeedInductive == KincoSpec => []SpeedInv
BY HoldInductive, InitSpeed, NextSpeed, PTL DEF KincoSpec

(* SpeedIsInformed, for both startup modes: no velocity that was written in  *)
(* CSP or during the request is sent in the run of CSV the request begins    *)
(* (onPdoCycleStart, onPdoCycleSent, clear_handoff).                         *)
THEOREM NoBlindSpeedSent == KincoSpec => []SpeedIsInformed
<1>1. SpeedInv => SpeedIsInformed
  BY KincoAssumption, NowFields
        DEF SpeedInv, FromCsp, CsvRun, NotSent, Uninformed, SpeedIsInformed
<1> QED BY <1>1, SpeedInductive, PTL
=============================================================================
