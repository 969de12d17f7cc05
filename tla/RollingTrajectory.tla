-------------------------- MODULE RollingTrajectory --------------------------
(***************************************************************************)
(* The rolling trajectory controller (ctrl_rolling_trajectory).  Two       *)
(* threads share a session: the realtime update follows a trajectory image *)
(* that it may never copy nor lock, and the batch callback prepares the    *)
(* next image and publishes it through a triple buffer.                    *)
(*                                                                         *)
(*   sh   the atomics both threads use                                     *)
(*   rt   what only the realtime thread uses (rt_..._), and its position   *)
(*        in update()                                                      *)
(*   ex   the snapshot exchange: three slots and who owns which            *)
(*   nr   what callback_mutex_ guards                                      *)
(*   cb   the batch callback in progress                                   *)
(*   now  the clock, in nominal controller periods                         *)
(*   plans  what the client of this behaviour may send                     *)
(***************************************************************************)
EXTENDS RollingBuffer

CONSTANTS UpdateTimeout,   \* update_timeout_ns
          MaxPeriod,       \* maximum_controller_period_ns
          Scenarios,       \* bound: what the n-th batch of each activation may be
          Glitches,        \* bound: wrong measurements of the controller period
          Patience,        \* bound: cycles a callback may delay a start
          MaxTime          \* bound: cycles of an activation

ASSUME RollingAssumption ==
    /\ {UpdateTimeout, MaxPeriod, Patience, MaxTime} \subseteq Nat
    /\ MaxPeriod >= 1 /\ UpdateTimeout >= MaxPeriod
    /\ Glitches \subseteq Int
    /\ Scenarios \subseteq Seq(Seq(SUBSET [delay : Nat, length : Nat, v : Nat,
                                           final : BOOLEAN, match : BOOLEAN]))
    /\ \A s \in Scenarios : \A a \in DOMAIN s : s[a] # <<>>

VARIABLES now, rt, sh, ex, nr, cb, plans

rollingVars == <<now, rt, sh, ex, nr, cb, plans>>

NominalPeriod == 1
Attempts == 3            \* kMaximumEpochReadAttempts
NoSlot == 3              \* rt_active_trajectory_ = nullptr
Idle == [phase |-> "idle", elapsed |-> 0, duration |-> 0, from |-> [pos |-> <<>>, v |-> 0]]
Quiet == [pc |-> "idle", msg |-> <<>>, offset |-> 0, candidate |-> EmptyImage]
At(pos, v) == [pos |-> pos, v |-> v]
Source(activation) == << <<activation, 0>>, 0 >>

EmptySnapshot == [epoch |-> 0, image |-> EmptyImage, arrival |-> 0, sequence |-> 0]

RollingInit ==
    /\ plans \in Scenarios
    /\ now = 0
    /\ rt = [pc |-> "idle", attempt |-> 1, epoch |-> 0,
             active |-> NoSlot, desired |-> At(Source(0), 0), floor |-> 1, consumed |-> 0,
             arrival |-> 0, stop |-> Idle, last |-> 0]
    /\ sh = [active |-> FALSE, state |-> "none", reason |-> "none", stopRequested |-> FALSE,
             execution |-> 0, generation |-> 0, until |-> 0, replaceable |-> 0, prime |-> 0,
             epoch |-> 0, floor |-> 1, viewEpoch |-> 0, desired |-> At(Source(0), 0),
             gate |-> FALSE]
    /\ ex = [slots |-> [s \in 0 .. 2 |-> EmptySnapshot], middle |-> 1, dirty |-> FALSE,
             writing |-> 2, reading |-> 0, sequence |-> 0]
    /\ nr = [image |-> EmptyImage, anchor |-> [t |-> 0, by |-> <<0, 0>>, pos |-> Source(0), v |-> 0],
             activation |-> 0, sequence |-> 0, origin |-> 0, previous |-> "none"]

    /\ cb = Quiet

-----------------------------------------------------------------------------
(* Snapshot exchange: each side owns a slot, the middle one is published.  *)

Acquire(x) == [x EXCEPT !.reading = x.middle, !.middle = x.reading, !.dirty = FALSE]

(* publish() fills the producer's own slot and exchanges it for the        *)
(* published one.  What the producer owns it may overwrite at any time, so *)
(* the slot it takes back is emptied at once.                              *)
Publish(x, epoch, image, arrival) ==
    LET filled == [epoch |-> epoch, image |-> image, arrival |-> arrival,
                   sequence |-> x.sequence + 1]
    IN  [x EXCEPT !.slots = [x.slots EXCEPT ![x.writing] = filled, ![x.middle] = EmptySnapshot],
                  !.middle = x.writing, !.writing = x.middle, !.dirty = TRUE,
                  !.sequence = x.sequence + 1]

-----------------------------------------------------------------------------
(* Realtime thread.  An update is: read a coherent epoch and state, the    *)
(* work of the state, write the command.  The seqlock version is odd from  *)
(* the first step to the last.                                             *)

ActiveImage == ex.slots[rt.active].image
ValidPeriod(p) == p > 0 /\ p <= MaxPeriod

\* Mutant: the new session keeps the publications of the last one.
ResetRtEpochWithoutFloor(r) ==
    /\ rt' = [r EXCEPT !.pc = "state", !.epoch = sh.epoch, !.active = NoSlot,
                       !.desired = At(sh.desired.pos, 0), !.stop = Idle, !.arrival = 0]
    /\ sh' = [sh EXCEPT !.execution = 0, !.generation = 0, !.until = 0, !.replaceable = 0]

(* resetRtEpoch: a new session starts from the last published command.     *)
ResetRtEpoch(r) ==
    /\ rt' = [r EXCEPT !.pc = "state", !.epoch = sh.epoch,
                       !.active = NoSlot, !.desired = At(sh.desired.pos, 0), !.stop = Idle,
                       !.floor = sh.floor, !.consumed = sh.floor - 1, !.arrival = 0]
    /\ sh' = [sh EXCEPT !.execution = 0, !.generation = 0, !.until = 0, !.replaceable = 0]

ReadEpoch(r) ==
    /\ IF sh.epoch # r.epoch THEN ResetRtEpoch(r)
       ELSE rt' = [r EXCEPT !.pc = "state"] /\ UNCHANGED sh
    /\ UNCHANGED <<now, ex, nr, cb>>

(* update() begins once per period; `time` is rt.last.  A new epoch resets *)
(* the realtime side before the state is read.                             *)
UpdateEpoch == /\ rt.pc = "idle" /\ sh.active /\ now > rt.last
               /\ ReadEpoch([rt EXCEPT !.last = now])

UpdateEpochAgain == rt.pc = "epoch" /\ ReadEpoch(rt)

\* `period`: what the controller manager's clock says an update is apart
\* from the last one; it is only read while the arm moves.
Periods == {NominalPeriod} \cup Glitches

(* The second read of the epoch: the state belongs to it, or the read is   *)
(* repeated, or the update only holds.                                     *)
Coherent == sh.epoch = rt.epoch

UpdateRetry ==
    /\ rt.pc = "state" /\ ~Coherent
    /\ rt' = IF rt.attempt < Attempts THEN [rt EXCEPT !.pc = "epoch", !.attempt = rt.attempt + 1]
             ELSE [rt EXCEPT !.pc = "write"]
    /\ UNCHANGED <<now, sh, ex, nr, cb>>

InState(states) == rt.pc = "state" /\ Coherent /\ sh.state \in states

\* compare_exchange of stop_reason_: the first reason stays.
Reason(old, reason) == IF old = "none" THEN reason ELSE old

(* How long the slowest axis needs to brake (calculateStopDurationNs).     *)
StopDuration(point) == point.v

(* StopTrajectory::begin: all axes brake together; one at rest holds.      *)
StopFrom(point) ==
    [phase |-> IF StopDuration(point) = 0 THEN "holding" ELSE "stopping", elapsed |-> 0,
     duration |-> StopDuration(point), from |-> point]

(* StopTrajectory::sample: the brake has its own curve from where it began *)
(* and ends at rest.                                                       *)
BrakedAt(stop, elapsed) ==
    At(Append(stop.from.pos, Min({elapsed, stop.duration})),
       Max({StopDuration(stop.from) - elapsed, 0}))

(* beginRtStop: brake from the desired point.                              *)
BeginRtStop(x, r, s, reason) ==
    LET stop == StopFrom(r.desired)
    IN  /\ ex' = x
        /\ rt' = [r EXCEPT !.pc = "write", !.stop = stop]
        /\ sh' = [s EXCEPT !.reason = Reason(s.reason, reason), !.stopRequested = FALSE,
                           !.state = stop.phase]

(* consumeLatestRtTrajectory, when a snapshot is published that is neither *)
(* older than this session nor consumed before.                            *)
Latest == ex.slots[ex.middle]
Fresh == /\ ex.dirty
         /\ Latest.sequence >= rt.floor
         /\ Latest.sequence > rt.consumed

Acceptable(priming) ==
    /\ Latest.epoch = rt.epoch
    /\ Latest.image.generation > sh.generation
    /\ IF priming THEN sh.execution = 0 /\ FirstTime(Latest.image) = 0
       ELSE /\ Covers(Latest.image, sh.execution)
            /\ \/ Latest.image.earliest >= sh.replaceable
               \/ sh.execution = 0 /\ Latest.image.earliest = 0

(* The exchange, the realtime and the shared state after the call.         *)
ConsumedX == IF ex.dirty THEN Acquire(ex) ELSE ex

ConsumedRt ==
    IF ~Fresh THEN rt
    ELSE LET p == Sample(Latest.image, sh.execution)
         IN  [rt EXCEPT !.active = ex.middle, !.desired = At(p.pos, p.v),
                        !.consumed = Latest.sequence, !.arrival = Latest.arrival]

ConsumedSh ==
    IF ~Fresh THEN sh
    ELSE [sh EXCEPT !.generation = Latest.image.generation, !.until = LastTime(Latest.image),
                    !.replaceable = sh.execution + Lead, !.state = "running"]

\* The part of update() for a session that waits for its start.
UpdatePriming ==
    /\ InState({"priming"})
    /\ IF sh.stopRequested THEN BeginRtStop(ex, rt, sh, "internal")
       ELSE IF rt.last < sh.prime \/ sh.gate
            THEN rt' = [rt EXCEPT !.pc = "write"] /\ UNCHANGED <<sh, ex>>
       ELSE IF Fresh /\ ~Acceptable(TRUE) THEN BeginRtStop(Acquire(ex), rt, sh, "internal")
       ELSE /\ ex' = ConsumedX
            /\ rt' = [ConsumedRt EXCEPT !.pc = "write"]
            /\ sh' = ConsumedSh
    /\ UNCHANGED <<now, nr, cb>>

\* Mutant: a final trajectory stays at its end and does not complete.
AdvanceToAndWait(x, r, s, t, done) ==
    LET point == Sample(x.slots[r.active].image, t)
    IN  /\ ex' = x
        /\ rt' = [r EXCEPT !.pc = "write", !.desired = At(point.pos, point.v)]
        /\ sh' = [s EXCEPT !.execution = t, !.replaceable = t + Lead]

(* Sampling the active image at t; a final trajectory completes at its     *)
(* end (advanceRtFinal).                                                   *)
AdvanceTo(x, r, s, t, done) ==
    LET point == Sample(x.slots[r.active].image, t)
    IN  /\ ex' = x
        /\ rt' = [r EXCEPT !.pc = "write", !.desired = At(point.pos, point.v)]
        /\ sh' = IF done THEN [s EXCEPT !.execution = t, !.state = "holding",
                                        !.reason = Reason(s.reason, "completed")]
                 ELSE [s EXCEPT !.execution = t, !.replaceable = t + Lead]

\* A running session that took the latest snapshot, if there was a new one.
Follow(x, r, s, period) ==
    LET image == x.slots[r.active].image
        next  == s.execution + period
    IN  IF ~ValidPeriod(period) THEN BeginRtStop(x, r, s, "clock")
        ELSE IF image.final
             THEN AdvanceTo(x, r, s, Min({next, s.until}), next >= s.until)
        ELSE IF now < r.arrival \/ now - r.arrival > UpdateTimeout
             THEN BeginRtStop(x, r, s, "timeout")
        ELSE IF ~SufficientHorizon(s.execution, s.until, StopDuration(r.desired))
             THEN BeginRtStop(x, r, s, "lowWater")
        ELSE IF ~Covers(image, next) THEN BeginRtStop(x, r, s, "internal")
        ELSE AdvanceTo(x, r, s, next, FALSE)

UpdateRunning ==
    /\ InState({"running"})
    /\ IF sh.stopRequested THEN BeginRtStop(ex, rt, sh, "internal")
       ELSE IF sh.execution = 0 /\ sh.gate
            THEN rt' = [rt EXCEPT !.pc = "write"] /\ UNCHANGED <<sh, ex>>
       ELSE IF Fresh /\ ~Acceptable(FALSE) THEN BeginRtStop(Acquire(ex), rt, sh, "internal")
       ELSE \E p \in Periods : Follow(ConsumedX, ConsumedRt, ConsumedSh, p)
    /\ UNCHANGED <<now, nr, cb>>

(* advanceRtStop: follow the brake, then hold.                             *)
UpdateStopping(period) ==
    LET step    == IF sh.reason # "clock" /\ ValidPeriod(period)
                   THEN period ELSE NominalPeriod
        elapsed == rt.stop.elapsed + step
        done    == elapsed >= rt.stop.duration
    IN  /\ InState({"stopping"})
        /\ rt' = [rt EXCEPT !.pc = "write",
                            !.desired = BrakedAt(rt.stop, elapsed),
                            !.stop = [rt.stop EXCEPT !.elapsed = elapsed,
                                        !.phase = IF done THEN "holding" ELSE rt.stop.phase]]
        /\ sh' = [sh EXCEPT !.execution = sh.execution + step,
                            !.state = IF done THEN "holding" ELSE sh.state]
        /\ UNCHANGED <<now, ex, nr, cb>>

UpdateHolding ==
    /\ InState({"none", "holding", "terminated"})
    /\ rt' = [rt EXCEPT !.pc = "write",
                        !.desired = At(rt.desired.pos, IF sh.state = "terminated"
                                                       THEN rt.desired.v ELSE 0)]
    /\ UNCHANGED <<now, sh, ex, nr, cb>>

(* writeRtDesired; the version becomes even again.                         *)
UpdateWrite ==
    /\ rt.pc = "write"
    /\ rt' = [rt EXCEPT !.pc = "idle", !.attempt = 1]
    /\ sh' = [sh EXCEPT !.desired = rt.desired, !.viewEpoch = rt.epoch]
    /\ UNCHANGED <<now, ex, nr, cb>>

=============================================================================
