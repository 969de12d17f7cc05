--------------------------- MODULE RollingSession ----------------------------
(***************************************************************************)
(* The callbacks of the rolling trajectory controller: a batch is admitted *)
(* while the realtime thread keeps moving, a session is started by the     *)
(* first batch, the lifecycle runs in the realtime thread between updates  *)
(* (the controller manager switches controllers there).                    *)
(***************************************************************************)
EXTENDS RollingTrajectory

(* A client's next batch is one of its plans; a batch may also be repeated *)
(* or come from an earlier activation.                                     *)
Messages ==
    LET m(e, s, p) == [epoch |-> e, seq |-> s, from |-> now + p.delay, length |-> p.length,
                       v |-> p.v, final |-> p.final, match |-> p.match]
        next == nr.sequence + 1
    IN  {m(nr.activation, next, p) : p \in plans[nr.activation][next]}
        \cup {m(nr.activation, nr.sequence, p) : p \in plans[nr.activation][next]}
        \cup {m(nr.activation - 1, next, p) : p \in plans[nr.activation][next]}

\* publicResult
Results == {"ACCEPTED", "WRONG_EPOCH", "STALE_SEQUENCE", "INVALID_BATCH", "LATE_REPLACE",
            "SPLICE_MISMATCH", "LIMIT_EXCEEDED", "NOT_STOPPABLE", "HORIZON_EXCEEDED",
            "NOT_ACCEPTING", "FINAL_NOT_AT_REST"}

\* A batch that admission takes apart, in the session's own time.
BatchOf(m, offset) ==
    [from |-> offset, end |-> offset + m.length, by |-> <<nr.activation, m.seq>>,
     v |-> m.v, final |-> m.final, match |-> m.match]

\* The session a batch belongs to is the running one, or the one that waits
\* for its start with an accepted batch.
InSession == \/ sh.state = "running"
             \/ sh.state = "priming" /\ nr.image.points # <<>>

\* Bound: batches that keep the gate may delay a start by Patience cycles.
Overdue == InSession /\ sh.execution = 0 /\ now >= sh.prime + Patience

(* handleBatch takes the handoff gate, then waits for callback_mutex_.     *)
ReceiveBatch ==
    /\ cb.pc = "idle" /\ ~sh.gate /\ ~Overdue /\ nr.activation > 0
    /\ nr.sequence < Len(plans[nr.activation])
    /\ cb' = [Quiet EXCEPT !.pc = "lock"]
    /\ sh' = [sh EXCEPT !.gate = TRUE]
    /\ UNCHANGED <<now, rt, ex, nr>>

\* The callback returns; `result` is what the state topic reports for it.
Finish(n, s, result) ==
    /\ result \in Results
    /\ nr' = n
    /\ sh' = [s EXCEPT !.gate = FALSE]
    /\ cb' = Quiet

(* admitBatch up to the choice between the session and a new one.          *)
AdmitBatch(m) ==
    LET n == [nr EXCEPT !.sequence = m.seq]
        Go(pc, offset) == /\ cb' = [cb EXCEPT !.pc = pc, !.msg = m, !.offset = offset]
                          /\ nr' = n
                          /\ UNCHANGED sh
    IN  /\ cb.pc = "lock"
        /\ IF ~sh.active
           THEN cb' = Quiet /\ sh' = [sh EXCEPT !.gate = FALSE] /\ UNCHANGED nr
           ELSE IF m.epoch # nr.activation THEN Finish(nr, sh, "WRONG_EPOCH")
           ELSE IF m.seq <= nr.sequence THEN Finish(nr, sh, "STALE_SEQUENCE")
           ELSE IF m.from - now < Lead THEN Finish(n, sh, "LATE_REPLACE")
           ELSE IF InSession
                THEN IF m.from < nr.origin THEN Finish(n, sh, "LATE_REPLACE")
                     ELSE Go("prepare", m.from - nr.origin)
           ELSE IF sh.state \in {"stopping", "terminated"}
                THEN Finish(n, sh, "NOT_ACCEPTING")
           ELSE IF m.from - now > MaxHorizon THEN Finish(n, sh, "HORIZON_EXCEEDED")
           ELSE Go("start", 0)
        /\ UNCHANGED <<now, rt, ex>>

\* Mutant: a rejected first batch forgets why the last trajectory stopped.
StartSessionForgets ==
    /\ cb.pc = "start"
    /\ sh.epoch # MaxCount /\ ex.sequence # MaxCount
    /\ nr' = [nr EXCEPT !.image = EmptyImage,
                        !.anchor = [t |-> 0, by |-> <<nr.activation, 0>>,
                                    pos |-> sh.desired.pos, v |-> 0],
                        !.previous = sh.reason,
                        !.origin = cb.msg.from]
    /\ sh' = [sh EXCEPT !.execution = 0, !.generation = 0, !.until = 0, !.replaceable = 0,
                        !.prime = cb.msg.from, !.floor = ex.sequence + 1,
                        !.reason = "none", !.stopRequested = FALSE, !.epoch = sh.epoch + 1]
    /\ cb' = [cb EXCEPT !.pc = "prime"]
    /\ UNCHANGED <<now, rt, ex>>

(* startSession: stale feedback, a drifted arm, an exhausted counter or an *)
(* anchor outside the limits (LIMIT_EXCEEDED: buffer_.reset checks it      *)
(* before it changes anything) refuse it, with no other effect than the    *)
(* answer; else the buffer is anchored at the published command ...        *)
RefuseSession ==
    /\ cb.pc = "start"
    /\ Finish(nr, sh, "NOT_ACCEPTING")
    /\ UNCHANGED <<now, rt, ex>>

StartSession ==
    /\ cb.pc = "start"
    /\ sh.epoch # MaxCount /\ ex.sequence # MaxCount
    /\ nr' = [nr EXCEPT !.image = EmptyImage,
                        !.anchor = [t |-> 0, by |-> <<nr.activation, 0>>,
                                    pos |-> sh.desired.pos, v |-> 0],
                        !.previous = IF sh.reason = "none" THEN nr.previous
                                     ELSE sh.reason,
                        !.origin = cb.msg.from]
    /\ sh' = [sh EXCEPT !.execution = 0, !.generation = 0, !.until = 0, !.replaceable = 0,
                        !.prime = cb.msg.from, !.floor = ex.sequence + 1,
                        !.reason = "none", !.stopRequested = FALSE, !.epoch = sh.epoch + 1]
    /\ cb' = [cb EXCEPT !.pc = "prime"]
    /\ UNCHANGED <<now, rt, ex>>

(* ... its epoch is published, and then its state.                         *)
StartPriming ==
    /\ cb.pc = "prime"
    /\ sh' = [sh EXCEPT !.state = "priming"]
    /\ cb' = [cb EXCEPT !.pc = "prepare"]
    /\ UNCHANGED <<now, rt, ex, nr>>

(* buildAdmissionContext: a session that waits for its start has an empty  *)
(* context; a running one is read through the seqlock, between two updates *)
(* and never inside one.                                                   *)
PrimingContext == sh.state = "priming" /\ sh.generation = 0

ContextReadable == \/ PrimingContext
                   \/ /\ rt.pc = "idle" /\ sh.state = "running"
                      /\ sh.viewEpoch = sh.epoch

Context ==
    IF PrimingContext
    THEN [priming |-> TRUE, execution |-> 0, replaceable |-> 0, minimum |-> 0,
          generation |-> 0]
    ELSE [priming |-> FALSE, execution |-> sh.execution, replaceable |-> sh.replaceable,
          minimum |-> StopDuration(sh.desired) + Guard, generation |-> sh.generation]

(* The reader gives up after eight reads, or the session is not running.   *)
ContextFails ==
    /\ cb.pc \in {"prepare", "commit"}
    /\ ~ContextReadable
    /\ Finish(nr, sh, "NOT_ACCEPTING")
    /\ UNCHANGED <<now, rt, ex>>

PrepareBatch ==
    LET p == Prepare(nr.image, nr.anchor, BatchOf(cb.msg, cb.offset), Context)
    IN  /\ cb.pc = "prepare" /\ ContextReadable
        /\ IF p.code = "ACCEPTED"
           THEN /\ cb' = [cb EXCEPT !.pc = "commit", !.candidate = p.image]
                /\ UNCHANGED <<nr, sh>>
           ELSE Finish(nr, sh, p.code)
        /\ UNCHANGED <<now, rt, ex>>

\* The context is read again: the boundary moved while the batch was checked.
CommitBatch ==
    LET code == CommitCode(cb.candidate, Context)
    IN  /\ cb.pc = "commit" /\ ContextReadable
        /\ IF code # "ACCEPTED" THEN Finish(nr, sh, code)
           ELSE /\ nr' = [nr EXCEPT !.image = cb.candidate]
                /\ cb' = [cb EXCEPT !.pc = "publish"]
                /\ UNCHANGED sh
        /\ UNCHANGED <<now, rt, ex>>

(* The accepted image is published; an exhausted counter stops the         *)
(* session instead.                                                        *)
PublishBatch ==
    /\ cb.pc = "publish"
    /\ IF ex.sequence = MaxCount
       THEN /\ Finish(nr, [sh EXCEPT !.reason = Reason(sh.reason, "internal"),
                                     !.stopRequested = TRUE], "NOT_ACCEPTING")
            /\ UNCHANGED ex
       ELSE /\ ex' = Publish(ex, sh.epoch, nr.image, now)
            /\ Finish(nr, sh, "ACCEPTED")
    /\ UNCHANGED <<now, rt>>

-----------------------------------------------------------------------------
(* Lifecycle.  callback_mutex_ is held from AdmitBatch on.                 *)

MutexFree == cb.pc \in {"idle", "lock"}

(* on_activate: takes the command over and forgets every session; the gate *)
(* is cleared even while a callback that waits for the mutex holds it.     *)
(* Only differences of times are used: the clock counts from here on.      *)
OnActivate ==
    LET a == nr.activation + 1
    IN  /\ ~sh.active /\ rt.pc = "idle" /\ MutexFree
        /\ nr.activation < Len(plans)
        /\ nr' = [nr EXCEPT !.image = EmptyImage, !.activation = a, !.sequence = 0,
                            !.previous = "none", !.origin = 0,
                            !.anchor = [t |-> 0, by |-> <<0, 0>>, pos |-> Source(0), v |-> 0]]
        /\ rt' = [rt EXCEPT !.active = NoSlot, !.desired = At(Source(a), 0), !.stop = Idle,
                            !.epoch = 0, !.floor = 1, !.consumed = 0, !.arrival = 0,
                            !.last = 0]
        /\ sh' = [active |-> TRUE, state |-> "none", reason |-> "none",
                  stopRequested |-> FALSE, execution |-> 0, generation |-> 0, until |-> 0,
                  replaceable |-> 0, prime |-> 0, epoch |-> 0, floor |-> 1, viewEpoch |-> 0,
                  desired |-> At(Source(a), 0), gate |-> FALSE]
        /\ now' = 0
        /\ UNCHANGED <<ex, cb>>

OnDeactivate ==
    /\ sh.active /\ rt.pc = "idle" /\ MutexFree
    /\ nr.activation < Len(plans)
    /\ nr' = [nr EXCEPT !.image = EmptyImage]
    /\ sh' = [sh EXCEPT !.active = FALSE, !.stopRequested = FALSE, !.reason = "deactivated",
                        !.state = "terminated", !.epoch = sh.epoch + 1, !.viewEpoch = sh.epoch + 1]
    /\ UNCHANGED <<now, rt, ex, cb>>

(* Time passes while a session or a callback has something to do.  Every   *)
(* cycle has its update; a callback may take until Patience cycles after   *)
(* the start it was sent for.  No session lives to see MaxTime.            *)
Tick ==
    /\ sh.active /\ rt.pc = "idle" /\ now = rt.last /\ now < MaxTime
    /\ \/ sh.state = "stopping"
       \/ sh.state = "running" /\ sh.execution > 0
       \/ InSession /\ (cb.pc # "idle" => ~Overdue)
       \/ sh.state = "priming" /\ now < sh.prime
       \/ cb.pc \notin {"idle", "lock"} /\ now < cb.msg.from + Patience
    /\ now' = now + 1
    /\ UNCHANGED <<rt, sh, ex, nr, cb>>

RealTime == \/ UpdateEpoch \/ UpdateEpochAgain \/ UpdateRetry \/ UpdatePriming \/ UpdateRunning
            \/ (\E p \in Periods : UpdateStopping(p)) \/ UpdateHolding \/ UpdateWrite

Callback == \/ cb.pc = "lock" /\ \E m \in Messages : AdmitBatch(m)
            \/ StartSession \/ RefuseSession \/ StartPriming
            \/ ContextFails \/ PrepareBatch \/ CommitBatch \/ PublishBatch

RollingNext == /\ \/ RealTime \/ Callback \/ Tick \/ OnActivate \/ OnDeactivate
                  \/ ReceiveBatch
               /\ UNCHANGED plans

RollingSpec == /\ RollingInit /\ [][RollingNext]_rollingVars
               /\ WF_<<now, rt, sh, ex>>(RealTime)
               /\ WF_<<cb>>(Callback) /\ WF_now(Tick)

-----------------------------------------------------------------------------
(* What the state topic reports (buildPublicState, under callback_mutex_). *)

TrajectoryPending == sh.state = "priming" /\ nr.image.points = <<>>

PublicState ==
    IF TrajectoryPending \/ sh.state \in {"none", "holding", "terminated"} THEN "HOLDING"
    ELSE IF sh.state = "priming" THEN "STARTING"
    ELSE IF sh.state = "running" THEN "RUNNING"
    ELSE "STOPPING"

PublicStopReason(reason) == IF reason = "clock" THEN "internal" ELSE reason

PublicReason == IF TrajectoryPending THEN nr.previous ELSE PublicStopReason(sh.reason)

-----------------------------------------------------------------------------
(* Properties.                                                             *)

(* A running session follows an image of its own activation and epoch, the *)
(* one it accepted: whatever the callback publishes, abandons or publishes *)
(* over, and whichever snapshots earlier sessions left in the exchange,    *)
(* the producer never owns the slot that the update samples                *)
(* (rolling_trajectory_controller.cpp, consumeLatestRtTrajectory, and the  *)
(* ownership rule stated in rolling_snapshot.hpp).                         *)
FollowsItsSession ==
    sh.active /\ sh.state = "running" /\ Coherent =>
        /\ rt.active = ex.reading
        /\ rt.active \notin {ex.writing, ex.middle}
        /\ LET s == ex.slots[rt.active]
           IN  /\ s.epoch = rt.epoch
               /\ s.sequence = rt.consumed
               /\ s.image.generation = sh.generation
               /\ \A i \in DOMAIN s.image.points : s.image.points[i].by[1] = nr.activation

(* A replacement the update takes up changes nothing up to the boundary    *)
(* that was promised as fixed, whether it was committed before the         *)
(* boundary moved, published after it moved, or published over another     *)
(* batch the update never saw (earliest_changed_ns of rolling_buffer.cpp). *)
LeadIsFixed ==
    [][ /\ sh.state = "running" /\ sh'.state = "running"
        /\ sh.generation > 0 /\ sh'.generation # sh.generation
        => \A t \in sh.execution .. (IF sh.execution = 0 THEN 0 ELSE sh.replaceable) :
               Covers(ActiveImage, t) =>
                   Sample(ActiveImage, t).pos = Sample(ActiveImage', t).pos ]_rollingVars

(* When the state topic says HOLDING the command is at rest, and if the    *)
(* arm has moved in this activation the topic also says why it stopped -   *)
(* after any number of rejected first batches too, which open a session    *)
(* and never start it (buildPublicState, startSession).                    *)
HoldingTellsWhy ==
    sh.active /\ rt.pc = "idle" /\ MutexFree /\ PublicState = "HOLDING" =>
        /\ sh.desired.v = 0
        /\ sh.desired.pos # Source(nr.activation) => PublicReason # "none"

(* A client that falls silent, sends late, or finishes cannot leave the    *)
(* arm in motion: every running or stopping session comes to hold, or is   *)
(* ended by the deactivation (update timeout, low water, final batch).     *)
SessionsEnd ==
    sh.state \in {"running", "stopping"} ~> sh.state \in {"none", "holding", "terminated"}

=============================================================================
