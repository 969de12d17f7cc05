---------------------------- MODULE RollingBuffer ----------------------------
(***************************************************************************)
(* The rolling joint trajectory of ctrl_rolling_trajectory as a sequence   *)
(* of knots, and the checks RollingBuffer makes before a batch replaces    *)
(* the rest of it (rolling_buffer.cpp, session_core.cpp).                  *)
(*                                                                         *)
(* Time is counted in controller cycles.  A position is a name: the batch  *)
(* that drew the curve and the time on it, so that two samples are equal   *)
(* exactly when the arm is at the same place of the same curve.  A         *)
(* velocity is the number of cycles a brake from it takes; one cycle of    *)
(* acceleration adds at most one, because the brake decelerates at the     *)
(* acceleration limit.                                                     *)
(***************************************************************************)
EXTENDS Integers, Sequences, FiniteSetsExt, SequencesExt

CONSTANTS Capacity,     \* buffer_capacity, in knots
          MaxHorizon,   \* max_horizon_ns
          Lead,         \* replace_lead_ns
          Guard,        \* the sum of the four scheduling guards
          MaxSpeed,     \* the velocity limit, as a braking time
          MaxCount      \* the largest value of a 64 bit counter

ASSUME BufferAssumption ==
    /\ {Capacity, MaxHorizon, Lead, Guard, MaxSpeed, MaxCount} \subseteq Nat
    /\ Capacity >= 2 /\ Lead > 0 /\ Lead <= MaxHorizon /\ MaxHorizon > 0

\* TrajectoryImage{}: no points, generation 0.
EmptyImage == [points |-> <<>>, generation |-> 0, earliest |-> 0, final |-> FALSE]

FirstTime(image) == image.points[1].t
LastTime(image) == Last(image.points).t

(* The image is defined at time t and its knots there.                     *)
Covers(image, t) == /\ image.points # <<>>
                    /\ FirstTime(image) <= t
                    /\ t <= LastTime(image)

\* The last knot at or before t (the cursor of sampleTrajectoryImageMonotonic);
\* the times of the knots ascend, so that it is as far on as there are such knots.
KnotAt(image, t) == Cardinality({i \in 1 .. Len(image.points) : image.points[i].t <= t})

(* The point of the image at t: the knot itself, or a point of the curve   *)
(* that leaves the knot before t.  The curve accelerates from one knot,    *)
(* brakes towards the next and never exceeds the limit; a curve cut at one *)
(* of its own points is the same curve.                                    *)
Sample(image, t) ==
    LET k == KnotAt(image, t)
        a == image.points[k]
        b == image.points[k + 1]
    IN  IF a.t = t THEN a
        ELSE [t |-> t, by |-> a.by, pos |-> <<a.by, t>>,
              v |-> Min({a.v + (t - a.t), b.v + (b.t - t), MaxSpeed})]

\* A batch whose points reach the end speed within the acceleration limit.
WithinLimits(a, b) == /\ a.v - b.v <= b.t - a.t
                      /\ b.v - a.v <= b.t - a.t
                      /\ b.v <= MaxSpeed

(* RollingBuffer::validateHorizon: the candidate covers the executing time *)
(* and reaches neither too near nor too far beyond it.                     *)
ValidateHorizon(candidate, context) ==
    LET horizon == LastTime(candidate) - context.execution
    IN  IF ~Covers(candidate, context.execution) THEN "INVALID_BATCH"
        ELSE IF ~context.priming /\ horizon <= context.minimum THEN "HORIZON_EXCEEDED"
        ELSE IF horizon > MaxHorizon THEN "HORIZON_EXCEEDED"
        ELSE "ACCEPTED"

(* The image a batch makes of the current one: the knots between the       *)
(* executing time and the splice stay, the splice is the point the image   *)
(* itself has there, and one curve leads from it to the batch's end.       *)
Spliced(image, anchor, batch, context, earliest) ==
    LET first == IF image.points = <<>> THEN anchor ELSE Sample(image, batch.from)
        start == IF image.points = <<>> THEN 1 ELSE KnotAt(image, context.execution)
        count == Cardinality({i \in start .. Len(image.points) :
                                image.points[i].t < batch.from})
        kept  == SubSeq(image.points, start, start + count - 1)
        end   == [t |-> batch.end, by |-> batch.by, pos |-> <<batch.by, batch.end>>,
                  v |-> batch.v]
    IN  [points |-> kept \o <<[first EXCEPT !.by = batch.by], end>>,
         generation |-> image.generation + 1,
         earliest |-> earliest,
         final |-> batch.final]

\* Mutant: a change that the update has not seen yet is forgotten.
SpliceOverUnseen(image, anchor, batch, context) ==
    Spliced(image, anchor, batch, context, batch.from)

(* The earliest change the update has not seen: that of the batch, or that *)
(* of an image published before it and not taken up.                       *)
Splice(image, anchor, batch, context) ==
    Spliced(image, anchor, batch, context,
            IF image.generation > context.generation
            THEN Min({image.earliest, batch.from}) ELSE batch.from)

(* RollingBuffer::prepare with validateInput: the result the client gets   *)
(* and the candidate image.                                                *)
Prepare(image, anchor, batch, context) ==
    LET candidate == Splice(image, anchor, batch, context)
        last      == Len(candidate.points)
        code ==
            IF batch.end <= batch.from THEN "INVALID_BATCH"
            ELSE IF batch.final /\ batch.v # 0 THEN "FINAL_NOT_AT_REST"
            ELSE IF image.generation = MaxCount THEN "NOT_ACCEPTING"
            ELSE IF image.points = <<>> /\ batch.from # 0 THEN "INVALID_BATCH"
            ELSE IF image.points = <<>> /\ context.execution # 0 THEN "LATE_REPLACE"
            ELSE IF image.points # <<>> /\ batch.from < context.replaceable
                 THEN "LATE_REPLACE"
            ELSE IF image.points # <<>> /\ ~( /\ Covers(image, context.execution)
                                             /\ Covers(image, batch.from))
                 THEN "INVALID_BATCH"
            ELSE IF ~batch.match THEN "SPLICE_MISMATCH"
            ELSE IF last > Capacity THEN "HORIZON_EXCEEDED"
            ELSE IF ValidateHorizon(candidate, context) # "ACCEPTED"
                 THEN ValidateHorizon(candidate, context)
            ELSE IF ~WithinLimits(candidate.points[last - 1], candidate.points[last])
                 THEN "LIMIT_EXCEEDED"
            ELSE "ACCEPTED"
    IN  [code |-> code, image |-> IF code = "ACCEPTED" THEN candidate ELSE EmptyImage]

(* RollingBuffer::commit: the boundary may have moved during validation.   *)
CommitCode(candidate, context) ==
    IF candidate.earliest < context.replaceable THEN "LATE_REPLACE"
    ELSE ValidateHorizon(candidate, context)

(* hasSufficientStoppingHorizon.                                           *)
SufficientHorizon(execution, bufferedUntil, stopDuration) ==
    /\ bufferedUntil >= execution
    /\ bufferedUntil - execution > stopDuration + Guard

=============================================================================
