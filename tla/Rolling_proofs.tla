--------------------------- MODULE Rolling_proofs ----------------------------
(* Theorems about the rolling trajectory controller, for every capacity,    *)
(* horizon, lead, timeout, counter limit, plan of the client and delay of   *)
(* the callback.                                                            *)
EXTENDS RollingSession, FiniteSetTheorems, TLAPS

(* The fields of the records and the numbers that are compared, all that    *)
(* the proofs need of their types.                                          *)
RtFields == {"pc", "attempt", "epoch", "active", "desired", "floor", "consumed", "arrival",
             "stop", "last"}
ShFields == {"active", "state", "reason", "stopRequested", "execution", "generation", "until",
             "replaceable", "prime", "epoch", "floor", "viewEpoch", "desired", "gate"}
ExFields == {"slots", "middle", "dirty", "writing", "reading", "sequence"}
NrFields == {"image", "anchor", "activation", "sequence", "origin", "previous"}
CbFields == {"pc", "msg", "offset", "candidate"}

RtShaped(r) ==
    /\ DOMAIN r = RtFields
    /\ r.epoch \in Nat /\ r.floor \in Nat /\ r.consumed \in Nat

ShShaped(s) ==
    /\ DOMAIN s = ShFields
    /\ s.active \in BOOLEAN
    /\ s.epoch \in Nat /\ s.floor \in Nat /\ s.floor >= 1

(* The three slots of the exchange have one owner each, and none is newer   *)
(* than the last publication.                                               *)
Owned(x) ==
    /\ DOMAIN x = ExFields
    /\ DOMAIN x.slots = 0 .. 2
    /\ x.dirty \in BOOLEAN
    /\ x.sequence \in Nat
    /\ x.reading \in 0 .. 2 /\ x.middle \in 0 .. 2 /\ x.writing \in 0 .. 2
    /\ x.reading # x.middle /\ x.middle # x.writing /\ x.writing # x.reading
    /\ \A i \in 0 .. 2 : x.slots[i].sequence \in 0 .. x.sequence

(* A sequence of knots, each of which was drawn in activation a.            *)
Knots(points) == {points[i] : i \in DOMAIN points}
Drawn(points, a) ==
    /\ points \in Seq(Knots(points))
    /\ \A i \in DOMAIN points : "by" \in DOMAIN points[i] /\ points[i].by[1] = a

Shapes ==
    /\ RtShaped(rt) /\ ShShaped(sh) /\ Owned(ex)
    /\ DOMAIN nr = NrFields /\ "by" \in DOMAIN nr.anchor
    /\ DOMAIN cb = CbFields

(* The realtime thread never sees an epoch before it is published, and it   *)
(* knows the floor of the epoch it is in; a session that runs is in it.     *)
Epochs ==
    /\ rt.epoch <= sh.epoch
    /\ rt.epoch = sh.epoch => rt.floor = sh.floor
    /\ sh.active /\ sh.state = "running" => Coherent
    /\ sh.active /\ sh.state \in {"priming", "running"} => sh.epoch > 0

(* What the callback decided on still holds where it acts on it: a session  *)
(* is only opened while none runs or waits for its start with a batch.      *)
CallbackHolds ==
    /\ cb.pc \notin {"idle", "lock"} => sh.active
    /\ cb.pc \in {"start", "prime"} => ~InSession
    /\ cb.pc = "prime" => sh.epoch > 0 /\ nr.image.points = <<>>
    /\ cb.pc = "commit" => cb.candidate.points # <<>>
    /\ cb.pc = "publish" => nr.image.points # <<>>

(* A session without an accepted batch has published nothing.               *)
NothingPublished ==
    /\ sh.active /\ sh.state = "running" => nr.image.points # <<>>
    /\ sh.active /\ sh.epoch > 0 /\ nr.image.points = <<>> => ex.sequence < sh.floor

(* Whatever was drawn belongs to the activation, and so does what was       *)
(* published since the session began.                                       *)
OwnCurves ==
    /\ Drawn(nr.image.points, nr.activation)
    /\ cb.pc = "commit" => Drawn(cb.candidate.points, nr.activation)
    /\ sh.active /\ sh.epoch > 0 =>
           \A i \in 0 .. 2 : ex.slots[i].sequence >= sh.floor =>
                                 Drawn(ex.slots[i].image.points, nr.activation)

(* The slot a running session samples is its own, from this session and     *)
(* older than whatever waits in the middle.                                 *)
Following(r, s, x) ==
    /\ r.active = x.reading
    /\ x.slots[r.active].epoch = r.epoch
    /\ x.slots[r.active].sequence = r.consumed
    /\ x.slots[r.active].image.generation = s.generation
    /\ r.consumed >= r.floor
    /\ x.dirty => x.slots[x.middle].sequence > r.consumed

Follows == sh.active /\ sh.state = "running" => Following(rt, sh, ex)

SessionInv == /\ Shapes /\ Epochs /\ CallbackHolds /\ NothingPublished /\ OwnCurves
              /\ Follows

-----------------------------------------------------------------------------
(* The splice.                                                              *)

(* The knot before t is a knot of the image.                                *)
LEMMA KnotBound ==
    ASSUME NEW image, NEW S, image.points \in Seq(S), NEW t
    PROVE  /\ KnotAt(image, t) \in 0 .. Len(image.points)
           /\ Covers(image, t) => KnotAt(image, t) >= 1
<1> DEFINE n == Len(image.points)
           K == {i \in 1 .. n : image.points[i].t <= t}
<1>1. n \in Nat
  OBVIOUS
<1>2. IsFiniteSet(1 .. n) /\ Cardinality(1 .. n) = n
  BY <1>1, FS_Interval
<1>3. IsFiniteSet(K) /\ Cardinality(K) <= Cardinality(1 .. n) /\ Cardinality(K) \in Nat
  BY <1>2, FS_Subset, FS_CardinalityType
<1>4. ASSUME Covers(image, t) PROVE Cardinality(K) >= 1
  <2>1. 1 \in K
    BY <1>4 DEF Covers, FirstTime
  <2>2. K # {}
    BY <2>1
  <2> HIDE DEF K
  <2>3. Cardinality(K) # 0
    BY <2>2, <1>3, FS_EmptySet, Zenon
  <2> QED
    BY <2>3, <1>3
<1>5. KnotAt(image, t) = Cardinality(K)
  BY DEF KnotAt
<1> HIDE DEF K
<1> QED
  BY <1>1, <1>2, <1>3, <1>4, <1>5

(* The knots that stay are knots of the image.                              *)
LEMMA KeptBound ==
    ASSUME NEW image, NEW S, image.points \in Seq(S), NEW u,
           NEW start \in 1 .. (Len(image.points) + 1)
    PROVE  Cardinality({i \in start .. Len(image.points) : image.points[i].t < u})
               \in 0 .. (Len(image.points) + 1 - start)
<1> DEFINE n == Len(image.points)
           K == {i \in start .. n : image.points[i].t < u}
<1>1. n \in Nat /\ start \in Nat
  OBVIOUS
<1>2. IsFiniteSet(start .. n) /\ Cardinality(start .. n) = n + 1 - start
  <2> HIDE DEF n
  <2>1. start \in Int /\ n \in Int /\ start <= n + 1
    BY <1>1 DEF n
  <2>2. /\ IsFiniteSet(start .. n)
        /\ Cardinality(start .. n) = IF start > n THEN 0 ELSE n - start + 1
    BY <2>1, FS_Interval
  <2>3. (IF start > n THEN 0 ELSE n - start + 1) = n + 1 - start
    BY <2>1
  <2> QED
    BY <2>2, <2>3
<1>3. IsFiniteSet(K) /\ Cardinality(K) <= Cardinality(start .. n) /\ Cardinality(K) \in Nat
  BY <1>2, FS_Subset, FS_CardinalityType
<1> HIDE DEF K
<1>4. Cardinality(K) \in 0 .. (n + 1 - start)
  BY <1>1, <1>2, <1>3
<1> QED
  BY <1>4 DEF K

(* The point of the image at a time that it covers carries a name.          *)
LEMMA SampleNamed ==
    ASSUME NEW image, NEW a, Drawn(image.points, a), NEW t, Covers(image, t)
    PROVE  "by" \in DOMAIN Sample(image, t)
<1> DEFINE k == KnotAt(image, t)
<1>1. k \in DOMAIN image.points
  BY KnotBound DEF Drawn
<1>2. "by" \in DOMAIN image.points[k]
  BY <1>1 DEF Drawn
<1> QED
  BY <1>2 DEF Sample

(* A curve and two points of an activation are a curve of it.               *)
LEMMA DrawnAppend ==
    ASSUME NEW points, NEW a, Drawn(points, a), NEW p, NEW q,
           "by" \in DOMAIN p, p.by[1] = a, "by" \in DOMAIN q, q.by[1] = a,
           NEW start \in 1 .. (Len(points) + 1),
           NEW count \in 0 .. (Len(points) + 1 - start)
    PROVE  LET all == SubSeq(points, start, start + count - 1) \o <<p, q>>
           IN  Drawn(all, a) /\ all # <<>>
<1> DEFINE S == Knots(points)
           kept == SubSeq(points, start, start + count - 1)
           all == kept \o <<p, q>>
<1>1. points \in Seq(S)
  BY DEF Drawn
<1>2. kept \in Seq(S) /\ Len(kept) = count
  BY <1>1
<1>3. \A i \in 1 .. count : kept[i] = points[start + i - 1] /\ start + i - 1 \in DOMAIN points
  BY <1>1
<1> HIDE DEF kept, S
<1>4. all \in Seq(S \cup {p, q}) /\ Len(all) = count + 2 /\ DOMAIN all = 1 .. (count + 2)
  BY <1>2
<1>5. \A i \in 1 .. (count + 2) : all[i] = IF i <= count THEN kept[i]
                                           ELSE IF i = count + 1 THEN p ELSE q
  BY <1>2
<1>6. \A i \in DOMAIN all : "by" \in DOMAIN all[i] /\ all[i].by[1] = a
  BY <1>3, <1>4, <1>5 DEF Drawn
<1>7. \A i \in DOMAIN all : all[i] \in Knots(all)
  BY DEF Knots
<1>8. all # <<>>
  BY <1>4
<1> HIDE DEF all
<1>9. all \in Seq(Knots(all))
  BY <1>4, <1>7
<1> QED
  BY <1>6, <1>8, <1>9 DEF Drawn, all, kept

(* prepare(): an accepted batch leaves a curve that this activation drew.   *)
LEMMA SplicedDrawn ==
    ASSUME NEW image, NEW a, Drawn(image.points, a), NEW anchor, "by" \in DOMAIN anchor,
           NEW batch, batch.by[1] = a, NEW context, NEW earliest,
           image.points # <<>> => Covers(image, context.execution) /\ Covers(image, batch.from)
    PROVE  LET new == Spliced(image, anchor, batch, context, earliest)
           IN  Drawn(new.points, a) /\ new.points # <<>>
<1> DEFINE first == IF image.points = <<>> THEN anchor ELSE Sample(image, batch.from)
           start == IF image.points = <<>> THEN 1 ELSE KnotAt(image, context.execution)
           count == Cardinality({i \in start .. Len(image.points) :
                                    image.points[i].t < batch.from})
           p == [first EXCEPT !.by = batch.by]
           q == [t |-> batch.end, by |-> batch.by, pos |-> <<batch.by, batch.end>>,
                 v |-> batch.v]
<1>0. image.points \in Seq(Knots(image.points))
  BY DEF Drawn
<1>1. "by" \in DOMAIN first
  BY SampleNamed
<1>2. start \in 1 .. (Len(image.points) + 1)
  <2>1. Len(image.points) \in Nat
    BY <1>0
  <2> QED
    BY <1>0, <2>1, KnotBound
<1> HIDE DEF start, first
<1>3. count \in 0 .. (Len(image.points) + 1 - start)
  BY <1>0, <1>2, KeptBound
<1>4. "by" \in DOMAIN p /\ p.by[1] = a
  BY <1>1
<1>5. "by" \in DOMAIN q /\ q.by[1] = a
  OBVIOUS
<1> HIDE DEF count, p, q
<1>6. Spliced(image, anchor, batch, context, earliest).points
          = SubSeq(image.points, start, start + count - 1) \o <<p, q>>
  BY DEF Spliced, start, first, count, p, q
<1> QED
  BY <1>2, <1>3, <1>4, <1>5, <1>6, DrawnAppend

LEMMA PreparedDrawn ==
    ASSUME NEW image, NEW a, Drawn(image.points, a), NEW anchor, "by" \in DOMAIN anchor,
           NEW batch, batch.by[1] = a, NEW context,
           Prepare(image, anchor, batch, context).code = "ACCEPTED"
    PROVE  LET new == Prepare(image, anchor, batch, context).image
           IN  Drawn(new.points, a) /\ new.points # <<>>
<1>1. image.points # <<>> => Covers(image, context.execution) /\ Covers(image, batch.from)
  BY Zenon DEF Prepare
<1>2. Prepare(image, anchor, batch, context).image = Splice(image, anchor, batch, context)
  BY DEF Prepare
<1> QED
  BY <1>1, <1>2, SplicedDrawn DEF Splice

-----------------------------------------------------------------------------
(* The realtime thread.                                                     *)

(* What a step of the realtime thread leaves of r and s: the session, the   *)
(* slot it follows and what it consumed; it may only stop or hold.          *)
Moves(x, r, s) ==
    /\ ex' = x
    /\ DOMAIN rt' = RtFields /\ rt'.pc = "write"
    /\ rt'.epoch = r.epoch /\ rt'.floor = r.floor /\ rt'.consumed = r.consumed
    /\ rt'.active = r.active
    /\ DOMAIN sh' = ShFields
    /\ sh'.active = s.active /\ sh'.epoch = s.epoch /\ sh'.floor = s.floor
    /\ sh'.generation = s.generation
    /\ sh'.state = s.state \/ sh'.state \in {"stopping", "holding"}

LEMMA BeginRtStopMoves ==
    ASSUME NEW x, NEW r, NEW s, NEW reason, DOMAIN r = RtFields, DOMAIN s = ShFields,
           BeginRtStop(x, r, s, reason)
    PROVE  Moves(x, r, s)
BY DEF BeginRtStop, StopFrom, Moves, RtFields, ShFields

LEMMA AdvanceToMoves ==
    ASSUME NEW x, NEW r, NEW s, NEW t, NEW done, DOMAIN r = RtFields, DOMAIN s = ShFields,
           AdvanceTo(x, r, s, t, done)
    PROVE  Moves(x, r, s)
BY DEF AdvanceTo, At, Moves, RtFields, ShFields

LEMMA FollowMoves ==
    ASSUME NEW x, NEW r, NEW s, NEW period, DOMAIN r = RtFields, DOMAIN s = ShFields,
           Follow(x, r, s, period)
    PROVE  Moves(x, r, s)
BY BeginRtStopMoves, AdvanceToMoves, Zenon DEF Follow

(* A step of the realtime thread keeps the invariant when the session it    *)
(* leaves running follows its own slot.                                     *)
LEMMA RealTimeKeeps ==
    ASSUME SessionInv, UNCHANGED <<nr, cb>>,
           RtShaped(rt'), ShShaped(sh'), Owned(ex'),
           ex'.slots = ex.slots, ex'.sequence = ex.sequence,
           sh'.active = sh.active, sh'.epoch = sh.epoch, sh'.floor = sh.floor,
           rt'.epoch <= sh.epoch, rt'.epoch = sh.epoch => rt'.floor = sh.floor,
           \/ sh'.state = sh.state \/ sh'.state \in {"stopping", "holding"}
           \/ sh.state = "priming" /\ sh'.state = "running",
           sh.active /\ sh'.state = "running" =>
               /\ Coherent' /\ nr.image.points # <<>> /\ Following(rt', sh', ex')
    PROVE  SessionInv'
<1>1. Shapes'
  BY DEF SessionInv, Shapes
<1>2. Epochs'
  BY DEF SessionInv, Epochs, Coherent
<1>3. CallbackHolds'
  BY DEF SessionInv, CallbackHolds, InSession
<1>4. NothingPublished'
  BY DEF SessionInv, NothingPublished
<1>5. OwnCurves'
  BY DEF SessionInv, OwnCurves
<1>6. Follows'
  BY DEF Follows
<1> QED
  BY <1>1, <1>2, <1>3, <1>4, <1>5, <1>6 DEF SessionInv

LEMMA AcquireOwned ==
    ASSUME NEW x, Owned(x)
    PROVE  /\ Owned(Acquire(x))
           /\ Acquire(x).slots = x.slots /\ Acquire(x).sequence = x.sequence
           /\ Acquire(x).reading = x.middle /\ Acquire(x).dirty = FALSE
BY DEF Owned, Acquire, ExFields

(* consumeLatestRtTrajectory: the session then follows what it consumed.    *)
Consumes ==
    /\ Owned(ConsumedX) /\ ConsumedX.slots = ex.slots /\ ConsumedX.sequence = ex.sequence
    /\ RtShaped(ConsumedRt) /\ ConsumedRt.epoch = rt.epoch /\ ConsumedRt.floor = rt.floor
    /\ ShShaped(ConsumedSh) /\ ConsumedSh.active = sh.active
    /\ ConsumedSh.epoch = sh.epoch /\ ConsumedSh.floor = sh.floor
    /\ ConsumedSh.state \in {sh.state, "running"}
    /\ sh.active /\ ConsumedSh.state = "running" =>
           /\ nr.image.points # <<>>
           /\ Following(ConsumedRt, ConsumedSh, ConsumedX)

LEMMA ConsumeLatest ==
    ASSUME SessionInv, Coherent, sh.state \in {"priming", "running"}, NEW priming,
           Fresh => Acceptable(priming)
    PROVE  Consumes
<1> USE DEF SessionInv, Shapes
<1>1. Owned(ConsumedX) /\ ConsumedX.slots = ex.slots /\ ConsumedX.sequence = ex.sequence
  BY AcquireOwned DEF ConsumedX
<1>2. CASE ~Fresh
  <2>1. ConsumedRt = rt /\ ConsumedSh = sh
    BY <1>2 DEF ConsumedRt, ConsumedSh
  <2>2. ASSUME sh.active, sh.state = "running" PROVE ~ex.dirty /\ nr.image.points # <<>>
    BY <1>2, <2>2 DEF Fresh, Latest, Follows, Following, NothingPublished, Owned, RtShaped
  <2> QED
    BY <1>1, <2>1, <2>2 DEF Consumes, ConsumedX, Follows
<1>3. CASE Fresh
  <2>1. /\ ConsumedX = Acquire(ex) /\ ConsumedX.reading = ex.middle /\ ConsumedX.dirty = FALSE
    BY <1>3, AcquireOwned DEF ConsumedX, Fresh
  <2>2. Latest.sequence \in Nat /\ Latest.sequence <= ex.sequence
    BY DEF Latest, Owned
  <2>3. /\ RtShaped(ConsumedRt) /\ ConsumedRt.epoch = rt.epoch /\ ConsumedRt.floor = rt.floor
        /\ ConsumedRt.active = ex.middle /\ ConsumedRt.consumed = Latest.sequence
    BY <1>3, <2>2 DEF ConsumedRt, RtShaped, RtFields
  <2>4. /\ ShShaped(ConsumedSh) /\ ConsumedSh.active = sh.active
        /\ ConsumedSh.epoch = sh.epoch /\ ConsumedSh.floor = sh.floor
        /\ ConsumedSh.state = "running" /\ ConsumedSh.generation = Latest.image.generation
    BY <1>3 DEF ConsumedSh, ShShaped, ShFields
  <2>5. Latest.epoch = rt.epoch
    BY <1>3 DEF Acceptable
  <2>6. Following(ConsumedRt, ConsumedSh, ConsumedX)
    BY <1>1, <1>3, <2>1, <2>3, <2>4, <2>5 DEF Following, Latest, Fresh
  <2>7. ASSUME sh.active PROVE nr.image.points # <<>>
    <3>1. sh.epoch > 0 /\ rt.floor = sh.floor
      BY <2>7 DEF Epochs, Coherent
    <3>2. ~(ex.sequence < sh.floor)
      BY <1>3, <2>2, <3>1 DEF Fresh, Owned, ShShaped
    <3> QED
      BY <2>7, <3>1, <3>2 DEF NothingPublished
  <2> QED
    BY <1>1, <2>3, <2>4, <2>6, <2>7 DEF Consumes
<1> QED
  BY <1>2, <1>3

(* A move from what was consumed, or from what was there, keeps it all.     *)
LEMMA MovesKeep ==
    ASSUME SessionInv, Coherent, UNCHANGED <<nr, cb>>, NEW x, NEW r, NEW s, Moves(x, r, s),
           Owned(x), x.slots = ex.slots, x.sequence = ex.sequence,
           RtShaped(r), r.epoch = rt.epoch, r.floor = rt.floor,
           ShShaped(s), s.active = sh.active, s.epoch = sh.epoch, s.floor = sh.floor,
           sh.state \in {"priming", "running"}, s.state \in {sh.state, "running"},
           sh.active /\ s.state = "running" =>
               nr.image.points # <<>> /\ (sh'.state = "running" => Following(r, s, x))
    PROVE  SessionInv'
<1>1. RtShaped(rt') /\ ShShaped(sh') /\ Owned(ex')
  BY DEF Moves, RtShaped, ShShaped
<1>2. rt'.epoch <= sh.epoch /\ rt'.floor = sh.floor /\ Coherent'
  BY DEF Moves, Coherent, SessionInv, Epochs, Shapes, RtShaped
<1>3. sh.active /\ sh'.state = "running" => nr.image.points # <<>> /\ Following(rt', sh', ex')
  BY DEF Moves, Following
<1> QED
  BY <1>1, <1>2, <1>3, RealTimeKeeps DEF Moves

LEMMA UpdateEpochKeeps ==
    ASSUME SessionInv, NEW r, RtShaped(r), r.epoch = rt.epoch, r.floor = rt.floor,
           r.consumed = rt.consumed, r.active = rt.active, ReadEpoch(r)
    PROVE  SessionInv'
<1> USE DEF SessionInv, Shapes
<1>1. CASE sh.epoch # r.epoch
  <2>1. /\ RtShaped(rt') /\ rt'.epoch = sh.epoch /\ rt'.floor = sh.floor
    <3>1. sh.epoch \in Nat /\ sh.floor \in Nat /\ sh.floor - 1 \in Nat
      BY DEF ShShaped
    <3>2. /\ DOMAIN rt' = RtFields /\ rt'.epoch = sh.epoch /\ rt'.floor = sh.floor
          /\ rt'.consumed = sh.floor - 1
      BY <1>1 DEF ReadEpoch, ResetRtEpoch, RtShaped, RtFields
    <3> QED
      BY <3>1, <3>2 DEF RtShaped
  <2>2. /\ ShShaped(sh') /\ sh'.active = sh.active /\ sh'.epoch = sh.epoch
        /\ sh'.floor = sh.floor /\ sh'.state = sh.state /\ UNCHANGED <<ex, nr, cb>>
    BY <1>1 DEF ReadEpoch, ResetRtEpoch, ShShaped, ShFields
  <2>3. ~(sh.active /\ sh.state = "running")
    BY <1>1 DEF Epochs, Coherent
  <2>4. rt'.epoch <= sh.epoch
    BY <2>1 DEF ShShaped
  <2> QED
    BY <2>1, <2>2, <2>3, <2>4, RealTimeKeeps
<1>2. CASE sh.epoch = r.epoch
  <2>1. /\ RtShaped(rt') /\ rt'.epoch = rt.epoch /\ rt'.floor = rt.floor
        /\ rt'.consumed = rt.consumed /\ rt'.active = rt.active /\ UNCHANGED <<sh, ex, nr, cb>>
    BY <1>2 DEF ReadEpoch, RtShaped, RtFields
  <2>2. sh.active /\ sh'.state = "running" =>
            Coherent' /\ nr.image.points # <<>> /\ Following(rt', sh', ex')
    BY <2>1 DEF Follows, Following, Epochs, Coherent, NothingPublished
  <2>3. rt'.epoch <= sh.epoch /\ (rt'.epoch = sh.epoch => rt'.floor = sh.floor)
    BY <2>1 DEF Epochs
  <2> QED
    BY <2>1, <2>2, <2>3, RealTimeKeeps
<1> QED
  BY <1>1, <1>2

LEMMA UpdatePrimingKeeps == SessionInv /\ UpdatePriming => SessionInv'
<1> SUFFICES ASSUME SessionInv, UpdatePriming PROVE SessionInv'
  OBVIOUS
<1>1. /\ Coherent /\ sh.state = "priming" /\ UNCHANGED <<nr, cb>>
      /\ RtShaped(rt) /\ ShShaped(sh) /\ Owned(ex)
  BY DEF UpdatePriming, InState, SessionInv, Shapes
<1>0. ~(sh.active /\ sh.state = "running")
  BY <1>1
<1>2. CASE sh.stopRequested
  <2>1. Moves(ex, rt, sh)
    BY <1>1, <1>2, BeginRtStopMoves DEF UpdatePriming, RtShaped, ShShaped
  <2> QED
    BY <1>0, <1>1, <2>1, MovesKeep
<1>3. CASE ~sh.stopRequested /\ (rt.last < sh.prime \/ sh.gate)
  <2>1. Moves(ex, rt, sh)
    BY <1>1, <1>3 DEF UpdatePriming, Moves, RtShaped, ShShaped, RtFields
  <2> QED
    BY <1>0, <1>1, <2>1, MovesKeep
<1>4. CASE ~sh.stopRequested /\ ~(rt.last < sh.prime \/ sh.gate) /\ Fresh /\ ~Acceptable(TRUE)
  <2>1. Moves(Acquire(ex), rt, sh)
    BY <1>1, <1>4, BeginRtStopMoves DEF UpdatePriming, RtShaped, ShShaped
  <2> QED
    BY <1>0, <1>1, <2>1, MovesKeep, AcquireOwned
<1>5. CASE /\ ~sh.stopRequested /\ ~(rt.last < sh.prime \/ sh.gate)
           /\ ~(Fresh /\ ~Acceptable(TRUE))
  <2>1. Consumes
    BY <1>1, <1>5, ConsumeLatest
  <2>2. ex' = ConsumedX /\ rt' = [ConsumedRt EXCEPT !.pc = "write"] /\ sh' = ConsumedSh
    BY <1>5 DEF UpdatePriming
  <2> HIDE DEF ConsumedX, ConsumedRt, ConsumedSh
  <2>3. Moves(ConsumedX, ConsumedRt, ConsumedSh)
    BY <2>1, <2>2 DEF Moves, Consumes, RtShaped, ShShaped, RtFields
  <2> QED
    BY <1>1, <2>1, <2>3, MovesKeep DEF Consumes
<1> QED
  BY <1>2, <1>3, <1>4, <1>5

LEMMA UpdateRunningKeeps == SessionInv /\ UpdateRunning => SessionInv'
<1> SUFFICES ASSUME SessionInv, UpdateRunning PROVE SessionInv'
  OBVIOUS
<1>1. /\ Coherent /\ sh.state = "running" /\ UNCHANGED <<nr, cb>>
      /\ RtShaped(rt) /\ ShShaped(sh) /\ Owned(ex)
      /\ sh.active => Following(rt, sh, ex) /\ nr.image.points # <<>>
  BY DEF UpdateRunning, InState, SessionInv, Shapes, Follows, NothingPublished
<1>2. CASE sh.stopRequested
  <2>1. Moves(ex, rt, sh)
    BY <1>1, <1>2, BeginRtStopMoves DEF UpdateRunning, RtShaped, ShShaped
  <2> QED
    BY <1>1, <2>1, MovesKeep
<1>3. CASE ~sh.stopRequested /\ sh.execution = 0 /\ sh.gate
  <2>1. Moves(ex, rt, sh)
    BY <1>1, <1>3 DEF UpdateRunning, Moves, RtShaped, ShShaped, RtFields
  <2> QED
    BY <1>1, <2>1, MovesKeep
<1>4. CASE ~sh.stopRequested /\ ~(sh.execution = 0 /\ sh.gate) /\ Fresh /\ ~Acceptable(FALSE)
  <2>1. BeginRtStop(Acquire(ex), rt, sh, "internal")
    BY <1>4 DEF UpdateRunning
  <2>2. Moves(Acquire(ex), rt, sh)
    BY <1>1, <2>1, BeginRtStopMoves DEF RtShaped, ShShaped
  <2>3. sh'.state # "running"
    BY <1>1, <2>1 DEF BeginRtStop, StopFrom, ShShaped, ShFields
  <2> QED
    BY <1>1, <2>2, <2>3, MovesKeep, AcquireOwned
<1>5. CASE /\ ~sh.stopRequested /\ ~(sh.execution = 0 /\ sh.gate)
           /\ ~(Fresh /\ ~Acceptable(FALSE))
  <2>1. Consumes
    BY <1>1, <1>5, ConsumeLatest
  <2>2. PICK p \in Periods : Follow(ConsumedX, ConsumedRt, ConsumedSh, p)
    BY <1>5 DEF UpdateRunning
  <2> HIDE DEF ConsumedX, ConsumedRt, ConsumedSh
  <2>3. Moves(ConsumedX, ConsumedRt, ConsumedSh)
    BY <2>1, <2>2, FollowMoves DEF Consumes, RtShaped, ShShaped
  <2> QED
    BY <1>1, <2>1, <2>3, MovesKeep DEF Consumes
<1> QED
  BY <1>2, <1>3, <1>4, <1>5

(* The other steps of an update touch neither the exchange nor the session. *)
LEMMA RestOfUpdateKeeps ==
    SessionInv /\ (UpdateRetry \/ (\E p \in Periods : UpdateStopping(p)) \/ UpdateHolding
                   \/ UpdateWrite) => SessionInv'
<1> SUFFICES ASSUME SessionInv,
                    UpdateRetry \/ (\E p \in Periods : UpdateStopping(p)) \/ UpdateHolding
                        \/ UpdateWrite
             PROVE  SessionInv'
  OBVIOUS
<1>0. RtShaped(rt) /\ ShShaped(sh) /\ Owned(ex)
  BY DEF SessionInv, Shapes
<1>1. UNCHANGED <<ex, nr, cb>>
  BY DEF UpdateRetry, UpdateStopping, UpdateHolding, UpdateWrite
<1>2. /\ DOMAIN rt' = RtFields /\ rt'.epoch = rt.epoch /\ rt'.floor = rt.floor
      /\ rt'.consumed = rt.consumed /\ rt'.active = rt.active
  BY <1>0 DEF UpdateRetry, UpdateStopping, UpdateHolding, UpdateWrite, RtShaped, RtFields
<1>3. /\ DOMAIN sh' = ShFields /\ sh'.active = sh.active /\ sh'.epoch = sh.epoch
      /\ sh'.floor = sh.floor /\ sh'.generation = sh.generation
      /\ sh'.state = sh.state \/ sh'.state = "holding"
  BY <1>0 DEF UpdateRetry, UpdateStopping, UpdateHolding, UpdateWrite, ShShaped, ShFields
<1>4. RtShaped(rt') /\ ShShaped(sh')
  BY <1>0, <1>2, <1>3 DEF RtShaped, ShShaped
<1>5. rt'.epoch <= sh.epoch /\ (rt'.epoch = sh.epoch => rt'.floor = sh.floor)
  BY <1>2 DEF SessionInv, Epochs
<1>6. sh.active /\ sh'.state = "running" =>
          Coherent' /\ nr.image.points # <<>> /\ Following(rt', sh', ex')
  BY <1>1, <1>2, <1>3
     DEF SessionInv, Epochs, Coherent, NothingPublished, Follows, Following
<1> QED
  BY <1>0, <1>1, <1>3, <1>4, <1>5, <1>6, RealTimeKeeps

LEMMA RealTimeStep == SessionInv /\ RealTime => SessionInv'
<1> SUFFICES ASSUME SessionInv, RealTime PROVE SessionInv'
  OBVIOUS
<1>0. RtShaped(rt)
  BY DEF SessionInv, Shapes
<1>1. CASE UpdateEpoch
  <2> DEFINE r == [rt EXCEPT !.last = now]
  <2>1. /\ RtShaped(r) /\ r.epoch = rt.epoch /\ r.floor = rt.floor
        /\ r.consumed = rt.consumed /\ r.active = rt.active
    BY <1>0 DEF RtShaped, RtFields
  <2>2. ReadEpoch(r)
    BY <1>1 DEF UpdateEpoch
  <2> HIDE DEF r
  <2> QED
    BY <2>1, <2>2, UpdateEpochKeeps
<1>2. CASE UpdateEpochAgain
  BY <1>0, <1>2, UpdateEpochKeeps DEF UpdateEpochAgain
<1> QED
  BY <1>1, <1>2, UpdatePrimingKeeps, UpdateRunningKeeps, RestOfUpdateKeeps DEF RealTime

-----------------------------------------------------------------------------
(* The callback and the lifecycle.                                          *)

(* A step of the callback that opens no session and changes no image.       *)
LEMMA CallbackKeeps ==
    ASSUME SessionInv, UNCHANGED <<rt, ex>>,
           DOMAIN sh' = ShFields, sh'.active = sh.active, sh'.state = sh.state,
           sh'.epoch = sh.epoch, sh'.floor = sh.floor, sh'.generation = sh.generation,
           DOMAIN nr' = NrFields, nr'.image = nr.image, nr'.anchor = nr.anchor,
           nr'.activation = nr.activation,
           DOMAIN cb' = CbFields, cb'.pc \notin {"idle", "lock"} => sh.active,
           cb'.pc = "start" => ~InSession,
           cb'.pc # "prime", cb'.pc # "publish",
           cb'.pc = "commit" => /\ Drawn(cb'.candidate.points, nr.activation)
                                /\ cb'.candidate.points # <<>>
    PROVE  SessionInv'
<1>1. Shapes'
  BY DEF SessionInv, Shapes, ShShaped
<1>2. Epochs'
  BY DEF SessionInv, Epochs, Coherent
<1>3. CallbackHolds'
  BY DEF CallbackHolds, InSession
<1>4. NothingPublished'
  BY DEF SessionInv, NothingPublished
<1>5. OwnCurves'
  BY DEF SessionInv, OwnCurves
<1>6. Follows'
  BY DEF SessionInv, Follows, Following
<1> QED
  BY <1>1, <1>2, <1>3, <1>4, <1>5, <1>6 DEF SessionInv

(* The callback returns.                                                    *)
LEMMA FinishKeeps ==
    ASSUME SessionInv, UNCHANGED <<rt, ex>>, NEW n, NEW s, NEW result, Finish(n, s, result),
           DOMAIN s = ShFields, s.active = sh.active, s.state = sh.state,
           s.epoch = sh.epoch, s.floor = sh.floor, s.generation = sh.generation,
           DOMAIN n = NrFields, n.image = nr.image, n.anchor = nr.anchor,
           n.activation = nr.activation
    PROVE  SessionInv'
<1>1. /\ DOMAIN sh' = ShFields /\ sh'.active = sh.active /\ sh'.state = sh.state
      /\ sh'.epoch = sh.epoch /\ sh'.floor = sh.floor /\ sh'.generation = sh.generation
  BY DEF Finish, ShFields
<1>2. nr' = n
  BY DEF Finish
<1>3. DOMAIN cb' = CbFields /\ cb'.pc = "idle"
  BY DEF Finish, Quiet, CbFields
<1> QED
  BY <1>1, <1>2, <1>3, CallbackKeeps

LEMMA ReceiveBatchKeeps == SessionInv /\ ReceiveBatch => SessionInv'
<1> SUFFICES ASSUME SessionInv, ReceiveBatch PROVE SessionInv'
  OBVIOUS
<1>1. /\ DOMAIN sh' = ShFields /\ sh'.active = sh.active /\ sh'.state = sh.state
      /\ sh'.epoch = sh.epoch /\ sh'.floor = sh.floor /\ sh'.generation = sh.generation
  BY DEF SessionInv, Shapes, ShShaped, ReceiveBatch, ShFields
<1>2. DOMAIN cb' = CbFields /\ cb'.pc = "lock"
  BY DEF ReceiveBatch, Quiet, CbFields
<1>3. UNCHANGED <<rt, ex, nr>> /\ DOMAIN nr = NrFields
  BY DEF ReceiveBatch, SessionInv, Shapes
<1> QED
  BY <1>1, <1>2, <1>3, CallbackKeeps

LEMMA AdmitBatchKeeps == ASSUME SessionInv, NEW m, AdmitBatch(m) PROVE SessionInv'
<1> DEFINE n == [nr EXCEPT !.sequence = m.seq]
<1>0. /\ DOMAIN nr = NrFields /\ DOMAIN sh = ShFields /\ DOMAIN cb = CbFields
      /\ UNCHANGED <<rt, ex>>
  BY DEF SessionInv, Shapes, ShShaped, AdmitBatch
<1>1. /\ DOMAIN n = NrFields /\ n.image = nr.image /\ n.anchor = nr.anchor
      /\ n.activation = nr.activation
  BY <1>0 DEF NrFields
<1> HIDE DEF n
<1>2. CASE ~sh.active
  <2>1. cb' = Quiet /\ sh' = [sh EXCEPT !.gate = FALSE] /\ nr' = nr
    BY <1>2 DEF AdmitBatch
  <2>2. /\ DOMAIN sh' = ShFields /\ sh'.active = sh.active /\ sh'.state = sh.state
        /\ sh'.epoch = sh.epoch /\ sh'.floor = sh.floor /\ sh'.generation = sh.generation
    BY <1>0, <2>1 DEF ShFields
  <2>3. DOMAIN cb' = CbFields /\ cb'.pc = "idle"
    BY <2>1 DEF Quiet, CbFields
  <2> QED
    BY <1>0, <2>1, <2>2, <2>3, CallbackKeeps
<1>3. CASE \E result \in Results : Finish(nr, sh, result) \/ Finish(n, sh, result)
  BY <1>0, <1>1, <1>3, FinishKeeps
<1>4. CASE /\ sh.active
           /\ \E pc \in {"prepare", "start"}, o \in {0, m.from - nr.origin} :
                  /\ cb' = [cb EXCEPT !.pc = pc, !.msg = m, !.offset = o]
                  /\ nr' = n /\ UNCHANGED sh
                  /\ pc = "start" => ~InSession
  <2>1. PICK pc \in {"prepare", "start"}, o \in {0, m.from - nr.origin} :
            /\ cb' = [cb EXCEPT !.pc = pc, !.msg = m, !.offset = o]
            /\ nr' = n /\ UNCHANGED sh
            /\ pc = "start" => ~InSession
    BY <1>4
  <2>2. DOMAIN cb' = CbFields /\ cb'.pc = pc
    BY <1>0, <2>1 DEF CbFields
  <2>3. pc \notin {"prime", "publish", "commit"}
    OBVIOUS
  <2> QED
    BY <1>0, <1>1, <1>4, <2>1, <2>2, <2>3, CallbackKeeps
<1>5. \/ ~sh.active
      \/ \E result \in Results : Finish(nr, sh, result) \/ Finish(n, sh, result)
      \/ /\ sh.active
         /\ \E pc \in {"prepare", "start"}, o \in {0, m.from - nr.origin} :
                /\ cb' = [cb EXCEPT !.pc = pc, !.msg = m, !.offset = o]
                /\ nr' = n /\ UNCHANGED sh
                /\ pc = "start" => ~InSession
  BY Zenon DEF AdmitBatch, Results, n
<1> QED
  BY <1>2, <1>3, <1>4, <1>5

LEMMA StartSessionKeeps == SessionInv /\ StartSession => SessionInv'
<1> SUFFICES ASSUME SessionInv, StartSession PROVE SessionInv'
  OBVIOUS
<1>0. /\ DOMAIN nr = NrFields /\ ShShaped(sh) /\ DOMAIN cb = CbFields
      /\ RtShaped(rt) /\ Owned(ex) /\ cb.pc = "start" /\ UNCHANGED <<rt, ex>>
  BY DEF SessionInv, Shapes, StartSession
<1>1. /\ DOMAIN nr' = NrFields /\ nr'.image = EmptyImage /\ "by" \in DOMAIN nr'.anchor
      /\ nr'.activation = nr.activation
  BY <1>0 DEF StartSession, NrFields
<1>2. /\ DOMAIN sh' = ShFields /\ sh'.active = sh.active /\ sh'.state = sh.state
      /\ sh'.epoch = sh.epoch + 1 /\ sh'.floor = ex.sequence + 1
  BY <1>0 DEF StartSession, ShShaped, ShFields
<1>3. DOMAIN cb' = CbFields /\ cb'.pc = "prime"
  BY <1>0 DEF StartSession, CbFields
<1>4. /\ sh.epoch \in Nat /\ sh'.epoch \in Nat /\ sh'.epoch > 0 /\ rt.epoch \in Nat
      /\ rt.epoch < sh'.epoch /\ ex.sequence \in Nat /\ sh'.floor \in Nat /\ sh'.floor >= 1
      /\ ex.sequence < sh'.floor
  BY <1>0, <1>2 DEF ShShaped, Owned, RtShaped, SessionInv, Epochs
<1>5. sh.active /\ sh.state # "running"
  BY <1>0 DEF SessionInv, CallbackHolds, InSession
<1>6. nr'.image.points = <<>>
  BY <1>1 DEF EmptyImage
<1>7. Shapes'
  BY <1>0, <1>1, <1>2, <1>3, <1>4 DEF Shapes, ShShaped
<1>8. Epochs'
  BY <1>0, <1>2, <1>4, <1>5 DEF Epochs
<1>9. CallbackHolds'
  BY <1>2, <1>3, <1>4, <1>5, <1>6 DEF CallbackHolds, InSession
<1>10. NothingPublished'
  BY <1>0, <1>2, <1>4, <1>5 DEF NothingPublished
<1>11. OwnCurves'
  <2>1. \A i \in 0 .. 2 : ~(ex'.slots[i].sequence >= sh'.floor)
    BY <1>0, <1>4 DEF Owned
  <2>2. Drawn(nr'.image.points, nr'.activation)
    BY <1>6 DEF Drawn
  <2> QED
    BY <1>3, <2>1, <2>2 DEF OwnCurves
<1>12. Follows'
  BY <1>2, <1>5 DEF Follows
<1> QED
  BY <1>7, <1>8, <1>9, <1>10, <1>11, <1>12 DEF SessionInv

LEMMA StartPrimingKeeps == SessionInv /\ StartPriming => SessionInv'
<1> SUFFICES ASSUME SessionInv, StartPriming PROVE SessionInv'
  OBVIOUS
<1>0. /\ ShShaped(sh) /\ DOMAIN cb = CbFields /\ cb.pc = "prime"
      /\ sh.active /\ sh.epoch > 0 /\ UNCHANGED <<rt, ex, nr>>
  BY DEF SessionInv, Shapes, CallbackHolds, StartPriming
<1>1. /\ DOMAIN sh' = ShFields /\ sh'.active = sh.active /\ sh'.state = "priming"
      /\ sh'.epoch = sh.epoch /\ sh'.floor = sh.floor
  BY <1>0 DEF StartPriming, ShShaped, ShFields
<1>2. DOMAIN cb' = CbFields /\ cb'.pc = "prepare"
  BY <1>0 DEF StartPriming, CbFields
<1>3. Shapes'
  BY <1>0, <1>1, <1>2 DEF SessionInv, Shapes, ShShaped
<1>4. Epochs'
  BY <1>0, <1>1 DEF SessionInv, Epochs
<1>5. CallbackHolds' /\ Follows'
  BY <1>0, <1>1, <1>2 DEF CallbackHolds, Follows
<1>6. NothingPublished'
  BY <1>0, <1>1 DEF SessionInv, NothingPublished
<1>7. OwnCurves'
  BY <1>0, <1>1, <1>2 DEF SessionInv, OwnCurves
<1> QED
  BY <1>3, <1>4, <1>5, <1>6, <1>7 DEF SessionInv

LEMMA PrepareBatchKeeps == SessionInv /\ PrepareBatch => SessionInv'
<1> SUFFICES ASSUME SessionInv, PrepareBatch PROVE SessionInv'
  OBVIOUS
<1> DEFINE b == BatchOf(cb.msg, cb.offset)
           p == Prepare(nr.image, nr.anchor, b, Context)
<1>0. /\ DOMAIN nr = NrFields /\ DOMAIN sh = ShFields /\ DOMAIN cb = CbFields
      /\ UNCHANGED <<rt, ex>> /\ cb.pc = "prepare" /\ sh.active
      /\ "by" \in DOMAIN nr.anchor /\ Drawn(nr.image.points, nr.activation)
  BY DEF SessionInv, Shapes, ShShaped, CallbackHolds, OwnCurves, PrepareBatch
<1>1. b.by[1] = nr.activation
  BY DEF BatchOf
<1>2. \/ p.code = "ACCEPTED" /\ UNCHANGED <<nr, sh>>
             /\ cb' = [cb EXCEPT !.pc = "commit", !.candidate = p.image]
      \/ Finish(nr, sh, p.code)
  BY DEF PrepareBatch
<1> HIDE DEF b
<1>3. p.code = "ACCEPTED" => Drawn(p.image.points, nr.activation) /\ p.image.points # <<>>
  BY <1>0, <1>1, PreparedDrawn
<1> HIDE DEF p
<1>4. CASE p.code = "ACCEPTED" /\ UNCHANGED <<nr, sh>>
           /\ cb' = [cb EXCEPT !.pc = "commit", !.candidate = p.image]
  <2>1. DOMAIN cb' = CbFields /\ cb'.pc = "commit" /\ cb'.candidate = p.image
    BY <1>0, <1>4 DEF CbFields
  <2> QED
    BY <1>0, <1>3, <1>4, <2>1, CallbackKeeps
<1>5. CASE Finish(nr, sh, p.code)
  BY <1>0, <1>5, FinishKeeps
<1> QED
  BY <1>2, <1>4, <1>5

LEMMA CommitBatchKeeps == SessionInv /\ CommitBatch => SessionInv'
<1> SUFFICES ASSUME SessionInv, CommitBatch PROVE SessionInv'
  OBVIOUS
<1>0. /\ DOMAIN nr = NrFields /\ DOMAIN sh = ShFields /\ DOMAIN cb = CbFields
      /\ UNCHANGED <<rt, ex>> /\ cb.pc = "commit" /\ sh.active
      /\ Drawn(cb.candidate.points, nr.activation) /\ cb.candidate.points # <<>>
  BY DEF SessionInv, Shapes, ShShaped, CallbackHolds, OwnCurves, CommitBatch
<1>1. CASE \E code : Finish(nr, sh, code)
  BY <1>0, <1>1, FinishKeeps
<1>2. CASE /\ nr' = [nr EXCEPT !.image = cb.candidate]
           /\ cb' = [cb EXCEPT !.pc = "publish"]
           /\ UNCHANGED sh
  <2>1. /\ DOMAIN nr' = NrFields /\ nr'.image = cb.candidate /\ nr'.anchor = nr.anchor
        /\ nr'.activation = nr.activation
    BY <1>0, <1>2 DEF NrFields
  <2>2. DOMAIN cb' = CbFields /\ cb'.pc = "publish"
    BY <1>0, <1>2 DEF CbFields
  <2>3. Shapes'
    BY <1>0, <1>2, <2>1, <2>2 DEF SessionInv, Shapes
  <2>4. Epochs' /\ Follows'
    BY <1>0, <1>2 DEF SessionInv, Epochs, Coherent, Follows
  <2>5. CallbackHolds' /\ NothingPublished'
    BY <1>0, <1>2, <2>1, <2>2 DEF CallbackHolds, NothingPublished
  <2>6. OwnCurves'
    BY <1>0, <1>2, <2>1, <2>2 DEF SessionInv, OwnCurves
  <2> QED
    BY <2>3, <2>4, <2>5, <2>6 DEF SessionInv
<1> QED
  BY <1>1, <1>2 DEF CommitBatch

(* publish() fills the slot of the producer and leaves that of the reader.  *)
LEMMA PublishOwned ==
    ASSUME NEW x, Owned(x), NEW epoch, NEW image, NEW arrival
    PROVE  LET y == Publish(x, epoch, image, arrival)
           IN  /\ Owned(y)
               /\ y.reading = x.reading /\ y.slots[y.reading] = x.slots[x.reading]
               /\ y.middle = x.writing /\ y.slots[y.middle].image = image
               /\ y.slots[y.middle].sequence = x.sequence + 1 /\ y.sequence = x.sequence + 1
               /\ y.slots[y.writing] = EmptySnapshot
<1> DEFINE y == Publish(x, epoch, image, arrival)
           filled == [epoch |-> epoch, image |-> image, arrival |-> arrival,
                      sequence |-> x.sequence + 1]
<1>1. /\ DOMAIN y = ExFields /\ y.reading = x.reading /\ y.middle = x.writing
      /\ y.writing = x.middle /\ y.dirty = TRUE /\ y.sequence = x.sequence + 1
      /\ y.slots = [x.slots EXCEPT ![x.writing] = filled, ![x.middle] = EmptySnapshot]
  BY DEF Publish, Owned, ExFields
<1>2. filled.sequence = x.sequence + 1 /\ filled.image = image /\ EmptySnapshot.sequence = 0
  BY DEF EmptySnapshot
<1> HIDE DEF y, filled
<1>3. /\ DOMAIN y.slots = 0 .. 2 /\ y.slots[x.writing] = filled
      /\ y.slots[x.middle] = EmptySnapshot /\ y.slots[x.reading] = x.slots[x.reading]
  BY <1>1 DEF Owned
<1>4. \A i \in 0 .. 2 : i \in {x.reading, x.middle, x.writing}
  BY DEF Owned
<1>5. \A i \in 0 .. 2 : y.slots[i].sequence \in 0 .. y.sequence
  BY <1>1, <1>2, <1>3, <1>4 DEF Owned
<1>6. Owned(y)
  <2>1. /\ y.reading # y.middle /\ y.middle # y.writing /\ y.writing # y.reading
        /\ y.reading \in 0 .. 2 /\ y.middle \in 0 .. 2 /\ y.writing \in 0 .. 2
        /\ y.sequence \in Nat
    BY <1>1 DEF Owned
  <2>2. y.dirty \in BOOLEAN
    BY <1>1, Zenon
  <2> QED
    BY <1>1, <1>3, <1>5, <2>1, <2>2, Zenon DEF Owned
<1> QED
  BY <1>1, <1>2, <1>3, <1>6 DEF y

LEMMA PublishBatchKeeps == SessionInv /\ PublishBatch => SessionInv'
<1> SUFFICES ASSUME SessionInv, PublishBatch PROVE SessionInv'
  OBVIOUS
<1>0. /\ DOMAIN nr = NrFields /\ ShShaped(sh) /\ Owned(ex) /\ RtShaped(rt)
      /\ UNCHANGED rt /\ sh.active /\ nr.image.points # <<>>
      /\ Drawn(nr.image.points, nr.activation)
  BY DEF SessionInv, Shapes, CallbackHolds, OwnCurves, PublishBatch
<1>1. CASE ex.sequence = MaxCount
  <2> DEFINE s == [sh EXCEPT !.reason = Reason(sh.reason, "internal"), !.stopRequested = TRUE]
  <2>1. Finish(nr, s, "NOT_ACCEPTING") /\ UNCHANGED ex
    BY <1>1 DEF PublishBatch
  <2>2. /\ DOMAIN s = ShFields /\ s.active = sh.active /\ s.state = sh.state
        /\ s.epoch = sh.epoch /\ s.floor = sh.floor /\ s.generation = sh.generation
    BY <1>0 DEF ShShaped, ShFields
  <2> HIDE DEF s
  <2> QED
    BY <1>0, <2>1, <2>2, FinishKeeps
<1>2. CASE ex.sequence # MaxCount
  <2>1. ex' = Publish(ex, sh.epoch, nr.image, now) /\ Finish(nr, sh, "ACCEPTED")
    BY <1>2 DEF PublishBatch
  <2>2. /\ DOMAIN sh' = ShFields /\ sh'.active = sh.active /\ sh'.state = sh.state
        /\ sh'.epoch = sh.epoch /\ sh'.floor = sh.floor /\ sh'.generation = sh.generation
    BY <1>0, <2>1 DEF Finish, ShShaped, ShFields
  <2>3. nr' = nr /\ DOMAIN cb' = CbFields /\ cb'.pc = "idle"
    BY <2>1 DEF Finish, Quiet, CbFields
  <2>4. /\ Owned(ex') /\ ex'.reading = ex.reading
        /\ ex'.slots[ex'.reading] = ex.slots[ex.reading]
        /\ ex'.middle = ex.writing /\ ex'.slots[ex'.middle].image = nr.image
        /\ ex'.slots[ex'.middle].sequence = ex.sequence + 1
        /\ ex'.sequence = ex.sequence + 1
        /\ ex'.slots[ex'.writing] = EmptySnapshot
    BY <1>0, <2>1, PublishOwned
  <2>5. Shapes'
    BY <1>0, <2>2, <2>3, <2>4 DEF SessionInv, Shapes, ShShaped
  <2>6. Epochs'
    BY <1>0, <2>2 DEF SessionInv, Epochs, Coherent
  <2>7. CallbackHolds' /\ NothingPublished'
    BY <1>0, <2>3 DEF CallbackHolds, NothingPublished
  <2>8. OwnCurves'
    <3>1. \A i \in 0 .. 2 : i \in {ex'.reading, ex'.middle, ex'.writing}
      BY <2>4 DEF Owned
    <3>2. ~(ex'.slots[ex'.writing].sequence >= sh.floor)
      BY <1>0, <2>4 DEF EmptySnapshot, ShShaped
    <3>3. ex.reading \in 0 .. 2
      BY <1>0 DEF Owned
    <3>4. sh.active /\ sh.epoch > 0 /\ ex'.slots[ex'.reading].sequence >= sh.floor =>
              Drawn(ex'.slots[ex'.reading].image.points, nr.activation)
      BY <2>4, <3>3 DEF SessionInv, OwnCurves
    <3> QED
      BY <1>0, <2>2, <2>3, <2>4, <3>1, <3>2, <3>4 DEF OwnCurves
  <2>9. Follows'
    <3> SUFFICES ASSUME sh.active, sh.state = "running" PROVE Following(rt, sh', ex')
      BY <1>0, <2>2 DEF Follows
    <3>1. Following(rt, sh, ex)
      BY DEF SessionInv, Follows
    <3>2. rt.consumed <= ex.sequence /\ ex.sequence \in Nat /\ rt.consumed \in Nat
      BY <1>0, <3>1 DEF Following, Owned, RtShaped
    <3> QED
      BY <2>2, <2>4, <3>1, <3>2 DEF Following
  <2> QED
    BY <2>5, <2>6, <2>7, <2>8, <2>9 DEF SessionInv
<1> QED
  BY <1>1, <1>2

LEMMA CallbackStep == SessionInv /\ Callback => SessionInv'
<1> SUFFICES ASSUME SessionInv, Callback PROVE SessionInv'
  OBVIOUS
<1>1. CASE \E m \in Messages : AdmitBatch(m)
  BY <1>1, AdmitBatchKeeps
<1>2. CASE RefuseSession \/ ContextFails
  <2>1. /\ UNCHANGED <<rt, ex>> /\ Finish(nr, sh, "NOT_ACCEPTING")
        /\ DOMAIN nr = NrFields /\ DOMAIN sh = ShFields
    BY <1>2 DEF RefuseSession, ContextFails, SessionInv, Shapes, ShShaped
  <2> QED
    BY <2>1, FinishKeeps
<1> QED
  BY <1>1, <1>2, StartSessionKeeps, StartPrimingKeeps, PrepareBatchKeeps, CommitBatchKeeps,
     PublishBatchKeeps DEF Callback

LEMMA OnActivateKeeps == SessionInv /\ OnActivate => SessionInv'
<1> SUFFICES ASSUME SessionInv, OnActivate PROVE SessionInv'
  OBVIOUS
<1>0. /\ DOMAIN nr = NrFields /\ RtShaped(rt) /\ UNCHANGED <<ex, cb>>
      /\ cb.pc \in {"idle", "lock"}
  BY DEF SessionInv, Shapes, OnActivate, MutexFree
<1>1. DOMAIN nr' = NrFields /\ nr'.image = EmptyImage /\ "by" \in DOMAIN nr'.anchor
  BY <1>0 DEF OnActivate, NrFields
<1>2. RtShaped(rt') /\ rt'.epoch = 0 /\ rt'.floor = 1
  BY <1>0 DEF OnActivate, RtShaped, RtFields
<1>3. ShShaped(sh') /\ sh'.state = "none" /\ sh'.epoch = 0 /\ sh'.floor = 1
  BY DEF OnActivate, ShShaped, ShFields
<1>4. nr'.image.points = <<>>
  BY <1>1 DEF EmptyImage
<1>5. Shapes'
  BY <1>0, <1>1, <1>2, <1>3 DEF SessionInv, Shapes
<1>6. Epochs' /\ CallbackHolds' /\ NothingPublished' /\ Follows'
  BY <1>0, <1>2, <1>3 DEF Epochs, CallbackHolds, NothingPublished, Follows
<1>7. OwnCurves'
  BY <1>0, <1>3, <1>4 DEF OwnCurves, Drawn
<1> QED
  BY <1>5, <1>6, <1>7 DEF SessionInv

LEMMA OnDeactivateKeeps == SessionInv /\ OnDeactivate => SessionInv'
<1> SUFFICES ASSUME SessionInv, OnDeactivate PROVE SessionInv'
  OBVIOUS
<1>0. /\ DOMAIN nr = NrFields /\ ShShaped(sh) /\ RtShaped(rt) /\ UNCHANGED <<rt, ex, cb>>
      /\ cb.pc \in {"idle", "lock"}
  BY DEF SessionInv, Shapes, OnDeactivate, MutexFree
<1>1. DOMAIN nr' = NrFields /\ nr'.image = EmptyImage /\ nr'.anchor = nr.anchor
  BY <1>0 DEF OnDeactivate, NrFields
<1>2. /\ DOMAIN sh' = ShFields /\ sh'.active = FALSE /\ sh'.epoch = sh.epoch + 1
      /\ sh'.floor = sh.floor
  BY <1>0 DEF OnDeactivate, ShShaped, ShFields
<1>3. ShShaped(sh') /\ rt.epoch < sh'.epoch
  <2>1. /\ sh'.epoch \in Nat /\ sh'.floor \in Nat /\ sh'.floor >= 1
        /\ rt.epoch < sh'.epoch
    BY <1>0, <1>2 DEF ShShaped, RtShaped, SessionInv, Epochs
  <2>2. sh'.active \in BOOLEAN
    BY <1>2, Zenon
  <2> QED
    BY <1>2, <2>1, <2>2, Zenon DEF ShShaped
<1>4. nr'.image.points = <<>>
  BY <1>1 DEF EmptyImage
<1>5. Shapes'
  BY <1>0, <1>1, <1>3 DEF SessionInv, Shapes
<1>6. Epochs'
  BY <1>0, <1>2, <1>3 DEF Epochs, RtShaped, ShShaped
<1>7. CallbackHolds' /\ NothingPublished' /\ Follows'
  BY <1>0, <1>2 DEF CallbackHolds, NothingPublished, Follows
<1>8. OwnCurves'
  BY <1>0, <1>2, <1>4 DEF OwnCurves, Drawn
<1> QED
  BY <1>5, <1>6, <1>7, <1>8 DEF SessionInv

LEMMA SessionStarts == RollingInit => SessionInv
<1> SUFFICES ASSUME RollingInit PROVE SessionInv
  OBVIOUS
<1>1. RtShaped(rt) /\ ShShaped(sh) /\ sh.active = FALSE /\ rt.epoch = 0 /\ sh.epoch = 0
      /\ rt.floor = sh.floor
  BY DEF RollingInit, RtShaped, RtFields, ShShaped, ShFields
<1>2. Owned(ex)
  BY DEF RollingInit, Owned, ExFields, EmptySnapshot
<1>3. /\ DOMAIN nr = NrFields /\ "by" \in DOMAIN nr.anchor /\ nr.image.points = <<>>
      /\ DOMAIN cb = CbFields /\ cb.pc = "idle"
  BY DEF RollingInit, NrFields, Quiet, CbFields, EmptyImage
<1>4. Shapes
  BY <1>1, <1>2, <1>3 DEF Shapes
<1>5. Epochs /\ CallbackHolds /\ NothingPublished /\ Follows
  BY <1>1, <1>3 DEF Epochs, CallbackHolds, NothingPublished, Follows
<1>6. OwnCurves
  BY <1>1, <1>3 DEF OwnCurves, Drawn
<1> QED
  BY <1>4, <1>5, <1>6 DEF SessionInv

LEMMA SessionStep == SessionInv /\ [RollingNext]_rollingVars => SessionInv'
<1> SUFFICES ASSUME SessionInv, [RollingNext]_rollingVars PROVE SessionInv'
  OBVIOUS
<1>1. CASE UNCHANGED <<rt, sh, ex, nr, cb>>
  BY <1>1 DEF SessionInv, Shapes, Epochs, Coherent, CallbackHolds, InSession,
              NothingPublished, OwnCurves, Follows
<1>2. CASE Tick
  BY <1>1, <1>2 DEF Tick
<1>3. CASE UNCHANGED rollingVars
  BY <1>1, <1>3 DEF rollingVars
<1> QED
  BY <1>2, <1>3, RealTimeStep, CallbackStep, OnActivateKeeps, OnDeactivateKeeps,
     ReceiveBatchKeeps DEF RollingNext

(* The inductive invariant of the session: ownership of the slots, order of *)
(* epochs and publications, and the curves of the activation.               *)
THEOREM SessionInductive == RollingSpec => []SessionInv
BY SessionStarts, SessionStep, PTL DEF RollingSpec

(* A running session follows an image of its own activation and epoch, the  *)
(* one it accepted, out of a slot that the callback does not own            *)
(* (consumeLatestRtTrajectory, RollingSnapshotExchange).                    *)
THEOREM SessionIsFollowed == RollingSpec => []FollowsItsSession
<1>1. SessionInv => FollowsItsSession
  <2> SUFFICES ASSUME SessionInv, sh.active, sh.state = "running", Coherent
               PROVE  FollowsItsSession
    BY DEF FollowsItsSession
  <2>1. Following(rt, sh, ex) /\ Owned(ex) /\ RtShaped(rt)
    BY DEF SessionInv, Follows, Shapes
  <2>2. rt.active \in 0 .. 2 /\ rt.active \notin {ex.writing, ex.middle}
    BY <2>1 DEF Following, Owned
  <2>3. ex.slots[rt.active].sequence >= sh.floor /\ sh.epoch > 0
    BY <2>1 DEF Following, SessionInv, Epochs, Coherent
  <2>4. Drawn(ex.slots[rt.active].image.points, nr.activation)
    BY <2>2, <2>3 DEF SessionInv, OwnCurves
  <2> QED
    BY <2>1, <2>2, <2>4 DEF FollowsItsSession, Following, Drawn
<1> QED
  BY <1>1, SessionInductive, PTL

-----------------------------------------------------------------------------
(* What a session at rest tells.                                            *)

(* The numbers of a knot; a curve runs forward in time, and a final one     *)
(* ends at rest.                                                            *)
IsKnot(p) == {"t", "by", "pos", "v"} \subseteq DOMAIN p /\ p.t \in Int /\ p.v \in Int

Ascends(points) ==
    /\ points \in Seq(Knots(points)) /\ points # <<>>
    /\ \A i \in DOMAIN points : IsKnot(points[i])
    /\ \A i, j \in DOMAIN points : i < j => points[i].t < points[j].t

Sound(image) ==
    /\ Ascends(image.points)
    /\ image.final => image.points[Len(image.points)].v = 0

(* The clock, and a message that the client's plan has for the callback.    *)
Clocks ==
    /\ now \in Nat /\ plans \in Scenarios
    /\ nr.activation \in 0 .. Len(plans) /\ nr.sequence \in Nat /\ nr.origin \in Int
    /\ cb.pc = "lock" => nr.activation > 0 /\ nr.sequence < Len(plans[nr.activation])

IsMessage(m) == m.from \in Int /\ m.length \in Nat /\ m.v \in Nat /\ m.final \in BOOLEAN

(* Every curve that can still be spliced or sampled is sound.               *)
SoundCurves ==
    /\ cb.pc \in {"start", "prime", "prepare"} => IsMessage(cb.msg) /\ cb.offset \in Int
    /\ IsKnot(nr.anchor) /\ nr.anchor.t = 0
    /\ nr.image.points # <<>> => Sound(nr.image)
    /\ cb.pc = "commit" => Sound(cb.candidate)
    /\ sh.active /\ sh.epoch > 0 =>
           \A i \in 0 .. 2 : ex.slots[i].sequence >= sh.floor => Sound(ex.slots[i].image)

(* A running session is on its curve, and knows its end; a stopping one     *)
(* brakes from where it was, and says why.                                  *)
OnCurve(r, s, x) ==
    /\ s.execution \in Int /\ r.desired.v \in Int
    /\ Covers(x.slots[r.active].image, s.execution)
    /\ s.until = LastTime(x.slots[r.active].image)

Braking(r, s) ==
    /\ r.epoch = s.epoch
    /\ DOMAIN r.stop = {"phase", "elapsed", "duration", "from"}
    /\ r.stop.elapsed \in Int /\ r.stop.duration \in Int
    /\ r.stop.duration = r.stop.from.v
    /\ s.reason # "none"

InMotion ==
    /\ sh.active /\ sh.state = "running" => OnCurve(rt, sh, ex)
    /\ sh.active /\ sh.state = "stopping" => Braking(rt, sh)

(* In the other states the command is at rest; no callback opens a session  *)
(* in any but those.                                                        *)
RestStates == {"none", "holding", "priming"}

AtRest ==
    /\ rt.pc = "idle" => sh.desired = rt.desired
    /\ sh.active => sh.state \in RestStates \cup {"running", "stopping"}
    /\ sh.active /\ sh.state \in RestStates => rt.desired.v = 0
    /\ cb.pc \in {"start", "prime"} => sh.state \in RestStates

(* An arm that has moved in this activation has a reason to be told, kept   *)
(* in stop_reason_ or, while a session is opened, with the callback.        *)
Moved == \E d \in {rt.desired, sh.desired} : d.pos # Source(nr.activation)

Told ==
    sh.active /\ Moved =>
        /\ sh.state # "none"
        /\ sh.state = "holding" /\ cb.pc # "prime" => sh.reason # "none"
        /\ cb.pc = "prime" \/ TrajectoryPending => nr.previous # "none"

RestInv == Clocks /\ SoundCurves /\ InMotion /\ AtRest /\ Told

(* The knots of a sound curve.                                              *)

LEMMA MinType ==
    ASSUME NEW x \in Int, NEW y \in Int, NEW z \in Int
    PROVE  Min({x, y, z}) \in Int
<1>1. \E m \in {x, y, z} : \A n \in {x, y, z} : m <= n
  OBVIOUS
<1>2. Min({x, y, z}) \in {x, y, z}
  BY <1>1 DEF Min
<1> QED
  BY <1>2

LEMMA MinOfTwo ==
    ASSUME NEW x \in Int, NEW y \in Int
    PROVE  Min({x, y}) = IF x <= y THEN x ELSE y
<1>1. \E m \in {x, y} : \A n \in {x, y} : m <= n
  OBVIOUS
<1>2. Min({x, y}) \in {x, y} /\ \A n \in {x, y} : Min({x, y}) <= n
  BY <1>1 DEF Min
<1> QED
  BY <1>2

LEMMA MaxOfTwo ==
    ASSUME NEW x \in Int, NEW y \in Int
    PROVE  Max({x, y}) = IF x >= y THEN x ELSE y
<1>1. \E m \in {x, y} : \A n \in {x, y} : m >= n
  OBVIOUS
<1>2. Max({x, y}) \in {x, y} /\ \A n \in {x, y} : Max({x, y}) >= n
  BY <1>1 DEF Max
<1> QED
  BY <1>2

LEMMA LastKnot ==
    ASSUME NEW image, Ascends(image.points)
    PROVE  /\ Len(image.points) \in Nat /\ Len(image.points) >= 1
           /\ DOMAIN image.points = 1 .. Len(image.points)
           /\ LastTime(image) = image.points[Len(image.points)].t /\ LastTime(image) \in Int
           /\ FirstTime(image) \in Int /\ FirstTime(image) <= LastTime(image)
           /\ \A i \in DOMAIN image.points : image.points[i].t <= LastTime(image)
<1> DEFINE n == Len(image.points)
<1>1. n \in Nat /\ n >= 1 /\ DOMAIN image.points = 1 .. n
  <2>1. image.points \in Seq(Knots(image.points)) /\ image.points # <<>>
    BY DEF Ascends
  <2> QED
    BY <2>1
<1> HIDE DEF n
<1>2. LastTime(image) = image.points[n].t
  BY DEF LastTime, Last, n
<1>3. \A i \in 1 .. n : image.points[i].t \in Int
  BY <1>1 DEF Ascends, IsKnot
<1>4. \A i \in 1 .. n : i < n => image.points[i].t < image.points[n].t
  BY <1>1 DEF Ascends
<1>5. \A i \in 1 .. n : image.points[i].t <= image.points[n].t
  <2> TAKE i \in 1 .. n
  <2>1. CASE i = n
    BY <1>1, <1>3, <2>1
  <2>2. CASE i < n
    BY <1>1, <1>3, <1>4, <2>2
  <2> QED
    BY <1>1, <2>1, <2>2
<1>6. FirstTime(image) = image.points[1].t
  BY DEF FirstTime
<1> QED
  BY <1>1, <1>2, <1>3, <1>5, <1>6 DEF n

(* The last knot of a curve is the one at its last time.                    *)
LEMMA KnotAtLast ==
    ASSUME NEW image, Ascends(image.points)
    PROVE  KnotAt(image, LastTime(image)) = Len(image.points)
<1> DEFINE n == Len(image.points)
           K == {i \in 1 .. n : image.points[i].t <= LastTime(image)}
<1>1. n \in Nat /\ K = 1 .. n
  BY LastKnot
<1>2. Cardinality(1 .. n) = n
  BY <1>1, FS_Interval
<1> QED
  BY <1>1, <1>2 DEF KnotAt

(* The point of a curve at a time that it covers is a knot at that time.    *)
LEMMA SampleKnot ==
    ASSUME NEW image, Ascends(image.points), NEW t \in Int, Covers(image, t)
    PROVE  IsKnot(Sample(image, t)) /\ Sample(image, t).t = t
<1> DEFINE n == Len(image.points)
           k == KnotAt(image, t)
           K == {i \in 1 .. n : image.points[i].t <= t}
           a == image.points[k]
           b == image.points[k + 1]
<1>1. n \in Nat /\ DOMAIN image.points = 1 .. n /\ k \in 1 .. n
  <2>1. k \in 0 .. n /\ k >= 1
    BY KnotBound DEF Ascends
  <2> QED
    BY <2>1, LastKnot
<1>2. IsKnot(a)
  BY <1>1 DEF Ascends
<1>3. CASE a.t = t
  BY <1>2, <1>3 DEF Sample
<1>4. CASE a.t # t
  <2>1. k # n
    <3> SUFFICES ASSUME k = n PROVE FALSE
      OBVIOUS
    <3>1. IsFiniteSet(1 .. n) /\ Cardinality(1 .. n) = n
      BY <1>1, FS_Interval
    <3>2. Cardinality(K) = n
      BY DEF KnotAt
    <3>3. K \in SUBSET (1 .. n)
      OBVIOUS
    <3> HIDE DEF K, k, n
    <3>4. K = 1 .. n
      BY <3>1, <3>2, <3>3, FS_Subset
    <3>5. n \in K
      BY <1>1, <3>4
    <3>6. image.points[n].t <= t /\ t <= image.points[n].t
      BY <3>5, LastKnot DEF K, Covers, n
    <3>7. image.points[n].t \in Int
      BY LastKnot DEF n
    <3> QED
      BY <1>4, <3>6, <3>7
  <2>2. k + 1 \in 1 .. n
    BY <1>1, <2>1
  <2>3. IsKnot(b)
    BY <1>1, <2>2 DEF Ascends
  <2>4. Sample(image, t) = [t |-> t, by |-> a.by, pos |-> <<a.by, t>>,
              v |-> Min({a.v + (t - a.t), b.v + (b.t - t), MaxSpeed})]
    BY <1>4 DEF Sample
  <2>5. MaxSpeed \in Int
    BY BufferAssumption
  <2> HIDE DEF a, b, k
  <2>6. /\ a.v + (t - a.t) \in Int /\ b.v + (b.t - t) \in Int
    BY <1>2, <2>3 DEF IsKnot
  <2>7. Min({a.v + (t - a.t), b.v + (b.t - t), MaxSpeed}) \in Int
    BY <2>5, <2>6, MinType
  <2> QED
    BY <2>4, <2>7 DEF IsKnot
<1> QED
  BY <1>3, <1>4

(* The prefix of the knots before u ends where u does.                      *)
LEMMA KeptBefore ==
    ASSUME NEW image, Ascends(image.points), NEW u \in Int,
           NEW start \in 1 .. (Len(image.points) + 1), NEW count \in Nat,
           count = Cardinality({i \in start .. Len(image.points) : image.points[i].t < u}),
           NEW j \in start .. (start + count - 1), j <= Len(image.points)
    PROVE  image.points[j].t < u
<1> DEFINE n == Len(image.points)
           K == {i \in start .. n : image.points[i].t < u}
<1>1. n \in Nat /\ DOMAIN image.points = 1 .. n /\ start \in Nat /\ j \in 1 .. n
  BY LastKnot
<1> SUFFICES ASSUME ~(image.points[j].t < u) PROVE FALSE
  OBVIOUS
<1>2. \A i \in start .. n : i >= j => ~(image.points[i].t < u)
  <2> SUFFICES ASSUME NEW i \in start .. n, i >= j PROVE ~(image.points[i].t < u)
    OBVIOUS
  <2>0. i \in 1 .. n /\ j \in 1 .. n /\ (i = j \/ j < i)
    BY <1>1
  <2> HIDE DEF n
  <2>1. image.points[i].t \in Int /\ image.points[j].t \in Int
    BY <1>1, <2>0 DEF Ascends, IsKnot
  <2>2. i = j \/ image.points[j].t < image.points[i].t
    BY <1>1, <2>0 DEF Ascends
  <2> QED
    BY <2>1, <2>2
<1>3. K \in SUBSET (start .. (j - 1))
  BY <1>1, <1>2
<1>4. j - 1 \in Int /\ start \in Int
  BY <1>1
<1>5. /\ IsFiniteSet(start .. (j - 1))
      /\ Cardinality(start .. (j - 1)) = IF start > j - 1 THEN 0 ELSE (j - 1) - start + 1
  BY <1>4, FS_Interval
<1>6. Cardinality(K) <= Cardinality(start .. (j - 1))
  BY <1>3, <1>5, FS_Subset
<1>7. Cardinality(K) = count
  OBVIOUS
<1> HIDE DEF K
<1>8. start \in Int /\ j \in Int /\ count \in Int /\ start <= j /\ j <= start + count - 1
  BY <1>1
<1>9. Cardinality(start .. (j - 1)) = j - start
  BY <1>5, <1>8
<1> QED
  BY <1>6, <1>7, <1>8, <1>9

(* A curve, a later point and a still later one are a curve.                *)
Before(kept, u) ==
    /\ \A i \in 1 .. Len(kept) : IsKnot(kept[i]) /\ kept[i].t < u
    /\ \A i, j \in 1 .. Len(kept) : i < j => kept[i].t < kept[j].t

LEMMA AscendsAppend ==
    ASSUME NEW kept, NEW S, kept \in Seq(S), NEW p, IsKnot(p), Before(kept, p.t),
           NEW q, IsKnot(q), p.t < q.t
    PROVE  /\ Ascends(kept \o <<p, q>>)
           /\ (kept \o <<p, q>>)[Len(kept \o <<p, q>>)] = q
<1> DEFINE all == kept \o <<p, q>>
           m == Len(kept)
<1>0. p.t \in Int /\ q.t \in Int
  BY DEF IsKnot
<1>1. /\ m \in Nat /\ all \in Seq(S \cup {p, q}) /\ Len(all) = m + 2
      /\ DOMAIN all = 1 .. (m + 2)
  OBVIOUS
<1>2. /\ \A i \in 1 .. m : all[i] = kept[i]
      /\ all[m + 1] = p /\ all[m + 2] = q
  OBVIOUS
<1> HIDE DEF all, m
<1>3. \A i \in DOMAIN all : i \in 1 .. m \/ i = m + 1 \/ i = m + 2
  BY <1>1
<1>4. \A i \in DOMAIN all : IsKnot(all[i])
  BY <1>2, <1>3 DEF m, Before
<1>5. \A i, j \in DOMAIN all : i < j => all[i].t < all[j].t
  <2> SUFFICES ASSUME NEW i \in DOMAIN all, NEW j \in DOMAIN all, i < j
               PROVE  all[i].t < all[j].t
    OBVIOUS
  <2>1. CASE i \in 1 .. m /\ j \in 1 .. m
    BY <1>2, <2>1 DEF m, Before
  <2>2. CASE i \in 1 .. m /\ j \notin 1 .. m
    <3>1. all[i].t < p.t /\ all[i].t \in Int
      BY <1>2, <2>2 DEF m, Before, IsKnot
    <3>2. all[j] = p \/ all[j] = q
      BY <1>2, <1>3, <2>2
    <3>3. CASE all[j] = p
      BY <3>1, <3>3
    <3>4. CASE all[j] = q
      BY <1>0, <3>1, <3>4
    <3> QED
      BY <3>2, <3>3, <3>4
  <2>3. CASE i \notin 1 .. m
    <3>1. i = m + 1 /\ j = m + 2
      BY <1>1, <1>3, <2>3
    <3> QED
      BY <1>2, <3>1
  <2> QED
    BY <2>1, <2>2, <2>3
<1>6. \A i \in DOMAIN all : all[i] \in Knots(all)
  BY DEF Knots
<1>7. all \in Seq(Knots(all)) /\ all # <<>>
  BY <1>1, <1>6
<1>8. all[Len(all)] = q
  BY <1>1, <1>2
<1> QED
  BY <1>4, <1>5, <1>7, <1>8 DEF Ascends, all

(* prepare(): the knots before the splice, the splice, the batch's end.     *)
LEMMA SplicedSound ==
    ASSUME NEW image, NEW anchor, IsKnot(anchor), NEW batch, NEW context, NEW earliest,
           image.points \in Seq(Knots(image.points)),
           batch.from \in Int, batch.end \in Int, batch.v \in Int, batch.end > batch.from,
           batch.final => batch.v = 0,
           image.points = <<>> => anchor.t = batch.from,
           image.points # <<>> => /\ Sound(image) /\ Covers(image, context.execution)
                                  /\ Covers(image, batch.from)
    PROVE  Sound(Spliced(image, anchor, batch, context, earliest))
<1> DEFINE n == Len(image.points)
           first == IF image.points = <<>> THEN anchor ELSE Sample(image, batch.from)
           start == IF image.points = <<>> THEN 1 ELSE KnotAt(image, context.execution)
           count == Cardinality({i \in start .. n : image.points[i].t < batch.from})
           kept == SubSeq(image.points, start, start + count - 1)
           p == [first EXCEPT !.by = batch.by]
           q == [t |-> batch.end, by |-> batch.by, pos |-> <<batch.by, batch.end>>,
                 v |-> batch.v]
           new == Spliced(image, anchor, batch, context, earliest)
<1>1. n \in Nat
  OBVIOUS
<1>2. IsKnot(first) /\ first.t = batch.from
  BY SampleKnot DEF Sound
<1>3. start \in 1 .. (n + 1)
  BY <1>1, KnotBound
<1> HIDE DEF first, start
<1>4. count \in 0 .. (n + 1 - start)
  BY <1>3, KeptBound
<1>5. IsKnot(p) /\ p.t = batch.from
  BY <1>2 DEF IsKnot
<1>6. IsKnot(q) /\ q.t = batch.end /\ q.v = batch.v
  BY DEF IsKnot
<1>7. new.points = kept \o <<p, q>> /\ new.final = batch.final
  BY DEF Spliced, first, start
<1>8. \A i \in start .. (start + count - 1) : i <= n => image.points[i].t < batch.from
  <2>1. CASE image.points = <<>>
    BY <1>1, <1>3, <2>1
  <2>2. CASE image.points # <<>>
    <3>1. Ascends(image.points) /\ count \in Nat
      BY <1>1, <1>3, <1>4, <2>2 DEF Sound
    <3> QED
      BY <1>3, <3>1, KeptBefore
  <2> QED
    BY <2>1, <2>2
<1> HIDE DEF count, p, q, new
<1>9. /\ kept \in Seq(Knots(image.points)) /\ Len(kept) = count
      /\ \A i \in 1 .. count : kept[i] = image.points[start + i - 1]
  BY <1>1, <1>3, <1>4
<1>10. \A i \in 1 .. count : /\ start + i - 1 \in 1 .. n
                             /\ start + i - 1 \in start .. (start + count - 1)
  BY <1>1, <1>3, <1>4
<1>11. count > 0 => image.points # <<>>
  BY <1>1, <1>3, <1>4, <1>10
<1> HIDE DEF kept, n
<1>12. \A i \in 1 .. count : IsKnot(kept[i]) /\ kept[i].t < batch.from
  <2> TAKE i \in 1 .. count
  <2>1. count > 0
    BY <1>1, <1>3, <1>4
  <2>2. start + i - 1 \in DOMAIN image.points
    BY <1>1, <1>10 DEF n
  <2>3. IsKnot(image.points[start + i - 1])
    BY <1>11, <2>1, <2>2 DEF Sound, Ascends
  <2>4. start + i - 1 <= n
    BY <1>1, <1>10
  <2> QED
    BY <1>8, <1>9, <1>10, <2>3, <2>4
<1>13. \A i, j \in 1 .. count : i < j => kept[i].t < kept[j].t
  <2> SUFFICES ASSUME NEW i \in 1 .. count, NEW j \in 1 .. count, i < j
               PROVE  kept[i].t < kept[j].t
    OBVIOUS
  <2>1. count > 0 /\ start + i - 1 < start + j - 1
    BY <1>1, <1>3, <1>4
  <2>2. start + i - 1 \in DOMAIN image.points /\ start + j - 1 \in DOMAIN image.points
    BY <1>1, <1>10 DEF n
  <2>3. image.points[start + i - 1].t < image.points[start + j - 1].t
    BY <1>11, <2>1, <2>2 DEF Sound, Ascends
  <2> QED
    BY <1>9, <2>3
<1>14. Ascends(new.points) /\ new.points[Len(new.points)] = q
  <2>1. p.t < q.t
    BY <1>5, <1>6
  <2>2. Before(kept, p.t)
    BY <1>5, <1>9, <1>12, <1>13 DEF Before
  <2>3. /\ Ascends(kept \o <<p, q>>)
        /\ (kept \o <<p, q>>)[Len(kept \o <<p, q>>)] = q
    <3>1. kept \in Seq(Knots(image.points)) /\ IsKnot(p) /\ IsKnot(q)
      BY <1>5, <1>6, <1>9
    <3> QED
      BY <2>1, <2>2, <3>1, AscendsAppend
  <2> QED
    BY <1>7, <2>3
<1>15. new.final => new.points[Len(new.points)].v = 0
  <2>1. new.final => q.v = 0
    BY <1>6, <1>7
  <2> QED
    BY <1>14, <2>1
<1> QED
  BY <1>14, <1>15 DEF Sound, new

LEMMA PreparedSound ==
    ASSUME NEW image, NEW anchor, IsKnot(anchor), anchor.t = 0, NEW batch, NEW context,
           image.points \in Seq(Knots(image.points)), image.points # <<>> => Sound(image),
           batch.from \in Int, batch.end \in Int, batch.v \in Int,
           Prepare(image, anchor, batch, context).code = "ACCEPTED"
    PROVE  Sound(Prepare(image, anchor, batch, context).image)
<1>1. /\ image.points # <<>> => Covers(image, context.execution) /\ Covers(image, batch.from)
      /\ ~(batch.end <= batch.from)
      /\ ~(batch.final /\ batch.v # 0)
      /\ ~(image.points = <<>> /\ batch.from # 0)
  BY Zenon DEF Prepare
<1>2. batch.end > batch.from
  BY <1>1
<1>3. Prepare(image, anchor, batch, context).image = Splice(image, anchor, batch, context)
  BY DEF Prepare
<1> QED
  BY <1>1, <1>2, <1>3, SplicedSound DEF Splice

-----------------------------------------------------------------------------
(* The realtime thread again: where it leaves the command.                  *)

(* The session rests where it was, or comes to rest and says why.           *)
Rests ==
    /\ rt'.desired.v = 0
    /\ \/ sh'.state = sh.state /\ sh.state \in RestStates /\ sh'.reason = sh.reason
          /\ (Moved' => Moved)
       \/ sh'.state = "holding" /\ sh'.reason # "none"
          /\ (sh.state \in RestStates => (Moved' => Moved))

(* What an update leaves of a session: on its curve, braking or at rest.    *)
Leaves ==
    \/ sh'.state = "running" /\ OnCurve(rt', sh', ex')
    \/ sh'.state = "stopping" /\ sh.state \in {"running", "stopping"} /\ Braking(rt', sh')
    \/ Rests

LEMMA RestKeeps ==
    ASSUME SessionInv, SessionInv', RestInv, UNCHANGED <<now, nr, cb, plans>>,
           sh'.active = sh.active, sh'.epoch = sh.epoch, sh'.floor = sh.floor,
           ex'.slots = ex.slots,
           rt'.pc = "idle" => sh'.desired = rt'.desired,
           sh.active => Leaves
    PROVE  RestInv'
<1>1. Clocks'
  BY DEF RestInv, Clocks
<1>2. SoundCurves'
  BY DEF RestInv, SoundCurves
<1>3. cb.pc \in {"start", "prime"} => sh.active /\ sh.state \in RestStates /\ sh'.state # "running"
  BY DEF SessionInv, CallbackHolds, InSession, RestInv, AtRest
<1>4. cb.pc \in {"start", "prime"} => sh'.state \in RestStates
  BY <1>3 DEF Leaves, Rests, RestStates
<1>5. InMotion'
  BY DEF InMotion, Leaves, Rests, RestStates
<1>6. AtRest'
  BY <1>4 DEF AtRest, Leaves, Rests, RestStates
<1>7. Told'
  <2> SUFFICES ASSUME sh.active, Moved'
               PROVE  /\ sh'.state # "none"
                      /\ sh'.state = "holding" /\ cb.pc # "prime" => sh'.reason # "none"
                      /\ cb.pc = "prime" \/ (sh'.state = "priming" /\ nr.image.points = <<>>)
                             => nr.previous # "none"
    BY DEF Told, TrajectoryPending
  <2>1. CASE sh'.state \in {"running", "stopping"}
    BY <1>4, <2>1 DEF RestStates
  <2>2. CASE Rests
    <3>1. CASE /\ sh'.state = sh.state /\ sh.state \in RestStates /\ sh'.reason = sh.reason
               /\ (Moved' => Moved)
      BY <3>1 DEF RestInv, Told, TrajectoryPending
    <3>2. CASE /\ sh'.state = "holding" /\ sh'.reason # "none"
               /\ (sh.state \in RestStates => (Moved' => Moved))
      <4>1. cb.pc = "prime" => nr.previous # "none"
        BY <1>3, <3>2 DEF RestInv, Told
      <4> QED
        BY <3>2, <4>1
    <3> QED
      BY <2>2, <3>1, <3>2 DEF Rests
  <2> QED
    BY <2>1, <2>2 DEF Leaves
<1> QED
  BY <1>1, <1>2, <1>5, <1>6, <1>7 DEF RestInv

(* A step that leaves the session and its command as they are.              *)
LEMMA SameLeaves ==
    ASSUME RestInv, sh.active, UNCHANGED nr, ex'.slots = ex.slots,
           sh'.state = sh.state, sh'.reason = sh.reason, sh'.epoch = sh.epoch,
           sh.state = "running" => /\ sh'.execution = sh.execution /\ sh'.until = sh.until
                                   /\ rt'.active = rt.active /\ rt'.desired = rt.desired,
           sh.state = "stopping" => rt'.epoch = rt.epoch /\ rt'.stop = rt.stop,
           sh.state \in RestStates => rt'.desired.v = 0 /\ (Moved' => Moved)
    PROVE  Leaves
<1>1. sh.state \in RestStates \cup {"running", "stopping"}
  BY DEF RestInv, AtRest
<1>2. CASE sh.state = "running"
  BY <1>2 DEF RestInv, InMotion, OnCurve, Leaves
<1>3. CASE sh.state = "stopping"
  BY <1>3 DEF RestInv, InMotion, Braking, Leaves
<1>4. CASE sh.state \in RestStates
  BY <1>4 DEF Leaves, Rests
<1> QED
  BY <1>1, <1>2, <1>3, <1>4

LEMMA ReadEpochRests ==
    ASSUME SessionInv, SessionInv', RestInv, NEW r, DOMAIN r = RtFields, r.epoch = rt.epoch,
           r.active = rt.active, r.desired = rt.desired, r.stop = rt.stop,
           ReadEpoch(r), UNCHANGED plans
    PROVE  RestInv'
<1>0. ShShaped(sh) /\ UNCHANGED <<now, ex, nr, cb>>
  BY DEF SessionInv, Shapes, ReadEpoch
<1>1. CASE sh.epoch # r.epoch
  <2>1. rt'.pc = "state" /\ rt'.desired = At(sh.desired.pos, 0)
    BY <1>1 DEF ReadEpoch, ResetRtEpoch, RtFields
  <2>2. /\ sh'.active = sh.active /\ sh'.epoch = sh.epoch /\ sh'.floor = sh.floor
        /\ sh'.state = sh.state /\ sh'.reason = sh.reason /\ sh'.desired = sh.desired
    BY <1>0, <1>1 DEF ReadEpoch, ResetRtEpoch, ShShaped, ShFields
  <2>3. sh.active => sh.state \notin {"running", "stopping"}
    BY <1>1 DEF SessionInv, Epochs, Coherent, RestInv, InMotion, Braking
  <2>4. rt'.desired.v = 0 /\ (Moved' => Moved)
    BY <1>0, <2>1, <2>2 DEF Moved, At
  <2>5. sh.active => Leaves
    BY <1>0, <2>2, <2>3, <2>4, SameLeaves
  <2> QED
    BY <1>0, <2>1, <2>2, <2>5, RestKeeps
<1>2. CASE sh.epoch = r.epoch
  <2>1. /\ rt'.pc = "state" /\ rt'.desired = rt.desired /\ rt'.epoch = rt.epoch
        /\ rt'.active = rt.active /\ rt'.stop = rt.stop /\ UNCHANGED sh
    BY <1>2 DEF ReadEpoch, RtFields
  <2>2. sh.active /\ sh.state \in RestStates => rt'.desired.v = 0
    BY <2>1 DEF RestInv, AtRest
  <2>3. Moved' => Moved
    BY <1>0, <2>1 DEF Moved
  <2>4. sh.active => Leaves
    BY <1>0, <2>1, <2>2, <2>3, SameLeaves
  <2> QED
    BY <1>0, <2>1, <2>4, RestKeeps
<1> QED
  BY <1>1, <1>2

LEMMA QuietUpdateRests ==
    ASSUME SessionInv, SessionInv', RestInv, UpdateRetry \/ UpdateHolding \/ UpdateWrite,
           UNCHANGED plans
    PROVE  RestInv'
<1>0. RtShaped(rt) /\ ShShaped(sh) /\ UNCHANGED <<now, ex, nr, cb>>
  BY DEF SessionInv, Shapes, UpdateRetry, UpdateHolding, UpdateWrite
<1>1. sh.active => (sh.state \in RestStates => rt.desired.v = 0) /\ sh.state # "terminated"
  BY DEF RestInv, AtRest, RestStates
<1>2. CASE UpdateRetry
  <2>1. /\ UNCHANGED sh /\ rt'.pc # "idle" /\ rt'.desired = rt.desired
        /\ rt'.active = rt.active /\ rt'.stop = rt.stop /\ rt'.epoch = rt.epoch
    BY <1>0, <1>2 DEF UpdateRetry, RtShaped, RtFields
  <2>2. Moved' => Moved
    BY <1>0, <2>1 DEF Moved
  <2>3. sh.active => Leaves
    BY <1>0, <1>1, <2>1, <2>2, SameLeaves
  <2> QED
    BY <1>0, <2>1, <2>3, RestKeeps
<1>3. CASE UpdateHolding
  <2>1. /\ UNCHANGED sh /\ rt'.pc = "write" /\ sh.state \in {"none", "holding", "terminated"}
        /\ rt'.desired = At(rt.desired.pos,
                            IF sh.state = "terminated" THEN rt.desired.v ELSE 0)
    BY <1>0, <1>3 DEF UpdateHolding, InState, RtShaped, RtFields
  <2>2. Moved' => Moved
    BY <1>0, <2>1 DEF Moved, At
  <2>3. sh.active => sh.state \in RestStates /\ sh.state \notin {"running", "stopping"}
                     /\ rt'.desired.v = 0
    BY <1>1, <2>1 DEF At, RestStates
  <2>4. sh.active => Leaves
    BY <1>0, <2>1, <2>2, <2>3, SameLeaves
  <2> QED
    BY <1>0, <2>1, <2>4, RestKeeps
<1>4. CASE UpdateWrite
  <2>1. /\ rt'.pc = "idle" /\ rt'.desired = rt.desired
        /\ rt'.active = rt.active /\ rt'.stop = rt.stop /\ rt'.epoch = rt.epoch
    BY <1>0, <1>4 DEF UpdateWrite, RtShaped, RtFields
  <2>2. /\ sh'.desired = rt.desired /\ sh'.active = sh.active /\ sh'.epoch = sh.epoch
        /\ sh'.floor = sh.floor /\ sh'.state = sh.state /\ sh'.reason = sh.reason
        /\ sh'.execution = sh.execution /\ sh'.until = sh.until
    BY <1>0, <1>4 DEF UpdateWrite, ShShaped, ShFields
  <2>3. Moved' => Moved
    BY <1>0, <2>1, <2>2 DEF Moved
  <2>4. sh.active => Leaves
    BY <1>0, <1>1, <2>1, <2>2, <2>3, SameLeaves
  <2> QED
    BY <1>0, <2>1, <2>2, <2>4, RestKeeps
<1> QED
  BY <1>2, <1>3, <1>4

LEMMA UpdateStoppingRests ==
    ASSUME SessionInv, SessionInv', RestInv, NEW p \in Periods, UpdateStopping(p),
           UNCHANGED plans
    PROVE  RestInv'
<1> DEFINE step == IF sh.reason # "clock" /\ ValidPeriod(p) THEN p ELSE NominalPeriod
           elapsed == rt.stop.elapsed + step
           done == elapsed >= rt.stop.duration
<1>0. RtShaped(rt) /\ ShShaped(sh) /\ UNCHANGED <<now, ex, nr, cb>> /\ sh.state = "stopping"
  BY DEF SessionInv, Shapes, UpdateStopping, InState
<1>1. step \in Int
  BY RollingAssumption DEF Periods, NominalPeriod
<1>2. /\ rt'.pc = "write" /\ rt'.epoch = rt.epoch
      /\ rt'.desired = BrakedAt(rt.stop, elapsed)
      /\ rt'.stop = [rt.stop EXCEPT !.elapsed = elapsed,
                                    !.phase = IF done THEN "holding" ELSE rt.stop.phase]
  BY <1>0 DEF UpdateStopping, RtShaped, RtFields
<1>3. /\ sh'.active = sh.active /\ sh'.epoch = sh.epoch /\ sh'.floor = sh.floor
      /\ sh'.reason = sh.reason /\ sh'.state = IF done THEN "holding" ELSE "stopping"
  BY <1>0 DEF UpdateStopping, ShShaped, ShFields
<1>4. ASSUME sh.active PROVE Leaves
  <2>1. Braking(rt, sh)
    BY <1>0, <1>4 DEF RestInv, InMotion
  <2>2. elapsed \in Int
    BY <1>1, <2>1 DEF Braking
  <2> HIDE DEF step, elapsed
  <2>3. CASE done
    <3>1. rt'.desired.v = Max({rt.stop.from.v - elapsed, 0})
      BY <1>2 DEF BrakedAt, At, StopDuration
    <3>2. rt.stop.from.v - elapsed \in Int /\ rt.stop.from.v - elapsed <= 0
      BY <2>1, <2>2, <2>3 DEF Braking
    <3>3. rt'.desired.v = 0
      BY <3>1, <3>2, MaxOfTwo
    <3> QED
      BY <1>0, <1>3, <2>1, <2>3, <3>3 DEF Leaves, Rests, RestStates, Braking
  <2>4. CASE ~done
    <3>1. /\ DOMAIN rt'.stop = {"phase", "elapsed", "duration", "from"}
          /\ rt'.stop.elapsed = elapsed /\ rt'.stop.duration = rt.stop.duration
          /\ rt'.stop.from = rt.stop.from
      BY <1>2, <2>1 DEF Braking
    <3>2. Braking(rt', sh')
      BY <1>2, <1>3, <2>1, <2>2, <3>1 DEF Braking
    <3> QED
      BY <1>0, <1>3, <2>4, <3>2 DEF Leaves
  <2> QED
    BY <2>3, <2>4
<1> QED
  BY <1>0, <1>2, <1>3, <1>4, RestKeeps

(* A running session goes on, brakes or has come to rest.                   *)
Proceeds ==
    /\ rt'.pc = "write"
    /\ \/ sh'.state = "running" /\ OnCurve(rt', sh', ex')
       \/ sh'.state = "stopping" /\ Braking(rt', sh')
       \/ sh'.state = "holding" /\ rt'.desired.v = 0 /\ sh'.reason # "none"

LEMMA BeginRtStopRests ==
    ASSUME NEW x, NEW r, NEW s, NEW reason, DOMAIN r = RtFields, DOMAIN s = ShFields,
           BeginRtStop(x, r, s, reason), reason # "none",
           r.desired.v \in Int, r.epoch = s.epoch
    PROVE  /\ rt'.pc = "write" /\ rt'.desired = r.desired
           /\ sh'.desired = s.desired /\ sh'.reason # "none"
           /\ \/ sh'.state = "stopping" /\ r.desired.v # 0 /\ Braking(rt', sh')
              \/ sh'.state = "holding" /\ r.desired.v = 0
<1> DEFINE stop == StopFrom(r.desired)
<1>1. /\ rt'.pc = "write" /\ rt'.desired = r.desired /\ rt'.stop = stop /\ rt'.epoch = r.epoch
  BY DEF BeginRtStop, RtFields
<1>2. /\ sh'.desired = s.desired /\ sh'.epoch = s.epoch /\ sh'.state = stop.phase
      /\ sh'.reason = Reason(s.reason, reason)
  BY DEF BeginRtStop, ShFields
<1>3. sh'.reason # "none"
  BY <1>2 DEF Reason
<1>4. /\ DOMAIN stop = {"phase", "elapsed", "duration", "from"}
      /\ stop.elapsed = 0 /\ stop.duration = r.desired.v /\ stop.from = r.desired
      /\ stop.phase = IF r.desired.v = 0 THEN "holding" ELSE "stopping"
  BY DEF StopFrom, StopDuration
<1> HIDE DEF stop
<1>5. Braking(rt', sh')
  BY <1>1, <1>2, <1>3, <1>4 DEF Braking
<1> QED
  BY <1>1, <1>2, <1>3, <1>4, <1>5

LEMMA AdvanceToRests ==
    ASSUME NEW x, NEW r, NEW s, NEW t \in Int, NEW done,
           DOMAIN r = RtFields, DOMAIN s = ShFields, AdvanceTo(x, r, s, t, done),
           s.state = "running", OnCurve(r, s, x), Sound(x.slots[r.active].image),
           Covers(x.slots[r.active].image, t),
           done => t = LastTime(x.slots[r.active].image) /\ x.slots[r.active].image.final
    PROVE  Proceeds
<1> DEFINE image == x.slots[r.active].image
           point == Sample(image, t)
<1>1. IsKnot(point)
  BY SampleKnot DEF Sound
<1>2. /\ ex' = x /\ rt'.pc = "write" /\ rt'.desired = At(point.pos, point.v)
      /\ rt'.active = r.active
  BY DEF AdvanceTo, RtFields
<1>3. rt'.desired.v = point.v
  BY <1>2 DEF At
<1>4. CASE ~done
  <2>1. sh'.execution = t /\ sh'.until = s.until /\ sh'.state = s.state
    BY <1>4 DEF AdvanceTo, ShFields
  <2> HIDE DEF point
  <2> QED
    BY <1>1, <1>2, <1>3, <2>1 DEF Proceeds, OnCurve, IsKnot
<1>5. CASE done
  <2>1. sh'.state = "holding" /\ sh'.reason # "none"
    BY <1>5 DEF AdvanceTo, ShFields, Reason
  <2>2. KnotAt(image, t) = Len(image.points) /\ image.points[Len(image.points)].t = t
    BY <1>5, KnotAtLast, LastKnot DEF Sound
  <2>3. point = image.points[Len(image.points)]
    BY <2>2 DEF Sample
  <2>4. point.v = 0
    BY <1>5, <2>3 DEF Sound
  <2> HIDE DEF point
  <2> QED
    BY <1>2, <1>3, <2>1, <2>4 DEF Proceeds
<1> QED
  BY <1>4, <1>5

LEMMA FollowRests ==
    ASSUME NEW x, NEW r, NEW s, NEW p \in Periods, DOMAIN r = RtFields, DOMAIN s = ShFields,
           Follow(x, r, s, p), s.state = "running", r.epoch = s.epoch,
           OnCurve(r, s, x), Sound(x.slots[r.active].image)
    PROVE  Proceeds
<1> DEFINE image == x.slots[r.active].image
           next == s.execution + p
           t == Min({next, s.until})
<1>1. p \in Int /\ s.execution \in Int /\ next \in Int /\ s.until \in Int /\ MaxPeriod \in Int
      /\ s.until = LastTime(image) /\ r.desired.v \in Int
  <2>1. p \in Int /\ MaxPeriod \in Int
    BY RollingAssumption DEF Periods, NominalPeriod
  <2>2. LastTime(image) \in Int
    BY LastKnot DEF Sound
  <2> QED
    BY <2>1, <2>2 DEF OnCurve
<1>2. ASSUME NEW reason, reason # "none", BeginRtStop(x, r, s, reason) PROVE Proceeds
  BY <1>1, <1>2, BeginRtStopRests DEF Proceeds
<1>3. ASSUME ValidPeriod(p), image.final, AdvanceTo(x, r, s, t, next >= s.until)
      PROVE  Proceeds
  <2>1. t = IF next <= s.until THEN next ELSE s.until
    BY <1>1, MinOfTwo
  <2>2. t \in Int /\ s.execution <= t /\ t <= s.until
    BY <1>1, <1>3, <2>1 DEF ValidPeriod, OnCurve, Covers
  <2>3. next >= s.until => t = s.until
    BY <1>1, <2>1
  <2>4. Covers(image, t)
    <3>1. image.points # <<>> /\ FirstTime(image) <= s.execution /\ FirstTime(image) \in Int
      BY LastKnot DEF Sound, OnCurve, Covers
    <3> QED
      BY <1>1, <2>2, <3>1 DEF Covers
  <2> HIDE DEF t, next
  <2> QED
    BY <1>1, <1>3, <2>2, <2>3, <2>4, AdvanceToRests
<1>4. ASSUME Covers(image, next), AdvanceTo(x, r, s, next, FALSE) PROVE Proceeds
  BY <1>1, <1>4, AdvanceToRests
<1>5. \/ \E reason \in {"clock", "timeout", "lowWater", "internal"} :
             BeginRtStop(x, r, s, reason)
      \/ ValidPeriod(p) /\ image.final /\ AdvanceTo(x, r, s, t, next >= s.until)
      \/ Covers(image, next) /\ AdvanceTo(x, r, s, next, FALSE)
  BY Zenon DEF Follow
<1>6. \A reason \in {"clock", "timeout", "lowWater", "internal"} : reason # "none"
  OBVIOUS
<1> HIDE DEF t, next, image
<1> QED
  BY <1>2, <1>3, <1>4, <1>5, <1>6

(* consumeLatestRtTrajectory puts the session on the curve it consumed.     *)
LEMMA ConsumeLatestOnCurve ==
    ASSUME SessionInv, RestInv, Coherent, sh.active, sh.state \in {"priming", "running"},
           Fresh => Acceptable(sh.state = "priming"), ConsumedSh.state = "running"
    PROVE  /\ OnCurve(ConsumedRt, ConsumedSh, ConsumedX)
           /\ Sound(ConsumedX.slots[ConsumedRt.active].image)
<1>0. RtShaped(rt) /\ ShShaped(sh) /\ Owned(ex) /\ sh.epoch > 0 /\ rt.floor = sh.floor
  BY DEF SessionInv, Shapes, Epochs, Coherent
<1>1. ConsumedX.slots = ex.slots
  BY <1>0, AcquireOwned DEF ConsumedX
<1>2. CASE ~Fresh
  <2>1. ConsumedRt = rt /\ ConsumedSh = sh /\ sh.state = "running"
    BY <1>2 DEF ConsumedRt, ConsumedSh
  <2>2. Following(rt, sh, ex) /\ OnCurve(rt, sh, ex)
    BY <2>1 DEF SessionInv, Follows, RestInv, InMotion
  <2>3. rt.active \in 0 .. 2 /\ ex.slots[rt.active].sequence >= sh.floor
    BY <1>0, <2>2 DEF Following, Owned
  <2>4. Sound(ex.slots[rt.active].image)
    BY <1>0, <2>3 DEF RestInv, SoundCurves
  <2> QED
    BY <1>1, <2>1, <2>2, <2>4 DEF OnCurve
<1>3. CASE Fresh
  <2> DEFINE image == Latest.image
             point == Sample(image, sh.execution)
  <2>1. ex.middle \in 0 .. 2 /\ Latest.sequence >= sh.floor
    BY <1>0, <1>3 DEF Owned, Fresh
  <2>2. Sound(image)
    BY <1>0, <2>1 DEF RestInv, SoundCurves, Latest
  <2>3. sh.execution \in Int /\ Covers(image, sh.execution)
    <3>1. CASE sh.state = "priming"
      <4>1. sh.execution = 0 /\ FirstTime(image) = 0
        BY <1>3, <3>1 DEF Acceptable
      <4>2. image.points # <<>> /\ FirstTime(image) <= LastTime(image)
        BY <2>2, LastKnot DEF Sound, Ascends
      <4> QED
        BY <4>1, <4>2 DEF Covers
    <3>2. CASE sh.state = "running"
      BY <1>3, <3>2 DEF Acceptable, RestInv, InMotion, OnCurve
    <3> QED
      BY <3>1, <3>2
  <2>4. IsKnot(point)
    BY <2>2, <2>3, SampleKnot DEF Sound
  <2>5. ConsumedRt.active = ex.middle /\ ConsumedRt.desired = At(point.pos, point.v)
    BY <1>0, <1>3 DEF ConsumedRt, RtShaped, RtFields
  <2>6. ConsumedSh.execution = sh.execution /\ ConsumedSh.until = LastTime(image)
    BY <1>0, <1>3 DEF ConsumedSh, ShShaped, ShFields
  <2>7. ConsumedRt.desired.v \in Int
    BY <2>4, <2>5 DEF At, IsKnot
  <2>8. ConsumedX.slots[ConsumedRt.active].image = image
    BY <1>1, <2>5 DEF Latest
  <2> HIDE DEF image
  <2> QED
    BY <2>2, <2>3, <2>6, <2>7, <2>8 DEF OnCurve
<1> QED
  BY <1>2, <1>3

(* What the consumption leaves alone.                                       *)
LEMMA ConsumeLatestLeaves ==
    ASSUME SessionInv
    PROVE  /\ DOMAIN ConsumedRt = RtFields /\ DOMAIN ConsumedSh = ShFields
           /\ ConsumedRt.epoch = rt.epoch /\ ConsumedSh.epoch = sh.epoch
           /\ ConsumedSh.desired = sh.desired /\ ConsumedSh.active = sh.active
           /\ ConsumedSh.floor = sh.floor /\ ConsumedSh.reason = sh.reason
           /\ ConsumedX.slots = ex.slots
           /\ \/ ConsumedSh.state = "running"
              \/ ConsumedSh.state = sh.state /\ ConsumedRt.desired = rt.desired
<1>0. RtShaped(rt) /\ ShShaped(sh) /\ Owned(ex)
  BY DEF SessionInv, Shapes
<1>1. ConsumedX.slots = ex.slots
  BY <1>0, AcquireOwned DEF ConsumedX
<1>2. /\ DOMAIN ConsumedRt = RtFields /\ ConsumedRt.epoch = rt.epoch
      /\ ~Fresh => ConsumedRt.desired = rt.desired
  BY <1>0 DEF ConsumedRt, RtShaped, RtFields
<1>3. /\ DOMAIN ConsumedSh = ShFields /\ ConsumedSh.epoch = sh.epoch
      /\ ConsumedSh.desired = sh.desired /\ ConsumedSh.active = sh.active
      /\ ConsumedSh.floor = sh.floor /\ ConsumedSh.reason = sh.reason
      /\ ConsumedSh.state = IF Fresh THEN "running" ELSE sh.state
  BY <1>0 DEF ConsumedSh, ShShaped, ShFields
<1> QED
  BY <1>1, <1>2, <1>3

LEMMA UpdatePrimingRests ==
    ASSUME SessionInv, SessionInv', RestInv, UpdatePriming, UNCHANGED plans
    PROVE  RestInv'
<1>0. /\ RtShaped(rt) /\ ShShaped(sh) /\ Owned(ex) /\ UNCHANGED <<now, nr, cb>>
      /\ Coherent /\ sh.state = "priming"
  BY DEF SessionInv, Shapes, UpdatePriming, InState
<1>1. sh.active => rt.desired.v = 0
  BY <1>0 DEF RestInv, AtRest, RestStates
<1>2. sh'.active = sh.active /\ sh'.epoch = sh.epoch /\ sh'.floor = sh.floor
      /\ ex'.slots = ex.slots /\ rt'.pc = "write"
  <2>1. CASE \E x \in {ex, Acquire(ex)} : BeginRtStop(x, rt, sh, "internal")
    <3>1. PICK x \in {ex, Acquire(ex)} : BeginRtStop(x, rt, sh, "internal")
      BY <2>1
    <3>2. Moves(x, rt, sh)
      BY <1>0, <3>1, BeginRtStopMoves DEF RtShaped, ShShaped
    <3>3. x.slots = ex.slots
      BY <1>0, AcquireOwned
    <3> QED
      BY <3>2, <3>3 DEF Moves
  <2>2. CASE rt' = [rt EXCEPT !.pc = "write"] /\ UNCHANGED <<sh, ex>>
    BY <1>0, <2>2 DEF RtShaped, RtFields
  <2>3. CASE ex' = ConsumedX /\ rt' = [ConsumedRt EXCEPT !.pc = "write"] /\ sh' = ConsumedSh
    BY <2>3, ConsumeLatestLeaves DEF RtFields
  <2> QED
    BY <2>1, <2>2, <2>3 DEF UpdatePriming
<1>3. ASSUME sh.active PROVE Leaves
  <2>1. ASSUME NEW x, BeginRtStop(x, rt, sh, "internal") PROVE Leaves
    <3>1. rt.desired.v \in Int /\ rt.desired.v = 0 /\ rt.epoch = sh.epoch
      BY <1>0, <1>1, <1>3 DEF Coherent
    <3>2. /\ rt'.desired = rt.desired /\ sh'.desired = sh.desired /\ sh'.reason # "none"
          /\ sh'.state = "holding"
      BY <1>0, <2>1, <3>1, BeginRtStopRests DEF RtShaped, ShShaped
    <3>3. Moved' => Moved
      BY <1>0, <3>2 DEF Moved
    <3> QED
      BY <3>1, <3>2, <3>3 DEF Leaves, Rests
  <2>2. ASSUME rt' = [rt EXCEPT !.pc = "write"], UNCHANGED <<sh, ex>> PROVE Leaves
    <3>1. rt'.desired = rt.desired
      BY <1>0, <2>2 DEF RtShaped, RtFields
    <3>2. Moved' => Moved
      BY <1>0, <2>2, <3>1 DEF Moved
    <3> QED
      BY <1>0, <1>1, <1>3, <2>2, <3>1, <3>2 DEF Leaves, Rests, RestStates
  <2>3. ASSUME Fresh => Acceptable(TRUE), ex' = ConsumedX, sh' = ConsumedSh,
               rt' = [ConsumedRt EXCEPT !.pc = "write"]
        PROVE  Leaves
    <3>1. rt'.active = ConsumedRt.active /\ rt'.desired = ConsumedRt.desired
      BY <2>3, ConsumeLatestLeaves DEF RtFields
    <3>2. CASE ConsumedSh.state = "running"
      <4>1. Fresh => Acceptable(sh.state = "priming")
        BY <1>0, <2>3 DEF Acceptable
      <4>2. OnCurve(ConsumedRt, ConsumedSh, ConsumedX)
        BY <1>0, <1>3, <3>2, <4>1, ConsumeLatestOnCurve
      <4> HIDE DEF ConsumedRt, ConsumedSh, ConsumedX
      <4>3. OnCurve(rt', sh', ex')
        BY <2>3, <3>1, <4>2 DEF OnCurve
      <4> QED
        BY <2>3, <3>2, <4>3 DEF Leaves
    <3>3. CASE ConsumedSh.state # "running"
      <4>1. /\ sh'.state = sh.state /\ rt'.desired = rt.desired /\ sh'.desired = sh.desired
            /\ sh'.reason = sh.reason
        BY <2>3, <3>1, <3>3, ConsumeLatestLeaves
      <4>2. Moved' => Moved
        BY <1>0, <4>1 DEF Moved
      <4> QED
        BY <1>0, <1>1, <1>3, <4>1, <4>2 DEF Leaves, Rests, RestStates
    <3> QED
      BY <3>2, <3>3
  <2> QED
    BY <2>1, <2>2, <2>3 DEF UpdatePriming
<1> QED
  BY <1>0, <1>2, <1>3, RestKeeps

LEMMA UpdateRunningRests ==
    ASSUME SessionInv, SessionInv', RestInv, UpdateRunning, UNCHANGED plans
    PROVE  RestInv'
<1>0. /\ RtShaped(rt) /\ ShShaped(sh) /\ Owned(ex) /\ UNCHANGED <<now, nr, cb>>
      /\ Coherent /\ sh.state = "running"
  BY DEF SessionInv, Shapes, UpdateRunning, InState
<1>1. sh.active => OnCurve(rt, sh, ex)
  BY <1>0 DEF RestInv, InMotion
<1>2. sh'.active = sh.active /\ sh'.epoch = sh.epoch /\ sh'.floor = sh.floor
      /\ ex'.slots = ex.slots /\ rt'.pc = "write"
  <2>1. CASE \E x \in {ex, Acquire(ex)} : BeginRtStop(x, rt, sh, "internal")
    <3>1. PICK x \in {ex, Acquire(ex)} : BeginRtStop(x, rt, sh, "internal")
      BY <2>1
    <3>2. Moves(x, rt, sh)
      BY <1>0, <3>1, BeginRtStopMoves DEF RtShaped, ShShaped
    <3>3. x.slots = ex.slots
      BY <1>0, AcquireOwned
    <3> QED
      BY <3>2, <3>3 DEF Moves
  <2>2. CASE rt' = [rt EXCEPT !.pc = "write"] /\ UNCHANGED <<sh, ex>>
    BY <1>0, <2>2 DEF RtShaped, RtFields
  <2>3. CASE \E p \in Periods : Follow(ConsumedX, ConsumedRt, ConsumedSh, p)
    <3>1. Moves(ConsumedX, ConsumedRt, ConsumedSh)
      BY <2>3, ConsumeLatestLeaves, FollowMoves
    <3> QED
      BY <3>1, ConsumeLatestLeaves DEF Moves
  <2> QED
    BY <2>1, <2>2, <2>3 DEF UpdateRunning
<1>3. ASSUME sh.active PROVE Leaves
  <2>0. rt.desired.v \in Int /\ rt.epoch = sh.epoch
    BY <1>0, <1>1, <1>3 DEF Coherent, OnCurve
  <2>1. ASSUME Proceeds PROVE Leaves
    BY <1>0, <2>1 DEF Proceeds, Leaves, Rests, RestStates
  <2>2. ASSUME NEW x, BeginRtStop(x, rt, sh, "internal") PROVE Proceeds
    BY <1>0, <2>0, <2>2, BeginRtStopRests DEF Proceeds, RtShaped, ShShaped
  <2>3. ASSUME rt' = [rt EXCEPT !.pc = "write"], UNCHANGED <<sh, ex>> PROVE Proceeds
    <3>1. rt'.desired = rt.desired /\ rt'.active = rt.active /\ rt'.pc = "write"
      BY <1>0, <2>3 DEF RtShaped, RtFields
    <3> QED
      BY <1>0, <1>1, <1>3, <2>3, <3>1 DEF Proceeds, OnCurve
  <2>4. ASSUME Fresh => Acceptable(FALSE), NEW p \in Periods,
               Follow(ConsumedX, ConsumedRt, ConsumedSh, p)
        PROVE  Proceeds
    <3>1. Fresh => Acceptable(sh.state = "priming")
      BY <1>0, <2>4 DEF Acceptable
    <3>2. ConsumedSh.state = "running" /\ ConsumedRt.epoch = ConsumedSh.epoch
      BY <1>0, <2>0, ConsumeLatestLeaves
    <3>3. /\ OnCurve(ConsumedRt, ConsumedSh, ConsumedX)
          /\ Sound(ConsumedX.slots[ConsumedRt.active].image)
      BY <1>0, <1>3, <3>1, <3>2, ConsumeLatestOnCurve
    <3>4. DOMAIN ConsumedRt = RtFields /\ DOMAIN ConsumedSh = ShFields
      BY ConsumeLatestLeaves
    <3> HIDE DEF ConsumedRt, ConsumedSh, ConsumedX
    <3> QED
      BY <2>4, <3>2, <3>3, <3>4, FollowRests
  <2> QED
    BY <2>1, <2>2, <2>3, <2>4 DEF UpdateRunning
<1> QED
  BY <1>0, <1>2, <1>3, RestKeeps

LEMMA RealTimeRests ==
    ASSUME SessionInv, SessionInv', RestInv, RealTime, UNCHANGED plans
    PROVE  RestInv'
<1>0. RtShaped(rt)
  BY DEF SessionInv, Shapes
<1>1. CASE UpdateEpoch
  <2> DEFINE r == [rt EXCEPT !.last = now]
  <2>1. /\ DOMAIN r = RtFields /\ r.epoch = rt.epoch /\ r.active = rt.active
        /\ r.desired = rt.desired /\ r.stop = rt.stop
    BY <1>0 DEF RtShaped, RtFields
  <2>2. ReadEpoch(r)
    BY <1>1 DEF UpdateEpoch
  <2> HIDE DEF r
  <2> QED
    BY <2>1, <2>2, ReadEpochRests
<1>2. CASE UpdateEpochAgain
  BY <1>0, <1>2, ReadEpochRests DEF UpdateEpochAgain, RtShaped
<1>3. CASE \E p \in Periods : UpdateStopping(p)
  BY <1>3, UpdateStoppingRests
<1> QED
  BY <1>1, <1>2, <1>3, QuietUpdateRests, UpdatePrimingRests, UpdateRunningRests DEF RealTime

-----------------------------------------------------------------------------
(* The callback and the lifecycle again.                                    *)

(* A step of the callback that opens no session.                            *)
LEMMA CallbackRests ==
    ASSUME SessionInv, RestInv, UNCHANGED <<now, rt, ex, plans>>,
           sh'.active = sh.active, sh'.state = sh.state, sh'.epoch = sh.epoch,
           sh'.floor = sh.floor, sh'.execution = sh.execution, sh'.until = sh.until,
           sh'.desired = sh.desired, sh'.reason = sh.reason \/ sh'.reason # "none",
           nr'.image = nr.image, nr'.anchor = nr.anchor, nr'.activation = nr.activation,
           nr'.previous = nr.previous, nr'.origin = nr.origin, nr'.sequence \in Nat,
           cb.pc # "prime", cb'.pc # "prime",
           cb'.pc = "lock" => nr.activation > 0 /\ nr'.sequence < Len(plans[nr.activation]),
           cb'.pc \in {"start", "prepare"} => IsMessage(cb'.msg) /\ cb'.offset \in Int,
           cb'.pc = "start" => sh.state \in RestStates,
           cb'.pc = "commit" => Sound(cb'.candidate)
    PROVE  RestInv'
<1>1. Clocks'
  BY DEF RestInv, Clocks
<1>2. SoundCurves'
  BY DEF RestInv, SoundCurves
<1>3. InMotion'
  BY DEF RestInv, InMotion, OnCurve, Braking
<1>4. AtRest'
  BY DEF RestInv, AtRest
<1>5. Told'
  BY DEF RestInv, Told, Moved, TrajectoryPending
<1> QED
  BY <1>1, <1>2, <1>3, <1>4, <1>5 DEF RestInv

LEMMA FinishRests ==
    ASSUME SessionInv, RestInv, UNCHANGED <<now, rt, ex, plans>>, cb.pc # "prime",
           NEW n, NEW s, NEW result, Finish(n, s, result), DOMAIN s = ShFields,
           s.active = sh.active, s.state = sh.state, s.epoch = sh.epoch,
           s.floor = sh.floor, s.execution = sh.execution, s.until = sh.until,
           s.desired = sh.desired, s.reason = sh.reason \/ s.reason # "none",
           n.image = nr.image, n.anchor = nr.anchor, n.activation = nr.activation,
           n.previous = nr.previous, n.origin = nr.origin, n.sequence \in Nat
    PROVE  RestInv'
<1>1. /\ sh'.active = sh.active /\ sh'.state = sh.state /\ sh'.epoch = sh.epoch
      /\ sh'.floor = sh.floor /\ sh'.execution = sh.execution /\ sh'.until = sh.until
      /\ sh'.desired = sh.desired /\ sh'.reason = s.reason
  BY DEF Finish, ShFields
<1>2. nr' = n /\ cb'.pc = "idle"
  BY DEF Finish, Quiet
<1> QED
  BY <1>1, <1>2, CallbackRests

(* Every message comes from the client's plan.                              *)
LEMMA MessagesTyped ==
    ASSUME RestInv, cb.pc = "lock", NEW m \in Messages
    PROVE  IsMessage(m) /\ m.seq \in Nat
<1> DEFINE R == [delay : Nat, length : Nat, v : Nat, final : BOOLEAN, match : BOOLEAN]
           next == nr.sequence + 1
<1>1. /\ now \in Nat /\ plans \in Scenarios /\ nr.sequence \in Nat
      /\ nr.activation \in 1 .. Len(plans) /\ nr.sequence < Len(plans[nr.activation])
  BY DEF RestInv, Clocks
<1>2. plans \in Seq(Seq(SUBSET R))
  BY <1>1, RollingAssumption
<1> HIDE DEF R
<1>3. plans[nr.activation] \in Seq(SUBSET R)
  BY <1>1, <1>2
<1>4. next \in 1 .. Len(plans[nr.activation])
  BY <1>1, <1>3
<1> HIDE DEF next
<1>5. plans[nr.activation][next] \in SUBSET R
  BY <1>3, <1>4
<1>6. PICK e \in Int, q \in {next, nr.sequence}, p \in plans[nr.activation][next] :
          m = [epoch |-> e, seq |-> q, from |-> now + p.delay, length |-> p.length,
               v |-> p.v, final |-> p.final, match |-> p.match]
  <2>1. nr.activation \in Int /\ nr.activation - 1 \in Int
    BY <1>1
  <2> QED
    BY <2>1 DEF Messages, next
<1>7. p.delay \in Nat /\ p.length \in Nat /\ p.v \in Nat /\ p.final \in BOOLEAN
  BY <1>5, <1>6 DEF R
<1>8. now + p.delay \in Int /\ q \in Nat
  BY <1>1, <1>7, <1>6 DEF next
<1> QED
  BY <1>6, <1>7, <1>8 DEF IsMessage

LEMMA ReceiveBatchRests ==
    ASSUME SessionInv, RestInv, ReceiveBatch, UNCHANGED plans PROVE RestInv'
<1>1. /\ sh'.active = sh.active /\ sh'.state = sh.state /\ sh'.epoch = sh.epoch
      /\ sh'.floor = sh.floor /\ sh'.execution = sh.execution /\ sh'.until = sh.until
      /\ sh'.desired = sh.desired /\ sh'.reason = sh.reason
  BY DEF SessionInv, Shapes, ShShaped, ReceiveBatch, ShFields
<1>2. cb.pc # "prime" /\ cb'.pc = "lock" /\ UNCHANGED <<now, rt, ex, nr>>
      /\ nr.activation > 0 /\ nr.sequence < Len(plans[nr.activation])
  BY DEF ReceiveBatch, Quiet
<1>3. nr.sequence \in Nat
  BY DEF RestInv, Clocks
<1> QED
  BY <1>1, <1>2, <1>3, CallbackRests

LEMMA AdmitBatchRests ==
    ASSUME SessionInv, RestInv, NEW m \in Messages, AdmitBatch(m), UNCHANGED plans
    PROVE  RestInv'
<1> DEFINE n == [nr EXCEPT !.sequence = m.seq]
<1>0. /\ DOMAIN nr = NrFields /\ DOMAIN sh = ShFields /\ DOMAIN cb = CbFields
      /\ UNCHANGED <<now, rt, ex>> /\ cb.pc = "lock"
      /\ nr.sequence \in Nat /\ nr.origin \in Int
  BY DEF SessionInv, Shapes, ShShaped, AdmitBatch, RestInv, Clocks
<1>1. IsMessage(m) /\ m.seq \in Nat
  BY <1>0, MessagesTyped
<1>2. /\ n.image = nr.image /\ n.anchor = nr.anchor /\ n.activation = nr.activation
      /\ n.previous = nr.previous /\ n.origin = nr.origin /\ n.sequence \in Nat
  BY <1>0, <1>1 DEF NrFields
<1> HIDE DEF n
<1>3. CASE ~sh.active
  <2>1. cb' = Quiet /\ sh' = [sh EXCEPT !.gate = FALSE] /\ nr' = nr
    BY <1>3 DEF AdmitBatch
  <2>2. /\ sh'.active = sh.active /\ sh'.state = sh.state /\ sh'.epoch = sh.epoch
        /\ sh'.floor = sh.floor /\ sh'.execution = sh.execution /\ sh'.until = sh.until
        /\ sh'.desired = sh.desired /\ sh'.reason = sh.reason
    BY <1>0, <2>1 DEF ShFields
  <2>3. cb'.pc = "idle"
    BY <2>1 DEF Quiet
  <2> QED
    BY <1>0, <2>1, <2>2, <2>3, CallbackRests
<1>4. CASE \E result \in Results : Finish(nr, sh, result) \/ Finish(n, sh, result)
  BY <1>0, <1>2, <1>4, FinishRests
<1>5. CASE \E pc \in {"prepare", "start"}, o \in {0, m.from - nr.origin} :
               /\ cb' = [cb EXCEPT !.pc = pc, !.msg = m, !.offset = o]
               /\ nr' = n /\ UNCHANGED sh
               /\ pc = "start" => sh.active /\ ~InSession
                                  /\ sh.state \notin {"stopping", "terminated"}
  <2>1. PICK pc \in {"prepare", "start"}, o \in {0, m.from - nr.origin} :
            /\ cb' = [cb EXCEPT !.pc = pc, !.msg = m, !.offset = o]
            /\ nr' = n /\ UNCHANGED sh
            /\ pc = "start" => sh.active /\ ~InSession
                               /\ sh.state \notin {"stopping", "terminated"}
    BY <1>5
  <2>2. cb'.pc = pc /\ cb'.msg = m /\ cb'.offset = o
    BY <1>0, <2>1 DEF CbFields
  <2>3. o \in Int
    BY <1>0, <1>1, <2>1 DEF IsMessage
  <2>4. pc = "start" => sh.state \in RestStates
    BY <2>1 DEF InSession, RestInv, AtRest, RestStates
  <2>5. pc \notin {"prime", "commit", "lock"}
    OBVIOUS
  <2> QED
    BY <1>0, <1>1, <1>2, <2>1, <2>2, <2>3, <2>4, <2>5, CallbackRests
<1>6. \/ ~sh.active
      \/ \E result \in Results : Finish(nr, sh, result) \/ Finish(n, sh, result)
      \/ \E pc \in {"prepare", "start"}, o \in {0, m.from - nr.origin} :
             /\ cb' = [cb EXCEPT !.pc = pc, !.msg = m, !.offset = o]
             /\ nr' = n /\ UNCHANGED sh
             /\ pc = "start" => sh.active /\ ~InSession
                                /\ sh.state \notin {"stopping", "terminated"}
  BY Zenon DEF AdmitBatch, Results, n
<1> QED
  BY <1>3, <1>4, <1>5, <1>6

LEMMA StartSessionRests ==
    ASSUME SessionInv, RestInv, StartSession, UNCHANGED plans PROVE RestInv'
<1>0. /\ DOMAIN nr = NrFields /\ ShShaped(sh) /\ Owned(ex) /\ DOMAIN cb = CbFields
      /\ UNCHANGED <<now, rt, ex>> /\ cb.pc = "start" /\ sh.active /\ ~InSession
      /\ sh.state \in RestStates /\ IsMessage(cb.msg) /\ cb.offset \in Int
  BY DEF SessionInv, Shapes, CallbackHolds, RestInv, AtRest, SoundCurves, StartSession
<1>1. /\ nr'.image = EmptyImage /\ IsKnot(nr'.anchor) /\ nr'.anchor.t = 0
      /\ nr'.activation = nr.activation /\ nr'.sequence = nr.sequence
      /\ nr'.origin = cb.msg.from
      /\ nr'.previous = IF sh.reason = "none" THEN nr.previous ELSE sh.reason
  BY <1>0 DEF StartSession, NrFields, IsKnot
<1>2. /\ sh'.active = sh.active /\ sh'.state = sh.state /\ sh'.floor = ex.sequence + 1
      /\ sh'.desired = sh.desired
  BY <1>0 DEF StartSession, ShShaped, ShFields
<1>3. cb'.pc = "prime" /\ cb'.msg = cb.msg /\ cb'.offset = cb.offset
  BY <1>0 DEF StartSession, CbFields
<1>4. nr'.image.points = <<>>
  BY <1>1 DEF EmptyImage
<1>5. Clocks'
  BY <1>0, <1>1, <1>3 DEF RestInv, Clocks, IsMessage
<1>6. \A i \in 0 .. 2 : ~(ex'.slots[i].sequence >= sh'.floor)
  BY <1>0, <1>2 DEF Owned
<1>7. SoundCurves'
  BY <1>0, <1>1, <1>3, <1>4, <1>6 DEF SoundCurves
<1>8. InMotion' /\ AtRest'
  BY <1>0, <1>2, <1>3 DEF InMotion, RestInv, AtRest, RestStates
<1>9. Told'
  <2> SUFFICES ASSUME Moved' PROVE sh'.state # "none" /\ nr'.previous # "none"
    BY <1>3 DEF Told
  <2>1. Moved
    BY <1>0, <1>1, <1>2 DEF Moved
  <2>2. /\ sh.state # "none" /\ (sh.state = "holding" => sh.reason # "none")
        /\ (sh.state = "priming" => nr.previous # "none")
    BY <1>0, <2>1 DEF RestInv, Told, TrajectoryPending, InSession
  <2> QED
    BY <1>0, <1>1, <1>2, <2>2 DEF RestStates
<1> QED
  BY <1>5, <1>7, <1>8, <1>9 DEF RestInv

LEMMA StartPrimingRests ==
    ASSUME SessionInv, RestInv, StartPriming, UNCHANGED plans PROVE RestInv'
<1>0. /\ ShShaped(sh) /\ DOMAIN cb = CbFields /\ UNCHANGED <<now, rt, ex, nr>>
      /\ cb.pc = "prime" /\ sh.active /\ sh.state \in RestStates
      /\ IsMessage(cb.msg) /\ cb.offset \in Int
  BY DEF SessionInv, Shapes, CallbackHolds, RestInv, AtRest, SoundCurves, StartPriming
<1>1. /\ sh'.active = sh.active /\ sh'.state = "priming" /\ sh'.epoch = sh.epoch
      /\ sh'.floor = sh.floor /\ sh'.desired = sh.desired
  BY <1>0 DEF StartPriming, ShShaped, ShFields
<1>2. cb'.pc = "prepare" /\ cb'.msg = cb.msg /\ cb'.offset = cb.offset
  BY <1>0 DEF StartPriming, CbFields
<1>3. Clocks'
  BY <1>0, <1>2 DEF RestInv, Clocks
<1>4. SoundCurves'
  BY <1>0, <1>1, <1>2 DEF RestInv, SoundCurves
<1>5. InMotion'
  BY <1>1 DEF InMotion
<1>6. AtRest'
  BY <1>0, <1>1, <1>2 DEF RestInv, AtRest, RestStates
<1>7. Told'
  BY <1>0, <1>1, <1>2 DEF RestInv, Told, Moved
<1> QED
  BY <1>3, <1>4, <1>5, <1>6, <1>7 DEF RestInv

LEMMA PrepareBatchRests ==
    ASSUME SessionInv, RestInv, PrepareBatch, UNCHANGED plans PROVE RestInv'
<1> DEFINE b == BatchOf(cb.msg, cb.offset)
           p == Prepare(nr.image, nr.anchor, b, Context)
<1>0. /\ DOMAIN sh = ShFields /\ DOMAIN cb = CbFields /\ UNCHANGED <<now, rt, ex>>
      /\ cb.pc = "prepare" /\ nr.sequence \in Nat /\ IsMessage(cb.msg) /\ cb.offset \in Int
      /\ IsKnot(nr.anchor) /\ nr.anchor.t = 0 /\ (nr.image.points # <<>> => Sound(nr.image))
      /\ nr.image.points \in Seq(Knots(nr.image.points))
  BY DEF SessionInv, Shapes, ShShaped, OwnCurves, Drawn, RestInv, Clocks, SoundCurves,
         PrepareBatch
<1>1. b.from \in Int /\ b.end \in Int /\ b.v \in Int
  BY <1>0 DEF BatchOf, IsMessage
<1>2. \/ p.code = "ACCEPTED" /\ UNCHANGED <<nr, sh>>
             /\ cb' = [cb EXCEPT !.pc = "commit", !.candidate = p.image]
      \/ Finish(nr, sh, p.code)
  BY DEF PrepareBatch
<1> HIDE DEF b
<1>3. p.code = "ACCEPTED" => Sound(p.image)
  BY <1>0, <1>1, PreparedSound
<1> HIDE DEF p
<1>4. CASE p.code = "ACCEPTED" /\ UNCHANGED <<nr, sh>>
           /\ cb' = [cb EXCEPT !.pc = "commit", !.candidate = p.image]
  <2>1. cb'.pc = "commit" /\ cb'.candidate = p.image
    BY <1>0, <1>4 DEF CbFields
  <2> QED
    BY <1>0, <1>3, <1>4, <2>1, CallbackRests
<1>5. CASE Finish(nr, sh, p.code)
  BY <1>0, <1>5, FinishRests
<1> QED
  BY <1>2, <1>4, <1>5

LEMMA CommitBatchRests ==
    ASSUME SessionInv, RestInv, CommitBatch, UNCHANGED plans PROVE RestInv'
<1>0. /\ DOMAIN nr = NrFields /\ DOMAIN sh = ShFields /\ DOMAIN cb = CbFields
      /\ UNCHANGED <<now, rt, ex>> /\ cb.pc = "commit" /\ nr.sequence \in Nat
      /\ Sound(cb.candidate) /\ cb.candidate.points # <<>>
  BY DEF SessionInv, Shapes, ShShaped, CallbackHolds, RestInv, Clocks, SoundCurves, CommitBatch
<1>1. CASE \E code : Finish(nr, sh, code)
  BY <1>0, <1>1, FinishRests
<1>2. CASE /\ nr' = [nr EXCEPT !.image = cb.candidate]
           /\ cb' = [cb EXCEPT !.pc = "publish"]
           /\ UNCHANGED sh
  <2>1. /\ nr'.image = cb.candidate /\ nr'.anchor = nr.anchor
        /\ nr'.activation = nr.activation /\ nr'.sequence = nr.sequence
        /\ nr'.origin = nr.origin /\ nr'.previous = nr.previous
    BY <1>0, <1>2 DEF NrFields
  <2>2. cb'.pc = "publish"
    BY <1>0, <1>2 DEF CbFields
  <2>3. Clocks'
    BY <1>0, <2>1, <2>2 DEF RestInv, Clocks
  <2>4. SoundCurves'
    BY <1>0, <1>2, <2>1, <2>2 DEF RestInv, SoundCurves
  <2>5. InMotion' /\ AtRest'
    BY <1>0, <1>2, <2>2 DEF RestInv, InMotion, AtRest
  <2>6. Told'
    BY <1>0, <1>2, <2>1, <2>2 DEF RestInv, Told, Moved, TrajectoryPending
  <2> QED
    BY <2>3, <2>4, <2>5, <2>6 DEF RestInv
<1> QED
  BY <1>1, <1>2 DEF CommitBatch

LEMMA PublishBatchRests ==
    ASSUME SessionInv, RestInv, PublishBatch, UNCHANGED plans PROVE RestInv'
<1>0. /\ ShShaped(sh) /\ Owned(ex) /\ UNCHANGED <<now, rt>> /\ cb.pc = "publish"
      /\ nr.sequence \in Nat /\ nr.image.points # <<>> /\ Sound(nr.image)
  BY DEF SessionInv, Shapes, CallbackHolds, RestInv, Clocks, SoundCurves, PublishBatch
<1>1. CASE ex.sequence = MaxCount
  <2> DEFINE s == [sh EXCEPT !.reason = Reason(sh.reason, "internal"), !.stopRequested = TRUE]
  <2>1. Finish(nr, s, "NOT_ACCEPTING") /\ UNCHANGED ex
    BY <1>1 DEF PublishBatch
  <2>2. /\ DOMAIN s = ShFields /\ s.active = sh.active /\ s.state = sh.state
        /\ s.epoch = sh.epoch /\ s.floor = sh.floor /\ s.execution = sh.execution
        /\ s.until = sh.until /\ s.desired = sh.desired
        /\ s.reason = Reason(sh.reason, "internal")
    BY <1>0 DEF ShShaped, ShFields
  <2>3. s.reason # "none"
    BY <2>2 DEF Reason
  <2> HIDE DEF s
  <2> QED
    BY <1>0, <2>1, <2>2, <2>3, FinishRests
<1>2. CASE ex.sequence # MaxCount
  <2>1. ex' = Publish(ex, sh.epoch, nr.image, now) /\ Finish(nr, sh, "ACCEPTED")
    BY <1>2 DEF PublishBatch
  <2>2. /\ sh'.active = sh.active /\ sh'.state = sh.state /\ sh'.epoch = sh.epoch
        /\ sh'.floor = sh.floor /\ sh'.execution = sh.execution /\ sh'.until = sh.until
        /\ sh'.desired = sh.desired /\ sh'.reason = sh.reason
    BY <1>0, <2>1 DEF Finish, ShShaped, ShFields
  <2>3. nr' = nr /\ cb'.pc = "idle"
    BY <2>1 DEF Finish, Quiet
  <2>4. /\ Owned(ex') /\ ex'.reading = ex.reading
        /\ ex'.slots[ex'.reading] = ex.slots[ex.reading]
        /\ ex'.middle = ex.writing /\ ex'.slots[ex'.middle].image = nr.image
        /\ ex'.slots[ex'.writing] = EmptySnapshot
    BY <1>0, <2>1, PublishOwned
  <2>5. Clocks' /\ AtRest' /\ Told'
    BY <1>0, <2>2, <2>3 DEF RestInv, Clocks, AtRest, Told, Moved, TrajectoryPending
  <2>6. SoundCurves'
    <3>1. \A i \in 0 .. 2 : i \in {ex'.reading, ex'.middle, ex'.writing}
      BY <2>4 DEF Owned
    <3>2. ~(ex'.slots[ex'.writing].sequence >= sh.floor)
      BY <1>0, <2>4 DEF EmptySnapshot, ShShaped
    <3>3. ex.reading \in 0 .. 2
      BY <1>0 DEF Owned
    <3>4. sh.active /\ sh.epoch > 0 /\ ex'.slots[ex'.reading].sequence >= sh.floor =>
              Sound(ex'.slots[ex'.reading].image)
      BY <2>4, <3>3 DEF RestInv, SoundCurves
    <3>5. \A i \in 0 .. 2 : sh.active /\ sh.epoch > 0 /\ ex'.slots[i].sequence >= sh.floor =>
              Sound(ex'.slots[i].image)
      BY <1>0, <2>4, <3>1, <3>2, <3>4
    <3> QED
      BY <1>0, <2>2, <2>3, <3>5 DEF RestInv, SoundCurves
  <2>7. InMotion'
    <3>1. sh.active /\ sh.state = "running" => rt.active = ex.reading
      BY DEF SessionInv, Follows, Following
    <3> QED
      BY <1>0, <2>2, <2>4, <3>1 DEF RestInv, InMotion, OnCurve, Braking
  <2> QED
    BY <2>5, <2>6, <2>7 DEF RestInv
<1> QED
  BY <1>1, <1>2

LEMMA CallbackStepRests ==
    ASSUME SessionInv, RestInv, Callback, UNCHANGED plans PROVE RestInv'
<1>1. CASE \E m \in Messages : AdmitBatch(m)
  BY <1>1, AdmitBatchRests
<1>2. CASE RefuseSession \/ ContextFails
  <2>1. /\ UNCHANGED <<now, rt, ex>> /\ Finish(nr, sh, "NOT_ACCEPTING") /\ cb.pc # "prime"
        /\ DOMAIN sh = ShFields /\ nr.sequence \in Nat
    BY <1>2 DEF RefuseSession, ContextFails, SessionInv, Shapes, ShShaped, RestInv, Clocks
  <2> QED
    BY <2>1, FinishRests
<1> QED
  BY <1>1, <1>2, StartSessionRests, StartPrimingRests, PrepareBatchRests, CommitBatchRests,
     PublishBatchRests DEF Callback

LEMMA OnActivateRests ==
    ASSUME SessionInv, RestInv, OnActivate, UNCHANGED plans PROVE RestInv'
<1> DEFINE a == nr.activation + 1
<1>0. /\ DOMAIN nr = NrFields /\ RtShaped(rt) /\ UNCHANGED <<ex, cb>>
      /\ cb.pc \in {"idle", "lock"} /\ plans \in Scenarios /\ nr.activation \in 0 .. Len(plans)
      /\ nr.activation < Len(plans) /\ now' = 0
  BY DEF SessionInv, Shapes, OnActivate, MutexFree, RestInv, Clocks
<1>1. /\ nr'.image = EmptyImage /\ nr'.activation = a /\ nr'.sequence = 0 /\ nr'.origin = 0
      /\ IsKnot(nr'.anchor) /\ nr'.anchor.t = 0
  BY <1>0 DEF OnActivate, NrFields, IsKnot
<1>2. rt'.desired = At(Source(a), 0)
  BY <1>0 DEF OnActivate, RtShaped, RtFields
<1>3. sh'.state = "none" /\ sh'.epoch = 0 /\ sh'.desired = At(Source(a), 0)
  BY DEF OnActivate
<1>4. nr'.image.points = <<>>
  BY <1>1 DEF EmptyImage
<1>5. Clocks'
  <2>1. plans \in Seq(Seq(SUBSET [delay : Nat, length : Nat, v : Nat,
                                  final : BOOLEAN, match : BOOLEAN]))
    BY <1>0, RollingAssumption
  <2>2. a \in 1 .. Len(plans) /\ a \in DOMAIN plans
    BY <1>0, <2>1
  <2>3. plans[a] # <<>>
    BY <1>0, <2>2, RollingAssumption
  <2>4. 0 < Len(plans[a])
    BY <2>1, <2>2, <2>3
  <2> QED
    BY <1>0, <1>1, <2>2, <2>4 DEF Clocks
<1>6. SoundCurves'
  BY <1>0, <1>1, <1>3, <1>4 DEF SoundCurves
<1>7. InMotion' /\ AtRest'
  BY <1>0, <1>2, <1>3 DEF InMotion, AtRest, RestStates, At
<1>8. Told'
  <2>1. ~Moved'
    BY <1>1, <1>2, <1>3 DEF Moved, At
  <2> QED
    BY <2>1 DEF Told
<1> QED
  BY <1>5, <1>6, <1>7, <1>8 DEF RestInv

LEMMA OnDeactivateRests ==
    ASSUME SessionInv, RestInv, OnDeactivate, UNCHANGED plans PROVE RestInv'
<1>0. /\ DOMAIN nr = NrFields /\ ShShaped(sh) /\ UNCHANGED <<now, rt, ex, cb>>
      /\ cb.pc \in {"idle", "lock"}
  BY DEF SessionInv, Shapes, OnDeactivate, MutexFree
<1>1. /\ nr'.image = EmptyImage /\ nr'.anchor = nr.anchor /\ nr'.activation = nr.activation
      /\ nr'.sequence = nr.sequence /\ nr'.origin = nr.origin
  BY <1>0 DEF OnDeactivate, NrFields
<1>2. sh'.active = FALSE /\ sh'.desired = sh.desired
  BY <1>0 DEF OnDeactivate, ShShaped, ShFields
<1>3. nr'.image.points = <<>>
  BY <1>1 DEF EmptyImage
<1>4. Clocks'
  BY <1>0, <1>1 DEF RestInv, Clocks
<1>5. SoundCurves'
  BY <1>0, <1>1, <1>2, <1>3 DEF RestInv, SoundCurves
<1>6. InMotion' /\ AtRest' /\ Told'
  BY <1>0, <1>2 DEF RestInv, InMotion, AtRest, Told
<1> QED
  BY <1>4, <1>5, <1>6 DEF RestInv

LEMMA RestStarts == RollingInit => RestInv
<1> SUFFICES ASSUME RollingInit PROVE RestInv
  OBVIOUS
<1>1. sh.active = FALSE /\ sh.desired = rt.desired
  BY DEF RollingInit
<1>2. /\ nr.activation = 0 /\ nr.sequence = 0 /\ nr.origin = 0 /\ nr.image.points = <<>>
      /\ IsKnot(nr.anchor) /\ nr.anchor.t = 0 /\ cb.pc = "idle"
  BY DEF RollingInit, Quiet, EmptyImage, IsKnot
<1>3. now = 0 /\ plans \in Scenarios
  BY DEF RollingInit
<1>4. Len(plans) \in Nat
  BY <1>3, RollingAssumption
<1>5. Clocks
  BY <1>2, <1>3, <1>4 DEF Clocks
<1>6. SoundCurves /\ InMotion /\ AtRest /\ Told
  BY <1>1, <1>2 DEF SoundCurves, InMotion, AtRest, Told
<1> QED
  BY <1>5, <1>6 DEF RestInv

LEMMA RestStep ==
    SessionInv /\ SessionInv' /\ RestInv /\ [RollingNext]_rollingVars => RestInv'
<1> SUFFICES ASSUME SessionInv, SessionInv', RestInv, [RollingNext]_rollingVars PROVE RestInv'
  OBVIOUS
<1>1. CASE UNCHANGED <<rt, sh, ex, nr, cb, plans>> /\ now' \in Nat
  <2>1. Clocks'
    BY <1>1 DEF RestInv, Clocks
  <2>2. SoundCurves' /\ InMotion'
    BY <1>1 DEF RestInv, SoundCurves, InMotion
  <2>3. AtRest' /\ Told'
    BY <1>1 DEF RestInv, AtRest, Told, Moved, TrajectoryPending
  <2> QED
    BY <2>1, <2>2, <2>3 DEF RestInv
<1>2. CASE Tick /\ UNCHANGED plans
  BY <1>1, <1>2 DEF Tick, RestInv, Clocks
<1>3. CASE UNCHANGED rollingVars
  BY <1>1, <1>3 DEF rollingVars, RestInv, Clocks
<1> QED
  BY <1>2, <1>3, RealTimeRests, CallbackStepRests, OnActivateRests, OnDeactivateRests,
     ReceiveBatchRests DEF RollingNext

(* The inductive invariant of a session at rest: sound curves, a command on *)
(* its curve, braking or at rest, and a reason for an arm that has moved.   *)
THEOREM RestInductive == RollingSpec => []RestInv
BY SessionInductive, RestStarts, RestStep, PTL DEF RollingSpec

(* Whenever the state topic says HOLDING the command is at rest, and if the *)
(* arm has moved in this activation it also says why it stopped             *)
(* (buildPublicState, startSession, beginRtStop, advanceRtFinal).           *)
THEOREM HoldingIsExplained == RollingSpec => []HoldingTellsWhy
<1>1. RestInv => HoldingTellsWhy
  <2> SUFFICES ASSUME RestInv, sh.active, rt.pc = "idle", MutexFree, PublicState = "HOLDING"
               PROVE  /\ sh.desired.v = 0
                      /\ sh.desired.pos # Source(nr.activation) => PublicReason # "none"
    BY DEF HoldingTellsWhy
  <2>1. sh.state \in RestStates /\ (sh.state = "priming" => TrajectoryPending)
    <3>1. sh.state \in {"none", "holding", "priming", "running", "stopping"}
      BY DEF RestInv, AtRest, RestStates
    <3>2. TrajectoryPending \/ sh.state \in {"none", "holding", "terminated"}
      BY DEF PublicState
    <3>3. TrajectoryPending => sh.state = "priming"
      BY DEF TrajectoryPending
    <3> QED
      BY <3>1, <3>2, <3>3 DEF RestStates
  <2>2. sh.desired = rt.desired /\ rt.desired.v = 0
    BY <2>1 DEF RestInv, AtRest
  <2>3. ASSUME sh.desired.pos # Source(nr.activation) PROVE PublicReason # "none"
    <3>1. Moved
      BY <2>3 DEF Moved
    <3>2. cb.pc # "prime"
      BY DEF MutexFree
    <3>3. CASE sh.state = "priming"
      BY <2>1, <3>1, <3>3 DEF RestInv, Told, PublicReason
    <3>4. CASE sh.state # "priming"
      <4>1. sh.reason # "none" /\ ~TrajectoryPending
        BY <2>1, <3>1, <3>2, <3>4 DEF RestInv, Told, RestStates, TrajectoryPending
      <4> QED
        BY <4>1 DEF PublicReason, PublicStopReason
    <3> QED
      BY <3>3, <3>4
  <2> QED
    BY <2>2, <2>3
<1> QED
  BY <1>1, RestInductive, PTL

-----------------------------------------------------------------------------
(* What a replacement leaves alone.                                         *)

(* The knot a curve is sampled from: the last one that is not after t.      *)
LEMMA KnotIs ==
    ASSUME NEW image, Ascends(image.points), NEW t \in Int, NEW k \in DOMAIN image.points,
           image.points[k].t <= t,
           k + 1 \in DOMAIN image.points => image.points[k + 1].t > t
    PROVE  KnotAt(image, t) = k
<1> DEFINE n == Len(image.points)
           K == {i \in 1 .. n : image.points[i].t <= t}
<1>1. n \in Nat /\ DOMAIN image.points = 1 .. n /\ k \in 1 .. n
  BY LastKnot
<1>2. \A i \in 1 .. n : image.points[i].t \in Int
  BY <1>1 DEF Ascends, IsKnot
<1>3. ASSUME NEW i \in 1 .. n PROVE image.points[i].t <= t <=> i <= k
  <2>1. CASE i = k
    BY <1>1, <2>1
  <2>2. CASE i < k
    <3>1. image.points[i].t < image.points[k].t
      BY <1>1, <2>2 DEF Ascends
    <3> HIDE DEF n
    <3> QED
      BY <1>1, <1>2, <2>2, <3>1
  <2>3. CASE i > k
    <3>1. k + 1 \in 1 .. n /\ (i = k + 1 \/ k + 1 < i)
      BY <1>1, <2>3
    <3>2. image.points[k + 1].t > t
      BY <1>1, <3>1
    <3>3. i = k + 1 \/ image.points[k + 1].t < image.points[i].t
      BY <1>1, <3>1 DEF Ascends
    <3> HIDE DEF n
    <3> QED
      BY <1>1, <1>2, <2>3, <3>1, <3>2, <3>3
  <2> QED
    BY <1>1, <2>1, <2>2, <2>3
<1>4. K = 1 .. k
  BY <1>1, <1>3
<1>5. Cardinality(1 .. k) = k
  BY <1>1, FS_Interval
<1> QED
  BY <1>4, <1>5 DEF KnotAt

(* ... and a curve that covers t has one.                                   *)
LEMMA KnotFound ==
    ASSUME NEW image, Ascends(image.points), NEW t \in Int, Covers(image, t)
    PROVE  /\ KnotAt(image, t) \in DOMAIN image.points
           /\ image.points[KnotAt(image, t)].t <= t
           /\ KnotAt(image, t) + 1 \in DOMAIN image.points =>
                  image.points[KnotAt(image, t) + 1].t > t
<1> DEFINE n == Len(image.points)
           k == KnotAt(image, t)
           K == {i \in 1 .. n : image.points[i].t <= t}
<1>1. n \in Nat /\ DOMAIN image.points = 1 .. n /\ k \in 1 .. n
  <2>1. k \in 0 .. n /\ k >= 1
    BY KnotBound DEF Ascends
  <2> QED
    BY <2>1, LastKnot
<1>2. Cardinality(K) = k
  BY DEF KnotAt
<1>3. \A i \in 1 .. n : image.points[i].t \in Int
  BY <1>1 DEF Ascends, IsKnot
<1>4. \A i, j \in 1 .. n : i < j => image.points[i].t < image.points[j].t
  BY <1>1 DEF Ascends
<1>5. IsFiniteSet(1 .. n) /\ IsFiniteSet(K)
  <2>1. IsFiniteSet(1 .. n)
    BY <1>1, FS_Interval
  <2> QED
    BY <2>1, FS_Subset
<1> HIDE DEF k, n
<1>6. ASSUME ~(image.points[k].t <= t) PROVE FALSE
  <2>1. \A i \in K : i < k
    <3> SUFFICES ASSUME NEW i \in K, ~(i < k) PROVE FALSE
      OBVIOUS
    <3>1. i \in 1 .. n /\ image.points[i].t <= t /\ (i = k \/ k < i)
      BY <1>1
    <3>2. i = k \/ image.points[k].t < image.points[i].t
      BY <1>1, <1>4, <3>1
    <3> QED
      BY <1>1, <1>3, <1>6, <3>1, <3>2
  <2>2. K \in SUBSET (1 .. (k - 1))
    BY <1>1, <2>1
  <2>3. IsFiniteSet(1 .. (k - 1)) /\ Cardinality(1 .. (k - 1)) = k - 1
    <3>1. k - 1 \in Int /\ 1 \in Int
      BY <1>1
    <3>2. /\ IsFiniteSet(1 .. (k - 1))
          /\ Cardinality(1 .. (k - 1)) = IF 1 > k - 1 THEN 0 ELSE (k - 1) - 1 + 1
      BY <3>1, FS_Interval
    <3> QED
      BY <1>1, <3>2
  <2>4. Cardinality(K) <= Cardinality(1 .. (k - 1))
    BY <2>2, <2>3, FS_Subset
  <2> HIDE DEF K
  <2> QED
    BY <1>1, <1>2, <2>3, <2>4
<1>7. ASSUME k + 1 \in 1 .. n, ~(image.points[k + 1].t > t) PROVE FALSE
  <2>1. \A i \in 1 .. (k + 1) : i \in K
    <3> SUFFICES ASSUME NEW i \in 1 .. (k + 1) PROVE i \in K
      OBVIOUS
    <3>1. i \in 1 .. n /\ (i = k + 1 \/ i < k + 1)
      BY <1>1, <1>7
    <3>2. i = k + 1 \/ image.points[i].t < image.points[k + 1].t
      BY <1>4, <1>7, <3>1
    <3>3. image.points[i].t <= t
      BY <1>3, <1>7, <3>1, <3>2
    <3> QED
      BY <3>1, <3>3
  <2>2. (1 .. (k + 1)) \in SUBSET K
    BY <2>1
  <2>3. IsFiniteSet(1 .. (k + 1)) /\ Cardinality(1 .. (k + 1)) = k + 1
    <3>1. k + 1 \in Int /\ 1 \in Int
      BY <1>1
    <3>2. /\ IsFiniteSet(1 .. (k + 1))
          /\ Cardinality(1 .. (k + 1)) = IF 1 > k + 1 THEN 0 ELSE (k + 1) - 1 + 1
      BY <3>1, FS_Interval
    <3> QED
      BY <1>1, <3>2
  <2> HIDE DEF K
  <2>4. Cardinality(1 .. (k + 1)) <= Cardinality(K)
    BY <1>5, <2>2, FS_Subset
  <2> QED
    BY <1>1, <1>2, <2>3, <2>4
<1> QED
  BY <1>1, <1>6, <1>7 DEF k

(* A knot that is not after t begins a curve in time for t.                 *)
LEMMA CoversFrom ==
    ASSUME NEW image, Ascends(image.points), NEW t \in Int, NEW k \in DOMAIN image.points,
           image.points[k].t <= t, t <= image.points[Len(image.points)].t
    PROVE  Covers(image, t)
<1>1. DOMAIN image.points = 1 .. Len(image.points) /\ image.points # <<>>
      /\ LastTime(image) = image.points[Len(image.points)].t /\ Len(image.points) \in Nat
  BY LastKnot DEF Ascends
<1>2. 1 \in DOMAIN image.points /\ (k = 1 \/ 1 < k)
  BY <1>1
<1>3. image.points[1].t \in Int /\ image.points[k].t \in Int
  BY <1>2 DEF Ascends, IsKnot
<1>4. k = 1 \/ image.points[1].t < image.points[k].t
  BY <1>2 DEF Ascends
<1> QED
  BY <1>1, <1>3, <1>4 DEF Covers, FirstTime

(* The knots of a replacement: those that stay, the splice, the end.        *)
KeptCount(image, start, from) ==
    Cardinality({i \in start .. Len(image.points) : image.points[i].t < from})

SplicesAt(new, image, start, count, batch) ==
    /\ count \in Nat /\ start + count - 1 <= Len(image.points)
    /\ Len(new.points) = count + 2
    /\ \A i \in 1 .. count : new.points[i] = image.points[start + i - 1]
    /\ new.points[count + 1] = [Sample(image, batch.from) EXCEPT !.by = batch.by]
    /\ new.points[count + 2].t = batch.end

LEMMA SplicedKnots ==
    ASSUME NEW image, Ascends(image.points), NEW anchor, NEW batch, NEW context, NEW earliest,
           batch.from \in Int, context.execution \in Int, Covers(image, context.execution)
    PROVE  SplicesAt(Spliced(image, anchor, batch, context, earliest), image,
                     KnotAt(image, context.execution),
                     KeptCount(image, KnotAt(image, context.execution), batch.from), batch)
<1> DEFINE n == Len(image.points)
           first == Sample(image, batch.from)
           start == KnotAt(image, context.execution)
           count == KeptCount(image, start, batch.from)
           kept == SubSeq(image.points, start, start + count - 1)
           p == [first EXCEPT !.by = batch.by]
           q == [t |-> batch.end, by |-> batch.by, pos |-> <<batch.by, batch.end>>,
                 v |-> batch.v]
           new == Spliced(image, anchor, batch, context, earliest)
<1>1. n \in Nat /\ image.points \in Seq(Knots(image.points)) /\ image.points # <<>>
  BY LastKnot DEF Ascends
<1>2. start \in 1 .. n
  BY <1>1, KnotFound, LastKnot
<1> HIDE DEF start
<1>3. count \in 0 .. (n + 1 - start)
  <2>1. start \in 1 .. (n + 1)
    BY <1>1, <1>2
  <2> QED
    BY <1>1, <2>1, KeptBound DEF KeptCount
<1>4. new.points = kept \o <<p, q>>
  BY <1>1 DEF Spliced, start, KeptCount
<1>5. q.t = batch.end
  OBVIOUS
<1> HIDE DEF count, p, q, new, first
<1>6. /\ kept \in Seq(Knots(image.points)) /\ Len(kept) = count
      /\ \A i \in 1 .. count : kept[i] = image.points[start + i - 1]
  BY <1>1, <1>2, <1>3
<1> HIDE DEF kept
<1>7. /\ Len(new.points) = count + 2
      /\ \A i \in 1 .. count : new.points[i] = kept[i]
      /\ new.points[count + 1] = p /\ new.points[count + 2] = q
  BY <1>3, <1>4, <1>6
<1>8. count \in Nat /\ start + count - 1 <= n
  BY <1>1, <1>2, <1>3
<1> QED
  BY <1>5, <1>6, <1>7, <1>8 DEF SplicesAt, count, start, new, p, first

(* A replacement leaves the curve alone from the executing time up to where *)
(* the batch begins.                                                        *)
LEMMA SplicedAgrees ==
    ASSUME NEW image, Sound(image), NEW anchor, NEW batch, NEW context, NEW earliest,
           Sound(Spliced(image, anchor, batch, context, earliest)),
           batch.from \in Int, batch.end \in Int, batch.end > batch.from,
           context.execution \in Int,
           Covers(image, context.execution), Covers(image, batch.from),
           NEW t \in context.execution .. batch.from
    PROVE  LET new == Spliced(image, anchor, batch, context, earliest)
           IN  Covers(new, t) /\ Sample(new, t).pos = Sample(image, t).pos
<1> DEFINE n == Len(image.points)
           start == KnotAt(image, context.execution)
           count == KeptCount(image, start, batch.from)
           new == Spliced(image, anchor, batch, context, earliest)
<1>0. Ascends(image.points) /\ Ascends(new.points)
  BY DEF Sound
<1>1. n \in Nat /\ n >= 1 /\ DOMAIN image.points = 1 .. n
      /\ DOMAIN new.points = 1 .. Len(new.points)
  BY <1>0, LastKnot
<1>2. SplicesAt(new, image, start, count, batch)
  BY <1>0, SplicedKnots
<1>3. /\ count \in Nat /\ start + count - 1 <= n
      /\ Len(new.points) = count + 2
      /\ \A i \in 1 .. count : new.points[i] = image.points[start + i - 1]
      /\ new.points[count + 1] = [Sample(image, batch.from) EXCEPT !.by = batch.by]
      /\ new.points[count + 2].t = batch.end
  BY <1>2 DEF SplicesAt
<1>4. start \in 1 .. n /\ image.points[start].t <= context.execution
  BY <1>0, <1>1, KnotFound
<1>5. /\ new.points[count + 1].t = batch.from
      /\ new.points[count + 1].pos = Sample(image, batch.from).pos
  <2>1. IsKnot(Sample(image, batch.from)) /\ Sample(image, batch.from).t = batch.from
    BY <1>0, SampleKnot
  <2> QED
    BY <1>3, <2>1 DEF IsKnot
<1>6. t \in Int /\ context.execution <= t /\ t <= batch.from
  OBVIOUS
<1>7. t <= new.points[Len(new.points)].t
  BY <1>3, <1>6
<1> HIDE DEF new
<1>8. CASE t = batch.from
  <2>1. count + 1 \in DOMAIN new.points /\ new.points[count + 1].t <= t
        /\ new.points[count + 1 + 1].t > t
    BY <1>1, <1>3, <1>5, <1>6, <1>8
  <2>2. KnotAt(new, t) = count + 1
    BY <1>0, <1>6, <2>1, KnotIs
  <2>3. Sample(new, t) = new.points[count + 1]
    BY <1>5, <1>8, <2>2 DEF Sample
  <2>4. Covers(new, t)
    BY <1>0, <1>6, <1>7, <2>1, CoversFrom
  <2> QED
    BY <1>5, <1>8, <2>3, <2>4 DEF new
<1>9. CASE t < batch.from
  <2> DEFINE k == KnotAt(image, t)
             j == k - start + 1
             B == {i \in start .. n : image.points[i].t < batch.from}
  <2>1. Covers(image, t)
    <3>1. FirstTime(image) \in Int /\ LastTime(image) \in Int
      BY <1>0, LastKnot
    <3> QED
      BY <1>6, <1>9, <3>1 DEF Covers
  <2>2. /\ k \in 1 .. n /\ image.points[k].t <= t
        /\ k + 1 \in 1 .. n => image.points[k + 1].t > t
    BY <1>0, <1>1, <1>6, <2>1, KnotFound
  <2>3. \A i \in 1 .. n : image.points[i].t \in Int
    BY <1>0, <1>1 DEF Ascends, IsKnot
  <2>4. \A a, b \in 1 .. n : a < b => image.points[a].t < image.points[b].t
    BY <1>0, <1>1 DEF Ascends
  <2> HIDE DEF k, start, n
  <2>5. start <= k
    <3> SUFFICES ASSUME k < start PROVE FALSE
      BY <1>4, <2>2
    <3>1. k + 1 \in 1 .. n /\ (k + 1 = start \/ k + 1 < start)
      BY <1>1, <1>4, <2>2
    <3>2. k + 1 = start \/ image.points[k + 1].t < image.points[start].t
      BY <1>4, <2>4, <3>1
    <3>3. image.points[k + 1].t > t /\ image.points[k + 1].t \in Int
          /\ image.points[start].t \in Int
      BY <1>4, <2>2, <2>3, <3>1
    <3>4. image.points[start].t > t
      BY <1>6, <3>2, <3>3
    <3> QED
      BY <1>4, <1>6, <3>3, <3>4
  <2>6. k - start + 1 <= count
    <3>1. \A i \in start .. k : i \in B
      <4> SUFFICES ASSUME NEW i \in start .. k PROVE i \in B
        OBVIOUS
      <4>1. i \in 1 .. n /\ i \in start .. n /\ (i = k \/ i < k)
        BY <1>1, <1>4, <2>2
      <4>2. i = k \/ image.points[i].t < image.points[k].t
        BY <2>2, <2>4, <4>1
      <4>3. image.points[i].t < batch.from
        BY <1>6, <1>9, <2>2, <2>3, <4>1, <4>2
      <4> QED
        BY <4>1, <4>3
    <3>2. (start .. k) \in SUBSET B
      BY <3>1
    <3>3. start \in Int /\ k \in Int /\ n \in Int
      BY <1>1, <1>4, <2>2
    <3>4. IsFiniteSet(start .. n)
      BY <3>3, FS_Interval
    <3>5. IsFiniteSet(B)
      BY <3>4, FS_Subset
    <3>6. Cardinality(start .. k) = IF start > k THEN 0 ELSE k - start + 1
      BY <3>3, FS_Interval
    <3>7. count = Cardinality(B)
      BY DEF KeptCount, n
    <3> HIDE DEF B, count
    <3>8. Cardinality(start .. k) <= Cardinality(B)
      BY <3>2, <3>5, FS_Subset
    <3> QED
      BY <2>5, <3>3, <3>6, <3>7, <3>8
  <2>7. start + count - 1 <= n /\ count \in Nat /\ Len(new.points) = count + 2
    BY <1>3
  <2> HIDE DEF count
  <2>8. n \in Int /\ start \in Int /\ 1 <= start /\ k \in Int /\ count \in Int
    BY <1>1, <1>4, <2>2, <2>7
  <2>9. /\ j \in 1 .. count /\ j + 1 \in 1 .. (count + 1) /\ start + j - 1 = k
        /\ start + (j + 1) - 1 = k + 1
    BY <2>5, <2>6, <2>8
  <2> HIDE DEF j
  <2>10. new.points[j] = image.points[k] /\ j \in DOMAIN new.points
    <3>1. j \in 1 .. (count + 2)
      BY <2>9, <2>8
    <3> QED
      BY <1>1, <1>3, <2>9, <2>7, <3>1 DEF count
  <2>11. new.points[j + 1].t > t
    <3>1. CASE j + 1 \in 1 .. count
      <4>1. new.points[j + 1] = image.points[k + 1]
        BY <1>3, <2>9, <3>1 DEF count
      <4>2. k + 1 \in 1 .. n
        BY <2>2, <2>9, <2>7, <2>8, <3>1
      <4> QED
        BY <2>2, <4>1, <4>2
    <3>2. CASE j + 1 = count + 1
      BY <1>5, <1>6, <1>9, <3>2
    <3> QED
      BY <1>3, <2>9, <3>1, <3>2
  <2>12. KnotAt(new, t) = j
    BY <1>0, <1>6, <2>2, <2>10, <2>11, KnotIs
  <2>13. Covers(new, t)
    BY <1>0, <1>6, <1>7, <2>2, <2>10, CoversFrom
  <2>14. Sample(new, t).pos = Sample(image, t).pos
    <3>1. CASE image.points[k].t = t
      BY <2>10, <2>12, <3>1 DEF Sample, k
    <3>2. CASE image.points[k].t # t
      BY <2>10, <2>12, <3>2 DEF Sample, k
    <3> QED
      BY <3>1, <3>2
  <2> QED
    BY <2>13, <2>14 DEF new
<1> QED
  BY <1>6, <1>8, <1>9

-----------------------------------------------------------------------------
(* The promised lead.                                                       *)

(* From time e on up to its earliest change, q is the curve p.              *)
Agrees(p, q, e) ==
    /\ q.earliest \in Int
    /\ \A t \in e .. q.earliest :
           Covers(p, t) => Covers(q, t) /\ Sample(q, t).pos = Sample(p, t).pos

(* A publication of this session that the update has not taken up.          *)
Unseen == ex.dirty /\ Latest.sequence >= sh.floor

Executing == IF sh.state = "priming" THEN 0 ELSE sh.execution

(* What the callback has accepted goes on from image p of generation gen:   *)
(* it is p, or a later generation that agrees with p.                       *)
Leads(p, gen, e) ==
    /\ gen \in Int /\ nr.image.generation >= gen
    /\ nr.image.generation = gen => nr.image = p
    /\ cb.pc = "publish" => nr.image.generation > gen
    /\ Agrees(p, nr.image, e)
    /\ cb.pc = "commit" => Agrees(p, cb.candidate, e)

Generations ==
    /\ ~sh.active => sh.state \in {"none", "terminated"}
    /\ nr.image.generation \in Nat /\ nr.image.earliest \in Int
    /\ nr.image.points # <<>> => nr.image.generation > 0
    /\ cb.pc = "commit" => /\ cb.candidate.generation = nr.image.generation + 1
                           /\ cb.candidate.earliest \in Int

(* The active image leads to what was accepted, and so does one that waits  *)
(* for the update, which agrees with the active one.                        *)
FromActive ==
    sh.active /\ sh.state = "running" =>
        /\ sh.replaceable = sh.execution + Lead
        /\ Leads(ActiveImage, sh.generation, sh.execution)

FromUnseen ==
    /\ sh.active /\ sh.state \in {"priming", "running"} /\ nr.image.points # <<>> /\ Unseen
    => /\ Leads(Latest.image, Latest.image.generation, Executing)
       /\ sh.state = "running" => /\ Latest.image.generation > sh.generation
                                  /\ Agrees(ActiveImage, Latest.image, sh.execution)

LeadInv == Generations /\ FromActive /\ FromUnseen

(* A replacement of q that agrees with it where q agrees with p.            *)
LEMMA AgreesThrough ==
    ASSUME NEW p, NEW q, NEW c, NEW e \in Int, NEW from \in Int, Agrees(p, q, e),
           q.earliest \in Int, c.earliest \in Int, c.earliest <= from,
           c.earliest <= q.earliest \/ p = q,
           \A t \in e .. from : Covers(c, t) /\ Sample(c, t).pos = Sample(q, t).pos
    PROVE  Agrees(p, c, e)
<1> SUFFICES ASSUME NEW t \in e .. c.earliest, Covers(p, t)
             PROVE  Covers(c, t) /\ Sample(c, t).pos = Sample(p, t).pos
  BY DEF Agrees
<1>1. t \in e .. from
  OBVIOUS
<1>2. p = q \/ Sample(q, t).pos = Sample(p, t).pos
  <2>1. p = q \/ t \in e .. q.earliest
    OBVIOUS
  <2> QED
    BY <2>1 DEF Agrees
<1> QED
  BY <1>1, <1>2

LEMMA AgreesLater ==
    ASSUME NEW p, NEW q, NEW e \in Int, NEW f \in Int, e <= f, Agrees(p, q, e),
           q.earliest \in Int
    PROVE  Agrees(p, q, f)
<1> SUFFICES ASSUME NEW t \in f .. q.earliest, Covers(p, t)
             PROVE  Covers(q, t) /\ Sample(q, t).pos = Sample(p, t).pos
  BY DEF Agrees
<1>1. t \in e .. q.earliest
  OBVIOUS
<1> QED
  BY <1>1 DEF Agrees

(* A step that neither publishes, prepares nor takes up an image.           *)
LEMMA StillLeads ==
    ASSUME LeadInv, sh'.active = sh.active, sh'.floor = sh.floor, ex'.slots = ex.slots,
           nr'.image = nr.image,
           \/ sh'.state = sh.state
           \/ sh.active /\ sh'.state \notin {"priming", "running"},
           sh'.state \in {"priming", "running"} => ex'.dirty = ex.dirty /\ ex'.middle = ex.middle,
           sh.active /\ sh'.state = "running" =>
               /\ sh'.generation = sh.generation /\ sh'.execution = sh.execution
               /\ sh'.replaceable = sh.replaceable /\ rt'.active = rt.active,
           cb'.pc = "commit" => cb.pc = "commit" /\ cb'.candidate = cb.candidate,
           cb'.pc = "publish" => cb.pc = "publish"
    PROVE  LeadInv'
<1>1. Generations'
  BY DEF LeadInv, Generations
<1>2. FromActive'
  BY DEF LeadInv, FromActive, Leads, ActiveImage, Agrees
<1>3. FromUnseen'
  <2> SUFFICES ASSUME sh.active, sh'.state \in {"priming", "running"}, nr.image.points # <<>>,
                      Unseen'
               PROVE  /\ Leads(Latest.image, Latest.image.generation, Executing)'
                      /\ sh'.state = "running" =>
                             /\ Latest'.image.generation > sh'.generation
                             /\ Agrees(ActiveImage', Latest'.image, sh'.execution)
    BY DEF FromUnseen
  <2>1. /\ sh'.state = sh.state /\ Latest' = Latest /\ Unseen /\ Executing' = Executing
    BY DEF Unseen, Latest, Executing
  <2>2. /\ Leads(Latest.image, Latest.image.generation, Executing)
        /\ sh.state = "running" => /\ Latest.image.generation > sh.generation
                                   /\ Agrees(ActiveImage, Latest.image, sh.execution)
    BY <2>1 DEF LeadInv, FromUnseen
  <2>3. Leads(Latest.image, Latest.image.generation, Executing)'
    BY <2>1, <2>2 DEF Leads
  <2>4. sh.state = "running" => ActiveImage' = ActiveImage
    BY <2>1 DEF ActiveImage
  <2> QED
    BY <2>1, <2>2, <2>3, <2>4
<1> QED
  BY <1>1, <1>2, <1>3 DEF LeadInv

(* A session without an image, or none, has nothing to agree.               *)
LEMMA NothingLeads ==
    ASSUME Generations', sh'.state # "running" \/ ~sh'.active,
           sh'.state # "priming" \/ nr'.image.points = <<>> \/ ~sh'.active
    PROVE  LeadInv'
BY DEF LeadInv, FromActive, FromUnseen

-----------------------------------------------------------------------------
(* The realtime thread: it goes on along what it has, or takes up what      *)
(* waits for it.                                                            *)

LEMMA FollowAdvances ==
    ASSUME NEW x, NEW r, NEW s, NEW p \in Periods, DOMAIN r = RtFields, DOMAIN s = ShFields,
           Follow(x, r, s, p), s.state = "running", sh'.state = "running",
           OnCurve(r, s, x), Sound(x.slots[r.active].image)
    PROVE  /\ sh'.execution \in Int /\ sh'.execution >= s.execution
           /\ sh'.replaceable = sh'.execution + Lead
<1> DEFINE image == x.slots[r.active].image
           next == s.execution + p
           u == Min({next, s.until})
<1>1. /\ p \in Int /\ s.execution \in Int /\ next \in Int /\ s.until \in Int
      /\ MaxPeriod \in Int /\ s.execution <= s.until
  <2>1. p \in Int /\ MaxPeriod \in Int
    BY RollingAssumption DEF Periods, NominalPeriod
  <2>2. LastTime(image) \in Int
    BY LastKnot DEF Sound
  <2> QED
    BY <2>1, <2>2 DEF OnCurve, Covers
<1>2. \A reason : ~BeginRtStop(x, r, s, reason)
  BY DEF BeginRtStop, StopFrom, ShFields
<1>3. ASSUME NEW t, NEW done, AdvanceTo(x, r, s, t, done)
      PROVE  sh'.execution = t /\ sh'.replaceable = t + Lead
  BY <1>3 DEF AdvanceTo, ShFields
<1>4. ValidPeriod(p)
  BY <1>2 DEF Follow
<1>5. next > s.execution
  BY <1>1, <1>4 DEF ValidPeriod
<1>6. u \in Int /\ u >= s.execution
  <2>1. u = IF next <= s.until THEN next ELSE s.until
    BY <1>1, MinOfTwo
  <2> QED
    BY <1>1, <1>5, <2>1
<1>7. AdvanceTo(x, r, s, u, next >= s.until) \/ AdvanceTo(x, r, s, next, FALSE)
  BY <1>2, <1>4, Zenon DEF Follow
<1>8. CASE AdvanceTo(x, r, s, u, next >= s.until)
  <2>1. sh'.execution = u /\ sh'.replaceable = u + Lead
    BY <1>3, <1>8, Zenon
  <2> QED
    BY <1>6, <2>1
<1>9. CASE AdvanceTo(x, r, s, next, FALSE)
  <2>1. sh'.execution = next /\ sh'.replaceable = next + Lead
    BY <1>3, <1>9, Zenon
  <2> QED
    BY <1>1, <1>5, <2>1
<1> QED
  BY <1>7, <1>8, <1>9

(* The slot, the generation and the exchange after the consumption.         *)
LEMMA ConsumedImage ==
    ASSUME SessionInv, Coherent, sh.active, sh.state \in {"priming", "running"}
    PROVE  /\ ConsumedX.slots = ex.slots /\ ConsumedX.dirty = FALSE
           /\ ConsumedSh.execution = sh.execution
           /\ Fresh => /\ Unseen
                       /\ ConsumedRt.active = ex.middle /\ ConsumedSh.state = "running"
                       /\ ConsumedSh.generation = Latest.image.generation
                       /\ ConsumedSh.replaceable = sh.execution + Lead
           /\ ~Fresh => ConsumedRt = rt /\ ConsumedSh = sh
<1>0. RtShaped(rt) /\ ShShaped(sh) /\ Owned(ex) /\ rt.floor = sh.floor
  BY DEF SessionInv, Shapes, Epochs, Coherent
<1>1. ConsumedX.slots = ex.slots /\ ConsumedX.dirty = FALSE
  BY <1>0, AcquireOwned DEF ConsumedX, Owned
<1>2. Fresh => Unseen
  BY <1>0 DEF Fresh, Unseen
<1>3. Fresh => ConsumedRt.active = ex.middle
  BY <1>0 DEF ConsumedRt, RtShaped, RtFields
<1>4. /\ ConsumedSh.execution = sh.execution
      /\ Fresh => /\ ConsumedSh.state = "running"
                  /\ ConsumedSh.generation = Latest.image.generation
                  /\ ConsumedSh.replaceable = sh.execution + Lead
  BY <1>0 DEF ConsumedSh, ShShaped, ShFields
<1>5. ~Fresh => ConsumedRt = rt /\ ConsumedSh = sh
  BY DEF ConsumedRt, ConsumedSh
<1> QED
  BY <1>1, <1>2, <1>3, <1>4, <1>5

(* A running session that runs on: it waits for the callback, follows its   *)
(* image, or follows the one that was unseen.                               *)
Waits == UNCHANGED <<sh, ex>> /\ rt'.active = rt.active

Advances ==
    /\ ex'.slots = ex.slots /\ ex'.dirty = FALSE
    /\ sh'.active = sh.active /\ sh'.floor = sh.floor
    /\ sh.execution \in Int
    /\ sh'.execution \in Int /\ sh'.execution >= sh.execution
    /\ sh'.replaceable = sh'.execution + Lead
    /\ \/ rt'.active = rt.active /\ sh'.generation = sh.generation
       \/ /\ Unseen /\ Acceptable(FALSE)
          /\ rt'.active = ex.middle /\ sh'.generation = Latest.image.generation

LEMMA RunsOn ==
    ASSUME SessionInv, RestInv, UpdateRunning, sh.active, sh'.state = "running"
    PROVE  Waits \/ Advances
<1>0. /\ RtShaped(rt) /\ ShShaped(sh) /\ Coherent /\ sh.state = "running"
  BY DEF SessionInv, Shapes, UpdateRunning, InState
<1>1. \A x : ~BeginRtStop(x, rt, sh, "internal")
  BY <1>0 DEF BeginRtStop, StopFrom, ShShaped, ShFields
<1>2. CASE rt' = [rt EXCEPT !.pc = "write"] /\ UNCHANGED <<sh, ex>>
  BY <1>0, <1>2 DEF Waits, RtShaped, RtFields
<1>3. ASSUME Fresh => Acceptable(FALSE), NEW p \in Periods,
             Follow(ConsumedX, ConsumedRt, ConsumedSh, p)
      PROVE  Advances
  <2>1. /\ DOMAIN ConsumedRt = RtFields /\ DOMAIN ConsumedSh = ShFields
        /\ ConsumedSh.state = "running"
        /\ ConsumedSh.active = sh.active /\ ConsumedSh.floor = sh.floor
    BY <1>0, ConsumeLatestLeaves
  <2>2. Fresh => Acceptable(sh.state = "priming")
    BY <1>0, <1>3 DEF Acceptable
  <2>3. /\ OnCurve(ConsumedRt, ConsumedSh, ConsumedX)
        /\ Sound(ConsumedX.slots[ConsumedRt.active].image)
    BY <1>0, <2>1, <2>2, ConsumeLatestOnCurve
  <2>4. /\ ConsumedX.slots = ex.slots /\ ConsumedX.dirty = FALSE
        /\ ConsumedSh.execution = sh.execution
        /\ Fresh => /\ Unseen
                    /\ ConsumedRt.active = ex.middle
                    /\ ConsumedSh.generation = Latest.image.generation
        /\ ~Fresh => ConsumedRt = rt /\ ConsumedSh = sh
    BY <1>0, ConsumedImage
  <2> HIDE DEF ConsumedX, ConsumedRt, ConsumedSh
  <2>5. Moves(ConsumedX, ConsumedRt, ConsumedSh)
    BY <1>3, <2>1, FollowMoves
  <2>6. /\ sh'.execution \in Int /\ sh'.execution >= ConsumedSh.execution
        /\ sh'.replaceable = sh'.execution + Lead
    BY <1>3, <2>1, <2>3, FollowAdvances
  <2>7. sh.execution \in Int
    BY <2>3, <2>4 DEF OnCurve
  <2>8. /\ ex' = ConsumedX /\ rt'.active = ConsumedRt.active
        /\ sh'.active = sh.active /\ sh'.floor = sh.floor
        /\ sh'.generation = ConsumedSh.generation
    BY <2>1, <2>5 DEF Moves
  <2>9. CASE Fresh
    BY <1>3, <2>4, <2>6, <2>7, <2>8, <2>9 DEF Advances
  <2>10. CASE ~Fresh
    BY <2>4, <2>6, <2>7, <2>8, <2>10 DEF Advances
  <2> QED
    BY <2>9, <2>10
<1> QED
  BY <1>1, <1>2, <1>3, Zenon DEF UpdateRunning

LEMMA UpdateRunningLeads ==
    ASSUME SessionInv, RestInv, LeadInv, UpdateRunning
    PROVE  LeadInv'
<1>0. /\ RtShaped(rt) /\ ShShaped(sh) /\ Owned(ex) /\ UNCHANGED <<nr, cb>>
      /\ Coherent /\ sh.state = "running" /\ sh.active
      /\ nr.image.points # <<>> /\ nr.image.earliest \in Int
      /\ cb.pc = "commit" => cb.candidate.earliest \in Int
  BY DEF SessionInv, Shapes, UpdateRunning, InState, LeadInv, Generations, NothingPublished
<1>1. CASE sh'.state = "running" /\ Advances
  <2> DEFINE e == sh'.execution
  <2>1. Leads(ActiveImage', sh'.generation, sh.execution)
    <3>1. CASE rt'.active = rt.active /\ sh'.generation = sh.generation
      BY <1>0, <1>1, <3>1 DEF LeadInv, FromActive, Advances, ActiveImage
    <3>2. CASE /\ Unseen /\ rt'.active = ex.middle /\ sh'.generation = Latest.image.generation
      <4>1. Leads(Latest.image, Latest.image.generation, sh.execution)
        BY <1>0, <3>2 DEF LeadInv, FromUnseen, Executing
      <4> QED
        BY <1>1, <3>2, <4>1 DEF Advances, ActiveImage, Latest
    <3> QED
      BY <1>1, <3>1, <3>2 DEF Advances
  <2>2. sh.execution \in Int /\ e \in Int /\ sh.execution <= e
    BY <1>1 DEF Advances
  <2> HIDE DEF e
  <2>3. Agrees(ActiveImage', nr.image, e)
    BY <1>0, <2>1, <2>2, AgreesLater DEF Leads
  <2>4. cb.pc = "commit" => Agrees(ActiveImage', cb.candidate, e)
    BY <1>0, <2>1, <2>2, AgreesLater DEF Leads
  <2>5. Leads(ActiveImage', sh'.generation, e)
    BY <2>1, <2>3, <2>4 DEF Leads
  <2>6. Leads(ActiveImage, sh.generation, sh.execution)'
    BY <1>0, <2>5 DEF Leads, e
  <2>7. FromActive'
    BY <1>1, <2>6 DEF FromActive, Advances
  <2>8. FromUnseen'
    BY <1>1 DEF FromUnseen, Unseen, Advances
  <2>9. Generations'
    BY <1>0, <1>1 DEF LeadInv, Generations, Advances
  <2> QED
    BY <2>7, <2>8, <2>9 DEF LeadInv
<1>2. CASE sh'.state = "running" /\ Waits
  BY <1>0, <1>2, StillLeads DEF Waits
<1>3. CASE sh'.state # "running"
  <2>1. \/ \E x \in {ex, Acquire(ex)} : Moves(x, rt, sh)
        \/ UNCHANGED <<sh, ex>>
        \/ Moves(ConsumedX, ConsumedRt, ConsumedSh)
    <3>1. \A x, reason : BeginRtStop(x, rt, sh, reason) => Moves(x, rt, sh)
      BY <1>0, BeginRtStopMoves DEF RtShaped, ShShaped
    <3>2. \A p : Follow(ConsumedX, ConsumedRt, ConsumedSh, p) =>
              Moves(ConsumedX, ConsumedRt, ConsumedSh)
      BY FollowMoves, ConsumeLatestLeaves
    <3> QED
      BY <3>1, <3>2, Zenon DEF UpdateRunning
  <2>2. sh'.active = sh.active /\ sh'.state \in {"stopping", "holding"}
    BY <1>0, <1>3, <2>1, ConsumeLatestLeaves DEF Moves
  <2>3. Generations'
    BY <1>0, <2>2 DEF LeadInv, Generations
  <2> QED
    BY <2>2, <2>3, NothingLeads
<1> QED
  BY <1>0, <1>1, <1>2, <1>3, RunsOn

LEMMA UpdatePrimingLeads ==
    ASSUME SessionInv, RestInv, LeadInv, UpdatePriming
    PROVE  LeadInv'
<1>0. /\ RtShaped(rt) /\ ShShaped(sh) /\ Owned(ex) /\ UNCHANGED <<nr, cb>>
      /\ Coherent /\ sh.state = "priming" /\ sh.active
  BY DEF SessionInv, Shapes, UpdatePriming, InState, LeadInv, Generations
<1>1. ASSUME NEW x \in {ex, Acquire(ex)}, BeginRtStop(x, rt, sh, "internal") PROVE LeadInv'
  <2>1. sh'.active = sh.active /\ sh'.state \in {"stopping", "holding"}
    BY <1>0, <1>1 DEF BeginRtStop, StopFrom, ShShaped, ShFields
  <2>2. Generations'
    BY <1>0, <2>1 DEF LeadInv, Generations
  <2> QED
    BY <2>1, <2>2, NothingLeads
<1>2. ASSUME UNCHANGED <<sh, ex>> PROVE LeadInv'
  BY <1>0, <1>2, StillLeads
<1>3. ASSUME Fresh => Acceptable(TRUE), ex' = ConsumedX, sh' = ConsumedSh,
             rt' = [ConsumedRt EXCEPT !.pc = "write"]
      PROVE  LeadInv'
  <2>1. /\ ex'.slots = ex.slots /\ ex'.dirty = FALSE
        /\ Fresh => /\ Unseen
                    /\ ConsumedRt.active = ex.middle /\ sh'.state = "running"
                    /\ sh'.generation = Latest.image.generation
                    /\ sh'.execution = sh.execution /\ sh'.replaceable = sh.execution + Lead
        /\ ~Fresh => sh' = sh
    BY <1>0, <1>3, ConsumedImage
  <2>2. rt'.active = ConsumedRt.active /\ sh'.active = sh.active
    BY <1>3, ConsumeLatestLeaves DEF RtFields
  <2>3. FromUnseen'
    BY <2>1 DEF FromUnseen, Unseen
  <2>4. Generations'
    BY <1>0, <2>2 DEF LeadInv, Generations
  <2>5. CASE ~Fresh
    BY <1>0, <2>1, <2>3, <2>4, <2>5 DEF LeadInv, FromActive
  <2>6. CASE Fresh
    <3>1. sh.execution = 0
      BY <1>3, <2>6 DEF Acceptable
    <3>2. Consumes
      BY <1>0, <1>3, ConsumeLatest
    <3>3. nr.image.points # <<>>
      BY <1>0, <1>3, <2>1, <2>6, <3>2 DEF Consumes
    <3>4. Leads(Latest.image, Latest.image.generation, sh.execution)
      BY <1>0, <2>1, <2>6, <3>1, <3>3 DEF LeadInv, FromUnseen, Executing
    <3>5. ActiveImage' = Latest.image
      BY <2>1, <2>2, <2>6 DEF ActiveImage, Latest
    <3>6. Leads(ActiveImage, sh.generation, sh.execution)'
      BY <1>0, <2>1, <2>6, <3>4, <3>5 DEF Leads
    <3> QED
      BY <2>1, <2>3, <2>4, <2>6, <3>6 DEF LeadInv, FromActive
  <2> QED
    BY <2>5, <2>6
<1> QED
  BY <1>1, <1>2, <1>3, Zenon DEF UpdatePriming

LEMMA RealTimeLeads ==
    ASSUME SessionInv, RestInv, LeadInv, RealTime
    PROVE  LeadInv'
<1>0. RtShaped(rt) /\ ShShaped(sh)
  BY DEF SessionInv, Shapes
<1>1. ASSUME NEW r, DOMAIN r = RtFields, r.epoch = rt.epoch, r.active = rt.active, ReadEpoch(r)
      PROVE  LeadInv'
  <2>1. CASE sh.epoch # r.epoch
    <3>1. ~(sh.active /\ sh.state = "running")
      BY <1>1, <2>1 DEF SessionInv, Epochs, Coherent
    <3>2. /\ sh'.active = sh.active /\ sh'.floor = sh.floor /\ sh'.state = sh.state
          /\ UNCHANGED <<ex, nr, cb>>
      BY <1>0, <1>1, <2>1 DEF ReadEpoch, ResetRtEpoch, ShShaped, ShFields
    <3> QED
      BY <3>1, <3>2, StillLeads
  <2>2. CASE sh.epoch = r.epoch
    <3>1. rt'.active = rt.active /\ UNCHANGED <<sh, ex, nr, cb>>
      BY <1>1, <2>2 DEF ReadEpoch, RtFields
    <3> QED
      BY <3>1, StillLeads
  <2> QED
    BY <2>1, <2>2
<1>2. CASE UpdateEpoch
  <2> DEFINE r == [rt EXCEPT !.last = now]
  <2>1. DOMAIN r = RtFields /\ r.epoch = rt.epoch /\ r.active = rt.active
    BY <1>0 DEF RtShaped, RtFields
  <2>2. ReadEpoch(r)
    BY <1>2 DEF UpdateEpoch
  <2> HIDE DEF r
  <2> QED
    BY <1>1, <2>1, <2>2
<1>3. CASE UpdateEpochAgain
  BY <1>0, <1>1, <1>3 DEF UpdateEpochAgain, RtShaped
<1>4. CASE UpdateRetry \/ UpdateHolding \/ UpdateWrite
  <2>1. /\ rt'.active = rt.active /\ UNCHANGED <<ex, nr, cb>>
    BY <1>0, <1>4 DEF UpdateRetry, UpdateHolding, UpdateWrite, RtShaped, RtFields
  <2>2. /\ sh'.active = sh.active /\ sh'.state = sh.state /\ sh'.floor = sh.floor
        /\ sh'.generation = sh.generation /\ sh'.execution = sh.execution
        /\ sh'.replaceable = sh.replaceable
    BY <1>0, <1>4 DEF UpdateRetry, UpdateHolding, UpdateWrite, ShShaped, ShFields
  <2> QED
    BY <2>1, <2>2, StillLeads
<1>5. CASE \E p \in Periods : UpdateStopping(p)
  <2>1. /\ sh'.active = sh.active /\ sh'.state \in {"stopping", "holding"}
        /\ sh.state = "stopping" /\ UNCHANGED <<nr, cb>>
    BY <1>0, <1>5 DEF UpdateStopping, InState, ShShaped, ShFields
  <2>2. Generations'
    BY <2>1 DEF LeadInv, Generations
  <2> QED
    BY <2>1, <2>2, NothingLeads
<1> QED
  BY <1>2, <1>3, <1>4, <1>5, UpdatePrimingLeads, UpdateRunningLeads DEF RealTime

-----------------------------------------------------------------------------
(* The callback: it draws, accepts and publishes what agrees.               *)

LEMMA FinishLeads ==
    ASSUME SessionInv, LeadInv, UNCHANGED <<rt, ex>>, NEW n, NEW s, NEW result,
           Finish(n, s, result), DOMAIN s = ShFields, n.image = nr.image,
           s.active = sh.active, s.state = sh.state, s.floor = sh.floor,
           s.generation = sh.generation, s.execution = sh.execution,
           s.replaceable = sh.replaceable
    PROVE  LeadInv'
<1>1. /\ sh'.active = sh.active /\ sh'.state = sh.state /\ sh'.floor = sh.floor
      /\ sh'.generation = sh.generation /\ sh'.execution = sh.execution
      /\ sh'.replaceable = sh.replaceable
  BY DEF Finish, ShFields
<1>2. nr'.image = nr.image /\ cb'.pc = "idle"
  BY DEF Finish, Quiet
<1> QED
  BY <1>1, <1>2, StillLeads

LEMMA AdmitBatchLeads ==
    ASSUME SessionInv, LeadInv, NEW m, AdmitBatch(m)
    PROVE  LeadInv'
<1> DEFINE n == [nr EXCEPT !.sequence = m.seq]
<1>0. /\ DOMAIN nr = NrFields /\ DOMAIN sh = ShFields /\ DOMAIN cb = CbFields
      /\ UNCHANGED <<rt, ex>>
  BY DEF SessionInv, Shapes, ShShaped, AdmitBatch
<1>1. n.image = nr.image
  BY <1>0 DEF NrFields
<1> HIDE DEF n
<1>2. CASE \E k \in {nr, n}, result \in Results : Finish(k, sh, result)
  <2>1. PICK k \in {nr, n}, result \in Results : Finish(k, sh, result)
    BY <1>2
  <2> QED
    BY <1>0, <1>1, <2>1, FinishLeads
<1>3. CASE cb' = Quiet /\ sh' = [sh EXCEPT !.gate = FALSE] /\ UNCHANGED nr
  <2>1. /\ sh'.active = sh.active /\ sh'.state = sh.state /\ sh'.floor = sh.floor
        /\ sh'.generation = sh.generation /\ sh'.execution = sh.execution
        /\ sh'.replaceable = sh.replaceable
    BY <1>0, <1>3 DEF ShFields
  <2>2. cb'.pc = "idle"
    BY <1>3 DEF Quiet
  <2> QED
    BY <1>0, <1>3, <2>1, <2>2, StillLeads
<1>4. CASE \E pc \in {"start", "prepare"} : \E offset :
             /\ cb' = [cb EXCEPT !.pc = pc, !.msg = m, !.offset = offset]
             /\ nr' = n /\ UNCHANGED sh
  <2>1. cb'.pc \in {"start", "prepare"}
    BY <1>0, <1>4 DEF CbFields
  <2> QED
    BY <1>0, <1>1, <1>4, <2>1, StillLeads
<1>5. \/ \E k \in {nr, n}, result \in Results : Finish(k, sh, result)
      \/ cb' = Quiet /\ sh' = [sh EXCEPT !.gate = FALSE] /\ UNCHANGED nr
      \/ \E pc \in {"start", "prepare"} : \E offset :
             /\ cb' = [cb EXCEPT !.pc = pc, !.msg = m, !.offset = offset]
             /\ nr' = n /\ UNCHANGED sh
  <2>1. \A k, result : Finish(k, sh, result) => result \in Results
    BY DEF Finish
  <2> QED
    BY <2>1, Zenon DEF AdmitBatch, n
<1> QED
  BY <1>2, <1>3, <1>4, <1>5

LEMMA StartSessionLeads ==
    ASSUME SessionInv, LeadInv, StartSession \/ StartPriming
    PROVE  LeadInv'
<1>0. /\ ShShaped(sh) /\ DOMAIN nr = NrFields /\ DOMAIN cb = CbFields
  BY DEF SessionInv, Shapes
<1>1. CASE StartSession
  <2>1. /\ sh'.active = sh.active /\ sh'.state = sh.state /\ nr'.image = EmptyImage
        /\ cb'.pc = "prime" /\ sh.active /\ sh.state # "running"
    BY <1>0, <1>1 DEF StartSession, SessionInv, CallbackHolds, InSession, ShShaped, ShFields,
       NrFields, CbFields
  <2>2. nr'.image.points = <<>> /\ nr'.image.generation = 0 /\ nr'.image.earliest = 0
    BY <2>1 DEF EmptyImage
  <2>3. Generations'
    BY <2>1, <2>2 DEF Generations
  <2> QED
    BY <2>1, <2>2, <2>3, NothingLeads
<1>2. CASE StartPriming
  <2>1. /\ sh'.active = sh.active /\ sh'.state = "priming" /\ UNCHANGED nr
        /\ cb'.pc = "prepare" /\ sh.active /\ nr.image.points = <<>>
    BY <1>0, <1>2 DEF StartPriming, SessionInv, CallbackHolds, ShShaped, ShFields, CbFields
  <2>2. Generations'
    BY <2>1 DEF LeadInv, Generations
  <2> QED
    BY <2>1, <2>2, NothingLeads
<1> QED
  BY <1>1, <1>2

(* prepare(): the candidate is the next generation, and changes nothing     *)
(* before the batch or before a change that the update has not seen.        *)
LEMMA PreparedNext ==
    ASSUME NEW image, image.generation \in Nat, image.earliest \in Int,
           NEW anchor, NEW batch, batch.from \in Int, NEW context,
           Prepare(image, anchor, batch, context).code = "ACCEPTED"
    PROVE  LET c == Prepare(image, anchor, batch, context).image
           IN  /\ c.generation = image.generation + 1
               /\ c.earliest \in Int /\ c.earliest <= batch.from
               /\ image.generation > context.generation => c.earliest <= image.earliest
<1> DEFINE early == IF image.generation > context.generation
                    THEN Min({image.earliest, batch.from}) ELSE batch.from
<1>1. Prepare(image, anchor, batch, context).image =
          Spliced(image, anchor, batch, context, early)
  BY DEF Prepare, Splice
<1>2. /\ early \in Int /\ early <= batch.from
      /\ image.generation > context.generation => early <= image.earliest
  BY MinOfTwo
<1> HIDE DEF early
<1> QED
  BY <1>1, <1>2 DEF Spliced

(* Up to the batch it is the image itself.                                  *)
LEMMA PreparedAgrees ==
    ASSUME NEW image, Sound(image),
           NEW anchor, IsKnot(anchor), anchor.t = 0, NEW batch, NEW context,
           batch.from \in Int, batch.end \in Int, batch.v \in Int,
           context.execution \in Int,
           Prepare(image, anchor, batch, context).code = "ACCEPTED"
    PROVE  LET c == Prepare(image, anchor, batch, context).image
           IN  \A t \in context.execution .. batch.from :
                   Covers(c, t) /\ Sample(c, t).pos = Sample(image, t).pos
<1> DEFINE early == IF image.generation > context.generation
                    THEN Min({image.earliest, batch.from}) ELSE batch.from
           c == Spliced(image, anchor, batch, context, early)
<1>1. image.points # <<>> /\ image.points \in Seq(Knots(image.points))
  BY DEF Sound, Ascends
<1>2. /\ Covers(image, context.execution) /\ Covers(image, batch.from)
      /\ ~(batch.end <= batch.from)
  BY <1>1, Zenon DEF Prepare
<1>3. Prepare(image, anchor, batch, context).image = c
  BY DEF Prepare, Splice
<1>4. Sound(c)
  BY <1>1, <1>3, PreparedSound
<1> HIDE DEF early
<1>5. batch.end > batch.from
  BY <1>2
<1>6. \A t \in context.execution .. batch.from :
          Covers(c, t) /\ Sample(c, t).pos = Sample(image, t).pos
  BY <1>2, <1>4, <1>5, SplicedAgrees
<1> HIDE DEF c
<1> QED
  BY <1>3, <1>6

LEMMA PrepareBatchLeads ==
    ASSUME SessionInv, RestInv, LeadInv, PrepareBatch
    PROVE  LeadInv'
<1> DEFINE b == BatchOf(cb.msg, cb.offset)
           p == Prepare(nr.image, nr.anchor, b, Context)
<1>0. /\ DOMAIN sh = ShFields /\ DOMAIN cb = CbFields /\ UNCHANGED <<now, rt, ex>>
      /\ cb.pc = "prepare" /\ IsMessage(cb.msg) /\ cb.offset \in Int /\ sh.active
      /\ IsKnot(nr.anchor) /\ nr.anchor.t = 0 /\ (nr.image.points # <<>> => Sound(nr.image))
      /\ nr.image.generation \in Nat /\ nr.image.earliest \in Int
      /\ nr.image.points # <<>> => nr.image.generation > 0
  BY DEF SessionInv, Shapes, ShShaped, CallbackHolds, RestInv, SoundCurves, LeadInv,
         Generations, PrepareBatch
<1>1. b.from \in Int /\ b.end \in Int /\ b.v \in Int
  BY <1>0 DEF BatchOf, IsMessage
<1>2. \/ p.code = "ACCEPTED" /\ UNCHANGED <<nr, sh>>
             /\ cb' = [cb EXCEPT !.pc = "commit", !.candidate = p.image]
      \/ Finish(nr, sh, p.code)
  BY DEF PrepareBatch
<1> HIDE DEF b
<1>3. CASE Finish(nr, sh, p.code)
  <2> HIDE DEF p
  <2> QED
    BY <1>0, <1>3, FinishLeads
<1>4. CASE p.code = "ACCEPTED" /\ UNCHANGED <<nr, sh>>
           /\ cb' = [cb EXCEPT !.pc = "commit", !.candidate = p.image]
  <2> DEFINE c == p.image
  <2>1. cb'.pc = "commit" /\ cb'.candidate = c
    BY <1>0, <1>4 DEF CbFields
  <2>2. /\ c.generation = nr.image.generation + 1
        /\ c.earliest \in Int /\ c.earliest <= b.from
        /\ nr.image.generation > Context.generation => c.earliest <= nr.image.earliest
    BY <1>0, <1>1, <1>4, PreparedNext
  <2>3. Generations'
    <3> HIDE DEF c
    <3> QED
      BY <1>4, <2>1, <2>2 DEF LeadInv, Generations
  <2>4. CASE nr.image.points = <<>>
    <3>1. sh.state # "running"
      BY <1>0, <2>4 DEF SessionInv, NothingPublished
    <3> QED
      BY <1>4, <2>3, <2>4, <3>1, NothingLeads
  <2>5. CASE nr.image.points # <<>>
    <3>1. /\ sh.state \in {"priming", "running"}
          /\ Context.execution = Executing
          /\ Context.generation = IF sh.state = "priming" THEN 0 ELSE sh.generation
      BY DEF PrepareBatch, ContextReadable, PrimingContext, Context, Executing
    <3>2. Executing \in Int
      BY <1>0, <3>1 DEF Executing, RestInv, InMotion, OnCurve
    <3>3. \A t \in Executing .. b.from :
              Covers(c, t) /\ Sample(c, t).pos = Sample(nr.image, t).pos
      BY <1>0, <1>1, <1>4, <2>5, <3>1, <3>2, PreparedAgrees
    <3> HIDE DEF c, p
    <3>4. ASSUME NEW q, Agrees(q, nr.image, Executing),
                 nr.image.generation > Context.generation \/ q = nr.image
          PROVE  Agrees(q, c, Executing)
      BY <1>0, <1>1, <2>2, <3>2, <3>3, <3>4, AgreesThrough
    <3>5. FromActive'
      <4> SUFFICES ASSUME sh.state = "running"
                   PROVE  /\ sh.replaceable = sh.execution + Lead
                          /\ Leads(ActiveImage, sh.generation, sh.execution)'
        BY <1>4 DEF FromActive
      <4>1. /\ sh.replaceable = sh.execution + Lead
            /\ Leads(ActiveImage, sh.generation, Executing)
        BY <1>0 DEF LeadInv, FromActive, Executing
      <4>2. nr.image.generation > Context.generation \/ ActiveImage = nr.image
        BY <1>0, <3>1, <4>1 DEF Leads
      <4>3. ActiveImage' = ActiveImage /\ UNCHANGED <<sh, nr>> /\ Executing' = Executing
        BY <1>0, <1>4 DEF ActiveImage, Executing
      <4>4. Agrees(ActiveImage, c, Executing)
        BY <3>4, <4>1, <4>2 DEF Leads
      <4> QED
        BY <2>1, <4>1, <4>3, <4>4 DEF Leads, Executing
    <3>6. FromUnseen'
      <4> SUFFICES ASSUME Unseen'
                   PROVE  /\ Leads(Latest.image, Latest.image.generation, Executing)'
                          /\ sh.state = "running" =>
                                 /\ Latest'.image.generation > sh.generation
                                 /\ Agrees(ActiveImage', Latest'.image, sh.execution)
        BY <1>4 DEF FromUnseen
      <4>1. /\ Latest' = Latest /\ Unseen /\ ActiveImage' = ActiveImage
            /\ Executing' = Executing
        BY <1>0, <1>4 DEF Latest, Unseen, ActiveImage, Executing
      <4>2. /\ Leads(Latest.image, Latest.image.generation, Executing)
            /\ sh.state = "running" =>
                   /\ Latest.image.generation > sh.generation
                   /\ Agrees(ActiveImage, Latest.image, sh.execution)
        BY <1>0, <2>5, <3>1, <4>1 DEF LeadInv, FromUnseen
      <4>3. nr.image.generation > Context.generation
        <5>1. CASE sh.state = "priming"
          BY <1>0, <2>5, <3>1, <5>1
        <5>2. CASE sh.state = "running"
          <6>1. sh.generation \in Int
            BY <1>0, <5>2 DEF LeadInv, FromActive, Leads
          <6> QED
            BY <1>0, <3>1, <4>2, <5>2, <6>1 DEF Leads
        <5> QED
          BY <3>1, <5>1, <5>2
      <4>4. Agrees(Latest.image, c, Executing)
        BY <3>4, <4>2, <4>3 DEF Leads
      <4>5. Leads(Latest.image, Latest.image.generation, Executing)'
        BY <1>4, <2>1, <4>1, <4>2, <4>4 DEF Leads
      <4> QED
        BY <4>1, <4>2, <4>5
    <3> QED
      BY <2>3, <3>5, <3>6 DEF LeadInv
  <2> QED
    BY <2>4, <2>5
<1> QED
  BY <1>2, <1>3, <1>4

LEMMA CommitBatchLeads ==
    ASSUME SessionInv, RestInv, LeadInv, CommitBatch
    PROVE  LeadInv'
<1>0. /\ DOMAIN nr = NrFields /\ ShShaped(sh) /\ DOMAIN cb = CbFields /\ Owned(ex)
      /\ UNCHANGED <<now, rt, ex>> /\ cb.pc = "commit" /\ sh.active
      /\ nr.image.generation \in Nat
      /\ cb.candidate.generation = nr.image.generation + 1 /\ cb.candidate.earliest \in Int
  BY DEF SessionInv, Shapes, CallbackHolds, LeadInv, Generations, CommitBatch
<1>1. CASE \E code : Finish(nr, sh, code)
  BY <1>0, <1>1, FinishLeads DEF ShShaped
<1>2. CASE /\ nr' = [nr EXCEPT !.image = cb.candidate]
           /\ cb' = [cb EXCEPT !.pc = "publish"]
           /\ UNCHANGED sh
  <2>1. nr'.image = cb.candidate /\ cb'.pc = "publish"
    BY <1>0, <1>2 DEF NrFields, CbFields
  <2>2. Generations'
    BY <1>0, <1>2, <2>1 DEF Generations
  <2>3. ASSUME NEW q, NEW gen, NEW e, Leads(q, gen, e)
        PROVE  /\ gen \in Int /\ nr'.image.generation > gen /\ nr'.image.generation # gen
               /\ Agrees(q, nr'.image, e)
    BY <1>0, <2>1, <2>3 DEF Leads
  <2>4. FromActive'
    <3> SUFFICES ASSUME sh.state = "running"
                 PROVE  /\ sh.replaceable = sh.execution + Lead
                        /\ Leads(ActiveImage, sh.generation, sh.execution)'
      BY <1>2 DEF FromActive
    <3>1. /\ sh.replaceable = sh.execution + Lead
          /\ Leads(ActiveImage, sh.generation, sh.execution)
      BY <1>0 DEF LeadInv, FromActive
    <3>2. ActiveImage' = ActiveImage
      BY <1>0 DEF ActiveImage
    <3> QED
      BY <1>0, <1>2, <2>1, <2>3, <3>1, <3>2 DEF Leads
  <2>5. FromUnseen'
    <3> SUFFICES ASSUME sh.state \in {"priming", "running"}, Unseen'
                 PROVE  /\ Leads(Latest.image, Latest.image.generation, Executing)'
                        /\ sh.state = "running" =>
                               /\ Latest'.image.generation > sh.generation
                               /\ Agrees(ActiveImage', Latest'.image, sh.execution)
      BY <1>2 DEF FromUnseen
    <3>1. /\ Latest' = Latest /\ Unseen /\ ActiveImage' = ActiveImage /\ Executing' = Executing
      BY <1>0, <1>2 DEF Latest, Unseen, ActiveImage, Executing
    <3>2. nr.image.points # <<>>
      <4>1. Latest.sequence \in 0 .. ex.sequence /\ ex.sequence \in Nat /\ sh.floor \in Nat
        BY <1>0 DEF Owned, Latest, ShShaped
      <4>2. ~(ex.sequence < sh.floor)
        BY <3>1, <4>1 DEF Unseen
      <4>3. sh.epoch > 0
        BY <1>0 DEF SessionInv, Epochs
      <4> QED
        BY <1>0, <4>2, <4>3 DEF SessionInv, NothingPublished
    <3>3. /\ Leads(Latest.image, Latest.image.generation, Executing)
          /\ sh.state = "running" =>
                 /\ Latest.image.generation > sh.generation
                 /\ Agrees(ActiveImage, Latest.image, sh.execution)
      BY <1>0, <3>1, <3>2 DEF LeadInv, FromUnseen
    <3>4. Leads(Latest.image, Latest.image.generation, Executing)'
      BY <1>0, <2>1, <2>3, <3>1, <3>3 DEF Leads
    <3> QED
      BY <3>1, <3>3, <3>4
  <2> QED
    BY <2>2, <2>4, <2>5 DEF LeadInv
<1> QED
  BY <1>1, <1>2 DEF CommitBatch

LEMMA PublishBatchLeads ==
    ASSUME SessionInv, LeadInv, PublishBatch
    PROVE  LeadInv'
<1>0. /\ ShShaped(sh) /\ Owned(ex) /\ UNCHANGED rt /\ cb.pc = "publish" /\ sh.active
      /\ nr.image.points # <<>> /\ nr.image.generation \in Nat
  BY DEF SessionInv, Shapes, CallbackHolds, LeadInv, Generations, PublishBatch
<1>1. CASE ex.sequence = MaxCount
  <2> DEFINE s == [sh EXCEPT !.reason = Reason(sh.reason, "internal"), !.stopRequested = TRUE]
  <2>1. Finish(nr, s, "NOT_ACCEPTING") /\ UNCHANGED ex
    BY <1>1 DEF PublishBatch
  <2>2. /\ DOMAIN s = ShFields /\ s.active = sh.active /\ s.state = sh.state
        /\ s.floor = sh.floor /\ s.generation = sh.generation
        /\ s.execution = sh.execution /\ s.replaceable = sh.replaceable
    BY <1>0 DEF ShShaped, ShFields
  <2> HIDE DEF s
  <2> QED
    BY <1>0, <2>1, <2>2, FinishLeads
<1>2. CASE ex.sequence # MaxCount
  <2>1. ex' = Publish(ex, sh.epoch, nr.image, now) /\ Finish(nr, sh, "ACCEPTED")
    BY <1>2 DEF PublishBatch
  <2>2. /\ sh'.active = sh.active /\ sh'.state = sh.state /\ sh'.floor = sh.floor
        /\ sh'.generation = sh.generation /\ sh'.execution = sh.execution
        /\ sh'.replaceable = sh.replaceable
    BY <1>0, <2>1 DEF Finish, ShShaped, ShFields
  <2>3. nr' = nr /\ cb'.pc = "idle"
    BY <2>1 DEF Finish, Quiet
  <2>4. /\ ex'.slots[ex.reading] = ex.slots[ex.reading]
        /\ Latest'.image = nr.image
    BY <1>0, <2>1, PublishOwned DEF Latest
  <2>5. Generations'
    BY <2>2, <2>3 DEF LeadInv, Generations
  <2>6. ASSUME sh.state = "running"
        PROVE  /\ ActiveImage' = ActiveImage /\ sh.replaceable = sh.execution + Lead
               /\ Leads(ActiveImage, sh.generation, sh.execution)
    <3>1. rt.active = ex.reading
      BY <1>0, <2>6 DEF SessionInv, Follows, Following
    <3>2. ActiveImage' = ActiveImage
      BY <1>0, <2>4, <3>1 DEF ActiveImage
    <3> QED
      BY <1>0, <2>6, <3>2 DEF LeadInv, FromActive
  <2>7. FromActive'
    BY <2>2, <2>3, <2>6 DEF FromActive, Leads
  <2>8. FromUnseen'
    <3>1. Agrees(nr.image, nr.image, Executing')
      BY DEF Agrees, LeadInv, Generations
    <3>2. Leads(Latest.image, Latest.image.generation, Executing)'
      BY <1>0, <2>3, <2>4, <3>1 DEF Leads
    <3>3. sh.state = "running" => /\ nr.image.generation > sh.generation
                                  /\ Agrees(ActiveImage, nr.image, sh.execution)
      BY <1>0, <2>6 DEF Leads
    <3> QED
      BY <2>2, <2>4, <2>6, <3>2, <3>3 DEF FromUnseen
  <2> QED
    BY <2>5, <2>7, <2>8 DEF LeadInv
<1> QED
  BY <1>1, <1>2

LEMMA CallbackStepLeads ==
    ASSUME SessionInv, RestInv, LeadInv, Callback
    PROVE  LeadInv'
<1>1. CASE RefuseSession \/ ContextFails
  <2>1. UNCHANGED <<rt, ex>> /\ Finish(nr, sh, "NOT_ACCEPTING") /\ DOMAIN sh = ShFields
    BY <1>1 DEF RefuseSession, ContextFails, SessionInv, Shapes, ShShaped
  <2> QED
    BY <2>1, FinishLeads
<1> QED
  BY <1>1, AdmitBatchLeads, StartSessionLeads, PrepareBatchLeads, CommitBatchLeads,
     PublishBatchLeads DEF Callback

LEMMA LifecycleLeads ==
    ASSUME SessionInv, LeadInv, OnActivate \/ OnDeactivate
    PROVE  LeadInv'
<1>0. DOMAIN nr = NrFields /\ ShShaped(sh)
  BY DEF SessionInv, Shapes
<1>1. UNCHANGED cb /\ cb.pc \in {"idle", "lock"}
  BY DEF OnActivate, OnDeactivate, MutexFree
<1>2. nr'.image = EmptyImage
  BY <1>0 DEF OnActivate, OnDeactivate, NrFields
<1>3. nr'.image.points = <<>> /\ nr'.image.generation = 0 /\ nr'.image.earliest = 0
  BY <1>2 DEF EmptyImage
<1>4. sh'.state \in {"none", "terminated"}
  <2>1. CASE OnActivate
    BY <2>1 DEF OnActivate
  <2>2. CASE OnDeactivate
    BY <1>0, <2>2 DEF OnDeactivate, ShShaped, ShFields
  <2> QED
    BY <2>1, <2>2
<1>5. Generations'
  BY <1>1, <1>3, <1>4 DEF Generations
<1> QED
  BY <1>3, <1>4, <1>5, NothingLeads

LEMMA LeadStarts == RollingInit => LeadInv
<1> SUFFICES ASSUME RollingInit PROVE LeadInv
  OBVIOUS
<1>1. /\ sh.state = "none" /\ nr.image = EmptyImage /\ cb.pc = "idle"
  BY DEF RollingInit, Quiet
<1>2. Generations
  BY <1>1 DEF Generations, EmptyImage
<1> QED
  BY <1>1, <1>2 DEF LeadInv, FromActive, FromUnseen

LEMMA LeadStep ==
    SessionInv /\ RestInv /\ LeadInv /\ [RollingNext]_rollingVars => LeadInv'
<1> SUFFICES ASSUME SessionInv, RestInv, LeadInv, [RollingNext]_rollingVars PROVE LeadInv'
  OBVIOUS
<1>1. CASE Tick \/ UNCHANGED rollingVars
  <2>1. UNCHANGED <<rt, sh, ex, nr, cb>>
    BY <1>1 DEF Tick, rollingVars
  <2> QED
    BY <2>1, StillLeads
<1>2. CASE ReceiveBatch
  <2>1. /\ sh'.active = sh.active /\ sh'.state = sh.state /\ sh'.floor = sh.floor
        /\ sh'.generation = sh.generation /\ sh'.execution = sh.execution
        /\ sh'.replaceable = sh.replaceable /\ UNCHANGED <<rt, ex, nr>>
    BY <1>2 DEF ReceiveBatch, SessionInv, Shapes, ShShaped, ShFields
  <2>2. cb'.pc = "lock"
    BY <1>2 DEF ReceiveBatch, Quiet
  <2> QED
    BY <2>1, <2>2, StillLeads
<1> QED
  BY <1>1, <1>2, RealTimeLeads, CallbackStepLeads, LifecycleLeads DEF RollingNext

(* The inductive invariant of the promised lead: what the callback draws,   *)
(* accepts and publishes agrees with what the update follows, up to its     *)
(* earliest change.                                                         *)
THEOREM LeadInductive == RollingSpec => []LeadInv
BY SessionInductive, RestInductive, LeadStarts, LeadStep, PTL DEF RollingSpec

(* Only the update of a running session takes up an image, and only one     *)
(* that agrees with the curve up to the promised boundary.                  *)
LEMMA GenerationChanges ==
    ASSUME SessionInv, RestInv, LeadInv, [RollingNext]_rollingVars,
           sh.state = "running", sh'.state = "running", sh'.generation # sh.generation
    PROVE  UpdateRunning
<1>0. ShShaped(sh) /\ sh.active /\ Coherent
  BY DEF SessionInv, Shapes, Epochs, LeadInv, Generations
<1>1. RtShaped(rt)
  BY DEF SessionInv, Shapes
<1>2. ASSUME NEW r, r.epoch = rt.epoch, ReadEpoch(r) PROVE UNCHANGED sh
  BY <1>0, <1>2 DEF ReadEpoch, Coherent
<1>3. ASSUME UpdateEpoch \/ UpdateEpochAgain PROVE UNCHANGED sh
  <2>1. [rt EXCEPT !.last = now].epoch = rt.epoch
    BY <1>1 DEF RtShaped, RtFields
  <2> QED
    BY <1>2, <1>3, <2>1 DEF UpdateEpoch, UpdateEpochAgain
<1>4. ASSUME UpdateRetry \/ UpdateHolding \/ UpdateWrite PROVE sh'.generation = sh.generation
  BY <1>0, <1>4 DEF UpdateRetry, UpdateHolding, UpdateWrite, ShShaped, ShFields
<1>5. ~UpdatePriming /\ ~(\E p \in Periods : UpdateStopping(p))
  BY DEF UpdatePriming, UpdateStopping, InState
<1>6. \A n, result : Finish(n, sh, result) => sh'.generation = sh.generation
  BY <1>0 DEF Finish, ShShaped, ShFields
<1>7. ASSUME NEW m, AdmitBatch(m) PROVE sh'.generation = sh.generation
  <2>1. \/ \E n, result : Finish(n, sh, result)
        \/ sh' = [sh EXCEPT !.gate = FALSE]
        \/ UNCHANGED sh
    BY <1>7, Zenon DEF AdmitBatch
  <2>2. [sh EXCEPT !.gate = FALSE].generation = sh.generation
    BY <1>0 DEF ShShaped, ShFields
  <2> QED
    BY <1>6, <2>1, <2>2
<1>8. ~StartSession /\ ~StartPriming
  BY <1>0 DEF StartSession, StartPriming, SessionInv, CallbackHolds, InSession
<1>9. ASSUME RefuseSession \/ ContextFails \/ PrepareBatch \/ CommitBatch
      PROVE  sh'.generation = sh.generation
  <2>1. (\E n, result : Finish(n, sh, result)) \/ UNCHANGED sh
    BY <1>9, Zenon DEF RefuseSession, ContextFails, PrepareBatch, CommitBatch
  <2> QED
    BY <1>6, <2>1
<1>10. ASSUME PublishBatch PROVE sh'.generation = sh.generation
  <2> DEFINE s == [sh EXCEPT !.reason = Reason(sh.reason, "internal"), !.stopRequested = TRUE]
  <2>1. Finish(nr, s, "NOT_ACCEPTING") \/ Finish(nr, sh, "ACCEPTED")
    BY <1>10 DEF PublishBatch
  <2>2. DOMAIN s = ShFields /\ s.generation = sh.generation
    BY <1>0 DEF ShShaped, ShFields
  <2> HIDE DEF s
  <2>3. Finish(nr, s, "NOT_ACCEPTING") => sh'.generation = sh.generation
    BY <2>2 DEF Finish, ShFields
  <2> QED
    BY <1>6, <2>1, <2>3
<1>11. ~Callback
  BY <1>7, <1>8, <1>9, <1>10 DEF Callback
<1>12. ~OnActivate /\ ~OnDeactivate
  BY <1>0 DEF OnActivate, OnDeactivate, ShShaped, ShFields
<1>13. ~Tick /\ ~ReceiveBatch /\ ~UNCHANGED rollingVars
  BY <1>0 DEF Tick, ReceiveBatch, rollingVars, ShShaped, ShFields
<1> QED
  BY <1>3, <1>4, <1>5, <1>11, <1>12, <1>13 DEF RollingNext, RealTime

(* A replacement that the update takes up changes nothing before the        *)
(* boundary that was promised as fixed, whether it was committed before the *)
(* boundary moved, published after it, or over a batch that was never seen  *)
(* (RollingBuffer::prepare, commit, consumeLatestRtTrajectory).             *)
THEOREM LeadStaysFixed == RollingSpec => LeadIsFixed
<1> DEFINE Taken == /\ sh.state = "running" /\ sh'.state = "running"
                    /\ sh.generation > 0 /\ sh'.generation # sh.generation
           Fixed == \A t \in sh.execution .. (IF sh.execution = 0 THEN 0 ELSE sh.replaceable) :
                        Covers(ActiveImage, t) =>
                            Sample(ActiveImage, t).pos = Sample(ActiveImage', t).pos
<1>1. ASSUME SessionInv, RestInv, LeadInv, [RollingNext]_rollingVars, Taken PROVE Fixed
  <2>1. UpdateRunning /\ sh.active
    BY <1>1, GenerationChanges DEF LeadInv, Generations
  <2>2. Waits \/ Advances
    BY <1>1, <2>1, RunsOn
  <2>3. /\ Unseen /\ Acceptable(FALSE) /\ rt'.active = ex.middle /\ ex'.slots = ex.slots
        /\ sh.execution \in Int
    BY <1>1, <2>2 DEF Waits, Advances
  <2>4. nr.image.points # <<>> /\ sh.replaceable = sh.execution + Lead
    BY <1>1, <2>1 DEF SessionInv, NothingPublished, LeadInv, FromActive
  <2>5. Agrees(ActiveImage, Latest.image, sh.execution)
    BY <1>1, <2>1, <2>3, <2>4 DEF LeadInv, FromUnseen
  <2>6. ActiveImage' = Latest.image
    BY <2>3 DEF ActiveImage, Latest
  <2>7. \/ Latest.image.earliest >= sh.replaceable
        \/ sh.execution = 0 /\ Latest.image.earliest = 0
    BY <2>3 DEF Acceptable
  <2>8. Lead \in Int /\ Lead > 0
    BY BufferAssumption
  <2> SUFFICES ASSUME NEW t \in sh.execution .. (IF sh.execution = 0 THEN 0 ELSE sh.replaceable),
                      Covers(ActiveImage, t)
               PROVE  Sample(ActiveImage, t).pos = Sample(Latest.image, t).pos
    BY <2>6
  <2>9. t \in sh.execution .. Latest.image.earliest
    BY <2>3, <2>4, <2>5, <2>7, <2>8 DEF Agrees
  <2> QED
    BY <2>5, <2>9 DEF Agrees
<1>2. SessionInv /\ RestInv /\ LeadInv /\ [RollingNext]_rollingVars => [Taken => Fixed]_rollingVars
  BY <1>1
<1> QED
  BY <1>2, SessionInductive, RestInductive, LeadInductive, PTL DEF RollingSpec, LeadIsFixed

=============================================================================
