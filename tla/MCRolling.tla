------------------------------ MODULE MCRolling ------------------------------
(* The rolling trajectory controller with up to three batches and two      *)
(* activations.                                                            *)
EXTENDS RollingSession

Plan(delay, length, v, final, match) ==
    [delay |-> delay, length |-> length, v |-> v, final |-> final, match |-> match]

\* A moving batch of four cycles and a shorter one, a final one at rest, one
\* that is late, and a final one that does not come to rest.
Moving(delay) == Plan(delay, 4, 1, FALSE, TRUE)
Short == Plan(1, 3, 1, FALSE, TRUE)
Final == Plan(1, 2, 0, TRUE, TRUE)
Later == Plan(2, 2, 0, TRUE, TRUE)
Late == Plan(0, 2, 0, TRUE, TRUE)
Bad == Plan(1, 3, 1, TRUE, FALSE)

\* Two replacements in one activation, the second over a batch the update may
\* not have seen; a replacement of a longer batch; snapshots left over by an
\* earlier activation; a session followed by batches that open one and are
\* rejected.
MCScenarios ==
    { << << {Moving(1)}, {Short}, {Later} >> >>,
      << << {Moving(1)}, {Moving(2), Final} >> >>,
      << << {Moving(1)} >>, << {Moving(1), Bad, Late}, {Final} >> >>,
      << << {Final}, {Bad}, {Bad} >> >> }

=============================================================================
