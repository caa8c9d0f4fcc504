-------------------------- MODULE MCTimelineStore --------------------------
(* Instances of TimelineStore for TLC. *)
EXTENDS TimelineLog, TLC

CONSTANTS w1, w2, r1, c1, u1

OneUser == {<<u1>>}
Nobody == {<< >>}

\* For the runs without a liveness property.
Symmetry == Permutations(Writers)
=============================================================================
