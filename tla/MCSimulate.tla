----------------------------- MODULE MCSimulate -----------------------------
(* Block time stepping, in both schemes, with few particles. *)
EXTENDS Simulate

\* The default, rungs by density, and a promotion of a particle that is alone.
MCParams == {[bDensityStep |-> FALSE, nTruncateRung |-> 0], [bDensityStep |-> TRUE, nTruncateRung |-> 0],
             [bDensityStep |-> FALSE, nTruncateRung |-> 1]}
=============================================================================
