----------------------------- MODULE MCOutputs ------------------------------
(* Four steps with two requests and two deaths of the program. *)
EXTENDS Outputs

Absolute(t) == [relative |-> FALSE, at |-> t]
Relative(n) == [relative |-> TRUE, at |-> n]

\* Two output times within the third step, and one that is counted from the start.
MCRed == {Absolute(5), Absolute(6), Relative(2)}

\* A limit of the wall clock with runs that have no output times
MCParams ==
  {[CheckInterval |-> check, OutInterval |-> out, iWallRunTime |-> IF red = {} THEN 1 ELSE 0, red |-> red] :
     check \in {0, 1, 2}, out \in {0, 2}, red \in {{}, MCRed}}
=============================================================================
