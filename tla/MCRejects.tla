----------------------------- MODULE MCRejects ------------------------------
(* Rejects with two threads in each half; thread ids are ordered, so there is no symmetry. *)
EXTENDS Rejects

MCLower == {0, 1}
MCUpper == {2, 3}
=============================================================================
