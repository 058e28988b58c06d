------------------------------- MODULE MCARC -------------------------------
(* Model-checking instance of ARC: keys are interchangeable. *)
EXTENDS ARC, TLC

Symmetry == Permutations(Key)
=============================================================================
