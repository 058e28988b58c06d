------------------------------ MODULE MCRWLock ------------------------------
(* RWLock on a few threads; the readers are interchangeable. *)
EXTENDS RWLock, TLC

Symmetry == Permutations(Reader)
=============================================================================
