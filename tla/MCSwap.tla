------------------------------- MODULE MCSwap -------------------------------
(* Swap for TLC: every pair of buffers of up to MaxBuf bytes, chunks of two bytes. *)
EXTENDS Swap
=============================================================================
