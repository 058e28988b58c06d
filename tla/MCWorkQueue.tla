---------------------------- MODULE MCWorkQueue -----------------------------
(* The work queues of a process of three cores. *)
EXTENDS WorkQueue
=============================================================================
