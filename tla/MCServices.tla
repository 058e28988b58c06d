------------------------------ MODULE MCServices ------------------------------
(* Services on a few processes. *)
EXTENDS Services, TLC

\* A process of one thread and two of two.
MCThree == 0 :> 1 @@ 1 :> 2 @@ 2 :> 2
=============================================================================
