----------------------------- MODULE SwapAtomic -----------------------------
(***************************************************************************)
(* What mdlSwap promises its callers (the comment above mdlClass::Swap and  *)
(* its use in pkdSwapRejects and pkdSwapAll): two threads exchange the last *)
(* nOut bytes of their buffers in one step, each sending as much as the     *)
(* other's buffer can hold.                                                 *)
(***************************************************************************)
EXTENDS Integers

CONSTANT MaxBuf     \* bound: largest buffer offered

VARIABLES size,     \* nBufBytes of each side
          leaving,  \* nOutBytes of each side
          moved,    \* bytes each side has sent
          finished

vars == <<size, leaving, moved, finished>>

Side == {0, 1}
Opp(p) == 1 - p

\* A side sends everything, unless the other's buffer is smaller than that.
Transfer(nOut, nBufOther) == IF nOut < nBufOther THEN nOut ELSE nBufOther

Init ==
  /\ size \in [Side -> 0..MaxBuf]
  /\ leaving \in [Side -> 0..MaxBuf]
  /\ \A p \in Side : leaving[p] <= size[p]
  /\ moved = [p \in Side |-> 0]
  /\ finished = FALSE

Exchange ==
  /\ ~finished
  /\ finished' = TRUE
  /\ moved' = [p \in Side |-> Transfer(leaving[p], size[Opp(p)])]
  /\ UNCHANGED <<size, leaving>>

Spec == Init /\ [][Exchange]_vars /\ WF_vars(Exchange)
=============================================================================
