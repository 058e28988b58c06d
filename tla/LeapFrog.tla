------------------------------ MODULE LeapFrog ------------------------------
(***************************************************************************)
(* What block time stepping promises, whatever the order in which a program *)
(* visits the rungs: every particle follows a leapfrog of its own.          *)
(*                                                                         *)
(* A particle is kicked to the middle of its step, drifts through the step   *)
(* with that velocity, and is kicked to the end of it by the force found     *)
(* there.  It may change its rung, and so the length of its step, between    *)
(* two steps, but only to a step that begins at a multiple of its length,    *)
(* which keeps it in phase with the particles of all slower rungs.           *)
(*                                                                         *)
(* The steps of the program (NewKDK, TopStepKDK) are shown to be steps of    *)
(* this module.  Time is counted in halves of the shortest step.            *)
(***************************************************************************)
EXTENDS Integers

CONSTANTS Particles,  \* the particles of the simulation
          MaxRung     \* param.iMaxRung: the rungs are 0..MaxRung - 1; at most 31, as the
                      \* step of rung r is dDelta / (1 << r) with a shift of an int

Rung == 0..(MaxRung - 1)

\* Half a step and a step of rung r: each is half of that of the next slower rung.
halves[r \in Rung] == IF r = MaxRung - 1 THEN 1 ELSE 2 * halves[r + 1]
Half(r) == halves[r]
Step(r) == 2 * Half(r)

VARIABLES x,     \* the time each particle has drifted to
          v,     \* the time its velocity has been kicked to
          rung,  \* p->uRung
          open   \* is it within a step?

leapVars == <<x, v, rung, open>>

Init ==
  /\ x = [p \in Particles |-> 0] /\ v = [p \in Particles |-> 0]
  /\ rung \in [Particles -> Rung] /\ open = [p \in Particles |-> FALSE]

Unkicked(p) == v'[p] = v[p] /\ rung'[p] = rung[p] /\ open'[p] = open[p]

\* The force at the end of the step completes the velocity.
CanClose(p) == open[p] /\ x[p] = v[p] + Half(rung[p])

Close(p) == CanClose(p) /\ v'[p] = x[p] /\ rung'[p] = rung[p] /\ ~open'[p]

\* The force at the beginning of a step brings the velocity to the middle of it.
OpenWith(p) ==
  /\ rung'[p] \in Rung /\ x[p] % Step(rung'[p]) = 0
  /\ v'[p] = x[p] + Half(rung'[p]) /\ open'[p]

Open(p) == ~open[p] /\ OpenWith(p)
CloseOpen(p) == CanClose(p) /\ OpenWith(p)

\* Between two steps the rung may change.
Adjust(p) == ~open[p] /\ ~open'[p] /\ v'[p] = v[p] /\ rung'[p] \in Rung

\* One force calculation, at one time.
Kick ==
  /\ x' = x
  /\ v' \in [Particles -> Int] /\ rung' \in [Particles -> Rung] /\ open' \in [Particles -> BOOLEAN]
  /\ \A p, q \in Particles : v'[p] # v[p] /\ v'[q] # v[q] => x[p] = x[q]
  /\ \A p \in Particles : Unkicked(p) \/ Close(p) \/ Open(p) \/ CloseOpen(p) \/ Adjust(p)

\* Particles move within their steps.
Drift ==
  /\ x' \in [Particles -> Int]
  /\ \A p \in Particles :
       x'[p] = x[p] \/ (open[p] /\ x[p] < x'[p] /\ x'[p] <= v[p] + Half(rung[p]))
  /\ UNCHANGED <<v, rung, open>>

Next == Kick \/ Drift

Spec == Init /\ [][Next]_leapVars
=============================================================================
