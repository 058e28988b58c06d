------------------------------ MODULE Simulate ------------------------------
(***************************************************************************)
(* A run of the time stepping (simulate.cxx): with kicks made by the gravity *)
(* calculation (param.bNewKDK, NewTopStepKDK) or with stored accelerations   *)
(* (TopStepKDK).  Either way each particle is to follow the leapfrog of      *)
(* LeapFrog.                                                                 *)
(***************************************************************************)
EXTENDS Integers

CONSTANTS NewParticles,   \* the particles of a run with NewTopStepKDK
          TopParticles,   \* the particles of a run with TopStepKDK
          MaxRung, DualTree, nDT,  \* see NewKDK
          First, Params,           \* see TopStepKDK
          Steps                    \* bound: nSteps

VARIABLES bNewKDK,                                  \* param.bNewKDK
          x, v, rung, open, stack, pc, iStep, arg,  \* of both modules
          root, fix, dTime, uRungMax, iRungDT, kickOpen, due, cone, sources,  \* of NewKDK
          param, uNewRung, a, nRungCount, iCurrMaxRung                        \* of TopStepKDK

leapVars == <<x, v, rung, open>>
newVars == <<root, fix, dTime, uRungMax, iRungDT, kickOpen, due, cone, sources>>
topVars == <<param, uNewRung, a, nRungCount, iCurrMaxRung>>
vars == <<bNewKDK, leapVars, stack, pc, iStep, arg, newVars, topVars>>

New == INSTANCE NewKDK WITH Particles <- NewParticles
Top == INSTANCE TopStepKDK WITH Particles <- TopParticles

ASSUME SimulateAssumption == New!NewKDKAssumption /\ Top!TopStepKDKAssumption

NewIdle ==
  /\ root = {} /\ fix = {} /\ dTime = 0 /\ uRungMax = 0 /\ iRungDT = 0
  /\ kickOpen = FALSE /\ due = FALSE /\ cone = 0 /\ sources = <<{}, {}>>

TopIdle ==
  param = [bDensityStep |-> FALSE, nTruncateRung |-> 0]
  /\ uNewRung = <<>> /\ a = <<>> /\ nRungCount = <<>> /\ iCurrMaxRung = 0

Init ==
  \/ bNewKDK = TRUE /\ New!Init /\ TopIdle
  \/ bNewKDK = FALSE /\ Top!Init /\ NewIdle

NewStep == bNewKDK /\ New!Next /\ UNCHANGED <<bNewKDK, topVars>>
TopStep == ~bNewKDK /\ Top!Next /\ UNCHANGED <<bNewKDK, newVars>>

Next == NewStep \/ TopStep

Spec == Init /\ [][Next]_vars
------------------------------------------------------------------------------
(* Properties *)

\* Whatever rungs the particles change to on the way, in NewTopStepKDK at every gravity
\* and in TopStepKDK between steps: no particle's step is left out, cut short, or begun
\* out of phase.
IsLeapFrog == [][IF bNewKDK THEN New!LeapFrogStep ELSE Top!LeapFrogStep]_<<leapVars, pc>>

\* A force of the new scheme is a sum over all particles, each in one of the trees, for
\* particles that have come to dTime, from particles that have or that wait for it in the
\* middle of their step in the fixed tree.  A stored acceleration is used for two kicks,
\* at the end of a step and at the beginning of the next: it is never older than that, on
\* rungs that take no steps in between either.
ForcesCurrent == [][IF bNewKDK THEN New!ForceSourcesStep ELSE Top!ForcesCurrentStep]_vars

\* The expansion a drift, or a kick of TopStepKDK, integrates over is the one that the
\* positions or velocities are moved through.
IntegralTimes == [][IF bNewKDK THEN New!DriftTimed ELSE Top!KickTimed]_vars

\* What is written, as a checkpoint or for analysis, has positions and velocities of
\* the time that is written with it, and the time is that of the steps done.
WritesInSync == IF bNewKDK THEN New!InSync ELSE Top!InSync

\* A particle is looked for on the light cone when its step is opened: the files that are
\* open then are those of the top step it begins in.
ConeOfTheStep == [][bNewKDK => New!ConeMatches]_vars
=============================================================================
