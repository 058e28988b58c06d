----------------------------- MODULE TopStepKDK -----------------------------
(***************************************************************************)
(* TopStepKDK (master.cxx), the time stepping that keeps the acceleration of *)
(* each particle: the kicks of a step are calls of their own, and the rungs   *)
(* change in UpdateRung, at the beginning of a step.                          *)
(*                                                                           *)
(* The recursion is a stack of frames.  A call for rung iRung takes a step of *)
(* that rung; the forces at its end are found by the deepest call, for all    *)
(* rungs from iKickRung on that have a step ending there.                     *)
(*                                                                           *)
(* The particles are spread over threads.  pstUpdateRung adds up the counts   *)
(* of all threads only for the rungs below uMaxRung; for the others it leaves *)
(* those of the first thread, whose particles are First.                      *)
(*                                                                           *)
(* dTime: in halves of the shortest step, see LeapFrog.                       *)
(***************************************************************************)
EXTENDS Integers, Sequences, FiniteSets, FiniteSetsExt

CONSTANTS Particles, MaxRung,
          First,   \* the particles of the first thread
          Params,  \* what the parameter file may say: bDensityStep and nTruncateRung
          Steps    \* bound: nSteps

\* Assumed by Simulate.
TopStepKDKAssumption ==
  /\ IsFiniteSet(Particles) /\ Particles # {} /\ First \subseteq Particles /\ MaxRung \in 1..31
  /\ Params \subseteq [bDensityStep : BOOLEAN, nTruncateRung : Nat] /\ Steps \in Nat

VARIABLES param,             \* the parameters of this run
          x, v, rung, open,  \* of each particle, see LeapFrog
          uNewRung,          \* the rung it is to have
          a,                 \* the time its acceleration is for
          nRungCount,        \* UpdateRung's counts
          iCurrMaxRung,      \* deepest rung in use
          stack,             \* calls of TopStepKDK, the deepest last
          pc, iStep,         \* of Simulate
          arg                \* the time the last call of KickKDKOpen or KickKDKClose was told

leapVars == <<x, v, rung, open>>
vars == <<param, leapVars, uNewRung, a, nRungCount, iCurrMaxRung, stack, pc, iStep, arg>>

Leap == INSTANCE LeapFrog
Half(r) == Leap!Half(r)
Step(r) == Leap!Step(r)

Init ==
  /\ param \in Params
  /\ Leap!Init
  /\ uNewRung = rung /\ a = [p \in Particles |-> 0]
  /\ nRungCount = [r \in 0..MaxRung |-> 0] /\ iCurrMaxRung = 0
  /\ stack = <<>> /\ pc = "init" /\ iStep = 0 /\ arg = 0

\* pkdIsActive after ActiveRung(r, 1).
Active(r) == {p \in Particles : rung[p] >= r}

------------------------------------------------------------------------------
(* UpdateRung *)

\* pkdUpdateRung: the new rung of an active particle, clamped.
NewRung(p, uMinRung, uMaxRung) ==
  LET new == IF uNewRung[p] > uMaxRung THEN uMaxRung ELSE uNewRung[p]
  IN  IF new >= uMinRung THEN new ELSE uMinRung

\* What pstUpdateRung returns.
Counts(uMaxRung, r) ==
  LET On(S, i) == Cardinality({p \in S : r[p] = i})
  IN  [i \in 0..MaxRung |-> IF i < uMaxRung THEN On(Particles, i)
                            ELSE IF i = uMaxRung THEN On(First, i)
                            ELSE nRungCount[i] + On(First, i)]

\* MSR::UpdateRung's call of pstUpdateRung.
Update(uMinRung, uMaxRung) ==
  /\ uNewRung' = [p \in Particles |->
       IF p \in Active(uMinRung) /\ uNewRung[p] > uMaxRung THEN uMaxRung ELSE uNewRung[p]]
  /\ rung' = [p \in Particles |->
       IF p \in Active(uMinRung) THEN NewRung(p, uMinRung, uMaxRung) ELSE rung[p]]
  /\ nRungCount' = Counts(uMaxRung, rung')

\* The deepest rung with particles, by the counts.
iOutMaxRung == Max({0} \cup {i \in 0..(MaxRung - 1) : nRungCount[i] # 0})

------------------------------------------------------------------------------
(* TopStepKDK *)

Frame(iRung, iKickRung, iAdjust, dTime) ==
  [iRung |-> iRung, iKickRung |-> iKickRung, iAdjust |-> iAdjust, dTime |-> dTime, at |-> "start"]

top == stack[Len(stack)]
At(at) == pc = "step" /\ stack # <<>> /\ top.at = at
GoOn(frame) == stack' = [stack EXCEPT ![Len(stack)] = frame]
Call(frame, callee) == stack' = [stack EXCEPT ![Len(stack)] = frame] \o <<callee>>

Adjusts == top.iAdjust /\ top.iRung < MaxRung - 1

StartNoAdjust ==
  /\ At("start") /\ ~Adjusts
  /\ GoOn([top EXCEPT !.at = "open"])
  /\ UNCHANGED <<param, leapVars, uNewRung, a, nRungCount, iCurrMaxRung, pc, iStep, arg>>

StartAdjust ==
  /\ At("start") /\ Adjusts /\ ~param.bDensityStep
  /\ Update(top.iRung, MaxRung)
  /\ GoOn([top EXCEPT !.at = "truncate"])
  /\ UNCHANGED <<param, x, v, open, a, iCurrMaxRung, pc, iStep, arg>>

\* DensityStep gives each active particle a rung by its density, then UpdateRung.
DensityStep ==
  /\ At("start") /\ Adjusts /\ param.bDensityStep
  /\ \E new \in [Active(top.iRung) -> 0..MaxRung] :
       uNewRung' = [p \in Particles |-> IF p \in Active(top.iRung) THEN new[p] ELSE uNewRung[p]]
  /\ GoOn([top EXCEPT !.at = "update"])
  /\ UNCHANGED <<param, leapVars, a, nRungCount, iCurrMaxRung, pc, iStep, arg>>

UpdateAfterDensityStep ==
  /\ At("update")
  /\ Update(top.iRung, MaxRung)
  /\ GoOn([top EXCEPT !.at = "truncate"])
  /\ UNCHANGED <<param, x, v, open, a, iCurrMaxRung, pc, iStep, arg>>

TooFew == nRungCount[iOutMaxRung] <= param.nTruncateRung /\ iOutMaxRung > top.iRung

\* The deepest rung holds too few particles: "Promoting particles".
Truncate ==
  /\ At("truncate") /\ TooFew
  /\ Update(top.iRung, iOutMaxRung)
  /\ UNCHANGED <<param, x, v, open, a, iCurrMaxRung, stack, pc, iStep, arg>>

Updated ==
  /\ At("truncate") /\ ~TooFew
  /\ iCurrMaxRung' = iOutMaxRung
  /\ GoOn([top EXCEPT !.at = "open"])
  /\ UNCHANGED <<param, leapVars, uNewRung, a, nRungCount, pc, iStep, arg>>

\* A kick of the particles on rung r over half its step, told to begin at time t.
KickHalf(r, t) ==
  /\ v' = [p \in Particles |-> IF rung[p] = r THEN v[p] + Half(r) ELSE v[p]]
  /\ arg' = t

KickKDKOpen ==
  /\ At("open")
  /\ KickHalf(top.iRung, top.dTime)
  /\ open' = [p \in Particles |-> open[p] \/ rung[p] = top.iRung]
  /\ GoOn([top EXCEPT !.at = "recurse"])
  /\ UNCHANGED <<param, x, rung, uNewRung, a, nRungCount, iCurrMaxRung, pc, iStep>>

\* The first of two steps of the next rung; the forces at its end are for that rung on.
FirstHalf ==
  /\ At("recurse") /\ iCurrMaxRung > top.iRung
  /\ Call([top EXCEPT !.at = "second"], Frame(top.iRung + 1, top.iRung + 1, FALSE, top.dTime))
  /\ UNCHANGED <<param, leapVars, uNewRung, a, nRungCount, iCurrMaxRung, pc, iStep, arg>>

\* Mutant: the forces at the end of the second step are for the rung of that step on.
SecondHalf_OwnForces ==
  /\ At("second")
  /\ LET dTime == top.dTime + Half(top.iRung)
     IN  Call([top EXCEPT !.at = "close", !.dTime = dTime],
              Frame(top.iRung + 1, top.iRung + 1, TRUE, dTime))
  /\ UNCHANGED <<param, leapVars, uNewRung, a, nRungCount, iCurrMaxRung, pc, iStep, arg>>

\* The second; its end is that of the step of this rung.
SecondHalf ==
  /\ At("second")
  /\ LET dTime == top.dTime + Half(top.iRung)
     IN  Call([top EXCEPT !.at = "close", !.dTime = dTime],
              Frame(top.iRung + 1, top.iKickRung, TRUE, dTime))
  /\ UNCHANGED <<param, leapVars, uNewRung, a, nRungCount, iCurrMaxRung, pc, iStep, arg>>

\* Gravity without kicks: accelerations, and rungs to come, of the active particles.
Gravity(uRungLo) ==
  \E new \in [Active(uRungLo) -> uRungLo..(MaxRung - 1)] :
    /\ uNewRung' = [p \in Particles |-> IF p \in Active(uRungLo) THEN new[p] ELSE uNewRung[p]]
    /\ a' = [p \in Particles |-> IF p \in Active(uRungLo) THEN x'[p] ELSE a[p]]

\* The deepest rung drifts everything and finds the forces; dTime goes back to the middle.
DriftForces ==
  /\ At("recurse") /\ iCurrMaxRung = top.iRung
  /\ x' = [p \in Particles |-> x[p] + Step(top.iRung)]
  /\ Gravity(top.iKickRung)
  /\ GoOn([top EXCEPT !.at = "close", !.dTime = @ + Step(top.iRung) - Half(top.iRung)])
  /\ UNCHANGED <<param, v, rung, open, nRungCount, iCurrMaxRung, pc, iStep, arg>>

\* abort()
Abort ==
  /\ At("recurse") /\ iCurrMaxRung < top.iRung
  /\ pc' = "aborted"
  /\ UNCHANGED <<param, leapVars, uNewRung, a, nRungCount, iCurrMaxRung, stack, iStep, arg>>

KickKDKClose ==
  /\ At("close")
  /\ KickHalf(top.iRung, top.dTime)
  /\ open' = [p \in Particles |-> open[p] /\ rung[p] # top.iRung]
  /\ stack' = SubSeq(stack, 1, Len(stack) - 1)
  /\ UNCHANGED <<param, x, rung, uNewRung, a, nRungCount, iCurrMaxRung, pc, iStep>>

------------------------------------------------------------------------------
(* Simulate *)

FirstForces ==
  /\ pc = "init" /\ pc' = "top"
  /\ x' = x /\ Gravity(0)
  /\ UNCHANGED <<param, v, rung, open, nRungCount, iCurrMaxRung, stack, iStep, arg>>

TopStep ==
  /\ pc = "top" /\ iStep < Steps
  /\ pc' = "step" /\ stack' = <<Frame(0, 0, TRUE, iStep * Step(0))>>
  /\ UNCHANGED <<param, leapVars, uNewRung, a, nRungCount, iCurrMaxRung, iStep, arg>>

\* Outputs and checkpoints are written here; the run may have to stop after one.
Write ==
  /\ pc = "step" /\ stack = <<>>
  /\ iStep' = iStep + 1 /\ pc' \in (IF iStep' = Steps THEN {"done"} ELSE {"top", "done"})
  /\ UNCHANGED <<param, leapVars, uNewRung, a, nRungCount, iCurrMaxRung, stack, arg>>

Stopped == pc \in {"done", "aborted"} /\ UNCHANGED vars

Next ==
  \/ StartNoAdjust \/ StartAdjust \/ DensityStep \/ UpdateAfterDensityStep \/ Truncate \/ Updated
  \/ KickKDKOpen \/ FirstHalf \/ SecondHalf \/ DriftForces \/ Abort \/ KickKDKClose
  \/ FirstForces \/ TopStep \/ Write \/ Stopped

------------------------------------------------------------------------------
(* What Simulate states of these steps *)

\* Neither rungs by density nor a promotion of the deepest rung's particles; with them
\* particles may come to a rung that takes no steps, and the call of abort() is reached.
Regular == ~param.bDensityStep /\ param.nTruncateRung = 0

\* TopStepKDK is a leapfrog of each particle.
LeapFrogStep == Regular => Leap!Next /\ pc' # "aborted"

\* A stored acceleration is never older than the position it is used at.
ForcesCurrentStep == \A p \in Particles : v'[p] # v[p] => a[p] = x[p]

\* The expansion a kick integrates over is the one it moves the velocity through.
KickTimed == Regular => \A p \in Particles : v'[p] # v[p] => v[p] = arg'

\* After a step positions and velocities have come to the same time.
InSync ==
  Regular /\ pc = "step" /\ stack = <<>> =>
    \A p \in Particles : x[p] = (iStep + 1) * Step(0) /\ v[p] = x[p] /\ ~open[p]
=============================================================================
