------------------------------- MODULE NewKDK -------------------------------
(***************************************************************************)
(* NewTopStepKDK and the loop of Simulate that calls it (master.cxx,        *)
(* simulate.cxx), with what they do to the particles: the drifts of the     *)
(* trees and the kicks that a gravity calculation makes (grav2.cxx).        *)
(*                                                                         *)
(* The recursion over the rungs is a stack of frames.  Each gravity may     *)
(* move a particle to any rung that is not slower than the one it is called *)
(* for.  With two trees, the particles of rungs up to iRungDT are moved to  *)
(* the middle of their step and stay there while the others advance.        *)
(*                                                                         *)
(* dTime, dDelta: in halves of the shortest step, see LeapFrog.             *)
(***************************************************************************)
EXTENDS Integers, Sequences, FiniteSets, FiniteSetsExt

CONSTANTS Particles, MaxRung,
          DualTree,  \* param.bDualTree
          nDT,       \* d2u64(N * param.dFracDualTree)
          Steps      \* bound: nSteps

\* Assumed by Simulate.
NewKDKAssumption ==
  /\ IsFiniteSet(Particles) /\ Particles # {} /\ MaxRung \in 1..31
  /\ DualTree \in BOOLEAN /\ nDT \in Nat /\ Steps \in Nat

VARIABLES x, v, rung, open,   \* of each particle, see LeapFrog
          root, fix,          \* the particles of the trees ROOT and FIXROOT
          dTime,              \* the time of NewTopStepKDK
          uRungMax, iRungDT,  \* deepest rung, and deepest rung of the fixed tree
          stack,              \* calls of NewTopStepKDK, the deepest last
          pc, iStep,          \* of Simulate
          kickOpen,           \* bKickOpen of Simulate: the opening kick is still to come
          due,                \* a checkpoint or an output has been asked for
          cone,               \* the step the open light cone files are for, 0 if none is open
          arg,                \* the time the last call of Drift was told
          sources             \* what the last gravity summed over: particles of each tree

leapVars == <<x, v, rung, open>>
vars == <<leapVars, root, fix, dTime, uRungMax, iRungDT, stack, pc, iStep, kickOpen, due, cone, arg, sources>>

Leap == INSTANCE LeapFrog
Half(r) == Leap!Half(r)
Step(r) == Leap!Step(r)

Init ==
  /\ Leap!Init
  /\ root = Particles /\ fix = {}
  /\ dTime = 0 /\ uRungMax = 0 /\ iRungDT = 0 /\ stack = <<>>
  /\ pc = "init" /\ iStep = 0 /\ kickOpen = FALSE /\ due = FALSE /\ cone = 0
  /\ arg = 0 /\ sources = <<{}, {}>>

------------------------------------------------------------------------------
(* Particles *)

\* MSR::Drift of the particles S from time t on.
Drift(S, t, dDelta) ==
  /\ x' = [p \in Particles |-> IF p \in S THEN x[p] + dDelta ELSE x[p]]
  /\ arg' = t

Active(uRung) == {p \in Particles : rung[p] >= uRung}

\* The rungs a gravity calculation may give its particles.
NewRungs(uRungLo) == [Active(uRungLo) -> uRungLo..(MaxRung - 1)]

\* The deepest rung for which more than nDT particles are as fast.
RungDT(r) ==
  Max({0} \cup {i \in 1..(MaxRung - 1) : Cardinality({p \in Particles : r[p] >= i}) > nDT})

\* Mutant: the closing kick is that of the new rung.
Kicked_NewRungTwice(p, new, bKickClose, bKickOpen) ==
  v[p] + (IF bKickClose THEN Half(new) ELSE 0) + (IF bKickOpen THEN Half(new) ELSE 0)

\* The velocity after pkdParticleWorkDone.
Kicked(p, new, bKickClose, bKickOpen) ==
  v[p] + (IF bKickClose THEN Half(rung[p]) ELSE 0) + (IF bKickOpen THEN Half(new) ELSE 0)

\* MSR::Gravity.  The kicks are done by it; rungs change only with an opening kick.
Gravity(uRungLo, S, bKickClose, bKickOpen) ==
  LET A == Active(uRungLo)
  IN  /\ \E new \in (IF bKickOpen THEN NewRungs(uRungLo) ELSE {[p \in A |-> rung[p]]}) :
           /\ v' = [p \in Particles |-> IF p \in A THEN Kicked(p, new[p], bKickClose, bKickOpen) ELSE v[p]]
           /\ open' = [p \in Particles |-> IF p \in A THEN bKickOpen ELSE open[p]]
           /\ rung' = [p \in Particles |-> IF p \in A THEN new[p] ELSE rung[p]]
           /\ uRungMax' = IF bKickOpen THEN Max({new[p] : p \in A}) ELSE 0
      /\ iRungDT' = IF bKickOpen THEN RungDT(rung') ELSE iRungDT
      /\ sources' = S
      /\ UNCHANGED x

------------------------------------------------------------------------------
(* NewTopStepKDK *)

Frame(uRung, bDualTree) == [uRung |-> uRung, bDualTree |-> bDualTree, dTimeFixed |-> -1, at |-> "start"]

top == stack[Len(stack)]
At(at) == pc = "step" /\ stack # <<>> /\ top.at = at
GoOn(frame) == stack' = [stack EXCEPT ![Len(stack)] = frame]
Call(frame) == stack' = [stack EXCEPT ![Len(stack)] = frame] \o <<Frame(frame.uRung + 1, frame.bDualTree)>>

\* Just below the deepest rung of the fixed tree, and deeper rungs are in use.
SplitsTrees == top.uRung = iRungDT + 1 /\ DualTree /\ top.uRung < uRungMax

\* Mutant: the fixed tree is said to be where it has come from.
StartDual_TimeFixedEarly ==
  /\ At("start") /\ SplitsTrees
  /\ fix' = {p \in Particles : rung[p] <= iRungDT} /\ root' = Particles \ fix'
  /\ Drift(fix', dTime, Half(iRungDT))
  /\ GoOn([top EXCEPT !.bDualTree = TRUE, !.dTimeFixed = dTime, !.at = "descend"])
  /\ UNCHANGED <<v, rung, open, dTime, uRungMax, iRungDT, pc, iStep, kickOpen, due, cone, sources>>

\* DumpTrees separates the particles (as it is meant to; Gravity.tla has the partition
\* itself, which may leave a thread's particles together); the slow ones go to the middle of their step.
StartDual ==
  /\ At("start") /\ SplitsTrees
  /\ fix' = {p \in Particles : rung[p] <= iRungDT} /\ root' = Particles \ fix'
  /\ Drift(fix', dTime, Half(iRungDT))
  /\ GoOn([top EXCEPT !.bDualTree = TRUE, !.dTimeFixed = dTime + Half(iRungDT), !.at = "descend"])
  /\ UNCHANGED <<v, rung, open, dTime, uRungMax, iRungDT, pc, iStep, kickOpen, due, cone, sources>>

\* One tree: no deeper rung, or the expansion factor is below 1/3 (then SplitsTrees).
StartSingle ==
  /\ At("start")
  /\ GoOn([top EXCEPT !.bDualTree = IF top.uRung = iRungDT + 1 THEN FALSE ELSE @, !.at = "descend"])
  /\ UNCHANGED <<leapVars, root, fix, dTime, uRungMax, iRungDT, pc, iStep, kickOpen, due, cone, arg, sources>>

Descend ==
  /\ At("descend")
  /\ IF top.uRung < uRungMax THEN Call([top EXCEPT !.at = "drift"]) ELSE GoOn([top EXCEPT !.at = "drift"])
  /\ UNCHANGED <<leapVars, root, fix, dTime, uRungMax, iRungDT, pc, iStep, kickOpen, due, cone, arg, sources>>

InDualTree == top.bDualTree /\ top.uRung > iRungDT

\* The shortest step in use; then the active tree or one tree of everything is built.
DriftStep ==
  /\ At("drift")
  /\ Drift(IF top.bDualTree THEN root ELSE Particles, dTime, Step(uRungMax))
  /\ dTime' = dTime + Step(uRungMax)
  /\ IF InDualTree THEN UNCHANGED <<root, fix>> ELSE root' = Particles /\ fix' = {}
  /\ GoOn([top EXCEPT !.at = "gravity"])
  /\ UNCHANGED <<v, rung, open, uRungMax, iRungDT, pc, iStep, kickOpen, due, cone, sources>>

\* CheckForOutput: is something due, and is the opening kick left out?  It is left out
\* whenever something is due, and at the step where dDelta changes.
CheckForOutput == {r \in [due : BOOLEAN, omit : BOOLEAN] : r.due => r.omit}

Sources == <<root, IF InDualTree THEN fix ELSE {}>>

\* Mutant: the opening kick is made whether or not an output is due.
GravityStep_AlwaysOpens ==
  /\ At("gravity")
  /\ \E check \in (IF top.uRung = 0 THEN CheckForOutput ELSE {[due |-> due, omit |-> FALSE]}) :
       /\ due' = check.due
       /\ kickOpen' = check.omit
       /\ cone' = IF top.uRung # 0 THEN cone ELSE IF check.omit THEN 0 ELSE iStep + 2
       /\ Gravity(top.uRung, Sources, TRUE, TRUE)
  /\ GoOn([top EXCEPT !.at = "again"])
  /\ UNCHANGED <<root, fix, dTime, pc, iStep, arg>>

\* Mutant: the light cone of the next step is not opened.
GravityStep_ConeKept ==
  /\ At("gravity")
  /\ \E check \in (IF top.uRung = 0 THEN CheckForOutput ELSE {[due |-> due, omit |-> FALSE]}) :
       /\ due' = check.due
       /\ kickOpen' = check.omit
       /\ cone' = cone
       /\ Gravity(top.uRung, Sources, TRUE, ~check.omit)
  /\ GoOn([top EXCEPT !.at = "again"])
  /\ UNCHANGED <<root, fix, dTime, pc, iStep, arg>>

\* The closing kick and, unless something is due, the opening kick of the next step,
\* with the light cone of that step.
GravityStep ==
  /\ At("gravity")
  /\ \E check \in (IF top.uRung = 0 THEN CheckForOutput ELSE {[due |-> due, omit |-> FALSE]}) :
       /\ due' = check.due
       /\ kickOpen' = check.omit
       /\ cone' = IF top.uRung # 0 THEN cone ELSE IF check.omit THEN 0 ELSE iStep + 2
       /\ Gravity(top.uRung, Sources, TRUE, ~check.omit)
  /\ GoOn([top EXCEPT !.at = "again"])
  /\ UNCHANGED <<root, fix, dTime, pc, iStep, arg>>

Again ==
  /\ At("again")
  /\ IF top.uRung # 0 /\ top.uRung < uRungMax THEN Call([top EXCEPT !.at = "end"])
     ELSE GoOn([top EXCEPT !.at = "end"])
  /\ UNCHANGED <<leapVars, root, fix, dTime, uRungMax, iRungDT, pc, iStep, kickOpen, due, cone, arg, sources>>

\* The caller takes the returned bDualTree for its own.
Return ==
  stack' = IF Len(stack) = 1 THEN <<>>
           ELSE [i \in 1..(Len(stack) - 1) |->
                   IF i = Len(stack) - 1 THEN [stack[i] EXCEPT !.bDualTree = top.bDualTree] ELSE stack[i]]

EndsDual == top.bDualTree /\ top.uRung = iRungDT + 1

\* The fixed tree goes to the end of its step.
EndDual ==
  /\ At("end") /\ EndsDual
  /\ Drift(fix, top.dTimeFixed, Half(iRungDT))
  /\ Return
  /\ UNCHANGED <<v, rung, open, root, fix, dTime, uRungMax, iRungDT, pc, iStep, kickOpen, due, cone, sources>>

EndSingle ==
  /\ At("end") /\ ~EndsDual
  /\ Return
  /\ UNCHANGED <<leapVars, root, fix, dTime, uRungMax, iRungDT, pc, iStep, kickOpen, due, cone, arg, sources>>

------------------------------------------------------------------------------
(* Simulate *)

\* The first gravity calculation opens the first step.
FirstKick ==
  /\ pc = "init" /\ pc' = "top"
  /\ cone' = 1
  /\ Gravity(0, <<root, {}>>, FALSE, TRUE)
  /\ UNCHANGED <<root, fix, dTime, stack, iStep, kickOpen, due, arg>>

\* The opening kick that was left out for the output.
KickAgain ==
  /\ pc = "top" /\ iStep < Steps /\ kickOpen
  /\ root' = Particles /\ fix' = {}
  /\ cone' = iStep + 1
  /\ Gravity(0, <<root', {}>>, FALSE, TRUE)
  /\ kickOpen' = FALSE
  /\ UNCHANGED <<dTime, stack, pc, iStep, due, arg>>

TopStep ==
  /\ pc = "top" /\ iStep < Steps /\ ~kickOpen
  /\ pc' = "step" /\ stack' = <<Frame(0, FALSE)>>
  /\ UNCHANGED <<leapVars, root, fix, dTime, uRungMax, iRungDT, iStep, kickOpen, due, cone, arg, sources>>

\* Checkpoint and Output, after which the run may have to stop.  (The tree of all
\* particles, which Output has built again, is the tree there is.)
Write ==
  /\ pc = "step" /\ stack = <<>>
  /\ iStep' = iStep + 1 /\ due' = FALSE
  /\ dTime' = iStep' * Step(0)
  /\ pc' \in (IF due THEN {"top", "done"} ELSE {"top"})
  /\ UNCHANGED <<leapVars, root, fix, uRungMax, iRungDT, stack, kickOpen, cone, arg, sources>>

Finish ==
  /\ pc = "top" /\ iStep = Steps /\ pc' = "done"
  /\ UNCHANGED <<leapVars, root, fix, dTime, uRungMax, iRungDT, stack, iStep, kickOpen, due, cone, arg, sources>>

Done == pc = "done" /\ UNCHANGED vars

Next ==
  \/ StartDual \/ StartSingle \/ Descend \/ DriftStep \/ GravityStep \/ Again \/ EndDual \/ EndSingle
  \/ FirstKick \/ KickAgain \/ TopStep \/ Write \/ Finish \/ Done

------------------------------------------------------------------------------
(* What Simulate states of these steps *)

\* NewTopStepKDK is a leapfrog of each particle.
LeapFrogStep == Leap!Next

\* A force is a sum over all particles, each in one of the trees; it is found for
\* particles that have come to dTime, from particles that have, or that wait within half
\* a step of it at the middle of their step in the fixed tree.
SourcesOf(S, waiting) ==
  /\ S \cup waiting = Particles /\ S \cap waiting = {}
  /\ \A p \in S : x[p] = dTime
  /\ \A p \in waiting : /\ x[p] % Step(iRungDT) = Half(iRungDT)
                        /\ x[p] - dTime \in (1 - Half(iRungDT))..(Half(iRungDT) - 1)

ForceSourcesStep ==
  v' # v =>
    /\ SourcesOf(sources'[1], sources'[2])
    /\ \A p \in Particles : v'[p] # v[p] => p \in sources'[1] /\ x[p] = dTime

\* The expansion a drift integrates over is the one the particles drift through.
DriftTimed == \A p \in Particles : x'[p] # x[p] => x[p] = arg'

\* After a step the time is that of the steps done, and if something is to be written,
\* positions and velocities have come to it.
InSync ==
  pc = "step" /\ stack = <<>> =>
    /\ dTime = (iStep + 1) * Step(0)
    /\ due => \A p \in Particles : x[p] = dTime /\ v[p] = dTime /\ ~open[p]

\* The open light cone files are those of the top step a particle's step begins in.
ConeMatches == \A p \in Particles : open'[p] /\ v'[p] # v[p] => cone' = x[p] \div Step(0) + 1
=============================================================================
