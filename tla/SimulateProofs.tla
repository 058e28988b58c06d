--------------------------- MODULE SimulateProofs ---------------------------
(***************************************************************************)
(* Proofs about Simulate and the two schemes of time stepping it may use,  *)
(* for any finite sets of particles, up to 31 rungs and any number of      *)
(* steps.                                                                  *)
(*                                                                         *)
(* A position in the recursion says at which time each of its calls has    *)
(* begun (T in NewInv, Begun in TopInv), and that says where each particle *)
(* is and when its step ends.  The invariants tie the three together; that *)
(* a step is one of the leapfrog, of current forces and with the right     *)
(* times follows from them action by action.                               *)
(***************************************************************************)
EXTENDS Simulate, Sequences, FiniteSets, FiniteSetTheorems, SequenceTheorems, WellFoundedInduction, TLAPS

Rung == 0..(MaxRung - 1)

\* The constants.
LEMMA MaxRungType == MaxRung \in Nat /\ MaxRung > 0 /\ Steps \in Nat /\ nDT \in Nat /\ DualTree \in BOOLEAN
BY SimulateAssumption DEF New!NewKDKAssumption

\* The sets of particles are finite and not empty.
LEMMA ParticleSets ==
  /\ IsFiniteSet(NewParticles) /\ NewParticles # {}
  /\ IsFiniteSet(TopParticles) /\ TopParticles # {} /\ First \subseteq TopParticles
<1>1. IsFiniteSet(NewParticles) /\ NewParticles # {}
  BY SimulateAssumption DEF New!NewKDKAssumption, New!IsFiniteSet, IsFiniteSet
<1>2. IsFiniteSet(TopParticles) /\ TopParticles # {} /\ First \subseteq TopParticles
  BY SimulateAssumption DEF Top!TopStepKDKAssumption, Top!IsFiniteSet, IsFiniteSet
<1>3. QED
  BY <1>1, <1>2

\* A set of natural numbers has a least one.
LEMMA LeastNatural == ASSUME NEW A \in SUBSET Nat, A # {} PROVE \E n \in A : \A k \in A : n <= k
<1>1. IsWellFoundedOn(OpToRel(<, Nat), Nat)
  BY NatLessThanWellFounded
<1>2. PICK n \in A : \A y \in A : ~ (<<y, n>> \in OpToRel(<, Nat))
  BY <1>1, WFMin
<1>3. \A k \in A : ~ (k < n)
  BY <1>2 DEF OpToRel
<1>4. QED
  BY <1>3

\* The recursive definition has a value.
LEMMA HalvesValue ==
  \A r \in Rung : New!Leap!halves[r] = IF r = MaxRung - 1 THEN 1 ELSE 2 * New!Leap!halves[r + 1]
<1> DEFINE Body(g, n) == [r \in n..(MaxRung - 1) |-> IF r = MaxRung - 1 THEN 1 ELSE 2 * g[r + 1]]
           missing == {n \in Rung : ~ \E g : g = Body(g, MaxRung - 1 - n)}
<1>1. MaxRung \in Nat /\ MaxRung > 0
  BY MaxRungType
<1>2. missing = {}
  <2>1. SUFFICES ASSUME missing # {} PROVE FALSE
    OBVIOUS
  <2>2. PICK n \in missing : \A k \in missing : n <= k
    <3>1. missing \subseteq Nat
      BY <1>1 DEF Rung
    <3>2. QED
      BY <2>1, <3>1, LeastNatural
  <2>3. n # 0
    <3>1. [r \in (MaxRung - 1)..(MaxRung - 1) |-> 1] = Body([r \in (MaxRung - 1)..(MaxRung - 1) |-> 1], MaxRung - 1)
      BY <1>1
    <3>2. MaxRung - 1 - 0 = MaxRung - 1
      BY <1>1
    <3> HIDE DEF Body
    <3>3. \E g : g = Body(g, MaxRung - 1 - 0)
      BY <3>1, <3>2
    <3>4. 0 \notin missing
      BY <3>3
    <3>5. QED
      BY <3>4
  <2>4. n \in Nat /\ n \in Rung
    BY <1>1 DEF Rung
  <2>5. PICK g : g = Body(g, MaxRung - n)
    <3>1. n - 1 \in Rung /\ ~ (n <= n - 1) /\ MaxRung - 1 - (n - 1) = MaxRung - n
      BY <1>1, <2>3, <2>4 DEF Rung
    <3>2. n - 1 \notin missing
      BY <2>2, <3>1
    <3>3. QED
      BY <3>1, <3>2
  <2> DEFINE b == MaxRung - 1 - n
             h == [r \in b..(MaxRung - 1) |-> IF r = b THEN 2 * g[b + 1] ELSE g[r]]
  <2>6. b \in Int /\ b < MaxRung - 1 /\ b + 1 = MaxRung - n
    BY <1>1, <2>3, <2>4
  <2>7. \A r \in b..(MaxRung - 1) : h[r] = IF r = MaxRung - 1 THEN 1 ELSE 2 * h[r + 1]
    <3>1. ASSUME NEW r \in b..(MaxRung - 1) PROVE h[r] = IF r = MaxRung - 1 THEN 1 ELSE 2 * h[r + 1]
      <4>0. r \in Int
        BY <2>6, <1>1
      <4>1. CASE r = b
        <5>1. h[r] = 2 * g[b + 1] /\ h[r + 1] = g[b + 1] /\ r # MaxRung - 1
          BY <4>1, <2>6, <1>1
        <5>2. QED
          BY <5>1
      <4>2. CASE r # b
        <5>1. r \in (MaxRung - n)..(MaxRung - 1)
          BY <4>2, <4>0, <1>1, <2>6, <2>4
        <5>2. g[r] = IF r = MaxRung - 1 THEN 1 ELSE 2 * g[r + 1]
          BY <2>5, <5>1
        <5>3. h[r] = g[r]
          BY <4>2
        <5>4. r # MaxRung - 1 => h[r + 1] = g[r + 1]
          BY <4>2, <4>0, <1>1, <2>6
        <5>5. QED
          BY <5>2, <5>3, <5>4
      <4>3. QED
        BY <4>1, <4>2
    <3>2. QED
      BY <3>1
  <2> HIDE DEF h
  <2>8. h = Body(h, b)
    <3>1. h = [r \in b..(MaxRung - 1) |-> h[r]]
      BY DEF h
    <3>2. QED
      BY <3>1, <2>7
  <2>9. QED
    BY <2>2, <2>8
<1>3. \E g : g = Body(g, 0)
  <2>1. MaxRung - 1 \in Rung /\ MaxRung - 1 - (MaxRung - 1) = 0
    BY <1>1 DEF Rung
  <2>2. MaxRung - 1 \notin missing
    BY <1>2
  <2> HIDE DEF Body
  <2>3. QED
    BY <2>1, <2>2
<1>4. New!Leap!halves = Body(New!Leap!halves, 0)
  BY <1>3 DEF New!Leap!halves, New!Leap!Rung
<1>5. QED
  BY <1>4 DEF Rung

\* Both modules use the same leapfrog.
LEMMA SameHalves == New!Leap!halves = Top!Leap!halves
BY DEF New!Leap!halves, Top!Leap!halves, New!Leap!Rung, Top!Leap!Rung

\* Half a step and a step of a rung, in halves of the shortest step.
H(r) == New!Leap!halves[r]
S(r) == 2 * H(r)

\* The lengths of the steps in all the modules are these.
LEMMA HalfIs == \A r : New!Half(r) = H(r) /\ New!Step(r) = S(r) /\ Top!Half(r) = H(r) /\ Top!Step(r) = S(r)
                      /\ New!Leap!Half(r) = H(r) /\ New!Leap!Step(r) = S(r) /\ Top!Leap!Half(r) = H(r) /\ Top!Leap!Step(r) = S(r)
BY SameHalves DEF H, S, New!Half, New!Step, Top!Half, Top!Step, New!Leap!Half, New!Leap!Step, Top!Leap!Half, Top!Leap!Step

\* No step has length zero.
LEMMA HalfPositive == \A r \in Rung : H(r) \in Nat /\ H(r) > 0
<1> DEFINE bad == {n \in Rung : ~ (H(MaxRung - 1 - n) \in Nat /\ H(MaxRung - 1 - n) > 0)}
<1>1. MaxRung \in Nat /\ MaxRung > 0
  BY MaxRungType
<1>2. bad = {}
  <2>1. SUFFICES ASSUME bad # {} PROVE FALSE
    OBVIOUS
  <2>2. PICK n \in bad : \A k \in bad : n <= k
    <3>1. bad \subseteq Nat
      BY <1>1 DEF Rung
    <3>2. QED
      BY <2>1, <3>1, LeastNatural
  <2>3. n \in Rung /\ n \in Nat /\ MaxRung - 1 - n \in Rung
    BY <1>1 DEF Rung
  <2>4. H(MaxRung - 1 - n) = IF MaxRung - 1 - n = MaxRung - 1 THEN 1 ELSE 2 * H(MaxRung - 1 - n + 1)
    BY <2>3, HalvesValue DEF H
  <2>5. CASE n = 0
    BY <2>2, <2>4, <2>5, <1>1
  <2>6. CASE n # 0
    <3>1. n - 1 \in Rung /\ ~ (n <= n - 1) /\ MaxRung - 1 - (n - 1) = MaxRung - 1 - n + 1
      BY <1>1, <2>3, <2>6 DEF Rung
    <3>2. H(MaxRung - 1 - n + 1) \in Nat /\ H(MaxRung - 1 - n + 1) > 0
      BY <2>2, <3>1
    <3>3. H(MaxRung - 1 - n) = 2 * H(MaxRung - 1 - n + 1)
      BY <2>4, <2>6, <2>3, <1>1
    <3>4. QED
      BY <3>2, <3>3, <2>2
  <2>7. QED
    BY <2>5, <2>6
<1>3. ASSUME NEW r \in Rung PROVE H(r) \in Nat /\ H(r) > 0
  <2>1. MaxRung - 1 - r \in Rung /\ MaxRung - 1 - (MaxRung - 1 - r) = r
    BY <1>1 DEF Rung
  <2>2. QED
    BY <1>2, <2>1
<1>4. QED
  BY <1>3

\* The step of a rung is two of the next; the shortest one is two halves.
LEMMA StepHalves ==
  /\ \A r \in Rung : H(r) \in Nat /\ H(r) > 0 /\ S(r) \in Nat /\ S(r) > 0 /\ S(r) = 2 * H(r)
  /\ \A r \in Rung : r + 1 \in Rung => S(r) = 2 * S(r + 1) /\ H(r) = S(r + 1)
<1>1. MaxRung \in Nat /\ MaxRung > 0
  BY MaxRungType
<1>2. \A r \in Rung : H(r) \in Nat /\ H(r) > 0 /\ S(r) \in Nat /\ S(r) > 0 /\ S(r) = 2 * H(r)
  BY HalfPositive DEF S
<1>3. ASSUME NEW r \in Rung, r + 1 \in Rung PROVE H(r) = S(r + 1)
  <2>1. r # MaxRung - 1
    BY <1>1, <1>3 DEF Rung
  <2>2. QED
    BY <2>1, HalvesValue DEF H, S
<1>4. QED
  BY <1>2, <1>3

\* A multiple of a step is one of half a step,
LEMMA ModHalf ==
  ASSUME NEW t \in Int, NEW s \in Nat, s > 0, t % (2 * s) = 0
  PROVE  t % s = 0
<1>1. t = (2 * s) * (t \div (2 * s)) /\ t \div (2 * s) \in Int
  OBVIOUS
<1>2. PICK k \in Int : t = s * (2 * k)
  BY <1>1
<1>3. QED
  BY <1>2

\* and so is the time a step later, or two.
LEMMA ModAdd ==
  ASSUME NEW t \in Int, NEW s \in Nat, s > 0, t % s = 0
  PROVE  (t + s) % s = 0 /\ (t + 2 * s) % s = 0
<1>1. PICK k \in Int : t = k * s
  <2>1. t = s * (t \div s) /\ t \div s \in Int
    OBVIOUS
  <2>2. QED
    BY <2>1
<1>2. t + s = (k + 1) * s /\ t + 2 * s = (k + 2) * s
  BY <1>1
<1>3. k + 1 \in Int /\ k + 2 \in Int
  BY <1>1
<1>4. ASSUME NEW j \in Int PROVE (j * s) % s = 0
  OBVIOUS
<1>5. QED
  BY <1>2, <1>3, <1>4

\* The end of a number of steps is a multiple of the step.
LEMMA ModProduct ==
  ASSUME NEW k \in Int, NEW s \in Nat, s > 0
  PROVE  (k * s) % s = 0
OBVIOUS

\* The middle of a step is not.
LEMMA ModMiddle ==
  ASSUME NEW t \in Int, NEW s \in Nat, s > 0, t % (2 * s) = 0
  PROVE  (t + s) % (2 * s) = s
<1> DEFINE w == 2 * s
<1>1. w \in Nat /\ s < w
  OBVIOUS
<1>2. PICK k \in Int : t = w * k
  <2>1. t = w * (t \div w) /\ t \div w \in Int
    OBVIOUS
  <2>2. QED
    BY <2>1
<1> HIDE DEF w
<1>3. (w * k + s) % w = s
  BY <1>1
<1>4. QED
  BY <1>2, <1>3 DEF w

\* A time within a step tells which one it is.
LEMMA DivBetween ==
  ASSUME NEW k \in Int, NEW s \in Nat, s > 0, NEW t \in Int, k * s <= t, t < k * s + s
  PROVE  t \div s = k
OBVIOUS

\* All modules mean the same cardinality.
LEMMA SameCardinality == \A A : New!Cardinality(A) = Cardinality(A) /\ Top!Cardinality(A) = Cardinality(A)
BY DEF New!Cardinality, Top!Cardinality, Cardinality, New!IsFiniteSet, Top!IsFiniteSet, IsFiniteSet

\* The rung of the deepest call.
deep == Len(stack) - 1

------------------------------------------------------------------------------
(* NewTopStepKDK: the invariant *)

\* Where a call of NewTopStepKDK is before it has found its forces.
Before == {"start", "descend", "drift", "gravity"}
NewFrames == [uRung : Rung, bDualTree : BOOLEAN, dTimeFixed : Int, at : Before \cup {"again", "end"}]

NewTypes ==
  /\ x \in [NewParticles -> Int] /\ v \in [NewParticles -> Int]
  /\ rung \in [NewParticles -> Rung] /\ open \in [NewParticles -> BOOLEAN]
  /\ root \subseteq NewParticles /\ fix \subseteq NewParticles
  /\ dTime \in Int /\ uRungMax \in Rung /\ iRungDT \in Rung
  /\ stack \in Seq(NewFrames) /\ pc \in {"init", "top", "step", "done"} /\ iStep \in Nat
  /\ kickOpen \in BOOLEAN /\ due \in BOOLEAN /\ cone \in Int /\ arg \in Int

\* The calls are those of the rungs 0, 1, ..., none deeper than the deepest rung in use;
\* a call waits for a deeper one before or after its own forces, that of rung 0 only before.
NewShape ==
  /\ stack # <<>> => pc = "step"
  /\ \A i \in 1..Len(stack) : stack[i].uRung = i - 1
  /\ \A i \in 1..(Len(stack) - 1) : stack[i].at = "drift" \/ (stack[i].at = "end" /\ i # 1)
  /\ deep <= uRungMax

NewRungs ==
  pc # "init" =>
    /\ iRungDT = New!RungDT(rung)
    /\ ~kickOpen => (\A p \in NewParticles : rung[p] <= uRungMax) /\ \E p \in NewParticles : rung[p] = uRungMax

\* T: the time at which the call of each rung has begun.  The step that a call is in the
\* middle of, the first or the second of two, ends here.
Deadline(T, u) == IF stack[u + 1].at \in Before THEN T[u] + S(u) ELSE T[u] + 2 * S(u)

NewNow(T) ==
  /\ New!top.at \in {"start", "descend"} => dTime = T[deep]
  /\ New!top.at = "drift" => dTime = T[deep] + S(deep) - S(uRungMax)
  /\ New!top.at \in {"gravity", "again"} => dTime = T[deep] + S(deep)
  /\ New!top.at = "end" => dTime = IF deep = 0 THEN T[0] + S(0) ELSE T[deep] + 2 * S(deep) - S(uRungMax)

NewBegins(T) ==
  /\ T[0] = iStep * S(0)
  /\ \A u \in 0..deep : T[u] % S(u) = 0
  /\ \A u \in 0..deep : u # deep => T[u + 1] = IF stack[u + 1].at = "drift" THEN T[u] ELSE T[u] + S(u)
  /\ \A u, w \in 0..deep : u <= w => T[u] <= T[w] /\ Deadline(T, w) <= Deadline(T, u)

NewClock(T) ==
  /\ stack = <<>> => dTime = (IF pc = "step" THEN iStep + 1 ELSE iStep) * S(0)
  /\ stack # <<>> => NewBegins(T) /\ NewNow(T)

\* All particles in one tree, all at the same time,
Sync == root = NewParticles /\ fix = {} /\ \A p \in NewParticles : x[p] = dTime

Split ==
  /\ root = NewParticles \ fix /\ fix = {p \in NewParticles : rung[p] <= iRungDT}
  /\ \A p \in root : x[p] = dTime

\* or the slow ones in the middle of their step while the others advance,
Waiting(T) ==
  /\ stack # <<>> /\ iRungDT < deep /\ Split
  /\ \A p \in fix : x[p] = T[iRungDT + 1] + H(iRungDT)
  /\ stack[iRungDT + 2].dTimeFixed = T[iRungDT + 1] + H(iRungDT)
  /\ stack[iRungDT + 2].at # "start"
  /\ \A u \in 0..deep : u > iRungDT => stack[u + 1].bDualTree

\* or at its end before the others are.
Ended ==
  /\ stack # <<>> /\ deep <= iRungDT /\ Split
  /\ \A p \in fix : x[p] = dTime + S(uRungMax)
  /\ New!top.bDualTree /\ (New!top.at = "drift" \/ (New!top.at = "end" /\ deep # 0))

NewPositions(T) == Sync \/ Waiting(T) \/ Ended

\* The end of the step that a particle of rung r is in.
StepEnd(T, r) ==
  IF stack = <<>> THEN dTime + S(r)
  ELSE IF r <= deep THEN Deadline(T, r)
  ELSE IF New!top.at \in {"start", "descend", "again"} \/ (New!top.at = "end" /\ deep = 0) THEN dTime + S(r)
  ELSE IF New!top.at = "end" THEN T[deep] + 2 * S(deep)
  ELSE T[deep] + S(deep)

NewVelocities(T) ==
  \A p \in NewParticles :
    IF pc = "init" \/ kickOpen THEN ~open[p] /\ v[p] = dTime
    ELSE open[p] /\ v[p] + H(rung[p]) = StepEnd(T, rung[p])

AllKicked == deep = 0 /\ New!top.at \in {"again", "end"}

NewFlags ==
  /\ due => kickOpen /\ pc # "top"
  /\ kickOpen => pc # "init" /\ (stack = <<>> \/ AllKicked)
  /\ stack = <<>> => Sync
  /\ pc = "init" => stack = <<>> /\ iStep = 0
  /\ ~kickOpen /\ pc = "top" => cone = iStep + 1
  /\ ~kickOpen /\ pc = "step" => cone = IF stack = <<>> \/ AllKicked THEN iStep + 2 ELSE iStep + 1

NewInv(T) ==
  /\ NewTypes /\ NewShape /\ NewRungs /\ NewClock(T) /\ NewPositions(T) /\ NewVelocities(T) /\ NewFlags

Begins == [Rung -> Int]

------------------------------------------------------------------------------
(* The stack of calls *)

\* The last frame of a stack changes,
LEMMA SeqGoOn ==
  ASSUME NEW F, NEW q \in Seq(F), q # <<>>, NEW e \in F
  PROVE  LET r == [q EXCEPT ![Len(q)] = e]
         IN  /\ r \in Seq(F) /\ Len(r) = Len(q) /\ r # <<>>
             /\ \A i \in 1..Len(q) : r[i] = IF i = Len(q) THEN e ELSE q[i]
<1> DEFINE r == [q EXCEPT ![Len(q)] = e]
<1>1. Len(q) \in Nat /\ Len(q) > 0 /\ Len(q) \in 1..Len(q)
  BY EmptySeq
<1>2. r \in Seq(F) /\ Len(r) = Len(q) /\ \A i \in 1..Len(q) : r[i] = IF i = Len(q) THEN e ELSE q[i]
  BY <1>1, ExceptSeq
<1>3. QED
  BY <1>1, <1>2

\* or one more is put behind it.
LEMMA SeqCall ==
  ASSUME NEW F, NEW q \in Seq(F), q # <<>>, NEW e \in F, NEW g \in F
  PROVE  LET r == [q EXCEPT ![Len(q)] = e] \o <<g>>
         IN  /\ r \in Seq(F) /\ Len(r) = Len(q) + 1 /\ r # <<>>
             /\ \A i \in 1..Len(q) : r[i] = IF i = Len(q) THEN e ELSE q[i]
             /\ r[Len(q) + 1] = g
<1> DEFINE s == [q EXCEPT ![Len(q)] = e]
           r == s \o <<g>>
<1>1. s \in Seq(F) /\ Len(s) = Len(q) /\ \A i \in 1..Len(q) : s[i] = IF i = Len(q) THEN e ELSE q[i]
  BY SeqGoOn
<1> HIDE DEF s
<1>2. r \in Seq(F) /\ Len(r) = Len(q) + 1
  BY <1>1
<1>3. \A i \in 1..Len(q) : r[i] = s[i]
  BY <1>1
<1>4. r[Len(q) + 1] = g
  BY <1>1
<1>5. r # <<>>
  BY <1>2
<1> QED
  BY <1>1, <1>2, <1>3, <1>4, <1>5 DEF s

\* What is known of the calls while there are any.
LEMMA NewCalls ==
  ASSUME NewTypes, NewShape, stack # <<>>
  PROVE  /\ deep \in Nat /\ Len(stack) = deep + 1 /\ deep \in Rung /\ deep <= uRungMax
         /\ New!top = stack[deep + 1] /\ New!top \in NewFrames /\ New!top.uRung = deep
         /\ pc = "step"
         /\ \A u \in 0..deep : u \in Rung /\ u \in Nat /\ stack[u + 1] \in NewFrames /\ stack[u + 1].uRung = u
         /\ \A u \in 0..deep : u # deep => u + 1 \in Rung /\ (stack[u + 1].at = "drift" \/ (stack[u + 1].at = "end" /\ u # 0))
<1>0. MaxRung \in Nat /\ MaxRung > 0
  BY MaxRungType
<1>1. Len(stack) \in Nat /\ Len(stack) > 0
  BY EmptySeq DEF NewTypes
<1>2. deep \in Nat /\ Len(stack) = deep + 1 /\ deep <= uRungMax
  BY <1>1 DEF deep, NewShape
<1>3. deep \in Rung
  BY <1>2, <1>0 DEF NewTypes, Rung
<1>4. ASSUME NEW u \in 0..deep
      PROVE  u \in Rung /\ u \in Nat /\ stack[u + 1] \in NewFrames /\ stack[u + 1].uRung = u
  <2>1. u + 1 \in 1..Len(stack) /\ u \in Nat /\ u \in Rung
    BY <1>2, <1>3, <1>0 DEF Rung
  <2>2. stack[u + 1].uRung = u + 1 - 1
    BY <2>1 DEF NewShape
  <2>3. QED
    BY <2>1, <2>2, ElementOfSeq DEF NewTypes
<1>5. ASSUME NEW u \in 0..deep, u # deep
      PROVE  u + 1 \in Rung /\ (stack[u + 1].at = "drift" \/ (stack[u + 1].at = "end" /\ u # 0))
  <2>1. u + 1 \in 1..(Len(stack) - 1)
    BY <1>2, <1>5
  <2>2. u + 1 # 1 => u # 0
    OBVIOUS
  <2>3. u + 1 \in Rung
    BY <1>2, <1>3, <1>0, <1>5 DEF Rung
  <2>4. QED
    BY <2>1, <2>2, <2>3 DEF NewShape
<1>6. New!top = stack[deep + 1]
  BY <1>2 DEF New!top
<1>7. deep \in 0..deep
  BY <1>2
<1>8. pc = "step"
  BY DEF NewShape
<1> QED
  BY <1>2, <1>3, <1>4, <1>5, <1>6, <1>7, <1>8

\* The effect of the three ways in which the calls change.
LEMMA NewGoOn ==
  ASSUME NewTypes, NewShape, stack # <<>>, NEW e \in NewFrames, New!GoOn(e)
  PROVE  /\ stack' \in Seq(NewFrames) /\ stack' # <<>> /\ deep' = deep /\ New!top' = e
         /\ Len(stack') = deep + 1
         /\ \A u \in 0..deep : stack'[u + 1] = IF u = deep THEN e ELSE stack[u + 1]
<1>1. deep \in Nat /\ Len(stack) = deep + 1
  BY NewCalls
<1>2. /\ stack' \in Seq(NewFrames) /\ Len(stack') = Len(stack) /\ stack' # <<>>
      /\ \A i \in 1..Len(stack) : stack'[i] = IF i = Len(stack) THEN e ELSE stack[i]
  BY SeqGoOn DEF New!GoOn, NewTypes
<1>3. ASSUME NEW u \in 0..deep PROVE stack'[u + 1] = IF u = deep THEN e ELSE stack[u + 1]
  <2>1. u + 1 \in 1..Len(stack) /\ (u + 1 = Len(stack) <=> u = deep)
    BY <1>1
  <2>2. QED
    BY <2>1, <1>2
<1>4. deep' = deep
  BY <1>2 DEF deep
<1>5. New!top' = e
  <2>1. Len(stack) \in 1..Len(stack)
    BY <1>1
  <2>2. QED
    BY <2>1, <1>2 DEF New!top
<1> QED
  BY <1>1, <1>2, <1>3, <1>4, <1>5

\* The deepest call makes one for the next rung.
LEMMA NewCall ==
  ASSUME NewTypes, NewShape, stack # <<>>, deep + 1 \in Rung,
         NEW e \in NewFrames, e.uRung = deep, New!Call(e)
  PROVE  /\ stack' \in Seq(NewFrames) /\ stack' # <<>> /\ deep' = deep + 1
         /\ Len(stack') = deep + 2
         /\ New!top' = [uRung |-> deep + 1, bDualTree |-> e.bDualTree, dTimeFixed |-> -1, at |-> "start"]
         /\ New!top' \in NewFrames
         /\ stack'[deep + 2] = New!top'
         /\ \A u \in 0..deep : stack'[u + 1] = IF u = deep THEN e ELSE stack[u + 1]
<1>1. deep \in Nat /\ Len(stack) = deep + 1
  BY NewCalls
<1> DEFINE g == [uRung |-> deep + 1, bDualTree |-> e.bDualTree, dTimeFixed |-> -1, at |-> "start"]
<1>2. g \in NewFrames /\ New!Frame(e.uRung + 1, e.bDualTree) = g
  BY DEF NewFrames, New!Frame, Before
<1> HIDE DEF g
<1>3. /\ stack' \in Seq(NewFrames) /\ Len(stack') = Len(stack) + 1 /\ stack' # <<>>
      /\ \A i \in 1..Len(stack) : stack'[i] = IF i = Len(stack) THEN e ELSE stack[i]
      /\ stack'[Len(stack) + 1] = g
  BY <1>2, SeqCall DEF New!Call, NewTypes
<1>4. ASSUME NEW u \in 0..deep PROVE stack'[u + 1] = IF u = deep THEN e ELSE stack[u + 1]
  <2>1. u + 1 \in 1..Len(stack) /\ (u + 1 = Len(stack) <=> u = deep)
    BY <1>1
  <2>2. QED
    BY <2>1, <1>3
<1>5. deep' = deep + 1 /\ Len(stack') = deep + 2
  <2>1. Len(stack') = deep + 2
    BY <1>1, <1>3
  <2>2. deep' = Len(stack') - 1
    BY DEF deep
  <2>3. QED
    BY <2>1, <2>2, <1>1
<1>6. New!top' = g /\ stack'[deep + 2] = g
  <2>1. Len(stack) + 1 = deep + 2
    BY <1>1
  <2>2. QED
    BY <2>1, <1>3 DEF New!top
<1> QED
  BY <1>2, <1>3, <1>4, <1>5, <1>6 DEF g

\* The deepest call returns, and hands bDualTree to its caller.
LEMMA NewReturn ==
  ASSUME NewTypes, NewShape, stack # <<>>, New!Return
  PROVE  /\ stack' \in Seq(NewFrames)
         /\ deep = 0 => stack' = <<>>
         /\ deep # 0 =>
              /\ stack' # <<>> /\ deep' = deep - 1 /\ Len(stack') = deep
              /\ New!top' = [stack[deep] EXCEPT !.bDualTree = New!top.bDualTree]
              /\ stack'[deep] = New!top'
              /\ \A u \in 0..(deep - 2) : stack'[u + 1] = stack[u + 1]
<1>1. deep \in Nat /\ Len(stack) = deep + 1 /\ New!top \in NewFrames
  BY NewCalls
<1>2. CASE deep = 0
  BY <1>1, <1>2 DEF New!Return
<1>3. CASE deep # 0
  <2>1. stack' = [i \in 1..deep |-> IF i = deep THEN [stack[i] EXCEPT !.bDualTree = New!top.bDualTree] ELSE stack[i]]
    BY <1>1, <1>3 DEF New!Return
  <2>2. ASSUME NEW i \in 1..deep PROVE stack[i] \in NewFrames /\ [stack[i] EXCEPT !.bDualTree = New!top.bDualTree] \in NewFrames
    <3>1. i - 1 \in 0..deep /\ i - 1 + 1 = i
      BY <1>1
    <3>2. stack[i] \in NewFrames
      BY <3>1, NewCalls
    <3>3. New!top.bDualTree \in BOOLEAN
      BY <1>1 DEF NewFrames
    <3>4. QED
      BY <3>2, <3>3 DEF NewFrames
  <2>3. stack' \in [1..deep -> NewFrames]
    BY <2>1, <2>2
  <2>4. stack' \in Seq(NewFrames) /\ Len(stack') = deep
    BY <2>3, <1>1
  <2>5. deep' = deep - 1 /\ stack' # <<>>
    BY <2>4, <1>1, <1>3 DEF deep
  <2>6. New!top' = stack'[deep] /\ deep \in 1..deep
    BY <2>4, <1>1, <1>3 DEF New!top
  <2>7. \A u \in 0..(deep - 2) : stack'[u + 1] = stack[u + 1]
    BY <2>1, <1>1
  <2>8. stack'[deep] = [stack[deep] EXCEPT !.bDualTree = New!top.bDualTree]
    BY <2>1, <2>6
  <2> QED
    BY <1>3, <2>4, <2>5, <2>6, <2>7, <2>8
<1> QED
  BY <1>2, <1>3

\* The end of a call's step is where a deeper call brings it to.
LEMMA Chain ==
  ASSUME NewTypes, NewShape, stack # <<>>, NEW T \in Begins, NewBegins(T), NEW u \in 0..deep
  PROVE  /\ T[u] \in Int /\ S(u) \in Nat /\ S(u) > 0 /\ Deadline(T, u) \in Int
         /\ T[u] + S(u) <= Deadline(T, u) /\ Deadline(T, u) <= T[u] + 2 * S(u)
         /\ u # deep => /\ u + 1 \in 0..deep
                        /\ T[u + 1] + S(u) = Deadline(T, u) /\ S(u) = 2 * S(u + 1)
                        /\ T[u + 1] \in Int
<1>1. deep \in Nat /\ u \in Rung /\ u \in Nat
  BY NewCalls
<1>2. T[u] \in Int /\ S(u) \in Nat /\ S(u) > 0
  BY <1>1, StepHalves DEF Begins
<1>3. Deadline(T, u) = IF stack[u + 1].at \in Before THEN T[u] + S(u) ELSE T[u] + 2 * S(u)
  BY DEF Deadline
<1>4. ASSUME u # deep
      PROVE  /\ u + 1 \in 0..deep /\ T[u + 1] + S(u) = Deadline(T, u) /\ S(u) = 2 * S(u + 1) /\ T[u + 1] \in Int
  <2>1. u + 1 \in 0..deep /\ u + 1 \in Rung
    BY <1>1, <1>4, NewCalls
  <2>2. T[u + 1] = IF stack[u + 1].at = "drift" THEN T[u] ELSE T[u] + S(u)
    BY <1>4 DEF NewBegins
  <2>3. stack[u + 1].at = "drift" \/ stack[u + 1].at = "end"
    BY <1>4, NewCalls
  <2>4. S(u) = 2 * S(u + 1) /\ T[u + 1] \in Int
    BY <1>1, <2>1, StepHalves DEF Begins
  <2>5. stack[u + 1].at \in Before <=> stack[u + 1].at = "drift"
    BY <2>3 DEF Before
  <2>6. T[u + 1] + S(u) = Deadline(T, u)
    BY <1>2, <1>3, <2>2, <2>5
  <2> QED
    BY <2>1, <2>4, <2>6
<1>5. Deadline(T, u) \in Int /\ T[u] + S(u) <= Deadline(T, u) /\ Deadline(T, u) <= T[u] + 2 * S(u)
  BY <1>2, <1>3
<1> QED
  BY <1>2, <1>4, <1>5

\* The times at which the calls have begun, when the deepest goes on:
LEMMA BeginsGoOn ==
  ASSUME NewTypes, NewShape, stack # <<>>, NEW T \in Begins, NewBegins(T),
         NEW e \in NewFrames, New!GoOn(e), iStep' = iStep,
         NEW n, n = deep
  PROVE  /\ NewBegins(T)'
         /\ \A u \in 0..deep : u # deep => Deadline(T, u)' = Deadline(T, u)
         /\ Deadline(T, n)' = IF e.at \in Before THEN T[deep] + S(deep) ELSE T[deep] + 2 * S(deep)
         /\ ((e.at \in Before) <=> (New!top.at \in Before)) => Deadline(T, n)' = Deadline(T, deep)
<1>1. /\ deep \in Nat /\ deep' = deep /\ New!top = stack[deep + 1]
      /\ \A u \in 0..deep : stack'[u + 1] = IF u = deep THEN e ELSE stack[u + 1]
  BY NewGoOn, NewCalls
<1>2. deep \in 0..deep
  BY <1>1
<1>3. ASSUME NEW u \in 0..deep, u # deep PROVE Deadline(T, u)' = Deadline(T, u)
  BY <1>1, <1>3 DEF Deadline
<1>4. /\ Deadline(T, n)' = IF e.at \in Before THEN T[deep] + S(deep) ELSE T[deep] + 2 * S(deep)
      /\ ((e.at \in Before) <=> (New!top.at \in Before)) => Deadline(T, n)' = Deadline(T, deep)
  <2>1. stack'[deep + 1] = e /\ stack[deep + 1] = New!top
    BY <1>1, <1>2
  <2>2. Deadline(T, n)' = IF stack'[n + 1].at \in Before THEN T[n] + S(n) ELSE T[n] + 2 * S(n)
    BY DEF Deadline
  <2>3. Deadline(T, deep) = IF stack[deep + 1].at \in Before THEN T[deep] + S(deep) ELSE T[deep] + 2 * S(deep)
    BY DEF Deadline
  <2>4. QED
    BY <2>1, <2>2, <2>3
<1>5. ASSUME NEW u \in 0..deep, NEW w \in 0..deep, u <= w
      PROVE  T[u] <= T[w] /\ Deadline(T, w)' <= Deadline(T, u)'
  <2>1. T[u] <= T[w] /\ Deadline(T, w) <= Deadline(T, u)
    BY <1>5 DEF NewBegins
  <2>2. CASE u = w
    <3>1. T[deep] \in Int /\ S(deep) \in Nat /\ Deadline(T, u) \in Int
      BY Chain, <1>2
    <3>2. Deadline(T, u)' \in Int
      <4>1. CASE u = deep
        BY <4>1, <1>4, <3>1
      <4>2. CASE u # deep
        BY <4>2, <1>3, <3>1
      <4>3. QED
        BY <4>1, <4>2
    <3>3. Deadline(T, u)' <= Deadline(T, u)'
      BY <3>2
    <3>4. Deadline(T, w)' = Deadline(T, u)'
      BY <2>2
    <3>5. QED
      BY <2>1, <3>3, <3>4
  <2>3. CASE w # deep
    <3>1. u # deep
      BY <1>5, <2>3, <1>1
    <3>2. QED
      BY <2>1, <3>1, <2>3, <1>3
  <2>4. CASE w = deep /\ u # w
    <3>1. deep - 1 \in 0..deep /\ deep - 1 # deep /\ u <= deep - 1 /\ deep - 1 + 1 = deep
      BY <1>1, <1>5, <2>4
    <3>2. Deadline(T, deep - 1) <= Deadline(T, u)
      BY <3>1 DEF NewBegins
    <3>3. T[deep] + S(deep - 1) = Deadline(T, deep - 1) /\ S(deep - 1) = 2 * S(deep)
      BY <3>1, Chain
    <3>4. Deadline(T, u) \in Int /\ T[deep] \in Int /\ S(deep) \in Nat
      BY Chain, <1>2
    <3>5. Deadline(T, n)' <= T[deep] + 2 * S(deep)
      BY <1>4, <3>4
    <3>6. Deadline(T, n)' \in Int
      BY <1>4, <3>4
    <3>7. Deadline(T, n)' <= Deadline(T, u)
      BY <3>2, <3>3, <3>4, <3>5, <3>6
    <3>8. Deadline(T, u)' = Deadline(T, u)
      BY <1>3, <2>4
    <3>9. w = n
      BY <2>4
    <3>10. Deadline(T, w)' = Deadline(T, n)'
      BY <3>9
    <3>11. QED
      BY <2>1, <3>7, <3>8, <3>10
  <2> QED
    BY <2>2, <2>3, <2>4
<1>6. NewBegins(T)'
  <2>1. T[0] = iStep' * S(0)
    BY DEF NewBegins
  <2>2. \A u \in 0..deep : T[u] % S(u) = 0
    BY DEF NewBegins
  <2>3. \A u \in 0..deep : u # deep => T[u + 1] = IF stack'[u + 1].at = "drift" THEN T[u] ELSE T[u] + S(u)
    BY <1>1 DEF NewBegins
  <2> QED
    BY <1>1, <1>5, <2>1, <2>2, <2>3 DEF NewBegins
<1> QED
  BY <1>3, <1>4, <1>6

\* when it makes another call, which begins at dTime, the beginning or the middle of its step,
LEMMA BeginsCall ==
  ASSUME NewTypes, NewShape, stack # <<>>, NEW T \in Begins, NewBegins(T), deep + 1 \in Rung,
         NEW e \in NewFrames, e.uRung = deep, New!Call(e), iStep' = iStep,
         \/ New!top.at = "descend" /\ e.at = "drift" /\ dTime = T[deep]
         \/ New!top.at = "again" /\ e.at = "end" /\ dTime = T[deep] + S(deep),
         NEW T2, T2 = [T EXCEPT ![deep + 1] = dTime],
         NEW n, n = deep + 1
  PROVE  /\ T2 \in Begins /\ NewBegins(T2)'
         /\ T2[deep + 1] = dTime /\ \A u \in 0..deep : T2[u] = T[u]
         /\ \A u \in 0..deep : Deadline(T2, u)' = Deadline(T, u)
         /\ Deadline(T2, n)' = dTime + S(deep + 1)
<1>1. /\ deep \in Nat /\ deep' = deep + 1 /\ New!top = stack[deep + 1]
      /\ stack'[deep + 2].at = "start"
      /\ \A u \in 0..deep : stack'[u + 1] = IF u = deep THEN e ELSE stack[u + 1]
  BY NewCall, NewCalls
<1>2. deep \in 0..deep /\ dTime \in Int
  BY <1>1 DEF NewTypes
<1>3. T2 \in Begins /\ T2[deep + 1] = dTime /\ \A u \in 0..deep : T2[u] = T[u]
  BY <1>1, <1>2 DEF Begins
<1>4. ASSUME NEW u \in 0..deep PROVE Deadline(T2, u)' = Deadline(T, u)
  <2>1. Deadline(T2, u)' = IF stack'[u + 1].at \in Before THEN T2[u] + S(u) ELSE T2[u] + 2 * S(u)
    BY DEF Deadline
  <2>2. Deadline(T, u) = IF stack[u + 1].at \in Before THEN T[u] + S(u) ELSE T[u] + 2 * S(u)
    BY DEF Deadline
  <2>3. stack'[u + 1].at \in Before <=> stack[u + 1].at \in Before
    BY <1>1 DEF Before
  <2>4. QED
    BY <2>1, <2>2, <2>3, <1>3
<1>5. Deadline(T2, n)' = dTime + S(deep + 1)
  <2>1. Deadline(T2, n)' = IF stack'[n + 1].at \in Before THEN T2[n] + S(n) ELSE T2[n] + 2 * S(n)
    BY DEF Deadline
  <2>2. n + 1 = deep + 2
    BY <1>1
  <2>3. stack'[n + 1].at \in Before
    BY <2>2, <1>1 DEF Before
  <2>4. QED
    BY <2>1, <2>3, <1>3
<1>6. dTime = IF e.at = "drift" THEN T[deep] ELSE T[deep] + S(deep)
  OBVIOUS
<1>7. /\ T[deep] \in Int /\ S(deep) \in Nat /\ S(deep) > 0 /\ Deadline(T, deep) \in Int
      /\ S(deep) = 2 * S(deep + 1) /\ S(deep + 1) \in Nat /\ S(deep + 1) > 0
  BY Chain, <1>2, StepHalves, NewCalls
<1>8. Deadline(T, deep) = dTime + S(deep)
  <2>1. Deadline(T, deep) = IF New!top.at \in Before THEN T[deep] + S(deep) ELSE T[deep] + 2 * S(deep)
    BY <1>1 DEF Deadline
  <2>2. QED
    BY <2>1, <1>7 DEF Before
<1>9. ASSUME NEW u \in 0..(deep + 1), NEW w \in 0..(deep + 1), u <= w
      PROVE  T2[u] <= T2[w] /\ Deadline(T2, w)' <= Deadline(T2, u)'
  <2>1. CASE w # deep + 1
    <3>1. u \in 0..deep /\ w \in 0..deep
      BY <1>1, <1>9, <2>1
    <3>2. QED
      BY <3>1, <1>3, <1>4, <1>9 DEF NewBegins
  <2>2. CASE u = deep + 1
    <3>1. w = deep + 1
      BY <1>1, <1>9, <2>2
    <3>2. Deadline(T2, n)' \in Int
      BY <1>2, <1>5, <1>7
    <3>3. Deadline(T2, u)' = Deadline(T2, n)' /\ Deadline(T2, w)' = Deadline(T2, n)'
      BY <2>2, <3>1
    <3>4. T2[u] <= T2[w]
      BY <2>2, <3>1, <1>2, <1>3
    <3>5. QED
      BY <3>2, <3>3, <3>4
  <2>3. CASE w = deep + 1 /\ u # deep + 1
    <3>1. u \in 0..deep /\ u <= deep
      BY <1>1, <1>9, <2>3
    <3>2. T[u] <= T[deep] /\ Deadline(T, deep) <= Deadline(T, u) /\ T[u] \in Int /\ Deadline(T, u) \in Int
      BY <3>1, <1>2, Chain DEF NewBegins
    <3>3. T[u] <= dTime
      BY <3>2, <1>6, <1>7, <1>2
    <3>4. dTime + S(deep + 1) <= Deadline(T, u)
      BY <3>2, <1>7, <1>8, <1>2
    <3>5. T2[u] <= T2[w]
      BY <2>3, <3>1, <3>3, <1>3
    <3>6. Deadline(T2, w)' = Deadline(T2, n)' /\ Deadline(T2, u)' = Deadline(T, u)
      BY <2>3, <3>1, <1>4
    <3>7. QED
      BY <3>4, <3>5, <3>6, <1>5
  <2> QED
    BY <2>1, <2>2, <2>3
<1>10. ASSUME NEW u \in 0..(deep + 1) PROVE T2[u] % S(u) = 0
  <2>1. CASE u # deep + 1
    <3>1. u \in 0..deep
      BY <1>1, <2>1
    <3>2. QED
      BY <3>1, <1>3 DEF NewBegins
  <2>2. CASE u = deep + 1
    <3>1. T[deep] % S(deep) = 0
      BY <1>2 DEF NewBegins
    <3>2. dTime % S(deep) = 0
      BY <3>1, <1>6, <1>7, ModAdd
    <3>3. dTime % (2 * S(deep + 1)) = 0
      BY <3>2, <1>7
    <3>4. dTime % S(deep + 1) = 0
      BY <3>3, <1>2, <1>7, ModHalf
    <3>5. QED
      BY <2>2, <3>4, <1>3
  <2> QED
    BY <2>1, <2>2
<1>11. ASSUME NEW u \in 0..(deep + 1), u # deep + 1
       PROVE  T2[u + 1] = IF stack'[u + 1].at = "drift" THEN T2[u] ELSE T2[u] + S(u)
  <2>1. u \in 0..deep
    BY <1>1, <1>11
  <2>2. CASE u = deep
    BY <2>2, <1>1, <1>2, <1>3, <1>6
  <2>3. CASE u # deep
    <3>1. u + 1 \in 0..deep
      BY <1>1, <2>1, <2>3
    <3>2. T[u + 1] = IF stack[u + 1].at = "drift" THEN T[u] ELSE T[u] + S(u)
      BY <2>1, <2>3 DEF NewBegins
    <3>3. QED
      BY <2>1, <2>3, <3>1, <3>2, <1>1, <1>3
  <2> QED
    BY <2>2, <2>3
<1>12. T2[0] = iStep' * S(0)
  <2>1. 0 \in 0..deep
    BY <1>1
  <2>2. QED
    BY <2>1, <1>3 DEF NewBegins
<1>13. NewBegins(T2)'
  BY <1>1, <1>9, <1>10, <1>11, <1>12 DEF NewBegins
<1> QED
  BY <1>3, <1>4, <1>5, <1>13

\* and when it returns.
LEMMA BeginsReturn ==
  ASSUME NewTypes, NewShape, stack # <<>>, NEW T \in Begins, NewBegins(T), New!Return, iStep' = iStep, deep # 0
  PROVE  /\ NewBegins(T)'
         /\ \A u \in 0..deep : u # deep => Deadline(T, u)' = Deadline(T, u)
<1>1. /\ deep \in Nat /\ deep' = deep - 1
      /\ stack'[deep] = [stack[deep] EXCEPT !.bDualTree = New!top.bDualTree]
      /\ \A u \in 0..(deep - 2) : stack'[u + 1] = stack[u + 1]
  BY NewReturn, NewCalls
<1>2. ASSUME NEW u \in 0..deep, u # deep
      PROVE  stack'[u + 1].at = stack[u + 1].at /\ Deadline(T, u)' = Deadline(T, u)
  <2>1. CASE u = deep - 1
    <3>1. u + 1 = deep /\ stack[u + 1] \in NewFrames
      BY <1>1, <2>1, NewCalls
    <3>2. stack'[u + 1].at = stack[u + 1].at
      BY <3>1, <1>1 DEF NewFrames
    <3>3. QED
      BY <3>2 DEF Deadline
  <2>2. CASE u # deep - 1
    <3>1. u \in 0..(deep - 2)
      BY <1>1, <1>2, <2>2
    <3>2. stack'[u + 1].at = stack[u + 1].at
      BY <3>1, <1>1
    <3>3. QED
      BY <3>2 DEF Deadline
  <2> QED
    BY <2>1, <2>2
<1>3. \A u \in 0..(deep - 1) : u \in 0..deep /\ u # deep
  BY <1>1
<1>4. T[0] = iStep' * S(0)
  BY DEF NewBegins
<1>5. \A u \in 0..(deep - 1) : T[u] % S(u) = 0
  BY <1>3 DEF NewBegins
<1>6. \A u \in 0..(deep - 1) : T[u + 1] = IF stack'[u + 1].at = "drift" THEN T[u] ELSE T[u] + S(u)
  BY <1>2, <1>3 DEF NewBegins
<1>7. \A u, w \in 0..(deep - 1) : u <= w => T[u] <= T[w] /\ Deadline(T, w)' <= Deadline(T, u)'
  BY <1>2, <1>3 DEF NewBegins
<1> QED
  BY <1>1, <1>2, <1>4, <1>5, <1>6, <1>7 DEF NewBegins

\* The shape of the stack is kept by a call that goes on,
LEMMA ShapeGoOn ==
  ASSUME NewTypes, NewShape, stack # <<>>, NEW e \in NewFrames, New!GoOn(e),
         e.uRung = deep, deep <= uRungMax', pc' = pc
  PROVE  NewShape'
<1>1. /\ deep \in Nat /\ Len(stack) = deep + 1 /\ deep' = deep /\ Len(stack') = deep + 1 /\ pc = "step"
      /\ \A u \in 0..deep : stack'[u + 1] = IF u = deep THEN e ELSE stack[u + 1]
      /\ \A u \in 0..deep : stack[u + 1].uRung = u
  BY NewGoOn, NewCalls
<1>2. ASSUME NEW i \in 1..Len(stack')
      PROVE  /\ stack'[i].uRung = i - 1
             /\ i \in 1..(Len(stack') - 1) => stack'[i].at = "drift" \/ (stack'[i].at = "end" /\ i # 1)
  <2>1. i - 1 \in 0..deep /\ i - 1 + 1 = i
    BY <1>1
  <2>2. stack'[i] = IF i - 1 = deep THEN e ELSE stack[i]
    BY <1>1, <2>1
  <2>3. stack[i].uRung = i - 1
    BY <1>1, <2>1
  <2>4. i \in 1..(Len(stack') - 1) => i - 1 # deep /\ (stack[i].at = "drift" \/ (stack[i].at = "end" /\ i # 1))
    BY <1>1 DEF NewShape
  <2> QED
    BY <2>2, <2>3, <2>4
<1>3. deep' <= uRungMax'
  BY <1>1
<1> QED
  BY <1>1, <1>2, <1>3 DEF NewShape

\* by one that makes another,
LEMMA ShapeCall ==
  ASSUME NewTypes, NewShape, stack # <<>>, deep + 1 \in Rung, NEW e \in NewFrames, New!Call(e),
         e.uRung = deep, e.at = "drift" \/ (e.at = "end" /\ deep # 0),
         deep < uRungMax, uRungMax' = uRungMax, pc' = pc
  PROVE  NewShape'
<1>1. /\ deep \in Nat /\ Len(stack) = deep + 1 /\ deep' = deep + 1 /\ Len(stack') = deep + 2 /\ pc = "step"
      /\ \A u \in 0..deep : stack'[u + 1] = IF u = deep THEN e ELSE stack[u + 1]
      /\ \A u \in 0..deep : stack[u + 1].uRung = u
      /\ stack'[deep + 2].uRung = deep + 1
  BY NewCall, NewCalls
<1>2. ASSUME NEW i \in 1..Len(stack')
      PROVE  /\ stack'[i].uRung = i - 1
             /\ i \in 1..(Len(stack') - 1) => stack'[i].at = "drift" \/ (stack'[i].at = "end" /\ i # 1)
  <2>1. CASE i = deep + 2
    BY <2>1, <1>1
  <2>2. CASE i # deep + 2
    <3>1. i - 1 \in 0..deep /\ i - 1 + 1 = i
      BY <1>1, <2>2
    <3>2. stack'[i] = IF i - 1 = deep THEN e ELSE stack[i]
      BY <1>1, <3>1
    <3>3. stack[i].uRung = i - 1
      BY <1>1, <3>1
    <3>4. i - 1 # deep => stack[i].at = "drift" \/ (stack[i].at = "end" /\ i # 1)
      <4>1. i - 1 # deep => i \in 1..(Len(stack) - 1)
        BY <1>1, <3>1
      <4>2. QED
        BY <4>1 DEF NewShape
    <3>5. i - 1 = deep => e.at = "drift" \/ (e.at = "end" /\ i # 1)
      BY <3>1
    <3> QED
      BY <3>2, <3>3, <3>4, <3>5
  <2> QED
    BY <2>1, <2>2
<1>3. deep' <= uRungMax'
  BY <1>1, MaxRungType DEF NewTypes, Rung
<1> QED
  BY <1>1, <1>2, <1>3 DEF NewShape

\* and by one that returns.
LEMMA ShapeReturn ==
  ASSUME NewTypes, NewShape, stack # <<>>, New!Return, uRungMax' = uRungMax, pc' = pc
  PROVE  NewShape'
<1>1. deep \in Nat /\ Len(stack) = deep + 1 /\ pc = "step" /\ deep <= uRungMax
  BY NewCalls
<1>2. CASE deep = 0
  <2>1. stack' = <<>>
    BY <1>2, NewReturn
  <2>2. Len(stack') = 0 /\ deep' = -1 /\ stack' = <<>>
    BY <2>1 DEF deep
  <2>3. -1 <= uRungMax
    BY MaxRungType DEF NewTypes, Rung
  <2> QED
    BY <2>2, <2>3, <1>1 DEF NewShape
<1>3. CASE deep # 0
  <2>1. /\ deep' = deep - 1 /\ Len(stack') = deep
        /\ stack'[deep] = [stack[deep] EXCEPT !.bDualTree = New!top.bDualTree]
        /\ \A u \in 0..(deep - 2) : stack'[u + 1] = stack[u + 1]
    BY <1>3, NewReturn
  <2>2. ASSUME NEW i \in 1..Len(stack')
        PROVE  /\ stack'[i].uRung = i - 1
               /\ i \in 1..(Len(stack') - 1) => stack'[i].at = "drift" \/ (stack'[i].at = "end" /\ i # 1)
    <3>1. i \in 1..Len(stack) /\ i \in 1..deep
      BY <1>1, <2>1
    <3>2. CASE i = deep
      <4>1. stack[deep] \in NewFrames
        BY <1>1, <3>1, <3>2, ElementOfSeq DEF NewTypes
      <4>2. stack'[i].uRung = stack[i].uRung
        BY <4>1, <2>1, <3>2 DEF NewFrames
      <4>3. ~ (i \in 1..(Len(stack') - 1))
        BY <1>1, <2>1, <3>2
      <4> QED
        BY <3>1, <4>2, <4>3 DEF NewShape
    <3>3. CASE i # deep
      <4>1. i - 1 \in 0..(deep - 2) /\ i - 1 + 1 = i
        BY <1>1, <3>1, <3>3
      <4>2. stack'[i] = stack[i]
        BY <4>1, <2>1
      <4>3. i \in 1..(Len(stack) - 1)
        BY <1>1, <3>1
      <4> QED
        BY <3>1, <4>2, <4>3 DEF NewShape
    <3> QED
      BY <3>2, <3>3
  <2>3. deep' <= uRungMax' /\ pc' = "step"
    BY <1>1, <2>1, MaxRungType DEF NewTypes, Rung
  <2> QED
    BY <2>2, <2>3 DEF NewShape
<1> QED
  BY <1>2, <1>3

\* A step of the calls does not move the ends of the particles' steps.
LEMMA EndsGoOn ==
  ASSUME NewTypes, NewShape, stack # <<>>, NEW T \in Begins, NewBegins(T), NewNow(T),
         NEW e \in NewFrames, New!GoOn(e), iStep' = iStep,
         \/ New!top.at = "start" /\ e.at = "descend" /\ dTime' = dTime
         \/ New!top.at = "descend" /\ e.at = "drift" /\ dTime' = dTime /\ deep = uRungMax
         \/ New!top.at = "drift" /\ e.at = "gravity"
         \/ New!top.at = "again" /\ e.at = "end" /\ dTime' = dTime /\ (deep = 0 \/ deep = uRungMax),
         NEW r \in Rung, r <= uRungMax
  PROVE  StepEnd(T, r)' = StepEnd(T, r)
<1>1. deep \in Nat /\ deep' = deep /\ New!top' = e /\ stack' # <<>> /\ New!top \in NewFrames
  BY NewGoOn, NewCalls
<1>2. PICK n : n = deep
  OBVIOUS
<1>3. e.at \in Before <=> New!top.at \in Before
  BY DEF Before
<1>4. CASE r <= deep
  <2>1. r \in 0..deep
    BY <1>1, <1>4, MaxRungType DEF Rung
  <2>2. Deadline(T, r)' = Deadline(T, r)
    <3>1. CASE r = n
      <4>1. Deadline(T, n)' = Deadline(T, deep)
        BY <1>2, <1>3, BeginsGoOn
      <4>2. QED
        BY <3>1, <4>1, <1>2
    <3>2. CASE r # n
      BY <3>2, <2>1, <1>2, BeginsGoOn
    <3>3. QED
      BY <3>1, <3>2
  <2>3. StepEnd(T, r) = Deadline(T, r) /\ StepEnd(T, r)' = Deadline(T, r)'
    BY <1>1, <1>4 DEF StepEnd
  <2> QED
    BY <2>2, <2>3
<1>5. CASE ~ (r <= deep)
  <2>1. deep # uRungMax
    BY <1>5
  <2>2. StepEnd(T, r) = IF New!top.at \in {"start", "descend", "again"} \/ (New!top.at = "end" /\ deep = 0) THEN dTime + S(r)
                        ELSE IF New!top.at = "end" THEN T[deep] + 2 * S(deep)
                        ELSE T[deep] + S(deep)
    BY <1>5 DEF StepEnd
  <2>3. StepEnd(T, r)' = IF e.at \in {"start", "descend", "again"} \/ (e.at = "end" /\ n = 0) THEN dTime' + S(r)
                         ELSE IF e.at = "end" THEN T[n] + 2 * S(n)
                         ELSE T[n] + S(n)
    BY <1>1, <1>2, <1>5 DEF StepEnd
  <2> QED
    BY <2>1, <2>2, <2>3, <1>2
<1> QED
  BY <1>4, <1>5

\* No particle's step ends at another time because a call is made,
LEMMA EndsCall ==
  ASSUME NewTypes, NewShape, stack # <<>>, NEW T \in Begins, NewBegins(T), NewNow(T), deep + 1 \in Rung,
         NEW e \in NewFrames, e.uRung = deep, New!Call(e), iStep' = iStep, dTime' = dTime,
         \/ New!top.at = "descend" /\ e.at = "drift"
         \/ New!top.at = "again" /\ e.at = "end",
         NEW T2, T2 = [T EXCEPT ![deep + 1] = dTime],
         NEW r \in Rung
  PROVE  StepEnd(T2, r)' = StepEnd(T, r)
<1>1. deep \in Nat /\ deep' = deep + 1 /\ New!top'.at = "start" /\ stack' # <<>>
  BY NewCall, NewCalls
<1>2. PICK n : n = deep + 1
  OBVIOUS
<1>3. \/ New!top.at = "descend" /\ e.at = "drift" /\ dTime = T[deep]
      \/ New!top.at = "again" /\ e.at = "end" /\ dTime = T[deep] + S(deep)
  BY DEF NewNow
<1>4. /\ \A u \in 0..deep : Deadline(T2, u)' = Deadline(T, u)
      /\ Deadline(T2, n)' = dTime + S(deep + 1)
  BY <1>2, <1>3, BeginsCall, ZenonT(20)
<1>5. r \in Nat
  BY MaxRungType DEF Rung
<1>6. CASE r <= deep
  <2>1. StepEnd(T, r) = Deadline(T, r)
    BY <1>6 DEF StepEnd
  <2>2. StepEnd(T2, r)' = Deadline(T2, r)'
    <3>1. r <= deep'
      BY <1>1, <1>5, <1>6
    <3>2. QED
      BY <3>1, <1>1 DEF StepEnd
  <2>3. r \in 0..deep
    BY <1>1, <1>5, <1>6
  <2> QED
    BY <2>1, <2>2, <2>3, <1>4
<1>7. CASE ~ (r <= deep)
  <2>1. StepEnd(T, r) = dTime + S(r)
    BY <1>3, <1>7 DEF StepEnd
  <2>2. CASE r = n
    <3>1. r <= deep'
      BY <1>1, <1>2, <2>2
    <3>2. StepEnd(T2, r)' = Deadline(T2, r)'
      BY <3>1, <1>1 DEF StepEnd
    <3>3. Deadline(T2, r)' = Deadline(T2, n)'
      BY <2>2
    <3> QED
      BY <3>2, <3>3, <1>2, <1>4, <2>1, <2>2
  <2>3. CASE r # n
    <3>1. ~ (r <= deep')
      BY <1>1, <1>2, <1>5, <1>7, <2>3
    <3>2. StepEnd(T2, r)' = dTime' + S(r)
      BY <3>1, <1>1 DEF StepEnd
    <3> QED
      BY <3>2, <2>1
  <2> QED
    BY <2>2, <2>3
<1> QED
  BY <1>6, <1>7

\* or because one returns.
LEMMA EndsReturn ==
  ASSUME NewTypes, NewShape, stack # <<>>, NEW T \in Begins, NewBegins(T), NewNow(T),
         New!top.at = "end", New!Return, iStep' = iStep, dTime' = dTime, NEW r \in Rung
  PROVE  StepEnd(T, r)' = StepEnd(T, r)
<1>1. deep \in Nat /\ Len(stack) = deep + 1 /\ New!top = stack[deep + 1]
  BY NewCalls
<1>2. deep \in 0..deep /\ 0 \in 0..deep /\ r \in Nat
  BY <1>1, MaxRungType DEF Rung
<1>3. Deadline(T, deep) = T[deep] + 2 * S(deep)
  BY <1>1 DEF Deadline, Before
<1>4. CASE deep = 0
  <2>1. stack' = <<>>
    BY <1>4, NewReturn
  <2>2. StepEnd(T, r)' = dTime + S(r)
    BY <2>1 DEF StepEnd
  <2>3. dTime = T[0] + S(0)
    BY <1>4 DEF NewNow
  <2>4. r <= 0 => r = 0
    BY <1>2
  <2>5. T[0] \in Int /\ S(0) \in Nat
    BY <1>2, Chain
  <2>6. CASE r = 0
    <3>1. StepEnd(T, r) = Deadline(T, r)
      BY <1>2, <1>4, <2>6 DEF StepEnd
    <3>2. Deadline(T, r) = T[0] + 2 * S(0)
      BY <1>3, <1>4, <2>6
    <3> QED
      BY <3>1, <3>2, <2>2, <2>3, <2>5, <2>6
  <2>7. CASE r # 0
    BY <2>2, <2>4, <2>7, <1>4 DEF StepEnd
  <2> QED
    BY <2>6, <2>7
<1>5. CASE deep # 0
  <2>1. /\ deep' = deep - 1 /\ stack' # <<>>
        /\ New!top' = [stack[deep] EXCEPT !.bDualTree = New!top.bDualTree]
    BY <1>5, NewReturn
  <2>2. PICK m : m = deep - 1
    OBVIOUS
  <2>3. m \in 0..deep /\ m # deep /\ m + 1 = deep
    BY <1>1, <1>5, <2>2
  <2>4. stack[deep] \in NewFrames /\ (stack[deep].at = "drift" \/ (stack[deep].at = "end" /\ m # 0))
    BY <2>3, NewCalls
  <2>5. New!top'.at = stack[deep].at
    BY <2>1, <2>4 DEF NewFrames
  <2>6. T[deep] + S(m) = Deadline(T, m) /\ S(m) = 2 * S(deep) /\ T[deep] \in Int /\ S(deep) \in Nat
    BY <2>3, Chain
  <2>7. Deadline(T, deep) = Deadline(T, m)
    BY <1>3, <2>6
  <2>8. Deadline(T, m) = IF stack[deep].at \in Before THEN T[m] + S(m) ELSE T[m] + 2 * S(m)
    BY <2>3 DEF Deadline
  <2>9. Deadline(T, m) = IF stack[deep].at = "end" THEN T[m] + 2 * S(m) ELSE T[m] + S(m)
    BY <2>4, <2>8 DEF Before
  <2>10. CASE r <= m
    <3>1. r <= deep /\ r <= deep' /\ r \in 0..deep /\ r # deep
      BY <1>1, <1>2, <2>1, <2>2, <2>10
    <3>2. StepEnd(T, r) = Deadline(T, r) /\ StepEnd(T, r)' = Deadline(T, r)'
      BY <3>1, <2>1 DEF StepEnd
    <3> QED
      BY <3>1, <3>2, <1>5, BeginsReturn
  <2>11. CASE ~ (r <= m)
    <3>1. ~ (r <= deep')
      BY <2>1, <2>2, <2>11
    <3>2. deep' # 0 \/ New!top'.at # "end"
      BY <2>1, <2>2, <2>4, <2>5
    <3>3. StepEnd(T, r)' = IF New!top'.at = "end" THEN T[m] + 2 * S(m) ELSE T[m] + S(m)
      <4>1. deep' = m
        BY <2>1, <2>2
      <4>2. T[deep'] + 2 * S(deep') = T[m] + 2 * S(m) /\ T[deep'] + S(deep') = T[m] + S(m)
        BY <4>1
      <4>3. ~ (New!top'.at \in {"start", "descend", "again"})
        BY <2>4, <2>5
      <4>4. QED
        BY <3>1, <3>2, <2>1, <4>2, <4>3 DEF StepEnd
    <3>4. StepEnd(T, r)' = Deadline(T, m)
      BY <3>3, <2>5, <2>9
    <3>5. CASE r = deep
      <4>1. StepEnd(T, r) = Deadline(T, r)
        BY <3>5, <1>1 DEF StepEnd
      <4> QED
        BY <4>1, <3>4, <3>5, <2>7
    <3>6. CASE r # deep
      <4>1. ~ (r <= deep)
        BY <1>1, <1>2, <2>2, <2>11, <3>6
      <4>2. StepEnd(T, r) = T[deep] + 2 * S(deep)
        BY <4>1, <1>5 DEF StepEnd
      <4> QED
        BY <4>2, <3>4, <1>3, <2>7
    <3> QED
      BY <3>5, <3>6
  <2> QED
    BY <2>10, <2>11
<1> QED
  BY <1>4, <1>5

\* Where no particle is kicked, its velocity is right as long as the end of its step is where it was.
LEMMA VelocitiesStay ==
  ASSUME NewTypes, NEW T \in Begins, NewRungs, NewVelocities(T), pc # "init", pc' # "init",
         UNCHANGED <<v, rung, open, kickOpen>>,
         kickOpen => dTime' = dTime,
         NEW T2, \A r \in Rung : ~kickOpen /\ r <= uRungMax => StepEnd(T2, r)' = StepEnd(T, r)
  PROVE  NewVelocities(T2)'
<1>1. ASSUME NEW p \in NewParticles
      PROVE  IF kickOpen THEN ~open[p] /\ v[p] = dTime' ELSE open[p] /\ v[p] + H(rung[p]) = StepEnd(T2, rung[p])'
  <2>1. PICK r \in Rung : r = rung[p]
    BY DEF NewTypes
  <2>2. IF kickOpen THEN ~open[p] /\ v[p] = dTime ELSE open[p] /\ v[p] + H(rung[p]) = StepEnd(T, rung[p])
    BY DEF NewVelocities
  <2>3. ~kickOpen => r <= uRungMax
    BY <2>1 DEF NewRungs
  <2>4. ~kickOpen => StepEnd(T2, r)' = StepEnd(T, r)
    BY <2>3
  <2>5. rung'[p] = r
    BY <2>1
  <2>6. StepEnd(T2, rung[p])' = StepEnd(T2, r)'
    BY <2>5
  <2> QED
    BY <2>1, <2>2, <2>4, <2>6
<1> QED
  BY <1>1 DEF NewVelocities

\* The slow particles wait in the fixed tree while the others advance.
LEMMA WaitingGoOn ==
  ASSUME NewTypes, NewShape, NEW T \in Begins, Waiting(T), NEW e \in NewFrames, New!GoOn(e),
         UNCHANGED <<root, fix, iRungDT>>,
         fix = {p \in NewParticles : rung'[p] <= iRungDT},
         \A p \in fix : x'[p] = x[p],
         \A p \in root : x'[p] = dTime',
         e.bDualTree, e.at # "start", deep = iRungDT + 1 => e.dTimeFixed = New!top.dTimeFixed
  PROVE  Waiting(T)'
<1>1. stack # <<>> /\ iRungDT < deep
  BY DEF Waiting
<1>2. /\ deep \in Nat /\ deep' = deep /\ stack' # <<>> /\ New!top = stack[deep + 1] /\ iRungDT \in Nat
      /\ \A u \in 0..deep : stack'[u + 1] = IF u = deep THEN e ELSE stack[u + 1]
  BY <1>1, NewGoOn, NewCalls, MaxRungType DEF NewTypes, Rung
<1>3. iRungDT + 1 \in 0..deep /\ iRungDT + 1 + 1 = iRungDT + 2
  BY <1>1, <1>2
<1>4. stack'[iRungDT + 2] = IF iRungDT + 1 = deep THEN e ELSE stack[iRungDT + 2]
  BY <1>2, <1>3
<1>5. iRungDT + 1 = deep => stack[iRungDT + 2] = New!top
  BY <1>2, <1>3
<1>6. /\ stack'[iRungDT + 2].dTimeFixed = T[iRungDT + 1] + H(iRungDT)
      /\ stack'[iRungDT + 2].at # "start"
  BY <1>4, <1>5 DEF Waiting
<1>7. \A u \in 0..deep : u > iRungDT => stack'[u + 1].bDualTree
  BY <1>2 DEF Waiting
<1>8. Split'
  BY DEF Split, Waiting
<1>9. \A p \in fix : x'[p] = T[iRungDT + 1] + H(iRungDT)
  BY DEF Waiting
<1> QED
  BY <1>1, <1>2, <1>6, <1>7, <1>8, <1>9 DEF Waiting

\* The output flags and the light cone keep their meaning where they are left alone.
LEMMA FlagsStay ==
  ASSUME NewFlags, stack # <<>>, UNCHANGED <<due, kickOpen, pc, iStep, cone>>,
         stack' # <<>>, AllKicked' <=> AllKicked
  PROVE  NewFlags'
BY DEF NewFlags

\* What an action at "at" knows of the calls.
LEMMA NewAt ==
  ASSUME NEW T \in Begins, NewInv(T), NEW at, New!At(at)
  PROVE  /\ NewTypes /\ NewShape /\ NewRungs /\ NewBegins(T) /\ NewNow(T)
         /\ NewPositions(T) /\ NewVelocities(T) /\ NewFlags
         /\ stack # <<>> /\ New!top.at = at /\ pc = "step" /\ New!top = stack[deep + 1]
         /\ deep \in Nat /\ deep \in Rung /\ deep <= uRungMax /\ New!top \in NewFrames /\ New!top.uRung = deep
         /\ uRungMax \in Nat /\ iRungDT \in Nat
         /\ T[deep] \in Int /\ S(deep) \in Nat /\ S(deep) > 0
         /\ S(uRungMax) \in Nat /\ S(uRungMax) > 0 /\ H(iRungDT) \in Nat /\ dTime \in Int
         /\ at \in Before => ~kickOpen /\ ~due
<1>1. NewTypes /\ NewShape /\ NewRungs /\ NewClock(T) /\ NewPositions(T) /\ NewVelocities(T) /\ NewFlags
  BY DEF NewInv
<1>2. stack # <<>> /\ New!top.at = at /\ pc = "step"
  BY DEF New!At
<1>3. NewBegins(T) /\ NewNow(T)
  BY <1>1, <1>2 DEF NewClock
<1>4. deep \in Nat /\ deep \in Rung /\ deep <= uRungMax /\ New!top \in NewFrames /\ New!top.uRung = deep /\ New!top = stack[deep + 1]
  BY <1>1, <1>2, NewCalls
<1>5. deep \in 0..deep
  BY <1>4
<1>6. T[deep] \in Int /\ S(deep) \in Nat /\ S(deep) > 0
  BY <1>1, <1>2, <1>3, <1>5, Chain
<1>7. uRungMax \in Nat /\ iRungDT \in Nat /\ S(uRungMax) \in Nat /\ S(uRungMax) > 0 /\ H(iRungDT) \in Nat /\ dTime \in Int
  BY <1>1, StepHalves, MaxRungType DEF NewTypes, Rung
<1>8. at \in Before => ~kickOpen /\ ~due
  BY <1>1, <1>2 DEF NewFlags, AllKicked, Before
<1> QED
  BY <1>1, <1>2, <1>3, <1>4, <1>6, <1>7, <1>8

------------------------------------------------------------------------------
(* The steps of NewTopStepKDK keep it *)

\* One tree, or the slow particles are in the fixed tree already.
LEMMA StartSingleInv ==
  ASSUME NEW T \in Begins, NewInv(T), New!StartSingle
  PROVE  NewInv(T)'
<1> DEFINE e == [New!top EXCEPT !.bDualTree = IF New!top.uRung = iRungDT + 1 THEN FALSE ELSE @, !.at = "descend"]
<1>1. /\ New!At("start") /\ New!GoOn(e)
      /\ UNCHANGED <<x, v, rung, open, root, fix, dTime, uRungMax, iRungDT, pc, iStep, kickOpen, due, cone, arg, sources>>
  BY DEF New!StartSingle, New!leapVars
<1>2. /\ NewTypes /\ NewShape /\ NewRungs /\ NewBegins(T) /\ NewNow(T)
      /\ NewPositions(T) /\ NewVelocities(T) /\ NewFlags
      /\ stack # <<>> /\ New!top.at = "start" /\ pc = "step" /\ New!top = stack[deep + 1]
      /\ deep \in Nat /\ deep <= uRungMax /\ New!top \in NewFrames /\ New!top.uRung = deep /\ iRungDT \in Nat
      /\ ~kickOpen /\ ~due
  BY <1>1, NewAt DEF Before
<1>3. e \in NewFrames /\ e.uRung = deep /\ e.at = "descend" /\ (deep # iRungDT + 1 => e.bDualTree = New!top.bDualTree)
  BY <1>2 DEF NewFrames, Before
<1> HIDE DEF e
<1>4. stack' \in Seq(NewFrames) /\ stack' # <<>> /\ deep' = deep /\ New!top' = e
  BY <1>1, <1>2, <1>3, NewGoOn
<1>5. NewTypes'
  BY <1>1, <1>2, <1>4 DEF NewTypes
<1>6. NewShape'
  BY <1>1, <1>2, <1>3, ShapeGoOn
<1>7. NewRungs'
  BY <1>1, <1>2 DEF NewRungs, New!RungDT
<1>8. NewClock(T)'
  <2>1. NewBegins(T)'
    BY <1>1, <1>2, <1>3, BeginsGoOn
  <2>2. NewNow(T)'
    BY <1>1, <1>2, <1>3, <1>4 DEF NewNow
  <2> QED
    BY <1>4, <2>1, <2>2 DEF NewClock
<1>9. NewPositions(T)'
  <2>1. CASE Sync
    BY <1>1, <2>1 DEF NewPositions, Sync
  <2>2. CASE Waiting(T)
    <3>1. deep # iRungDT + 1
      <4>1. deep = iRungDT + 1 => stack[iRungDT + 2] = New!top
        BY <1>2
      <4>2. QED
        BY <4>1, <1>2, <2>2 DEF Waiting
    <3>2. e.bDualTree
      BY <3>1, <2>2, <1>2, <1>3 DEF Waiting
    <3>3. fix = {p \in NewParticles : rung[p] <= iRungDT} /\ (\A p \in root : x[p] = dTime)
      BY <2>2 DEF Waiting, Split
    <3>4. Waiting(T)'
      BY <1>1, <1>2, <1>3, <2>2, <3>1, <3>2, <3>3, WaitingGoOn
    <3> QED
      BY <3>4 DEF NewPositions
  <2>3. CASE Ended
    BY <2>3, <1>2 DEF Ended
  <2> QED
    BY <1>2, <2>1, <2>2, <2>3 DEF NewPositions
<1>10. NewVelocities(T)'
  <2>1. \A r \in Rung : r <= uRungMax => StepEnd(T, r)' = StepEnd(T, r)
    BY <1>1, <1>2, <1>3, EndsGoOn
  <2> QED
    BY <1>1, <1>2, <2>1, VelocitiesStay
<1>11. NewFlags'
  <2>1. ~AllKicked /\ ~AllKicked'
    BY <1>2, <1>3, <1>4 DEF AllKicked
  <2> QED
    BY <1>1, <1>2, <1>4, <2>1, FlagsStay
<1> QED
  BY <1>5, <1>6, <1>7, <1>8, <1>9, <1>10, <1>11 DEF NewInv

\* The slow particles are put into a tree of their own, half a step ahead.
LEMMA StartDualInv ==
  ASSUME NEW T \in Begins, NewInv(T), New!StartDual
  PROVE  NewInv(T)' /\ Sync
<1> DEFINE e == [New!top EXCEPT !.bDualTree = TRUE, !.dTimeFixed = dTime + H(iRungDT), !.at = "descend"]
<1>1. /\ New!At("start") /\ New!SplitsTrees /\ New!GoOn(e)
      /\ fix' = {p \in NewParticles : rung[p] <= iRungDT} /\ root' = NewParticles \ fix'
      /\ x' = [p \in NewParticles |-> IF p \in fix' THEN x[p] + H(iRungDT) ELSE x[p]] /\ arg' = dTime
      /\ UNCHANGED <<v, rung, open, dTime, uRungMax, iRungDT, pc, iStep, kickOpen, due, cone, sources>>
  BY HalfIs DEF New!StartDual, New!Drift
<1>2. /\ NewTypes /\ NewShape /\ NewRungs /\ NewBegins(T) /\ NewNow(T)
      /\ NewPositions(T) /\ NewVelocities(T) /\ NewFlags
      /\ stack # <<>> /\ New!top.at = "start" /\ pc = "step" /\ New!top = stack[deep + 1]
      /\ deep \in Nat /\ deep <= uRungMax /\ New!top \in NewFrames /\ New!top.uRung = deep /\ iRungDT \in Nat
      /\ H(iRungDT) \in Nat /\ dTime \in Int
      /\ ~kickOpen /\ ~due
  BY <1>1, NewAt DEF Before
<1>3. /\ e \in NewFrames /\ e.uRung = deep /\ e.at = "descend" /\ e.bDualTree
      /\ e.dTimeFixed = dTime + H(iRungDT)
  <2> DEFINE t == dTime + H(iRungDT)
  <2>1. t \in Int
    BY <1>2
  <2> HIDE DEF t
  <2>2. e = [New!top EXCEPT !.bDualTree = TRUE, !.dTimeFixed = t, !.at = "descend"]
    BY DEF t
  <2>3. /\ e \in NewFrames /\ e.uRung = deep /\ e.at = "descend" /\ e.bDualTree
        /\ e.dTimeFixed = t
    BY <1>2, <2>1, <2>2 DEF NewFrames, Before
  <2> QED
    BY <2>3 DEF t
<1> HIDE DEF e
<1>4. stack' \in Seq(NewFrames) /\ stack' # <<>> /\ deep' = deep /\ New!top' = e
  BY <1>1, <1>2, <1>3, NewGoOn
<1>5. NewTypes'
  <2>1. x' \in [NewParticles -> Int]
    BY <1>1, <1>2 DEF NewTypes
  <2>2. fix' \subseteq NewParticles /\ root' \subseteq NewParticles /\ arg' \in Int
    BY <1>1, <1>2
  <2> QED
    BY <1>1, <1>2, <1>4, <2>1, <2>2 DEF NewTypes
<1>6. NewShape'
  BY <1>1, <1>2, <1>3, ShapeGoOn
<1>7. NewRungs'
  BY <1>1, <1>2 DEF NewRungs, New!RungDT
<1>8. NewClock(T)'
  <2>1. NewBegins(T)'
    BY <1>1, <1>2, <1>3, BeginsGoOn
  <2>2. NewNow(T)'
    BY <1>1, <1>2, <1>3, <1>4 DEF NewNow
  <2> QED
    BY <1>4, <2>1, <2>2 DEF NewClock
<1>9. deep = iRungDT + 1 /\ stack[iRungDT + 2] = New!top /\ dTime = T[deep]
  <2>1. deep = iRungDT + 1 /\ dTime = T[deep]
    BY <1>1, <1>2 DEF New!SplitsTrees, NewNow
  <2> QED
    BY <2>1, <1>2
<1>10. Sync
  BY <1>2, <1>9 DEF NewPositions, Waiting, Ended
<1>11. Waiting(T)'
  <2>1. Split'
    <3>1. \A p \in root' : x'[p] = dTime'
      BY <1>1, <1>10, <1>2 DEF Sync, NewTypes
    <3> QED
      BY <1>1, <3>1 DEF Split
  <2>2. \A p \in fix' : x'[p] = T[iRungDT + 1] + H(iRungDT)
    BY <1>1, <1>9, <1>10 DEF Sync
  <2>3. stack'[iRungDT + 2] = e
    <3>1. deep \in 0..deep /\ deep + 1 = iRungDT + 2
      BY <1>2, <1>9
    <3>2. stack'[deep + 1] = e
      BY <3>1, <1>1, <1>2, <1>3, NewGoOn
    <3> QED
      BY <3>1, <3>2
  <2>4. \A u \in 0..deep : u > iRungDT => stack'[u + 1] = e
    BY <2>3, <1>2, <1>9
  <2>5. iRungDT < deep
    BY <1>2, <1>9
  <2> QED
    BY <1>1, <1>3, <1>4, <1>9, <2>1, <2>2, <2>3, <2>4, <2>5 DEF Waiting
<1>12. NewVelocities(T)'
  <2>1. \A r \in Rung : r <= uRungMax => StepEnd(T, r)' = StepEnd(T, r)
    BY <1>1, <1>2, <1>3, EndsGoOn
  <2> QED
    BY <1>1, <1>2, <2>1, VelocitiesStay
<1>13. NewFlags'
  <2>1. ~AllKicked /\ ~AllKicked'
    BY <1>2, <1>3, <1>4 DEF AllKicked
  <2> QED
    BY <1>1, <1>2, <1>4, <2>1, FlagsStay
<1> QED
  BY <1>5, <1>6, <1>7, <1>8, <1>10, <1>11, <1>12, <1>13 DEF NewInv, NewPositions

\* Only the calls change: the deepest one goes on,
LEMMA GoOnInv ==
  ASSUME NEW T \in Begins, NewInv(T), NEW at, NEW at2, New!At(at),
         \/ at = "descend" /\ at2 = "drift" /\ deep = uRungMax
         \/ at = "again" /\ at2 = "end" /\ (deep = 0 \/ deep = uRungMax),
         New!GoOn([New!top EXCEPT !.at = at2]),
         UNCHANGED <<x, v, rung, open, root, fix, dTime, uRungMax, iRungDT, pc, iStep, kickOpen, due, cone, arg>>
  PROVE  NewInv(T)'
<1> DEFINE e == [New!top EXCEPT !.at = at2]
<1>1. New!GoOn(e)
  OBVIOUS
<1>2. /\ NewTypes /\ NewShape /\ NewRungs /\ NewBegins(T) /\ NewNow(T)
      /\ NewPositions(T) /\ NewVelocities(T) /\ NewFlags
      /\ stack # <<>> /\ New!top.at = at /\ pc = "step" /\ New!top = stack[deep + 1]
      /\ deep \in Nat /\ deep \in Rung /\ deep <= uRungMax /\ New!top \in NewFrames /\ New!top.uRung = deep
      /\ iRungDT \in Nat /\ uRungMax \in Nat
      /\ T[deep] \in Int /\ S(deep) \in Nat
  BY NewAt
<1>3. /\ e \in NewFrames /\ e.uRung = deep /\ e.at = at2
      /\ e.bDualTree = New!top.bDualTree /\ e.dTimeFixed = New!top.dTimeFixed
  BY <1>2 DEF NewFrames, Before
<1> HIDE DEF e
<1>4. Waiting(T) => e.bDualTree
  BY <1>2, <1>3 DEF Waiting
<1>5. Waiting(T) => fix = {p \in NewParticles : rung[p] <= iRungDT} /\ (\A p \in root : x[p] = dTime)
  BY DEF Waiting, Split
<1>6. ~Ended
  BY <1>2 DEF Ended
<1>7. NewRungs'
  BY <1>2 DEF NewRungs, New!RungDT
<1>8. stack' \in Seq(NewFrames) /\ stack' # <<>> /\ deep' = deep /\ New!top' = e
  BY <1>1, <1>2, <1>3, NewGoOn
<1>9. NewTypes'
  BY <1>2, <1>8 DEF NewTypes
<1>10. NewShape'
  BY <1>1, <1>2, <1>3, ShapeGoOn
<1>11. NewClock(T)'
  <2>1. NewBegins(T)'
    BY <1>1, <1>2, <1>3, BeginsGoOn
  <2>2. NewNow(T)'
    <3>1. CASE at = "descend"
      <4>1. dTime = T[deep]
        BY <1>2, <3>1 DEF NewNow
      <4> QED
        BY <1>2, <1>3, <1>8, <3>1, <4>1 DEF NewNow
    <3>2. CASE at = "again"
      <4>1. dTime = T[deep] + S(deep)
        BY <1>2, <3>2 DEF NewNow
      <4>2. dTime = IF deep = 0 THEN T[0] + S(0) ELSE T[deep] + 2 * S(deep) - S(uRungMax)
        BY <1>2, <3>2, <4>1
      <4> QED
        BY <1>3, <1>8, <3>2, <4>2 DEF NewNow
    <3> QED
      BY <3>1, <3>2
  <2> QED
    BY <1>8, <2>1, <2>2 DEF NewClock
<1>12. NewPositions(T)'
  <2>1. CASE Sync
    BY <2>1 DEF NewPositions, Sync
  <2>2. CASE Waiting(T)
    <3>1. Waiting(T)'
      BY <1>1, <1>2, <1>3, <1>4, <1>5, <2>2, WaitingGoOn
    <3> QED
      BY <3>1 DEF NewPositions
  <2> QED
    BY <1>2, <1>6, <2>1, <2>2 DEF NewPositions
<1>13. NewVelocities(T)'
  <2>1. \A r \in Rung : r <= uRungMax => StepEnd(T, r)' = StepEnd(T, r)
    BY <1>1, <1>2, <1>3, EndsGoOn
  <2> QED
    BY <1>2, <2>1, VelocitiesStay
<1>14. NewFlags'
  <2>1. AllKicked' <=> AllKicked
    BY <1>2, <1>3, <1>8 DEF AllKicked
  <2> QED
    BY <1>2, <1>8, <2>1, FlagsStay
<1> QED
  BY <1>7, <1>9, <1>10, <1>11, <1>12, <1>13, <1>14 DEF NewInv

\* or makes a deeper call.
LEMMA CallInv ==
  ASSUME NEW T \in Begins, NewInv(T), NEW at, NEW at2, New!At(at),
         \/ at = "descend" /\ at2 = "drift"
         \/ at = "again" /\ at2 = "end" /\ deep # 0,
         deep < uRungMax,
         New!Call([New!top EXCEPT !.at = at2]),
         UNCHANGED <<x, v, rung, open, root, fix, dTime, uRungMax, iRungDT, pc, iStep, kickOpen, due, cone, arg>>
  PROVE  \E T2 \in Begins : NewInv(T2)'
<1> DEFINE e == [New!top EXCEPT !.at = at2]
<1>1. New!Call(e)
  OBVIOUS
<1>2. /\ NewTypes /\ NewShape /\ NewRungs /\ NewBegins(T) /\ NewNow(T)
      /\ NewPositions(T) /\ NewVelocities(T) /\ NewFlags
      /\ stack # <<>> /\ New!top.at = at /\ pc = "step" /\ New!top = stack[deep + 1]
      /\ deep \in Nat /\ deep \in Rung /\ deep <= uRungMax /\ New!top \in NewFrames /\ New!top.uRung = deep
      /\ iRungDT \in Nat /\ uRungMax \in Nat
      /\ T[deep] \in Int /\ S(deep) \in Nat
  BY NewAt
<1>3. /\ e \in NewFrames /\ e.uRung = deep /\ e.at = at2
      /\ e.bDualTree = New!top.bDualTree /\ e.dTimeFixed = New!top.dTimeFixed
  BY <1>2 DEF NewFrames, Before
<1> HIDE DEF e
<1>4. Waiting(T) => e.bDualTree
  BY <1>2, <1>3 DEF Waiting
<1>6. ~Ended
  BY <1>2 DEF Ended
<1>7. NewRungs'
  BY <1>2 DEF NewRungs, New!RungDT
<1>8. deep + 1 \in Rung
  <2>1. uRungMax \in Rung
    BY <1>2 DEF NewTypes
  <2>2. uRungMax <= MaxRung - 1 /\ MaxRung \in Nat
    BY <2>1, MaxRungType DEF Rung
  <2>3. deep + 1 <= MaxRung - 1 /\ deep + 1 \in Nat
    BY <1>2, <2>2
  <2> QED
    BY <2>2, <2>3 DEF Rung
<1>9. \E T2 \in Begins : NewInv(T2)'
  <2>2. PICK T2 : T2 = [T EXCEPT ![deep + 1] = dTime]
    OBVIOUS
  <2>3. /\ stack' \in Seq(NewFrames) /\ stack' # <<>> /\ deep' = deep + 1
        /\ New!top' = [uRung |-> deep + 1, bDualTree |-> e.bDualTree, dTimeFixed |-> -1, at |-> "start"]
        /\ stack'[deep + 2] = New!top'
        /\ \A u \in 0..deep : stack'[u + 1] = IF u = deep THEN e ELSE stack[u + 1]
    BY <1>1, <1>8, <1>2, <1>3, NewCall
  <2>4. \/ New!top.at = "descend" /\ e.at = "drift" /\ dTime = T[deep]
        \/ New!top.at = "again" /\ e.at = "end" /\ dTime = T[deep] + S(deep)
    BY <1>2, <1>3 DEF NewNow
  <2>5. PICK n : n = deep + 1
    OBVIOUS
  <2>6. T2 \in Begins /\ NewBegins(T2)' /\ T2[deep + 1] = dTime /\ \A u \in 0..deep : T2[u] = T[u]
    <3>2. NewTypes /\ NewShape /\ stack # <<>> /\ NewBegins(T) /\ deep + 1 \in Rung /\ e \in NewFrames /\ e.uRung = deep /\ New!Call(e) /\ iStep' = iStep
      BY <1>1, <1>2, <1>3, <1>8
    <3> QED
      <4>1. NewBegins(T2)' /\ T2 \in Begins
        BY <2>4, <3>2, <2>2, <2>5, BeginsCall
      <4>2. T2[deep + 1] = dTime /\ (\A u \in 0..deep : T2[u] = T[u])
        BY <3>2, <2>2, <1>2 DEF Begins
      <4> QED
        BY <4>1, <4>2
  <2>7. NewTypes'
    BY <1>1, <1>2, <2>3 DEF NewTypes
  <2>8. NewShape'
    BY <1>1, <1>2, <1>3, <1>8, ShapeCall
  <2>9. NewClock(T2)'
    <3>1. NewNow(T2)'
      <4>1. dTime' = T2[deep']
        BY <1>1, <2>3, <2>6
      <4> QED
        BY <4>1, <2>3 DEF NewNow
    <3> QED
      BY <2>3, <2>6, <3>1 DEF NewClock
  <2>10. NewPositions(T2)'
    <3>1. CASE Sync
      BY <1>1, <3>1 DEF NewPositions, Sync
    <3>2. CASE Waiting(T)
      <4>1. iRungDT + 1 \in 0..deep /\ iRungDT + 1 + 1 = iRungDT + 2 /\ iRungDT < deep'
        BY <3>2, <1>2, <2>3 DEF Waiting
      <4>2. stack'[iRungDT + 2] = IF iRungDT + 1 = deep THEN e ELSE stack[iRungDT + 2]
        BY <4>1, <2>3
      <4>3. iRungDT + 1 = deep => stack[iRungDT + 2] = New!top
        BY <4>1, <1>2
      <4>4. /\ stack'[iRungDT + 2].dTimeFixed = T[iRungDT + 1] + H(iRungDT)
            /\ stack'[iRungDT + 2].at # "start"
        BY <4>2, <4>3, <3>2, <1>3 DEF Waiting
      <4>5. ASSUME NEW u \in 0..deep', u > iRungDT PROVE stack'[u + 1].bDualTree
        <5>1. CASE u = deep + 1
          <6>1. u + 1 = deep + 2
            BY <5>1, <1>2
          <6> QED
            BY <6>1, <2>3, <1>4, <3>2
        <5>2. CASE u # deep + 1
          <6>1. u \in 0..deep
            BY <5>2, <2>3, <1>2
          <6> QED
            BY <6>1, <4>5, <2>3, <1>4, <3>2 DEF Waiting
        <5> QED
          BY <5>1, <5>2
      <4>6. T2[iRungDT + 1] = T[iRungDT + 1]
        BY <4>1, <2>6
      <4>7. Split'
        BY <3>2, <1>1 DEF Waiting, Split
      <4>8. \A p \in fix' : x'[p] = T2[iRungDT + 1] + H(iRungDT)
        BY <3>2, <1>1, <4>6 DEF Waiting
      <4>9. Waiting(T2)'
        BY <1>1, <2>3, <4>1, <4>4, <4>5, <4>6, <4>7, <4>8 DEF Waiting
      <4> QED
        BY <4>9 DEF NewPositions
    <3> QED
      BY <1>2, <1>6, <3>1, <3>2 DEF NewPositions
  <2>11. NewVelocities(T2)'
    <3>1. \A r \in Rung : StepEnd(T2, r)' = StepEnd(T, r)
      BY <1>1, <1>2, <1>3, <1>8, <2>2, <2>4, EndsCall
    <3> QED
      BY <1>1, <1>2, <3>1, VelocitiesStay
  <2>12. NewFlags'
    <3>1. ~AllKicked /\ ~AllKicked'
      <4>1. New!top'.at = "start"
        BY <2>3
      <4> QED
        BY <1>2, <4>1 DEF AllKicked
    <3> QED
      BY <1>1, <1>2, <2>3, <3>1, FlagsStay
  <2>13. NewInv(T2)'
    BY <1>7, <2>7, <2>8, <2>9, <2>10, <2>11, <2>12 DEF NewInv
  <2> QED
    BY <2>6, <2>13
<1> QED
  BY <1>9

\* The first call for the next rung, if there is one.
LEMMA DescendInv ==
  ASSUME NEW T \in Begins, NewInv(T), New!Descend
  PROVE  \E T2 \in Begins : NewInv(T2)'
<1>1. /\ New!At("descend")
      /\ IF New!top.uRung < uRungMax THEN New!Call([New!top EXCEPT !.at = "drift"])
         ELSE New!GoOn([New!top EXCEPT !.at = "drift"])
      /\ UNCHANGED <<x, v, rung, open, root, fix, dTime, uRungMax, iRungDT, pc, iStep, kickOpen, due, cone, arg>>
  BY DEF New!Descend, New!leapVars
<1>2. New!top.uRung = deep /\ deep <= uRungMax /\ deep \in Nat /\ uRungMax \in Nat
  BY <1>1, NewAt
<1>3. CASE deep < uRungMax
  BY <1>1, <1>2, <1>3, CallInv
<1>4. CASE ~ (deep < uRungMax)
  <2>1. deep = uRungMax
    BY <1>2, <1>4
  <2>2. NewInv(T)'
    BY <1>1, <1>2, <1>4, <2>1, GoOnInv
  <2> QED
    BY <2>2
<1> QED
  BY <1>3, <1>4

\* The second.
LEMMA AgainInv ==
  ASSUME NEW T \in Begins, NewInv(T), New!Again
  PROVE  \E T2 \in Begins : NewInv(T2)'
<1>1. /\ New!At("again")
      /\ IF New!top.uRung # 0 /\ New!top.uRung < uRungMax THEN New!Call([New!top EXCEPT !.at = "end"])
         ELSE New!GoOn([New!top EXCEPT !.at = "end"])
      /\ UNCHANGED <<x, v, rung, open, root, fix, dTime, uRungMax, iRungDT, pc, iStep, kickOpen, due, cone, arg>>
  BY DEF New!Again, New!leapVars
<1>2. New!top.uRung = deep /\ deep <= uRungMax /\ deep \in Nat /\ uRungMax \in Nat
  BY <1>1, NewAt
<1>3. CASE deep # 0 /\ deep < uRungMax
  BY <1>1, <1>2, <1>3, CallInv
<1>4. CASE ~ (deep # 0 /\ deep < uRungMax)
  <2>1. deep = 0 \/ deep = uRungMax
    BY <1>2, <1>4
  <2>2. NewInv(T)'
    BY <1>1, <1>2, <1>4, <2>1, GoOnInv
  <2> QED
    BY <2>2
<1> QED
  BY <1>3, <1>4

\* The drift of the deepest rung in use; the trees come together again where the slow rungs take part.
LEMMA DriftStepInv ==
  ASSUME NEW T \in Begins, NewInv(T), New!DriftStep
  PROVE  NewInv(T)'
<1> DEFINE e == [New!top EXCEPT !.at = "gravity"]
<1>1. /\ New!At("drift") /\ New!GoOn(e)
      /\ x' = [p \in NewParticles |-> IF p \in (IF New!top.bDualTree THEN root ELSE NewParticles) THEN x[p] + S(uRungMax) ELSE x[p]]
      /\ arg' = dTime
      /\ dTime' = dTime + S(uRungMax)
      /\ IF New!top.bDualTree /\ New!top.uRung > iRungDT THEN UNCHANGED <<root, fix>> ELSE root' = NewParticles /\ fix' = {}
      /\ UNCHANGED <<v, rung, open, uRungMax, iRungDT, pc, iStep, kickOpen, due, cone>>
  BY HalfIs DEF New!DriftStep, New!Drift, New!InDualTree
<1>2. /\ NewTypes /\ NewShape /\ NewRungs /\ NewBegins(T) /\ NewNow(T)
      /\ NewPositions(T) /\ NewVelocities(T) /\ NewFlags
      /\ stack # <<>> /\ New!top.at = "drift" /\ pc = "step" /\ New!top = stack[deep + 1]
      /\ deep \in Nat /\ deep <= uRungMax /\ New!top \in NewFrames /\ New!top.uRung = deep /\ iRungDT \in Nat
      /\ S(uRungMax) \in Nat /\ dTime \in Int /\ T[deep] \in Int /\ S(deep) \in Nat
      /\ ~kickOpen /\ ~due
  BY <1>1, NewAt DEF Before
<1>3. /\ e \in NewFrames /\ e.uRung = deep /\ e.at = "gravity"
      /\ e.bDualTree = New!top.bDualTree /\ e.dTimeFixed = New!top.dTimeFixed
  BY <1>2 DEF NewFrames, Before
<1> HIDE DEF e
<1>4. stack' \in Seq(NewFrames) /\ stack' # <<>> /\ deep' = deep /\ New!top' = e
  BY <1>1, <1>2, <1>3, NewGoOn
<1>5. NewTypes'
  <2>1. x' \in [NewParticles -> Int]
    BY <1>1, <1>2 DEF NewTypes
  <2>2. root' \subseteq NewParticles /\ fix' \subseteq NewParticles
    BY <1>1, <1>2 DEF NewTypes
  <2>3. dTime' \in Int /\ arg' \in Int
    BY <1>1, <1>2
  <2> QED
    BY <1>1, <1>2, <1>4, <2>1, <2>2, <2>3 DEF NewTypes
<1>6. NewShape'
  BY <1>1, <1>2, <1>3, ShapeGoOn
<1>7. NewRungs'
  BY <1>1, <1>2 DEF NewRungs, New!RungDT
<1>8. NewClock(T)'
  <2>1. NewBegins(T)'
    BY <1>1, <1>2, <1>3, BeginsGoOn
  <2>2. dTime' = T[deep] + S(deep)
    <3>1. dTime = T[deep] + S(deep) - S(uRungMax)
      BY <1>2 DEF NewNow
    <3> QED
      BY <3>1, <1>1, <1>2
  <2>3. NewNow(T)'
    BY <1>3, <1>4, <2>2 DEF NewNow
  <2> QED
    BY <1>4, <2>1, <2>3 DEF NewClock
<1>9. NewPositions(T)'
  <2>1. CASE Sync
    <3>1. root' = NewParticles /\ fix' = {}
      BY <1>1, <2>1 DEF Sync
    <3>2. \A p \in NewParticles : x'[p] = dTime'
      BY <1>1, <2>1 DEF Sync
    <3> QED
      BY <3>1, <3>2 DEF NewPositions, Sync
  <2>2. CASE Waiting(T)
    <3>1. New!top.bDualTree /\ deep > iRungDT
      BY <1>2, <2>2 DEF Waiting
    <3>2. UNCHANGED <<root, fix>>
      BY <1>1, <1>2, <3>1
    <3>3. fix = {p \in NewParticles : rung'[p] <= iRungDT} /\ root = NewParticles \ fix /\ (\A p \in root : x[p] = dTime)
      BY <2>2, <1>1 DEF Waiting, Split
    <3>4. (\A p \in fix : x'[p] = x[p]) /\ (\A p \in root : x'[p] = dTime')
      BY <1>1, <3>1, <3>3
    <3>5. Waiting(T)'
      BY <1>1, <1>2, <1>3, <2>2, <3>1, <3>2, <3>3, <3>4, WaitingGoOn
    <3> QED
      BY <3>5 DEF NewPositions
  <2>3. CASE Ended
    <3>1. New!top.bDualTree /\ ~ (deep > iRungDT)
      BY <1>2, <2>3 DEF Ended
    <3>2. root' = NewParticles /\ fix' = {}
      BY <1>1, <1>2, <3>1
    <3>3. ASSUME NEW p \in NewParticles PROVE x'[p] = dTime'
      <4>1. CASE p \in root
        BY <4>1, <1>1, <3>1, <2>3 DEF Ended, Split
      <4>2. CASE p \notin root
        <5>1. p \in fix
          BY <4>2, <2>3 DEF Ended, Split
        <5> QED
          BY <4>2, <5>1, <1>1, <3>1, <2>3 DEF Ended
      <4> QED
        BY <4>1, <4>2
    <3> QED
      BY <3>2, <3>3 DEF NewPositions, Sync
  <2> QED
    BY <1>2, <2>1, <2>2, <2>3 DEF NewPositions
<1>10. NewVelocities(T)'
  <2>1. \A r \in Rung : r <= uRungMax => StepEnd(T, r)' = StepEnd(T, r)
    BY <1>1, <1>2, <1>3, EndsGoOn
  <2> QED
    BY <1>1, <1>2, <2>1, VelocitiesStay
<1>11. NewFlags'
  <2>1. ~AllKicked /\ ~AllKicked'
    BY <1>2, <1>3, <1>4 DEF AllKicked
  <2> QED
    BY <1>1, <1>2, <1>4, <2>1, FlagsStay
<1> QED
  BY <1>5, <1>6, <1>7, <1>8, <1>9, <1>10, <1>11 DEF NewInv

\* A call returns: the parts of the invariant that the particles have no say in.
LEMMA ReturnInv ==
  ASSUME NEW T \in Begins, NewInv(T), New!At("end"), New!Return, x' \in [NewParticles -> Int], arg' \in Int,
         UNCHANGED <<v, rung, open, root, fix, dTime, uRungMax, iRungDT, pc, iStep, kickOpen, due, cone>>,
         NewPositions(T)', deep = 0 => Sync'
  PROVE  NewInv(T)'
<1>2. /\ NewTypes /\ NewShape /\ NewRungs /\ NewBegins(T) /\ NewNow(T)
      /\ NewVelocities(T) /\ NewFlags
      /\ stack # <<>> /\ New!top.at = "end" /\ pc = "step" /\ New!top = stack[deep + 1]
      /\ deep \in Nat /\ deep <= uRungMax /\ New!top \in NewFrames
      /\ dTime \in Int /\ T[deep] \in Int /\ S(deep) \in Nat
  BY NewAt
<1>3. /\ stack' \in Seq(NewFrames)
      /\ deep = 0 => stack' = <<>>
      /\ deep # 0 => stack' # <<>> /\ deep' = deep - 1
                     /\ New!top' = [stack[deep] EXCEPT !.bDualTree = New!top.bDualTree]
  BY <1>2, NewReturn
<1>4. ASSUME deep # 0
      PROVE  /\ deep - 1 \in 0..deep /\ deep - 1 # deep /\ deep - 1 + 1 = deep
             /\ New!top'.at = "drift" \/ (New!top'.at = "end" /\ deep - 1 # 0)
             /\ New!top'.at = stack[deep].at
  <2>1. deep - 1 \in 0..deep /\ deep - 1 # deep /\ deep - 1 + 1 = deep
    BY <1>2, <1>4
  <2>2. stack[deep] \in NewFrames /\ (stack[deep].at = "drift" \/ (stack[deep].at = "end" /\ deep - 1 # 0))
    BY <1>2, <2>1, NewCalls
  <2>3. New!top'.at = stack[deep].at
    BY <2>2, <1>3, <1>4 DEF NewFrames
  <2> QED
    BY <2>1, <2>2, <2>3
<1>5. NewTypes'
  BY <1>2, <1>3 DEF NewTypes
<1>6. NewShape'
  BY <1>2, ShapeReturn
<1>7. NewRungs'
  BY <1>2 DEF NewRungs, New!RungDT
<1>8. NewClock(T)'
  <2>1. CASE deep = 0
    <3>1. dTime = T[0] + S(0) /\ T[0] = iStep * S(0)
      BY <1>2, <2>1 DEF NewNow, NewBegins
    <3>2. S(0) \in Nat /\ iStep \in Nat
      BY <1>2, <2>1 DEF NewTypes
    <3>3. dTime = (iStep + 1) * S(0)
      BY <3>1, <3>2
    <3>4. stack' = <<>>
      BY <1>3, <2>1
    <3> QED
      BY <3>3, <3>4, <1>2 DEF NewClock
  <2>2. CASE deep # 0
    <3>1. NewBegins(T)'
      BY <1>2, <2>2, BeginsReturn
    <3>2. PICK m : m = deep - 1
      OBVIOUS
    <3>3. T[deep] + S(m) = Deadline(T, m) /\ S(m) = 2 * S(deep) /\ T[m] \in Int /\ S(m) \in Nat
      BY <1>2, <1>4, <2>2, <3>2, Chain
    <3>4. Deadline(T, m) = IF stack[deep].at \in Before THEN T[m] + S(m) ELSE T[m] + 2 * S(m)
      BY <1>4, <2>2, <3>2 DEF Deadline
    <3>5. dTime = T[deep] + 2 * S(deep) - S(uRungMax)
      BY <1>2, <2>2 DEF NewNow
    <3>6. S(uRungMax) \in Nat
      BY <1>2, StepHalves DEF NewTypes
    <3>7. dTime = Deadline(T, m) - S(uRungMax)
      BY <3>3, <3>5, <3>6, <1>2
    <3>8. CASE New!top'.at = "drift"
      <4>1. dTime' = T[deep'] + S(deep') - S(uRungMax')
        <5>1. Deadline(T, m) = T[m] + S(m)
          BY <3>4, <3>8, <1>4, <2>2 DEF Before
        <5>2. deep' = m
          BY <1>3, <2>2, <3>2
        <5>3. dTime' = dTime /\ uRungMax' = uRungMax
          OBVIOUS
        <5>4. T[deep'] = T[m] /\ S(deep') = S(m) /\ S(uRungMax') = S(uRungMax)
          BY <5>2, <5>3
        <5>5. dTime' = T[m] + S(m) - S(uRungMax)
          <6>1. PICK t \in Int : t = T[m]
            BY <3>3
          <6>2. PICK b \in Int : b = S(m)
            BY <3>3
          <6>3. PICK c \in Int : c = S(uRungMax)
            BY <3>6
          <6>4. PICK y \in Int : y = Deadline(T, m)
            BY <3>4, <3>3
          <6>5. y = t + b
            BY <6>1, <6>2, <6>4, <5>1
          <6>6. dTime = y - c
            BY <6>3, <6>4, <3>7
          <6>7. dTime = t + b - c
            BY <6>5, <6>6
          <6> QED
            BY <6>1, <6>2, <6>3, <6>7, <5>3
        <5> QED
          BY <5>4, <5>5
      <4> QED
        BY <4>1, <3>8, <3>1, <1>3, <2>2 DEF NewClock, NewNow
    <3>9. CASE New!top'.at = "end" /\ deep - 1 # 0
      <4>1. dTime' = T[deep'] + 2 * S(deep') - S(uRungMax') /\ deep' # 0
        <5>1. Deadline(T, m) = T[m] + 2 * S(m)
          BY <3>4, <3>9, <1>4, <2>2 DEF Before
        <5>2. deep' = m
          BY <1>3, <2>2, <3>2
        <5>3. dTime' = dTime /\ uRungMax' = uRungMax
          OBVIOUS
        <5>4. T[deep'] = T[m] /\ S(deep') = S(m) /\ S(uRungMax') = S(uRungMax)
          BY <5>2, <5>3
        <5>5. dTime' = T[m] + 2 * S(m) - S(uRungMax)
          <6>1. PICK t \in Int : t = T[m]
            BY <3>3
          <6>2. PICK b \in Int : b = S(m)
            BY <3>3
          <6>3. PICK c \in Int : c = S(uRungMax)
            BY <3>6
          <6>4. PICK y \in Int : y = Deadline(T, m)
            BY <3>4, <3>3
          <6>5. y = t + 2 * b
            BY <6>1, <6>2, <6>4, <5>1
          <6>6. dTime = y - c
            BY <6>3, <6>4, <3>7
          <6>7. dTime = t + 2 * b - c
            BY <6>5, <6>6
          <6> QED
            BY <6>1, <6>2, <6>3, <6>7, <5>3
        <5>6. deep' # 0
          BY <5>2, <3>9, <3>2
        <5> QED
          BY <5>4, <5>5, <5>6
      <4> QED
        BY <4>1, <3>9, <3>1, <1>3, <2>2 DEF NewClock, NewNow
    <3> QED
      BY <2>2, <3>8, <3>9, <1>4
  <2> QED
    BY <2>1, <2>2
<1>9. NewVelocities(T)'
  <2>1. \A r \in Rung : r <= uRungMax => StepEnd(T, r)' = StepEnd(T, r)
    BY <1>2, EndsReturn
  <2> QED
    BY <1>2, <2>1, VelocitiesStay
<1>10. NewFlags'
  <2>1. CASE deep = 0
    <3>1. stack' = <<>> /\ AllKicked
      BY <1>2, <1>3, <2>1 DEF AllKicked
    <3> QED
      BY <3>1, <1>2, <2>1 DEF NewFlags
  <2>2. CASE deep # 0
    <3>1. ~AllKicked
      BY <2>2 DEF AllKicked
    <3>2. ~AllKicked'
      <4>1. deep' # 0 \/ New!top'.at = "drift"
        BY <1>3, <1>4, <2>2
      <4> QED
        BY <4>1 DEF AllKicked
    <3> QED
      BY <3>1, <3>2, <2>2, <1>2, <1>3, FlagsStay
  <2> QED
    BY <2>1, <2>2
<1> QED
  BY <1>5, <1>6, <1>7, <1>8, <1>9, <1>10 DEF NewInv

\* The fixed tree goes to the end of its step only when it is there.
LEMMA EndDualWaits ==
  ASSUME NEW T \in Begins, NewInv(T), New!EndDual
  PROVE  /\ deep = iRungDT + 1 /\ New!top.bDualTree
         /\ \/ Sync /\ x' = x
            \/ /\ Waiting(T)
               /\ \A p \in fix : /\ x[p] = arg' /\ x[p] = T[deep] + H(iRungDT)
                                 /\ x'[p] = x[p] + H(iRungDT)
               /\ \A p \in NewParticles : p \notin fix => x'[p] = x[p]
               /\ arg' \in Int
<1>1. /\ New!At("end") /\ New!top.bDualTree /\ New!top.uRung = iRungDT + 1
      /\ x' = [p \in NewParticles |-> IF p \in fix THEN x[p] + H(iRungDT) ELSE x[p]] /\ arg' = New!top.dTimeFixed
  BY HalfIs DEF New!EndDual, New!EndsDual, New!Drift
<1>2. /\ NewTypes /\ NewPositions(T) /\ New!top = stack[deep + 1] /\ deep \in Nat /\ New!top.uRung = deep
      /\ New!top \in NewFrames /\ iRungDT \in Nat
  BY <1>1, NewAt
<1>3. deep = iRungDT + 1 /\ stack[iRungDT + 2] = New!top /\ ~ (deep <= iRungDT)
  <2>1. deep = iRungDT + 1
    BY <1>1, <1>2
  <2> QED
    BY <2>1, <1>2
<1>4. CASE Sync
  <2>1. x' = x
    BY <1>1, <1>2, <1>4 DEF Sync, NewTypes
  <2> QED
    BY <1>1, <1>3, <1>4, <2>1
<1>5. CASE Waiting(T)
  <2>1. arg' = T[deep] + H(iRungDT) /\ \A p \in fix : x[p] = T[deep] + H(iRungDT)
    BY <1>1, <1>3, <1>5 DEF Waiting
  <2>2. fix \subseteq NewParticles /\ arg' \in Int
    BY <1>1, <1>2 DEF NewTypes, NewFrames
  <2> QED
    BY <1>1, <1>3, <1>5, <2>1, <2>2
<1>6. ~Ended
  BY <1>3 DEF Ended
<1> QED
  BY <1>2, <1>4, <1>5, <1>6 DEF NewPositions

\* The slow particles come to the end of their step.
LEMMA EndDualInv ==
  ASSUME NEW T \in Begins, NewInv(T), New!EndDual
  PROVE  NewInv(T)'
<1>1. /\ New!At("end") /\ New!top.uRung = iRungDT + 1 /\ New!Return
      /\ x' = [p \in NewParticles |-> IF p \in fix THEN x[p] + H(iRungDT) ELSE x[p]] /\ arg' = New!top.dTimeFixed
      /\ UNCHANGED <<v, rung, open, root, fix, dTime, uRungMax, iRungDT, pc, iStep, kickOpen, due, cone>>
  BY HalfIs DEF New!EndDual, New!EndsDual, New!Drift
<1>2. /\ NewTypes /\ NewShape /\ NewNow(T) /\ stack # <<>> /\ New!top.at = "end" /\ NewBegins(T)
      /\ deep \in Nat /\ New!top \in NewFrames /\ iRungDT \in Nat /\ H(iRungDT) \in Nat /\ dTime \in Int
      /\ T[deep] \in Int /\ S(deep) \in Nat /\ S(uRungMax) \in Nat
  BY <1>1, NewAt
<1>3. deep = iRungDT + 1 /\ New!top.bDualTree /\ deep # 0
  BY <1>2, EndDualWaits
<1>4. x' \in [NewParticles -> Int] /\ arg' \in Int
  BY <1>1, <1>2 DEF NewTypes, NewFrames
<1>5. NewPositions(T)'
  <2>1. CASE Sync /\ x' = x
    BY <1>1, <2>1 DEF NewPositions, Sync
  <2>2. CASE /\ Waiting(T)
             /\ \A p \in fix : x[p] = T[deep] + H(iRungDT) /\ x'[p] = x[p] + H(iRungDT)
             /\ \A p \in NewParticles : p \notin fix => x'[p] = x[p]
    <3>1. iRungDT \in 0..deep /\ iRungDT # deep /\ iRungDT + 1 = deep
      BY <1>2, <1>3
    <3>2. S(iRungDT) = 2 * S(deep) /\ S(iRungDT) = 2 * H(iRungDT)
      <4>1. S(iRungDT) = 2 * S(deep)
        BY <3>1, <1>2, Chain
      <4> QED
        BY <4>1 DEF S
    <3>3. dTime = T[deep] + 2 * S(deep) - S(uRungMax)
      BY <1>2, <1>3 DEF NewNow
    <3>4. \A p \in fix : x'[p] = dTime + S(uRungMax)
      <4>1. dTime + S(uRungMax) = T[deep] + H(iRungDT) + H(iRungDT)
        <5>1. S(deep) = H(iRungDT)
          BY <3>2, <1>2
        <5> QED
          BY <3>3, <5>1, <1>2
      <4> QED
        BY <2>2, <4>1
    <3>5. Split'
      BY <2>2, <1>1 DEF Waiting, Split
    <3>6. /\ stack' # <<>> /\ deep' = deep - 1
          /\ New!top' = [stack[deep] EXCEPT !.bDualTree = New!top.bDualTree]
      BY <1>1, <1>2, <1>3, NewReturn
    <3>7. stack[deep] \in NewFrames /\ (stack[deep].at = "drift" \/ (stack[deep].at = "end" /\ iRungDT # 0))
      BY <3>1, <1>2, NewCalls
    <3>8. New!top'.at = stack[deep].at /\ New!top'.bDualTree
      BY <3>6, <3>7, <1>3 DEF NewFrames
    <3>9. deep' = iRungDT
      BY <3>6, <1>2, <1>3
    <3>10. Ended'
      <4>1. deep' <= iRungDT'
        BY <1>1, <1>2, <3>9
      <4>2. \A p \in fix' : x'[p] = dTime' + S(uRungMax')
        BY <1>1, <3>4
      <4>3. New!top'.at = "drift" \/ (New!top'.at = "end" /\ deep' # 0)
        BY <3>7, <3>8, <3>9
      <4> QED
        BY <3>5, <3>6, <3>8, <4>1, <4>2, <4>3 DEF Ended
    <3> QED
      BY <3>10 DEF NewPositions
  <2> QED
    BY <2>1, <2>2, EndDualWaits
<1> QED
  BY <1>1, <1>3, <1>4, <1>5, ReturnInv

\* A call that has no tree to bring together returns.
LEMMA EndSingleInv ==
  ASSUME NEW T \in Begins, NewInv(T), New!EndSingle
  PROVE  NewInv(T)'
<1>1. /\ New!At("end") /\ ~ (New!top.bDualTree /\ New!top.uRung = iRungDT + 1) /\ New!Return
      /\ UNCHANGED <<x, v, rung, open, root, fix, dTime, uRungMax, iRungDT, pc, iStep, kickOpen, due, cone, arg>>
  BY DEF New!EndSingle, New!EndsDual, New!leapVars
<1>2. /\ NewTypes /\ NewShape /\ NewPositions(T) /\ stack # <<>> /\ New!top.at = "end" /\ New!top.uRung = deep
      /\ deep \in Nat /\ New!top \in NewFrames /\ iRungDT \in Nat /\ New!top = stack[deep + 1]
  BY <1>1, NewAt
<1>3. x' \in [NewParticles -> Int] /\ arg' \in Int
  BY <1>1, <1>2 DEF NewTypes
<1>4. deep # 0 =>
        /\ stack' # <<>> /\ deep' = deep - 1
        /\ New!top' = [stack[deep] EXCEPT !.bDualTree = New!top.bDualTree]
        /\ stack'[deep] = New!top'
        /\ \A u \in 0..(deep - 2) : stack'[u + 1] = stack[u + 1]
  BY <1>1, <1>2, NewReturn
<1>5. deep # 0 => /\ stack[deep] \in NewFrames
                  /\ stack[deep].at = "drift" \/ (stack[deep].at = "end" /\ deep - 1 # 0)
  <2>1. deep # 0 => deep - 1 \in 0..deep /\ deep - 1 # deep /\ deep - 1 + 1 = deep
    BY <1>2
  <2> QED
    BY <2>1, <1>2, NewCalls
<1>6. deep # 0 => New!top'.at = stack[deep].at /\ New!top'.bDualTree = New!top.bDualTree
                  /\ New!top'.dTimeFixed = stack[deep].dTimeFixed
  BY <1>4, <1>5 DEF NewFrames
<1>7. CASE Sync
  <2>1. Sync'
    BY <1>1, <1>7 DEF Sync
  <2> QED
    BY <2>1, <1>1, <1>3, ReturnInv DEF NewPositions
<1>8. CASE Waiting(T)
  <2>1. \A u \in 0..deep : u > iRungDT => stack[u + 1].bDualTree
    BY <1>8 DEF Waiting
  <2>2. New!top.bDualTree /\ iRungDT < deep
    BY <2>1, <1>2, <1>8 DEF Waiting
  <2>3. iRungDT + 1 < deep /\ deep # 0
    BY <2>2, <1>1, <1>2
  <2>4. iRungDT < deep - 1 /\ iRungDT + 1 \in 0..(deep - 1)
    BY <2>3, <1>2
  <2>5. ASSUME NEW u \in 0..(deep - 1)
        PROVE  /\ stack'[u + 1].at = stack[u + 1].at
               /\ stack'[u + 1].dTimeFixed = stack[u + 1].dTimeFixed
               /\ stack'[u + 1].bDualTree = stack[u + 1].bDualTree \/ (u = deep - 1 /\ stack'[u + 1].bDualTree)
    <3>1. CASE u = deep - 1
      <4>1. u + 1 = deep
        BY <3>1, <1>2
      <4> QED
        BY <3>1, <4>1, <1>4, <1>6, <2>2, <2>3
    <3>2. CASE u # deep - 1
      <4>1. u \in 0..(deep - 2)
        BY <3>2, <1>2
      <4> QED
        BY <4>1, <1>4, <2>3
    <3> QED
      BY <3>1, <3>2
  <2>6. /\ stack'[iRungDT + 2].dTimeFixed = T[iRungDT + 1] + H(iRungDT)
        /\ stack'[iRungDT + 2].at # "start"
    <3>1. iRungDT + 1 + 1 = iRungDT + 2
      BY <1>2
    <3> QED
      BY <3>1, <2>4, <2>5, <1>8 DEF Waiting
  <2>7. \A u \in 0..(deep - 1) : u > iRungDT => stack'[u + 1].bDualTree
    <3>1. \A u \in 0..(deep - 1) : u \in 0..deep
      BY <1>2
    <3> QED
      BY <3>1, <2>1, <2>5
  <2>8. Split'
    BY <1>1, <1>8 DEF Waiting, Split
  <2>9. Waiting(T)'
    <3>1. stack' # <<>> /\ deep' = deep - 1
      BY <1>4, <2>3
    <3>2. \A p \in fix' : x'[p] = T[iRungDT' + 1] + H(iRungDT')
      BY <1>1, <1>8 DEF Waiting
    <3> QED
      BY <1>1, <2>4, <2>6, <2>7, <2>8, <3>1, <3>2 DEF Waiting
  <2> QED
    BY <2>9, <2>3, <1>1, <1>3, ReturnInv DEF NewPositions
<1>9. CASE Ended
  <2>1. deep # 0 /\ deep <= iRungDT /\ New!top.bDualTree
    BY <1>2, <1>9 DEF Ended
  <2>2. Split'
    BY <1>1, <1>9 DEF Ended, Split
  <2>3. Ended'
    <3>1. deep' <= iRungDT' /\ stack' # <<>>
      BY <2>1, <1>1, <1>2, <1>4
    <3>2. New!top'.at = "drift" \/ (New!top'.at = "end" /\ deep' # 0)
      BY <2>1, <1>4, <1>5, <1>6
    <3>3. \A p \in fix' : x'[p] = dTime' + S(uRungMax')
      BY <1>1, <1>9 DEF Ended
    <3> QED
      BY <2>1, <2>2, <3>1, <3>2, <3>3, <1>6 DEF Ended
  <2> QED
    BY <2>1, <2>3, <1>1, <1>3, ReturnInv DEF NewPositions
<1> QED
  BY <1>2, <1>7, <1>8, <1>9 DEF NewPositions

\* Rungs are natural numbers.
LEMMA RungNat == \A r \in Rung : r \in Nat /\ r \in Int /\ r >= 0
BY MaxRungType DEF Rung

\* The greatest of some rungs is one of them.
LEMMA MaxIs ==
  ASSUME NEW N \in Nat, NEW A \in SUBSET (0..N), A # {}
  PROVE  /\ New!Max(A) \in A /\ \A k \in A : k <= New!Max(A)
         /\ Top!Max(A) \in A /\ \A k \in A : k <= Top!Max(A)
<1> DEFINE B == {n \in 0..N : N - n \in A}
<1>1. B \in SUBSET Nat
  OBVIOUS
<1>2. B # {}
  <2>1. PICK k \in A : TRUE
    OBVIOUS
  <2>2. N - k \in 0..N /\ N - (N - k) = k
    BY <2>1
  <2> QED
    BY <2>2, <2>1
<1>3. PICK n \in B : \A j \in B : n <= j
  BY <1>1, <1>2, LeastNatural
<1>4. N - n \in A
  BY <1>3
<1>5. \A k \in A : k <= N - n
  <2>1. ASSUME NEW k \in A PROVE k <= N - n
    <3>1. k \in 0..N
      OBVIOUS
    <3>2. N - k \in 0..N /\ N - (N - k) = k
      BY <3>1
    <3>3. n <= N - k
      BY <3>2, <1>3
    <3> QED
      BY <3>1, <3>3, <1>3
  <2> QED
    BY <2>1
<1>6. \E m \in A : \A k \in A : m >= k
  <2>1. N - n \in Int
    BY <1>3
  <2> QED
    BY <1>4, <1>5, <2>1
<1>7. New!Max(A) \in A /\ \A k \in A : New!Max(A) >= k
  BY <1>6 DEF New!Max
<1>8. Top!Max(A) \in A /\ \A k \in A : Top!Max(A) >= k
  BY <1>6 DEF Top!Max
<1>9. QED
  BY <1>7, <1>8

\* The particles as fast as rung i.
AsFast(r, i) == {p \in NewParticles : r[p] >= i}

\* iRungDT is the deepest rung with more than nDT particles as fast.
LEMMA RungDTIs ==
  ASSUME NEW r
  PROVE  /\ New!RungDT(r) \in Rung
         /\ New!RungDT(r) # 0 => Cardinality(AsFast(r, New!RungDT(r))) > nDT
         /\ \A i \in Rung : i > New!RungDT(r) => ~ (Cardinality(AsFast(r, i)) > nDT)
<1> DEFINE A == {0} \cup {i \in 1..(MaxRung - 1) : Cardinality(AsFast(r, i)) > nDT}
<1>1. MaxRung - 1 \in Nat
  BY MaxRungType
<1>2. New!RungDT(r) = New!Max(A)
  BY SameCardinality DEF New!RungDT, AsFast
<1>3. A \in SUBSET (0..(MaxRung - 1)) /\ A # {}
  BY <1>1
<1>4. New!Max(A) \in A /\ \A k \in A : k <= New!Max(A)
  BY <1>1, <1>3, MaxIs
<1>5. New!Max(A) \in Rung
  BY <1>3, <1>4 DEF Rung
<1>6. ASSUME NEW i \in Rung, i > New!Max(A) PROVE ~ (Cardinality(AsFast(r, i)) > nDT)
  <2>1. New!Max(A) \in Nat /\ i \in Nat
    BY <1>5, <1>1 DEF Rung
  <2>2. i \in 1..(MaxRung - 1)
    BY <2>1, <1>6 DEF Rung
  <2>3. i \notin A
    BY <1>4, <1>6, <2>1
  <2> QED
    BY <2>2, <2>3
<1> QED
  BY <1>2, <1>4, <1>5, <1>6

\* Rungs that change among those deeper than iRungDT leave it as it is.
LEMMA RungDTStays ==
  ASSUME NEW r \in [NewParticles -> Rung], NEW s \in [NewParticles -> Rung], NEW u \in Rung,
         New!RungDT(r) < u,
         \A p \in NewParticles : IF r[p] < u THEN s[p] = r[p] ELSE s[p] >= u
  PROVE  New!RungDT(s) = New!RungDT(r)
<1>1. MaxRung \in Nat /\ MaxRung > 0 /\ nDT \in Nat
  BY MaxRungType
<1>2. ASSUME NEW i \in Rung, i <= u PROVE AsFast(s, i) = AsFast(r, i)
  <2>1. ASSUME NEW p \in NewParticles PROVE s[p] >= i <=> r[p] >= i
    <3>1. s[p] \in Int /\ r[p] \in Int /\ i \in Int /\ u \in Int
      BY DEF Rung
    <3> QED
      BY <3>1, <1>2
  <2> QED
    BY <2>1 DEF AsFast
<1>3. ASSUME NEW i \in Rung, i >= u, NEW t \in {r, s} PROVE ~ (Cardinality(AsFast(t, i)) > nDT)
  <2>1. AsFast(t, i) \subseteq AsFast(t, u)
    <3>1. t \in [NewParticles -> Rung]
      OBVIOUS
    <3>2. \A p \in NewParticles : t[p] \in Int /\ i \in Int /\ u \in Int
      BY <3>1, RungNat
    <3> QED
      BY <3>2, <1>3 DEF AsFast
  <2>2. AsFast(t, u) = AsFast(r, u)
    BY <1>2 DEF Rung
  <2>3. IsFiniteSet(AsFast(r, u))
    <3>1. AsFast(r, u) \subseteq NewParticles
      BY DEF AsFast
    <3> QED
      BY <3>1, ParticleSets, FS_Subset
  <2>4. Cardinality(AsFast(t, i)) <= Cardinality(AsFast(r, u)) /\ Cardinality(AsFast(t, i)) \in Nat /\ Cardinality(AsFast(r, u)) \in Nat
    <3>1. IsFiniteSet(AsFast(t, i))
      BY <2>1, <2>2, <2>3, FS_Subset
    <3> QED
      BY <3>1, <2>1, <2>2, <2>3, FS_Subset, FS_CardinalityType
  <2>5. ~ (Cardinality(AsFast(r, u)) > nDT)
    BY RungDTIs
  <2> QED
    BY <2>4, <2>5, <1>1
<1>4. ASSUME NEW i \in Rung PROVE Cardinality(AsFast(s, i)) > nDT <=> Cardinality(AsFast(r, i)) > nDT
  <2>1. i \in Int /\ u \in Int
    BY DEF Rung
  <2>2. CASE i <= u
    BY <2>2, <1>2
  <2>3. CASE i >= u
    BY <2>3, <1>3
  <2> QED
    BY <2>1, <2>2, <2>3
<1>5. PICK m \in Rung : m = New!RungDT(r)
  BY RungDTIs
<1>6. PICK n \in Rung : n = New!RungDT(s)
  BY RungDTIs
<1>7. m \in Nat /\ n \in Nat
  BY DEF Rung
<1>8. ~ (m > n)
  <2>1. m > n => m # 0
    BY <1>7
  <2>2. m # 0 => Cardinality(AsFast(r, m)) > nDT
    BY <1>5, RungDTIs
  <2>3. m > n => ~ (Cardinality(AsFast(s, m)) > nDT)
    BY <1>6, RungDTIs
  <2> QED
    BY <2>1, <2>2, <2>3, <1>4
<1>9. ~ (n > m)
  <2>1. n > m => n # 0
    BY <1>7
  <2>2. n # 0 => Cardinality(AsFast(s, n)) > nDT
    BY <1>6, RungDTIs
  <2>3. n > m => ~ (Cardinality(AsFast(r, n)) > nDT)
    BY <1>5, RungDTIs
  <2> QED
    BY <2>1, <2>2, <2>3, <1>4
<1> QED
  BY <1>5, <1>6, <1>7, <1>8, <1>9

\* What a gravity calculation for the rungs from u on does to the particles, with or without
\* the closing and the opening kick.
Kicks(u, W, c, o) ==
  /\ x' = x /\ sources' = W
  /\ v' \in [NewParticles -> Int] /\ rung' \in [NewParticles -> Rung] /\ open' \in [NewParticles -> BOOLEAN]
  /\ uRungMax' \in Rung /\ iRungDT' \in Rung /\ u <= uRungMax'
  /\ \A p \in NewParticles : rung[p] < u => v'[p] = v[p] /\ rung'[p] = rung[p] /\ open'[p] = open[p]
  /\ \A p \in NewParticles : rung[p] >= u =>
       /\ rung'[p] >= u /\ open'[p] = o
       /\ v'[p] = v[p] + (IF c THEN H(rung[p]) ELSE 0) + (IF o THEN H(rung'[p]) ELSE 0)
  /\ o => /\ iRungDT' = New!RungDT(rung')
          /\ (\A p \in NewParticles : rung'[p] <= uRungMax') /\ \E p \in NewParticles : rung'[p] = uRungMax'
  /\ ~o => rung' = rung /\ uRungMax' = 0 /\ iRungDT' = iRungDT

\* Gravity does that.
LEMMA GravityResult ==
  ASSUME NewTypes, NEW u \in Rung, NEW W, NEW c \in BOOLEAN, NEW o \in BOOLEAN, New!Gravity(u, W, c, o),
         ~o => u = 0,
         \E p \in NewParticles : rung[p] >= u
  PROVE  Kicks(u, W, c, o)
<1> DEFINE A == {p \in NewParticles : rung[p] >= u}
<1>1. PICK new \in (IF o THEN [A -> u..(MaxRung - 1)] ELSE {[p \in A |-> rung[p]]}) :
        /\ v' = [p \in NewParticles |-> IF p \in A THEN New!Kicked(p, new[p], c, o) ELSE v[p]]
        /\ open' = [p \in NewParticles |-> IF p \in A THEN o ELSE open[p]]
        /\ rung' = [p \in NewParticles |-> IF p \in A THEN new[p] ELSE rung[p]]
        /\ uRungMax' = IF o THEN New!Max({new[p] : p \in A}) ELSE 0
  BY DEF New!Gravity, New!NewRungs, New!Active
<1>2. /\ iRungDT' = (IF o THEN New!RungDT(rung') ELSE iRungDT)
      /\ sources' = W /\ x' = x
  BY DEF New!Gravity
<1>3. MaxRung \in Nat /\ MaxRung > 0 /\ u \in Nat /\ MaxRung - 1 \in Nat /\ 0 \in Rung
  BY MaxRungType DEF Rung
<1>4. \A p \in NewParticles : rung[p] \in Rung /\ rung[p] \in Nat /\ v[p] \in Int /\ open[p] \in BOOLEAN
  <2>1. \A p \in NewParticles : rung[p] \in Rung /\ v[p] \in Int /\ open[p] \in BOOLEAN
    BY DEF NewTypes
  <2> QED
    BY <2>1, RungNat
<1>5. \A p \in A : new[p] \in Rung /\ new[p] \in Nat /\ new[p] >= u
  BY <1>1, <1>3, <1>4 DEF Rung
<1>6. A # {}
  OBVIOUS
<1>7. ASSUME NEW p \in NewParticles
      PROVE  /\ rung'[p] \in Rung /\ v'[p] \in Int /\ open'[p] \in BOOLEAN
             /\ p \notin A => v'[p] = v[p] /\ rung'[p] = rung[p] /\ open'[p] = open[p]
             /\ p \in A => /\ rung'[p] = new[p] /\ open'[p] = o
                           /\ v'[p] = v[p] + (IF c THEN H(rung[p]) ELSE 0) + (IF o THEN H(rung'[p]) ELSE 0)
  <2>1. CASE p \in A
    <3>1. rung'[p] = new[p] /\ open'[p] = o /\ v'[p] = New!Kicked(p, new[p], c, o)
      BY <2>1, <1>1
    <3>2. v'[p] = v[p] + (IF c THEN H(rung[p]) ELSE 0) + (IF o THEN H(rung'[p]) ELSE 0)
      BY <3>1, HalfIs DEF New!Kicked
    <3>3. H(rung[p]) \in Nat /\ H(new[p]) \in Nat
      BY <1>4, <1>5, <2>1, StepHalves
    <3>4. v[p] + (IF c THEN H(rung[p]) ELSE 0) + (IF o THEN H(new[p]) ELSE 0) \in Int
      BY <3>3, <1>4
    <3> QED
      BY <2>1, <3>1, <3>2, <3>4, <1>5
  <2>2. CASE p \notin A
    BY <2>2, <1>1, <1>4
  <2> QED
    BY <2>1, <2>2
<1>8. v' \in [NewParticles -> Int] /\ rung' \in [NewParticles -> Rung] /\ open' \in [NewParticles -> BOOLEAN]
  <2>1. v' = [p \in NewParticles |-> v'[p]] /\ rung' = [p \in NewParticles |-> rung'[p]] /\ open' = [p \in NewParticles |-> open'[p]]
    BY <1>1
  <2> QED
    BY <2>1, <1>7
<1>11. /\ \A p \in NewParticles : rung[p] < u => v'[p] = v[p] /\ rung'[p] = rung[p] /\ open'[p] = open[p]
       /\ \A p \in NewParticles : rung[p] >= u =>
            /\ rung'[p] >= u /\ open'[p] = o
            /\ v'[p] = v[p] + (IF c THEN H(rung[p]) ELSE 0) + (IF o THEN H(rung'[p]) ELSE 0)
  <2>1. ASSUME NEW p \in NewParticles, rung[p] < u PROVE p \notin A
    BY <2>1, <1>3, <1>4
  <2>2. ASSUME NEW p \in NewParticles, rung[p] >= u PROVE p \in A /\ rung'[p] >= u
    BY <2>2, <1>5, <1>7
  <2> QED
    BY <2>1, <2>2, <1>7
<1>9. CASE o
  <2> DEFINE N == {new[p] : p \in A}
  <2>1. N \in SUBSET (0..(MaxRung - 1)) /\ N # {}
    BY <1>5, <1>6 DEF Rung
  <2>2. uRungMax' = New!Max(N)
    BY <1>1, <1>9
  <2>3. uRungMax' \in N /\ \A k \in N : k <= uRungMax'
    BY <2>1, <2>2, <1>3, MaxIs
  <2>4. PICK q \in A : uRungMax' = new[q]
    BY <2>3
  <2>5. uRungMax' \in Rung /\ uRungMax' \in Nat /\ u <= uRungMax' /\ rung'[q] = uRungMax' /\ q \in NewParticles
    BY <2>4, <1>5, <1>7, <1>3
  <2>6. ASSUME NEW p \in NewParticles PROVE rung'[p] <= uRungMax'
    <3>1. CASE p \in A
      BY <3>1, <2>3, <1>7
    <3>2. CASE p \notin A
      BY <3>2, <2>5, <1>3, <1>4, <1>7
    <3> QED
      BY <3>1, <3>2
  <2>7. iRungDT' = New!RungDT(rung') /\ iRungDT' \in Rung
    BY <1>2, <1>9, RungDTIs
  <2> QED
    BY <1>2, <1>8, <1>9, <1>11, <2>5, <2>6, <2>7 DEF Kicks
<1>10. CASE ~o
  <2>1. \A p \in NewParticles : rung'[p] = rung[p]
    BY <1>1, <1>7, <1>10
  <2>2. rung' = rung
    BY <2>1, <1>8 DEF NewTypes
  <2>3. uRungMax' = 0 /\ iRungDT' = iRungDT /\ iRungDT' \in Rung
    BY <1>1, <1>2, <1>10 DEF NewTypes
  <2> QED
    BY <1>2, <1>3, <1>8, <1>10, <1>11, <2>2, <2>3 DEF Kicks
<1> QED
  BY <1>9, <1>10

\* A force calculation ends the steps of the active particles and begins new ones.
LEMMA EndsGravity ==
  ASSUME NewTypes, NewShape, stack # <<>>, NEW T \in Begins, NewBegins(T), NewNow(T),
         NEW e \in NewFrames, New!GoOn(e), iStep' = iStep, dTime' = dTime,
         New!top.at = "gravity", e.at = "again", NEW r \in Rung
  PROVE  /\ r < deep => StepEnd(T, r)' = StepEnd(T, r)
         /\ r >= deep => StepEnd(T, r) = dTime /\ StepEnd(T, r)' = dTime + S(r)
<1>1. /\ deep \in Nat /\ deep' = deep /\ New!top' = e /\ stack' # <<>> /\ New!top \in NewFrames
      /\ New!top = stack[deep + 1] /\ r \in Nat /\ deep \in Rung
  BY NewGoOn, NewCalls, RungNat
<1>2. PICK n : n = deep
  OBVIOUS
<1>3. CASE r < deep
  <2>1. r \in 0..deep /\ r # n /\ r <= deep
    BY <1>1, <1>2, <1>3
  <2>2. Deadline(T, r)' = Deadline(T, r)
    BY <2>1, <1>2, BeginsGoOn
  <2>3. StepEnd(T, r) = Deadline(T, r) /\ StepEnd(T, r)' = Deadline(T, r)'
    BY <1>1, <2>1 DEF StepEnd
  <2> QED
    BY <1>1, <1>3, <2>2, <2>3
<1>4. CASE r = deep
  <2>1. Deadline(T, n)' = T[n] + 2 * S(n)
    BY <1>2, BeginsGoOn DEF Before
  <2>2. StepEnd(T, r) = T[n] + S(n)
    BY <1>1, <1>2, <1>4 DEF StepEnd, Deadline, Before
  <2>3. StepEnd(T, r)' = Deadline(T, n)'
    BY <1>1, <1>2, <1>4 DEF StepEnd
  <2>4. dTime = T[n] + S(n)
    BY <1>2 DEF NewNow
  <2>5. PICK t \in Int, s \in Int : t = T[n] /\ s = S(n)
    BY <1>1, <1>2, StepHalves DEF Begins
  <2>6. t + 2 * s = (t + s) + s
    BY <2>5
  <2> QED
    BY <1>1, <1>2, <1>4, <2>1, <2>2, <2>3, <2>4, <2>5, <2>6
<1>5. CASE r > deep
  <2>1. ~ (r <= deep) /\ ~ (r <= deep')
    BY <1>1, <1>5
  <2>2. StepEnd(T, r) = T[deep] + S(deep)
    BY <2>1 DEF StepEnd
  <2>3. StepEnd(T, r)' = dTime + S(r)
    BY <1>1, <2>1 DEF StepEnd
  <2>4. dTime = T[deep] + S(deep)
    BY DEF NewNow
  <2> QED
    BY <1>1, <1>5, <2>2, <2>3, <2>4
<1> QED
  BY <1>1, <1>3, <1>4, <1>5

\* What GravityStep does.
LEMMA GravityStepIs ==
  ASSUME NEW T \in Begins, NewInv(T), New!GravityStep
  PROVE  \E o \in BOOLEAN :
           /\ Kicks(deep, New!Sources, TRUE, o) /\ (deep # 0 => o)
           /\ kickOpen' = ~o /\ (due' => ~o) /\ due' \in BOOLEAN
           /\ cone' = IF deep # 0 THEN cone ELSE IF o THEN iStep + 2 ELSE 0
<1>1. /\ New!At("gravity")
      /\ \E check \in (IF New!top.uRung = 0 THEN New!CheckForOutput ELSE {[due |-> due, omit |-> FALSE]}) :
           /\ due' = check.due
           /\ kickOpen' = check.omit
           /\ cone' = IF New!top.uRung # 0 THEN cone ELSE IF check.omit THEN 0 ELSE iStep + 2
           /\ New!Gravity(New!top.uRung, New!Sources, TRUE, ~check.omit)
  BY DEF New!GravityStep
<1>2. NewTypes /\ NewRungs /\ deep \in Rung /\ deep \in Nat /\ deep <= uRungMax /\ New!top.uRung = deep /\ ~due /\ ~kickOpen /\ pc = "step"
  BY <1>1, NewAt DEF Before
<1>3. PICK check \in (IF deep = 0 THEN New!CheckForOutput ELSE {[due |-> due, omit |-> FALSE]}) :
           /\ due' = check.due
           /\ kickOpen' = check.omit
           /\ cone' = IF deep # 0 THEN cone ELSE IF check.omit THEN 0 ELSE iStep + 2
           /\ New!Gravity(deep, New!Sources, TRUE, ~check.omit)
  BY <1>1, <1>2
<1>4. check.due \in BOOLEAN /\ check.omit \in BOOLEAN /\ (check.due => check.omit) /\ (deep # 0 => ~check.omit)
  <2>1. CASE deep = 0
    <3>1. check \in [due : BOOLEAN, omit : BOOLEAN] /\ (check.due => check.omit)
      BY <1>3, <2>1 DEF New!CheckForOutput
    <3> QED
      BY <3>1, <2>1
  <2>2. CASE deep # 0
    <3>1. check = [due |-> due, omit |-> FALSE]
      BY <1>3, <2>2
    <3>2. due = FALSE
      BY <1>2 DEF NewTypes
    <3>3. check.due = FALSE /\ check.omit = FALSE
      BY <3>1, <3>2
    <3> QED
      BY <3>3
  <2> QED
    BY <2>1, <2>2
<1>5. \E p \in NewParticles : rung[p] >= deep
  <2>1. PICK p \in NewParticles : rung[p] = uRungMax
    BY <1>2 DEF NewRungs
  <2> QED
    BY <2>1, <1>2
<1>6. PICK o \in BOOLEAN : o = ~check.omit
  BY <1>4
<1>7. New!Gravity(deep, New!Sources, TRUE, o)
  BY <1>3, <1>6
<1>8. Kicks(deep, New!Sources, TRUE, o)
  BY <1>2, <1>4, <1>5, <1>6, <1>7, GravityResult
<1>9. kickOpen' = ~o
  BY <1>3, <1>4, <1>6
<1> QED
  BY <1>3, <1>4, <1>6, <1>8, <1>9

\* The gravity calculation of a call.
LEMMA GravityStepInv ==
  ASSUME NEW T \in Begins, NewInv(T), New!GravityStep
  PROVE  NewInv(T)'
<1> DEFINE e == [New!top EXCEPT !.at = "again"]
<1>1. /\ New!At("gravity") /\ New!GoOn(e)
      /\ UNCHANGED <<root, fix, dTime, pc, iStep, arg>>
  BY DEF New!GravityStep
<1>2. /\ NewTypes /\ NewShape /\ NewRungs /\ NewBegins(T) /\ NewNow(T)
      /\ NewPositions(T) /\ NewVelocities(T) /\ NewFlags
      /\ stack # <<>> /\ New!top.at = "gravity" /\ pc = "step" /\ New!top = stack[deep + 1]
      /\ deep \in Nat /\ deep \in Rung /\ deep <= uRungMax /\ New!top \in NewFrames /\ New!top.uRung = deep /\ iRungDT \in Nat
      /\ dTime \in Int
      /\ ~kickOpen /\ ~due
  BY <1>1, NewAt DEF Before
<1>3. /\ e \in NewFrames /\ e.uRung = deep /\ e.at = "again"
      /\ e.bDualTree = New!top.bDualTree /\ e.dTimeFixed = New!top.dTimeFixed
  BY <1>2 DEF NewFrames, Before
<1> HIDE DEF e
<1>4. stack' \in Seq(NewFrames) /\ stack' # <<>> /\ deep' = deep /\ New!top' = e
  BY <1>1, <1>2, <1>3, NewGoOn
<1>5. PICK o \in BOOLEAN :
        /\ Kicks(deep, New!Sources, TRUE, o) /\ (deep # 0 => o)
        /\ kickOpen' = ~o /\ (due' => ~o) /\ due' \in BOOLEAN
        /\ cone' = IF deep # 0 THEN cone ELSE IF o THEN iStep + 2 ELSE 0
  BY GravityStepIs
<1>6. /\ x' = x
      /\ v' \in [NewParticles -> Int] /\ rung' \in [NewParticles -> Rung] /\ open' \in [NewParticles -> BOOLEAN]
      /\ uRungMax' \in Rung /\ iRungDT' \in Rung /\ deep <= uRungMax'
      /\ \A p \in NewParticles : rung[p] < deep => v'[p] = v[p] /\ rung'[p] = rung[p] /\ open'[p] = open[p]
      /\ \A p \in NewParticles : rung[p] >= deep =>
           /\ rung'[p] >= deep /\ open'[p] = o
           /\ v'[p] = v[p] + H(rung[p]) + (IF o THEN H(rung'[p]) ELSE 0)
      /\ o => /\ iRungDT' = New!RungDT(rung')
              /\ (\A p \in NewParticles : rung'[p] <= uRungMax') /\ \E p \in NewParticles : rung'[p] = uRungMax'
      /\ ~o => rung' = rung /\ uRungMax' = 0 /\ iRungDT' = iRungDT
  BY <1>5 DEF Kicks
<1>7. \A p \in NewParticles : rung[p] \in Rung /\ rung[p] \in Nat /\ rung'[p] \in Rung /\ rung'[p] \in Nat
  BY <1>2, <1>6, RungNat DEF NewTypes
<1>8. NewTypes'
  <2>1. cone' \in Int
    BY <1>2, <1>5 DEF NewTypes
  <2> QED
    BY <1>1, <1>2, <1>4, <1>5, <1>6, <2>1 DEF NewTypes
<1>9. NewShape'
  BY <1>1, <1>2, <1>3, <1>6, ShapeGoOn
<1>10. NewRungs'
  <2>1. iRungDT' = New!RungDT(rung')
    BY <1>2, <1>6 DEF NewRungs
  <2> QED
    BY <2>1, <1>5, <1>6 DEF NewRungs, New!RungDT
<1>11. NewClock(T)'
  <2>1. NewBegins(T)'
    BY <1>1, <1>2, <1>3, BeginsGoOn
  <2>2. NewNow(T)'
    BY <1>1, <1>2, <1>3, <1>4 DEF NewNow
  <2> QED
    BY <1>4, <2>1, <2>2 DEF NewClock
<1>12. NewPositions(T)'
  <2>1. CASE Sync
    BY <1>1, <1>6, <2>1 DEF NewPositions, Sync
  <2>2. CASE Waiting(T)
    <3>1. iRungDT < deep /\ e.bDualTree /\ fix = {p \in NewParticles : rung[p] <= iRungDT} /\ (\A p \in root : x[p] = dTime)
      BY <2>2, <1>2, <1>3 DEF Waiting, Split
    <3>2. o
      BY <3>1, <1>2, <1>5
    <3>3. \A p \in NewParticles : IF rung[p] < deep THEN rung'[p] = rung[p] ELSE rung'[p] >= deep
      BY <1>2, <1>6, <1>7
    <3>4. New!RungDT(rung') = New!RungDT(rung)
      <4>1. rung \in [NewParticles -> Rung] /\ New!RungDT(rung) < deep
        BY <1>2, <3>1 DEF NewTypes, NewRungs
      <4>2. rung' \in [NewParticles -> Rung] /\ deep \in Rung
        BY <1>2, <1>6
      <4> QED
        BY <3>3, <4>1, <4>2, RungDTStays
    <3>5. iRungDT' = iRungDT
      BY <3>2, <3>4, <1>2, <1>6 DEF NewRungs
    <3>6. fix = {p \in NewParticles : rung'[p] <= iRungDT}
      <4>1. ASSUME NEW p \in NewParticles PROVE rung[p] <= iRungDT <=> rung'[p] <= iRungDT
        BY <1>2, <1>7, <3>1, <3>3
      <4> QED
        BY <4>1, <3>1
    <3>7. (\A p \in fix : x'[p] = x[p]) /\ (\A p \in root : x'[p] = dTime')
      BY <1>1, <1>6, <3>1
    <3>8. Waiting(T)'
      BY <1>1, <1>2, <1>3, <2>2, <3>1, <3>5, <3>6, <3>7, WaitingGoOn
    <3> QED
      BY <3>8 DEF NewPositions
  <2>3. CASE Ended
    BY <2>3, <1>2 DEF Ended
  <2> QED
    BY <1>2, <2>1, <2>2, <2>3 DEF NewPositions
<1>13. NewVelocities(T)'
  <2>1. ASSUME NEW p \in NewParticles
        PROVE  IF ~o THEN ~open'[p] /\ v'[p] = dTime ELSE open'[p] /\ v'[p] + H(rung'[p]) = StepEnd(T, rung[p])'
    <3>1. PICK r \in Rung, s \in Rung : r = rung[p] /\ s = rung'[p]
      BY <1>7
    <3>2. open[p] /\ v[p] + H(r) = StepEnd(T, r)
      BY <3>1, <1>2 DEF NewVelocities
    <3>3. StepEnd(T, rung[p])' = StepEnd(T, s)'
      BY <3>1
    <3>4. r \in Nat /\ s \in Nat /\ H(r) \in Nat /\ H(s) \in Nat /\ S(s) = 2 * H(s) /\ v[p] \in Int /\ v'[p] \in Int
      BY <1>2, <1>6, RungNat, StepHalves DEF NewTypes
    <3>5. CASE r < deep
      <4>1. s = r /\ v'[p] = v[p] /\ open'[p] = open[p]
        BY <3>1, <3>5, <1>6
      <4>2. StepEnd(T, s)' = StepEnd(T, r)
        BY <1>1, <1>2, <1>3, <3>5, <4>1, EndsGravity
      <4>3. o
        BY <3>4, <3>5, <1>2, <1>5
      <4> QED
        BY <3>1, <3>2, <3>3, <4>1, <4>2, <4>3
    <3>6. CASE r >= deep
      <4>1. s >= deep /\ open'[p] = o /\ v'[p] = v[p] + H(r) + (IF o THEN H(s) ELSE 0)
        BY <3>1, <3>6, <1>6
      <4>2. StepEnd(T, r) = dTime /\ StepEnd(T, s)' = dTime + S(s)
        BY <1>1, <1>2, <1>3, <3>6, <4>1, EndsGravity
      <4>3. o => v'[p] + H(s) = dTime + S(s)
        BY <3>2, <3>4, <4>1, <4>2
      <4>4. ~o => v'[p] = dTime
        BY <3>2, <3>4, <4>1, <4>2, <1>2
      <4> QED
        BY <3>1, <3>3, <4>1, <4>2, <4>3, <4>4
    <3> QED
      BY <3>4, <3>5, <3>6, <1>2
  <2> QED
    BY <1>1, <1>2, <1>5, <2>1 DEF NewVelocities
<1>14. NewFlags'
  <2>1. AllKicked' <=> deep = 0
    BY <1>3, <1>4 DEF AllKicked
  <2>2. ~AllKicked
    BY <1>2 DEF AllKicked
  <2>3. cone = iStep + 1
    BY <1>2, <2>2 DEF NewFlags
  <2>4. due' => kickOpen' /\ pc' # "top"
    BY <1>1, <1>2, <1>5
  <2>5. kickOpen' => AllKicked'
    BY <1>5, <2>1
  <2>6. ~kickOpen' => cone' = IF AllKicked' THEN iStep + 2 ELSE iStep + 1
    BY <1>5, <2>1, <2>3
  <2> QED
    BY <1>1, <1>2, <1>4, <2>4, <2>5, <2>6 DEF NewFlags
<1> QED
  BY <1>8, <1>9, <1>10, <1>11, <1>12, <1>13, <1>14 DEF NewInv

\* To a state between the calls of NewTopStepKDK.
LEMMA IdleInv ==
  ASSUME NEW T, NewTypes', stack' = <<>>, NewRungs', Sync', NewVelocities(T)',
         dTime' = (IF pc' = "step" THEN iStep' + 1 ELSE iStep') * S(0),
         due' => kickOpen' /\ pc' # "top", kickOpen' => pc' # "init", pc' = "init" => iStep' = 0,
         ~kickOpen' /\ pc' = "top" => cone' = iStep' + 1, ~kickOpen' /\ pc' = "step" => cone' = iStep' + 2
  PROVE  NewInv(T)'
<1>1. Len(stack') = 0
  OBVIOUS
<1>2. deep' = -1 /\ uRungMax' \in Nat
  BY <1>1, RungNat DEF deep, NewTypes
<1>3. NewShape'
  <2>1. 1..Len(stack') = {} /\ 1..(Len(stack') - 1) = {}
    BY <1>1
  <2>2. deep' <= uRungMax'
    BY <1>2
  <2> QED
    BY <2>1, <2>2 DEF NewShape
<1>4. NewClock(T)' /\ NewPositions(T)' /\ NewFlags'
  BY DEF NewClock, NewPositions, NewFlags
<1> QED
  BY <1>3, <1>4 DEF NewInv

\* What is known of a state between the calls.
LEMMA Idle ==
  ASSUME NEW T, NewInv(T), stack = <<>>
  PROVE  /\ NewTypes /\ NewRungs /\ Sync /\ NewVelocities(T) /\ NewShape /\ NewFlags
         /\ dTime = (IF pc = "step" THEN iStep + 1 ELSE iStep) * S(0)
         /\ due => kickOpen /\ pc # "top"
         /\ kickOpen => pc # "init"
         /\ pc = "init" => iStep = 0
         /\ ~kickOpen /\ pc = "top" => cone = iStep + 1
         /\ ~kickOpen /\ pc = "step" => cone = iStep + 2
         /\ iStep \in Nat /\ S(0) \in Nat /\ S(0) > 0 /\ 0 \in Rung
<1>1. NewTypes /\ NewRungs /\ NewVelocities(T) /\ NewShape /\ NewFlags /\ NewClock(T)
  BY DEF NewInv
<1>2. 0 \in Rung
  BY MaxRungType DEF Rung
<1>3. iStep \in Nat /\ S(0) \in Nat /\ S(0) > 0
  BY <1>1, <1>2, StepHalves DEF NewTypes
<1> QED
  BY <1>1, <1>2, <1>3 DEF NewClock, NewFlags

\* The invariant holds of the initial states.
LEMMA NewInit == New!Init => \E T \in Begins : NewInv(T)
<1> SUFFICES ASSUME New!Init PROVE \E T \in Begins : NewInv(T)
  OBVIOUS
<1>1. /\ x = [p \in NewParticles |-> 0] /\ v = [p \in NewParticles |-> 0]
      /\ rung \in [NewParticles -> Rung] /\ open = [p \in NewParticles |-> FALSE]
      /\ root = NewParticles /\ fix = {}
      /\ dTime = 0 /\ uRungMax = 0 /\ iRungDT = 0 /\ stack = <<>>
      /\ pc = "init" /\ iStep = 0 /\ kickOpen = FALSE /\ due = FALSE /\ cone = 0 /\ arg = 0
  BY DEF New!Init, New!Leap!Init, New!Leap!Rung, Rung
<1> DEFINE T == [u \in Rung |-> 0]
<1>2. T \in Begins
  BY DEF Begins
<1> HIDE DEF T
<1>3. 0 \in Rung /\ S(0) \in Nat
  BY MaxRungType, StepHalves DEF Rung
<1>4. NewTypes
  <2>1. x \in [NewParticles -> Int] /\ v \in [NewParticles -> Int] /\ open \in [NewParticles -> BOOLEAN]
    BY <1>1
  <2>2. root \subseteq NewParticles /\ fix \subseteq NewParticles /\ stack \in Seq(NewFrames)
    BY <1>1
  <2>3. dTime \in Int /\ uRungMax \in Rung /\ iRungDT \in Rung /\ iStep \in Nat /\ cone \in Int /\ arg \in Int
    BY <1>1, <1>3
  <2>4. kickOpen \in BOOLEAN /\ due \in BOOLEAN /\ pc \in {"init", "top", "step", "done"} /\ rung \in [NewParticles -> Rung]
    BY <1>1
  <2> QED
    BY <2>1, <2>2, <2>3, <2>4 DEF NewTypes
<1>5. NewRungs /\ Sync /\ NewVelocities(T)
  BY <1>1 DEF NewRungs, Sync, NewVelocities
<1>6. dTime = (IF pc = "step" THEN iStep + 1 ELSE iStep) * S(0)
  BY <1>1, <1>3
<1>7. NewShape
  <2>1. Len(stack) = 0
    BY <1>1
  <2>2. deep = -1 /\ 1..Len(stack) = {} /\ 1..(Len(stack) - 1) = {} /\ deep <= uRungMax
    BY <1>1, <2>1 DEF deep
  <2> QED
    BY <1>1, <2>2 DEF NewShape
<1>8. NewClock(T) /\ NewPositions(T) /\ NewFlags
  BY <1>1, <1>5, <1>6 DEF NewClock, NewPositions, NewFlags
<1> QED
  BY <1>2, <1>4, <1>5, <1>7, <1>8 DEF NewInv

\* The opening kick of all particles.
LEMMA OpeningInv ==
  ASSUME NEW T, NewInv(T), stack = <<>>, stack' = <<>>, pc = "init" \/ kickOpen, pc # "step", pc' = "top",
         NEW W, New!Gravity(0, W, FALSE, TRUE), root' = NewParticles, fix' = {},
         UNCHANGED <<dTime, iStep, arg>>, cone' = iStep + 1, due' = FALSE, kickOpen' = FALSE
  PROVE  NewInv(T)' /\ Kicks(0, W, FALSE, TRUE)
<1>1. /\ NewTypes /\ NewRungs /\ Sync /\ NewVelocities(T)
      /\ dTime = iStep * S(0) /\ iStep \in Nat /\ S(0) \in Nat /\ 0 \in Rung
  BY Idle
<1>2. \A p \in NewParticles : rung[p] \in Nat /\ rung[p] >= 0 /\ v[p] = dTime /\ ~open[p] /\ x[p] = dTime
  BY <1>1, RungNat DEF NewTypes, NewVelocities, Sync
<1>3. Kicks(0, W, FALSE, TRUE)
  <2>1. \E p \in NewParticles : rung[p] >= 0
    BY <1>2, ParticleSets
  <2> QED
    BY <1>1, <2>1, GravityResult
<1>4. /\ x' = x
      /\ v' \in [NewParticles -> Int] /\ rung' \in [NewParticles -> Rung] /\ open' \in [NewParticles -> BOOLEAN]
      /\ uRungMax' \in Rung /\ iRungDT' \in Rung
      /\ \A p \in NewParticles : rung[p] >= 0 => open'[p] = TRUE /\ v'[p] = v[p] + 0 + H(rung'[p])
      /\ iRungDT' = New!RungDT(rung')
      /\ (\A p \in NewParticles : rung'[p] <= uRungMax') /\ \E p \in NewParticles : rung'[p] = uRungMax'
  BY <1>3 DEF Kicks
<1>5. NewTypes'
  <2>1. cone' \in Int /\ pc' \in {"init", "top", "step", "done"} /\ stack' \in Seq(NewFrames)
    BY <1>1
  <2> QED
    BY <1>1, <1>4, <2>1 DEF NewTypes
<1>6. NewRungs' /\ Sync'
  <2>1. iRungDT' = New!RungDT(rung)'
    BY <1>4 DEF New!RungDT
  <2> QED
    BY <1>1, <1>2, <1>4, <2>1 DEF NewRungs, Sync
<1>7. NewVelocities(T)'
  <2>1. ASSUME NEW p \in NewParticles PROVE open'[p] /\ v'[p] + H(rung'[p]) = StepEnd(T, rung[p])'
    <3>1. PICK s \in Rung : s = rung'[p]
      BY <1>4
    <3>2. H(s) \in Nat /\ S(s) = 2 * H(s) /\ dTime \in Int
      BY <1>1, StepHalves DEF NewTypes
    <3>3. v'[p] = dTime + H(s) /\ open'[p]
      BY <1>2, <1>4, <3>1, <3>2
    <3>4. StepEnd(T, s)' = dTime + S(s)
      BY DEF StepEnd
    <3>5. StepEnd(T, rung[p])' = StepEnd(T, s)'
      BY <3>1
    <3> QED
      BY <3>1, <3>2, <3>3, <3>4, <3>5
  <2> QED
    BY <2>1 DEF NewVelocities
<1>8. dTime' = (IF pc' = "step" THEN iStep' + 1 ELSE iStep') * S(0)
  BY <1>1
<1>9. NewInv(T)'
  BY <1>5, <1>6, <1>7, <1>8, IdleInv
<1> QED
  BY <1>3, <1>9

\* The kick that opens the first step of every particle.
LEMMA FirstKickInv ==
  ASSUME NEW T \in Begins, NewInv(T), New!FirstKick
  PROVE  NewInv(T)' /\ stack = <<>> /\ Sync /\ Kicks(0, <<root, {}>>, FALSE, TRUE)
<1>1. /\ pc = "init" /\ pc' = "top" /\ cone' = 1 /\ New!Gravity(0, <<root, {}>>, FALSE, TRUE)
      /\ UNCHANGED <<root, fix, dTime, stack, iStep, kickOpen, due, arg>>
  BY DEF New!FirstKick
<1>2. stack = <<>> /\ iStep = 0
  BY <1>1 DEF NewInv, NewFlags
<1>3. NewTypes /\ Sync /\ (kickOpen => pc # "init") /\ (due => kickOpen)
  BY <1>2, Idle
<1>4. kickOpen' = FALSE /\ due' = FALSE
  BY <1>1, <1>3 DEF NewTypes
<1>5. root' = NewParticles /\ fix' = {} /\ cone' = iStep + 1 /\ stack' = <<>>
  BY <1>1, <1>2, <1>3 DEF Sync
<1> QED
  BY <1>1, <1>2, <1>3, <1>4, <1>5, OpeningInv

\* The kick that opens the steps after an output.
LEMMA KickAgainInv ==
  ASSUME NEW T \in Begins, NewInv(T), New!KickAgain
  PROVE  NewInv(T)' /\ stack = <<>> /\ Sync /\ Kicks(0, <<NewParticles, {}>>, FALSE, TRUE)
<1>1. /\ pc = "top" /\ kickOpen /\ root' = NewParticles /\ fix' = {} /\ cone' = iStep + 1 /\ kickOpen' = FALSE
      /\ New!Gravity(0, <<NewParticles, {}>>, FALSE, TRUE)
      /\ UNCHANGED <<dTime, stack, pc, iStep, due, arg>>
  BY DEF New!KickAgain
<1>2. stack = <<>>
  BY <1>1 DEF NewInv, NewShape
<1>3. NewTypes /\ Sync /\ (due => pc # "top")
  BY <1>2, Idle
<1>4. due' = FALSE
  BY <1>1, <1>3 DEF NewTypes
<1>5. stack' = <<>> /\ pc' = "top" /\ pc # "step"
  BY <1>1, <1>2
<1> QED
  BY <1>1, <1>2, <1>3, <1>4, <1>5, OpeningInv

\* The call for rung 0.
LEMMA TopStepInv ==
  ASSUME NEW T \in Begins, NewInv(T), New!TopStep
  PROVE  \E T2 \in Begins : NewInv(T2)'
<1>1. /\ pc = "top" /\ ~kickOpen /\ pc' = "step" /\ stack' = <<New!Frame(0, FALSE)>>
      /\ UNCHANGED <<x, v, rung, open, root, fix, dTime, uRungMax, iRungDT, iStep, kickOpen, due, cone, arg>>
  BY DEF New!TopStep, New!leapVars
<1>2. stack = <<>>
  BY <1>1 DEF NewInv, NewShape
<1>3. /\ NewTypes /\ NewRungs /\ Sync /\ NewVelocities(T)
      /\ dTime = iStep * S(0) /\ ~due /\ cone = iStep + 1
      /\ iStep \in Nat /\ S(0) \in Nat /\ S(0) > 0 /\ 0 \in Rung
  BY <1>1, <1>2, Idle
<1> DEFINE f == [uRung |-> 0, bDualTree |-> FALSE, dTimeFixed |-> -1, at |-> "start"]
<1>4. New!Frame(0, FALSE) = f /\ f \in NewFrames
  BY <1>3 DEF New!Frame, NewFrames, Before
<1>5. f.uRung = 0 /\ f.at = "start"
  OBVIOUS
<1> HIDE DEF f
<1>6. /\ stack' = <<f>> /\ stack' \in Seq(NewFrames) /\ Len(stack') = 1 /\ stack' # <<>>
      /\ deep' = 0 /\ New!top' = f /\ stack'[0 + 1] = f /\ stack'[1] = f
  <2>1. stack' = <<f>>
    BY <1>1, <1>4
  <2>2. stack' \in Seq(NewFrames) /\ Len(stack') = 1 /\ stack' # <<>> /\ stack'[1] = f
    BY <2>1, <1>4
  <2> QED
    BY <2>1, <2>2 DEF deep, New!top
<1>7. PICK T2 : T2 = [u \in Rung |-> dTime]
  OBVIOUS
<1>8. T2 \in Begins /\ T2[0] = dTime /\ T2[0] = iStep * S(0) /\ dTime \in Int
  BY <1>3, <1>7 DEF Begins, NewTypes
<1>9. Deadline(T2, 0)' = T2[0] + S(0)
  BY <1>5, <1>6 DEF Deadline, Before
<1>10. NewTypes'
  BY <1>1, <1>3, <1>6 DEF NewTypes
<1>11. NewShape'
  <2>1. 1..Len(stack') = {1} /\ 1..(Len(stack') - 1) = {}
    BY <1>6
  <2>2. 0 <= uRungMax
    BY <1>3, RungNat DEF NewTypes
  <2>3. \A i \in 1..Len(stack') : stack'[i].uRung = i - 1
    BY <1>5, <1>6, <2>1
  <2> QED
    BY <1>1, <1>6, <2>1, <2>2, <2>3 DEF NewShape
<1>12. NewRungs'
  BY <1>1, <1>3 DEF NewRungs, New!RungDT
<1>13. NewClock(T2)'
  <2>1. 0..deep' = {0}
    BY <1>6
  <2>2. T2[0] % S(0) = 0
    <3>1. iStep \in Int
      BY <1>3
    <3>2. (iStep * S(0)) % S(0) = 0
      BY <1>3, <3>1, ModProduct
    <3> QED
      BY <1>8, <3>2
  <2>3. T2[0] \in Int /\ T2[0] + S(0) \in Int
    BY <1>3, <1>8
  <2>4. NewBegins(T2)'
    <3>1. T2[0] = iStep' * S(0)
      BY <1>1, <1>8
    <3>2. \A u \in 0..deep' : T2[u] % S(u) = 0 /\ u = deep'
      BY <2>1, <2>2, <1>6
    <3>3. ASSUME NEW u \in 0..deep', NEW w \in 0..deep'
          PROVE  T2[u] <= T2[w] /\ Deadline(T2, w)' <= Deadline(T2, u)'
      <4>1. u = 0 /\ w = 0
        BY <2>1
      <4> QED
        BY <4>1, <1>9, <2>3
    <3> QED
      BY <3>1, <3>2, <3>3 DEF NewBegins
  <2>5. NewNow(T2)'
    BY <1>1, <1>5, <1>6, <1>8 DEF NewNow
  <2> QED
    BY <1>6, <2>4, <2>5 DEF NewClock
<1>14. NewPositions(T2)'
  BY <1>1, <1>3 DEF NewPositions, Sync
<1>15. NewVelocities(T2)'
  <2>1. ASSUME NEW r \in Rung PROVE StepEnd(T2, r)' = StepEnd(T, r)
    <3>1. StepEnd(T, r) = dTime + S(r)
      BY <1>2 DEF StepEnd
    <3>2. CASE r = 0
      <4>1. StepEnd(T2, r)' = Deadline(T2, 0)'
        BY <3>2, <1>6 DEF StepEnd
      <4> QED
        BY <3>1, <3>2, <4>1, <1>8, <1>9
    <3>3. CASE r # 0
      <4>1. ~ (r <= deep')
        BY <3>3, <1>6, RungNat
      <4> QED
        BY <3>1, <4>1, <1>1, <1>5, <1>6 DEF StepEnd
    <3> QED
      BY <3>2, <3>3
  <2> QED
    BY <1>1, <1>3, <2>1, VelocitiesStay
<1>16. NewFlags'
  <2>1. ~AllKicked'
    BY <1>5, <1>6 DEF AllKicked
  <2> QED
    BY <2>1, <1>1, <1>3, <1>6 DEF NewFlags
<1> QED
  BY <1>8, <1>10, <1>11, <1>12, <1>13, <1>14, <1>15, <1>16 DEF NewInv

\* The states before and after Checkpoint and Output are at the same time.
LEMMA WriteInv ==
  ASSUME NEW T \in Begins, NewInv(T), New!Write
  PROVE  NewInv(T)'
<1>1. /\ pc = "step" /\ stack = <<>> /\ iStep' = iStep + 1 /\ due' = FALSE /\ dTime' = (iStep + 1) * S(0)
      /\ pc' \in {"top", "done"}
      /\ UNCHANGED <<x, v, rung, open, root, fix, uRungMax, iRungDT, stack, kickOpen, cone, arg>>
  BY HalfIs DEF New!Write, New!leapVars
<1>2. /\ NewTypes /\ NewRungs /\ Sync /\ NewVelocities(T)
      /\ dTime = (iStep + 1) * S(0) /\ (~kickOpen => cone = iStep + 2)
      /\ iStep \in Nat /\ S(0) \in Nat
  BY <1>1, Idle
<1>3. dTime' = dTime /\ iStep' \in Nat /\ iStep' + 1 = iStep + 2 /\ pc' # "step" /\ pc' # "init" /\ stack' = <<>>
  BY <1>1, <1>2
<1>4. NewTypes'
  BY <1>1, <1>2, <1>3 DEF NewTypes
<1>5. NewRungs' /\ Sync'
  BY <1>1, <1>2, <1>3 DEF NewRungs, New!RungDT, Sync
<1>6. NewVelocities(T)'
  <2>1. \A r \in Rung : StepEnd(T, r)' = StepEnd(T, r)
    BY <1>1, <1>3 DEF StepEnd
  <2> QED
    BY <1>1, <1>2, <1>3, <2>1, VelocitiesStay
<1>7. dTime' = (IF pc' = "step" THEN iStep' + 1 ELSE iStep') * S(0)
  BY <1>1, <1>3
<1> QED
  BY <1>1, <1>2, <1>3, <1>4, <1>5, <1>6, <1>7, IdleInv

\* The last output is written.
LEMMA FinishInv ==
  ASSUME NEW T \in Begins, NewInv(T), New!Finish
  PROVE  NewInv(T)'
<1>1. /\ pc = "top" /\ pc' = "done"
      /\ UNCHANGED <<x, v, rung, open, root, fix, dTime, uRungMax, iRungDT, stack, iStep, kickOpen, due, cone, arg>>
  BY DEF New!Finish, New!leapVars
<1>2. stack = <<>> /\ stack' = <<>>
  BY <1>1 DEF NewInv, NewShape
<1>3. NewTypes /\ NewRungs /\ Sync /\ NewVelocities(T) /\ dTime = iStep * S(0) /\ ~due
  BY <1>1, <1>2, Idle
<1>4. NewTypes' /\ NewRungs' /\ Sync'
  BY <1>1, <1>3 DEF NewTypes, NewRungs, New!RungDT, Sync
<1>5. NewVelocities(T)'
  <2>1. \A r \in Rung : StepEnd(T, r)' = StepEnd(T, r)
    BY <1>1, <1>2 DEF StepEnd
  <2> QED
    BY <1>1, <1>3, <2>1, VelocitiesStay
<1> QED
  BY <1>1, <1>2, <1>3, <1>4, <1>5, IdleInv

\* A step that changes nothing.
LEMMA NewUnchanged ==
  ASSUME NEW T \in Begins, NewInv(T), UNCHANGED New!vars
  PROVE  NewInv(T)'
<1>1. UNCHANGED <<x, v, rung, open, root, fix, dTime, uRungMax, iRungDT, stack, pc, iStep, kickOpen, due, cone, arg>>
  BY DEF New!vars, New!leapVars
<1>2. NewTypes' /\ NewShape' /\ NewRungs'
  BY <1>1 DEF NewInv, NewTypes, NewShape, NewRungs, New!RungDT, deep
<1>3. NewClock(T)'
  BY <1>1 DEF NewInv, NewClock, NewBegins, NewNow, Deadline, New!top, deep
<1>4. NewPositions(T)'
  BY <1>1 DEF NewInv, NewPositions, Sync, Waiting, Ended, Split, New!top, deep
<1>5. NewVelocities(T)'
  BY <1>1 DEF NewInv, NewVelocities, StepEnd, Deadline, New!top, deep
<1>6. NewFlags'
  BY <1>1 DEF NewInv, NewFlags, AllKicked, Sync, New!top, deep
<1> QED
  BY <1>2, <1>3, <1>4, <1>5, <1>6 DEF NewInv

\* Every step of NewKDK keeps the invariant, with the times at which its calls have begun.
LEMMA NewNext ==
  ASSUME NEW T \in Begins, NewInv(T), [New!Next]_New!vars
  PROVE  \E T2 \in Begins : NewInv(T2)'
<1>1. CASE New!StartDual
  BY <1>1, StartDualInv
<1>2. CASE New!StartSingle
  BY <1>2, StartSingleInv
<1>3. CASE New!Descend
  BY <1>3, DescendInv
<1>4. CASE New!DriftStep
  BY <1>4, DriftStepInv
<1>5. CASE New!GravityStep
  BY <1>5, GravityStepInv
<1>6. CASE New!Again
  BY <1>6, AgainInv
<1>7. CASE New!EndDual
  BY <1>7, EndDualInv
<1>8. CASE New!EndSingle
  BY <1>8, EndSingleInv
<1>9. CASE New!FirstKick
  BY <1>9, FirstKickInv
<1>10. CASE New!KickAgain
  BY <1>10, KickAgainInv
<1>11. CASE New!TopStep
  BY <1>11, TopStepInv
<1>12. CASE New!Write
  BY <1>12, WriteInv
<1>13. CASE New!Finish
  BY <1>13, FinishInv
<1>14. CASE New!Done \/ UNCHANGED New!vars
  BY <1>14, NewUnchanged DEF New!Done
<1> QED
  BY <1>1, <1>2, <1>3, <1>4, <1>5, <1>6, <1>7, <1>8, <1>9, <1>10, <1>11, <1>12, <1>13, <1>14 DEF New!Next

------------------------------------------------------------------------------
(* The steps of NewTopStepKDK are what is promised of them *)

\* What is a multiple of a step is one of each deeper rung's.
LEMMA Multiples ==
  ASSUME NEW t \in Int, NEW u \in Rung, t % S(u) = 0, NEW r \in Rung, u <= r
  PROVE  t % S(r) = 0
<1> DEFINE bad == {n \in Rung : u <= n /\ t % S(n) # 0}
<1>1. bad = {}
  <2>1. SUFFICES ASSUME bad # {} PROVE FALSE
    OBVIOUS
  <2>2. bad \in SUBSET Nat
    BY RungNat
  <2>3. PICK n \in bad : \A k \in bad : n <= k
    BY <2>1, <2>2, LeastNatural
  <2>4. n \in Rung /\ n \in Nat /\ u <= n /\ t % S(n) # 0 /\ n # u /\ u \in Nat
    BY <2>3, RungNat
  <2>5. PICK k : k = n - 1
    OBVIOUS
  <2>6. k \in Rung /\ u <= k /\ k + 1 = n /\ ~ (n <= k)
    BY <2>4, <2>5, MaxRungType DEF Rung
  <2>7. t % S(k) = 0
    BY <2>3, <2>6
  <2>8. S(k) = 2 * S(n) /\ S(n) \in Nat /\ S(n) > 0
    BY <2>4, <2>6, StepHalves
  <2>9. t % S(n) = 0
    BY <2>7, <2>8, ModHalf
  <2> QED
    BY <2>4, <2>9
<1> QED
  BY <1>1

\* The step of a deeper call lies in the half that its callers are in.
LEMMA Within ==
  ASSUME NewTypes, NewShape, stack # <<>>, NEW T \in Begins, NewBegins(T), NEW i \in 0..deep, i # deep
  PROVE  /\ i + 1 \in 0..deep /\ T[i + 1] \in Int /\ T[deep] \in Int /\ S(i) \in Nat /\ S(deep) \in Nat /\ S(deep) > 0
         /\ T[i + 1] <= T[deep] /\ T[deep] + 2 * S(deep) <= T[i + 1] + S(i)
         /\ Deadline(T, i) = T[i + 1] + S(i)
         /\ T[i + 1] % S(i) = 0
<1>1. deep \in Nat /\ deep \in 0..deep /\ i \in Rung /\ i \in Nat
  BY NewCalls, RungNat
<1>2. /\ i + 1 \in 0..deep /\ T[i] \in Int /\ T[i + 1] \in Int /\ S(i) \in Nat /\ S(i) > 0
      /\ Deadline(T, i) = T[i + 1] + S(i)
  BY <1>1, Chain
<1>3. T[deep] \in Int /\ S(deep) \in Nat /\ S(deep) > 0
  BY <1>1, Chain
<1>4. T[i + 1] <= T[deep]
  <2>1. i + 1 <= deep
    BY <1>1, <1>2
  <2> QED
    BY <1>1, <1>2, <2>1 DEF NewBegins
<1>5. T[deep] + 2 * S(deep) <= T[i + 1] + S(i)
  <2>1. PICK k : k = deep - 1
    OBVIOUS
  <2>2. k \in 0..deep /\ k # deep /\ k + 1 = deep /\ i <= k
    BY <1>1, <2>1
  <2>3. T[deep] + S(k) = Deadline(T, k) /\ S(k) = 2 * S(deep) /\ Deadline(T, k) \in Int /\ Deadline(T, i) \in Int
    BY <2>2, Chain
  <2>4. Deadline(T, k) <= Deadline(T, i)
    BY <2>2 DEF NewBegins
  <2> QED
    BY <1>2, <1>3, <2>3, <2>4
<1>6. T[i + 1] % S(i) = 0
  <2>1. T[i] % S(i) = 0 /\ T[i + 1] = IF stack[i + 1].at = "drift" THEN T[i] ELSE T[i] + S(i)
    BY DEF NewBegins
  <2>2. (T[i] + S(i)) % S(i) = 0
    BY <2>1, <1>2, ModAdd
  <2> QED
    BY <2>1, <2>2
<1> QED
  BY <1>2, <1>3, <1>4, <1>5, <1>6

\* The four statements of a step, of which a step that moves no particle makes none false.
NewGood == New!LeapFrogStep /\ New!ForceSourcesStep /\ New!DriftTimed /\ New!ConeMatches

\* A step that moves no particle makes none of them false.
LEMMA StillGood ==
  ASSUME NewTypes, UNCHANGED <<x, v, rung, open>>
  PROVE  NewGood
<1>1. New!Leap!Kick
  <2>1. v' \in [NewParticles -> Int] /\ rung' \in [NewParticles -> Rung] /\ open' \in [NewParticles -> BOOLEAN] /\ x' = x
    BY DEF NewTypes
  <2>2. \A p \in NewParticles : v'[p] = v[p] /\ New!Leap!Unkicked(p)
    BY DEF New!Leap!Unkicked
  <2> QED
    BY <2>1, <2>2 DEF New!Leap!Kick, New!Leap!Rung, Rung
<1>2. New!LeapFrogStep
  BY <1>1 DEF New!LeapFrogStep, New!Leap!Next
<1>3. New!ForceSourcesStep
  BY DEF New!ForceSourcesStep
<1>4. New!DriftTimed /\ New!ConeMatches
  BY DEF New!DriftTimed, New!ConeMatches
<1> QED
  BY <1>2, <1>3, <1>4 DEF NewGood

\* A step that drifts particles, of dTime', none of them past the end of its step.
LEMMA DriftGood ==
  ASSUME NewTypes, x' \in [NewParticles -> Int], UNCHANGED <<v, rung, open>>,
         \A p \in NewParticles : x'[p] = x[p] \/ /\ open[p] /\ x[p] < x'[p] /\ x'[p] <= v[p] + H(rung[p])
                                                 /\ x[p] = arg'
  PROVE  NewGood
<1>1. New!Leap!Drift
  BY HalfIs DEF New!Leap!Drift
<1>2. New!LeapFrogStep
  BY <1>1 DEF New!LeapFrogStep, New!Leap!Next
<1>3. New!ForceSourcesStep
  BY DEF New!ForceSourcesStep
<1>4. New!DriftTimed
  BY DEF New!DriftTimed
<1>5. New!ConeMatches
  BY DEF New!ConeMatches
<1> QED
  BY <1>2, <1>3, <1>4, <1>5 DEF NewGood

\* No particle's step ends before that of a call for a deeper rung does.
LEMMA EndsLater ==
  ASSUME NEW T \in Begins, NewInv(T), stack # <<>>, ~kickOpen, NEW p \in NewParticles, NEW i \in 0..deep, rung[p] <= i
  PROVE  open[p] /\ v[p] \in Int /\ H(rung[p]) \in Nat /\ v[p] + H(rung[p]) >= Deadline(T, i)
<1>1. NewTypes /\ NewShape /\ NewVelocities(T) /\ NewBegins(T)
  BY DEF NewInv, NewClock
<1>2. PICK r \in Rung : r = rung[p]
  BY <1>1 DEF NewTypes
<1>3. r \in Nat /\ deep \in Nat /\ pc = "step"
  BY <1>1, NewCalls, RungNat
<1>4. r \in 0..deep /\ r <= i /\ i <= deep
  BY <1>2, <1>3
<1>5. open[p] /\ v[p] + H(r) = StepEnd(T, r)
  BY <1>1, <1>2, <1>3 DEF NewVelocities
<1>6. StepEnd(T, r) = Deadline(T, r)
  BY <1>3, <1>4 DEF StepEnd
<1>7. Deadline(T, i) <= Deadline(T, r) /\ Deadline(T, i) \in Int /\ Deadline(T, r) \in Int
  <2>1. Deadline(T, i) \in Int /\ Deadline(T, r) \in Int
    BY <1>1, <1>4, Chain
  <2>2. Deadline(T, i) <= Deadline(T, r)
    BY <1>1, <1>4 DEF NewBegins
  <2> QED
    BY <2>1, <2>2
<1>8. v[p] \in Int /\ H(r) \in Nat
  BY <1>1, StepHalves DEF NewTypes
<1>9. v[p] + H(r) >= Deadline(T, i)
  BY <1>5, <1>6, <1>7
<1> QED
  BY <1>2, <1>5, <1>8, <1>9

\* The drift of the slow particles to the middle of their step.
LEMMA StartDualGood ==
  ASSUME NEW T \in Begins, NewInv(T), New!StartDual
  PROVE  NewGood
<1>1. /\ New!At("start") /\ New!SplitsTrees
      /\ fix' = {p \in NewParticles : rung[p] <= iRungDT}
      /\ x' = [p \in NewParticles |-> IF p \in fix' THEN x[p] + H(iRungDT) ELSE x[p]] /\ arg' = dTime
      /\ UNCHANGED <<v, rung, open>>
  BY HalfIs DEF New!StartDual, New!Drift
<1>2. /\ NewTypes /\ NewShape /\ NewBegins(T) /\ NewNow(T) /\ stack # <<>> /\ New!top.at = "start"
      /\ deep \in Nat /\ New!top.uRung = deep /\ iRungDT \in Nat /\ dTime \in Int /\ ~kickOpen
  BY <1>1, NewAt DEF Before
<1>3. deep = iRungDT + 1 /\ dTime = T[deep] /\ iRungDT \in Rung
  BY <1>1, <1>2 DEF New!SplitsTrees, NewNow, NewTypes
<1>4. Sync
  BY StartDualInv
<1>5. x' \in [NewParticles -> Int]
  BY StartDualInv DEF NewInv, NewTypes
<1>6. H(iRungDT) \in Nat /\ H(iRungDT) > 0 /\ S(iRungDT) = 2 * H(iRungDT) /\ S(iRungDT) \in Nat
  BY <1>3, StepHalves
<1>7. iRungDT \in 0..deep /\ T[deep] + S(iRungDT) = Deadline(T, iRungDT) /\ T[deep] \in Int
  <2>1. iRungDT \in 0..deep /\ iRungDT # deep
    BY <1>2, <1>3
  <2>2. Deadline(T, iRungDT) = T[iRungDT + 1] + S(iRungDT) /\ T[deep] \in Int
    BY <1>2, <2>1, Within
  <2> QED
    BY <1>3, <2>1, <2>2
<1>8. ASSUME NEW p \in NewParticles, p \in fix'
      PROVE  open[p] /\ x[p] < x'[p] /\ x'[p] <= v[p] + H(rung[p]) /\ x[p] = arg'
  <2>1. open[p] /\ v[p] \in Int /\ H(rung[p]) \in Nat /\ v[p] + H(rung[p]) >= Deadline(T, iRungDT)
    BY <1>1, <1>2, <1>7, <1>8, EndsLater
  <2>2. x[p] = dTime /\ x'[p] = dTime + H(iRungDT)
    BY <1>1, <1>4, <1>8 DEF Sync
  <2>3. PICK e \in Int : e = v[p] + H(rung[p])
    BY <2>1
  <2>4. e >= dTime + S(iRungDT)
    BY <1>3, <1>7, <2>1, <2>3
  <2>5. e >= dTime + H(iRungDT) /\ dTime < dTime + H(iRungDT)
    BY <1>2, <1>6, <2>4
  <2> QED
    BY <1>1, <2>1, <2>2, <2>3, <2>5
<1>9. \A p \in NewParticles : p \notin fix' => x'[p] = x[p]
  BY <1>1
<1> QED
  BY <1>1, <1>2, <1>5, <1>8, <1>9, DriftGood

\* Their drift to its end.
LEMMA EndDualGood ==
  ASSUME NEW T \in Begins, NewInv(T), New!EndDual
  PROVE  NewGood
<1>1. New!At("end") /\ UNCHANGED <<v, rung, open>>
  BY DEF New!EndDual
<1>2. /\ NewTypes /\ NewShape /\ NewBegins(T) /\ stack # <<>> /\ New!top.at = "end" /\ NewFlags
      /\ deep \in Nat /\ iRungDT \in Nat
  BY <1>1, NewAt
<1>3. /\ deep = iRungDT + 1 /\ iRungDT \in Rung
      /\ \/ Sync /\ x' = x
         \/ /\ Waiting(T)
            /\ \A p \in fix : x[p] = arg' /\ x[p] = T[deep] + H(iRungDT) /\ x'[p] = x[p] + H(iRungDT)
            /\ \A p \in NewParticles : p \notin fix => x'[p] = x[p]
  BY <1>2, EndDualWaits DEF NewTypes
<1>4. CASE x' = x
  BY <1>1, <1>2, <1>4, StillGood
<1>5. CASE x' # x
  <2>1. x' \in [NewParticles -> Int]
    BY EndDualInv DEF NewInv, NewTypes
  <2>2. ~kickOpen
    BY <1>2, <1>3 DEF NewFlags, AllKicked
  <2>3. H(iRungDT) \in Nat /\ H(iRungDT) > 0 /\ S(iRungDT) = 2 * H(iRungDT)
    BY <1>3, StepHalves
  <2>4. iRungDT \in 0..deep /\ T[deep] + S(iRungDT) = Deadline(T, iRungDT) /\ T[deep] \in Int
    <3>1. iRungDT \in 0..deep /\ iRungDT # deep
      BY <1>2, <1>3
    <3>2. Deadline(T, iRungDT) = T[iRungDT + 1] + S(iRungDT) /\ T[deep] \in Int
      BY <1>2, <3>1, Within
    <3> QED
      BY <1>3, <3>1, <3>2
  <2>5. ASSUME NEW p \in NewParticles, p \in fix
        PROVE  open[p] /\ x[p] < x'[p] /\ x'[p] <= v[p] + H(rung[p]) /\ x[p] = arg'
    <3>1. Waiting(T) /\ x[p] = arg' /\ x[p] = T[deep] + H(iRungDT) /\ x'[p] = x[p] + H(iRungDT)
      BY <1>3, <1>5, <2>5
    <3>2. rung[p] <= iRungDT
      BY <3>1, <2>5 DEF Waiting, Split
    <3>3. open[p] /\ v[p] \in Int /\ H(rung[p]) \in Nat /\ v[p] + H(rung[p]) >= Deadline(T, iRungDT)
      BY <1>2, <2>2, <2>4, <3>2, EndsLater
    <3>4. PICK e \in Int : e = v[p] + H(rung[p])
      BY <3>3
    <3>5. PICK t \in Int : t = T[deep]
      BY <2>4
    <3>6. e >= t + S(iRungDT)
      BY <2>4, <3>3, <3>4, <3>5
    <3>7. x[p] = t + H(iRungDT) /\ x'[p] = t + H(iRungDT) + H(iRungDT)
      BY <3>1, <3>5
    <3>8. e >= x'[p] /\ x[p] < x'[p]
      BY <2>3, <3>6, <3>7
    <3> QED
      BY <3>1, <3>3, <3>4, <3>8
  <2> QED
    BY <1>1, <1>2, <1>3, <1>5, <2>1, <2>5, DriftGood
<1> QED
  BY <1>4, <1>5

\* The drift of the particles that are not in the fixed tree.
LEMMA DriftStepGood ==
  ASSUME NEW T \in Begins, NewInv(T), New!DriftStep
  PROVE  NewGood
<1>1. /\ New!At("drift")
      /\ x' = [p \in NewParticles |-> IF p \in (IF New!top.bDualTree THEN root ELSE NewParticles) THEN x[p] + S(uRungMax) ELSE x[p]]
      /\ arg' = dTime
      /\ UNCHANGED <<v, rung, open>>
  BY HalfIs DEF New!DriftStep, New!Drift
<1>2. /\ NewTypes /\ NewShape /\ NewBegins(T) /\ NewNow(T) /\ NewPositions(T) /\ NewVelocities(T)
      /\ stack # <<>> /\ New!top.at = "drift" /\ pc = "step" /\ New!top = stack[deep + 1]
      /\ deep \in Nat /\ iRungDT \in Nat /\ dTime \in Int /\ S(uRungMax) \in Nat /\ S(uRungMax) > 0
      /\ T[deep] \in Int /\ S(deep) \in Nat /\ ~kickOpen
  BY <1>1, NewAt DEF Before
<1>3. x' \in [NewParticles -> Int]
  BY DriftStepInv DEF NewInv, NewTypes
<1>4. dTime + S(uRungMax) = T[deep] + S(deep)
  <2>1. dTime = T[deep] + S(deep) - S(uRungMax)
    BY <1>2 DEF NewNow
  <2> QED
    BY <2>1, <1>2
<1>5. ASSUME NEW p \in NewParticles, x'[p] # x[p]
      PROVE  open[p] /\ x[p] < x'[p] /\ x'[p] <= v[p] + H(rung[p]) /\ x[p] = arg'
  <2>1. x'[p] = x[p] + S(uRungMax) /\ (New!top.bDualTree => p \in root)
    BY <1>1, <1>5
  <2>2. x[p] = dTime
    <3>1. CASE Sync
      BY <3>1 DEF Sync
    <3>2. CASE Waiting(T)
      <4>1. New!top.bDualTree /\ \A q \in root : x[q] = dTime
        BY <3>2, <1>2 DEF Waiting, Split
      <4> QED
        BY <4>1, <2>1
    <3>3. CASE Ended
      BY <3>3, <2>1 DEF Ended, Split
    <3> QED
      BY <1>2, <3>1, <3>2, <3>3 DEF NewPositions
  <2>3. PICK r \in Rung : r = rung[p]
    BY <1>2 DEF NewTypes
  <2>4. open[p] /\ v[p] + H(rung[p]) >= T[deep] + S(deep)
    <3>1. CASE r <= deep
      <4>1. deep \in 0..deep
        BY <1>2
      <4>2. Deadline(T, deep) = T[deep] + S(deep)
        BY <1>2 DEF Deadline, Before
      <4>3. open[p] /\ v[p] + H(rung[p]) >= Deadline(T, deep)
        BY <1>2, <2>3, <3>1, <4>1, EndsLater
      <4> QED
        BY <4>2, <4>3
    <3>2. CASE ~ (r <= deep)
      <4>1. open[p] /\ v[p] + H(r) = StepEnd(T, r)
        BY <1>2, <2>3 DEF NewVelocities
      <4>2. StepEnd(T, r) = T[deep] + S(deep)
        BY <1>2, <3>2 DEF StepEnd
      <4>3. T[deep] + S(deep) \in Int
        BY <1>2
      <4> QED
        BY <2>3, <4>1, <4>2, <4>3
    <3> QED
      BY <3>1, <3>2
  <2>5. x'[p] = T[deep] + S(deep)
    BY <1>4, <2>1, <2>2
  <2>6. H(rung[p]) \in Nat /\ v[p] \in Int /\ T[deep] + S(deep) \in Int
    <3>1. v[p] \in Int
      BY <1>2 DEF NewTypes
    <3>2. H(rung[p]) \in Nat
      BY <2>3, StepHalves
    <3> QED
      BY <3>1, <3>2, <1>2
  <2>7. x'[p] <= v[p] + H(rung[p])
    BY <2>4, <2>5, <2>6
  <2>8. x[p] < x'[p]
    BY <1>2, <2>1, <2>2
  <2> QED
    BY <1>1, <2>2, <2>4, <2>7, <2>8
<1> QED
  BY <1>1, <1>2, <1>3, <1>5, DriftGood

\* A gravity calculation whose active particles are all at dTime, a multiple of the step of
\* the rung it is for, is good when it closes the steps that end there, or opens the steps
\* of particles that are in none, from all particles.
LEMMA KicksGood ==
  ASSUME NewTypes, NEW u \in Rung, NEW W, NEW c \in BOOLEAN, NEW o \in BOOLEAN, c \/ o, Kicks(u, W, c, o),
         dTime % S(u) = 0,
         \A p \in NewParticles : rung[p] >= u =>
           /\ p \in W[1] /\ x[p] = dTime
           /\ IF c THEN open[p] /\ v[p] + H(rung[p]) = dTime ELSE ~open[p] /\ v[p] = dTime,
         New!SourcesOf(W[1], W[2]),
         \A p \in NewParticles : rung[p] >= u /\ o => cone' = dTime \div S(0) + 1
  PROVE  NewGood
<1>1. /\ x' = x /\ sources' = W
      /\ v' \in [NewParticles -> Int] /\ rung' \in [NewParticles -> Rung] /\ open' \in [NewParticles -> BOOLEAN]
      /\ \A p \in NewParticles : rung[p] < u => v'[p] = v[p] /\ rung'[p] = rung[p] /\ open'[p] = open[p]
      /\ \A p \in NewParticles : rung[p] >= u =>
           /\ rung'[p] >= u /\ open'[p] = o
           /\ v'[p] = v[p] + (IF c THEN H(rung[p]) ELSE 0) + (IF o THEN H(rung'[p]) ELSE 0)
      /\ ~o => rung' = rung
  BY DEF Kicks
<1>2. dTime \in Int /\ u \in Nat
  BY RungNat DEF NewTypes
<1>3. ASSUME NEW p \in NewParticles
      PROVE  rung[p] < u \/ rung[p] >= u
  <2>1. rung[p] \in Rung
    BY DEF NewTypes
  <2>2. rung[p] \in Nat
    BY <2>1, RungNat
  <2> QED
    BY <1>2, <2>2
<1>4. ASSUME NEW p \in NewParticles, rung[p] >= u
      PROVE  New!Leap!Close(p) \/ New!Leap!Open(p) \/ New!Leap!CloseOpen(p)
  <2>1. PICK r \in Rung, s \in Rung : r = rung[p] /\ s = rung'[p]
    BY <1>1 DEF NewTypes
  <2>2. /\ s >= u /\ open'[p] = o
        /\ v'[p] = v[p] + (IF c THEN H(r) ELSE 0) + (IF o THEN H(s) ELSE 0)
        /\ IF c THEN open[p] /\ v[p] + H(r) = dTime ELSE ~open[p] /\ v[p] = dTime
        /\ x[p] = dTime
    BY <1>1, <1>4, <2>1
  <2>3. v[p] \in Int /\ H(r) \in Nat /\ H(s) \in Nat /\ u <= s
    BY <1>2, <2>2, RungNat, StepHalves DEF NewTypes
  <2>4. dTime % S(s) = 0
    BY <1>2, <2>3, Multiples
  <2>5. v'[p] = dTime + (IF o THEN H(s) ELSE 0)
    BY <2>2, <2>3
  <2>6. o => New!Leap!OpenWith(p)
    <3>1. SUFFICES ASSUME o PROVE New!Leap!OpenWith(p)
      OBVIOUS
    <3>2. v'[p] = x[p] + H(s)
      BY <2>2, <2>5, <3>1
    <3>3. open'[p]
      BY <2>2, <3>1
    <3>4. x[p] % S(s) = 0
      BY <2>2, <2>4
    <3> QED
      BY <2>1, <3>2, <3>3, <3>4, HalfIs DEF New!Leap!OpenWith, New!Leap!Rung, Rung
  <2>7. c => New!Leap!CanClose(p)
    BY <2>1, <2>2, HalfIs DEF New!Leap!CanClose
  <2>8. CASE c /\ o
    BY <2>6, <2>7, <2>8 DEF New!Leap!CloseOpen
  <2>9. CASE c /\ ~o
    <3>1. v'[p] = x[p] /\ rung'[p] = rung[p] /\ ~open'[p]
      BY <1>1, <1>2, <2>2, <2>5, <2>9
    <3> QED
      BY <2>7, <2>9, <3>1 DEF New!Leap!Close
  <2>10. CASE ~c
    <3>1. ~open[p] /\ o
      BY <2>2, <2>10
    <3> QED
      BY <2>6, <3>1 DEF New!Leap!Open
  <2> QED
    BY <2>8, <2>9, <2>10
<1>5. New!LeapFrogStep
  <2>1. ASSUME NEW p \in NewParticles, rung[p] < u PROVE New!Leap!Unkicked(p)
    BY <1>1, <2>1 DEF New!Leap!Unkicked
  <2>2. \A p, q \in NewParticles : v'[p] # v[p] /\ v'[q] # v[q] => x[p] = x[q]
    <3>1. \A p \in NewParticles : v'[p] # v[p] => x[p] = dTime
      BY <1>1, <1>3
    <3> QED
      BY <3>1
  <2>3. \A p \in NewParticles : New!Leap!Unkicked(p) \/ New!Leap!Close(p) \/ New!Leap!Open(p) \/ New!Leap!CloseOpen(p)
    BY <1>3, <1>4, <2>1
  <2>4. New!Leap!Kick
    BY <1>1, <2>2, <2>3 DEF New!Leap!Kick, New!Leap!Rung, Rung
  <2> QED
    BY <2>4 DEF New!LeapFrogStep, New!Leap!Next
<1>6. New!ForceSourcesStep
  <2>1. \A p \in NewParticles : v'[p] # v[p] => p \in W[1] /\ x[p] = dTime
    BY <1>1, <1>3
  <2> QED
    BY <1>1, <2>1 DEF New!ForceSourcesStep
<1>7. New!DriftTimed
  BY <1>1 DEF New!DriftTimed
<1>8. New!ConeMatches
  <2>1. ASSUME NEW p \in NewParticles, open'[p], v'[p] # v[p]
        PROVE  cone' = x[p] \div S(0) + 1
    <3>1. rung[p] >= u /\ o
      BY <1>1, <1>3, <2>1
    <3> QED
      BY <3>1
  <2> QED
    BY <2>1, HalfIs DEF New!ConeMatches
<1> QED
  BY <1>5, <1>6, <1>7, <1>8 DEF NewGood

\* A kick that only opens steps.
LEMMA OpeningGood ==
  ASSUME NEW T, NewInv(T), stack = <<>>, pc = "init" \/ kickOpen, pc # "step",
         Kicks(0, <<NewParticles, {}>>, FALSE, TRUE), cone' = iStep + 1
  PROVE  NewGood
<1>1. /\ NewTypes /\ NewRungs /\ Sync /\ NewVelocities(T)
      /\ dTime = iStep * S(0) /\ iStep \in Nat /\ S(0) \in Nat /\ S(0) > 0 /\ 0 \in Rung
  BY Idle
<1>2. \A p \in NewParticles : v[p] = dTime /\ ~open[p] /\ x[p] = dTime
  BY <1>1 DEF NewVelocities, Sync
<1>3. dTime % S(0) = 0 /\ dTime \div S(0) = iStep
  <2>1. iStep \in Int
    BY <1>1
  <2>2. (iStep * S(0)) % S(0) = 0
    BY <1>1, <2>1, ModProduct
  <2>3. PICK s \in Nat : s = S(0)
    BY <1>1
  <2>4. s > 0 /\ iStep * s \in Int /\ iStep * s <= iStep * s /\ iStep * s < iStep * s + s
    BY <1>1, <2>3
  <2>5. (iStep * s) \div s = iStep
    BY <2>1, <2>4, DivBetween
  <2> QED
    BY <1>1, <2>2, <2>3, <2>5
<1>4. New!SourcesOf(NewParticles, {})
  BY <1>2 DEF New!SourcesOf
<1>5. PICK W : W = <<NewParticles, {}>>
  OBVIOUS
<1>6. W[1] = NewParticles /\ W[2] = {} /\ Kicks(0, W, FALSE, TRUE)
  BY <1>5
<1>7. New!SourcesOf(W[1], W[2])
  BY <1>4, <1>6
<1>8. \A p \in NewParticles : rung[p] >= 0 => p \in W[1] /\ x[p] = dTime /\ ~open[p] /\ v[p] = dTime
  BY <1>2, <1>6
<1> QED
  BY <1>1, <1>3, <1>6, <1>7, <1>8, KicksGood

\* A gravity calculation, whose sources have all come to dTime or wait in the middle of their step.
LEMMA GravityStepGood ==
  ASSUME NEW T \in Begins, NewInv(T), New!GravityStep
  PROVE  NewGood
<1>1. New!At("gravity")
  BY DEF New!GravityStep
<1>2. /\ NewTypes /\ NewShape /\ NewBegins(T) /\ NewNow(T)
      /\ NewPositions(T) /\ NewVelocities(T) /\ NewFlags
      /\ stack # <<>> /\ New!top.at = "gravity" /\ pc = "step" /\ New!top = stack[deep + 1]
      /\ deep \in Nat /\ deep \in Rung /\ New!top.uRung = deep /\ iRungDT \in Nat
      /\ dTime \in Int /\ T[deep] \in Int /\ S(deep) \in Nat /\ S(deep) > 0
      /\ ~kickOpen /\ ~due
  BY <1>1, NewAt DEF Before
<1>3. PICK o \in BOOLEAN :
        /\ Kicks(deep, New!Sources, TRUE, o)
        /\ cone' = IF deep # 0 THEN cone ELSE IF o THEN iStep + 2 ELSE 0
  BY GravityStepIs
<1>4. dTime = T[deep] + S(deep) /\ dTime % S(deep) = 0
  <2>1. dTime = T[deep] + S(deep)
    BY <1>2 DEF NewNow
  <2>2. deep \in 0..deep
    BY <1>2
  <2>3. T[deep] % S(deep) = 0
    BY <1>2, <2>2 DEF NewBegins
  <2>4. (T[deep] + S(deep)) % S(deep) = 0
    BY <1>2, <2>3, ModAdd
  <2> QED
    BY <2>1, <2>4
<1>5. ASSUME NEW p \in NewParticles, rung[p] >= deep
      PROVE  open[p] /\ v[p] + H(rung[p]) = dTime
  <2>1. PICK r \in Rung : r = rung[p]
    BY <1>2 DEF NewTypes
  <2>2. r \in Nat
    BY RungNat
  <2>3. open[p] /\ v[p] + H(r) = StepEnd(T, r)
    BY <1>2, <2>1 DEF NewVelocities
  <2>4. StepEnd(T, r) = T[deep] + S(deep)
    <3>1. CASE r = deep
      BY <1>2, <3>1 DEF StepEnd, Deadline, Before
    <3>2. CASE r # deep
      <4>1. ~ (r <= deep)
        BY <1>2, <1>5, <2>1, <2>2, <3>2
      <4> QED
        BY <1>2, <4>1 DEF StepEnd
    <3> QED
      BY <3>1, <3>2
  <2> QED
    BY <1>4, <2>1, <2>3, <2>4
<1>6. New!Sources = <<root, IF New!top.bDualTree /\ deep > iRungDT THEN fix ELSE {}>>
  BY <1>2 DEF New!Sources, New!InDualTree
<1>8. ASSUME Waiting(T)
      PROVE  /\ \A p \in NewParticles : rung[p] >= deep => p \in New!Sources[1] /\ x[p] = dTime
             /\ New!SourcesOf(New!Sources[1], New!Sources[2])
  <2> DEFINE i == iRungDT
  <2>1. /\ New!top.bDualTree /\ i < deep /\ root = NewParticles \ fix
        /\ fix = {p \in NewParticles : rung[p] <= i} /\ (\A p \in root : x[p] = dTime)
        /\ \A p \in fix : x[p] = T[i + 1] + H(i)
    BY <1>2, <1>8 DEF Waiting, Split
  <2>2. New!Sources = <<root, fix>>
    BY <1>2, <1>6, <2>1
  <2>3. i \in 0..deep /\ i # deep /\ i \in Rung
    BY <1>2, <2>1 DEF NewTypes
  <2>4. /\ T[i + 1] \in Int /\ T[i + 1] <= T[deep] /\ T[deep] + 2 * S(deep) <= T[i + 1] + S(i)
        /\ T[i + 1] % S(i) = 0
    BY <1>2, <2>3, Within
  <2>5. H(i) \in Nat /\ H(i) > 0 /\ S(i) = 2 * H(i)
    BY <2>3, StepHalves
  <2>11. PICK y \in Int : y = T[i + 1] + H(i)
    BY <2>4, <2>5
  <2>6. y % S(i) = H(i)
    <3>1. (T[i + 1] + H(i)) % S(i) = H(i)
      BY <2>4, <2>5, ModMiddle
    <3> QED
      BY <2>11, <3>1
  <2>7. y - dTime \in (1 - H(i))..(H(i) - 1)
    <3>1. PICK t \in Int, s \in Int, d \in Int, h \in Int : t = T[i + 1] /\ s = S(deep) /\ d = T[deep] /\ h = H(i)
      BY <1>2, <2>4, <2>5
    <3>2. dTime = d + s /\ s > 0 /\ t <= d /\ d + 2 * s <= t + 2 * h
      BY <1>2, <1>4, <2>4, <2>5, <3>1
    <3>3. y = t + h
      BY <2>11, <3>1
    <3>4. y - dTime \in (1 - h)..(h - 1)
      BY <1>2, <3>2, <3>3
    <3> QED
      BY <3>1, <3>4
  <2>8. New!SourcesOf(root, fix)
    <3>1. root \cup fix = NewParticles /\ root \cap fix = {}
      BY <2>1
    <3>3. New!Step(i) = S(i) /\ New!Half(i) = H(i)
      BY HalfIs
    <3>2. \A p \in fix : x[p] % New!Step(i) = New!Half(i) /\ x[p] - dTime \in (1 - New!Half(i))..(New!Half(i) - 1)
      <4>1. \A p \in fix : x[p] = y
        BY <2>1, <2>11
      <4> HIDE DEF i
      <4> QED
        BY <2>6, <2>7, <3>3, <4>1
    <3> QED
      BY <2>1, <3>1, <3>2 DEF New!SourcesOf
  <2>9. \A p \in NewParticles : rung[p] >= deep => p \in root
    <3>1. \A p \in NewParticles : rung[p] \in Int
      BY <1>2, RungNat DEF NewTypes
    <3> QED
      BY <1>2, <2>1, <3>1
  <2> HIDE DEF i
  <2>10. New!Sources[1] = root /\ New!Sources[2] = fix
    BY <2>2
  <2> QED
    BY <2>1, <2>8, <2>9, <2>10
<1>9. ~Ended
  BY <1>2 DEF Ended
<1>10. /\ \A p \in NewParticles : rung[p] >= deep => p \in New!Sources[1] /\ x[p] = dTime
       /\ New!SourcesOf(New!Sources[1], New!Sources[2])
  <2>1. CASE Sync
    <3>1. New!Sources = <<NewParticles, {}>> /\ \A p \in NewParticles : x[p] = dTime
      BY <1>6, <2>1 DEF Sync
    <3>2. New!Sources[1] = NewParticles /\ New!Sources[2] = {}
      BY <3>1
    <3>3. New!SourcesOf(NewParticles, {})
      BY <3>1 DEF New!SourcesOf
    <3> QED
      BY <3>1, <3>2, <3>3
  <2> QED
    BY <1>2, <1>8, <1>9, <2>1 DEF NewPositions
<1>11. o => cone' = dTime \div S(0) + 1
  <2>1. SUFFICES ASSUME o PROVE cone' = dTime \div S(0) + 1
    OBVIOUS
  <2>2. iStep \in Int /\ 0 \in Rung /\ S(0) \in Nat /\ S(0) > 0 /\ T[0] = iStep * S(0)
    BY <1>2, MaxRungType, StepHalves DEF NewTypes, NewBegins, Rung
  <2>3. PICK s \in Nat : s = S(0)
    BY <2>2
  <2>4. CASE deep = 0
    <3>1. dTime = iStep * s + s /\ cone' = iStep + 2
      BY <1>3, <1>4, <2>1, <2>2, <2>3, <2>4
    <3>2. (iStep + 1) * s = iStep * s + s /\ iStep + 1 \in Int
      BY <2>2
    <3>3. dTime \div s = iStep + 1
      <4>1. (iStep + 1) * s <= dTime /\ dTime < (iStep + 1) * s + s /\ s > 0
        BY <1>2, <2>2, <2>3, <3>1, <3>2
      <4> QED
        BY <1>2, <3>2, <4>1, DivBetween
    <3> QED
      BY <2>2, <2>3, <3>1, <3>3
  <2>5. CASE deep # 0
    <3>1. 0 \in 0..deep
      BY <1>2
    <3>2. T[1] <= T[deep] /\ T[deep] + 2 * S(deep) <= T[1] + S(0) /\ T[1] \in Int
      BY <1>2, <2>5, <3>1, Within
    <3>3. T[1] = T[0]
      <4>1. stack[0 + 1].at = "drift"
        BY <1>2, <2>5, <3>1, NewCalls
      <4> QED
        BY <1>2, <2>5, <3>1, <4>1 DEF NewBegins
    <3>4. PICK t \in Int, d \in Int, z \in Int : t = iStep * s /\ d = T[deep] /\ z = S(deep)
      BY <1>2, <2>2
    <3>5. t <= d /\ d + 2 * z <= t + s /\ dTime = d + z /\ z > 0
      BY <1>2, <1>4, <2>2, <2>3, <3>2, <3>3, <3>4
    <3>6. t <= dTime /\ dTime < t + s
      BY <1>2, <3>5
    <3>7. dTime \div s = iStep
      BY <1>2, <2>2, <2>3, <3>4, <3>6, DivBetween
    <3>8. cone' = iStep + 1
      <4>1. ~AllKicked
        BY <2>5 DEF AllKicked
      <4> QED
        BY <1>2, <1>3, <2>5, <4>1 DEF NewFlags
    <3> QED
      BY <2>3, <3>7, <3>8
  <2> QED
    BY <2>4, <2>5
<1> QED
  <2>1. PICK W : W = New!Sources
    OBVIOUS
  <2>2. Kicks(deep, W, TRUE, o) /\ New!SourcesOf(W[1], W[2])
    BY <1>3, <1>10, <2>1
  <2>3. \A p \in NewParticles : rung[p] >= deep => p \in W[1] /\ x[p] = dTime /\ open[p] /\ v[p] + H(rung[p]) = dTime
    BY <1>5, <1>10, <2>1
  <2> QED
    BY <1>2, <1>4, <1>11, <2>2, <2>3, KicksGood

\* So every step of NewKDK is what is promised of it.
LEMMA NewSteps ==
  ASSUME NEW T \in Begins, NewInv(T), [New!Next]_New!vars
  PROVE  NewGood
<1>0. NewTypes
  BY DEF NewInv
<1>1. CASE New!StartDual
  BY <1>1, StartDualGood
<1>2. CASE New!StartSingle \/ New!Descend \/ New!Again \/ New!EndSingle \/ New!TopStep \/ New!Write \/ New!Finish
           \/ New!Done \/ UNCHANGED New!vars
  <2>1. UNCHANGED <<x, v, rung, open>>
    BY <1>2 DEF New!StartSingle, New!Descend, New!Again, New!EndSingle, New!TopStep, New!Write, New!Finish, New!Done,
                New!vars, New!leapVars
  <2> QED
    BY <1>0, <2>1, StillGood
<1>3. CASE New!DriftStep
  BY <1>3, DriftStepGood
<1>4. CASE New!GravityStep
  BY <1>4, GravityStepGood
<1>5. CASE New!EndDual
  BY <1>5, EndDualGood
<1>6. CASE New!FirstKick
  <2>1. stack = <<>> /\ Sync /\ Kicks(0, <<root, {}>>, FALSE, TRUE) /\ iStep = 0
    BY <1>6, FirstKickInv DEF NewInv, NewFlags, New!FirstKick
  <2>2. Kicks(0, <<NewParticles, {}>>, FALSE, TRUE)
    BY <2>1 DEF Sync
  <2>3. pc = "init" /\ cone' = iStep + 1
    BY <1>6, <2>1 DEF New!FirstKick
  <2> QED
    BY <2>1, <2>2, <2>3, OpeningGood
<1>7. CASE New!KickAgain
  <2>1. stack = <<>> /\ Kicks(0, <<NewParticles, {}>>, FALSE, TRUE)
    BY <1>7, KickAgainInv
  <2>2. kickOpen /\ pc # "step" /\ cone' = iStep + 1
    BY <1>7 DEF New!KickAgain
  <2> QED
    BY <2>1, <2>2, OpeningGood
<1> QED
  BY <1>1, <1>2, <1>3, <1>4, <1>5, <1>6, <1>7 DEF New!Next

\* What NewKDK writes is of one time.
LEMMA NewInSync == ASSUME NEW T \in Begins, NewInv(T) PROVE New!InSync
<1> SUFFICES ASSUME pc = "step", stack = <<>>
             PROVE  /\ dTime = (iStep + 1) * S(0)
                    /\ due => \A p \in NewParticles : x[p] = dTime /\ v[p] = dTime /\ ~open[p]
  BY HalfIs DEF New!InSync
<1>1. dTime = (iStep + 1) * S(0) /\ Sync /\ NewVelocities(T) /\ (due => kickOpen)
  BY Idle
<1> QED
  BY <1>1 DEF Sync, NewVelocities

------------------------------------------------------------------------------
(* TopStepKDK: the invariant *)

\* Where a call of TopStepKDK is before it has kicked.
Opening == {"start", "update", "truncate", "open"}
Kicked == {"recurse", "second", "close"}
TopFrames == [iRung : Rung, iKickRung : Rung, iAdjust : BOOLEAN, dTime : Int, at : Opening \cup Kicked]

TopTypes ==
  /\ param \in Params
  /\ x \in [TopParticles -> Int] /\ v \in [TopParticles -> Int]
  /\ rung \in [TopParticles -> 0..MaxRung] /\ open \in [TopParticles -> BOOLEAN]
  /\ uNewRung \in [TopParticles -> 0..MaxRung] /\ a \in [TopParticles -> Int]
  /\ nRungCount \in [0..MaxRung -> Nat] /\ iCurrMaxRung \in Rung
  /\ stack \in Seq(TopFrames) /\ pc \in {"init", "top", "step", "done", "aborted"} /\ iStep \in Nat /\ arg \in Int

\* The calls are those of the rungs 0, 1, ...; the forces that a call's deepest call finds
\* are for the rungs from iKickRung on.
TopShape ==
  /\ stack # <<>> => pc \in {"step", "aborted"} /\ stack[1].iKickRung = 0 /\ stack[1].iAdjust
  /\ \A u \in 0..deep : stack[u + 1].iRung = u /\ stack[u + 1].iKickRung <= u
                        /\ (stack[u + 1].at = "second" => u + 1 \in Rung)
  /\ \A u \in 0..deep : u # deep =>
       \/ stack[u + 1].at = "second" /\ stack[u + 2].iKickRung = u + 1
       \/ stack[u + 1].at = "close" /\ stack[u + 2].iKickRung = stack[u + 1].iKickRung

\* The time at which a call has begun: its dTime is put forward in the middle of its step.
Begun(f) == IF f.at = "close" THEN f.dTime - H(f.iRung) ELSE f.dTime
Tb(u) == Begun(stack[u + 1])

TopBegins ==
  /\ Tb(0) = iStep * S(0)
  /\ \A u \in 0..deep : Tb(u) % S(u) = 0
  /\ \A u \in 0..deep : u # deep => Tb(u + 1) = IF stack[u + 1].at = "second" THEN Tb(u) ELSE Tb(u) + H(u)
  /\ \A u, w \in 0..deep : u <= w => Tb(w) + S(w) <= Tb(u) + S(u)

Now ==
  IF stack = <<>> THEN (IF pc = "step" THEN iStep + 1 ELSE iStep) * S(0)
  ELSE IF Top!top.at = "second" THEN Tb(deep) + H(deep)
  ELSE IF Top!top.at = "close" THEN Tb(deep) + S(deep)
  ELSE Tb(deep)

TopClock == (\A p \in TopParticles : x[p] = Now) /\ (stack # <<>> => TopBegins)

\* An acceleration is for another time only on rungs that the present call is not for.
StaleBelow ==
  IF Top!top.at = "close" THEN Top!top.iKickRung ELSE IF Top!top.at = "second" THEN deep + 1 ELSE deep

Fresh ==
  pc # "init" => \A p \in TopParticles : a[p] = x[p] \/ (stack # <<>> /\ rung[p] < StaleBelow)

\* Is iCurrMaxRung that of the particles' rungs?
Settled == pc = "step" /\ stack # <<>> /\ Top!top.at # "truncate" /\ ~(deep = 0 /\ Top!top.at = "start" /\ MaxRung > 1)

TopDeepest ==
  /\ Settled => (\A p \in TopParticles : rung[p] <= iCurrMaxRung) /\ \E p \in TopParticles : rung[p] = iCurrMaxRung
  /\ stack # <<>> => \E p \in TopParticles : rung[p] >= IF Top!top.at = "second" THEN deep + 1 ELSE deep
  /\ stack # <<>> /\ Top!top.at = "truncate" =>
       \A i \in Rung : nRungCount[i] # 0 <=> \E p \in TopParticles : rung[p] = i

InStep(r) == stack # <<>> /\ (r < deep \/ (r = deep /\ Top!top.at \in Kicked))

TopVelocities ==
  \A p \in TopParticles :
    IF InStep(rung[p]) THEN open[p] /\ v[p] = Tb(rung[p]) + H(rung[p]) ELSE ~open[p] /\ v[p] = x[p]

TopRegular ==
  /\ pc # "aborted" /\ (stack # <<>> => Top!top.at # "update")
  /\ rung \in [TopParticles -> Rung] /\ uNewRung \in [TopParticles -> Rung]
  /\ TopDeepest /\ TopVelocities

TopInv == TopTypes /\ TopShape /\ TopClock /\ Fresh /\ (Top!Regular => TopRegular)

\* What is known of the calls while there are any.
LEMMA TopCalls ==
  ASSUME TopTypes, TopShape, stack # <<>>
  PROVE  /\ deep \in Nat /\ Len(stack) = deep + 1 /\ deep \in Rung /\ deep \in 0..deep
         /\ Top!top = stack[deep + 1] /\ Top!top \in TopFrames /\ Top!top.iRung = deep
         /\ \A u \in 0..deep : u \in Rung /\ u \in Nat /\ stack[u + 1] \in TopFrames /\ stack[u + 1].iRung = u
                               /\ Tb(u) \in Int /\ S(u) \in Nat /\ S(u) > 0 /\ H(u) \in Nat /\ H(u) > 0 /\ S(u) = 2 * H(u)
<1>1. Len(stack) \in Nat /\ Len(stack) > 0
  BY EmptySeq DEF TopTypes
<1>2. deep \in Nat /\ Len(stack) = deep + 1 /\ deep \in 0..deep
  BY <1>1 DEF deep
<1>3. ASSUME NEW u \in 0..deep
      PROVE  stack[u + 1] \in TopFrames /\ stack[u + 1].iRung = u /\ u \in Rung /\ u \in Nat
  <2>1. u + 1 \in 1..Len(stack) /\ u \in Nat
    BY <1>2
  <2>2. stack[u + 1] \in TopFrames
    BY <2>1, ElementOfSeq DEF TopTypes
  <2>3. stack[u + 1].iRung = u
    BY DEF TopShape
  <2> QED
    BY <2>1, <2>2, <2>3 DEF TopFrames
<1>4. ASSUME NEW u \in 0..deep
      PROVE  Tb(u) \in Int /\ S(u) \in Nat /\ S(u) > 0 /\ H(u) \in Nat /\ H(u) > 0 /\ S(u) = 2 * H(u)
  <2>1. stack[u + 1] \in TopFrames /\ stack[u + 1].iRung = u /\ u \in Rung
    BY <1>3
  <2>2. S(u) \in Nat /\ S(u) > 0 /\ H(u) \in Nat /\ H(u) > 0 /\ S(u) = 2 * H(u)
    BY <2>1, StepHalves
  <2>3. stack[u + 1].dTime \in Int
    BY <2>1 DEF TopFrames
  <2> QED
    BY <2>1, <2>2, <2>3 DEF Tb, Begun
<1>5. Top!top = stack[deep + 1]
  BY <1>2 DEF Top!top
<1> QED
  BY <1>2, <1>3, <1>4, <1>5

\* The deepest call goes on.
LEMMA TopGoOn ==
  ASSUME TopTypes, TopShape, stack # <<>>, TopBegins, NEW e \in TopFrames, Top!GoOn(e),
         e.iRung = deep, e.iKickRung = Top!top.iKickRung, e.iAdjust = Top!top.iAdjust, e.at # "second",
         Begun(e) = Tb(deep), iStep' = iStep, pc' = pc
  PROVE  /\ stack' \in Seq(TopFrames) /\ stack' # <<>> /\ deep' = deep /\ Top!top' = e
         /\ \A u \in 0..deep : Begun(stack'[u + 1]) = Tb(u)
         /\ TopShape' /\ TopBegins'
<1>1. /\ deep \in Nat /\ Len(stack) = deep + 1 /\ Top!top = stack[deep + 1]
      /\ deep \in 0..deep
  BY TopCalls
<1>2. /\ stack' \in Seq(TopFrames) /\ Len(stack') = Len(stack) /\ stack' # <<>>
      /\ \A i \in 1..Len(stack) : stack'[i] = IF i = Len(stack) THEN e ELSE stack[i]
  BY SeqGoOn DEF Top!GoOn, TopTypes
<1>3. ASSUME NEW u \in 0..deep PROVE stack'[u + 1] = IF u = deep THEN e ELSE stack[u + 1]
  <2>1. u + 1 \in 1..Len(stack) /\ (u + 1 = Len(stack) <=> u = deep)
    BY <1>1
  <2>2. QED
    BY <2>1, <1>2
<1>4. deep' = deep
  BY <1>2 DEF deep
<1>5. Top!top' = e
  <2>1. Len(stack) \in 1..Len(stack)
    BY <1>1
  <2>2. QED
    BY <2>1, <1>2 DEF Top!top
<1>6. ASSUME NEW u \in 0..deep PROVE Begun(stack'[u + 1]) = Tb(u)
  BY <1>3 DEF Tb
<1>7. TopShape'
  <2>1. pc \in {"step", "aborted"} /\ stack[1].iKickRung = 0 /\ stack[1].iAdjust
    BY DEF TopShape
  <2>2. stack'[1].iKickRung = 0 /\ stack'[1].iAdjust
    <3>1. 0 \in 0..deep /\ 0 + 1 = 1
      BY <1>1
    <3>2. stack'[1] = IF 0 = deep THEN e ELSE stack[1]
      BY <1>3, <3>1
    <3>3. deep = 0 => Top!top = stack[1]
      BY <1>1
    <3> QED
      BY <2>1, <3>2, <3>3
  <2>3. ASSUME NEW u \in 0..deep
        PROVE  stack'[u + 1].iRung = u /\ stack'[u + 1].iKickRung <= u /\ (stack'[u + 1].at = "second" => u + 1 \in Rung)
    BY <1>1, <1>3 DEF TopShape
  <2>4. ASSUME NEW u \in 0..deep, u # deep
        PROVE  \/ stack'[u + 1].at = "second" /\ stack'[u + 2].iKickRung = u + 1
               \/ stack'[u + 1].at = "close" /\ stack'[u + 2].iKickRung = stack'[u + 1].iKickRung
    <3>1. u + 1 \in 0..deep /\ u + 1 + 1 = u + 2
      BY <1>1, <2>4
    <3>2. stack'[u + 2].iKickRung = stack[u + 2].iKickRung
      BY <1>1, <1>3, <3>1
    <3>3. stack'[u + 1] = stack[u + 1]
      BY <1>3, <2>4
    <3> QED
      BY <2>4, <3>2, <3>3 DEF TopShape
  <2> QED
    BY <1>2, <1>4, <2>1, <2>2, <2>3, <2>4 DEF TopShape
<1>8. TopBegins'
  <2>1. \A u \in 0..deep : Tb(u)' = Tb(u)
    BY <1>6 DEF Tb, Begun
  <2>2. 0 \in 0..deep
    BY <1>1
  <2>3. Tb(0)' = iStep' * S(0)
    BY <2>1, <2>2 DEF TopBegins
  <2>4. \A u \in 0..deep : Tb(u)' % S(u) = 0
    BY <2>1 DEF TopBegins
  <2>5. ASSUME NEW u \in 0..deep, u # deep
        PROVE  Tb(u + 1)' = IF stack'[u + 1].at = "second" THEN Tb(u)' ELSE Tb(u)' + H(u)
    <3>1. u + 1 \in 0..deep
      BY <1>1, <2>5
    <3>2. Tb(u + 1)' = Tb(u + 1) /\ Tb(u)' = Tb(u) /\ stack'[u + 1] = stack[u + 1]
      BY <1>3, <2>1, <2>5, <3>1
    <3> QED
      BY <2>5, <3>2 DEF TopBegins
  <2>6. \A u, w \in 0..deep : u <= w => Tb(w)' + S(w) <= Tb(u)' + S(u)
    BY <2>1 DEF TopBegins
  <2> QED
    BY <1>4, <2>3, <2>4, <2>5, <2>6 DEF TopBegins
<1> QED
  BY <1>2, <1>4, <1>5, <1>6, <1>7, <1>8

\* It makes a deeper call, at the beginning or in the middle of its step.
LEMMA TopCall ==
  ASSUME TopTypes, TopShape, stack # <<>>, TopBegins, deep + 1 \in Rung, NEW e \in TopFrames, NEW g \in TopFrames, Top!Call(e, g),
         e.iRung = deep, e.iKickRung = Top!top.iKickRung, e.iAdjust = Top!top.iAdjust,
         Begun(e) = Tb(deep), g.iRung = deep + 1, g.at = "start",
         \/ e.at = "second" /\ g.iKickRung = deep + 1 /\ g.dTime = Tb(deep)
         \/ e.at = "close" /\ g.iKickRung = e.iKickRung /\ g.dTime = Tb(deep) + H(deep),
         iStep' = iStep, pc' = pc
  PROVE  /\ stack' \in Seq(TopFrames) /\ stack' # <<>> /\ deep' = deep + 1 /\ Top!top' = g
         /\ \A u \in 0..deep : Begun(stack'[u + 1]) = Tb(u)
         /\ Begun(stack'[deep + 2]) = g.dTime
         /\ TopShape' /\ TopBegins'
<1>1. /\ deep \in Nat /\ Len(stack) = deep + 1 /\ Top!top = stack[deep + 1]
      /\ deep \in 0..deep /\ Tb(deep) \in Int
      /\ S(deep) \in Nat /\ S(deep) > 0 /\ H(deep) \in Nat /\ H(deep) > 0 /\ S(deep) = 2 * H(deep)
  BY TopCalls
<1>2. S(deep + 1) = H(deep)
  BY <1>1, StepHalves, TopCalls
<1>3. /\ stack' \in Seq(TopFrames) /\ Len(stack') = Len(stack) + 1 /\ stack' # <<>>
      /\ \A i \in 1..Len(stack) : stack'[i] = IF i = Len(stack) THEN e ELSE stack[i]
      /\ stack'[Len(stack) + 1] = g
  BY SeqCall DEF Top!Call, TopTypes
<1>4. ASSUME NEW u \in 0..deep PROVE stack'[u + 1] = IF u = deep THEN e ELSE stack[u + 1]
  <2>1. u + 1 \in 1..Len(stack) /\ (u + 1 = Len(stack) <=> u = deep)
    BY <1>1
  <2>2. QED
    BY <2>1, <1>3
<1>5. deep' = deep + 1 /\ Len(stack') = deep + 2
  <2>1. Len(stack') = deep + 2
    BY <1>1, <1>3
  <2>2. deep' = Len(stack') - 1
    BY DEF deep
  <2>3. QED
    BY <2>1, <2>2, <1>1
<1>6. Top!top' = g /\ stack'[deep + 2] = g
  <2>1. Len(stack) + 1 = deep + 2
    BY <1>1
  <2>2. QED
    BY <2>1, <1>3 DEF Top!top
<1>7. Begun(stack'[deep + 2]) = g.dTime
  BY <1>6 DEF Begun
<1>8. ASSUME NEW u \in 0..deep PROVE Begun(stack'[u + 1]) = Tb(u)
  BY <1>4 DEF Tb
<1>9. \A u \in 0..deep' : u = deep + 1 \/ (u \in 0..deep /\ u # deep + 1)
  BY <1>1, <1>5
<1>10. TopShape'
  <2>1. pc \in {"step", "aborted"} /\ stack[1].iKickRung = 0 /\ stack[1].iAdjust
    BY DEF TopShape
  <2>2. stack'[1].iKickRung = 0 /\ stack'[1].iAdjust
    <3>1. 0 \in 0..deep /\ 0 + 1 = 1
      BY <1>1
    <3>2. stack'[1] = IF 0 = deep THEN e ELSE stack[1]
      BY <1>4, <3>1
    <3>3. deep = 0 => Top!top = stack[1]
      BY <1>1
    <3> QED
      BY <2>1, <3>2, <3>3
  <2>3. ASSUME NEW u \in 0..deep
        PROVE  stack'[u + 1].iRung = u /\ stack'[u + 1].iKickRung <= u /\ (stack'[u + 1].at = "second" => u + 1 \in Rung)
    <3>1. CASE u = deep
      <4>1. stack'[u + 1] = e /\ e.iKickRung <= deep
        BY <1>1, <1>4, <3>1 DEF TopShape
      <4> QED
        BY <3>1, <4>1
    <3>2. CASE u # deep
      <4>1. stack'[u + 1] = stack[u + 1]
        BY <1>4, <3>2
      <4> QED
        BY <4>1 DEF TopShape
    <3> QED
      BY <3>1, <3>2
  <2>4. stack'[deep + 2].iRung = deep + 1 /\ stack'[deep + 2].iKickRung <= deep + 1 /\ stack'[deep + 2].at # "second"
    <3>1. e.iKickRung <= deep /\ e.iKickRung \in Nat
      <4>1. e.iKickRung <= deep
        BY <1>1 DEF TopShape
      <4>2. e.iKickRung \in Rung
        BY DEF TopFrames
      <4> QED
        BY <4>1, <4>2, RungNat
    <3>2. g.iKickRung <= deep + 1
      BY <1>1, <3>1
    <3> QED
      BY <1>6, <3>2
  <2>5. ASSUME NEW u \in 0..deep'
        PROVE  stack'[u + 1].iRung = u /\ stack'[u + 1].iKickRung <= u /\ (stack'[u + 1].at = "second" => u + 1 \in Rung)
    <3>1. CASE u = deep + 1
      <4>1. u + 1 = deep + 2
        BY <1>1, <3>1
      <4> QED
        BY <2>4, <3>1, <4>1
    <3>2. CASE u \in 0..deep
      BY <2>3, <3>2
    <3> QED
      BY <1>9, <3>1, <3>2
  <2>6. ASSUME NEW u \in 0..deep
        PROVE  \/ stack'[u + 1].at = "second" /\ stack'[u + 2].iKickRung = u + 1
               \/ stack'[u + 1].at = "close" /\ stack'[u + 2].iKickRung = stack'[u + 1].iKickRung
    <3>1. CASE u = deep
      BY <1>4, <1>6, <3>1
    <3>2. CASE u # deep
      <4>1. u + 1 \in 0..deep /\ u + 1 + 1 = u + 2
        BY <1>1, <3>2
      <4>2. stack'[u + 2].iKickRung = stack[u + 2].iKickRung
        BY <1>1, <1>4, <4>1
      <4>3. stack'[u + 1] = stack[u + 1]
        BY <1>4, <3>2
      <4> QED
        BY <3>2, <4>2, <4>3 DEF TopShape
    <3> QED
      BY <3>1, <3>2
  <2>7. \A u \in 0..deep' : u # deep' => u \in 0..deep
    BY <1>5, <1>9
  <2> QED
    BY <1>3, <2>1, <2>2, <2>5, <2>6, <2>7 DEF TopShape
<1>11. TopBegins'
  <2>1. \A u \in 0..deep : Tb(u)' = Tb(u)
    BY <1>8 DEF Tb, Begun
  <2>2. PICK n : n = deep + 1
    OBVIOUS
  <2>3. Tb(n)' = g.dTime
    <3>1. n + 1 = deep + 2
      BY <1>1, <2>2
    <3>2. Tb(n)' = Begun(stack'[deep + 2])
      BY <3>1 DEF Tb, Begun
    <3> QED
      BY <3>2, <1>7
  <2>4. 0 \in 0..deep /\ n \notin 0..deep
    BY <1>1, <2>2
  <2>5. Tb(0)' = iStep' * S(0)
    BY <2>1, <2>4 DEF TopBegins
  <2>6. g.dTime \in Int /\ g.dTime % S(n) = 0 /\ g.dTime + S(n) <= Tb(deep) + S(deep)
    <3>1. Tb(deep) % S(deep) = 0
      BY <1>1 DEF TopBegins
    <3>2. Tb(deep) % H(deep) = 0
      BY <1>1, <3>1, ModHalf
    <3>3. (Tb(deep) + H(deep)) % H(deep) = 0
      BY <1>1, <3>2, ModAdd
    <3>4. g.dTime = Tb(deep) \/ g.dTime = Tb(deep) + H(deep)
      OBVIOUS
    <3>5. S(n) = H(deep)
      BY <1>2, <2>2
    <3>6. PICK t \in Int, h \in Nat, d \in Int : t = Tb(deep) /\ h = H(deep) /\ d = g.dTime
      BY <1>1, <3>4
    <3>7. d + h <= t + 2 * h
      BY <3>4, <3>6
    <3>8. g.dTime % S(n) = 0
      BY <3>2, <3>3, <3>4, <3>5
    <3>9. g.dTime + S(n) <= Tb(deep) + S(deep)
      BY <1>1, <3>5, <3>6, <3>7
    <3> QED
      BY <3>6, <3>8, <3>9
  <2>7. ASSUME NEW u \in 0..deep' PROVE Tb(u)' % S(u) = 0
    <3>1. CASE u = n
      BY <2>3, <2>6, <3>1
    <3>2. CASE u \in 0..deep
      BY <2>1, <3>2 DEF TopBegins
    <3> QED
      BY <1>9, <2>2, <3>1, <3>2
  <2>8. ASSUME NEW u \in 0..deep
        PROVE  Tb(u + 1)' = IF stack'[u + 1].at = "second" THEN Tb(u)' ELSE Tb(u)' + H(u)
    <3>1. CASE u = deep
      <4>1. Tb(u + 1)' = g.dTime /\ Tb(u)' = Tb(deep) /\ stack'[u + 1] = e
        BY <1>4, <2>1, <2>2, <2>3, <3>1
      <4>2. g.dTime = IF e.at = "second" THEN Tb(deep) ELSE Tb(deep) + H(deep)
        OBVIOUS
      <4> QED
        BY <3>1, <4>1, <4>2
    <3>2. CASE u # deep
      <4>1. u + 1 \in 0..deep
        BY <1>1, <3>2
      <4>2. Tb(u + 1)' = Tb(u + 1) /\ Tb(u)' = Tb(u) /\ stack'[u + 1] = stack[u + 1]
        BY <1>4, <2>1, <3>2, <4>1
      <4> QED
        BY <3>2, <4>2 DEF TopBegins
    <3> QED
      BY <3>1, <3>2
  <2>9. ASSUME NEW u \in 0..deep', NEW w \in 0..deep', u <= w
        PROVE  Tb(w)' + S(w) <= Tb(u)' + S(u)
    <3>1. CASE w \in 0..deep
      <4>1. u \in 0..deep
        BY <1>1, <1>9, <2>9, <3>1
      <4> QED
        BY <2>1, <2>9, <3>1, <4>1 DEF TopBegins
    <3>2. CASE w = n
      <4>1. CASE u = n
        <5>1. Tb(n)' + S(n) \in Int
          BY <1>1, <1>2, <2>2, <2>3, <2>6
        <5> QED
          BY <3>2, <4>1, <5>1
      <4>2. CASE u \in 0..deep
        <5>1. Tb(deep) + S(deep) <= Tb(u) + S(u)
          BY <1>1, <4>2 DEF TopBegins
        <5>2. Tb(u) + S(u) \in Int /\ Tb(deep) + S(deep) \in Int /\ g.dTime + S(n) \in Int
          <6>1. Tb(u) \in Int /\ S(u) \in Nat
            BY <4>2, TopCalls
          <6>2. S(n) \in Nat
            BY <1>1, <1>2, <2>2
          <6>3. g.dTime \in Int
            BY <2>6
          <6>4. g.dTime + S(n) \in Int
            BY <6>2, <6>3
          <6>5. Tb(u) + S(u) \in Int
            BY <6>1
          <6>6. Tb(deep) + S(deep) \in Int
            BY <1>1
          <6> QED
            BY <6>4, <6>5, <6>6
        <5>3. g.dTime + S(n) <= Tb(u) + S(u)
          BY <2>6, <5>1, <5>2
        <5>4. Tb(u)' = Tb(u) /\ Tb(w)' = g.dTime /\ S(w) = S(n)
          BY <2>1, <2>3, <3>2, <4>2
        <5> QED
          BY <5>3, <5>4
      <4> QED
        BY <1>9, <2>2, <4>1, <4>2
    <3> QED
      BY <1>9, <2>2, <3>1, <3>2
  <2>10. \A u \in 0..deep' : u # deep' => u \in 0..deep
    BY <1>5, <1>9
  <2> QED
    BY <2>5, <2>7, <2>8, <2>9, <2>10 DEF TopBegins
<1> QED
  BY <1>3, <1>5, <1>6, <1>7, <1>8, <1>10, <1>11

\* A call returns.
LEMMA TopReturn ==
  ASSUME TopTypes, TopShape, stack # <<>>, TopBegins, stack' = SubSeq(stack, 1, Len(stack) - 1), iStep' = iStep, pc' = pc
  PROVE  /\ stack' \in Seq(TopFrames)
         /\ deep = 0 => stack' = <<>>
         /\ deep # 0 => /\ stack' # <<>> /\ deep' = deep - 1 /\ Top!top' = stack[deep]
                        /\ \A u \in 0..(deep - 1) : stack'[u + 1] = stack[u + 1]
                        /\ TopBegins'
         /\ TopShape'
<1>1. /\ deep \in Nat /\ Len(stack) = deep + 1 /\ Top!top = stack[deep + 1]
      /\ deep \in 0..deep
  BY TopCalls
<1>2. stack \in Seq(TopFrames) /\ Len(stack) - 1 = deep
  BY <1>1 DEF TopTypes
<1>3. stack' \in Seq(TopFrames) /\ Len(stack') = deep /\ \A i \in 1..deep : stack'[i] = stack[i]
  BY <1>1, <1>2
<1>4. CASE deep = 0
  <2>1. stack' = <<>>
    BY <1>3, <1>4, EmptySeq
  <2>2. deep' = -1
    <3>1. Len(stack') = 0
      BY <1>3, <1>4
    <3> QED
      BY <3>1 DEF deep
  <2>4. 0..deep' = {}
    BY <2>2
  <2>3. TopShape'
    BY <2>1, <2>4 DEF TopShape
  <2> QED
    BY <1>3, <1>4, <2>1, <2>3
<1>5. CASE deep # 0
  <2>1. stack' # <<>> /\ deep' = deep - 1 /\ Top!top' = stack[deep]
    <3>1. stack' # <<>>
      BY <1>1, <1>3, <1>5
    <3>2. deep' = deep - 1
      BY <1>3 DEF deep
    <3>3. Top!top' = stack'[deep]
      BY <1>3 DEF Top!top
    <3>4. deep \in 1..deep
      BY <1>1, <1>5
    <3> QED
      BY <1>3, <3>1, <3>2, <3>3, <3>4
  <2>2. ASSUME NEW u \in 0..(deep - 1) PROVE stack'[u + 1] = stack[u + 1] /\ u \in 0..deep /\ u # deep
    <3>1. u + 1 \in 1..deep /\ u \in 0..deep /\ u # deep
      BY <1>1
    <3> QED
      BY <1>3, <3>1
  <2>3. ASSUME NEW u \in 0..(deep - 1), u # deep - 1 PROVE stack'[u + 2] = stack[u + 2] /\ u + 1 \in 0..(deep - 1)
    <3>1. u + 2 \in 1..deep /\ u + 1 \in 0..(deep - 1)
      BY <1>1, <2>3
    <3> QED
      BY <1>3, <3>1
  <2>4. TopShape'
    <3>1. stack'[1] = stack[1]
      <4>1. 1 \in 1..deep
        BY <1>1, <1>5
      <4> QED
        BY <1>3, <4>1
    <3>2. pc' \in {"step", "aborted"} /\ stack'[1].iKickRung = 0 /\ stack'[1].iAdjust
      BY <3>1 DEF TopShape
    <3>3. \A u \in 0..(deep - 1) : stack'[u + 1].iRung = u /\ stack'[u + 1].iKickRung <= u
                                   /\ (stack'[u + 1].at = "second" => u + 1 \in Rung)
      BY <2>2 DEF TopShape
    <3>4. \A u \in 0..(deep - 1) : u # deep - 1 =>
            \/ stack'[u + 1].at = "second" /\ stack'[u + 2].iKickRung = u + 1
            \/ stack'[u + 1].at = "close" /\ stack'[u + 2].iKickRung = stack'[u + 1].iKickRung
      <4>1. ASSUME NEW u \in 0..(deep - 1), u # deep - 1
            PROVE  \/ stack'[u + 1].at = "second" /\ stack'[u + 2].iKickRung = u + 1
                   \/ stack'[u + 1].at = "close" /\ stack'[u + 2].iKickRung = stack'[u + 1].iKickRung
        <5>1. stack'[u + 1] = stack[u + 1] /\ stack'[u + 2] = stack[u + 2] /\ u \in 0..deep /\ u # deep
          BY <2>2, <2>3, <4>1
        <5>2. \/ stack[u + 1].at = "second" /\ stack[u + 2].iKickRung = u + 1
              \/ stack[u + 1].at = "close" /\ stack[u + 2].iKickRung = stack[u + 1].iKickRung
          BY <5>1 DEF TopShape
        <5> QED
          BY <5>1, <5>2
      <4> QED
        BY <4>1
    <3> QED
      BY <2>1, <3>2, <3>3, <3>4 DEF TopShape
  <2>5. TopBegins'
    <3>1. \A u \in 0..(deep - 1) : Tb(u)' = Tb(u)
      BY <2>2 DEF Tb, Begun
    <3>2. 0 \in 0..(deep - 1)
      BY <1>1, <1>5
    <3>3. Tb(0)' = iStep' * S(0)
      BY <3>1, <3>2 DEF TopBegins
    <3>4. \A u \in 0..(deep - 1) : Tb(u)' % S(u) = 0
      BY <2>2, <3>1 DEF TopBegins
    <3>5. ASSUME NEW u \in 0..(deep - 1), u # deep - 1
          PROVE  Tb(u + 1)' = IF stack'[u + 1].at = "second" THEN Tb(u)' ELSE Tb(u)' + H(u)
      <4>1. Tb(u + 1)' = Tb(u + 1) /\ Tb(u)' = Tb(u)
        BY <2>3, <3>1, <3>5
      <4> QED
        BY <2>2, <4>1 DEF TopBegins
    <3>6. \A u, w \in 0..(deep - 1) : u <= w => Tb(w)' + S(w) <= Tb(u)' + S(u)
      BY <2>2, <3>1 DEF TopBegins
    <3> QED
      BY <2>1, <3>3, <3>4, <3>5, <3>6 DEF TopBegins
  <2> QED
    BY <1>3, <1>5, <2>1, <2>2, <2>4, <2>5
<1> QED
  BY <1>4, <1>5

\* What an action at "at" knows of the calls.
LEMMA TopAt ==
  ASSUME TopInv, NEW at, Top!At(at)
  PROVE  /\ TopTypes /\ TopShape /\ TopBegins /\ TopClock /\ Fresh /\ (Top!Regular => TopRegular)
         /\ stack # <<>> /\ Top!top.at = at /\ pc = "step" /\ Top!top = stack[deep + 1]
         /\ deep \in Nat /\ deep \in Rung /\ deep \in 0..deep /\ Top!top \in TopFrames /\ Top!top.iRung = deep
         /\ Tb(deep) \in Int /\ S(deep) \in Nat /\ S(deep) > 0 /\ H(deep) \in Nat /\ H(deep) > 0 /\ S(deep) = 2 * H(deep)
         /\ Top!top.dTime \in Int /\ Top!top.iKickRung \in Nat /\ Top!top.iKickRung <= deep
         /\ Tb(deep) = Begun(Top!top)
         /\ at # "close" => Top!top.dTime = Tb(deep)
         /\ at = "close" => Top!top.dTime = Tb(deep) + H(deep)
         /\ \A p \in TopParticles : x[p] = Now
<1>1. TopTypes /\ TopShape /\ TopClock /\ Fresh /\ (Top!Regular => TopRegular)
  BY DEF TopInv
<1>2. stack # <<>> /\ Top!top.at = at /\ pc = "step"
  BY DEF Top!At
<1>3. TopBegins /\ \A p \in TopParticles : x[p] = Now
  BY <1>1, <1>2 DEF TopClock
<1>4. /\ Top!top = stack[deep + 1]
      /\ deep \in Nat /\ deep \in Rung /\ deep \in 0..deep /\ Top!top \in TopFrames /\ Top!top.iRung = deep
      /\ Tb(deep) \in Int /\ S(deep) \in Nat /\ S(deep) > 0 /\ H(deep) \in Nat /\ H(deep) > 0 /\ S(deep) = 2 * H(deep)
  BY <1>1, <1>2, TopCalls
<1>5. Tb(deep) = Begun(Top!top)
  BY <1>4 DEF Tb
<1>6. Top!top.dTime \in Int /\ Top!top.iKickRung \in Rung
  BY <1>4 DEF TopFrames
<1>7. Top!top.iKickRung \in Nat /\ Top!top.iKickRung <= deep
  BY <1>1, <1>4, <1>6, RungNat DEF TopShape
<1>8. at # "close" => Top!top.dTime = Tb(deep)
  BY <1>2, <1>5 DEF Begun
<1>9. at = "close" => Top!top.dTime = Tb(deep) + H(deep)
  BY <1>2, <1>4, <1>5, <1>6 DEF Begun
<1> QED
  BY <1>1, <1>2, <1>3, <1>4, <1>5, <1>6, <1>7, <1>8, <1>9

\* The types of what a particle has.
LEMMA TopParticleTypes ==
  ASSUME TopTypes, NEW p \in TopParticles
  PROVE  x[p] \in Int /\ v[p] \in Int /\ open[p] \in BOOLEAN /\ rung[p] \in 0..MaxRung /\ rung[p] \in Nat /\ uNewRung[p] \in 0..MaxRung /\ uNewRung[p] \in Nat
<1>1. x[p] \in Int /\ v[p] \in Int /\ open[p] \in BOOLEAN /\ rung[p] \in 0..MaxRung /\ uNewRung[p] \in 0..MaxRung
  BY DEF TopTypes
<1>2. MaxRung \in Nat
  BY MaxRungType
<1> QED
  BY <1>1, <1>2

\* What UpdateRung does to the particles.
LEMMA UpdateResult ==
  ASSUME TopTypes, NEW u \in Rung, NEW m \in 0..MaxRung, Top!Update(u, m)
  PROVE  /\ rung' \in [TopParticles -> 0..MaxRung] /\ uNewRung' \in [TopParticles -> 0..MaxRung]
         /\ nRungCount' \in [0..MaxRung -> Nat]
         /\ \A p \in TopParticles : IF rung[p] < u THEN rung'[p] = rung[p] ELSE rung'[p] >= u
         /\ m = MaxRung /\ rung \in [TopParticles -> Rung] /\ uNewRung \in [TopParticles -> Rung] =>
              /\ rung' \in [TopParticles -> Rung] /\ uNewRung' \in [TopParticles -> Rung]
              /\ \A i \in Rung : nRungCount'[i] # 0 <=> \E p \in TopParticles : rung'[p] = i
<1>1. MaxRung \in Nat /\ MaxRung > 0 /\ u \in 0..MaxRung /\ u \in Nat /\ m \in Nat
  BY MaxRungType DEF Rung
<1>2. /\ uNewRung' = [p \in TopParticles |-> IF p \in Top!Active(u) /\ uNewRung[p] > m THEN m ELSE uNewRung[p]]
      /\ rung' = [p \in TopParticles |-> IF p \in Top!Active(u) THEN Top!NewRung(p, u, m) ELSE rung[p]]
      /\ nRungCount' = Top!Counts(m, rung')
  BY DEF Top!Update
<1>3. ASSUME NEW p \in TopParticles
      PROVE  /\ Top!NewRung(p, u, m) \in 0..MaxRung /\ Top!NewRung(p, u, m) >= u
             /\ p \in Top!Active(u) <=> rung[p] >= u
             /\ m = MaxRung /\ uNewRung[p] \in Rung => Top!NewRung(p, u, m) \in Rung /\ ~ (uNewRung[p] > m)
  <2>1. uNewRung[p] \in Nat /\ uNewRung[p] \in 0..MaxRung
    BY TopParticleTypes
  <2>2. PICK n : n = IF uNewRung[p] > m THEN m ELSE uNewRung[p]
    OBVIOUS
  <2>3. Top!NewRung(p, u, m) = IF n >= u THEN n ELSE u
    BY <2>2 DEF Top!NewRung
  <2>4. n \in 0..MaxRung /\ n \in Nat
    BY <1>1, <2>1, <2>2
  <2>5. m = MaxRung /\ uNewRung[p] \in Rung => n \in Rung /\ ~ (uNewRung[p] > m)
    BY <1>1, <2>1, <2>2 DEF Rung
  <2> QED
    BY <1>1, <2>3, <2>4, <2>5 DEF Top!Active
<1>4. rung' \in [TopParticles -> 0..MaxRung]
  BY <1>2, <1>3 DEF TopTypes
<1>5. uNewRung' \in [TopParticles -> 0..MaxRung]
  BY <1>2 DEF TopTypes
<1>6. ASSUME NEW p \in TopParticles PROVE IF rung[p] < u THEN rung'[p] = rung[p] ELSE rung'[p] >= u
  <2>1. rung[p] \in Nat
    BY TopParticleTypes
  <2>2. rung'[p] = IF rung[p] >= u THEN Top!NewRung(p, u, m) ELSE rung[p]
    BY <1>2, <1>3
  <2> QED
    BY <1>1, <1>3, <2>1, <2>2
<1> DEFINE On(A, i) == {p \in A : rung'[p] = i}
<1>7. \A A \in SUBSET TopParticles : \A i : IsFiniteSet(On(A, i)) /\ Cardinality(On(A, i)) \in Nat
  <2>1. ASSUME NEW A \in SUBSET TopParticles, NEW i PROVE IsFiniteSet(On(A, i))
    <3>1. On(A, i) \subseteq TopParticles
      OBVIOUS
    <3> QED
      BY <3>1, ParticleSets, FS_Subset
  <2> QED
    BY <2>1, FS_CardinalityType
<1>8. nRungCount' = [i \in 0..MaxRung |-> IF i < m THEN Cardinality(On(TopParticles, i))
                                          ELSE IF i = m THEN Cardinality(On(First, i))
                                          ELSE nRungCount[i] + Cardinality(On(First, i))]
  BY <1>2, SameCardinality DEF Top!Counts
<1>9. nRungCount' \in [0..MaxRung -> Nat]
  <2>1. ASSUME NEW i \in 0..MaxRung
        PROVE  (IF i < m THEN Cardinality(On(TopParticles, i))
                ELSE IF i = m THEN Cardinality(On(First, i))
                ELSE nRungCount[i] + Cardinality(On(First, i))) \in Nat
    <3>1. Cardinality(On(TopParticles, i)) \in Nat /\ Cardinality(On(First, i)) \in Nat
      BY <1>7, ParticleSets
    <3>2. nRungCount[i] \in Nat
      BY DEF TopTypes
    <3> HIDE DEF On
    <3> QED
      BY <3>1, <3>2
  <2> QED
    BY <1>8, <2>1
<1>10. ASSUME m = MaxRung, rung \in [TopParticles -> Rung], uNewRung \in [TopParticles -> Rung]
       PROVE  /\ rung' \in [TopParticles -> Rung] /\ uNewRung' \in [TopParticles -> Rung]
              /\ \A i \in Rung : nRungCount'[i] # 0 <=> \E p \in TopParticles : rung'[p] = i
  <2>1. rung' \in [TopParticles -> Rung]
    BY <1>2, <1>3, <1>10
  <2>2. uNewRung' \in [TopParticles -> Rung]
    BY <1>2, <1>3, <1>10
  <2>3. ASSUME NEW i \in Rung PROVE nRungCount'[i] # 0 <=> \E p \in TopParticles : rung'[p] = i
    <3>1. i \in 0..MaxRung /\ i < m
      BY <1>1, <1>10 DEF Rung
    <3>2. nRungCount'[i] = Cardinality(On(TopParticles, i))
      BY <1>8, <3>1
    <3>3. Cardinality(On(TopParticles, i)) = 0 <=> On(TopParticles, i) = {}
      BY <1>7, FS_EmptySet
    <3> QED
      BY <3>2, <3>3
  <2> QED
    BY <2>1, <2>2, <2>3
<1> QED
  BY <1>4, <1>5, <1>6, <1>9, <1>10

\* The deepest rung with particles, by the counts.
LEMMA OutMaxRung ==
  ASSUME TopTypes
  PROVE  /\ Top!iOutMaxRung \in Rung
         /\ \A i \in Rung : nRungCount[i] # 0 => i <= Top!iOutMaxRung
         /\ Top!iOutMaxRung # 0 => nRungCount[Top!iOutMaxRung] # 0
<1> DEFINE A == {0} \cup {i \in 0..(MaxRung - 1) : nRungCount[i] # 0}
<1>1. MaxRung - 1 \in Nat
  BY MaxRungType
<1>2. A \in SUBSET (0..(MaxRung - 1)) /\ A # {}
  BY <1>1
<1>3. Top!Max(A) \in A /\ \A k \in A : k <= Top!Max(A)
  BY <1>1, <1>2, MaxIs
<1>4. Top!iOutMaxRung = Top!Max(A)
  BY DEF Top!iOutMaxRung
<1>5. \A i \in Rung : nRungCount[i] # 0 => i \in A
  BY DEF Rung
<1> QED
  BY <1>2, <1>3, <1>4, <1>5 DEF Rung

\* The deepest call goes on among the points before its kick.
LEMMA OpeningStay ==
  ASSUME TopInv, NEW at \in Opening, NEW at2 \in Opening, Top!At(at), Top!GoOn([Top!top EXCEPT !.at = at2]),
         UNCHANGED <<param, x, v, open, a, pc, iStep, arg>>,
         rung' \in [TopParticles -> 0..MaxRung], uNewRung' \in [TopParticles -> 0..MaxRung],
         nRungCount' \in [0..MaxRung -> Nat], iCurrMaxRung' \in Rung,
         \A p \in TopParticles : IF rung[p] < deep THEN rung'[p] = rung[p] ELSE rung'[p] >= deep
  PROVE  /\ TopTypes' /\ TopShape' /\ TopClock' /\ Fresh' /\ (Top!Regular => TopVelocities')
         /\ deep' = deep /\ Top!top'.at = at2 /\ stack' # <<>>
<1> DEFINE e == [Top!top EXCEPT !.at = at2]
<1>1. Top!GoOn(e)
  OBVIOUS
<1>2. /\ TopTypes /\ TopShape /\ TopBegins /\ Fresh /\ (Top!Regular => TopRegular)
      /\ stack # <<>> /\ Top!top.at = at /\ pc = "step"
      /\ deep \in Nat /\ deep \in 0..deep /\ Top!top \in TopFrames /\ Top!top.iRung = deep
      /\ Tb(deep) = Top!top.dTime
      /\ \A p \in TopParticles : x[p] = Now
  BY TopAt DEF Opening
<1>3. /\ e \in TopFrames /\ e.iRung = deep /\ e.iKickRung = Top!top.iKickRung /\ e.iAdjust = Top!top.iAdjust
      /\ e.at = at2 /\ e.at # "second" /\ Begun(e) = Tb(deep)
  BY <1>2 DEF TopFrames, Opening, Begun
<1> HIDE DEF e
<1>4. /\ stack' \in Seq(TopFrames) /\ stack' # <<>> /\ deep' = deep /\ Top!top' = e
      /\ \A u \in 0..deep : Begun(stack'[u + 1]) = Tb(u)
      /\ TopShape' /\ TopBegins'
  BY <1>1, <1>2, <1>3, TopGoOn
<1>5. TopTypes'
  BY <1>2, <1>4 DEF TopTypes
<1>6. \A u \in 0..deep : Tb(u)' = Tb(u)
  BY <1>4 DEF Tb, Begun
<1>7. PICK n : n = deep
  OBVIOUS
<1>8. Now = Tb(n) /\ Now' = Tb(n)
  <2>1. Now = Tb(n)
    BY <1>2, <1>7 DEF Now, Opening
  <2>2. Now' = Tb(n)'
    BY <1>3, <1>4, <1>7 DEF Now, Opening
  <2> QED
    BY <1>2, <1>6, <1>7, <2>1, <2>2
<1>9. TopClock'
  BY <1>2, <1>4, <1>8 DEF TopClock
<1>10. StaleBelow = deep /\ StaleBelow' = deep
  BY <1>2, <1>3, <1>4 DEF StaleBelow, Opening
<1>11. \A p \in TopParticles : rung[p] \in Nat /\ rung'[p] \in Nat
  BY <1>2, <1>5, MaxRungType DEF TopTypes
<1>12. Fresh'
  <2>1. ASSUME NEW p \in TopParticles, ~ (a[p] = x[p]) PROVE rung'[p] < deep
    <3>1. rung[p] < deep
      BY <1>2, <1>10, <2>1 DEF Fresh
    <3> QED
      BY <3>1
  <2> QED
    BY <1>2, <1>4, <1>10, <2>1 DEF Fresh
<1>13. ASSUME Top!Regular PROVE TopVelocities'
  <2>1. TopVelocities
    BY <1>2, <1>13 DEF TopRegular
  <2>2. ASSUME NEW r PROVE (InStep(r) <=> r < deep) /\ (InStep(r)' <=> r < deep)
    BY <1>2, <1>3, <1>4 DEF InStep, Opening, Kicked
  <2>3. ASSUME NEW p \in TopParticles
        PROVE  IF InStep(rung[p])' THEN open'[p] /\ v'[p] = Tb(rung[p])' + H(rung'[p]) ELSE ~open'[p] /\ v'[p] = x'[p]
    <3>1. PICK r, s : r = rung[p] /\ s = rung'[p]
      OBVIOUS
    <3>2. InStep(rung[p])' <=> s < deep
      BY <2>2, <3>1
    <3>3. CASE r < deep
      <4>1. s = r /\ r \in 0..deep
        BY <1>2, <1>11, <3>1, <3>3
      <4>2. open[p] /\ v[p] = Tb(r) + H(r)
        BY <2>1, <2>2, <3>1, <3>3 DEF TopVelocities
      <4>3. Tb(rung[p])' = Tb(s)'
        BY <3>1
      <4>4. Tb(s)' = Tb(r)
        BY <1>6, <4>1
      <4> QED
        BY <3>1, <3>2, <3>3, <4>1, <4>2, <4>3, <4>4
    <3>4. CASE ~ (r < deep)
      <4>1. ~ (s < deep)
        BY <1>2, <1>11, <3>1, <3>4
      <4>2. ~open[p] /\ v[p] = x[p]
        BY <2>1, <2>2, <3>1, <3>4 DEF TopVelocities
      <4> QED
        BY <3>2, <4>1, <4>2
    <3> QED
      BY <3>3, <3>4
  <2> QED
    BY <2>3 DEF TopVelocities
<1> QED
  BY <1>3, <1>4, <1>5, <1>9, <1>12, <1>13

------------------------------------------------------------------------------
(* The steps of TopStepKDK keep it and are what is promised of them *)

\* The three statements of a step.
TopGood == Top!LeapFrogStep /\ Top!ForcesCurrentStep /\ Top!KickTimed

\* A step that moves no particle makes none of them false,
LEMMA TopStillGood ==
  ASSUME TopTypes, Top!Regular => rung \in [TopParticles -> Rung], UNCHANGED <<x, v, rung, open>>, Top!Regular => pc' # "aborted"
  PROVE  TopGood
<1>1. ASSUME Top!Regular PROVE Top!Leap!Kick
  <2>1. v' \in [TopParticles -> Int] /\ rung' \in [TopParticles -> Rung] /\ open' \in [TopParticles -> BOOLEAN] /\ x' = x
    BY <1>1 DEF TopTypes
  <2>2. \A p \in TopParticles : v'[p] = v[p] /\ Top!Leap!Unkicked(p)
    BY DEF Top!Leap!Unkicked
  <2> QED
    BY <2>1, <2>2 DEF Top!Leap!Kick, Top!Leap!Rung, Rung
<1>2. Top!LeapFrogStep
  BY <1>1 DEF Top!LeapFrogStep, Top!Leap!Next
<1>3. Top!ForcesCurrentStep /\ Top!KickTimed
  BY DEF Top!ForcesCurrentStep, Top!KickTimed
<1> QED
  BY <1>2, <1>3 DEF TopGood

\* nor does one that gives new rungs to particles which are not within a step.
LEMMA AdjustGood ==
  ASSUME TopInv, NEW at \in Opening, Top!At(at),
         UNCHANGED <<x, v, open, pc>>,
         Top!Regular => rung' \in [TopParticles -> Rung],
         \A p \in TopParticles : IF rung[p] < deep THEN rung'[p] = rung[p] ELSE rung'[p] >= deep
  PROVE  TopGood
<1>1. TopTypes /\ (Top!Regular => TopRegular) /\ stack # <<>> /\ Top!top.at = at /\ pc = "step" /\ deep \in Nat
  BY TopAt
<1>2. ASSUME Top!Regular PROVE Top!Leap!Kick
  <2>1. v' \in [TopParticles -> Int] /\ rung' \in [TopParticles -> Rung] /\ open' \in [TopParticles -> BOOLEAN] /\ x' = x
    BY <1>1, <1>2 DEF TopTypes
  <2>2. ASSUME NEW p \in TopParticles PROVE v'[p] = v[p] /\ (Top!Leap!Unkicked(p) \/ Top!Leap!Adjust(p))
    <3>1. CASE rung[p] < deep
      BY <3>1 DEF Top!Leap!Unkicked
    <3>2. CASE ~ (rung[p] < deep)
      <4>1. ~InStep(rung[p])
        BY <1>1, <3>2 DEF InStep, Opening, Kicked
      <4>2. ~open[p]
        BY <1>1, <1>2, <4>1 DEF TopRegular, TopVelocities
      <4>3. rung'[p] \in Top!Leap!Rung
        BY <2>1 DEF Top!Leap!Rung, Rung
      <4> QED
        BY <4>2, <4>3 DEF Top!Leap!Adjust
    <3> QED
      BY <3>1, <3>2
  <2> QED
    BY <2>1, <2>2 DEF Top!Leap!Kick, Top!Leap!Rung, Rung
<1>3. Top!LeapFrogStep
  BY <1>1, <1>2 DEF Top!LeapFrogStep, Top!Leap!Next
<1>4. Top!ForcesCurrentStep /\ Top!KickTimed
  BY DEF Top!ForcesCurrentStep, Top!KickTimed
<1> QED
  BY <1>3, <1>4 DEF TopGood

\* The parameters do not change.
LEMMA ParamStays == ASSUME param' = param PROVE Top!Regular' <=> Top!Regular
BY DEF Top!Regular

\* A call that leaves the rungs alone.
LEMMA StartNoAdjustInv ==
  ASSUME TopInv, Top!StartNoAdjust
  PROVE  TopInv' /\ TopGood
<1>1. /\ Top!At("start") /\ ~Top!Adjusts /\ Top!GoOn([Top!top EXCEPT !.at = "open"])
      /\ UNCHANGED <<param, x, v, rung, open, uNewRung, a, nRungCount, iCurrMaxRung, pc, iStep, arg>>
  BY DEF Top!StartNoAdjust, Top!leapVars
<1>2. /\ TopTypes /\ TopShape /\ (Top!Regular => TopRegular) /\ stack # <<>> /\ Top!top.at = "start" /\ pc = "step"
      /\ Top!top = stack[deep + 1] /\ deep \in Nat /\ Top!top.iRung = deep
  BY <1>1, TopAt
<1>3. \A p \in TopParticles : IF rung[p] < deep THEN rung'[p] = rung[p] ELSE rung'[p] >= deep
  <2>1. ASSUME NEW p \in TopParticles PROVE IF rung[p] < deep THEN rung'[p] = rung[p] ELSE rung'[p] >= deep
    <3>1. rung[p] \in Nat /\ rung'[p] = rung[p]
      BY <1>1, <1>2, TopParticleTypes
    <3> QED
      BY <1>2, <3>1
  <2> QED
    BY <2>1
<1>4. /\ TopTypes' /\ TopShape' /\ TopClock' /\ Fresh' /\ (Top!Regular => TopVelocities')
      /\ deep' = deep /\ Top!top'.at = "open" /\ stack' # <<>>
  <2>1. /\ rung' \in [TopParticles -> 0..MaxRung] /\ uNewRung' \in [TopParticles -> 0..MaxRung]
        /\ nRungCount' \in [0..MaxRung -> Nat] /\ iCurrMaxRung' \in Rung
    BY <1>1, <1>2 DEF TopTypes
  <2>2. "start" \in Opening /\ "open" \in Opening
    BY DEF Opening
  <2> QED
    BY <1>1, <1>3, <2>1, <2>2, OpeningStay
<1>5. ASSUME Top!Regular PROVE TopRegular'
  <2>1. TopRegular
    BY <1>2, <1>5
  <2>2. (\A p \in TopParticles : rung[p] <= iCurrMaxRung) /\ \E p \in TopParticles : rung[p] = iCurrMaxRung
    <3>1. CASE Settled
      BY <2>1, <3>1 DEF TopRegular, TopDeepest
    <3>2. CASE ~Settled
      <4>1. deep = 0 /\ MaxRung > 1
        BY <1>2, <3>2 DEF Settled
      <4>2. Top!top.iAdjust
        BY <1>2, <4>1 DEF TopShape
      <4>3. Top!top.iRung < MaxRung - 1
        BY <1>2, <4>1, MaxRungType
      <4> QED
        BY <1>1, <4>2, <4>3 DEF Top!Adjusts
    <3> QED
      BY <3>1, <3>2
  <2>3. \E p \in TopParticles : rung[p] >= deep
    BY <1>2, <2>1 DEF TopRegular, TopDeepest
  <2>4. TopDeepest'
    BY <1>1, <1>4, <2>2, <2>3 DEF TopDeepest
  <2> QED
    BY <1>1, <1>2, <1>4, <1>5, <2>1, <2>4 DEF TopRegular
<1>6. TopInv'
  BY <1>1, <1>4, <1>5, ParamStays DEF TopInv
<1>7. TopGood
  BY <1>1, <1>2, TopStillGood DEF TopRegular
<1> QED
  BY <1>6, <1>7

\* UpdateRung, once the rungs to come are known.
LEMMA UpdateInv ==
  ASSUME TopInv, NEW at \in {"start", "update", "truncate"}, at # "start" => ~Top!Regular, Top!At(at),
         NEW m \in 0..MaxRung, at # "truncate" => m = MaxRung,
         Top!Update(Top!top.iRung, m), Top!GoOn([Top!top EXCEPT !.at = "truncate"]),
         UNCHANGED <<param, x, v, open, a, iCurrMaxRung, pc, iStep, arg>>
  PROVE  TopInv' /\ TopGood
<1>1. at \in Opening /\ "truncate" \in Opening
  BY DEF Opening
<1>2. /\ TopTypes /\ (Top!Regular => TopRegular) /\ stack # <<>> /\ Top!top.at = at /\ pc = "step"
      /\ deep \in Nat /\ deep \in Rung /\ Top!top.iRung = deep
  BY TopAt
<1>3. Top!Update(deep, m)
  BY <1>2
<1>4. /\ rung' \in [TopParticles -> 0..MaxRung] /\ uNewRung' \in [TopParticles -> 0..MaxRung]
      /\ nRungCount' \in [0..MaxRung -> Nat]
      /\ \A p \in TopParticles : IF rung[p] < deep THEN rung'[p] = rung[p] ELSE rung'[p] >= deep
      /\ m = MaxRung /\ rung \in [TopParticles -> Rung] /\ uNewRung \in [TopParticles -> Rung] =>
           /\ rung' \in [TopParticles -> Rung] /\ uNewRung' \in [TopParticles -> Rung]
           /\ \A i \in Rung : nRungCount'[i] # 0 <=> \E p \in TopParticles : rung'[p] = i
  BY <1>2, <1>3, UpdateResult
<1>5. /\ TopTypes' /\ TopShape' /\ TopClock' /\ Fresh' /\ (Top!Regular => TopVelocities')
      /\ deep' = deep /\ Top!top'.at = "truncate" /\ stack' # <<>>
  <2>1. iCurrMaxRung' \in Rung
    BY <1>2 DEF TopTypes
  <2> QED
    BY <1>1, <1>4, <2>1, OpeningStay
<1>6. ASSUME Top!Regular
      PROVE  rung' \in [TopParticles -> Rung] /\ uNewRung' \in [TopParticles -> Rung] /\ TopRegular'
  <2>1. TopRegular /\ m = MaxRung
    BY <1>2, <1>6
  <2>2. /\ rung' \in [TopParticles -> Rung] /\ uNewRung' \in [TopParticles -> Rung]
        /\ \A i \in Rung : nRungCount'[i] # 0 <=> \E p \in TopParticles : rung'[p] = i
    BY <1>4, <2>1 DEF TopRegular
  <2>3. \E p \in TopParticles : rung'[p] >= deep
    <3>1. PICK p \in TopParticles : rung[p] >= deep
      BY <1>2, <1>6, <2>1 DEF TopRegular, TopDeepest
    <3>2. rung[p] \in Nat
      BY <1>2, TopParticleTypes
    <3> QED
      BY <1>2, <1>4, <3>1, <3>2
  <2>4. TopDeepest'
    BY <1>5, <2>2, <2>3 DEF TopDeepest, Settled
  <2> QED
    BY <1>2, <1>5, <1>6, <2>2, <2>4 DEF TopRegular
<1>7. TopInv'
  BY <1>5, <1>6, ParamStays DEF TopInv
<1>8. TopGood
  BY <1>1, <1>4, <1>6, AdjustGood
<1> QED
  BY <1>7, <1>8

\* At the start of a call,
LEMMA StartAdjustInv ==
  ASSUME TopInv, Top!StartAdjust
  PROVE  TopInv' /\ TopGood
<1>1. /\ Top!At("start") /\ Top!Update(Top!top.iRung, MaxRung) /\ Top!GoOn([Top!top EXCEPT !.at = "truncate"])
      /\ UNCHANGED <<param, x, v, open, a, iCurrMaxRung, pc, iStep, arg>>
  BY DEF Top!StartAdjust
<1>2. MaxRung \in 0..MaxRung
  BY MaxRungType
<1>3. PICK m \in 0..MaxRung : m = MaxRung
  BY <1>2
<1>4. Top!Update(Top!top.iRung, m)
  BY <1>1, <1>3
<1>5. PICK at \in {"start", "update", "truncate"} : at = "start"
  OBVIOUS
<1>6. Top!At(at)
  BY <1>1, <1>5
<1>7. at # "start" => ~Top!Regular
  BY <1>5
<1>8. at # "truncate" => m = MaxRung
  BY <1>3
<1> QED
  BY <1>1, <1>4, <1>6, <1>7, <1>8, UpdateInv

\* or after DensityStep,
LEMMA UpdateAfterDensityStepInv ==
  ASSUME TopInv, Top!UpdateAfterDensityStep
  PROVE  TopInv' /\ TopGood
<1>1. /\ Top!At("update") /\ Top!Update(Top!top.iRung, MaxRung) /\ Top!GoOn([Top!top EXCEPT !.at = "truncate"])
      /\ UNCHANGED <<param, x, v, open, a, iCurrMaxRung, pc, iStep, arg>>
  BY DEF Top!UpdateAfterDensityStep
<1>2. MaxRung \in 0..MaxRung
  BY MaxRungType
<1>3. ~Top!Regular
  BY <1>1, TopAt DEF TopRegular
<1>4. PICK m \in 0..MaxRung : m = MaxRung
  BY <1>2
<1>5. Top!Update(Top!top.iRung, m)
  BY <1>1, <1>4
<1> QED
  BY <1>1, <1>3, <1>4, <1>5, UpdateInv

\* which may send particles to a rung that takes no steps;
LEMMA DensityStepInv ==
  ASSUME TopInv, Top!DensityStep
  PROVE  TopInv' /\ TopGood
<1>1. /\ Top!At("start") /\ param.bDensityStep /\ Top!GoOn([Top!top EXCEPT !.at = "update"])
      /\ UNCHANGED <<param, x, v, rung, open, a, nRungCount, iCurrMaxRung, pc, iStep, arg>>
  BY DEF Top!DensityStep, Top!leapVars
<1>2. TopTypes /\ deep \in Nat /\ Top!top.iRung = deep /\ stack # <<>>
  BY <1>1, TopAt
<1>3. uNewRung' \in [TopParticles -> 0..MaxRung]
  <2>1. PICK new \in [Top!Active(Top!top.iRung) -> 0..MaxRung] :
          uNewRung' = [p \in TopParticles |-> IF p \in Top!Active(Top!top.iRung) THEN new[p] ELSE uNewRung[p]]
    BY DEF Top!DensityStep
  <2> QED
    BY <1>2, <2>1 DEF TopTypes
<1>4. ~Top!Regular
  BY <1>1 DEF Top!Regular
<1>5. \A p \in TopParticles : IF rung[p] < deep THEN rung'[p] = rung[p] ELSE rung'[p] >= deep
  <2>1. ASSUME NEW p \in TopParticles PROVE IF rung[p] < deep THEN rung'[p] = rung[p] ELSE rung'[p] >= deep
    <3>1. rung[p] \in Nat /\ rung'[p] = rung[p]
      BY <1>1, <1>2, TopParticleTypes
    <3> QED
      BY <1>2, <3>1
  <2> QED
    BY <2>1
<1>6. TopTypes' /\ TopShape' /\ TopClock' /\ Fresh'
  <2>1. rung' \in [TopParticles -> 0..MaxRung] /\ nRungCount' \in [0..MaxRung -> Nat] /\ iCurrMaxRung' \in Rung
    BY <1>1, <1>2 DEF TopTypes
  <2>2. "start" \in Opening /\ "update" \in Opening
    BY DEF Opening
  <2> QED
    BY <1>1, <1>3, <1>5, <2>1, <2>2, OpeningStay
<1>7. TopInv'
  BY <1>1, <1>4, <1>6, ParamStays DEF TopInv
<1>8. TopGood
  BY <1>1, <1>2, <1>4, TopStillGood
<1> QED
  BY <1>7, <1>8

\* or because the deepest rung has too few particles.
LEMMA TruncateInv ==
  ASSUME TopInv, Top!Truncate
  PROVE  TopInv' /\ TopGood
<1>1. /\ Top!At("truncate") /\ Top!TooFew /\ Top!Update(Top!top.iRung, Top!iOutMaxRung)
      /\ UNCHANGED <<param, x, v, open, a, iCurrMaxRung, stack, pc, iStep, arg>>
  BY DEF Top!Truncate
<1>2. /\ TopTypes /\ stack # <<>> /\ Top!top.at = "truncate" /\ deep \in Nat /\ Top!top.iRung = deep
      /\ Top!top \in TopFrames /\ Top!top = stack[deep + 1]
  BY <1>1, TopAt
<1>3. Top!iOutMaxRung \in Rung /\ (Top!iOutMaxRung # 0 => nRungCount[Top!iOutMaxRung] # 0)
  BY <1>2, OutMaxRung
<1>4. ~Top!Regular
  <2>1. nRungCount[Top!iOutMaxRung] <= param.nTruncateRung /\ Top!iOutMaxRung > deep
    BY <1>1, <1>2 DEF Top!TooFew
  <2>2. Top!iOutMaxRung \in Nat /\ Top!iOutMaxRung \in 0..MaxRung
    BY <1>3, MaxRungType DEF Rung
  <2>3. nRungCount[Top!iOutMaxRung] # 0 /\ nRungCount[Top!iOutMaxRung] \in Nat
    <3>1. PICK o : o = Top!iOutMaxRung
      OBVIOUS
    <3>2. o > deep /\ o \in Nat /\ o \in 0..MaxRung
      BY <2>1, <2>2, <3>1
    <3>3. o # 0
      BY <1>2, <3>2
    <3>4. nRungCount[o] \in Nat
      BY <1>2, <3>2 DEF TopTypes
    <3> QED
      BY <1>3, <3>1, <3>3, <3>4
  <2> QED
    BY <2>1, <2>3 DEF Top!Regular
<1>5. Top!GoOn([Top!top EXCEPT !.at = "truncate"])
  <2>1. [Top!top EXCEPT !.at = "truncate"] = Top!top
    BY <1>2 DEF TopFrames
  <2>2. stack' = [stack EXCEPT ![Len(stack)] = stack[Len(stack)]]
    <3>1. stack \in [1..Len(stack) -> TopFrames]
      BY <1>2 DEF TopTypes
    <3> QED
      BY <1>1, <3>1
  <2> QED
    BY <2>1, <2>2 DEF Top!GoOn, Top!top
<1>6. Top!iOutMaxRung \in 0..MaxRung
  BY <1>3, MaxRungType DEF Rung
<1> QED
  BY <1>1, <1>4, <1>5, <1>6, UpdateInv

\* After it iCurrMaxRung is that of the particles' rungs.
LEMMA UpdatedInv ==
  ASSUME TopInv, Top!Updated
  PROVE  TopInv' /\ TopGood
<1>1. /\ Top!At("truncate") /\ iCurrMaxRung' = Top!iOutMaxRung /\ Top!GoOn([Top!top EXCEPT !.at = "open"])
      /\ UNCHANGED <<param, x, v, rung, open, uNewRung, a, nRungCount, pc, iStep, arg>>
  BY DEF Top!Updated, Top!leapVars
<1>2. /\ TopTypes /\ (Top!Regular => TopRegular) /\ stack # <<>> /\ Top!top.at = "truncate" /\ pc = "step"
      /\ deep \in Nat /\ Top!top.iRung = deep
  BY <1>1, TopAt
<1>3. /\ Top!iOutMaxRung \in Rung
      /\ \A i \in Rung : nRungCount[i] # 0 => i <= Top!iOutMaxRung
      /\ Top!iOutMaxRung # 0 => nRungCount[Top!iOutMaxRung] # 0
  BY <1>2, OutMaxRung
<1>4. \A p \in TopParticles : IF rung[p] < deep THEN rung'[p] = rung[p] ELSE rung'[p] >= deep
  <2>1. ASSUME NEW p \in TopParticles PROVE IF rung[p] < deep THEN rung'[p] = rung[p] ELSE rung'[p] >= deep
    <3>1. rung[p] \in Nat /\ rung'[p] = rung[p]
      BY <1>1, <1>2, TopParticleTypes
    <3> QED
      BY <1>2, <3>1
  <2> QED
    BY <2>1
<1>5. /\ TopTypes' /\ TopShape' /\ TopClock' /\ Fresh' /\ (Top!Regular => TopVelocities')
      /\ deep' = deep /\ Top!top'.at = "open" /\ stack' # <<>>
  <2>1. /\ rung' \in [TopParticles -> 0..MaxRung] /\ uNewRung' \in [TopParticles -> 0..MaxRung]
        /\ nRungCount' \in [0..MaxRung -> Nat] /\ iCurrMaxRung' \in Rung
    BY <1>1, <1>2, <1>3 DEF TopTypes
  <2>2. "truncate" \in Opening /\ "open" \in Opening
    BY DEF Opening
  <2> QED
    BY <1>1, <1>4, <2>1, <2>2, OpeningStay
<1>6. ASSUME Top!Regular PROVE TopRegular'
  <2>1. TopRegular
    BY <1>2, <1>6
  <2>2. /\ rung \in [TopParticles -> Rung]
        /\ \A i \in Rung : nRungCount[i] # 0 <=> \E p \in TopParticles : rung[p] = i
        /\ \E p \in TopParticles : rung[p] >= deep
    BY <1>2, <2>1 DEF TopRegular, TopDeepest
  <2>3. \A p \in TopParticles : rung[p] <= Top!iOutMaxRung
    BY <1>3, <2>2
  <2>4. \E p \in TopParticles : rung[p] = Top!iOutMaxRung
    <3>1. CASE Top!iOutMaxRung = 0
      <4>1. PICK p \in TopParticles : TRUE
        BY ParticleSets
      <4>2. rung[p] \in Nat /\ rung[p] <= 0
        BY <1>2, <2>3, <3>1, TopParticleTypes
      <4>3. rung[p] = 0
        BY <4>2
      <4> QED
        BY <3>1, <4>3
    <3>2. CASE Top!iOutMaxRung # 0
      BY <1>3, <2>2, <3>2
    <3> QED
      BY <3>1, <3>2
  <2>5. TopDeepest'
    BY <1>1, <1>5, <2>2, <2>3, <2>4 DEF TopDeepest
  <2> QED
    BY <1>1, <1>2, <1>5, <1>6, <2>1, <2>5 DEF TopRegular
<1>7. TopInv'
  BY <1>1, <1>5, <1>6, ParamStays DEF TopInv
<1>8. TopGood
  BY <1>1, <1>2, TopStillGood DEF TopRegular
<1> QED
  BY <1>7, <1>8

\* The particles of the rung begin their step.
LEMMA KickKDKOpenInv ==
  ASSUME TopInv, Top!KickKDKOpen
  PROVE  TopInv' /\ TopGood
<1> DEFINE e == [Top!top EXCEPT !.at = "recurse"]
<1>1. /\ Top!At("open") /\ arg' = Top!top.dTime
      /\ v' = [p \in TopParticles |-> IF rung[p] = Top!top.iRung THEN v[p] + H(Top!top.iRung) ELSE v[p]]
      /\ open' = [p \in TopParticles |-> open[p] \/ rung[p] = Top!top.iRung]
      /\ Top!GoOn(e)
      /\ UNCHANGED <<param, x, rung, uNewRung, a, nRungCount, iCurrMaxRung, pc, iStep>>
  BY HalfIs DEF Top!KickKDKOpen, Top!KickHalf
<1>2. /\ TopTypes /\ TopShape /\ TopBegins /\ Fresh /\ (Top!Regular => TopRegular)
      /\ stack # <<>> /\ Top!top.at = "open" /\ pc = "step"
      /\ deep \in Nat /\ deep \in Rung /\ deep \in 0..deep /\ Top!top \in TopFrames /\ Top!top.iRung = deep
      /\ Tb(deep) = Top!top.dTime /\ Tb(deep) \in Int
      /\ S(deep) \in Nat /\ S(deep) > 0 /\ H(deep) \in Nat /\ H(deep) > 0 /\ S(deep) = 2 * H(deep)
      /\ \A p \in TopParticles : x[p] = Now
  BY <1>1, TopAt
<1>3. /\ e \in TopFrames /\ e.iRung = deep /\ e.iKickRung = Top!top.iKickRung /\ e.iAdjust = Top!top.iAdjust
      /\ e.at = "recurse" /\ Begun(e) = Tb(deep) /\ e.at # "second"
  BY <1>2 DEF TopFrames, Kicked, Begun
<1> HIDE DEF e
<1>4. /\ stack' \in Seq(TopFrames) /\ stack' # <<>> /\ deep' = deep /\ Top!top' = e
      /\ \A u \in 0..deep : Begun(stack'[u + 1]) = Tb(u)
      /\ TopShape' /\ TopBegins'
  BY <1>1, <1>2, <1>3, TopGoOn
<1>5. PICK n \in Rung, h \in Nat, t \in Int : n = deep /\ h = H(deep) /\ t = Tb(deep)
  BY <1>2
<1>6. /\ \A p \in TopParticles : v'[p] = IF rung[p] = n THEN v[p] + h ELSE v[p]
      /\ \A p \in TopParticles : open'[p] = (open[p] \/ rung[p] = n)
      /\ v' \in [TopParticles -> Int] /\ open' \in [TopParticles -> BOOLEAN]
  <2>1. v' = [p \in TopParticles |-> IF rung[p] = n THEN v[p] + h ELSE v[p]]
    BY <1>1, <1>2, <1>5
  <2>2. open' = [p \in TopParticles |-> open[p] \/ rung[p] = n]
    BY <1>1, <1>2, <1>5
  <2>3. v' \in [TopParticles -> Int]
    BY <1>2, <2>1 DEF TopTypes
  <2> QED
    BY <2>1, <2>2, <2>3
<1>7. arg' \in Int /\ arg' = t
  BY <1>1, <1>2, <1>5
<1>8. TopTypes'
  BY <1>1, <1>2, <1>4, <1>6, <1>7 DEF TopTypes
<1>9. \A u \in 0..deep : Tb(u)' = Tb(u)
  BY <1>4 DEF Tb, Begun
<1>10. Now = t /\ Now' = t
  <2>1. Now = t
    BY <1>2, <1>5 DEF Now
  <2>2. Now' = Tb(n)'
    BY <1>3, <1>4, <1>5 DEF Now
  <2> QED
    BY <1>2, <1>5, <1>9, <2>1, <2>2
<1>11. TopClock'
  BY <1>1, <1>2, <1>4, <1>10 DEF TopClock
<1>12. StaleBelow = n /\ StaleBelow' = n
  BY <1>2, <1>3, <1>4, <1>5 DEF StaleBelow
<1>13. Fresh'
  BY <1>1, <1>2, <1>4, <1>12 DEF Fresh
<1>14. ASSUME NEW p \in TopParticles
       PROVE  /\ rung[p] \in Nat /\ n \in Nat /\ v[p] \in Int
              /\ rung[p] = n => a[p] = x[p]
              /\ Top!Regular /\ rung[p] = n => ~open[p] /\ v[p] = t /\ x[p] = t
  <2>1. rung[p] \in Nat /\ n \in Nat /\ v[p] \in Int
    BY <1>2, <1>5, TopParticleTypes
  <2>2. rung[p] = n => a[p] = x[p]
    BY <1>2, <1>12, <2>1 DEF Fresh
  <2>3. ASSUME Top!Regular, rung[p] = n PROVE ~open[p] /\ v[p] = t /\ x[p] = t
    <3>1. ~InStep(rung[p])
      BY <1>2, <1>5, <2>3 DEF InStep, Kicked
    <3> QED
      BY <1>2, <1>10, <2>3, <3>1 DEF TopRegular, TopVelocities
  <2> QED
    BY <2>1, <2>2, <2>3
<1>15. ASSUME Top!Regular PROVE TopRegular'
  <2>1. TopRegular
    BY <1>2, <1>15
  <2>2. TopDeepest'
    <3>1. Settled
      BY <1>2 DEF Settled
    <3>2. TopDeepest
      BY <2>1 DEF TopRegular
    <3>3. (\A p \in TopParticles : rung[p] <= iCurrMaxRung) /\ \E p \in TopParticles : rung[p] = iCurrMaxRung
      BY <3>1, <3>2 DEF TopDeepest
    <3>4. \E p \in TopParticles : rung[p] >= deep
      BY <1>2, <3>2 DEF TopDeepest
    <3> QED
      BY <1>1, <1>3, <1>4, <3>3, <3>4 DEF TopDeepest
  <2>3. ASSUME NEW p \in TopParticles
        PROVE  IF InStep(rung[p])' THEN open'[p] /\ v'[p] = Tb(rung[p])' + H(rung'[p]) ELSE ~open'[p] /\ v'[p] = x'[p]
    <3>1. PICK r \in Nat : r = rung[p]
      BY <1>14
    <3>2. InStep(rung[p])' <=> r < n \/ r = n
      BY <1>1, <1>3, <1>4, <1>5, <3>1 DEF InStep, Kicked
    <3>3. InStep(rung[p]) <=> r < n
      BY <1>2, <1>5, <3>1 DEF InStep, Kicked
    <3>4. CASE r < n
      <4>1. r \in 0..deep
        BY <1>5, <1>14, <3>4
      <4>2. open[p] /\ v[p] = Tb(r) + H(r)
        BY <2>1, <3>1, <3>3, <3>4 DEF TopRegular, TopVelocities
      <4>3. open'[p] /\ v'[p] = v[p]
        BY <1>6, <1>14, <3>1, <3>4, <4>2
      <4>4. Tb(rung[p])' = Tb(r)' /\ Tb(r)' = Tb(r) /\ rung'[p] = r
        BY <1>1, <1>9, <3>1, <4>1
      <4> QED
        BY <3>2, <3>4, <4>2, <4>3, <4>4
    <3>5. CASE r = n
      <4>1. open'[p] /\ v'[p] = t + h
        BY <1>6, <1>14, <1>15, <3>1, <3>5
      <4>2. Tb(rung[p])' = Tb(r)' /\ Tb(r)' = Tb(r) /\ rung'[p] = r /\ Tb(r) = t /\ H(r) = h
        BY <1>1, <1>2, <1>5, <1>9, <3>1, <3>5
      <4> QED
        BY <3>2, <3>5, <4>1, <4>2
    <3>6. CASE ~ (r < n \/ r = n)
      <4>1. ~open[p] /\ v[p] = x[p]
        BY <2>1, <3>1, <3>3, <3>6 DEF TopRegular, TopVelocities
      <4> QED
        BY <1>1, <1>6, <3>1, <3>2, <3>6, <4>1
    <3> QED
      BY <3>4, <3>5, <3>6
  <2>4. TopVelocities'
    BY <2>3 DEF TopVelocities
  <2> QED
    BY <1>1, <1>3, <1>4, <2>1, <2>2, <2>4 DEF TopRegular
<1>16. TopInv'
  BY <1>1, <1>4, <1>8, <1>11, <1>13, <1>15, ParamStays DEF TopInv
<1>17. ASSUME Top!Regular PROVE Top!Leap!Kick
  <2>1. v' \in [TopParticles -> Int] /\ rung' \in [TopParticles -> Rung] /\ open' \in [TopParticles -> BOOLEAN] /\ x' = x
    BY <1>1, <1>2, <1>6, <1>17 DEF TopRegular
  <2>2. \A p, q \in TopParticles : x[p] = x[q]
    BY <1>2
  <2>3. ASSUME NEW p \in TopParticles PROVE Top!Leap!Unkicked(p) \/ Top!Leap!Open(p)
    <3>1. CASE rung[p] = n
      <4>1. ~open[p] /\ open'[p] /\ v'[p] = x[p] + h /\ x[p] = t /\ rung'[p] = n
        BY <1>1, <1>6, <1>14, <1>17, <3>1
      <4>2. t % S(n) = 0 /\ h = H(n)
        BY <1>2, <1>5 DEF TopBegins
      <4>3. rung'[p] \in Top!Leap!Rung
        BY <4>1, <1>5 DEF Top!Leap!Rung, Rung
      <4> QED
        BY <4>1, <4>2, <4>3, HalfIs DEF Top!Leap!Open, Top!Leap!OpenWith
    <3>2. CASE rung[p] # n
      BY <1>1, <1>2, <1>6, <3>2 DEF Top!Leap!Unkicked, TopTypes
    <3> QED
      BY <3>1, <3>2
  <2> QED
    BY <2>1, <2>2, <2>3 DEF Top!Leap!Kick, Top!Leap!Rung, Rung
<1>18. TopGood
  <2>1. Top!LeapFrogStep
    BY <1>1, <1>2, <1>17 DEF Top!LeapFrogStep, Top!Leap!Next
  <2>2. Top!ForcesCurrentStep
    BY <1>6, <1>14 DEF Top!ForcesCurrentStep
  <2>3. Top!KickTimed
    BY <1>6, <1>7, <1>14 DEF Top!KickTimed
  <2> QED
    BY <2>1, <2>2, <2>3 DEF TopGood
<1> QED
  BY <1>16, <1>18

\* The deepest call makes one for the next rung.
LEMMA CallDeeper ==
  ASSUME TopInv, NEW at \in {"recurse", "second"}, Top!At(at), deep + 1 \in Rung,
         NEW e \in TopFrames, NEW g \in TopFrames, Top!Call(e, g),
         e.iRung = deep, e.iKickRung = Top!top.iKickRung, e.iAdjust = Top!top.iAdjust,
         Begun(e) = Tb(deep), g.iRung = deep + 1, g.at = "start",
         \/ at = "recurse" /\ e.at = "second" /\ g.iKickRung = deep + 1 /\ g.dTime = Tb(deep)
         \/ at = "second" /\ e.at = "close" /\ g.iKickRung = e.iKickRung /\ g.dTime = Tb(deep) + H(deep),
         Top!Regular => \E p \in TopParticles : rung[p] >= deep + 1,
         UNCHANGED <<param, x, v, rung, open, uNewRung, a, nRungCount, iCurrMaxRung, pc, iStep, arg>>
  PROVE  TopInv' /\ TopGood
<1>1. /\ TopTypes /\ TopShape /\ TopBegins /\ Fresh /\ (Top!Regular => TopRegular)
      /\ stack # <<>> /\ Top!top.at = at /\ pc = "step"
      /\ deep \in Nat /\ deep \in 0..deep /\ Tb(deep) \in Int /\ H(deep) \in Nat
      /\ \A p \in TopParticles : x[p] = Now
  BY TopAt
<1>2. /\ stack' \in Seq(TopFrames) /\ stack' # <<>> /\ deep' = deep + 1 /\ Top!top' = g
      /\ \A u \in 0..deep : Begun(stack'[u + 1]) = Tb(u)
      /\ Begun(stack'[deep + 2]) = g.dTime
      /\ TopShape' /\ TopBegins'
  <2>1. \/ e.at = "second" /\ g.iKickRung = deep + 1 /\ g.dTime = Tb(deep)
        \/ e.at = "close" /\ g.iKickRung = e.iKickRung /\ g.dTime = Tb(deep) + H(deep)
    OBVIOUS
  <2> QED
    BY <1>1, <2>1, TopCall
<1>3. TopTypes'
  BY <1>1, <1>2 DEF TopTypes
<1>4. PICK n \in Nat, m \in Nat, d \in Int : n = deep /\ m = n + 1 /\ d = g.dTime
  <2>1. g.dTime \in Int
    BY DEF TopFrames
  <2> QED
    BY <1>1, <2>1
<1>5. \A u \in 0..deep : Tb(u)' = Tb(u)
  BY <1>2 DEF Tb, Begun
<1>6. Tb(m)' = d
  <2>1. m + 1 = deep + 2
    BY <1>4
  <2>2. Tb(m)' = Begun(stack'[deep + 2])
    BY <2>1 DEF Tb, Begun
  <2> QED
    BY <1>2, <1>4, <2>2
<1>7. Now = d /\ Now' = d
  <2>1. Now = d
    BY <1>1, <1>4 DEF Now
  <2>2. Now' = Tb(m)'
    BY <1>2, <1>4 DEF Now
  <2> QED
    BY <1>6, <2>1, <2>2
<1>8. TopClock'
  BY <1>1, <1>2, <1>7 DEF TopClock
<1>9. (StaleBelow = n \/ StaleBelow = m) /\ StaleBelow' = m
  BY <1>1, <1>2, <1>4 DEF StaleBelow
<1>10. \A p \in TopParticles : rung[p] \in Nat
  BY <1>1, TopParticleTypes
<1>11. Fresh'
  <2>1. ASSUME NEW p \in TopParticles, ~ (a[p] = x[p]) PROVE rung[p] < m
    <3>1. rung[p] < StaleBelow
      BY <1>1, <2>1 DEF Fresh
    <3> QED
      BY <1>4, <1>9, <1>10, <3>1
  <2> QED
    BY <1>2, <1>9, <2>1 DEF Fresh
<1>12. ASSUME Top!Regular PROVE TopRegular'
  <2>1. TopRegular
    BY <1>1, <1>12
  <2>2. TopDeepest'
    <3>1. Settled
      BY <1>1 DEF Settled
    <3>2. (\A p \in TopParticles : rung[p] <= iCurrMaxRung) /\ \E p \in TopParticles : rung[p] = iCurrMaxRung
      BY <2>1, <3>1 DEF TopRegular, TopDeepest
    <3> QED
      BY <1>2, <1>12, <3>2 DEF TopDeepest
  <2>3. ASSUME NEW r \in Nat PROVE (InStep(r) <=> r \in 0..deep) /\ (InStep(r)' <=> r \in 0..deep)
    <3>1. InStep(r) <=> r < n \/ r = n
      BY <1>1, <1>4 DEF InStep, Kicked
    <3>2. InStep(r)' <=> r < m
      BY <1>2, <1>4 DEF InStep, Kicked
    <3> QED
      BY <1>4, <3>1, <3>2
  <2>4. ASSUME NEW p \in TopParticles
        PROVE  IF InStep(rung[p])' THEN open'[p] /\ v'[p] = Tb(rung[p])' + H(rung'[p]) ELSE ~open'[p] /\ v'[p] = x'[p]
    <3>1. PICK r \in Nat : r = rung[p]
      BY <1>10
    <3>2. (InStep(rung[p])' <=> r \in 0..deep) /\ (InStep(rung[p]) <=> r \in 0..deep)
      BY <2>3, <3>1
    <3>3. CASE r \in 0..deep
      <4>1. open[p] /\ v[p] = Tb(r) + H(r)
        BY <2>1, <3>1, <3>2, <3>3 DEF TopRegular, TopVelocities
      <4>2. Tb(rung[p])' = Tb(r)' /\ Tb(r)' = Tb(r)
        BY <1>5, <3>1, <3>3
      <4> QED
        BY <3>1, <3>2, <3>3, <4>1, <4>2
    <3>4. CASE r \notin 0..deep
      <4>1. ~open[p] /\ v[p] = x[p]
        BY <2>1, <3>1, <3>2, <3>4 DEF TopRegular, TopVelocities
      <4> QED
        BY <3>2, <3>4, <4>1
    <3> QED
      BY <3>3, <3>4
  <2>5. TopVelocities'
    BY <2>4 DEF TopVelocities
  <2> QED
    BY <1>1, <1>2, <2>1, <2>2, <2>5 DEF TopRegular
<1>13. TopInv'
  BY <1>2, <1>3, <1>8, <1>11, <1>12, ParamStays DEF TopInv
<1>14. TopGood
  BY <1>1, TopStillGood DEF TopRegular
<1> QED
  BY <1>13, <1>14

\* The call for the first half of the step.
LEMMA FirstHalfInv ==
  ASSUME TopInv, Top!FirstHalf
  PROVE  TopInv' /\ TopGood
<1> DEFINE e == [Top!top EXCEPT !.at = "second"]
           g == Top!Frame(Top!top.iRung + 1, Top!top.iRung + 1, FALSE, Top!top.dTime)
<1>1. /\ Top!At("recurse") /\ iCurrMaxRung > Top!top.iRung /\ Top!Call(e, g)
      /\ UNCHANGED <<param, x, v, rung, open, uNewRung, a, nRungCount, iCurrMaxRung, pc, iStep, arg>>
  BY DEF Top!FirstHalf, Top!leapVars
<1>2. /\ TopTypes /\ (Top!Regular => TopRegular) /\ stack # <<>> /\ Top!top.at = "recurse" /\ pc = "step"
      /\ deep \in Nat /\ Top!top \in TopFrames /\ Top!top.iRung = deep
      /\ Tb(deep) = Top!top.dTime /\ Tb(deep) \in Int
  BY <1>1, TopAt
<1>3. iCurrMaxRung \in Rung /\ iCurrMaxRung \in Nat /\ iCurrMaxRung > deep /\ deep + 1 \in Rung
  <2>1. iCurrMaxRung \in Rung /\ iCurrMaxRung \in Nat
    BY <1>2, RungNat DEF TopTypes
  <2> QED
    BY <1>1, <1>2, <2>1, MaxRungType DEF Rung
<1>4. /\ e \in TopFrames /\ e.iRung = deep /\ e.iKickRung = Top!top.iKickRung /\ e.iAdjust = Top!top.iAdjust
      /\ e.at = "second" /\ Begun(e) = Tb(deep)
  BY <1>2 DEF TopFrames, Kicked, Begun
<1>5. g \in TopFrames /\ g.iRung = deep + 1 /\ g.iKickRung = deep + 1 /\ g.at = "start" /\ g.dTime = Tb(deep)
  BY <1>2, <1>3 DEF TopFrames, Opening, Top!Frame
<1> HIDE DEF e, g
<1>6. Top!Regular => \E p \in TopParticles : rung[p] >= deep + 1
  <2>1. ASSUME Top!Regular PROVE \E p \in TopParticles : rung[p] >= deep + 1
    <3>1. Settled
      BY <1>2 DEF Settled
    <3>2. PICK p \in TopParticles : rung[p] = iCurrMaxRung
      BY <1>2, <2>1, <3>1 DEF TopRegular, TopDeepest
    <3>3. rung[p] >= deep + 1
      BY <1>2, <1>3, <3>2
    <3> QED
      BY <3>3
  <2> QED
    BY <2>1
<1>7. PICK at \in {"recurse", "second"} : at = "recurse"
  OBVIOUS
<1>8. Top!At(at)
  BY <1>1, <1>7
<1> QED
  BY <1>1, <1>3, <1>4, <1>5, <1>6, <1>7, <1>8, CallDeeper

\* The call for the second half.
LEMMA SecondHalfInv ==
  ASSUME TopInv, Top!SecondHalf
  PROVE  TopInv' /\ TopGood
<1> DEFINE t == Top!top.dTime + H(Top!top.iRung)
           e == [Top!top EXCEPT !.at = "close", !.dTime = t]
           g == Top!Frame(Top!top.iRung + 1, Top!top.iKickRung, TRUE, t)
<1>1. /\ Top!At("second") /\ Top!Call(e, g)
      /\ UNCHANGED <<param, x, v, rung, open, uNewRung, a, nRungCount, iCurrMaxRung, pc, iStep, arg>>
  BY HalfIs DEF Top!SecondHalf, Top!leapVars
<1>2. /\ TopTypes /\ TopShape /\ (Top!Regular => TopRegular) /\ stack # <<>> /\ Top!top.at = "second" /\ pc = "step"
      /\ deep \in Nat /\ deep \in 0..deep /\ Top!top \in TopFrames /\ Top!top.iRung = deep
      /\ Top!top = stack[deep + 1]
      /\ Tb(deep) = Top!top.dTime /\ Tb(deep) \in Int /\ H(deep) \in Nat
  BY <1>1, TopAt
<1>3. deep + 1 \in Rung
  BY <1>2 DEF TopShape
<1>4. t \in Int /\ t = Tb(deep) + H(deep) /\ t - H(deep) = Tb(deep)
  BY <1>2
<1> HIDE DEF t
<1>5. /\ e \in TopFrames /\ e.iRung = deep /\ e.iKickRung = Top!top.iKickRung /\ e.iAdjust = Top!top.iAdjust
      /\ e.at = "close" /\ e.dTime = t
  BY <1>2, <1>4 DEF TopFrames, Kicked
<1>6. g \in TopFrames /\ g.iRung = deep + 1 /\ g.iKickRung = Top!top.iKickRung /\ g.at = "start" /\ g.dTime = t
  BY <1>2, <1>3, <1>4 DEF TopFrames, Opening, Top!Frame
<1> HIDE DEF e, g
<1>7. Begun(e) = Tb(deep)
  BY <1>4, <1>5 DEF Begun
<1>8. Top!Regular => \E p \in TopParticles : rung[p] >= deep + 1
  BY <1>2 DEF TopRegular, TopDeepest
<1>9. PICK at \in {"recurse", "second"} : at = "second"
  OBVIOUS
<1>10. Top!At(at)
  BY <1>1, <1>9
<1> QED
  BY <1>1, <1>3, <1>4, <1>5, <1>6, <1>7, <1>8, <1>9, <1>10, CallDeeper

\* abort() is called only where particles may come to rungs that take no steps.
LEMMA AbortInv ==
  ASSUME TopInv, Top!Abort
  PROVE  TopInv' /\ TopGood
<1>1. /\ Top!At("recurse") /\ iCurrMaxRung < Top!top.iRung /\ pc' = "aborted"
      /\ UNCHANGED <<param, x, v, rung, open, uNewRung, a, nRungCount, iCurrMaxRung, stack, iStep, arg>>
  BY DEF Top!Abort, Top!leapVars
<1>2. /\ TopTypes /\ TopShape /\ TopBegins /\ Fresh /\ (Top!Regular => TopRegular)
      /\ stack # <<>> /\ Top!top.at = "recurse" /\ pc = "step"
      /\ deep \in Nat /\ Top!top.iRung = deep /\ \A p \in TopParticles : x[p] = Now
  BY <1>1, TopAt
<1>3. ~Top!Regular
  <2>1. SUFFICES ASSUME Top!Regular PROVE FALSE
    OBVIOUS
  <2>2. Settled /\ TopRegular
    BY <1>2, <2>1 DEF Settled
  <2>3. PICK p \in TopParticles : rung[p] >= deep
    BY <1>2, <2>2 DEF TopRegular, TopDeepest
  <2>4. rung[p] <= iCurrMaxRung
    BY <2>2 DEF TopRegular, TopDeepest
  <2>5. rung[p] \in Nat /\ iCurrMaxRung \in Nat
    BY <1>2, TopParticleTypes, RungNat DEF TopTypes
  <2> QED
    BY <1>1, <1>2, <2>3, <2>4, <2>5
<1>4. TopTypes'
  BY <1>1, <1>2 DEF TopTypes
<1>5. deep' = deep /\ Top!top' = Top!top
  BY <1>1 DEF deep, Top!top
<1>6. TopShape'
  BY <1>1, <1>2, <1>5 DEF TopShape
<1>7. \A u : Tb(u)' = Tb(u)
  BY <1>1 DEF Tb, Begun
<1>8. TopBegins'
  BY <1>1, <1>2, <1>5, <1>7 DEF TopBegins
<1>9. Now' = Now
  <2>1. PICK n : n = deep
    OBVIOUS
  <2>2. Now = Tb(n) /\ Now' = Tb(n)'
    BY <1>1, <1>2, <1>5, <2>1 DEF Now
  <2> QED
    BY <1>7, <2>2
<1>10. TopClock'
  BY <1>1, <1>2, <1>8, <1>9 DEF TopClock
<1>11. StaleBelow' = StaleBelow
  BY <1>5 DEF StaleBelow
<1>12. Fresh'
  BY <1>1, <1>2, <1>11 DEF Fresh
<1>13. TopInv'
  BY <1>1, <1>3, <1>4, <1>6, <1>10, <1>12, ParamStays DEF TopInv
<1>14. TopGood
  BY <1>1, <1>2, <1>3, TopStillGood
<1> QED
  BY <1>13, <1>14

\* The forces of the rungs from u on are those of the time they are found at.
LEMMA TopGravityResult ==
  ASSUME TopTypes, x' \in [TopParticles -> Int], NEW u \in Rung, Top!Gravity(u)
  PROVE  /\ uNewRung' \in [TopParticles -> 0..MaxRung] /\ a' \in [TopParticles -> Int]
         /\ uNewRung \in [TopParticles -> Rung] => uNewRung' \in [TopParticles -> Rung]
         /\ \A p \in TopParticles : rung[p] >= u => a'[p] = x'[p]
<1>1. PICK new \in [Top!Active(u) -> u..(MaxRung - 1)] :
        /\ uNewRung' = [p \in TopParticles |-> IF p \in Top!Active(u) THEN new[p] ELSE uNewRung[p]]
        /\ a' = [p \in TopParticles |-> IF p \in Top!Active(u) THEN x'[p] ELSE a[p]]
  BY DEF Top!Gravity
<1>2. u..(MaxRung - 1) \subseteq Rung /\ Rung \subseteq 0..MaxRung
  BY MaxRungType DEF Rung
<1>3. \A p \in Top!Active(u) : new[p] \in Rung /\ new[p] \in 0..MaxRung
  BY <1>2
<1>4. uNewRung' \in [TopParticles -> 0..MaxRung]
  BY <1>1, <1>3 DEF TopTypes
<1>5. uNewRung \in [TopParticles -> Rung] => uNewRung' \in [TopParticles -> Rung]
  BY <1>1, <1>3
<1>6. a' \in [TopParticles -> Int]
  BY <1>1 DEF TopTypes
<1>7. \A p \in TopParticles : rung[p] >= u => a'[p] = x'[p]
  BY <1>1 DEF Top!Active
<1> QED
  BY <1>4, <1>5, <1>6, <1>7

\* The deepest rung drifts all particles, none of them past the end of its step, and finds the forces.
LEMMA DriftForcesInv ==
  ASSUME TopInv, Top!DriftForces
  PROVE  TopInv' /\ TopGood
<1> DEFINE e == [Top!top EXCEPT !.at = "close", !.dTime = @ + S(Top!top.iRung) - H(Top!top.iRung)]
<1>1. /\ Top!At("recurse") /\ iCurrMaxRung = Top!top.iRung
      /\ x' = [p \in TopParticles |-> x[p] + S(Top!top.iRung)]
      /\ Top!Gravity(Top!top.iKickRung)
      /\ Top!GoOn(e)
      /\ UNCHANGED <<param, v, rung, open, nRungCount, iCurrMaxRung, pc, iStep, arg>>
  BY HalfIs DEF Top!DriftForces
<1>2. /\ TopTypes /\ TopShape /\ TopBegins /\ Fresh /\ (Top!Regular => TopRegular)
      /\ stack # <<>> /\ Top!top.at = "recurse" /\ pc = "step"
      /\ deep \in Nat /\ deep \in Rung /\ deep \in 0..deep /\ Top!top \in TopFrames /\ Top!top.iRung = deep
      /\ Tb(deep) = Top!top.dTime /\ Tb(deep) \in Int
      /\ S(deep) \in Nat /\ S(deep) > 0 /\ H(deep) \in Nat /\ H(deep) > 0 /\ S(deep) = 2 * H(deep)
      /\ \A p \in TopParticles : x[p] = Now
  BY <1>1, TopAt
<1>3. PICK n \in Rung, h \in Nat, t \in Int, s \in Nat : n = deep /\ h = H(deep) /\ t = Tb(deep) /\ s = S(deep)
  BY <1>2
<1>4. e = [Top!top EXCEPT !.at = "close", !.dTime = t + s - h] /\ t + s - h \in Int /\ s = 2 * h /\ s > 0 /\ n \in Nat
  <2>1. e = [Top!top EXCEPT !.at = "close", !.dTime = t + s - h]
    BY <1>2, <1>3
  <2>2. s = 2 * h /\ s > 0
    BY <1>2, <1>3
  <2>3. n \in Nat
    BY <1>2, <1>3
  <2>4. t + s - h \in Int
    OBVIOUS
  <2> HIDE DEF e
  <2> QED
    BY <2>1, <2>2, <2>3, <2>4
<1> HIDE DEF e
<1>5. /\ e \in TopFrames /\ e.iRung = deep /\ e.iKickRung = Top!top.iKickRung /\ e.iAdjust = Top!top.iAdjust
      /\ e.at = "close" /\ e.dTime = t + s - h /\ e.at # "second"
  BY <1>2, <1>4 DEF TopFrames, Kicked
<1>6. Begun(e) = Tb(deep)
  <2>1. Begun(e) = (t + s - h) - h
    BY <1>3, <1>5 DEF Begun
  <2> QED
    BY <1>3, <1>4, <2>1
<1>7. /\ stack' \in Seq(TopFrames) /\ stack' # <<>> /\ deep' = deep /\ Top!top' = e
      /\ \A u \in 0..deep : Begun(stack'[u + 1]) = Tb(u)
      /\ TopShape' /\ TopBegins'
  BY <1>1, <1>2, <1>5, <1>6, TopGoOn
<1>8. PICK k \in Rung : k = Top!top.iKickRung /\ k <= n
  <2>1. Top!top.iKickRung \in Rung
    BY <1>2 DEF TopFrames
  <2>2. Top!top.iKickRung <= deep
    BY <1>1, TopAt
  <2> QED
    BY <1>3, <2>1, <2>2
<1>9. x' \in [TopParticles -> Int] /\ \A p \in TopParticles : x[p] = t /\ x'[p] = t + s
  <2>1. Now = t
    BY <1>2, <1>3 DEF Now
  <2>2. \A p \in TopParticles : x[p] = t /\ x'[p] = t + s
    BY <1>1, <1>2, <1>3, <2>1
  <2>3. x' = [p \in TopParticles |-> t + s]
    BY <1>1, <1>2, <1>3, <2>1
  <2>4. x' \in [TopParticles -> Int]
    BY <2>3
  <2> QED
    BY <2>2, <2>4
<1>10. /\ uNewRung' \in [TopParticles -> 0..MaxRung] /\ a' \in [TopParticles -> Int]
       /\ uNewRung \in [TopParticles -> Rung] => uNewRung' \in [TopParticles -> Rung]
       /\ \A p \in TopParticles : rung[p] >= k => a'[p] = x'[p]
  BY <1>1, <1>2, <1>8, <1>9, TopGravityResult
<1>11. TopTypes'
  BY <1>1, <1>2, <1>7, <1>9, <1>10 DEF TopTypes
<1>12. \A u \in 0..deep : Tb(u)' = Tb(u)
  BY <1>7 DEF Tb, Begun
<1>13. Now' = t + s
  <2>1. Now' = Tb(n)' + S(n)
    BY <1>3, <1>5, <1>7 DEF Now
  <2>2. Tb(n)' = t
    BY <1>2, <1>3, <1>12
  <2> QED
    BY <1>3, <2>1, <2>2
<1>14. TopClock'
  BY <1>7, <1>9, <1>13 DEF TopClock
<1>15. StaleBelow' = k
  BY <1>5, <1>7, <1>8 DEF StaleBelow
<1>16. \A p \in TopParticles : rung[p] \in Nat /\ v[p] \in Int
  BY <1>2, TopParticleTypes
<1>17. Fresh'
  <2>1. ASSUME NEW p \in TopParticles, ~ (a'[p] = x'[p]) PROVE rung'[p] < k
    <3>1. ~ (rung[p] >= k)
      BY <1>10, <2>1
    <3> QED
      BY <1>1, <1>8, <1>16, <3>1, RungNat
  <2> QED
    BY <1>7, <1>15, <2>1 DEF Fresh
<1>18. ASSUME Top!Regular, NEW p \in TopParticles
       PROVE  /\ rung[p] \in 0..deep /\ open[p] /\ v[p] = Tb(rung[p]) + H(rung[p]) /\ rung[p] \in Rung
  <2>1. TopRegular
    BY <1>2, <1>18
  <2>2. Settled
    BY <1>2 DEF Settled
  <2>3. rung[p] <= n
    BY <1>1, <1>2, <1>3, <2>1, <2>2 DEF TopRegular, TopDeepest
  <2>4. rung[p] \in 0..deep
    BY <1>3, <1>4, <1>16, <2>3
  <2>5. rung[p] < deep \/ rung[p] = deep
    BY <1>2, <2>4
  <2>6. InStep(rung[p])
    BY <1>2, <2>5 DEF InStep, Kicked
  <2> QED
    BY <2>1, <2>4, <2>6 DEF TopRegular, TopVelocities
<1>19. ASSUME Top!Regular PROVE TopRegular'
  <2>1. TopRegular
    BY <1>2, <1>19
  <2>2. TopDeepest'
    <3>1. Settled
      BY <1>2 DEF Settled
    <3>2. (\A p \in TopParticles : rung[p] <= iCurrMaxRung) /\ \E p \in TopParticles : rung[p] = iCurrMaxRung
      BY <2>1, <3>1 DEF TopRegular, TopDeepest
    <3>3. \E p \in TopParticles : rung[p] >= deep
      BY <1>2, <2>1 DEF TopRegular, TopDeepest
    <3> QED
      BY <1>1, <1>5, <1>7, <3>2, <3>3 DEF TopDeepest
  <2>3. ASSUME NEW p \in TopParticles
        PROVE  IF InStep(rung[p])' THEN open'[p] /\ v'[p] = Tb(rung[p])' + H(rung'[p]) ELSE ~open'[p] /\ v'[p] = x'[p]
    <3>1. PICK r \in 0..deep : r = rung[p]
      BY <1>18, <1>19
    <3>2. open[p] /\ v[p] = Tb(r) + H(r)
      BY <1>18, <1>19, <3>1
    <3>3. r < deep \/ r = deep
      BY <1>2
    <3>4. InStep(rung[p])'
      BY <1>1, <1>5, <1>7, <3>1, <3>3 DEF InStep, Kicked
    <3>5. Tb(rung[p])' = Tb(r)' /\ Tb(r)' = Tb(r)
      BY <1>1, <1>12, <3>1
    <3> QED
      BY <1>1, <3>1, <3>2, <3>4, <3>5
  <2>4. TopVelocities'
    BY <2>3 DEF TopVelocities
  <2> QED
    BY <1>1, <1>2, <1>5, <1>7, <1>10, <2>1, <2>2, <2>4 DEF TopRegular
<1>20. TopInv'
  BY <1>1, <1>7, <1>11, <1>14, <1>17, <1>19, ParamStays DEF TopInv
<1>21. ASSUME Top!Regular PROVE Top!Leap!Drift
  <2>1. ASSUME NEW p \in TopParticles PROVE open[p] /\ x[p] < x'[p] /\ x'[p] <= v[p] + H(rung[p])
    <3>1. PICK r \in 0..deep : r = rung[p]
      BY <1>18, <1>21
    <3>2. open[p] /\ v[p] = Tb(r) + H(r) /\ r \in Rung
      BY <1>18, <1>21, <3>1
    <3>3. Tb(deep) + S(deep) <= Tb(r) + S(r)
      <4>1. r <= deep
        BY <1>2
      <4> QED
        BY <1>2, <4>1 DEF TopBegins
    <3>4. Tb(r) \in Int /\ H(r) \in Nat /\ S(r) = 2 * H(r)
      BY <1>2, TopCalls
    <3>5. PICK b \in Int, c \in Nat : b = Tb(r) /\ c = H(r)
      BY <3>4
    <3>6. t + s <= b + 2 * c /\ v[p] = b + c
      BY <1>3, <3>2, <3>3, <3>4, <3>5
    <3>7. x'[p] <= v[p] + c
      BY <1>3, <1>9, <3>5, <3>6
    <3>8. x[p] < x'[p]
      BY <1>3, <1>4, <1>9
    <3> QED
      BY <3>1, <3>2, <3>5, <3>7, <3>8
  <2> QED
    BY <1>1, <1>9, <2>1, HalfIs DEF Top!Leap!Drift
<1>22. TopGood
  <2>1. Top!LeapFrogStep
    BY <1>1, <1>2, <1>21 DEF Top!LeapFrogStep, Top!Leap!Next
  <2>2. Top!ForcesCurrentStep /\ Top!KickTimed
    BY <1>1 DEF Top!ForcesCurrentStep, Top!KickTimed
  <2> QED
    BY <2>1, <2>2 DEF TopGood
<1> QED
  BY <1>20, <1>22

\* The particles of the rung end their step, and the call returns.
LEMMA KickKDKCloseInv ==
  ASSUME TopInv, Top!KickKDKClose
  PROVE  TopInv' /\ TopGood
<1>1. /\ Top!At("close") /\ arg' = Top!top.dTime
      /\ v' = [p \in TopParticles |-> IF rung[p] = Top!top.iRung THEN v[p] + H(Top!top.iRung) ELSE v[p]]
      /\ open' = [p \in TopParticles |-> open[p] /\ rung[p] # Top!top.iRung]
      /\ stack' = SubSeq(stack, 1, Len(stack) - 1)
      /\ UNCHANGED <<param, x, rung, uNewRung, a, nRungCount, iCurrMaxRung, pc, iStep>>
  BY HalfIs DEF Top!KickKDKClose, Top!KickHalf
<1>2. /\ TopTypes /\ TopShape /\ TopBegins /\ Fresh /\ (Top!Regular => TopRegular)
      /\ stack # <<>> /\ Top!top.at = "close" /\ pc = "step" /\ Top!top = stack[deep + 1]
      /\ deep \in Nat /\ deep \in Rung /\ deep \in 0..deep /\ Top!top \in TopFrames /\ Top!top.iRung = deep
      /\ Tb(deep) \in Int
      /\ S(deep) \in Nat /\ S(deep) > 0 /\ H(deep) \in Nat /\ H(deep) > 0 /\ S(deep) = 2 * H(deep)
      /\ Top!top.dTime = Tb(deep) + H(deep) /\ Top!top.iKickRung \in Nat /\ Top!top.iKickRung <= deep
      /\ \A p \in TopParticles : x[p] = Now
  BY <1>1, TopAt
<1>3. PICK n \in Rung, h \in Nat, t \in Int, s \in Nat, k \in Nat :
        n = deep /\ h = H(deep) /\ t = Tb(deep) /\ s = S(deep) /\ k = Top!top.iKickRung
  BY <1>2
<1>4. n \in Nat /\ s = 2 * h /\ k <= n /\ arg' = t + h /\ arg' \in Int
  <2>1. n \in Nat /\ k <= n
    BY <1>2, <1>3
  <2>2. s = 2 * h
    BY <1>2, <1>3
  <2>3. arg' = t + h
    BY <1>1, <1>2, <1>3
  <2> QED
    BY <2>1, <2>2, <2>3
<1>5. /\ stack' \in Seq(TopFrames)
      /\ deep = 0 => stack' = <<>>
      /\ deep # 0 => /\ stack' # <<>> /\ deep' = deep - 1 /\ Top!top' = stack[deep]
                     /\ \A u \in 0..(deep - 1) : stack'[u + 1] = stack[u + 1]
                     /\ TopBegins'
      /\ TopShape'
  BY <1>1, <1>2, TopReturn
<1>6. /\ \A p \in TopParticles : v'[p] = IF rung[p] = n THEN v[p] + h ELSE v[p]
      /\ \A p \in TopParticles : open'[p] = (open[p] /\ rung[p] # n)
      /\ v' \in [TopParticles -> Int] /\ open' \in [TopParticles -> BOOLEAN]
  <2>1. v' = [p \in TopParticles |-> IF rung[p] = n THEN v[p] + h ELSE v[p]]
    BY <1>1, <1>2, <1>3
  <2>2. open' = [p \in TopParticles |-> open[p] /\ rung[p] # n]
    BY <1>1, <1>2, <1>3
  <2>3. v' \in [TopParticles -> Int]
    BY <1>2, <2>1 DEF TopTypes
  <2> QED
    BY <2>1, <2>2, <2>3
<1>7. TopTypes'
  BY <1>1, <1>2, <1>4, <1>5, <1>6 DEF TopTypes
<1>8. Now = t + s /\ StaleBelow = k
  BY <1>2, <1>3 DEF Now, StaleBelow
<1>9. ASSUME NEW p \in TopParticles
      PROVE  /\ rung[p] \in Nat /\ v[p] \in Int /\ x[p] = t + s
             /\ ~ (rung[p] < k) => a[p] = x[p]
             /\ Top!Regular /\ rung[p] = n => open[p] /\ v[p] = t + h
  <2>1. rung[p] \in Nat /\ v[p] \in Int /\ x[p] = t + s
    BY <1>2, <1>8, TopParticleTypes
  <2>2. ~ (rung[p] < k) => a[p] = x[p]
    BY <1>2, <1>8 DEF Fresh
  <2>3. ASSUME Top!Regular, rung[p] = n PROVE open[p] /\ v[p] = t + h
    <3>1. InStep(rung[p])
      BY <1>2, <1>3, <2>3 DEF InStep, Kicked
    <3>2. open[p] /\ v[p] = Tb(rung[p]) + H(rung[p])
      BY <1>2, <2>3, <3>1 DEF TopRegular, TopVelocities
    <3> QED
      BY <1>3, <2>3, <3>2
  <2> QED
    BY <2>1, <2>2, <2>3
\* The caller's point.
<1>10. ASSUME deep # 0
       PROVE  /\ stack[deep].at \in {"second", "close"}
              /\ stack[deep].at = "second" => k = n /\ Tb(deep) = Tb(deep - 1)
              /\ stack[deep].at = "close" => k = stack[deep].iKickRung /\ Tb(deep) = Tb(deep - 1) + H(deep - 1)
              /\ S(deep) = H(deep - 1) /\ Tb(deep - 1) \in Int /\ H(deep - 1) \in Nat /\ S(deep - 1) = 2 * H(deep - 1)
  <2>1. PICK d \in Nat : d = deep - 1 /\ d \in 0..deep /\ d # deep /\ d + 1 = deep /\ d + 2 = deep + 1
    BY <1>2, <1>10
  <2>2. \/ stack[d + 1].at = "second" /\ stack[d + 2].iKickRung = d + 1
        \/ stack[d + 1].at = "close" /\ stack[d + 2].iKickRung = stack[d + 1].iKickRung
    BY <1>2, <2>1 DEF TopShape
  <2>3. Tb(d + 1) = IF stack[d + 1].at = "second" THEN Tb(d) ELSE Tb(d) + H(d)
    BY <1>2, <2>1 DEF TopBegins
  <2>4. d \in Rung /\ Tb(d) \in Int /\ H(d) \in Nat /\ S(d) = 2 * H(d)
    BY <1>2, <2>1, TopCalls
  <2>5. H(d) = S(d + 1)
    BY <1>2, <2>1, <2>4, StepHalves
  <2> QED
    BY <1>2, <1>3, <2>1, <2>2, <2>3, <2>4, <2>5
<1>11. \A u \in 0..(deep - 1) : deep # 0 => Tb(u)' = Tb(u)
  BY <1>5 DEF Tb, Begun
<1>12. Now' = t + s /\ (stack' # <<>> => StaleBelow' = k)
  <2>1. CASE deep = 0
    <3>1. stack' = <<>> /\ Now' = (iStep + 1) * S(0)
      BY <1>1, <1>2, <1>5, <2>1 DEF Now
    <3>2. t = iStep * S(0) /\ s = S(0) /\ iStep \in Nat
      BY <1>2, <1>3, <2>1 DEF TopBegins, TopTypes
    <3>3. (iStep + 1) * s = iStep * s + s
      BY <3>2
    <3> QED
      BY <3>1, <3>2, <3>3
  <2>2. CASE deep # 0
    <3>1. PICK d \in Nat, b \in Int, c \in Nat :
            d = deep - 1 /\ d \in 0..(deep - 1) /\ d + 1 = n /\ b = Tb(deep - 1) /\ c = H(deep - 1)
      <4>1. deep - 1 \in Nat /\ deep - 1 \in 0..(deep - 1) /\ (deep - 1) + 1 = n
        BY <1>2, <1>3, <2>2
      <4>2. Tb(deep - 1) \in Int /\ H(deep - 1) \in Nat
        BY <1>10, <2>2
      <4> QED
        BY <4>1, <4>2
    <3>2. Tb(d)' = b /\ s = c /\ S(d) = 2 * c /\ H(d) = c
      BY <1>3, <1>10, <1>11, <2>2, <3>1
    <3>3. stack' # <<>> /\ deep' = d /\ Top!top' = stack[deep]
      BY <1>5, <2>2, <3>1
    <3>4. CASE stack[deep].at = "second"
      <4>1. t = b /\ k = n
        BY <1>3, <1>10, <2>2, <3>1, <3>4
      <4>2. Now' = Tb(d)' + H(d) /\ StaleBelow' = d + 1
        BY <3>3, <3>4 DEF Now, StaleBelow
      <4> QED
        BY <3>1, <3>2, <4>1, <4>2
    <3>5. CASE stack[deep].at = "close"
      <4>1. t = b + c /\ k = stack[deep].iKickRung
        BY <1>3, <1>10, <2>2, <3>1, <3>5
      <4>2. Now' = Tb(d)' + S(d) /\ StaleBelow' = stack[deep].iKickRung
        BY <3>3, <3>5 DEF Now, StaleBelow
      <4> QED
        BY <3>2, <4>1, <4>2
    <3> QED
      BY <1>10, <2>2, <3>4, <3>5
  <2> QED
    BY <2>1, <2>2
<1>13. TopClock'
  <2>1. \A p \in TopParticles : x'[p] = Now'
    BY <1>1, <1>9, <1>12
  <2>2. stack' # <<>> => TopBegins'
    BY <1>5
  <2> QED
    BY <2>1, <2>2 DEF TopClock
<1>14. Fresh'
  <2>1. ASSUME NEW p \in TopParticles, ~ (a[p] = x[p]) PROVE rung[p] < k /\ stack' # <<>>
    <3>1. rung[p] < k
      BY <1>9, <2>1
    <3>2. n # 0
      BY <1>4, <1>9, <3>1
    <3> QED
      BY <1>3, <1>5, <3>1, <3>2
  <2> QED
    BY <1>1, <1>12, <2>1 DEF Fresh
<1>15. ASSUME Top!Regular PROVE TopRegular'
  <2>1. TopRegular
    BY <1>2, <1>15
  <2>2. TopDeepest'
    <3>1. Settled
      BY <1>2 DEF Settled
    <3>2. (\A p \in TopParticles : rung[p] <= iCurrMaxRung) /\ \E p \in TopParticles : rung[p] = iCurrMaxRung
      BY <2>1, <3>1 DEF TopRegular, TopDeepest
    <3>3. PICK p \in TopParticles : rung[p] >= n
      BY <1>2, <1>3, <2>1 DEF TopRegular, TopDeepest
    <3>4. stack' # <<>> => rung[p] >= IF Top!top'.at = "second" THEN deep' + 1 ELSE deep'
      <4>1. ASSUME stack' # <<>> PROVE deep' = n - 1 /\ n \in Nat
        BY <1>3, <1>4, <1>5, <4>1
      <4> QED
        BY <1>9, <3>3, <4>1
    <3>5. stack' # <<>> => Top!top'.at # "truncate"
      BY <1>5, <1>10
    <3> QED
      BY <1>1, <3>2, <3>4, <3>5 DEF TopDeepest
  <2>3. ASSUME NEW r \in Nat PROVE InStep(r)' <=> r < n
    <3>1. CASE deep = 0
      BY <1>3, <1>5, <3>1 DEF InStep
    <3>2. CASE deep # 0
      <4>1. Top!top'.at \in Kicked /\ stack' # <<>> /\ deep' = n - 1
        BY <1>3, <1>5, <1>10, <3>2 DEF Kicked
      <4>2. InStep(r)' <=> r < n - 1 \/ r = n - 1
        BY <4>1 DEF InStep
      <4> QED
        BY <1>4, <4>2
    <3> QED
      BY <3>1, <3>2
  <2>4. ASSUME NEW p \in TopParticles
        PROVE  IF InStep(rung[p])' THEN open'[p] /\ v'[p] = Tb(rung[p])' + H(rung'[p]) ELSE ~open'[p] /\ v'[p] = x'[p]
    <3>1. PICK r \in Nat : r = rung[p]
      BY <1>9
    <3>2. InStep(rung[p])' <=> r < n
      BY <1>1, <2>3, <3>1
    <3>3. InStep(rung[p]) <=> r < n \/ r = n
      BY <1>2, <1>3, <3>1 DEF InStep, Kicked
    <3>4. CASE r < n
      <4>1. r \in 0..(deep - 1) /\ deep # 0
        BY <1>3, <1>4, <3>4
      <4>2. open[p] /\ v[p] = Tb(r) + H(r)
        BY <2>1, <3>1, <3>3, <3>4 DEF TopRegular, TopVelocities
      <4>3. open'[p] /\ v'[p] = v[p]
        BY <1>4, <1>6, <3>1, <3>4, <4>2
      <4>4. Tb(rung[p])' = Tb(r)' /\ Tb(r)' = Tb(r) /\ rung'[p] = r
        BY <1>1, <1>11, <3>1, <4>1
      <4> QED
        BY <3>2, <3>4, <4>2, <4>3, <4>4
    <3>5. CASE r = n
      <4>1. ~open'[p] /\ v'[p] = t + h + h
        BY <1>6, <1>9, <1>15, <3>1, <3>5
      <4>2. x'[p] = t + s
        BY <1>1, <1>9
      <4>3. v'[p] = x'[p]
        BY <1>4, <4>1, <4>2
      <4> QED
        BY <1>4, <3>2, <3>5, <4>1, <4>3
    <3>6. CASE ~ (r < n \/ r = n)
      <4>1. ~open[p] /\ v[p] = x[p]
        BY <2>1, <3>1, <3>3, <3>6 DEF TopRegular, TopVelocities
      <4> QED
        BY <1>1, <1>6, <3>1, <3>2, <3>6, <4>1
    <3> QED
      BY <3>4, <3>5, <3>6
  <2>5. TopVelocities'
    BY <2>4 DEF TopVelocities
  <2>6. stack' # <<>> => Top!top'.at # "update"
    BY <1>5, <1>10
  <2> QED
    BY <1>1, <2>1, <2>2, <2>5, <2>6 DEF TopRegular
<1>16. TopInv'
  BY <1>1, <1>5, <1>7, <1>13, <1>14, <1>15, ParamStays DEF TopInv
<1>17. ASSUME Top!Regular PROVE Top!Leap!Kick
  <2>1. v' \in [TopParticles -> Int] /\ rung' \in [TopParticles -> Rung] /\ open' \in [TopParticles -> BOOLEAN] /\ x' = x
    BY <1>1, <1>2, <1>6, <1>17 DEF TopRegular
  <2>2. \A p, q \in TopParticles : x[p] = x[q]
    BY <1>2
  <2>3. ASSUME NEW p \in TopParticles PROVE Top!Leap!Unkicked(p) \/ Top!Leap!Close(p)
    <3>1. CASE rung[p] = n
      <4>1. open[p] /\ ~open'[p] /\ v[p] = t + h /\ v'[p] = t + h + h /\ x[p] = t + s /\ rung'[p] = rung[p]
        BY <1>1, <1>6, <1>9, <1>17, <3>1
      <4>2. x[p] = v[p] + h /\ v'[p] = x[p] /\ h = H(rung[p])
        <5>1. t + s = t + h + h
          BY <1>4
        <5> QED
          BY <1>3, <3>1, <4>1, <5>1
      <4> QED
        BY <4>1, <4>2, HalfIs DEF Top!Leap!Close, Top!Leap!CanClose
    <3>2. CASE rung[p] # n
      BY <1>1, <1>2, <1>6, <3>2 DEF Top!Leap!Unkicked, TopTypes
    <3> QED
      BY <3>1, <3>2
  <2> QED
    BY <2>1, <2>2, <2>3 DEF Top!Leap!Kick, Top!Leap!Rung, Rung
<1>18. TopGood
  <2>1. Top!LeapFrogStep
    BY <1>1, <1>2, <1>17 DEF Top!LeapFrogStep, Top!Leap!Next
  <2>2. Top!ForcesCurrentStep
    <3>1. ASSUME NEW p \in TopParticles, v'[p] # v[p] PROVE a[p] = x[p]
      <4>1. rung[p] = n
        BY <1>6, <3>1
      <4>2. ~ (rung[p] < k)
        BY <1>4, <4>1
      <4> QED
        BY <1>9, <4>2
    <3> QED
      BY <3>1 DEF Top!ForcesCurrentStep
  <2>3. Top!KickTimed
    BY <1>4, <1>6, <1>9 DEF Top!KickTimed
  <2> QED
    BY <2>1, <2>2, <2>3 DEF TopGood
<1> QED
  BY <1>16, <1>18

\* Between two steps of rung 0.
LEMMA TopIdleIs ==
  ASSUME TopInv, stack = <<>>
  PROVE  /\ TopTypes /\ (Top!Regular => TopRegular) /\ 0..deep = {} /\ iStep \in Nat /\ S(0) \in Nat /\ S(0) > 0 /\ 0 \in Rung
         /\ Now = (IF pc = "step" THEN iStep + 1 ELSE iStep) * S(0)
         /\ \A p \in TopParticles : x[p] = Now
         /\ pc # "init" => \A p \in TopParticles : a[p] = x[p]
         /\ Top!Regular => \A p \in TopParticles : ~open[p] /\ v[p] = x[p]
<1>1. 0 \in Rung /\ S(0) \in Nat /\ S(0) > 0
  BY MaxRungType, StepHalves DEF Rung
<1>2. 0..deep = {}
  BY DEF deep
<1>3. TopTypes /\ (Top!Regular => TopRegular) /\ iStep \in Nat
  BY DEF TopInv, TopTypes
<1>4. Now = (IF pc = "step" THEN iStep + 1 ELSE iStep) * S(0) /\ \A p \in TopParticles : x[p] = Now
  BY DEF TopInv, TopClock, Now
<1>5. pc # "init" => \A p \in TopParticles : a[p] = x[p]
  BY DEF TopInv, Fresh
<1>6. Top!Regular => \A p \in TopParticles : ~open[p] /\ v[p] = x[p]
  BY DEF TopInv, TopRegular, TopVelocities, InStep
<1> QED
  BY <1>1, <1>2, <1>3, <1>4, <1>5, <1>6

\* What keeps to that.
LEMMA TopIdleInv ==
  ASSUME TopTypes', stack' = <<>>, pc' # "aborted",
         \A p \in TopParticles : x'[p] = (IF pc' = "step" THEN iStep' + 1 ELSE iStep') * S(0),
         pc' # "init" => \A p \in TopParticles : a'[p] = x'[p],
         Top!Regular' => /\ \A p \in TopParticles : ~open'[p] /\ v'[p] = x'[p]
                         /\ rung' \in [TopParticles -> Rung] /\ uNewRung' \in [TopParticles -> Rung]
  PROVE  TopInv'
<1>1. TopShape'
  <2>1. 0..deep' = {}
    BY DEF deep
  <2> QED
    BY <2>1 DEF TopShape
<1>2. TopClock'
  BY DEF TopClock, Now
<1>3. Fresh'
  BY DEF Fresh
<1>4. TopDeepest'
  BY DEF TopDeepest, Settled
<1>5. ASSUME Top!Regular' PROVE TopRegular'
  <2>1. TopVelocities'
    BY <1>5 DEF TopVelocities, InStep
  <2> QED
    BY <1>4, <1>5, <2>1 DEF TopRegular
<1> QED
  BY <1>1, <1>2, <1>3, <1>5 DEF TopInv

\* The invariant holds of the initial states.
LEMMA TopInit == Top!Init => TopInv
<1> SUFFICES ASSUME Top!Init PROVE TopInv
  OBVIOUS
<1>1. /\ param \in Params /\ rung \in [TopParticles -> Rung] /\ uNewRung = rung
      /\ x = [p \in TopParticles |-> 0] /\ v = [p \in TopParticles |-> 0]
      /\ a = [p \in TopParticles |-> 0] /\ open = [p \in TopParticles |-> FALSE]
      /\ nRungCount = [r \in 0..MaxRung |-> 0] /\ iCurrMaxRung = 0
      /\ stack = <<>> /\ pc = "init" /\ iStep = 0 /\ arg = 0
  BY DEF Top!Init, Top!Leap!Init, Top!Leap!Rung, Rung
<1>2. 0 \in Rung /\ S(0) \in Nat /\ Rung \subseteq 0..MaxRung
  BY MaxRungType, StepHalves DEF Rung
<1>3. TopTypes
  <2>1. \A p \in TopParticles : rung[p] \in 0..MaxRung
    BY <1>1, <1>2
  <2>2. rung \in [TopParticles -> 0..MaxRung]
    BY <1>1, <2>1
  <2> QED
    BY <1>1, <1>2, <2>2 DEF TopTypes
<1>4. TopShape
  <2>1. 0..deep = {}
    BY <1>1 DEF deep
  <2> QED
    BY <1>1, <2>1 DEF TopShape
<1>5. TopClock
  <2>1. Now = 0
    BY <1>1, <1>2 DEF Now
  <2> QED
    BY <1>1, <2>1 DEF TopClock
<1>6. Fresh
  BY <1>1 DEF Fresh
<1>7. TopRegular
  BY <1>1 DEF TopRegular, TopDeepest, Settled, TopVelocities, InStep
<1> QED
  BY <1>3, <1>4, <1>5, <1>6, <1>7 DEF TopInv

\* The forces before the first step.
LEMMA FirstForcesInv ==
  ASSUME TopInv, Top!FirstForces
  PROVE  TopInv' /\ TopGood
<1>1. /\ pc = "init" /\ pc' = "top" /\ x' = x /\ Top!Gravity(0)
      /\ UNCHANGED <<param, v, rung, open, nRungCount, iCurrMaxRung, stack, iStep, arg>>
  BY DEF Top!FirstForces
<1>2. stack = <<>>
  BY <1>1 DEF TopInv, TopShape
<1>3. /\ TopTypes /\ (Top!Regular => TopRegular) /\ 0 \in Rung
      /\ \A p \in TopParticles : x[p] = iStep * S(0)
      /\ Top!Regular => \A p \in TopParticles : ~open[p] /\ v[p] = x[p]
  BY <1>1, <1>2, TopIdleIs
<1>4. /\ uNewRung' \in [TopParticles -> 0..MaxRung] /\ a' \in [TopParticles -> Int]
      /\ uNewRung \in [TopParticles -> Rung] => uNewRung' \in [TopParticles -> Rung]
      /\ \A p \in TopParticles : rung[p] >= 0 => a'[p] = x'[p]
  <2>1. x' \in [TopParticles -> Int]
    BY <1>1, <1>3 DEF TopTypes
  <2> QED
    BY <1>1, <1>3, <2>1, TopGravityResult
<1>5. TopTypes'
  BY <1>1, <1>3, <1>4 DEF TopTypes
<1>6. \A p \in TopParticles : a'[p] = x'[p]
  <2>1. \A p \in TopParticles : rung[p] >= 0
    BY <1>3, TopParticleTypes
  <2> QED
    BY <1>4, <2>1
<1>7. Top!Regular' => /\ \A p \in TopParticles : ~open'[p] /\ v'[p] = x'[p]
                      /\ rung' \in [TopParticles -> Rung] /\ uNewRung' \in [TopParticles -> Rung]
  BY <1>1, <1>3, <1>4, ParamStays DEF TopRegular
<1>8. TopInv'
  BY <1>1, <1>2, <1>3, <1>5, <1>6, <1>7, TopIdleInv
<1>9. TopGood
  BY <1>1, <1>3, TopStillGood DEF TopRegular
<1> QED
  BY <1>8, <1>9

\* A step of rung 0 is done, and its output is written.
LEMMA TopWriteInv ==
  ASSUME TopInv, Top!Write
  PROVE  TopInv' /\ TopGood
<1>1. /\ pc = "step" /\ stack = <<>> /\ iStep' = iStep + 1 /\ pc' \in {"top", "done"}
      /\ UNCHANGED <<param, x, v, rung, open, uNewRung, a, nRungCount, iCurrMaxRung, stack, arg>>
  BY DEF Top!Write, Top!leapVars
<1>2. /\ TopTypes /\ (Top!Regular => TopRegular) /\ iStep \in Nat
      /\ \A p \in TopParticles : x[p] = (iStep + 1) * S(0)
      /\ \A p \in TopParticles : a[p] = x[p]
      /\ Top!Regular => \A p \in TopParticles : ~open[p] /\ v[p] = x[p]
  BY <1>1, TopIdleIs
<1>3. TopTypes'
  BY <1>1, <1>2 DEF TopTypes
<1>4. Top!Regular' => /\ \A p \in TopParticles : ~open'[p] /\ v'[p] = x'[p]
                      /\ rung' \in [TopParticles -> Rung] /\ uNewRung' \in [TopParticles -> Rung]
  BY <1>1, <1>2, ParamStays DEF TopRegular
<1>5. pc' # "step" /\ pc' # "aborted"
  BY <1>1
<1>6. TopInv'
  BY <1>1, <1>2, <1>3, <1>4, <1>5, TopIdleInv
<1>7. TopGood
  BY <1>1, <1>2, <1>5, TopStillGood DEF TopRegular
<1> QED
  BY <1>6, <1>7

\* The call for rung 0.
LEMMA TopTopStepInv ==
  ASSUME TopInv, Top!TopStep
  PROVE  TopInv' /\ TopGood
<1> DEFINE g == Top!Frame(0, 0, TRUE, iStep * S(0))
<1>1. /\ pc = "top" /\ pc' = "step" /\ stack' = <<g>>
      /\ UNCHANGED <<param, x, v, rung, open, uNewRung, a, nRungCount, iCurrMaxRung, iStep, arg>>
  BY HalfIs DEF Top!TopStep, Top!leapVars
<1>2. stack = <<>>
  BY <1>1 DEF TopInv, TopShape
<1>3. /\ TopTypes /\ (Top!Regular => TopRegular) /\ 0 \in Rung /\ iStep \in Nat /\ S(0) \in Nat /\ S(0) > 0
      /\ \A p \in TopParticles : x[p] = iStep * S(0)
      /\ \A p \in TopParticles : a[p] = x[p]
      /\ Top!Regular => \A p \in TopParticles : ~open[p] /\ v[p] = x[p]
  BY <1>1, <1>2, TopIdleIs
<1>4. PICK t \in Int : t = iStep * S(0)
  <2>1. iStep * S(0) \in Int
    BY <1>3
  <2> QED
    BY <2>1
<1>5. g \in TopFrames /\ g.iRung = 0 /\ g.iKickRung = 0 /\ g.iAdjust = TRUE /\ g.dTime = t /\ g.at = "start"
  BY <1>3, <1>4 DEF Top!Frame, TopFrames, Opening
<1> HIDE DEF g
<1>6. stack' \in Seq(TopFrames) /\ stack' # <<>> /\ Len(stack') = 1 /\ stack'[1] = g
  BY <1>1, <1>5
<1>7. deep' = 0 /\ Top!top' = g
  BY <1>6 DEF deep, Top!top
<1>8. TopTypes'
  BY <1>1, <1>3, <1>6 DEF TopTypes
<1>9. \A u \in 0..deep' : u = 0 /\ u + 1 = 1
  BY <1>7
<1>10. TopShape'
  <2>1. \A u \in 0..deep' : stack'[u + 1] = g
    BY <1>6, <1>9
  <2>2. \A u \in 0..deep' : u = deep'
    BY <1>7, <1>9
  <2>3. \A u \in 0..deep' : g.iRung = u /\ g.iKickRung <= u /\ g.at # "second"
    BY <1>5, <1>9
  <2> QED
    BY <1>1, <1>5, <1>6, <2>1, <2>2, <2>3 DEF TopShape
<1>11. Tb(0)' = t
  <2>1. Tb(0)' = Begun(stack'[0 + 1])
    BY DEF Tb, Begun
  <2> QED
    BY <1>5, <1>6, <2>1 DEF Begun
<1>12. TopBegins'
  <2>1. t % S(0) = 0
    <3>1. PICK z \in Nat : z = S(0) /\ z > 0
      BY <1>3
    <3>2. t = iStep * z
      BY <1>4, <3>1
    <3>3. iStep \in Int
      BY <1>3
    <3>4. (iStep * z) % z = 0
      BY <3>1, <3>3, ModProduct
    <3> QED
      BY <3>1, <3>2, <3>4
  <2>2. \A u \in 0..deep' : Tb(u)' = t /\ S(u) = S(0) /\ u = deep'
    BY <1>7, <1>9, <1>11
  <2>3. PICK s \in Nat : s = S(0)
    BY <1>3
  <2>4. \A u, w \in 0..deep' : u <= w => Tb(w)' + S(w) <= Tb(u)' + S(u)
    <3>1. t + s <= t + s
      OBVIOUS
    <3> QED
      BY <2>2, <2>3, <3>1
  <2>5. Tb(0)' = iStep' * S(0)
    BY <1>1, <1>4, <1>11
  <2>6. \A u \in 0..deep' : Tb(u)' % S(u) = 0
    BY <2>1, <2>2
  <2> QED
    BY <2>2, <2>4, <2>5, <2>6 DEF TopBegins
<1>13. Now' = t
  <2>1. Now' = Tb(0)'
    BY <1>5, <1>6, <1>7 DEF Now
  <2> QED
    BY <1>11, <2>1
<1>14. TopClock'
  BY <1>1, <1>3, <1>4, <1>12, <1>13 DEF TopClock
<1>15. Fresh'
  BY <1>1, <1>3 DEF Fresh
<1>16. ASSUME Top!Regular PROVE TopRegular'
  <2>1. TopRegular
    BY <1>3, <1>16
  <2>2. \A p \in TopParticles : rung[p] \in Nat
    BY <1>3, TopParticleTypes
  <2>3. TopDeepest'
    <3>1. Settled' => MaxRung = 1
      BY <1>5, <1>7, MaxRungType DEF Settled
    <3>2. MaxRung = 1 => iCurrMaxRung = 0 /\ \A p \in TopParticles : rung[p] = 0
      BY <1>3, <2>1 DEF TopTypes, TopRegular, Rung
    <3>3. \E p \in TopParticles : TRUE
      BY ParticleSets
    <3>4. Settled' => (\A p \in TopParticles : rung[p] <= iCurrMaxRung) /\ \E p \in TopParticles : rung[p] = iCurrMaxRung
      BY <3>1, <3>2, <3>3
    <3>5. \E p \in TopParticles : rung[p] >= 0
      BY <2>2, <3>3
    <3> QED
      BY <1>1, <1>5, <1>7, <3>4, <3>5 DEF TopDeepest
  <2>4. TopVelocities'
    <3>1. \A p \in TopParticles : ~InStep(rung[p])'
      BY <1>1, <1>5, <1>7, <2>2 DEF InStep, Kicked
    <3> QED
      BY <1>1, <1>3, <1>16, <3>1 DEF TopVelocities
  <2> QED
    BY <1>1, <1>5, <1>7, <2>1, <2>3, <2>4 DEF TopRegular
<1>17. TopInv'
  BY <1>1, <1>8, <1>10, <1>14, <1>15, <1>16, ParamStays DEF TopInv
<1>18. TopGood
  BY <1>1, <1>3, TopStillGood DEF TopRegular
<1> QED
  BY <1>17, <1>18

\* A step that changes nothing.
LEMMA TopUnchanged ==
  ASSUME TopInv, UNCHANGED Top!vars
  PROVE  TopInv' /\ TopGood
<1>1. UNCHANGED <<param, x, v, rung, open, uNewRung, a, nRungCount, iCurrMaxRung, stack, pc, iStep, arg>>
  BY DEF Top!vars, Top!leapVars
<1>2. TopTypes /\ TopShape /\ TopClock /\ Fresh /\ (Top!Regular => TopRegular)
  BY DEF TopInv
<1>3. TopTypes' /\ TopShape'
  BY <1>1, <1>2 DEF TopTypes, TopShape, deep
<1>4. TopClock'
  BY <1>1, <1>2 DEF TopClock, TopBegins, Now, Tb, Begun, Top!top, deep
<1>5. Fresh'
  BY <1>1, <1>2 DEF Fresh, StaleBelow, Top!top, deep
<1>6. Top!Regular => TopRegular'
  <2>1. TopDeepest => TopDeepest'
    BY <1>1 DEF TopDeepest, Settled, Top!top, deep
  <2>2. TopVelocities => TopVelocities'
    BY <1>1 DEF TopVelocities, InStep, Tb, Begun, Top!top, deep
  <2> QED
    BY <1>1, <1>2, <2>1, <2>2 DEF TopRegular, Top!top
<1>7. TopInv'
  BY <1>1, <1>3, <1>4, <1>5, <1>6, ParamStays DEF TopInv
<1>8. TopGood
  BY <1>1, <1>2, TopStillGood DEF TopRegular
<1> QED
  BY <1>7, <1>8

\* Every step of TopStepKDK keeps the invariant and is what is promised of it.
LEMMA TopNext ==
  ASSUME TopInv, [Top!Next]_Top!vars
  PROVE  TopInv' /\ TopGood
<1>1. CASE Top!StartNoAdjust
  BY <1>1, StartNoAdjustInv
<1>2. CASE Top!StartAdjust
  BY <1>2, StartAdjustInv
<1>3. CASE Top!DensityStep
  BY <1>3, DensityStepInv
<1>4. CASE Top!UpdateAfterDensityStep
  BY <1>4, UpdateAfterDensityStepInv
<1>5. CASE Top!Truncate
  BY <1>5, TruncateInv
<1>6. CASE Top!Updated
  BY <1>6, UpdatedInv
<1>7. CASE Top!KickKDKOpen
  BY <1>7, KickKDKOpenInv
<1>8. CASE Top!FirstHalf
  BY <1>8, FirstHalfInv
<1>9. CASE Top!SecondHalf
  BY <1>9, SecondHalfInv
<1>10. CASE Top!DriftForces
  BY <1>10, DriftForcesInv
<1>11. CASE Top!Abort
  BY <1>11, AbortInv
<1>12. CASE Top!KickKDKClose
  BY <1>12, KickKDKCloseInv
<1>13. CASE Top!FirstForces
  BY <1>13, FirstForcesInv
<1>14. CASE Top!TopStep
  BY <1>14, TopTopStepInv
<1>15. CASE Top!Write
  BY <1>15, TopWriteInv
<1>16. CASE Top!Stopped \/ UNCHANGED Top!vars
  BY <1>16, TopUnchanged DEF Top!Stopped
<1> QED
  BY <1>1, <1>2, <1>3, <1>4, <1>5, <1>6, <1>7, <1>8, <1>9, <1>10, <1>11, <1>12, <1>13, <1>14, <1>15, <1>16 DEF Top!Next

\* What TopStepKDK writes is of one time.
LEMMA TopInSync == ASSUME TopInv PROVE Top!InSync
<1> SUFFICES ASSUME Top!Regular, pc = "step", stack = <<>>
             PROVE  \A p \in TopParticles : x[p] = (iStep + 1) * S(0) /\ v[p] = x[p] /\ ~open[p]
  BY HalfIs DEF Top!InSync
<1> QED
  BY TopIdleIs

------------------------------------------------------------------------------
(* Both schemes *)

Inv ==
  /\ bNewKDK \in BOOLEAN
  /\ bNewKDK => \E T \in Begins : NewInv(T)
  /\ ~bNewKDK => TopInv

\* The invariant holds of the initial states, whichever scheme the run uses,
LEMMA SimulateInit == Init => Inv
BY NewInit, TopInit DEF Init, Inv

\* and every step keeps it and the scheme, and is what is promised of it.
LEMMA SimulateNext ==
  ASSUME Inv, [Next]_vars
  PROVE  Inv' /\ bNewKDK' = bNewKDK /\ (bNewKDK => NewGood) /\ (~bNewKDK => TopGood)
<1>1. bNewKDK' = bNewKDK
  BY DEF Next, NewStep, TopStep, vars
<1>2. CASE bNewKDK
  <2>1. [New!Next]_New!vars
    BY <1>2 DEF Next, NewStep, TopStep, vars, leapVars, newVars, New!vars, New!leapVars
  <2>2. PICK T \in Begins : NewInv(T)
    BY <1>2 DEF Inv
  <2>3. \E T2 \in Begins : NewInv(T2)'
    BY <2>1, <2>2, NewNext
  <2>4. NewGood
    BY <2>1, <2>2, NewSteps
  <2>5. Inv'
    BY <1>1, <1>2, <2>3 DEF Inv
  <2> QED
    BY <1>1, <1>2, <2>4, <2>5
<1>3. CASE ~bNewKDK
  <2>1. [Top!Next]_Top!vars
    BY <1>3 DEF Next, NewStep, TopStep, vars, leapVars, topVars, Top!vars, Top!leapVars
  <2>2. TopInv
    BY <1>3 DEF Inv
  <2>3. TopInv' /\ TopGood
    BY <2>1, <2>2, TopNext
  <2>4. Inv'
    BY <1>1, <1>3, <2>3 DEF Inv
  <2> QED
    BY <1>1, <1>3, <2>3, <2>4
<1> QED
  BY <1>2, <1>3

\* In every run the stack of calls, the clock, the positions, the velocities and the rungs fit
\* together as Inv says (NewTopStepKDK, TopStepKDK).
THEOREM SimulateInvariant == Spec => []Inv
<1>1. Inv /\ [Next]_vars => Inv'
  BY SimulateNext
<1> QED
  BY SimulateInit, <1>1, PTL DEF Spec

\* What is written after a top level step has all positions and velocities at the time that is
\* written with it (Simulate, MSR::Output), for any particles, rungs and number of steps.
THEOREM InSyncAtWrites == Spec => []WritesInSync
<1>1. Inv => WritesInSync
  BY NewInSync, TopInSync DEF Inv, WritesInSync
<1> QED
  BY SimulateInvariant, <1>1, PTL

\* Every kick and drift of NewTopStepKDK and of TopStepKDK is a step of the leapfrog of each
\* particle: the module LeapFrog is implemented, whatever rungs the particles change to (in
\* TopStepKDK with neither bDensityStep nor nTruncateRung, where abort() is not reached either).
THEOREM EachALeapFrog == Spec => IsLeapFrog
<1>1. Inv /\ [Next]_vars => [IF bNewKDK THEN New!LeapFrogStep ELSE Top!LeapFrogStep]_<<leapVars, pc>>
  BY SimulateNext DEF NewGood, TopGood
<1> QED
  BY SimulateInvariant, <1>1, PTL DEF Spec, IsLeapFrog

\* No kick uses a force from particles of another time than the scheme allows (Gravity with two
\* trees, and the accelerations that TopStepKDK keeps).
THEOREM ForcesAreCurrent == Spec => ForcesCurrent
<1>1. Inv /\ [Next]_vars => [IF bNewKDK THEN New!ForceSourcesStep ELSE Top!ForcesCurrentStep]_vars
  BY SimulateNext DEF NewGood, TopGood
<1> QED
  BY SimulateInvariant, <1>1, PTL DEF Spec, ForcesCurrent

\* The times given to the drift and kick factors are those the particles are moved through
\* (MSR::Drift; MSR::KickKDKOpen and MSR::KickKDKClose with
\* the settings that EachALeapFrog is about).
THEOREM IntegralsTimed == Spec => IntegralTimes
<1>1. Inv /\ [Next]_vars => [IF bNewKDK THEN New!DriftTimed ELSE Top!KickTimed]_vars
  BY SimulateNext DEF NewGood, TopGood
<1> QED
  BY SimulateInvariant, <1>1, PTL DEF Spec, IntegralTimes

\* The light cone files open at a kick are those of the top level step the particles' steps
\* begin in (MSR::NewTopStepKDK, bLightCone).
THEOREM ConesMatch == Spec => ConeOfTheStep
<1>1. Inv /\ [Next]_vars => [bNewKDK => New!ConeMatches]_vars
  BY SimulateNext DEF NewGood
<1> QED
  BY SimulateInvariant, <1>1, PTL DEF Spec, ConeOfTheStep
=============================================================================
