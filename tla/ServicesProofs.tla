---------------------------- MODULE ServicesProofs ----------------------------
(* Proofs about Services, for any number of processes, each with any number of *)
(* threads, and any number of services run through the tree.                   *)
EXTENDS Services, FiniteSetTheorems, SequenceTheorems, WellFoundedInduction, TLAPS

------------------------------------------------------------------------------
(* Natural numbers, and the threads of the processes. *)

\* A set of natural numbers has a least member.
LEMMA LeastNatural ==
  ASSUME NEW S, S \subseteq Nat, S # {}
  PROVE  \E x \in S : \A y \in S : x <= y
<1>1. PICK x \in S : \A y \in S : ~ (<<y, x>> \in OpToRel(<, Nat))
  BY NatLessThanWellFounded, WFMin
<1>2. \A y \in S : ~ (y < x)
  BY <1>1 DEF OpToRel
<1>3. QED
  BY <1>2

\* The first thread of each process: the recursive definition has a value.
LEMMA ProcToThreadValue ==
  /\ ProcToThread[0] = 0
  /\ \A p \in Proc : ProcToThread[p + 1] = ProcToThread[p] + Cores[p]
<1> DEFINE Body(g, n) == [p \in 0..n |-> IF p = 0 THEN 0 ELSE g[p - 1] + Cores[p - 1]]
           missing == {n \in 0..Procs : ~ \E g : g = Body(g, n)}
<1>1. Procs \in Nat
  BY ServicesAssumption
<1>2. missing = {}
  <2>1. SUFFICES ASSUME missing # {} PROVE FALSE
    OBVIOUS
  <2>2. PICK n \in missing : \A k \in missing : n <= k
    <3>1. missing \subseteq Nat
      BY <1>1
    <3>2. QED
      BY <2>1, <3>1, LeastNatural
  <2>3. n # 0
    <3>1. [p \in 0..0 |-> 0] = Body([p \in 0..0 |-> 0], 0)
      OBVIOUS
    <3>2. \E g : g = Body(g, 0)
      BY <3>1
    <3>3. QED
      BY <3>2
  <2>4. PICK g : g = Body(g, n - 1)
    <3>1. n - 1 \in 0..Procs /\ ~ (n <= n - 1)
      BY <1>1, <2>3
    <3>2. QED
      BY <2>2, <3>1
  <2>5. DEFINE h == [p \in 0..n |-> IF p = n THEN g[n - 1] + Cores[n - 1] ELSE g[p]]
  <2>6. \A p \in 0..n : h[p] = IF p = 0 THEN 0 ELSE h[p - 1] + Cores[p - 1]
    <3>1. ASSUME NEW p \in 0..n PROVE h[p] = IF p = 0 THEN 0 ELSE h[p - 1] + Cores[p - 1]
      <4>1. CASE p = n
        <5>1. p - 1 \in 0..n /\ p - 1 # n
          BY <1>1, <2>3, <4>1
        <5>2. QED
          BY <2>3, <4>1, <5>1
      <4>2. CASE p # n
        <5>1. p \in 0..(n - 1) /\ (p # 0 => p - 1 \in 0..n /\ p - 1 # n)
          BY <1>1, <4>2
        <5>2. g[p] = IF p = 0 THEN 0 ELSE g[p - 1] + Cores[p - 1]
          BY <2>4, <5>1
        <5>3. QED
          BY <4>2, <5>1, <5>2
      <4>3. QED
        BY <4>1, <4>2
    <3>2. QED
      BY <3>1
  <2>7. h = Body(h, n)
    BY <2>6
  <2>8. QED
    BY <2>2, <2>7
<1>3. \E g : g = Body(g, Procs)
  BY <1>1, <1>2
<1>4. ProcToThread = Body(ProcToThread, Procs)
  BY <1>3 DEF ProcToThread
<1>5. ProcToThread[0] = 0
  BY <1>1, <1>4
<1>6. ASSUME NEW p \in Proc PROVE ProcToThread[p + 1] = ProcToThread[p] + Cores[p]
  <2>1. p + 1 \in 0..Procs /\ p + 1 # 0 /\ (p + 1) - 1 = p
    BY <1>1 DEF Proc
  <2>2. QED
    BY <1>4, <2>1
<1>7. QED
  BY <1>5, <1>6

\* They increase.
LEMMA ProcToThreadGrows ==
  /\ \A p \in 0..Procs : ProcToThread[p] \in Nat
  /\ \A p, q \in 0..Procs : p < q => ProcToThread[p] < ProcToThread[q]
<1>1. Procs \in Nat \ {0} /\ \A p \in Proc : Cores[p] \in Nat \ {0}
  BY ServicesAssumption
<1>2. \A p \in 0..Procs : ProcToThread[p] \in Nat
  <2>1. SUFFICES ASSUME {p \in 0..Procs : ProcToThread[p] \notin Nat} # {} PROVE FALSE
    OBVIOUS
  <2>2. PICK p \in {q \in 0..Procs : ProcToThread[q] \notin Nat} : \A q \in {r \in 0..Procs : ProcToThread[r] \notin Nat} : p <= q
    <3>1. {q \in 0..Procs : ProcToThread[q] \notin Nat} \subseteq Nat
      BY <1>1
    <3>2. QED
      BY <2>1, <3>1, LeastNatural
  <2>3. p # 0
    BY <2>2, ProcToThreadValue
  <2>4. p - 1 \in Proc /\ ~ (p <= p - 1) /\ p - 1 \in 0..Procs
    BY <1>1, <2>3 DEF Proc
  <2>5. ProcToThread[p - 1] \in Nat
    BY <2>2, <2>4
  <2>6. ProcToThread[(p - 1) + 1] = ProcToThread[p - 1] + Cores[p - 1]
    BY <2>4, ProcToThreadValue
  <2>7. (p - 1) + 1 = p
    BY <1>1
  <2>8. QED
    BY <1>1, <2>2, <2>4, <2>5, <2>6, <2>7
<1>3. ASSUME NEW p \in 0..Procs, {q \in 0..Procs : p < q /\ ~ (ProcToThread[p] < ProcToThread[q])} # {}
      PROVE  FALSE
  <2> DEFINE bad == {q \in 0..Procs : p < q /\ ~ (ProcToThread[p] < ProcToThread[q])}
  <2>1. PICK q \in bad : \A r \in bad : q <= r
    <3>1. bad \subseteq Nat
      BY <1>1
    <3>2. QED
      BY <1>3, <3>1, LeastNatural
  <2>2. q - 1 \in Proc /\ ~ (q <= q - 1) /\ q - 1 \in 0..Procs /\ p <= q - 1 /\ (q - 1) + 1 = q
    BY <1>1, <2>1 DEF Proc
  <2>3. ProcToThread[p] <= ProcToThread[q - 1]
    <3>1. CASE p = q - 1
      BY <1>2, <3>1
    <3>2. CASE p # q - 1
      <4>1. p < q - 1
        BY <1>1, <2>2, <3>2
      <4>2. q - 1 \notin bad
        BY <2>1, <2>2
      <4>3. QED
        BY <1>2, <2>2, <4>1, <4>2
    <3>3. QED
      BY <3>1, <3>2
  <2>4. ProcToThread[q] = ProcToThread[q - 1] + Cores[q - 1]
    BY <2>2, ProcToThreadValue
  <2>5. QED
    BY <1>1, <1>2, <2>1, <2>2, <2>3, <2>4
<1>4. QED
  BY <1>2, <1>3

\* A thread is of one process.
LEMMA ProcessOf ==
  /\ Procs \in Nat \ {0} /\ Threads \in Nat \ {0} /\ 0 \in Thread
  /\ \A t \in Thread : /\ ThreadToProc(t) \in Proc
                       /\ ProcToThread[ThreadToProc(t)] <= t /\ t < ProcToThread[ThreadToProc(t) + 1]
  /\ \A t \in Thread : \A p \in Proc : ProcToThread[p] <= t /\ t < ProcToThread[p + 1] => ThreadToProc(t) = p
  /\ \A p \in Proc : /\ p + 1 \in 0..Procs /\ p \in 0..Procs /\ ProcToThread[p] \in Thread /\ ThreadToProc(ProcToThread[p]) = p
                     /\ ProcToThread[p + 1] = ProcToThread[p] + Cores[p] /\ Cores[p] \in Nat \ {0}
  /\ \A q \in 0..Procs : ProcToThread[q] \in 0..Threads
<1>1. Procs \in Nat \ {0} /\ \A p \in Proc : p + 1 \in 0..Procs /\ p \in 0..Procs /\ p \in Nat /\ Cores[p] \in Nat \ {0}
  BY ServicesAssumption DEF Proc
<1>2. Procs \in 0..Procs /\ 0 \in 0..Procs /\ 0 < Procs
  BY <1>1
<1>3. Threads \in Nat \ {0}
  BY <1>1, <1>2, ProcToThreadGrows, ProcToThreadValue DEF Threads
<1>4. 0 \in Thread
  BY <1>3 DEF Thread
<1>5. ASSUME NEW t \in Thread, NEW p \in Proc, NEW q \in Proc,
             ProcToThread[p] <= t, t < ProcToThread[p + 1], ProcToThread[q] <= t, t < ProcToThread[q + 1]
      PROVE  p = q
  <2>1. t \in Nat
    BY <1>3 DEF Thread
  <2>2. ~ (p < q)
    <3>1. SUFFICES ASSUME p < q PROVE FALSE
      OBVIOUS
    <3>2. ProcToThread[p + 1] <= ProcToThread[q]
      <4>1. p + 1 = q \/ p + 1 < q
        BY <1>1, <3>1
      <4>2. QED
        BY <1>1, <4>1, ProcToThreadGrows
    <3>3. QED
      BY <1>1, <1>5, <2>1, <3>2, ProcToThreadGrows
  <2>3. ~ (q < p)
    <3>1. SUFFICES ASSUME q < p PROVE FALSE
      OBVIOUS
    <3>2. ProcToThread[q + 1] <= ProcToThread[p]
      <4>1. q + 1 = p \/ q + 1 < p
        BY <1>1, <3>1
      <4>2. QED
        BY <1>1, <4>1, ProcToThreadGrows
    <3>3. QED
      BY <1>1, <1>5, <2>1, <3>2, ProcToThreadGrows
  <2>4. QED
    BY <1>1, <2>2, <2>3
<1>6. ASSUME NEW t \in Thread PROVE \E p \in Proc : ProcToThread[p] <= t /\ t < ProcToThread[p + 1]
  <2> DEFINE after == {q \in 0..Procs : t < ProcToThread[q]}
  <2>1. t \in Nat /\ t < ProcToThread[Procs]
    BY <1>3 DEF Thread, Threads
  <2>2. PICK q \in after : \A r \in after : q <= r
    <3>1. Procs \in after /\ after \subseteq Nat
      BY <1>1, <1>2, <2>1
    <3>2. QED
      BY <3>1, LeastNatural
  <2>3. q # 0
    BY <2>1, <2>2, ProcToThreadValue
  <2>4. q - 1 \in Proc /\ q - 1 \in 0..Procs /\ ~ (q <= q - 1) /\ (q - 1) + 1 = q
    BY <1>1, <2>3 DEF Proc
  <2>5. ~ (t < ProcToThread[q - 1])
    BY <2>2, <2>4
  <2>6. ProcToThread[q - 1] <= t
    BY <2>1, <2>4, <2>5, ProcToThreadGrows
  <2>7. QED
    BY <2>2, <2>4, <2>6
<1>7. ASSUME NEW t \in Thread
      PROVE  ThreadToProc(t) \in Proc /\ ProcToThread[ThreadToProc(t)] <= t /\ t < ProcToThread[ThreadToProc(t) + 1]
  BY <1>6 DEF ThreadToProc
<1>8. ASSUME NEW t \in Thread, NEW p \in Proc, ProcToThread[p] <= t, t < ProcToThread[p + 1] PROVE ThreadToProc(t) = p
  BY <1>5, <1>7, <1>8
<1>9. ASSUME NEW p \in Proc PROVE ProcToThread[p] \in Thread /\ ProcToThread[p] < ProcToThread[p + 1]
  <2>1. p < p + 1 /\ p < Procs
    BY <1>1 DEF Proc
  <2>2. QED
    BY <1>1, <1>2, <2>1, ProcToThreadGrows DEF Thread, Threads
<1>10. ASSUME NEW p \in Proc PROVE ThreadToProc(ProcToThread[p]) = p
  BY <1>8, <1>9, <1>1, ProcToThreadGrows
<1>11. ASSUME NEW q \in 0..Procs PROVE ProcToThread[q] \in 0..Threads
  <2>1. q = Procs \/ q < Procs
    BY <1>1
  <2>2. QED
    BY <1>1, <1>2, <1>3, <2>1, ProcToThreadGrows DEF Threads
<1>12. QED
  BY <1>1, <1>3, <1>4, <1>7, <1>8, <1>9, <1>10, <1>11, ProcToThreadValue

------------------------------------------------------------------------------
(* The logarithm, the size of a ring, and where SetAdd splits a range. *)

\* The recursive definition has a value.
LEMMA Log2Value ==
  \A n \in 0..(Threads * Threads) : Log2[n] = IF n <= 1 THEN 0 ELSE 1 + Log2[n \div 2]
<1> DEFINE Body(g, n) == [k \in 0..n |-> IF k <= 1 THEN 0 ELSE 1 + g[k \div 2]]
           top == Threads * Threads
           missing == {n \in 0..top : ~ \E g : g = Body(g, n)}
<1>1. top \in Nat
  BY ProcessOf
<1> HIDE DEF top
<1>2. missing = {}
  <2>1. SUFFICES ASSUME missing # {} PROVE FALSE
    OBVIOUS
  <2>2. PICK n \in missing : \A k \in missing : n <= k
    <3>1. missing \subseteq Nat
      BY <1>1
    <3>2. QED
      BY <2>1, <3>1, LeastNatural
  <2>3. n # 0
    <3>1. [k \in 0..0 |-> 0] = Body([k \in 0..0 |-> 0], 0)
      OBVIOUS
    <3>2. \E g : g = Body(g, 0)
      BY <3>1
    <3>3. QED
      BY <3>2
  <2>4. PICK g : g = Body(g, n - 1)
    <3>1. n - 1 \in 0..top /\ ~ (n <= n - 1)
      BY <1>1, <2>3
    <3>2. QED
      BY <2>2, <3>1
  <2>5. DEFINE h == [k \in 0..n |-> IF k = n THEN (IF n <= 1 THEN 0 ELSE 1 + g[n \div 2]) ELSE g[k]]
  <2>6. \A k \in 0..n : h[k] = IF k <= 1 THEN 0 ELSE 1 + h[k \div 2]
    <3>1. ASSUME NEW k \in 0..n PROVE h[k] = IF k <= 1 THEN 0 ELSE 1 + h[k \div 2]
      <4>1. k > 1 => k \div 2 \in 0..n /\ k \div 2 # n
        BY <1>1
      <4>2. CASE k = n
        BY <4>1, <4>2
      <4>3. CASE k # n
        <5>1. k \in 0..(n - 1)
          BY <1>1, <4>3
        <5>2. g[k] = IF k <= 1 THEN 0 ELSE 1 + g[k \div 2]
          BY <2>4, <5>1
        <5>3. QED
          BY <4>1, <4>3, <5>2
      <4>4. QED
        BY <4>2, <4>3
    <3>2. QED
      BY <3>1
  <2>7. h = Body(h, n)
    BY <2>6
  <2>8. QED
    BY <2>2, <2>7
<1>3. \E g : g = Body(g, top)
  <2>1. top \in 0..top
    BY <1>1
  <2>2. top \notin missing
    BY <1>2
  <2> HIDE DEF Body
  <2>3. QED
    BY <2>1, <2>2
<1>4. Log2 = Body(Log2, top)
  BY <1>3 DEF Log2, top
<1>5. \A n \in 0..top : Log2[n] = IF n <= 1 THEN 0 ELSE 1 + Log2[n \div 2]
  BY <1>4
<1>6. QED
  BY <1>5 DEF top

\* It is a natural number,
LEMMA Log2Natural == \A n \in 0..(Threads * Threads) : Log2[n] \in Nat
<1> DEFINE top == Threads * Threads
           bad == {n \in 0..top : Log2[n] \notin Nat}
<1>1. top \in Nat
  BY ProcessOf
<1>2. \A n \in 0..top : Log2[n] = IF n <= 1 THEN 0 ELSE 1 + Log2[n \div 2]
  BY Log2Value
<1> HIDE DEF top
<1>3. SUFFICES ASSUME bad # {} PROVE FALSE
  BY DEF top
<1>4. PICK n \in bad : \A k \in bad : n <= k
  <2>1. bad \subseteq Nat
    BY <1>1
  <2>2. QED
    BY <1>3, <2>1, LeastNatural
<1>5. n > 1
  BY <1>2, <1>4, <1>1
<1>6. n \div 2 \in 0..top /\ ~ (n <= n \div 2)
  BY <1>1, <1>5
<1>7. Log2[n \div 2] \in Nat
  BY <1>4, <1>6
<1>8. QED
  BY <1>2, <1>4, <1>5, <1>7, <1>1

\* and grows, by one at least where the number is doubled.
LEMMA Log2Grows ==
  /\ \A k, n \in 0..(Threads * Threads) : k <= n => Log2[k] <= Log2[n]
  /\ \A k, n \in 0..(Threads * Threads) : n > 1 /\ 2 * k <= n => Log2[k] + 1 <= Log2[n]
<1> DEFINE top == Threads * Threads
           bad == {n \in 0..top : \E k \in 0..n : ~ (Log2[k] <= Log2[n])}
<1>1. top \in Nat
  BY ProcessOf
<1>2. \A n \in 0..top : Log2[n] \in Nat /\ Log2[n] = IF n <= 1 THEN 0 ELSE 1 + Log2[n \div 2]
  BY Log2Value, Log2Natural
<1> HIDE DEF top
<1>3. bad = {}
  <2>1. SUFFICES ASSUME bad # {} PROVE FALSE
    OBVIOUS
  <2>2. PICK n \in bad : \A k \in bad : n <= k
    <3>1. bad \subseteq Nat
      BY <1>1
    <3>2. QED
      BY <2>1, <3>1, LeastNatural
  <2>3. PICK k \in 0..n : ~ (Log2[k] <= Log2[n])
    BY <2>2
  <2>4. n \in 0..top /\ k \in 0..top
    BY <1>1, <2>2
  <2>5. k > 1 /\ n > 1
    BY <1>1, <1>2, <2>3, <2>4
  <2>6. n \div 2 \in 0..top /\ ~ (n <= n \div 2) /\ k \div 2 \in 0..(n \div 2) /\ k \div 2 \in 0..top
    BY <1>1, <2>4, <2>5
  <2>7. Log2[k \div 2] <= Log2[n \div 2]
    BY <2>2, <2>6
  <2>8. Log2[k] = 1 + Log2[k \div 2] /\ Log2[n] = 1 + Log2[n \div 2] /\ Log2[k \div 2] \in Nat /\ Log2[n \div 2] \in Nat
    BY <1>2, <2>4, <2>5, <2>6
  <2>9. QED
    BY <2>3, <2>7, <2>8
<1>4. \A k, n \in 0..top : k <= n => Log2[k] <= Log2[n]
  <2>1. ASSUME NEW k \in 0..top, NEW n \in 0..top, k <= n PROVE Log2[k] <= Log2[n]
    <3>1. k \in 0..n
      BY <1>1, <2>1
    <3>2. QED
      BY <1>3, <3>1
  <2>2. QED
    BY <2>1
<1>5. ASSUME NEW k \in 0..top, NEW n \in 0..top, n > 1, 2 * k <= n PROVE Log2[k] + 1 <= Log2[n]
  <2>1. n \div 2 \in 0..top /\ k <= n \div 2
    BY <1>1, <1>5
  <2>2. Log2[k] <= Log2[n \div 2]
    BY <1>4, <2>1
  <2>3. Log2[n] = 1 + Log2[n \div 2]
    BY <1>1, <1>2, <1>5
  <2>4. QED
    BY <1>2, <2>1, <2>2, <2>3
<1>6. QED
  BY <1>4, <1>5 DEF top

\* A number of threads has a logarithm, and the ring at least two of it and a slot.
LEMMA RingSizes ==
  /\ 0..Threads \subseteq 0..(Threads * Threads)
  /\ \A p \in Proc : RingSize(p) \in Nat \ {0} /\ Log2[Threads * Threads] \in Nat /\ Log2[Threads] \in Nat
  /\ \A p \in Proc : RingSize(p) >= Log2[Threads] + Cores[p]
  /\ Threads > 1 => Log2[Threads] >= 1
<1> DEFINE top == Threads * Threads
<1>1. Threads \in Nat \ {0} /\ top \in Nat /\ Threads <= top
  BY ProcessOf
<1>2. \A n \in 0..top : Log2[n] \in Nat /\ Log2[n] = IF n <= 1 THEN 0 ELSE 1 + Log2[n \div 2]
  BY Log2Value, Log2Natural
<1>3. \A k, n \in 0..top : k <= n => Log2[k] <= Log2[n]
  BY Log2Grows
<1> HIDE DEF top
<1>4. 0..Threads \subseteq 0..top /\ Threads \in 0..top /\ top \in 0..top
  BY <1>1
<1>5. Log2[top] \in Nat /\ Log2[Threads] \in Nat /\ Log2[Threads] <= Log2[top]
  BY <1>1, <1>2, <1>3, <1>4
<1>6. \A p \in Proc : Cores[p] \in Nat \ {0}
  BY ServicesAssumption
<1>7. \A p \in Proc : RingSize(p) = Log2[top] + Cores[p]
  BY DEF RingSize, top
<1>8. Threads > 1 => Log2[Threads] >= 1
  <2>1. SUFFICES ASSUME Threads > 1 PROVE Log2[Threads] >= 1
    OBVIOUS
  <2>2. Threads \div 2 \in 0..top
    BY <1>1
  <2>3. QED
    BY <1>2, <1>4, <2>1, <2>2
<1>9. QED
  BY <1>1, <1>4, <1>5, <1>6, <1>7, <1>8 DEF top

\* The remainder of a number below n, and of one up to n more.
LEMMA ModuloWithin ==
  ASSUME NEW n \in Nat \ {0}, NEW x \in 0..(n - 1)
  PROVE  x % n = x /\ (x + n) % n = x
OBVIOUS

\* While a slot is free the search finds one.
LEMMA FreeSlotIsFree ==
  ASSUME NEW p \in Proc, iRequestTarget[p] \in 0..(RingSize(p) - 1),
         pRequestTargets[p] \in [0..(RingSize(p) - 1) -> Proc \cup {-1}],
         \E i \in Ring(p) : pRequestTargets[p][i] = -1
  PROVE  FreeSlot(p) \in 0..(RingSize(p) - 1) /\ pRequestTargets[p][FreeSlot(p)] = -1
<1> DEFINE n == RingSize(p)
           a == iRequestTarget[p]
           slot(x) == (a + x) % n
           free == {j \in Ring(p) : pRequestTargets[p][slot(j)] = -1}
<1>1. n \in Nat \ {0} /\ a \in 0..(n - 1) /\ Ring(p) = 0..(n - 1)
  BY RingSizes DEF Ring
<1>2. PICK i \in 0..(n - 1) : pRequestTargets[p][i] = -1
  BY <1>1
<1> HIDE DEF n, a
<1>3. free # {}
  <2> DEFINE d == IF i >= a THEN i - a ELSE i - a + n
  <2>1. d \in 0..(n - 1) /\ (a + d = i \/ a + d = i + n)
    BY <1>1
  <2>2. slot(d) = i
    BY <1>1, <2>1, ModuloWithin
  <2>3. QED
    BY <1>1, <1>2, <2>1, <2>2
<1>4. PICK x \in free : \A j \in free : x <= j
  <2>1. free \subseteq Nat
    BY <1>1
  <2>2. QED
    BY <1>3, <2>1, LeastNatural
<1>5. (CHOOSE k \in free : \A j \in free : k <= j) \in free
  BY <1>4
<1>6. FreeSlot(p) = slot(CHOOSE k \in free : \A j \in free : k <= j)
  BY DEF FreeSlot, n, a
<1>7. \A j \in 0..(n - 1) : slot(j) \in 0..(n - 1)
  BY <1>1
<1>8. QED
  BY <1>1, <1>5, <1>6, <1>7 DEF n

First(t) == ProcToThread[ThreadToProc(t)]
End(t) == ProcToThread[ThreadToProc(t) + 1]

\* A range of threads is within a process, or from the first of one to the end of one.
Aligned(t, e) ==
  \/ e <= End(t)
  \/ t = First(t) /\ \E q \in 0..Procs : e = ProcToThread[q]

\* Where SetAdd splits a range: at a thread of it, the lower part no larger than the upper one, and
\* both parts are aligned when it is.
LEMMA MiddleSplits ==
  ASSUME NEW t \in Thread, NEW e \in 0..Threads, e - t > 1, Aligned(t, e)
  PROVE  /\ Middle(t, e) \in Thread /\ t <= Middle(t, e) /\ Middle(t, e) < e
         /\ 2 * (Middle(t, e) - t) <= e - t
         /\ Aligned(t, Middle(t, e)) /\ Aligned(Middle(t, e), e)
         /\ Middle(t, e) = First(Middle(t, e)) => e >= End(Middle(t, e))
         /\ Middle(t, e) = t => t = First(t) /\ e > End(t)
         /\ t = First(t) /\ e > End(t) /\ Middle(t, e) # t => Middle(t, e) >= End(t)
<1> DEFINE mid == (e + t) \div 2
           p == ThreadToProc(t)
           q == ThreadToProc(mid)
           r == ThreadToProc(e - 1)
<1>1. Procs \in Nat \ {0} /\ Threads \in Nat \ {0} /\ t \in Nat /\ e \in Nat /\ t < e
  BY ProcessOf DEF Thread
<1>2. mid \in Thread /\ t < mid /\ mid < e /\ e - 1 \in Thread /\ 2 * (mid - t) <= e - t
  BY <1>1 DEF Thread
<1>3. /\ p \in Proc /\ ProcToThread[p] <= t /\ t < ProcToThread[p + 1]
      /\ q \in Proc /\ ProcToThread[q] <= mid /\ mid < ProcToThread[q + 1]
      /\ r \in Proc /\ ProcToThread[r] <= e - 1 /\ e - 1 < ProcToThread[r + 1]
  BY <1>2, ProcessOf
<1>4. Proc \subseteq Nat /\ \A x \in Proc : x \in 0..Procs /\ x + 1 \in 0..Procs
  BY <1>1 DEF Proc
<1>5. \A x \in 0..Procs : ProcToThread[x] \in Nat
  BY ProcToThreadGrows
<1>6. \A x, y \in 0..Procs : x <= y => ProcToThread[x] <= ProcToThread[y]
  <2>1. ASSUME NEW x \in 0..Procs, NEW y \in 0..Procs, x <= y PROVE ProcToThread[x] <= ProcToThread[y]
    <3>1. x = y \/ x < y
      BY <1>1, <2>1
    <3>2. QED
      BY <1>5, <3>1, ProcToThreadGrows
  <2>2. QED
    BY <2>1
<1>7. First(t) = ProcToThread[p] /\ End(t) = ProcToThread[p + 1]
  BY DEF First, End
<1>8. Middle(t, e) = IF p # r THEN ProcToThread[q] ELSE mid
  BY DEF Middle
<1> HIDE DEF mid, p, q, r
<1>9. p <= q /\ q <= r
  <2>1. ~ (q < p)
    <3>1. SUFFICES ASSUME q < p PROVE FALSE
      OBVIOUS
    <3>2. ProcToThread[q + 1] <= ProcToThread[p]
      <4>1. q + 1 <= p
        BY <1>3, <1>4, <3>1
      <4>2. QED
        BY <1>3, <1>4, <1>6, <4>1
    <3>3. QED
      BY <1>1, <1>2, <1>3, <1>4, <1>5, <3>2 DEF Thread
  <2>2. ~ (r < q)
    <3>1. SUFFICES ASSUME r < q PROVE FALSE
      OBVIOUS
    <3>2. ProcToThread[r + 1] <= ProcToThread[q]
      <4>1. r + 1 <= q
        BY <1>3, <1>4, <3>1
      <4>2. QED
        BY <1>3, <1>4, <1>6, <4>1
    <3>3. QED
      BY <1>1, <1>2, <1>3, <1>4, <1>5, <3>2 DEF Thread
  <2>3. QED
    BY <1>3, <1>4, <2>1, <2>2
<1>10. CASE p = r
  <2>1. Middle(t, e) = mid /\ q = p
    BY <1>3, <1>4, <1>8, <1>9, <1>10
  <2>2. First(mid) = First(t) /\ End(mid) = End(t) /\ e <= End(t)
    BY <1>1, <1>3, <1>4, <1>5, <1>7, <1>10, <2>1 DEF First, End, p, q
  <2>3. First(t) <= t /\ First(t) \in Nat /\ End(t) \in Nat
    BY <1>3, <1>4, <1>5, <1>7
  <2>4. Aligned(t, mid) /\ Aligned(mid, e)
    <3>1. mid <= End(t) /\ e <= End(mid)
      BY <1>1, <1>2, <2>2, <2>3 DEF Thread
    <3>2. QED
      BY <3>1 DEF Aligned
  <2>5. mid # First(mid) /\ mid # t
    BY <1>1, <1>2, <2>2, <2>3 DEF Thread
  <2>6. QED
    BY <1>1, <1>2, <2>1, <2>2, <2>3, <2>4, <2>5
<1>11. CASE p # r
  <2> DEFINE m == ProcToThread[q]
  <2>1. Middle(t, e) = m /\ m \in Thread /\ ThreadToProc(m) = q
    BY <1>3, <1>8, <1>11, ProcessOf
  <2>2. First(m) = m /\ End(m) = ProcToThread[q + 1]
    BY <2>1 DEF First, End
  <2>3. p < r /\ p + 1 <= r
    BY <1>3, <1>4, <1>9, <1>11
  <2>4. End(t) < e /\ End(t) <= e - 1
    <3>1. ProcToThread[p + 1] <= ProcToThread[r]
      BY <1>3, <1>4, <1>6, <2>3
    <3>2. QED
      BY <1>1, <1>3, <1>4, <1>5, <1>7, <3>1
  <2>5. t = First(t) /\ \E x \in 0..Procs : e = ProcToThread[x]
    BY <1>1, <1>3, <1>4, <1>5, <1>7, <2>4 DEF Aligned
  <2>6. t <= m /\ m <= mid /\ m \in Nat /\ mid \in Nat
    BY <1>2, <1>3, <1>4, <1>5, <1>6, <1>7, <1>9, <2>5 DEF Thread
  <2>7. ProcToThread[q + 1] <= e
    <3>1. PICK x \in 0..Procs : e = ProcToThread[x]
      BY <2>5
    <3>2. ~ (x <= q)
      <4>1. SUFFICES ASSUME x <= q PROVE FALSE
        OBVIOUS
      <4>2. e <= m
        BY <1>3, <1>4, <1>6, <3>1, <4>1
      <4>3. QED
        BY <1>1, <1>2, <2>6, <4>2
    <3>3. q + 1 <= x
      BY <1>1, <1>3, <1>4, <3>2
    <3>4. QED
      BY <1>3, <1>4, <1>6, <3>1, <3>3
  <2>8. Aligned(t, m) /\ Aligned(m, e)
    <3>1. q \in 0..Procs
      BY <1>3, <1>4
    <3>2. QED
      BY <2>2, <2>5, <3>1 DEF Aligned
  <2>9. m # t => m >= End(t)
    <3>1. q = p => m = t
      BY <1>7, <2>5
    <3>2. q # p => p + 1 <= q
      BY <1>3, <1>4, <1>9
    <3>3. QED
      BY <1>3, <1>4, <1>5, <1>6, <1>7, <3>1, <3>2
  <2>10. m < e /\ 2 * (m - t) <= e - t
    BY <1>1, <1>2, <2>6
  <2>11. End(t) \in Nat
    BY <1>3, <1>4, <1>5, <1>7
  <2> HIDE DEF m
  <2>12. QED
    BY <1>1, <2>1, <2>2, <2>4, <2>5, <2>6, <2>7, <2>8, <2>9, <2>10, <2>11
<1>12. QED
  BY <1>10, <1>11

------------------------------------------------------------------------------
(* The inductive invariant. *)

Busy == {"descend", "request", "sending", "ascend", "reply"}
Asks == {"request", "sending"}
Serving(t) == t # 0 /\ pc[t] \in Busy

\* The requests a thread has made and not had the reply for: how many, how many of
\* them have been sent, and the rID and the receiver of each.
Out(t) == IF pc[t] \in Asks THEN Len(replies[t]) + 1 ELSE Len(replies[t])
Sent(t) == IF pc[t] = "sending" THEN Len(replies[t]) + 1 ELSE Len(replies[t])
Tag(t, i) == IF i = Len(replies[t]) + 1 THEN pending[t].tag ELSE replies[t][i]
Target(t, i) == IF sid[t] = "STOP" THEN step - 1 - Traversals ELSE pst[t][i].idUpper

Sid == {"none", "SETADD", "COUNT", "STOP"}
NodeType == [nLeaves : Nat, nLower : Nat, nUpper : Nat, idUpper : Thread \cup {-1}]
Message == [from : Thread, to : Thread, sid : Sid, idUpper : 0..Threads, tag : Nat \cup {-1}]
Answer == [from : Thread, to : Thread, sid : Sid, tag : Nat, vout : Nat]

RingsOK ==
  /\ \A p \in Proc : pRequestTargets[p] \in [0..(RingSize(p) - 1) -> Proc \cup {-1}]
  /\ \A p \in Proc : iRequestTarget[p] \in 0..(RingSize(p) - 1)
  /\ pRequestTargets = [p \in Proc |-> pRequestTargets[p]] /\ iRequestTarget = [p \in Proc |-> iRequestTarget[p]]

TypeOK ==
  /\ pc \in [Thread -> Busy \cup {"master", "handler", "answer", "stopped"}]
  /\ sid \in [Thread -> Sid]
  /\ pst \in [Thread -> Seq(NodeType)] /\ level \in [Thread -> Nat \ {0}]
  /\ idUpper \in [Thread -> 0..Threads]
  /\ replies \in [Thread -> Seq(Nat)] /\ vout \in [Thread -> Nat]
  /\ caller \in [Thread -> Message \cup {None}] /\ pending \in [Thread -> Message \cup {None}]
  /\ RingsOK
  /\ net \subseteq Message /\ answers \subseteq Answer
  /\ served \in [Thread -> Nat] /\ step \in Nat

\* The service the master is in.
Phase == IF step = 0 THEN "none" ELSE IF step = 1 THEN "SETADD" ELSE IF step <= Traversals + 1 THEN "COUNT" ELSE "STOP"

\* Where a thread is: which requests it has made by then, and to whom.
Located(t) ==
  /\ pc[t] = "master" => t = 0 /\ step = 0
  /\ pc[t] \in {"handler", "answer"} => t # 0
  /\ pc[t] \in Busy => sid[t] = Phase /\ step > 0
  /\ pc[t] \notin Busy => replies[t] = <<>>
  /\ pc[t] = "reply" => replies[t] # <<>>
  /\ pc[t] \in Asks => pending[t].from = t /\ pending[t].to = Target(t, Out(t)) /\ pending[t].sid = sid[t] /\ pending[t].to \in Thread
  /\ pc[t] = "sending" => pending[t].tag \in Nat
  /\ pc[t] \in Busy /\ sid[t] = "SETADD" =>
       /\ Out(t) < Len(pst[t])
       /\ pc[t] \in {"descend", "request", "sending"} => Out(t) = Len(pst[t]) - 1
       /\ pc[t] \in Asks => pending[t].idUpper = t + pst[t][Out(t)].nLeaves
  /\ pc[t] \in Busy /\ sid[t] = "COUNT" => level[t] <= Len(pst[t]) /\ Out(t) = level[t] - 1
  /\ pc[t] \in Busy /\ sid[t] = "STOP" =>
       /\ pc[t] # "descend" /\ Out(t) <= 1 /\ (t # 0 => Out(t) = 0) /\ (pc[t] \in Asks => Out(t) = 1)
       /\ t = 0 => step - 1 - Traversals \in Thread \ {0}

\* A thread has sent the request that is marked k to u and waits for the reply.
Belongs(f, k, u, s) == f \in Thread /\ s = sid[f] /\ \E i \in 1..Sent(f) : Tag(f, i) = k /\ Target(f, i) = u

\* Whatever is on its way or being served is a request somebody waits for,
Linked ==
  /\ \A m \in net : Belongs(m.from, m.tag, m.to, m.sid)
  /\ \A t \in Thread : Serving(t) => Belongs(caller[t].from, caller[t].tag, t, sid[t]) /\ caller[t].from < t
  /\ \A r \in answers : Belongs(r.to, r.tag, r.from, r.sid)

\* and is in one place.
Single ==
  /\ \A m, n \in net : m.from = n.from /\ m.tag = n.tag => m = n
  /\ \A q, r \in answers : q.to = r.to /\ q.tag = r.tag => q = r
  /\ \A m \in net, r \in answers : ~(m.from = r.to /\ m.tag = r.tag)
  /\ \A t \in Thread : Serving(t) => \A m \in net : ~(m.from = caller[t].from /\ m.tag = caller[t].tag)
  /\ \A t \in Thread : Serving(t) => \A r \in answers : ~(r.to = caller[t].from /\ r.tag = caller[t].tag)

\* A slot of a ring holds the process of the receiver of one request, and is free otherwise.
Slots ==
  /\ \A t \in Thread : \A i \in 1..Sent(t) :
       /\ Tag(t, i) \in Ring(ThreadToProc(t)) /\ Target(t, i) \in Thread
       /\ pRequestTargets[ThreadToProc(t)][Tag(t, i)] = ThreadToProc(Target(t, i))
  /\ \A t, u \in Thread : \A i \in 1..Sent(t), j \in 1..Sent(u) :
       ThreadToProc(t) = ThreadToProc(u) /\ Tag(t, i) = Tag(u, j) => t = u /\ i = j
  /\ \A p \in Proc : \A k \in Ring(p) : pRequestTargets[p][k] # -1 =>
       \E t \in Thread : ThreadToProc(t) = p /\ \E i \in 1..Sent(t) : Tag(t, i) = k

Begin ==
  step = 0 => /\ net = {} /\ answers = {}
              /\ \A t \in Thread : pst[t] = <<Leaf>> /\ pc[t] = (IF t = 0 THEN "master" ELSE "handler")

Protocol == TypeOK /\ (\A t \in Thread : Located(t)) /\ Linked /\ Single /\ Slots /\ Begin

\* A thread places the rest of a range: the number of leaves of its last node is not
\* final yet.
Placing(t) == pc[t] \in {"descend", "request", "sending"} /\ sid[t] = "SETADD"
Leaves(t, i) == IF i = Len(pst[t]) /\ Placing(t) THEN idUpper[t] - t ELSE pst[t][i].nLeaves
Inner(t) == 1..(Len(pst[t]) - 1)

\* f has asked u for the threads up to e, and u has not begun.
Asked(f, u, e) ==
  \/ \E m \in net : m.sid = "SETADD" /\ m.from = f /\ m.to = u /\ m.idUpper = e
  \/ pc[f] = "request" /\ sid[f] = "SETADD" /\ pending[f].to = u /\ pending[f].idUpper = e

\* u is to place the threads after itself and before e.
Bound(u, e) == (Placing(u) /\ e = idUpper[u]) \/ \E f \in Thread : Asked(f, u, e)

\* The two parts of a node: the lower one is the next node of the thread, the upper one
\* the first of idUpper, once it has been asked.  A thread that asks itself waits for ever.
Split(t, i) ==
  LET n == pst[t][i]
  IN  /\ n.nLeaves >= 2 /\ n.nLower + n.nUpper = n.nLeaves /\ n.idUpper = t + n.nLower
      /\ 2 * n.nLower <= n.nLeaves /\ t + n.nLeaves <= Threads
      /\ n.idUpper \in Thread
      /\ n.nLower > 0 => Leaves(t, i + 1) = n.nLower
      /\ n.nLower > 0 => Asked(t, n.idUpper, t + n.nLeaves) \/ Leaves(n.idUpper, 1) = n.nUpper
      /\ n.nLower = 0 => i = Len(pst[t]) - 1 /\ Asked(t, t, t + n.nLeaves) /\ (Placing(t) => idUpper[t] = t)

Nodes ==
  /\ \A t \in Thread : pst[t] # <<>> /\ pst[t][Len(pst[t])] = Leaf /\ (Placing(t) => idUpper[t] >= t)
  /\ \A t \in Thread : \A i \in Inner(t) : Split(t, i)
  /\ step >= 1 => Leaves(0, 1) = Threads

Targeted(v) == \E t \in Thread : \E i \in Inner(t) : pst[t][i].idUpper = v

\* A thread is in the tree below one node.
OneParent ==
  \A t, u \in Thread : \A i \in Inner(t), j \in Inner(u) :
    pst[t][i].idUpper = pst[u][j].idUpper /\ pst[t][i].nLower > 0 /\ pst[u][j].nLower > 0 => t = u /\ i = j

Untouched(v) == pc[v] = "handler" /\ pst[v] = <<Leaf>>
Fresh(v) == Untouched(v) /\ ~ Targeted(v)

AskedKnown ==
  \A f, u \in Thread : \A e \in 0..Threads : Asked(f, u, e) =>
     /\ u < e
     /\ f # u => Untouched(u)
     /\ \E i \in Inner(f) : pst[f][i].idUpper = u /\ e = f + pst[f][i].nLeaves

Within(v, u, e) == u < v /\ v < e

\* The threads still to be placed are nobody's yet, and to be placed by one thread;
\* all threads are placed or to be placed.
Claims ==
  /\ \A u \in Thread : \A e \in 0..Threads : Bound(u, e) => \A v \in Thread : Within(v, u, e) => Fresh(v)
  /\ \A u, w \in Thread : \A d, e \in 0..Threads : Bound(u, d) /\ Bound(w, e) =>
       \A v \in Thread : Within(v, u, d) /\ Within(v, w, e) => u = w /\ d = e
  /\ step >= 1 => \A v \in Thread \ {0} :
       Targeted(v) \/ \E u \in Thread : \E e \in 0..Threads : Bound(u, e) /\ Within(v, u, e)

\* The tree follows the processes.
Whole(t) ==
  \/ \E e \in 0..Threads : Bound(t, e) /\ e >= End(t)
  \/ \E i \in 1..Len(pst[t]) : Leaves(t, i) = Cores[ThreadToProc(t)]

Processes ==
  /\ \A u \in Thread : \A e \in 0..Threads : Bound(u, e) => Aligned(u, e)
  /\ \A f, u \in Thread : \A e \in 0..Threads : Asked(f, u, e) /\ u = First(u) => e >= End(u)
  /\ \A t \in Thread : t # First(t) => \A i \in 1..Len(pst[t]) : t + Leaves(t, i) <= End(t)
  /\ \A t \in Thread : t = First(t) /\ (Targeted(t) \/ (t = 0 /\ step >= 1)) => Whole(t)
  /\ \A t \in Thread : \A i \in Inner(t) : pst[t][i].nLower = 0 => t = First(t)

\* A thread has no more nodes than the range it began with can be halved.
Deep(t) == Len(pst[t]) - 1 + Log2[Leaves(t, Len(pst[t]))] <= Log2[Threads]

Tree == Nodes /\ OneParent /\ AskedKnown /\ Claims /\ Processes /\ \A t \in Thread : Deep(t)

------------------------------------------------------------------------------
(* Sequences, and what the types say of one thread. *)

ServicesInv == Protocol /\ Tree

\* A sequence without its last element,
LEMMA FrontFacts ==
  ASSUME NEW S, NEW s \in Seq(S), s # <<>>
  PROVE  /\ Front(s) \in Seq(S) /\ Len(Front(s)) = Len(s) - 1 /\ Len(s) >= 1
         /\ \A i \in 1..(Len(s) - 1) : Front(s)[i] = s[i]
         /\ Last(s) = s[Len(s)] /\ Last(s) \in S
<1>1. Len(s) \in Nat \ {0} /\ \A i \in 1..Len(s) : s[i] \in S
  BY EmptySeq, ElementOfSeq, LenProperties
<1>2. Front(s) = SubSeq(s, 1, Len(s) - 1) /\ Last(s) = s[Len(s)]
  BY DEF Front, Last
<1> DEFINE n == Len(s) - 1
<1>3. n \in Int /\ 1 \in Int /\ \A i \in 1..n : s[i] \in S
  BY <1>1
<1> HIDE DEF n
<1>4. /\ SubSeq(s, 1, n) \in Seq(S)
      /\ Len(SubSeq(s, 1, n)) = IF 1 <= n THEN n - 1 + 1 ELSE 0
      /\ \A i \in 1..(n - 1 + 1) : SubSeq(s, 1, n)[i] = s[1 + i - 1]
  BY <1>3, SubSeqProperties
<1>5. n \in Nat /\ Len(s) = n + 1
  BY <1>1 DEF n
<1>6. Front(s) \in Seq(S) /\ Len(Front(s)) = n
  BY <1>2, <1>4, <1>5 DEF n
<1>7. \A i \in 1..n : Front(s)[i] = s[i]
  BY <1>2, <1>4, <1>5 DEF n
<1>8. QED
  BY <1>1, <1>2, <1>5, <1>6, <1>7

\* and with one more.
LEMMA AppendFacts ==
  ASSUME NEW S, NEW s \in Seq(S), NEW e \in S
  PROVE  /\ Append(s, e) \in Seq(S) /\ Len(Append(s, e)) = Len(s) + 1 /\ Len(s) \in Nat /\ Append(s, e) # <<>>
         /\ \A i \in 1..Len(s) : Append(s, e)[i] = s[i]
         /\ Append(s, e)[Len(s) + 1] = e
<1>1. Len(s) \in Nat
  BY LenProperties
<1>2. /\ Append(s, e) \in Seq(S) /\ Append(s, e) # <<>> /\ Len(Append(s, e)) = Len(s) + 1
      /\ \A i \in 1..Len(s) : Append(s, e)[i] = s[i]
      /\ Append(s, e)[Len(s) + 1] = e
  BY AppendProperties
<1>3. QED
  BY <1>1, <1>2

\* The list of nodes once SetAdd has split the last one.
NewNode(t) ==
  LET middle == Middle(t, idUpper[t])
  IN  [nLeaves |-> idUpper[t] - t, nLower |-> middle - t, nUpper |-> idUpper[t] - middle, idUpper |-> middle]

\* The nodes of a thread after SetAdd has split the last of them.
LEMMA NodesGrow ==
  ASSUME NEW s \in Seq(NodeType), s # <<>>, NEW n \in NodeType
  PROVE  LET r == Append([s EXCEPT ![Len(s)] = n], Leaf)
         IN  /\ r \in Seq(NodeType) /\ Len(r) = Len(s) + 1 /\ Len(s) \in Nat \ {0}
             /\ \A i \in 1..(Len(s) - 1) : r[i] = s[i]
             /\ r[Len(s)] = n /\ r[Len(s) + 1] = Leaf
<1> DEFINE q == [s EXCEPT ![Len(s)] = n]
<1>1. Len(s) \in Nat \ {0}
  BY EmptySeq
<1>2. q \in Seq(NodeType) /\ Len(q) = Len(s) /\ \A i \in 1..Len(s) : q[i] = IF i = Len(s) THEN n ELSE s[i]
  <2>1. Len(s) \in 1..Len(s)
    BY <1>1
  <2>2. QED
    BY <2>1, ExceptSeq
<1>3. Leaf \in NodeType
  BY DEF Leaf, NodeType
<1> HIDE DEF q
<1>4. /\ Append(q, Leaf) \in Seq(NodeType) /\ Len(Append(q, Leaf)) = Len(q) + 1
      /\ \A i \in 1..Len(q) : Append(q, Leaf)[i] = q[i]
      /\ Append(q, Leaf)[Len(q) + 1] = Leaf
  BY <1>2, <1>3, AppendFacts
<1>5. Append(q, Leaf) \in Seq(NodeType) /\ Len(Append(q, Leaf)) = Len(s) + 1
  BY <1>2, <1>4
<1>6. \A i \in 1..Len(s) : Append(q, Leaf)[i] = (IF i = Len(s) THEN n ELSE s[i])
  BY <1>2, <1>4
<1>7. Append(q, Leaf)[Len(s) + 1] = Leaf
  BY <1>2, <1>4
<1> DEFINE r == Append(q, Leaf)
<1>8. r = Append([s EXCEPT ![Len(s)] = n], Leaf)
  BY DEF q
<1>9. r \in Seq(NodeType) /\ Len(r) = Len(s) + 1 /\ r[Len(s) + 1] = Leaf /\ \A i \in 1..Len(s) : r[i] = (IF i = Len(s) THEN n ELSE s[i])
  BY <1>5, <1>6, <1>7
<1> HIDE DEF r
<1>10. /\ r \in Seq(NodeType) /\ Len(r) = Len(s) + 1 /\ Len(s) \in Nat \ {0}
       /\ \A i \in 1..(Len(s) - 1) : r[i] = s[i]
       /\ r[Len(s)] = n /\ r[Len(s) + 1] = Leaf
  BY <1>1, <1>9
<1>11. QED
  BY <1>8, <1>10

\* There are threads, they are natural numbers, and thread 0 is one.
LEMMA ThreadsAre == Threads \in Nat \ {0} /\ 0 \in Thread /\ Thread \subseteq Nat /\ Thread \subseteq 0..Threads /\ Traversals \in Nat
BY ProcessOf, ServicesAssumption DEF Thread

\* What TypeOK says of one thread.
LEMMA TypedThread ==
  ASSUME TypeOK, NEW t \in Thread
  PROVE  /\ pc[t] \in Busy \cup {"master", "handler", "answer", "stopped"} /\ sid[t] \in Sid
         /\ pst[t] \in Seq(NodeType) /\ Len(pst[t]) \in Nat /\ \A i \in 1..Len(pst[t]) : pst[t][i] \in NodeType
         /\ level[t] \in Nat \ {0} /\ idUpper[t] \in 0..Threads
         /\ replies[t] \in Seq(Nat) /\ Len(replies[t]) \in Nat /\ (replies[t] = <<>> <=> Len(replies[t]) = 0)
         /\ \A i \in 1..Len(replies[t]) : replies[t][i] \in Nat
         /\ vout[t] \in Nat /\ caller[t] \in Message \cup {None} /\ pending[t] \in Message \cup {None}
         /\ served[t] \in Nat
<1>1. pst[t] \in Seq(NodeType) /\ replies[t] \in Seq(Nat)
  BY DEF TypeOK
<1>2. QED
  BY <1>1, LenProperties, ElementOfSeq, EmptySeq DEF TypeOK

\* What TypeOK says of a node with two parts.
LEMMA NodeTyped ==
  ASSUME TypeOK, NEW t \in Thread, NEW i \in Inner(t)
  PROVE  /\ i \in 1..Len(pst[t]) /\ i + 1 \in 1..Len(pst[t]) /\ Len(pst[t]) \in Nat /\ i # Len(pst[t])
         /\ pst[t][i] \in NodeType /\ pst[t][i].nLeaves \in Nat /\ pst[t][i].nLower \in Nat
         /\ pst[t][i].nUpper \in Nat /\ pst[t][i].idUpper \in Thread \cup {-1}
         /\ Leaves(t, i) = pst[t][i].nLeaves
<1>1. Len(pst[t]) \in Nat /\ \A j \in 1..Len(pst[t]) : pst[t][j] \in NodeType
  BY TypedThread
<1>2. i \in 1..Len(pst[t]) /\ i + 1 \in 1..Len(pst[t]) /\ i # Len(pst[t])
  BY <1>1 DEF Inner
<1>3. pst[t][i] \in NodeType
  BY <1>1, <1>2
<1>4. QED
  BY <1>1, <1>2, <1>3 DEF NodeType, Leaves

\* What a thread has asked for and what it has sent differ by the request it hands over.
LEMMA OutFacts ==
  ASSUME TypeOK, NEW t \in Thread
  PROVE  /\ Out(t) \in Nat /\ Sent(t) \in Nat /\ Sent(t) <= Out(t) /\ Len(replies[t]) <= Sent(t)
         /\ pc[t] = "request" => Out(t) = Sent(t) + 1
         /\ pc[t] # "request" => Out(t) = Sent(t)
         /\ pc[t] \in Asks => Out(t) = Len(replies[t]) + 1
         /\ pc[t] # "sending" => Sent(t) = Len(replies[t])
         /\ pc[t] = "sending" => Sent(t) = Len(replies[t]) + 1
         /\ \A i \in 1..Len(replies[t]) : Tag(t, i) = replies[t][i] /\ Tag(t, i) \in Nat
         /\ pc[t] \in Asks => Tag(t, Out(t)) = pending[t].tag
<1>1. Len(replies[t]) \in Nat /\ \A i \in 1..Len(replies[t]) : replies[t][i] \in Nat
  BY TypedThread
<1> DEFINE n == Len(replies[t])
<1>2. Out(t) = (IF pc[t] \in {"request", "sending"} THEN n + 1 ELSE n)
  BY <1>1 DEF Out, Asks
<1>3. Sent(t) = (IF pc[t] = "sending" THEN n + 1 ELSE n)
  BY <1>1 DEF Sent
<1>4. \A i \in 1..n : Tag(t, i) = replies[t][i]
  BY <1>1 DEF Tag
<1>5. Tag(t, n + 1) = pending[t].tag
  BY <1>1 DEF Tag
<1>6. n \in Nat /\ \A i \in 1..n : replies[t][i] \in Nat
  BY <1>1
<1> HIDE DEF n
<1>7. QED
  BY <1>2, <1>3, <1>4, <1>5, <1>6 DEF Asks, n

\* A thread that is not busy waits for nothing.
LEMMA SentWhenBusy ==
  ASSUME TypeOK, NEW t \in Thread, Located(t), Out(t) > 0
  PROVE  pc[t] \in Busy
<1>1. replies[t] = <<>> <=> Len(replies[t]) = 0
  BY TypedThread
<1>2. CASE pc[t] \in Asks
  BY <1>2 DEF Asks, Busy
<1>3. CASE pc[t] \notin Asks
  BY <1>1, <1>3 DEF Located, Out, Busy
<1>4. QED
  BY <1>2, <1>3

\* A request made for the tree stands for a node that has two parts.
LEMMA RequestIsNode ==
  ASSUME TypeOK, NEW t \in Thread, Located(t), NEW i \in 1..Out(t), sid[t] # "STOP"
  PROVE  i \in Inner(t) /\ Target(t, i) = pst[t][i].idUpper
<1>1. pc[t] \in Busy
  BY OutFacts, SentWhenBusy
<1>2. sid[t] \in {"SETADD", "COUNT"}
  BY <1>1, ThreadsAre DEF Located, Phase
<1>3. Out(t) <= Len(pst[t]) - 1
  BY <1>1, <1>2, OutFacts, TypedThread DEF Located
<1>4. QED
  BY <1>3, OutFacts, TypedThread DEF Inner, Target

\* A thread that asks has a message,
LEMMA PendingMessage ==
  ASSUME TypeOK, NEW t \in Thread, Located(t), pc[t] \in Asks
  PROVE  pending[t] \in Message
BY TypedThread, ThreadsAre DEF Located, None

\* and one that serves a caller, whose request has a tag.
LEMMA CallerMessage ==
  ASSUME TypeOK, Linked, Slots, NEW t \in Thread, Serving(t)
  PROVE  caller[t] \in Message /\ caller[t].tag \in Nat
<1>1. Belongs(caller[t].from, caller[t].tag, t, sid[t])
  BY DEF Linked
<1>2. caller[t].from \in Thread
  BY <1>1 DEF Belongs
<1>3. caller[t] \in Message
  BY <1>2, TypedThread, ThreadsAre DEF None
<1>4. PICK i \in 1..Sent(caller[t].from) : Tag(caller[t].from, i) = caller[t].tag
  BY <1>1 DEF Belongs
<1>5. caller[t].tag \in Ring(ThreadToProc(caller[t].from))
  BY <1>2, <1>4 DEF Slots
<1>6. Ring(ThreadToProc(caller[t].from)) \subseteq Nat
  <2> DEFINE p == ThreadToProc(caller[t].from)
  <2>1. p \in Proc
    BY <1>2, ProcessOf
  <2> HIDE DEF p
  <2>2. RingSize(p) \in Nat /\ pRequestTargets[p] \in [0..(RingSize(p) - 1) -> Proc \cup {-1}]
    BY <2>1, RingSizes DEF TypeOK, RingsOK
  <2>3. Ring(p) \subseteq Nat
    BY <2>2 DEF Ring
  <2>4. QED
    BY <2>3 DEF p
<1>7. QED
  BY <1>3, <1>5, <1>6

\* The range a thread is placing.
LEMMA PlacingRange ==
  ASSUME ServicesInv, NEW t \in Thread, Placing(t)
  PROVE  Bound(t, idUpper[t]) /\ idUpper[t] \in 0..Threads /\ Aligned(t, idUpper[t]) /\ idUpper[t] >= t
<1>1. TypeOK /\ Nodes /\ Processes
  BY DEF ServicesInv, Protocol, Tree
<1>2. idUpper[t] \in 0..Threads /\ idUpper[t] >= t
  BY <1>1, TypedThread DEF Nodes
<1>3. Bound(t, idUpper[t])
  BY DEF Bound
<1>4. QED
  BY <1>1, <1>2, <1>3 DEF Processes

\* SetAdd splits a range in the middle or before it.
LEMMA SetAddSplits ==
  ASSUME ServicesInv, NEW t \in Thread, pc[t] = "descend", sid[t] = "SETADD", idUpper[t] - t > 1
  PROVE  /\ Placing(t) /\ NewNode(t) \in NodeType /\ Middle(t, idUpper[t]) \in Thread
         /\ t <= Middle(t, idUpper[t]) /\ Middle(t, idUpper[t]) < idUpper[t]
         /\ 2 * (Middle(t, idUpper[t]) - t) <= idUpper[t] - t
         /\ idUpper[t] \in 0..Threads
<1>1. Placing(t)
  BY DEF Placing
<1>2. idUpper[t] \in 0..Threads /\ Aligned(t, idUpper[t])
  BY <1>1, PlacingRange
<1>3. /\ Middle(t, idUpper[t]) \in Thread /\ t <= Middle(t, idUpper[t]) /\ Middle(t, idUpper[t]) < idUpper[t]
      /\ 2 * (Middle(t, idUpper[t]) - t) <= idUpper[t] - t
  BY <1>2, MiddleSplits
<1>4. NewNode(t) \in NodeType
  <2> DEFINE m == Middle(t, idUpper[t])
             e == idUpper[t]
  <2>1. e - t \in Nat /\ m - t \in Nat /\ e - m \in Nat
    <3>1. t \in Nat /\ m \in Nat
      BY <1>3, ThreadsAre
    <3>2. e \in Nat
      BY <1>2
    <3>3. t <= m /\ m < e
      BY <1>3
    <3> HIDE DEF m, e
    <3>4. QED
      BY <3>1, <3>2, <3>3
  <2>2. m \in Thread
    BY <1>3
  <2>3. NewNode(t) = [nLeaves |-> e - t, nLower |-> m - t, nUpper |-> e - m, idUpper |-> m]
    BY DEF NewNode
  <2> HIDE DEF m, e
  <2>4. QED
    BY <2>1, <2>2, <2>3 DEF NodeType
<1>5. QED
  BY <1>1, <1>2, <1>3, <1>4

\* Recurse asks for the upper part of a node that has one.
LEMMA RecurseTarget ==
  ASSUME ServicesInv, NEW t \in Thread, pc[t] = "descend", sid[t] = "COUNT", Node(t).nLeaves > 1
  PROVE  level[t] \in Inner(t) /\ Node(t) = pst[t][level[t]] /\ Node(t).idUpper \in Thread
<1>1. TypeOK /\ Nodes /\ Located(t)
  BY DEF ServicesInv, Protocol, Tree
<1>2. level[t] \in 1..Len(pst[t]) /\ Len(pst[t]) \in Nat
  BY <1>1, TypedThread DEF Located, Busy
<1>3. level[t] # Len(pst[t])
  BY <1>1 DEF Nodes, Node, Leaf
<1>4. level[t] \in Inner(t)
  BY <1>2, <1>3 DEF Inner
<1>5. QED
  BY <1>1, <1>4 DEF Nodes, Split, Node

------------------------------------------------------------------------------
(* Types. *)

\* Two of the values a step gives are typed only by what the invariant says.
LEMMA SendTyped ==
  ASSUME ServicesInv, NEW t \in Thread, MessageSendRequest(t)
  PROVE  LET p == ThreadToProc(t)
             m == [pending[t] EXCEPT !.tag = FreeSlot(p)]
         IN  /\ p \in Proc /\ FreeSlot(p) \in 0..(RingSize(p) - 1) /\ FreeSlot(p) \in Nat /\ FreeSlot(p) \in Ring(p)
             /\ pRequestTargets[p][FreeSlot(p)] = -1
             /\ pending[t] \in Message /\ m \in Message /\ m.tag = FreeSlot(p) /\ m.to = pending[t].to /\ m.from = t
             /\ m.sid = pending[t].sid /\ m.idUpper = pending[t].idUpper
             /\ ThreadToProc(m.to) \in Proc
<1> DEFINE p == ThreadToProc(t)
           m == [pending[t] EXCEPT !.tag = FreeSlot(p)]
<1>1. TypeOK /\ Located(t) /\ pc[t] = "request" /\ \E i \in Ring(p) : pRequestTargets[p][i] = -1
  BY DEF ServicesInv, Protocol, MessageSendRequest
<1>2. p \in Proc /\ RingSize(p) \in Nat \ {0}
  BY ProcessOf, RingSizes
<1>3. iRequestTarget[p] \in 0..(RingSize(p) - 1) /\ pRequestTargets[p] \in [0..(RingSize(p) - 1) -> Proc \cup {-1}]
  BY <1>1, <1>2 DEF TypeOK, RingsOK
<1>4. FreeSlot(p) \in 0..(RingSize(p) - 1) /\ pRequestTargets[p][FreeSlot(p)] = -1
  BY <1>1, <1>2, <1>3, FreeSlotIsFree
<1>5. FreeSlot(p) \in Ring(p) /\ FreeSlot(p) \in Nat
  BY <1>2, <1>3, <1>4 DEF Ring
<1>6. pending[t] \in Message /\ pending[t].from = t
  BY <1>1, PendingMessage DEF Located, Asks
<1> HIDE DEF p
<1>7. m \in Message /\ m.tag = FreeSlot(p) /\ m.to = pending[t].to /\ m.from = t /\ m.to \in Thread
      /\ m.sid = pending[t].sid /\ m.idUpper = pending[t].idUpper
  BY <1>5, <1>6 DEF Message
<1>8. ThreadToProc(m.to) \in Proc
  BY <1>7, ProcessOf
<1>9. QED
  BY <1>2, <1>4, <1>5, <1>6, <1>7, <1>8 DEF p

\* A reply a thread may receive has the tag it waits for, and a slot.
LEMMA ReplyTyped ==
  ASSUME ServicesInv, NEW t \in Thread, pc[t] = "reply", NEW r \in Matching(t)
  PROVE  /\ r \in Answer /\ r \in answers /\ r.vout \in Nat
         /\ replies[t] # <<>> /\ r.tag = Last(replies[t]) /\ ThreadToProc(r.to) = ThreadToProc(t)
         /\ ThreadToProc(t) \in Proc /\ r.tag \in Ring(ThreadToProc(t)) /\ r.tag = replies[t][Len(replies[t])]
<1>1. TypeOK /\ Located(t) /\ Slots
  BY DEF ServicesInv, Protocol
<1>2. r \in Answer /\ r \in answers /\ r.tag = Last(replies[t]) /\ ThreadToProc(r.to) = ThreadToProc(t)
  BY <1>1 DEF TypeOK, Matching
<1>3. replies[t] # <<>>
  BY <1>1 DEF Located
<1>4. r.tag = replies[t][Len(replies[t])] /\ Len(replies[t]) >= 1 /\ Len(replies[t]) \in Nat
  BY <1>1, <1>2, <1>3, FrontFacts, TypedThread
<1>5. Len(replies[t]) \in 1..Sent(t) /\ Tag(t, Len(replies[t])) = r.tag
  BY <1>1, <1>4, OutFacts
<1>6. r.tag \in Ring(ThreadToProc(t))
  BY <1>1, <1>5 DEF Slots
<1>7. QED
  BY <1>2, <1>3, <1>4, <1>6, ProcessOf DEF Answer

\* One slot of one ring changes,
LEMMA RingsStep ==
  ASSUME RingsOK, NEW p \in Proc, NEW k \in Ring(p), NEW v \in Proc \cup {-1},
         pRequestTargets' = [pRequestTargets EXCEPT ![p][k] = v],
         iRequestTarget' = iRequestTarget \/ iRequestTarget' = [iRequestTarget EXCEPT ![p] = k]
  PROVE  /\ RingsOK'
         /\ \A q \in Proc : Ring(q)' = Ring(q)
         /\ \A q \in Proc : \A j \in Ring(q) : pRequestTargets'[q][j] = IF q = p /\ j = k THEN v ELSE pRequestTargets[q][j]
<1>1. \A q \in Proc : pRequestTargets[q] \in [0..(RingSize(q) - 1) -> Proc \cup {-1}] /\ Ring(q) = 0..(RingSize(q) - 1)
  BY DEF RingsOK, Ring
<1>2. pRequestTargets = [q \in Proc |-> pRequestTargets[q]] /\ iRequestTarget = [q \in Proc |-> iRequestTarget[q]]
  BY DEF RingsOK
<1>3. \A q \in Proc : pRequestTargets'[q] = IF q = p THEN [pRequestTargets[p] EXCEPT ![k] = v] ELSE pRequestTargets[q]
  BY <1>2
<1>4. ASSUME NEW q \in Proc PROVE pRequestTargets'[q] \in [0..(RingSize(q) - 1) -> Proc \cup {-1}]
  <2>1. CASE q # p
    BY <1>1, <1>3, <2>1
  <2>2. CASE q = p
    <3> DEFINE f == pRequestTargets[p]
    <3>1. f \in [0..(RingSize(p) - 1) -> Proc \cup {-1}]
      BY <1>1
    <3> HIDE DEF f
    <3>2. [f EXCEPT ![k] = v] \in [0..(RingSize(p) - 1) -> Proc \cup {-1}]
      BY <3>1
    <3>3. QED
      BY <1>3, <2>2, <3>2 DEF f
  <2>3. QED
    BY <2>1, <2>2
<1>5. \A q \in Proc : Ring(q)' = Ring(q)
  BY <1>1, <1>4 DEF Ring
<1>6. \A q \in Proc : \A j \in Ring(q) : pRequestTargets'[q][j] = IF q = p /\ j = k THEN v ELSE pRequestTargets[q][j]
  BY <1>1, <1>3
<1>7. pRequestTargets' = [q \in Proc |-> pRequestTargets'[q]] /\ iRequestTarget' = [q \in Proc |-> iRequestTarget'[q]]
  BY <1>2
<1>8. \A q \in Proc : iRequestTarget'[q] \in 0..(RingSize(q) - 1)
  BY <1>1, <1>2 DEF RingsOK
<1>9. RingsOK'
  BY <1>4, <1>7, <1>8 DEF RingsOK
<1>10. QED
  BY <1>5, <1>6, <1>9

\* or none.
LEMMA RingsSame == ASSUME RingsOK, UNCHANGED ringVars PROVE RingsOK' /\ \A q : Ring(q)' = Ring(q)
BY DEF RingsOK, Ring, ringVars

\* Every step keeps the types.
LEMMA TypesKept ==
  ASSUME ServicesInv, [Next]_vars
  PROVE  TypeOK'
<1>1. TypeOK /\ RingsOK
  BY DEF ServicesInv, Protocol, TypeOK
<1>2. Threads \in Nat \ {0} /\ 0 \in Thread /\ Traversals \in Nat /\ Thread \subseteq Nat
  BY ThreadsAre
<1>3. ASSUME NEW t \in Thread, MessageSendRequest(t) PROVE TypeOK'
  <2> DEFINE p == ThreadToProc(t)
             m == [pending[t] EXCEPT !.tag = FreeSlot(p)]
  <2>1. p \in Proc /\ FreeSlot(p) \in Ring(p) /\ m \in Message /\ ThreadToProc(m.to) \in Proc /\ m.tag = FreeSlot(p)
    BY <1>3, SendTyped
  <2>2. /\ pRequestTargets' = [pRequestTargets EXCEPT ![p][m.tag] = ThreadToProc(m.to)]
        /\ iRequestTarget' = [iRequestTarget EXCEPT ![p] = m.tag]
        /\ net' = net \cup {m} /\ pending' = [pending EXCEPT ![t] = m] /\ pc' = [pc EXCEPT ![t] = "sending"]
        /\ UNCHANGED <<sid, pst, level, idUpper, replies, vout, caller, answers, served, step>>
    BY <1>3 DEF MessageSendRequest
  <2> HIDE DEF p, m
  <2>3. RingsOK'
    BY <1>1, <2>1, <2>2, RingsStep
  <2>4. QED
    BY <1>1, <2>1, <2>2, <2>3 DEF TypeOK, Busy
<1>4. ASSUME NEW t \in Thread, Requested(t) PROVE TypeOK'
  <2>1. pending[t].tag \in Nat /\ replies[t] \in Seq(Nat)
    BY <1>1, <1>4, TypedThread DEF Requested, ServicesInv, Protocol, Located
  <2>2. Append(replies[t], pending[t].tag) \in Seq(Nat)
    BY <2>1, AppendFacts
  <2>3. RingsOK'
    BY <1>1, <1>4, RingsSame DEF Requested
  <2>4. QED
    BY <1>1, <1>4, <2>2, <2>3 DEF Requested, TypeOK, Busy
<1>5. ASSUME NEW t \in Thread, FinishReceiveReply(t) PROVE TypeOK'
  <2>1. PICK r \in Matching(t) : /\ answers' = answers \ {r}
                                 /\ pRequestTargets' = [pRequestTargets EXCEPT ![ThreadToProc(t)][r.tag] = -1]
                                 /\ vout' = [vout EXCEPT ![t] = Combine(t, r.vout)]
    BY <1>5 DEF FinishReceiveReply
  <2>2. /\ pc[t] = "reply" /\ replies' = [replies EXCEPT ![t] = Front(@)]
        /\ level' = [level EXCEPT ![t] = IF @ > 1 THEN @ - 1 ELSE @] /\ pc' = [pc EXCEPT ![t] = "ascend"]
        /\ UNCHANGED <<sid, pst, idUpper, caller, pending, iRequestTarget, net, served, step>>
    BY <1>5 DEF FinishReceiveReply
  <2>3. r.vout \in Nat /\ replies[t] # <<>> /\ ThreadToProc(t) \in Proc /\ r.tag \in Ring(ThreadToProc(t))
    BY <2>2, ReplyTyped
  <2>4. RingsOK'
    BY <1>1, <2>1, <2>2, <2>3, RingsStep
  <2>5. Front(replies[t]) \in Seq(Nat)
    BY <1>1, <2>3, FrontFacts, TypedThread
  <2>6. Combine(t, r.vout) \in Nat
    BY <1>1, <2>3 DEF Combine, TypeOK
  <2>7. level' \in [Thread -> Nat \ {0}]
    BY <1>1, <2>2 DEF TypeOK
  <2>8. QED
    BY <1>1, <2>1, <2>2, <2>4, <2>5, <2>6, <2>7 DEF TypeOK, Busy
<1>6. ASSUME NEW t \in Thread, Handler(t) PROVE TypeOK'
  <2>1. PICK m \in net : /\ net' = net \ {m} /\ caller' = [caller EXCEPT ![t] = m] /\ Run(t, m.sid, m.idUpper)
                         /\ pc' = [pc EXCEPT ![t] = IF m.sid = "STOP" THEN "ascend" ELSE "descend"]
    BY <1>6 DEF Handler
  <2>2. m \in Message /\ m.sid \in Sid /\ m.idUpper \in 0..Threads
    BY <1>1 DEF TypeOK, Message
  <2>3. RingsOK'
    BY <1>1, <1>6, RingsSame DEF Handler
  <2>4. QED
    BY <1>1, <1>6, <2>1, <2>2, <2>3 DEF Handler, Run, TypeOK, Busy
<1>7. ASSUME NEW t \in Thread, SendReply(t) PROVE TypeOK'
  <2>1. Serving(t) /\ Linked /\ Slots
    BY <1>7 DEF SendReply, Serving, Busy, ServicesInv, Protocol
  <2>2. caller[t] \in Message /\ caller[t].tag \in Nat
    BY <1>1, <2>1, CallerMessage
  <2>3. [from |-> t, to |-> caller[t].from, sid |-> sid[t], tag |-> caller[t].tag, vout |-> vout[t]] \in Answer
    BY <1>1, <2>2 DEF TypeOK, Answer, Message
  <2>4. RingsOK'
    BY <1>1, <1>7, RingsSame DEF SendReply
  <2>5. QED
    BY <1>1, <1>7, <2>3, <2>4 DEF SendReply, TypeOK, Busy
<1>8. ASSUME NEW t \in Thread, SetAdd(t) PROVE TypeOK'
  <2>1. /\ pc[t] = "descend" /\ sid[t] = "SETADD" /\ idUpper[t] - t > 1
        /\ pst' = [pst EXCEPT ![t] = Append([@ EXCEPT ![Len(@)] = NewNode(t)], Leaf)]
        /\ pending' = [pending EXCEPT ![t] = [from |-> t, to |-> Middle(t, idUpper[t]), sid |-> "SETADD", idUpper |-> idUpper[t], tag |-> -1]]
        /\ pc' = [pc EXCEPT ![t] = "request"]
        /\ idUpper' = [idUpper EXCEPT ![t] = Middle(t, idUpper[t])]
        /\ UNCHANGED <<sid, level, replies, vout, caller, ringVars, net, answers, served, step>>
    BY <1>8 DEF SetAdd, ReqService, NewNode
  <2>2. NewNode(t) \in NodeType /\ Middle(t, idUpper[t]) \in Thread /\ idUpper[t] \in 0..Threads
    BY <2>1, SetAddSplits
  <2>3. [from |-> t, to |-> Middle(t, idUpper[t]), sid |-> "SETADD", idUpper |-> idUpper[t], tag |-> -1] \in Message
    BY <2>2 DEF Message, Sid
  <2>4. Append([pst[t] EXCEPT ![Len(pst[t])] = NewNode(t)], Leaf) \in Seq(NodeType)
    BY <1>1, <2>2, NodesGrow DEF TypeOK, ServicesInv, Tree, Nodes
  <2>5. Middle(t, idUpper[t]) \in 0..Threads
    BY <2>2, ThreadsAre
  <2>6. RingsOK'
    BY <1>1, <2>1, RingsSame
  <2>7. QED
    BY <1>1, <2>1, <2>3, <2>4, <2>5, <2>6 DEF TypeOK, Busy
<1>9. ASSUME NEW t \in Thread, Recurse(t) PROVE TypeOK'
  <2>1. Node(t).idUpper \in Thread
    BY <1>9, RecurseTarget DEF Recurse
  <2>2. [from |-> t, to |-> Node(t).idUpper, sid |-> "COUNT", idUpper |-> 0, tag |-> -1] \in Message
    BY <1>2, <2>1 DEF Message, Sid
  <2>3. RingsOK'
    BY <1>1, <1>9, RingsSame DEF Recurse
  <2>4. QED
    BY <1>1, <1>9, <2>2, <2>3 DEF Recurse, ReqService, TypeOK, Busy
<1>10. ASSUME NEW t \in Thread, GetReply(t) \/ Replied(t) \/ SetAddDone(t) \/ Service(t) PROVE TypeOK'
  <2>1. RingsOK'
    BY <1>1, <1>10, RingsSame DEF GetReply, Replied, SetAddDone, Service
  <2>2. pc' \in [Thread -> Busy \cup {"master", "handler", "answer", "stopped"}] /\ vout' \in [Thread -> Nat] /\ served' \in [Thread -> Nat]
    <3>1. pc \in [Thread -> Busy \cup {"master", "handler", "answer", "stopped"}] /\ vout \in [Thread -> Nat] /\ served \in [Thread -> Nat]
      BY <1>1 DEF TypeOK
    <3>2. CASE GetReply(t)
      BY <3>1, <3>2 DEF GetReply, Busy
    <3>3. CASE Replied(t)
      BY <3>1, <3>3 DEF Replied, Busy
    <3>4. CASE SetAddDone(t)
      BY <3>1, <3>4 DEF SetAddDone, Busy
    <3>5. CASE Service(t)
      BY <3>1, <3>5 DEF Service, Busy
    <3>6. QED
      BY <1>10, <3>2, <3>3, <3>4, <3>5
  <2>3. QED
    BY <1>1, <1>10, <2>1, <2>2 DEF GetReply, Replied, SetAddDone, Service, TypeOK
<1>11. CASE RunService
  <2>1. RingsOK'
    BY <1>1, <1>11, RingsSame DEF RunService
  <2>2. QED
    <3>1. \E s \in Sid, e \in 0..Threads : Run(0, s, e)
      BY <1>2, <1>11 DEF RunService, Sid
    <3>2. PICK s \in Sid, e \in 0..Threads : Run(0, s, e)
      BY <3>1
    <3>3. step' = step + 1 /\ pc' = [pc EXCEPT ![0] = "descend"]
          /\ UNCHANGED <<pst, replies, caller, pending, ringVars, net, answers, served>>
      BY <1>11 DEF RunService
    <3>4. /\ sid' \in [Thread -> Sid] /\ idUpper' \in [Thread -> 0..Threads]
          /\ level' \in [Thread -> Nat \ {0}] /\ vout' \in [Thread -> Nat]
      BY <1>1, <1>2, <3>2 DEF Run, TypeOK
    <3>5. step' \in Nat /\ pc' \in [Thread -> Busy \cup {"master", "handler", "answer", "stopped"}]
      BY <1>1, <1>2, <3>3 DEF TypeOK, Busy
    <3>6. QED
      BY <1>1, <2>1, <3>3, <3>4, <3>5 DEF TypeOK
<1>12. CASE StopNext
  <2>1. RingsOK'
    BY <1>1, <1>12, RingsSame DEF StopNext
  <2>2. step - Traversals \in Thread
    BY <1>1, <1>2, <1>12 DEF StopNext, TypeOK, Thread
  <2>3. [from |-> 0, to |-> step - Traversals, sid |-> "STOP", idUpper |-> 0, tag |-> -1] \in Message
    BY <1>2, <2>2 DEF Message, Sid
  <2>4. QED
    <3>1. /\ sid' = [sid EXCEPT ![0] = "STOP"] /\ idUpper' = [idUpper EXCEPT ![0] = 0]
          /\ level' = [level EXCEPT ![0] = 1] /\ vout' = [vout EXCEPT ![0] = 0] /\ step' = step + 1
          /\ pending' = [pending EXCEPT ![0] = [from |-> 0, to |-> step - Traversals, sid |-> "STOP", idUpper |-> 0, tag |-> -1]]
          /\ pc' = [pc EXCEPT ![0] = "request"]
          /\ UNCHANGED <<pst, replies, caller, ringVars, net, answers, served>>
      BY <1>12 DEF StopNext, Run, ReqService
    <3>2. "STOP" \in Sid /\ 0 \in 0..Threads
      BY <1>2 DEF Sid
    <3>3. /\ sid' \in [Thread -> Sid] /\ idUpper' \in [Thread -> 0..Threads]
          /\ level' \in [Thread -> Nat \ {0}] /\ vout' \in [Thread -> Nat]
      BY <1>1, <1>2, <3>1, <3>2 DEF TypeOK
    <3>4. /\ step' \in Nat /\ pc' \in [Thread -> Busy \cup {"master", "handler", "answer", "stopped"}]
          /\ pending' \in [Thread -> Message \cup {None}]
      BY <1>1, <1>2, <2>3, <3>1 DEF TypeOK, Busy
    <3>5. QED
      BY <1>1, <2>1, <3>1, <3>3, <3>4 DEF TypeOK
<1>13. CASE Finish
  <2>1. RingsOK'
    BY <1>1, <1>13, RingsSame DEF Finish
  <2>2. QED
    BY <1>1, <1>13, <2>1 DEF Finish, TypeOK, Busy
<1>14. CASE UNCHANGED vars
  <2>1. RingsOK'
    BY <1>1, <1>14, RingsSame DEF vars, ringVars
  <2>2. QED
    BY <1>1, <1>14, <2>1 DEF vars, TypeOK
<1>15. QED
  BY <1>3, <1>4, <1>5, <1>6, <1>7, <1>8, <1>9, <1>10, <1>11, <1>12, <1>13, <1>14 DEF Next, ThreadStep

------------------------------------------------------------------------------
(* What the other threads keep. *)

\* What no step of another thread changes.
Steady(u) ==
  /\ pc'[u] = pc[u] /\ sid'[u] = sid[u] /\ pst'[u] = pst[u] /\ level'[u] = level[u] /\ idUpper'[u] = idUpper[u]
  /\ replies'[u] = replies[u] /\ vout'[u] = vout[u] /\ caller'[u] = caller[u] /\ pending'[u] = pending[u]

\* A step of a thread changes nothing of another,
LEMMA OthersSteady ==
  ASSUME TypeOK, NEW t \in Thread, ThreadStep(t)
  PROVE  step' = step /\ \A u \in Thread \ {t} : Steady(u)
<1>1. CASE MessageSendRequest(t)
  BY <1>1 DEF MessageSendRequest, Steady, TypeOK
<1>2. CASE Requested(t)
  BY <1>2 DEF Requested, Steady, TypeOK
<1>3. CASE GetReply(t)
  BY <1>3 DEF GetReply, Steady, TypeOK
<1>4. CASE FinishReceiveReply(t)
  BY <1>4 DEF FinishReceiveReply, Steady, TypeOK
<1>5. CASE Handler(t)
  BY <1>5 DEF Handler, Run, Steady, TypeOK
<1>6. CASE SendReply(t)
  BY <1>6 DEF SendReply, Steady, TypeOK
<1>7. CASE Replied(t)
  BY <1>7 DEF Replied, Steady, TypeOK
<1>8. CASE SetAdd(t)
  BY <1>8 DEF SetAdd, ReqService, Steady, TypeOK
<1>9. CASE SetAddDone(t)
  BY <1>9 DEF SetAddDone, Steady, TypeOK
<1>10. CASE Recurse(t)
  BY <1>10 DEF Recurse, ReqService, Steady, TypeOK
<1>11. CASE Service(t)
  BY <1>11 DEF Service, Steady, TypeOK
<1>12. QED
  BY <1>1, <1>2, <1>3, <1>4, <1>5, <1>6, <1>7, <1>8, <1>9, <1>10, <1>11 DEF ThreadStep

\* nor what is defined by it.
LEMMA SteadySame ==
  ASSUME NEW u, Steady(u), step' = step
  PROVE  /\ Out(u)' = Out(u) /\ Sent(u)' = Sent(u) /\ (Placing(u)' <=> Placing(u)) /\ Inner(u)' = Inner(u)
         /\ \A i : Tag(u, i)' = Tag(u, i) /\ Target(u, i)' = Target(u, i) /\ Leaves(u, i)' = Leaves(u, i)
         /\ Located(u) => Located(u)'
         /\ Serving(u)' <=> Serving(u)
<1>1. /\ Out(u)' = Out(u) /\ Sent(u)' = Sent(u) /\ (Placing(u)' <=> Placing(u)) /\ Inner(u)' = Inner(u)
      /\ Phase' = Phase /\ (Serving(u)' <=> Serving(u))
  BY DEF Out, Sent, Placing, Inner, Steady, Phase, Serving
<1>2. \A i : Tag(u, i)' = Tag(u, i) /\ Target(u, i)' = Target(u, i) /\ Leaves(u, i)' = Leaves(u, i)
  BY <1>1 DEF Tag, Target, Leaves, Steady
<1>3. Located(u) => Located(u)'
  BY <1>1, <1>2 DEF Located, Steady
<1>4. QED
  BY <1>1, <1>2, <1>3

\* While the master is not in a service there is nothing to do.
LEMMA QuietBetweenServices ==
  ASSUME Protocol, Idle
  PROVE  /\ net = {} /\ answers = {} /\ replies[0] = <<>> /\ Out(0) = 0
         /\ \A t \in Thread \ {0} : pc[t] \notin Busy
         /\ \A t \in Thread : Sent(t) = 0
<1>1. TypeOK /\ Linked /\ \A t \in Thread : Located(t)
  BY DEF Protocol
<1>2. 0 \in Thread /\ Thread \subseteq Nat
  BY ThreadsAre
<1>3. pc[0] \notin Asks /\ replies[0] = <<>>
  BY <1>1, <1>2 DEF Idle, Located, Asks, Busy
<1>4. Out(0) = 0 /\ Sent(0) = 0
  BY <1>1, <1>2, <1>3, TypedThread, OutFacts DEF Out
<1>5. ASSUME NEW f \in Thread, Sent(f) # 0 PROVE Serving(f)
  BY <1>1, <1>4, <1>5, OutFacts, SentWhenBusy DEF Serving
<1>6. \A f, k, u, s : Belongs(f, k, u, s) => f \in Thread /\ Sent(f) # 0
  <2>1. ASSUME NEW f, NEW k, NEW u, NEW s, Belongs(f, k, u, s) PROVE f \in Thread /\ Sent(f) # 0
    <3>1. f \in Thread /\ \E i \in 1..Sent(f) : TRUE
      BY <2>1 DEF Belongs
    <3>2. QED
      BY <1>1, <3>1, OutFacts
  <2>2. QED
    BY <2>1
<1>7. {t \in Thread : Serving(t)} = {}
  <2>1. SUFFICES ASSUME {t \in Thread : Serving(t)} # {} PROVE FALSE
    OBVIOUS
  <2>2. PICK t \in {u \in Thread : Serving(u)} : \A u \in {w \in Thread : Serving(w)} : t <= u
    <3>1. {u \in Thread : Serving(u)} \subseteq Nat
      BY <1>2
    <3>2. QED
      BY <2>1, <3>1, LeastNatural
  <2>3. Belongs(caller[t].from, caller[t].tag, t, sid[t]) /\ caller[t].from < t
    BY <1>1, <2>2 DEF Linked
  <2>4. caller[t].from \in Thread /\ Serving(caller[t].from)
    BY <1>5, <1>6, <2>3
  <2>5. QED
    BY <1>2, <2>2, <2>3, <2>4
<1>8. \A f \in Thread : Sent(f) = 0
  BY <1>5, <1>7
<1>9. net = {} /\ answers = {}
  BY <1>1, <1>6, <1>8 DEF Linked
<1>10. \A t \in Thread \ {0} : pc[t] \notin Busy
  BY <1>7 DEF Serving
<1>11. QED
  BY <1>3, <1>4, <1>8, <1>9, <1>10

\* Who has asked a thread that is free to serve: another one, for the service of the phase.
LEMMA CallOf ==
  ASSUME ServicesInv, NEW t \in Thread, pc[t] = "handler", NEW m \in net, m.to = t
  PROVE  /\ m \in Message /\ m.from \in Thread /\ m.from < t /\ m.from # t /\ m.sid = Phase /\ step > 0 /\ t # 0
         /\ m.sid = "SETADD" => pst[t] = <<Leaf>> /\ m.idUpper > t /\ Asked(m.from, t, m.idUpper)
         /\ pc[m.from] \in Busy /\ sid[m.from] = m.sid
         /\ \E i \in 1..Sent(m.from) : Tag(m.from, i) = m.tag /\ Target(m.from, i) = t
<1>1. TypeOK /\ Linked /\ (\A u \in Thread : Located(u)) /\ Nodes /\ AskedKnown
  BY DEF ServicesInv, Protocol, Tree
<1>2. m \in Message /\ m.from \in Thread /\ m.idUpper \in 0..Threads /\ m.sid = sid[m.from]
      /\ \E i \in 1..Sent(m.from) : Tag(m.from, i) = m.tag /\ Target(m.from, i) = t
  BY <1>1 DEF TypeOK, Message, Linked, Belongs
<1>3. PICK i \in 1..Sent(m.from) : Tag(m.from, i) = m.tag /\ Target(m.from, i) = t
  BY <1>2
<1>4. i \in 1..Out(m.from) /\ Out(m.from) > 0
  BY <1>1, <1>2, <1>3, OutFacts
<1>5. pc[m.from] \in Busy
  BY <1>1, <1>2, <1>4, SentWhenBusy
<1>6. m.from # t /\ t # 0 /\ m.sid = Phase /\ step > 0
  BY <1>1, <1>2, <1>5 DEF Located, Busy
<1>7. m.from < t
  <2>1. CASE sid[m.from] = "STOP"
    <3>1. m.from = 0
      BY <1>1, <1>2, <1>4, <1>5, <2>1 DEF Located
    <3>2. QED
      BY <1>6, <3>1, ThreadsAre
  <2>2. CASE sid[m.from] # "STOP"
    <3>1. i \in Inner(m.from) /\ Target(m.from, i) = pst[m.from][i].idUpper
      BY <1>1, <1>2, <1>4, <2>2, RequestIsNode
    <3>2. Split(m.from, i) /\ pst[m.from][i].nLower \in Nat
      BY <1>1, <1>2, <3>1, NodeTyped DEF Nodes
    <3>3. t = m.from + pst[m.from][i].nLower
      BY <1>3, <3>1, <3>2 DEF Split
    <3>4. QED
      BY <1>2, <1>6, <3>2, <3>3, ThreadsAre
  <2>3. QED
    BY <2>1, <2>2
<1>8. m.sid = "SETADD" => Asked(m.from, t, m.idUpper)
  BY DEF Asked
<1>9. m.sid = "SETADD" => pst[t] = <<Leaf>> /\ m.idUpper > t
  BY <1>1, <1>2, <1>6, <1>8, ThreadsAre DEF AskedKnown, Untouched
<1>10. QED
  BY <1>2, <1>5, <1>6, <1>7, <1>8, <1>9

------------------------------------------------------------------------------
(* Where a thread is after each of its steps. *)

\* The service is the master's.
LEMMA PhaseSame == ASSUME step' = step PROVE Phase' = Phase
BY DEF Phase

\* Where a thread is after each of its steps, and that the requests it has sent are the same
\* except when it sends one or takes a reply.
LEMMA AfterSend ==
  ASSUME ServicesInv, NEW t \in Thread, MessageSendRequest(t)
  PROVE  /\ Located(t)' /\ Sent(t)' = Sent(t) + 1
         /\ \A i \in 1..Sent(t) : Tag(t, i)' = Tag(t, i) /\ Target(t, i)' = Target(t, i)
         /\ \A i : i = Sent(t) + 1 => Tag(t, i)' = FreeSlot(ThreadToProc(t)) /\ Target(t, i)' = pending[t].to
<1>1. TypeOK /\ Located(t)
  BY DEF ServicesInv, Protocol
<1> DEFINE m == [pending[t] EXCEPT !.tag = FreeSlot(ThreadToProc(t))]
           n == Len(replies[t])
<1>2. /\ m.to = pending[t].to /\ m.from = t /\ m.sid = pending[t].sid /\ m.idUpper = pending[t].idUpper
      /\ m.tag = FreeSlot(ThreadToProc(t)) /\ m.tag \in Nat /\ m \in Message
  BY SendTyped
<1> HIDE DEF m
<1>3. /\ pc[t] = "request" /\ pc'[t] = "sending" /\ pending'[t] = m /\ replies'[t] = replies[t]
      /\ sid'[t] = sid[t] /\ pst'[t] = pst[t] /\ level'[t] = level[t] /\ step' = step
  BY <1>1 DEF MessageSendRequest, m, TypeOK
<1>4. n \in Nat /\ Out(t) = n + 1 /\ Sent(t) = n /\ Out(t)' = n + 1 /\ Sent(t)' = n + 1
  BY <1>1, <1>3, TypedThread DEF Out, Sent, Asks
<1>5. \A i \in 1..n : Tag(t, i)' = Tag(t, i)
  BY <1>3, <1>4 DEF Tag
<1>6. \A i : Target(t, i)' = Target(t, i)
  BY <1>3 DEF Target
<1>7. \A i : i = n + 1 => Tag(t, i)' = m.tag
  BY <1>3 DEF Tag
<1>8. pending[t].to = Target(t, Out(t)) /\ pending[t].to \in Thread /\ pending[t].sid = sid[t]
  BY <1>1, <1>3 DEF Located, Asks
<1>9. Located(t)'
  BY <1>1, <1>2, <1>3, <1>4, <1>6, <1>8, PhaseSame DEF Located, Busy, Asks
<1>10. QED
  BY <1>2, <1>4, <1>5, <1>6, <1>7, <1>8, <1>9

\* ReqService returns.
LEMMA AfterRequested ==
  ASSUME ServicesInv, NEW t \in Thread, Requested(t)
  PROVE  /\ Located(t)' /\ Sent(t)' = Sent(t)
         /\ \A i \in 1..Sent(t) : Tag(t, i)' = Tag(t, i) /\ Target(t, i)' = Target(t, i)
<1>1. TypeOK /\ Located(t)
  BY DEF ServicesInv, Protocol
<1> DEFINE n == Len(replies[t])
<1>2. /\ pc[t] = "sending" /\ pc'[t] = (IF sid[t] = "STOP" THEN "ascend" ELSE "descend")
      /\ replies'[t] = Append(replies[t], pending[t].tag)
      /\ sid'[t] = sid[t] /\ pst'[t] = pst[t] /\ level'[t] = level[t] /\ step' = step
  BY <1>1 DEF Requested, TypeOK
<1>3. pending[t].tag \in Nat /\ replies[t] \in Seq(Nat)
  BY <1>1, <1>2, TypedThread DEF Located
<1>4. /\ n \in Nat /\ Len(replies'[t]) = n + 1 /\ replies'[t] # <<>>
      /\ \A i \in 1..n : replies'[t][i] = replies[t][i]
      /\ replies'[t][n + 1] = pending[t].tag
  BY <1>2, <1>3, AppendFacts
<1>5. Out(t) = n + 1 /\ Sent(t) = n + 1 /\ Out(t)' = n + 1 /\ Sent(t)' = n + 1
  BY <1>2, <1>4 DEF Out, Sent, Asks
<1>6. \A i \in 1..(n + 1) : Tag(t, i)' = Tag(t, i)
  BY <1>4 DEF Tag
<1>7. \A i : Target(t, i)' = Target(t, i)
  BY <1>2 DEF Target
<1>8. Located(t)'
  BY <1>1, <1>2, <1>4, <1>5, PhaseSame DEF Located, Busy, Asks
<1>9. QED
  BY <1>5, <1>6, <1>7, <1>8

\* GetReply returns.
LEMMA AfterReply ==
  ASSUME ServicesInv, NEW t \in Thread, FinishReceiveReply(t)
  PROVE  /\ Located(t)' /\ Sent(t)' = Sent(t) - 1 /\ Sent(t) >= 1 /\ Sent(t) = Len(replies[t])
         /\ \A i \in 1..(Sent(t) - 1) : Tag(t, i)' = Tag(t, i) /\ Target(t, i)' = Target(t, i)
         /\ Tag(t, Sent(t)) = Last(replies[t])
<1>1. TypeOK /\ Located(t)
  BY DEF ServicesInv, Protocol
<1> DEFINE n == Len(replies[t])
<1>2. /\ pc[t] = "reply" /\ pc'[t] = "ascend" /\ replies'[t] = Front(replies[t])
      /\ level'[t] = (IF level[t] > 1 THEN level[t] - 1 ELSE level[t])
      /\ sid'[t] = sid[t] /\ pst'[t] = pst[t] /\ step' = step
  BY <1>1 DEF FinishReceiveReply, TypeOK
<1>3. replies[t] # <<>> /\ replies[t] \in Seq(Nat) /\ Len(pst[t]) \in Nat
  BY <1>1, <1>2, TypedThread DEF Located
<1>4. /\ n \in Nat /\ n >= 1 /\ Len(replies'[t]) = n - 1
      /\ \A i \in 1..(n - 1) : replies'[t][i] = replies[t][i]
      /\ Last(replies[t]) = replies[t][n]
  <2>1. /\ Len(Front(replies[t])) = n - 1 /\ n >= 1 /\ \A i \in 1..(n - 1) : Front(replies[t])[i] = replies[t][i]
        /\ Last(replies[t]) = replies[t][n]
    BY <1>3, FrontFacts
  <2>2. n \in Nat
    BY <1>1, TypedThread
  <2>3. QED
    BY <1>2, <2>1, <2>2
<1>5. Out(t) = n /\ Sent(t) = n /\ Out(t)' = n - 1 /\ Sent(t)' = n - 1
  BY <1>2, <1>4 DEF Out, Sent, Asks
<1>6. (\A i \in 1..(n - 1) : Tag(t, i)' = Tag(t, i)) /\ Tag(t, n) = replies[t][n]
  BY <1>4 DEF Tag
<1>7. \A i : Target(t, i)' = Target(t, i)
  BY <1>2 DEF Target
<1>8. sid[t] = "COUNT" => level'[t] = level[t] - 1 /\ level[t] \in Nat
  BY <1>1, <1>2, <1>4, <1>5, TypedThread DEF Located, Busy
<1>9. sid[t] = "STOP" => t = 0 /\ n = 1
  <2>1. SUFFICES ASSUME sid[t] = "STOP" PROVE t = 0 /\ n = 1
    OBVIOUS
  <2>2. Out(t) <= 1 /\ (t # 0 => Out(t) = 0)
    BY <1>1, <1>2, <2>1 DEF Located, Busy
  <2> HIDE DEF n
  <2>3. QED
    BY <1>4, <1>5, <2>2
<1> HIDE DEF n
<1>10. Located(t)'
  BY <1>1, <1>2, <1>3, <1>4, <1>5, <1>8, <1>9, PhaseSame DEF Located, Busy, Asks
<1>11. QED
  BY <1>4, <1>5, <1>6, <1>7, <1>10 DEF n

\* Handler begins a service.
LEMMA AfterHandler ==
  ASSUME ServicesInv, NEW t \in Thread, Handler(t)
  PROVE  Located(t)' /\ Sent(t)' = 0 /\ Sent(t) = 0
<1>1. TypeOK /\ Located(t) /\ Nodes
  BY DEF ServicesInv, Protocol, Tree
<1>2. PICK m \in net : /\ m.to = t /\ caller' = [caller EXCEPT ![t] = m] /\ Run(t, m.sid, m.idUpper)
                       /\ pc' = [pc EXCEPT ![t] = IF m.sid = "STOP" THEN "ascend" ELSE "descend"]
  BY DEF Handler
<1>3. pc[t] = "handler" /\ UNCHANGED <<pst, replies, step>>
  BY DEF Handler
<1>4. m.sid = Phase /\ step > 0 /\ t # 0 /\ (m.sid = "SETADD" => pst[t] = <<Leaf>>)
  BY <1>2, <1>3, CallOf
<1>5. replies[t] = <<>> /\ Len(replies[t]) = 0
  BY <1>1, <1>3, TypedThread DEF Located, Busy
<1>6. pc'[t] = (IF m.sid = "STOP" THEN "ascend" ELSE "descend") /\ sid'[t] = m.sid /\ level'[t] = 1
  BY <1>1, <1>2 DEF Run, TypeOK
<1>7. Out(t)' = 0 /\ Sent(t)' = 0 /\ Sent(t) = 0
  BY <1>3, <1>5, <1>6 DEF Out, Sent, Asks
<1>8. Len(pst[t]) >= 1 /\ Len(pst[t]) \in Nat /\ (m.sid = "SETADD" => Len(pst[t]) = 1)
  <2>1. pst[t] \in Seq(NodeType) /\ pst[t] # <<>>
    BY <1>1, TypedThread DEF Nodes
  <2>2. Len(pst[t]) \in Nat \ {0}
    BY <2>1, EmptySeq
  <2>3. Len(<<Leaf>>) = 1
    OBVIOUS
  <2>4. m.sid = "SETADD" => Len(pst[t]) = 1
    BY <1>4, <2>3
  <2>5. QED
    BY <2>2, <2>4
<1>9. Located(t)'
  BY <1>3, <1>4, <1>5, <1>6, <1>7, <1>8, PhaseSame DEF Located, Busy, Asks
<1>10. QED
  BY <1>7, <1>9

\* SetAdd asks.
LEMMA AfterSetAdd ==
  ASSUME ServicesInv, NEW t \in Thread, SetAdd(t)
  PROVE  /\ Located(t)' /\ Sent(t)' = Sent(t)
         /\ \A i \in 1..Sent(t) : Tag(t, i)' = Tag(t, i) /\ Target(t, i)' = Target(t, i)
         /\ Len(pst'[t]) = Len(pst[t]) + 1 /\ Len(pst[t]) \in Nat \ {0}
         /\ \A i \in Inner(t) : pst'[t][i] = pst[t][i]
         /\ pst'[t][Len(pst[t])] = NewNode(t) /\ pst'[t][Len(pst[t]) + 1] = Leaf
<1>1. TypeOK /\ Located(t) /\ Nodes
  BY DEF ServicesInv, Protocol, Tree
<1>2. /\ pc[t] = "descend" /\ sid[t] = "SETADD" /\ idUpper[t] - t > 1
      /\ pc'[t] = "request" /\ sid'[t] = sid[t] /\ replies'[t] = replies[t] /\ step' = step
      /\ pst'[t] = Append([pst[t] EXCEPT ![Len(pst[t])] = NewNode(t)], Leaf)
      /\ pending'[t] = [from |-> t, to |-> Middle(t, idUpper[t]), sid |-> "SETADD", idUpper |-> idUpper[t], tag |-> -1]
  BY <1>1 DEF SetAdd, ReqService, NewNode, TypeOK
<1>3. pst[t] \in Seq(NodeType) /\ pst[t] # <<>> /\ NewNode(t) \in NodeType /\ Middle(t, idUpper[t]) \in Thread /\ idUpper[t] \in 0..Threads
  BY <1>1, <1>2, SetAddSplits DEF TypeOK, Nodes
<1> DEFINE L == Len(pst[t])
           n == Len(replies[t])
<1>4. /\ Len(pst'[t]) = L + 1 /\ L \in Nat \ {0} /\ \A i \in 1..(L - 1) : pst'[t][i] = pst[t][i]
      /\ pst'[t][L] = NewNode(t) /\ pst'[t][L + 1] = Leaf
  BY <1>2, <1>3, NodesGrow
<1>5. n \in Nat /\ Out(t) = n /\ Sent(t) = n /\ Out(t)' = n + 1 /\ Sent(t)' = n /\ n = L - 1 /\ (replies[t] = <<>> <=> n = 0)
  BY <1>1, <1>2, TypedThread DEF Out, Sent, Asks, Located, Busy
<1>6. \A i \in 1..n : Tag(t, i)' = Tag(t, i)
  BY <1>2, <1>5 DEF Tag
<1>7. (\A i \in 1..n : Target(t, i)' = Target(t, i)) /\ Target(t, n + 1)' = NewNode(t).idUpper
  BY <1>2, <1>4, <1>5 DEF Target
<1>8. NewNode(t).idUpper = Middle(t, idUpper[t]) /\ NewNode(t).nLeaves = idUpper[t] - t
  BY DEF NewNode
<1>9. idUpper[t] = t + (idUpper[t] - t)
  BY <1>3, ThreadsAre
<1>10. sid[t] = Phase /\ step > 0
  BY <1>1, <1>2 DEF Located, Busy
<1>11. pst'[t][Out(t)'].nLeaves = idUpper[t] - t
  BY <1>4, <1>5, <1>8
<1>12. Located(t)'
  BY <1>2, <1>3, <1>4, <1>5, <1>7, <1>8, <1>9, <1>10, <1>11, PhaseSame DEF Located, Busy, Asks
<1>13. QED
  BY <1>4, <1>5, <1>6, <1>7, <1>12 DEF Inner

\* Recurse asks.
LEMMA AfterRecurse ==
  ASSUME ServicesInv, NEW t \in Thread, Recurse(t)
  PROVE  /\ Located(t)' /\ Sent(t)' = Sent(t)
         /\ \A i \in 1..Sent(t) : Tag(t, i)' = Tag(t, i) /\ Target(t, i)' = Target(t, i)
<1>1. TypeOK /\ Located(t)
  BY DEF ServicesInv, Protocol
<1>2. /\ pc[t] = "descend" /\ sid[t] = "COUNT" /\ Node(t).nLeaves > 1
      /\ pc'[t] = "request" /\ sid'[t] = sid[t] /\ replies'[t] = replies[t] /\ step' = step /\ pst'[t] = pst[t]
      /\ level'[t] = level[t] + 1
      /\ pending'[t] = [from |-> t, to |-> Node(t).idUpper, sid |-> "COUNT", idUpper |-> 0, tag |-> -1]
  BY <1>1 DEF Recurse, ReqService, TypeOK
<1>3. level[t] \in Inner(t) /\ Node(t) = pst[t][level[t]] /\ Node(t).idUpper \in Thread
  BY <1>2, RecurseTarget
<1> DEFINE n == Len(replies[t])
<1>4. /\ n \in Nat /\ Out(t) = n /\ Sent(t) = n /\ Out(t)' = n + 1 /\ Sent(t)' = n /\ n = level[t] - 1
      /\ (replies[t] = <<>> <=> n = 0) /\ level[t] \in Nat /\ Len(pst[t]) \in Nat
  BY <1>1, <1>2, TypedThread DEF Out, Sent, Asks, Located, Busy
<1>5. \A i \in 1..n : Tag(t, i)' = Tag(t, i)
  BY <1>2, <1>4 DEF Tag
<1>6. (\A i : Target(t, i)' = Target(t, i)) /\ Target(t, n + 1) = Node(t).idUpper
  BY <1>2, <1>3, <1>4 DEF Target
<1>7. sid[t] = Phase /\ step > 0
  BY <1>1, <1>2 DEF Located, Busy
<1>8. level[t] + 1 <= Len(pst[t])
  BY <1>3, <1>4 DEF Inner
<1>9. Located(t)'
  BY <1>2, <1>3, <1>4, <1>6, <1>7, <1>8, PhaseSame DEF Located, Busy, Asks
<1>10. QED
  BY <1>4, <1>5, <1>6, <1>9

\* The other steps.
LEMMA AfterOther ==
  ASSUME ServicesInv, NEW t \in Thread, GetReply(t) \/ SendReply(t) \/ Replied(t) \/ SetAddDone(t) \/ Service(t)
  PROVE  /\ Located(t)' /\ Sent(t)' = Sent(t)
         /\ \A i \in 1..Sent(t) : Tag(t, i)' = Tag(t, i) /\ Target(t, i)' = Target(t, i)
<1>1. TypeOK /\ Located(t)
  BY DEF ServicesInv, Protocol
<1>2. /\ pc[t] \notin Asks /\ pc'[t] \notin Asks /\ replies'[t] = replies[t] /\ sid'[t] = sid[t] /\ pst'[t] = pst[t]
      /\ level'[t] = level[t] /\ step' = step
  <2>1. CASE GetReply(t)
    BY <1>1, <2>1 DEF GetReply, TypeOK, Asks
  <2>2. CASE SendReply(t)
    BY <1>1, <2>2 DEF SendReply, TypeOK, Asks
  <2>3. CASE Replied(t)
    BY <1>1, <2>3 DEF Replied, TypeOK, Asks
  <2>4. CASE SetAddDone(t)
    BY <1>1, <2>4 DEF SetAddDone, TypeOK, Asks
  <2>5. CASE Service(t)
    BY <1>1, <2>5 DEF Service, TypeOK, Asks
  <2>6. QED
    BY <2>1, <2>2, <2>3, <2>4, <2>5
<1> DEFINE n == Len(replies[t])
<1>3. n \in Nat /\ Out(t) = n /\ Sent(t) = n /\ Out(t)' = n /\ Sent(t)' = n /\ Len(pst[t]) \in Nat
  BY <1>1, <1>2, TypedThread DEF Out, Sent, Asks
<1>4. \A i \in 1..n : Tag(t, i)' = Tag(t, i) /\ Target(t, i)' = Target(t, i)
  BY <1>2, <1>3 DEF Tag, Target
<1>5. Located(t)'
  <2>1. CASE GetReply(t)
    <3>1. pc[t] = "ascend" /\ pc'[t] = "reply" /\ replies[t] # <<>>
      BY <1>1, <2>1 DEF GetReply, TypeOK
    <3>2. QED
      BY <1>1, <1>2, <1>3, <3>1, PhaseSame DEF Located, Busy, Asks
  <2>2. CASE SendReply(t)
    <3>1. t # 0 /\ pc'[t] = "answer" /\ replies[t] = <<>>
      BY <1>1, <2>2 DEF SendReply, TypeOK
    <3>2. QED
      BY <1>2, <3>1 DEF Located, Busy, Asks
  <2>3. CASE Replied(t)
    <3>1. pc[t] = "answer" /\ pc'[t] \in {"stopped", "handler"}
      BY <1>1, <2>3 DEF Replied, TypeOK
    <3>2. QED
      BY <1>1, <1>2, <3>1 DEF Located, Busy, Asks
  <2>4. CASE SetAddDone(t)
    <3>1. pc[t] = "descend" /\ pc'[t] = "ascend" /\ sid[t] = "SETADD"
      BY <1>1, <2>4 DEF SetAddDone, TypeOK
    <3>2. QED
      BY <1>1, <1>2, <1>3, <3>1, PhaseSame DEF Located, Busy, Asks
  <2>5. CASE Service(t)
    <3>1. pc[t] = "descend" /\ pc'[t] = "ascend" /\ sid[t] = "COUNT"
      BY <1>1, <2>5 DEF Service, TypeOK
    <3>2. QED
      BY <1>1, <1>2, <1>3, <3>1, PhaseSame DEF Located, Busy, Asks
  <2>6. QED
    BY <2>1, <2>2, <2>3, <2>4, <2>5
<1>6. QED
  BY <1>3, <1>4, <1>5

------------------------------------------------------------------------------
(* Requests, calls and replies. *)

\* The sent requests of a thread stay as they are.
RequestsSame(u) ==
  /\ Sent(u)' = Sent(u) /\ (sid'[u] = sid[u] \/ Sent(u) = 0)
  /\ \A i \in 1..Sent(u) : Tag(u, i)' = Tag(u, i) /\ Target(u, i)' = Target(u, i)

\* A request that stays as it is is still waited for,
LEMMA BelongsKept ==
  ASSUME NEW f, RequestsSame(f), NEW k, NEW u, NEW s, Belongs(f, k, u, s)
  PROVE  Belongs(f, k, u, s)'
<1>1. PICK i \in 1..Sent(f) : Tag(f, i) = k /\ Target(f, i) = u
  BY DEF Belongs
<1>2. Sent(f)' = Sent(f) /\ sid'[f] = sid[f]
  BY <1>1 DEF RequestsSame
<1>3. Tag(f, i)' = k /\ Target(f, i)' = u
  BY <1>1 DEF RequestsSame
<1>4. QED
  BY <1>1, <1>2, <1>3 DEF Belongs

\* whoever has made it,
LEMMA AllBelong ==
  ASSUME \A u \in Thread : RequestsSame(u)
  PROVE  \A f, k, u, s : Belongs(f, k, u, s) => Belongs(f, k, u, s)'
<1>1. ASSUME NEW f, NEW k, NEW u, NEW s, Belongs(f, k, u, s) PROVE Belongs(f, k, u, s)'
  <2>1. RequestsSame(f)
    BY <1>1 DEF Belongs
  <2>2. QED
    BY <1>1, <2>1, BelongsKept
<1>2. QED
  BY <1>1

\* and has its slot.
LEMMA SlotsKept ==
  ASSUME Slots, \A u \in Thread : RequestsSame(u), \A p \in Proc : Ring(p)' = Ring(p), pRequestTargets' = pRequestTargets
  PROVE  Slots'
<1>1. \A u \in Thread : Sent(u)' = Sent(u) /\ \A i \in 1..Sent(u) : Tag(u, i)' = Tag(u, i) /\ Target(u, i)' = Target(u, i)
  BY DEF RequestsSame
<1>2. \A t \in Thread : \A i \in 1..Sent(t)' :
         /\ Tag(t, i)' \in Ring(ThreadToProc(t))' /\ Target(t, i)' \in Thread
         /\ pRequestTargets'[ThreadToProc(t)][Tag(t, i)'] = ThreadToProc(Target(t, i)')
  BY <1>1, ProcessOf DEF Slots
<1>3. \A t, u \in Thread : \A i \in 1..Sent(t)', j \in 1..Sent(u)' :
         ThreadToProc(t) = ThreadToProc(u) /\ Tag(t, i)' = Tag(u, j)' => t = u /\ i = j
  BY <1>1 DEF Slots
<1>4. ASSUME NEW p \in Proc, NEW k \in Ring(p)', pRequestTargets'[p][k] # -1
      PROVE  \E t \in Thread : ThreadToProc(t) = p /\ \E i \in 1..Sent(t)' : Tag(t, i)' = k
  <2>1. PICK t \in Thread : ThreadToProc(t) = p /\ \E i \in 1..Sent(t) : Tag(t, i) = k
    BY <1>4 DEF Slots
  <2>2. QED
    BY <1>1, <2>1
<1>5. QED
  BY <1>2, <1>3, <1>4 DEF Slots

\* Steps that neither send nor receive keep the links.
LEMMA SameLinks ==
  ASSUME Linked, Single, Slots, RingsOK, \A u \in Thread : RequestsSame(u), UNCHANGED ringVars, net' = net, answers' = answers,
         \A u \in Thread : Serving(u)' => Serving(u) /\ caller'[u] = caller[u] /\ sid'[u] = sid[u]
  PROVE  Linked' /\ Single' /\ Slots'
<1>1. Linked'
  <2>1. \A m \in net : Belongs(m.from, m.tag, m.to, m.sid)'
    BY AllBelong DEF Linked
  <2>2. \A r \in answers : Belongs(r.to, r.tag, r.from, r.sid)'
    BY AllBelong DEF Linked
  <2>3. ASSUME NEW u \in Thread, Serving(u)' PROVE Belongs(caller[u].from, caller[u].tag, u, sid[u])' /\ caller'[u].from < u
    <3>1. Serving(u) /\ caller'[u] = caller[u] /\ sid'[u] = sid[u]
      BY <2>3
    <3>2. Belongs(caller[u].from, caller[u].tag, u, sid[u]) /\ caller[u].from < u
      BY <3>1 DEF Linked
    <3>3. QED
      BY <3>1, <3>2, AllBelong
  <2>4. QED
    BY <2>1, <2>2, <2>3 DEF Linked
<1>2. Single'
  BY DEF Single
<1>3. Slots'
  BY SlotsKept, RingsSame DEF ringVars
<1>4. QED
  BY <1>1, <1>2, <1>3

\* What GetReply can receive is the reply to the last request of the thread.
LEMMA MyReply ==
  ASSUME ServicesInv, NEW t \in Thread, pc[t] = "reply", NEW r \in Matching(t)
  PROVE  /\ r.to = t /\ r.sid = sid[t] /\ r.from = Target(t, Sent(t)) /\ Sent(t) = Len(replies[t]) /\ Sent(t) \in Nat /\ Sent(t) >= 1
         /\ Tag(t, Sent(t)) = r.tag
<1>1. TypeOK /\ Located(t) /\ Linked /\ Slots
  BY DEF ServicesInv, Protocol
<1>2. /\ r \in answers /\ r.tag = replies[t][Len(replies[t])] /\ ThreadToProc(r.to) = ThreadToProc(t) /\ replies[t] # <<>>
  BY ReplyTyped
<1>3. Sent(t) = Len(replies[t]) /\ Sent(t) \in Nat /\ Sent(t) >= 1
  BY <1>1, <1>2, OutFacts, TypedThread
<1>4. Tag(t, Sent(t)) = r.tag
  BY <1>1, <1>2, <1>3, OutFacts
<1>5. r.to \in Thread /\ r.sid = sid[r.to]
  BY <1>1, <1>2 DEF Linked, Belongs
<1>6. PICK j \in 1..Sent(r.to) : Tag(r.to, j) = r.tag /\ Target(r.to, j) = r.from
  BY <1>1, <1>2 DEF Linked, Belongs
<1>7. Sent(t) \in 1..Sent(t)
  BY <1>3
<1>8. r.to = t /\ j = Sent(t)
  BY <1>1, <1>2, <1>4, <1>5, <1>6, <1>7 DEF Slots
<1>9. QED
  BY <1>3, <1>4, <1>5, <1>6, <1>8

\* The links when a request is received,
LEMMA LinksAtHandler ==
  ASSUME ServicesInv, NEW t \in Thread, Handler(t), \A u \in Thread : RequestsSame(u)
  PROVE  Linked' /\ Single' /\ Slots'
<1>1. TypeOK /\ RingsOK /\ Linked /\ Single /\ Slots
  BY DEF ServicesInv, Protocol, TypeOK
<1>2. PICK m \in net : /\ m.to = t /\ net' = net \ {m} /\ caller' = [caller EXCEPT ![t] = m] /\ Run(t, m.sid, m.idUpper)
  BY DEF Handler
<1>3. pc[t] = "handler" /\ UNCHANGED ringVars /\ answers' = answers
  BY DEF Handler
<1>4. \A u \in Thread \ {t} : Steady(u) /\ (Serving(u)' <=> Serving(u))
  BY <1>1, OthersSteady, SteadySame DEF ThreadStep
<1>5. caller'[t] = m /\ sid'[t] = m.sid /\ m.from < t /\ m \in Message
  BY <1>1, <1>2, <1>3, CallOf DEF Run, TypeOK
<1>6. Linked'
  <2>1. \A n \in net : Belongs(n.from, n.tag, n.to, n.sid)'
    BY <1>1, AllBelong DEF Linked
  <2>2. \A r \in answers : Belongs(r.to, r.tag, r.from, r.sid)'
    BY <1>1, AllBelong DEF Linked
  <2>3. ASSUME NEW u \in Thread \ {t}, Serving(u)' PROVE Belongs(caller[u].from, caller[u].tag, u, sid[u])' /\ caller'[u].from < u
    <3>1. Serving(u) /\ caller'[u] = caller[u] /\ sid'[u] = sid[u]
      BY <1>4, <2>3 DEF Steady
    <3>2. Belongs(caller[u].from, caller[u].tag, u, sid[u]) /\ caller[u].from < u
      BY <1>1, <3>1 DEF Linked
    <3>3. QED
      BY <3>1, <3>2, AllBelong
  <2>4. Belongs(m.from, m.tag, t, m.sid)'
    BY <1>2, <2>1
  <2>5. Belongs(caller[t].from, caller[t].tag, t, sid[t])'
    BY <1>5, <2>4 DEF Belongs
  <2>6. QED
    BY <1>2, <1>3, <1>5, <2>1, <2>2, <2>3, <2>5 DEF Linked
<1>7. Single'
  <2>1. \A u \in Thread \ {t} : Serving(u)' => Serving(u) /\ caller'[u] = caller[u]
    BY <1>4 DEF Steady
  <2>2. \A n \in net' : n \in net /\ ~ (n.from = m.from /\ n.tag = m.tag)
    BY <1>1, <1>2 DEF Single
  <2>3. \A r \in answers' : ~ (r.to = m.from /\ r.tag = m.tag)
    BY <1>1, <1>2, <1>3 DEF Single
  <2>4. QED
    BY <1>1, <1>3, <1>5, <2>1, <2>2, <2>3 DEF Single
<1>8. Slots'
  BY <1>1, <1>3, SlotsKept, RingsSame DEF ringVars
<1>9. QED
  BY <1>6, <1>7, <1>8

\* when it is answered,
LEMMA LinksAtSendReply ==
  ASSUME ServicesInv, NEW t \in Thread, SendReply(t), \A u \in Thread : RequestsSame(u)
  PROVE  Linked' /\ Single' /\ Slots'
<1>1. TypeOK /\ RingsOK /\ Linked /\ Single /\ Slots
  BY DEF ServicesInv, Protocol, TypeOK
<1>0. PICK r : r = [from |-> t, to |-> caller[t].from, sid |-> sid[t], tag |-> caller[t].tag, vout |-> vout[t]]
  OBVIOUS
<1>2. Serving(t) /\ ~ Serving(t)' /\ answers' = answers \cup {r} /\ UNCHANGED <<sid, caller, ringVars, net>>
  BY <1>0, <1>1 DEF SendReply, Serving, Busy, TypeOK
<1>3. r.from = t /\ r.to = caller[t].from /\ r.sid = sid[t] /\ r.tag = caller[t].tag
  BY <1>0
<1>4. \A u \in Thread \ {t} : Steady(u) /\ (Serving(u)' <=> Serving(u))
  BY <1>1, OthersSteady, SteadySame DEF ThreadStep
<1>5. \A u \in Thread : Serving(u)' => Serving(u) /\ u # t
  BY <1>2, <1>4
<1>6. Linked'
  <2>1. \A n \in net : Belongs(n.from, n.tag, n.to, n.sid)'
    BY <1>1, AllBelong DEF Linked
  <2>2. \A q \in answers : Belongs(q.to, q.tag, q.from, q.sid)'
    BY <1>1, AllBelong DEF Linked
  <2>3. \A u \in Thread : Serving(u) => caller[u].from < u /\ Belongs(caller[u].from, caller[u].tag, u, sid[u])
    BY <1>1 DEF Linked
  <2>4. \A u \in Thread : Serving(u) => caller[u].from < u /\ Belongs(caller[u].from, caller[u].tag, u, sid[u])'
    <3>1. ASSUME NEW u \in Thread, Serving(u) PROVE Belongs(caller[u].from, caller[u].tag, u, sid[u])'
      BY <1>2, <2>3, <3>1, AllBelong
    <3>2. QED
      BY <2>3, <3>1
  <2>5. Belongs(r.to, r.tag, r.from, r.sid)'
    BY <1>2, <1>3, <2>4
  <2>6. QED
    BY <1>2, <1>5, <2>1, <2>2, <2>4, <2>5 DEF Linked
<1>7. \A u \in Thread : Serving(u)' => ~ (r.to = caller[u].from /\ r.tag = caller[u].tag)
  <2>1. SUFFICES ASSUME NEW u \in Thread, Serving(u), u # t, r.to = caller[u].from, r.tag = caller[u].tag PROVE FALSE
    BY <1>5
  <2>2. Belongs(r.to, r.tag, u, sid[u]) /\ Belongs(r.to, r.tag, t, sid[t])
    BY <1>1, <1>2, <1>3, <2>1 DEF Linked
  <2>3. PICK i \in 1..Sent(r.to) : Tag(r.to, i) = r.tag /\ Target(r.to, i) = u
    BY <2>2 DEF Belongs
  <2>4. PICK j \in 1..Sent(r.to) : Tag(r.to, j) = r.tag /\ Target(r.to, j) = t
    BY <2>2 DEF Belongs
  <2>5. i = j
    BY <1>1, <2>2, <2>3, <2>4 DEF Slots, Belongs
  <2>6. QED
    BY <2>1, <2>3, <2>4, <2>5
<1>8. Single'
  <2>1. \A n \in net : ~ (n.from = r.to /\ n.tag = r.tag)
    BY <1>1, <1>2, <1>3 DEF Single
  <2>2. \A q \in answers : ~ (q.to = r.to /\ q.tag = r.tag)
    BY <1>1, <1>2, <1>3 DEF Single
  <2>3. QED
    BY <1>1, <1>2, <1>5, <1>7, <2>1, <2>2 DEF Single
<1>9. Slots'
  BY <1>1, <1>2, SlotsKept, RingsSame DEF ringVars
<1>10. QED
  BY <1>6, <1>8, <1>9

\* when it is sent: its slot was free,
LEMMA LinksAtSend ==
  ASSUME ServicesInv, NEW t \in Thread, MessageSendRequest(t), \A u \in Thread \ {t} : RequestsSame(u)
  PROVE  Linked' /\ Single' /\ Slots'
<1>1. TypeOK /\ RingsOK /\ Linked /\ Single /\ Slots /\ Located(t)
  BY DEF ServicesInv, Protocol, TypeOK
<1>2. PICK p \in Proc : p = ThreadToProc(t)
  BY ProcessOf
<1>3. PICK m \in Message : m = [pending[t] EXCEPT !.tag = FreeSlot(ThreadToProc(t))]
  BY SendTyped
<1>4. PICK n \in Nat : n = Sent(t)
  BY <1>1, OutFacts
<1>5. /\ m.from = t /\ m.to = pending[t].to /\ m.sid = sid[t] /\ m.tag = FreeSlot(p) /\ m.to \in Thread
      /\ m.tag \in Ring(p) /\ pRequestTargets[p][m.tag] = -1 /\ ThreadToProc(m.to) \in Proc
  <2>1. /\ FreeSlot(p) \in Ring(p) /\ pRequestTargets[p][FreeSlot(p)] = -1
        /\ m.tag = FreeSlot(p) /\ m.to = pending[t].to /\ m.from = t /\ m.sid = pending[t].sid /\ ThreadToProc(m.to) \in Proc
    BY <1>2, <1>3, SendTyped
  <2>2. pc[t] \in Asks
    BY DEF MessageSendRequest, Asks
  <2>3. pending[t].sid = sid[t] /\ pending[t].to \in Thread
    BY <1>1, <2>2 DEF Located
  <2>4. QED
    BY <2>1, <2>3
<1>6. /\ pc[t] = "request" /\ pRequestTargets' = [pRequestTargets EXCEPT ![p][m.tag] = ThreadToProc(m.to)]
      /\ iRequestTarget' = [iRequestTarget EXCEPT ![p] = m.tag] /\ net' = net \cup {m}
      /\ UNCHANGED <<sid, caller, answers>>
  BY <1>2, <1>3 DEF MessageSendRequest
<1>7. /\ Sent(t)' = n + 1 /\ \A i \in 1..n : Tag(t, i)' = Tag(t, i) /\ Target(t, i)' = Target(t, i)
      /\ Tag(t, n + 1)' = m.tag /\ Target(t, n + 1)' = m.to
  BY <1>2, <1>4, <1>5, AfterSend
<1>8. /\ \A q \in Proc : Ring(q)' = Ring(q)
      /\ \A q \in Proc : \A j \in Ring(q) :
           pRequestTargets'[q][j] = IF q = p /\ j = m.tag THEN ThreadToProc(m.to) ELSE pRequestTargets[q][j]
  <2>1. PICK k \in Ring(p) : k = m.tag
    BY <1>5
  <2>2. PICK v \in Proc \cup {-1} : v = ThreadToProc(m.to)
    BY <1>5
  <2>3. pRequestTargets' = [pRequestTargets EXCEPT ![p][k] = v] /\ iRequestTarget' = [iRequestTarget EXCEPT ![p] = k] /\ RingsOK
    BY <1>1, <1>6, <2>1, <2>2
  <2>4. /\ \A q \in Proc : Ring(q)' = Ring(q)
        /\ \A q \in Proc : \A j \in Ring(q) : pRequestTargets'[q][j] = IF q = p /\ j = k THEN v ELSE pRequestTargets[q][j]
    BY <2>3, RingsStep
  <2>5. QED
    BY <2>1, <2>2, <2>4
<1>9. \A f, k, u, s : Belongs(f, k, u, s) => Belongs(f, k, u, s)'
  <2>1. ASSUME NEW f, NEW k, NEW u, NEW s, Belongs(f, k, u, s) PROVE Belongs(f, k, u, s)'
    <3>1. CASE f # t
      <4>1. RequestsSame(f)
        BY <2>1, <3>1 DEF Belongs
      <4>2. QED
        BY <2>1, <4>1, BelongsKept
    <3>2. CASE f = t
      <4>1. PICK i \in 1..n : Tag(t, i) = k /\ Target(t, i) = u
        BY <1>4, <2>1, <3>2 DEF Belongs
      <4>2. Tag(t, i)' = k /\ Target(t, i)' = u /\ i \in 1..(n + 1)
        BY <1>7, <4>1
      <4>3. s = sid'[t]
        BY <1>6, <2>1, <3>2 DEF Belongs
      <4>4. QED
        BY <1>7, <3>2, <4>2, <4>3 DEF Belongs
    <3>3. QED
      BY <3>1, <3>2
  <2>2. QED
    BY <2>1
\* The slot was free: no other request of the process has it.
<1>10. \A u \in Thread : ThreadToProc(u) = p => \A i \in 1..Sent(u) : Tag(u, i) # m.tag
  <2>1. SUFFICES ASSUME NEW u \in Thread, ThreadToProc(u) = p, NEW i \in 1..Sent(u), Tag(u, i) = m.tag PROVE FALSE
    OBVIOUS
  <2>2. pRequestTargets[p][m.tag] = ThreadToProc(Target(u, i)) /\ Target(u, i) \in Thread
    BY <1>1, <2>1 DEF Slots
  <2>3. ThreadToProc(Target(u, i)) \in Nat
    BY <2>2, ProcessOf DEF Proc
  <2>4. QED
    BY <1>5, <2>2, <2>3
<1>11. \A u, s : ~ Belongs(t, m.tag, u, s)
  BY <1>2, <1>10 DEF Belongs
<1>12. Belongs(m.from, m.tag, m.to, m.sid)'
  <2>1. n + 1 \in 1..(n + 1)
    BY <1>4
  <2>2. QED
    BY <1>5, <1>6, <1>7, <2>1 DEF Belongs
<1>13. \A u \in Thread : Serving(u)' <=> Serving(u)
  BY <1>1, <1>6 DEF Serving, MessageSendRequest, TypeOK, Busy
<1>14. Linked'
  <2>1. \A r \in answers : Belongs(r.to, r.tag, r.from, r.sid)'
    BY <1>1, <1>9 DEF Linked
  <2>2. \A u \in Thread : Serving(u)' => Belongs(caller[u].from, caller[u].tag, u, sid[u])' /\ caller'[u].from < u
    BY <1>1, <1>6, <1>9, <1>13 DEF Linked
  <2>3. \A x \in net : Belongs(x.from, x.tag, x.to, x.sid)'
    BY <1>1, <1>9 DEF Linked
  <2>4. QED
    BY <1>6, <1>12, <2>1, <2>2, <2>3 DEF Linked
<1>15. Single'
  <2>1. \A x \in net : ~ (x.from = t /\ x.tag = m.tag)
    BY <1>1, <1>11 DEF Linked
  <2>2. \A r \in answers : ~ (r.to = t /\ r.tag = m.tag)
    BY <1>1, <1>11 DEF Linked
  <2>3. \A u \in Thread : Serving(u) => ~ (caller[u].from = t /\ caller[u].tag = m.tag)
    BY <1>1, <1>11 DEF Linked
  <2>4. QED
    BY <1>1, <1>5, <1>6, <1>13, <2>1, <2>2, <2>3 DEF Single
<1>16. Slots'
  <2>1. \A u \in Thread \ {t} : Sent(u)' = Sent(u) /\ \A i \in 1..Sent(u) : Tag(u, i)' = Tag(u, i) /\ Target(u, i)' = Target(u, i)
    BY DEF RequestsSame
  <2>2. \A u \in Thread : \A i \in 1..Sent(u)' :
           \/ i \in 1..Sent(u) /\ Tag(u, i)' = Tag(u, i) /\ Target(u, i)' = Target(u, i)
           \/ u = t /\ i = n + 1 /\ Tag(u, i)' = m.tag /\ Target(u, i)' = m.to
    BY <1>4, <1>7, <2>1
  <2>3. \A u \in Thread : ThreadToProc(u) \in Proc
    BY ProcessOf
  <2>4. ASSUME NEW u \in Thread, NEW i \in 1..Sent(u)'
        PROVE  /\ Tag(u, i)' \in Ring(ThreadToProc(u))' /\ Target(u, i)' \in Thread
               /\ pRequestTargets'[ThreadToProc(u)][Tag(u, i)'] = ThreadToProc(Target(u, i)')
    <3>1. CASE i \in 1..Sent(u) /\ Tag(u, i)' = Tag(u, i) /\ Target(u, i)' = Target(u, i)
      <4>1. /\ Tag(u, i) \in Ring(ThreadToProc(u)) /\ Target(u, i) \in Thread
            /\ pRequestTargets[ThreadToProc(u)][Tag(u, i)] = ThreadToProc(Target(u, i))
        BY <1>1, <3>1 DEF Slots
      <4>2. ~ (ThreadToProc(u) = p /\ Tag(u, i) = m.tag)
        BY <1>10, <3>1
      <4>3. QED
        BY <1>8, <2>3, <3>1, <4>1, <4>2
    <3>2. CASE u = t /\ i = n + 1 /\ Tag(u, i)' = m.tag /\ Target(u, i)' = m.to
      BY <1>2, <1>5, <1>8, <3>2
    <3>3. QED
      BY <2>2, <3>1, <3>2
  <2>5. ASSUME NEW u \in Thread, NEW w \in Thread, NEW i \in 1..Sent(u)', NEW j \in 1..Sent(w)',
               ThreadToProc(u) = ThreadToProc(w), Tag(u, i)' = Tag(w, j)'
        PROVE  u = w /\ i = j
    BY <1>1, <1>2, <1>10, <2>2, <2>5 DEF Slots
  <2>6. ASSUME NEW q \in Proc, NEW k \in Ring(q)', pRequestTargets'[q][k] # -1
        PROVE  \E u \in Thread : ThreadToProc(u) = q /\ \E i \in 1..Sent(u)' : Tag(u, i)' = k
    <3>1. CASE q = p /\ k = m.tag
      <4>1. n + 1 \in 1..(n + 1)
        BY <1>4
      <4>2. QED
        BY <1>2, <1>7, <3>1, <4>1
    <3>2. CASE ~ (q = p /\ k = m.tag)
      <4>1. pRequestTargets[q][k] # -1 /\ k \in Ring(q)
        BY <1>8, <2>6, <3>2
      <4>2. PICK u \in Thread : ThreadToProc(u) = q /\ \E i \in 1..Sent(u) : Tag(u, i) = k
        BY <1>1, <4>1 DEF Slots
      <4>3. PICK i \in 1..Sent(u) : Tag(u, i) = k
        BY <4>2
      <4>4. i \in 1..Sent(u)' /\ Tag(u, i)' = k
        BY <1>4, <1>7, <2>1, <4>3
      <4>5. QED
        BY <4>2, <4>4
    <3>3. QED
      BY <3>1, <3>2
  <2>7. QED
    BY <2>4, <2>5, <2>6 DEF Slots
<1>17. QED
  BY <1>14, <1>15, <1>16

\* and when the answer is received: the slot becomes free, and it was the last request of the thread.
LEMMA LinksAtReply ==
  ASSUME ServicesInv, NEW t \in Thread, FinishReceiveReply(t), \A u \in Thread \ {t} : RequestsSame(u)
  PROVE  Linked' /\ Single' /\ Slots'
<1>1. TypeOK /\ RingsOK /\ Linked /\ Single /\ Slots /\ Located(t)
  BY DEF ServicesInv, Protocol, TypeOK
<1>2. PICK p \in Proc : p = ThreadToProc(t)
  BY ProcessOf
<1>3. PICK r \in Matching(t) : answers' = answers \ {r} /\ pRequestTargets' = [pRequestTargets EXCEPT ![p][r.tag] = -1]
  BY <1>2 DEF FinishReceiveReply
<1>4. PICK n \in Nat : n = Sent(t)
  BY <1>1, OutFacts
<1>5. pc[t] = "reply" /\ UNCHANGED <<sid, caller, iRequestTarget, net>> /\ pc' = [pc EXCEPT ![t] = "ascend"]
  BY DEF FinishReceiveReply
<1>6. r \in answers /\ r.to = t /\ r.tag \in Ring(p) /\ Tag(t, n) = r.tag /\ n >= 1
  BY <1>2, <1>3, <1>4, <1>5, MyReply, ReplyTyped
<1>7. Sent(t)' = n - 1 /\ \A i \in 1..(n - 1) : Tag(t, i)' = Tag(t, i) /\ Target(t, i)' = Target(t, i)
  BY <1>4, AfterReply
<1>8. /\ \A q \in Proc : Ring(q)' = Ring(q)
      /\ \A q \in Proc : \A j \in Ring(q) : pRequestTargets'[q][j] = IF q = p /\ j = r.tag THEN -1 ELSE pRequestTargets[q][j]
  <2>1. PICK k \in Ring(p) : k = r.tag
    BY <1>6
  <2>2. PICK v \in Proc \cup {-1} : v = -1
    OBVIOUS
  <2>3. pRequestTargets' = [pRequestTargets EXCEPT ![p][k] = v] /\ iRequestTarget' = iRequestTarget /\ RingsOK
    BY <1>1, <1>3, <1>5, <2>1, <2>2
  <2>4. /\ \A q \in Proc : Ring(q)' = Ring(q)
        /\ \A q \in Proc : \A j \in Ring(q) : pRequestTargets'[q][j] = IF q = p /\ j = k THEN v ELSE pRequestTargets[q][j]
    BY <2>3, RingsStep
  <2>5. QED
    BY <2>1, <2>2, <2>4
<1>9. \A f, k, u, s : Belongs(f, k, u, s) /\ ~ (f = t /\ k = r.tag) => Belongs(f, k, u, s)'
  <2>1. ASSUME NEW f, NEW k, NEW u, NEW s, Belongs(f, k, u, s), ~ (f = t /\ k = r.tag) PROVE Belongs(f, k, u, s)'
    <3>1. CASE f # t
      <4>1. RequestsSame(f)
        BY <2>1, <3>1 DEF Belongs
      <4>2. QED
        BY <2>1, <4>1, BelongsKept
    <3>2. CASE f = t
      <4>1. PICK i \in 1..n : Tag(t, i) = k /\ Target(t, i) = u
        BY <1>4, <2>1, <3>2 DEF Belongs
      <4>2. i # n
        BY <1>6, <2>1, <3>2, <4>1
      <4>3. i \in 1..(n - 1)
        BY <1>4, <4>1, <4>2
      <4>4. Tag(t, i)' = k /\ Target(t, i)' = u
        BY <1>7, <4>1, <4>3
      <4>5. s = sid'[t]
        BY <1>5, <2>1, <3>2 DEF Belongs
      <4>6. QED
        BY <1>7, <3>2, <4>3, <4>4, <4>5 DEF Belongs
    <3>3. QED
      BY <3>1, <3>2
  <2>2. QED
    BY <2>1
<1>10. \A u \in Thread : Serving(u)' <=> Serving(u)
  BY <1>1, <1>5 DEF Serving, TypeOK, Busy
<1>11. Linked'
  <2>1. \A q \in answers' : q \in answers /\ ~ (q.to = t /\ q.tag = r.tag)
    BY <1>1, <1>3, <1>6 DEF Single
  <2>2. \A q \in answers' : Belongs(q.to, q.tag, q.from, q.sid)'
    BY <1>1, <1>9, <2>1 DEF Linked
  <2>3. ASSUME NEW u \in Thread, Serving(u)' PROVE Belongs(caller[u].from, caller[u].tag, u, sid[u])' /\ caller'[u].from < u
    <3>1. Serving(u) /\ caller'[u] = caller[u] /\ sid'[u] = sid[u]
      BY <1>5, <1>10, <2>3
    <3>2. Belongs(caller[u].from, caller[u].tag, u, sid[u]) /\ caller[u].from < u
      BY <1>1, <3>1 DEF Linked
    <3>3. ~ (caller[u].from = t /\ caller[u].tag = r.tag)
      BY <1>1, <1>6, <3>1 DEF Single
    <3>4. QED
      BY <1>9, <3>1, <3>2, <3>3
  <2>4. \A m \in net : Belongs(m.from, m.tag, m.to, m.sid)'
    BY <1>1, <1>6, <1>9 DEF Linked, Single
  <2>5. QED
    BY <1>5, <2>2, <2>3, <2>4 DEF Linked
<1>12. Single'
  BY <1>1, <1>3, <1>5, <1>10 DEF Single
<1>13. Slots'
  <2>1. \A u \in Thread \ {t} : Sent(u)' = Sent(u) /\ \A i \in 1..Sent(u) : Tag(u, i)' = Tag(u, i) /\ Target(u, i)' = Target(u, i)
    BY DEF RequestsSame
  <2>2. \A u \in Thread : \A i \in 1..Sent(u)' :
           i \in 1..Sent(u) /\ Tag(u, i)' = Tag(u, i) /\ Target(u, i)' = Target(u, i) /\ ~ (u = t /\ i = n)
    BY <1>4, <1>7, <2>1
  <2>3. \A u \in Thread : ThreadToProc(u) \in Proc
    BY ProcessOf
  <2>4. n \in 1..Sent(t)
    BY <1>4, <1>6
  <2>5. ASSUME NEW u \in Thread, NEW i \in 1..Sent(u)'
        PROVE  /\ Tag(u, i)' \in Ring(ThreadToProc(u))' /\ Target(u, i)' \in Thread
               /\ pRequestTargets'[ThreadToProc(u)][Tag(u, i)'] = ThreadToProc(Target(u, i)')
    <3>1. i \in 1..Sent(u) /\ Tag(u, i)' = Tag(u, i) /\ Target(u, i)' = Target(u, i) /\ ~ (u = t /\ i = n)
      BY <2>2
    <3>2. /\ Tag(u, i) \in Ring(ThreadToProc(u)) /\ Target(u, i) \in Thread
          /\ pRequestTargets[ThreadToProc(u)][Tag(u, i)] = ThreadToProc(Target(u, i))
      BY <1>1, <3>1 DEF Slots
    <3>3. ~ (ThreadToProc(u) = p /\ Tag(u, i) = r.tag)
      BY <1>1, <1>2, <1>6, <2>4, <3>1 DEF Slots
    <3>4. QED
      BY <1>8, <2>3, <3>1, <3>2, <3>3
  <2>6. ASSUME NEW u \in Thread, NEW w \in Thread, NEW i \in 1..Sent(u)', NEW j \in 1..Sent(w)',
               ThreadToProc(u) = ThreadToProc(w), Tag(u, i)' = Tag(w, j)'
        PROVE  u = w /\ i = j
    BY <1>1, <2>2, <2>6 DEF Slots
  <2>7. ASSUME NEW q \in Proc, NEW k \in Ring(q)', pRequestTargets'[q][k] # -1
        PROVE  \E u \in Thread : ThreadToProc(u) = q /\ \E i \in 1..Sent(u)' : Tag(u, i)' = k
    <3>1. ~ (q = p /\ k = r.tag) /\ pRequestTargets[q][k] # -1 /\ k \in Ring(q)
      BY <1>8, <2>7
    <3>2. PICK u \in Thread : ThreadToProc(u) = q /\ \E i \in 1..Sent(u) : Tag(u, i) = k
      BY <1>1, <3>1 DEF Slots
    <3>3. PICK i \in 1..Sent(u) : Tag(u, i) = k
      BY <3>2
    <3>4. ~ (u = t /\ i = n)
      BY <1>2, <1>6, <3>1, <3>2, <3>3
    <3>5. i \in 1..Sent(u)' /\ Tag(u, i)' = k
      BY <1>4, <1>7, <2>1, <3>3, <3>4
    <3>6. QED
      BY <3>2, <3>5
  <2>8. QED
    BY <2>5, <2>6, <2>7 DEF Slots
<1>14. QED
  BY <1>11, <1>12, <1>13

------------------------------------------------------------------------------
(* The protocol is kept. *)

\* The threads do nothing before the master does.
LEMMA NotAtStart ==
  ASSUME ServicesInv, NEW t \in Thread, ThreadStep(t)
  PROVE  step # 0
<1>1. SUFFICES ASSUME step = 0 PROVE FALSE
  OBVIOUS
<1>2. net = {} /\ pc[t] \in {"master", "handler"}
  BY <1>1 DEF ServicesInv, Protocol, Begin
<1>3. QED
  BY <1>2 DEF ThreadStep, MessageSendRequest, Requested, GetReply, FinishReceiveReply, Handler, SendReply, Replied, SetAdd, SetAddDone, Recurse, Service

\* A thread that does nothing keeps its requests.
LEMMA SteadyRequests ==
  ASSUME NEW u \in Thread, Steady(u), step' = step
  PROVE  RequestsSame(u)
BY SteadySame DEF RequestsSame, Steady

\* Whatever a thread does, all threads are where they should be, and the links hold.
LEMMA ThreadKeeps ==
  ASSUME ServicesInv, NEW t \in Thread, ThreadStep(t)
  PROVE  (\A u \in Thread : Located(u)') /\ Linked' /\ Single' /\ Slots'
<1>1. /\ TypeOK /\ RingsOK /\ Linked /\ Single /\ Slots /\ \A u \in Thread : Located(u)
  BY DEF ServicesInv, Protocol, TypeOK
<1>2. step' = step /\ \A u \in Thread \ {t} : Steady(u)
  BY <1>1, OthersSteady
<1>3. \A u \in Thread \ {t} : RequestsSame(u) /\ Located(u)' /\ (Serving(u)' <=> Serving(u))
  BY <1>1, <1>2, SteadyRequests, SteadySame
<1>4. CASE MessageSendRequest(t)
  BY <1>3, <1>4, AfterSend, LinksAtSend
<1>5. CASE FinishReceiveReply(t)
  BY <1>3, <1>5, AfterReply, LinksAtReply
<1>6. CASE Handler(t)
  <2>1. Located(t)' /\ RequestsSame(t)
    <3>1. Located(t)' /\ Sent(t)' = 0 /\ Sent(t) = 0
      BY <1>6, AfterHandler
    <3>2. QED
      BY <3>1 DEF RequestsSame
  <2>2. QED
    BY <1>3, <1>6, <2>1, LinksAtHandler
<1>7. CASE SendReply(t)
  <2>1. sid'[t] = sid[t]
    BY <1>7 DEF SendReply
  <2>2. Located(t)' /\ RequestsSame(t)
    BY <1>7, <2>1, AfterOther DEF RequestsSame
  <2>3. QED
    BY <1>3, <1>7, <2>2, LinksAtSendReply
<1>8. CASE Requested(t) \/ GetReply(t) \/ Replied(t) \/ SetAdd(t) \/ SetAddDone(t) \/ Recurse(t) \/ Service(t)
  <2>1. /\ UNCHANGED ringVars /\ net' = net /\ answers' = answers /\ caller' = caller /\ sid' = sid
        /\ Serving(t)' => Serving(t)
    <3>1. CASE Requested(t)
      BY <1>1, <3>1 DEF Requested, Serving, Busy, TypeOK
    <3>2. CASE GetReply(t)
      BY <1>1, <3>2 DEF GetReply, Serving, Busy, TypeOK
    <3>3. CASE Replied(t)
      BY <1>1, <3>3 DEF Replied, Serving, Busy, TypeOK
    <3>4. CASE SetAdd(t)
      BY <1>1, <3>4 DEF SetAdd, ReqService, Serving, Busy, TypeOK
    <3>5. CASE SetAddDone(t)
      BY <1>1, <3>5 DEF SetAddDone, Serving, Busy, TypeOK
    <3>6. CASE Recurse(t)
      BY <1>1, <3>6 DEF Recurse, ReqService, Serving, Busy, TypeOK
    <3>7. CASE Service(t)
      BY <1>1, <3>7 DEF Service, Serving, Busy, TypeOK
    <3>8. QED
      BY <1>8, <3>1, <3>2, <3>3, <3>4, <3>5, <3>6, <3>7
  <2>2. Located(t)' /\ RequestsSame(t)
    BY <1>8, <2>1, AfterRequested, AfterSetAdd, AfterRecurse, AfterOther DEF RequestsSame
  <2>3. \A u \in Thread : RequestsSame(u) /\ Located(u)'
    BY <1>3, <2>2
  <2>4. \A u \in Thread : Serving(u)' => Serving(u) /\ caller'[u] = caller[u] /\ sid'[u] = sid[u]
    BY <1>3, <2>1
  <2>5. QED
    BY <1>1, <2>1, <2>3, <2>4, SameLinks
<1>9. QED
  BY <1>4, <1>5, <1>6, <1>7, <1>8 DEF ThreadStep

\* The steps of the master.
LEMMA MasterKeeps ==
  ASSUME ServicesInv, RunService \/ StopNext \/ Finish
  PROVE  (\A u \in Thread : Located(u)') /\ Linked' /\ Single' /\ Slots' /\ step' # 0
<1>1. /\ TypeOK /\ RingsOK /\ Linked /\ Single /\ Slots /\ (\A u \in Thread : Located(u)) /\ Begin /\ Nodes
  BY DEF ServicesInv, Protocol, TypeOK, Tree
<1>2. /\ Idle /\ UNCHANGED <<pst, replies, caller, ringVars, net, answers, served>>
  BY DEF RunService, StopNext, Finish
<1>3. /\ replies[0] = <<>> /\ Len(replies[0]) = 0
      /\ \A u \in Thread \ {0} : pc[u] \notin Busy
      /\ \A u \in Thread : Sent(u) = 0
  <2>1. Protocol
    BY DEF ServicesInv
  <2>2. QED
    BY <1>1, <1>2, <2>1, QuietBetweenServices
<1>4. \A u \in Thread \ {0} : pc'[u] = pc[u] /\ sid'[u] = sid[u]
  BY <1>1 DEF RunService, StopNext, Finish, Run, ReqService, TypeOK
<1>5. step \in Nat /\ Traversals \in Nat /\ Threads \in Nat \ {0} /\ 0 \in Thread
  BY <1>1, ThreadsAre DEF TypeOK
<1>6. \A u \in Thread \ {0} : Located(u)' /\ Sent(u)' = 0 /\ ~ Serving(u)'
  <2>1. \A u \in Thread \ {0} : ~ Serving(u)'
    BY <1>3, <1>4 DEF Serving
  <2>2. ASSUME NEW u \in Thread \ {0} PROVE Sent(u)' = 0
    <3>1. pc[u] # "sending" /\ Sent(u) = 0
      BY <1>3 DEF Busy
    <3>2. QED
      BY <1>2, <1>4, <3>1 DEF Sent
  <2>3. ASSUME NEW u \in Thread \ {0} PROVE Located(u)'
    <3>1. pc[u] \notin Busy /\ pc[u] # "master" /\ replies[u] = <<>>
      BY <1>1, <1>3 DEF Located
    <3>2. pc'[u] = pc[u] /\ replies'[u] = replies[u]
      BY <1>2, <1>4
    <3>3. QED
      BY <3>1, <3>2 DEF Located, Busy, Asks
  <2>4. QED
    BY <2>1, <2>2, <2>3
<1>7. Len(pst[0]) \in Nat /\ Len(pst[0]) >= 1
  <2>1. pst[0] \in Seq(NodeType) /\ pst[0] # <<>>
    BY <1>1, <1>5, TypedThread DEF Nodes
  <2>2. QED
    BY <2>1, EmptySeq, LenProperties
<1>8. Located(0)' /\ Sent(0)' = 0 /\ step' # 0
  <2>1. CASE RunService
    <3>1. pc'[0] = "descend" /\ step' = step + 1 /\ step <= Traversals /\ level'[0] = 1 /\ sid'[0] = IF step = 0 THEN "SETADD" ELSE "COUNT"
      BY <1>1, <1>5, <2>1 DEF RunService, Run, TypeOK
    <3>2. Out(0)' = 0 /\ Sent(0)' = 0
      BY <1>2, <1>3, <3>1 DEF Out, Sent, Asks
    <3>3. sid'[0] = Phase'
      BY <1>5, <3>1 DEF Phase
    <3>4. step = 0 => Len(pst[0]) = 1
      BY <1>1, <1>5 DEF Begin
    <3>5. Located(0)'
      <4>1. step' > 0 /\ pst'[0] = pst[0] /\ replies'[0] = <<>> /\ level'[0] <= Len(pst[0]) /\ level'[0] - 1 = 0
        BY <1>2, <1>3, <1>5, <1>7, <3>1
      <4>2. CASE step = 0
        <5>1. Len(pst'[0]) = 1 /\ sid'[0] = "SETADD"
          BY <3>1, <3>4, <4>1, <4>2
        <5>2. pc'[0] = "descend"
          BY <3>1
        <5>3. QED
          BY <3>2, <3>3, <4>1, <5>1, <5>2 DEF Located, Busy, Asks
      <4>3. CASE step # 0
        BY <1>5, <3>1, <3>2, <3>3, <4>1, <4>3 DEF Located, Busy, Asks
      <4>4. QED
        BY <4>2, <4>3
    <3>6. QED
      BY <1>5, <3>1, <3>2, <3>5
  <2>2. CASE StopNext
    <3>1. /\ pc'[0] = "request" /\ step' = step + 1 /\ step - Traversals >= 1 /\ step - Traversals <= Threads - 1 /\ sid'[0] = "STOP"
          /\ pending'[0] = [from |-> 0, to |-> step - Traversals, sid |-> "STOP", idUpper |-> 0, tag |-> -1]
      BY <1>1, <1>5, <2>2 DEF StopNext, Run, ReqService, TypeOK
    <3>2. Out(0)' = 1 /\ Sent(0)' = 0
      BY <1>2, <1>3, <3>1 DEF Out, Sent, Asks
    <3>3. sid'[0] = Phase'
      BY <1>5, <3>1 DEF Phase
    <3>4. step' - 1 - Traversals = step - Traversals /\ step - Traversals \in Thread \ {0}
      BY <1>5, <3>1 DEF Thread
    <3>5. Target(0, Out(0))' = step - Traversals
      BY <3>1, <3>4 DEF Target
    <3>6. Located(0)'
      BY <1>2, <1>3, <1>5, <3>1, <3>2, <3>3, <3>4, <3>5 DEF Located, Busy, Asks
    <3>7. QED
      BY <1>5, <3>1, <3>2, <3>6
  <2>3. CASE Finish
    <3>1. pc'[0] = "stopped" /\ step' = step /\ step - Traversals = Threads
      BY <1>1, <1>5, <2>3 DEF Finish, TypeOK
    <3>2. Sent(0)' = 0
      BY <1>2, <1>3, <3>1 DEF Sent
    <3>3. Located(0)'
      BY <1>2, <1>3, <3>1 DEF Located, Busy, Asks
    <3>4. QED
      BY <1>5, <3>1, <3>2, <3>3
  <2>4. QED
    BY <2>1, <2>2, <2>3
<1>9. \A u \in Thread : RequestsSame(u)
  BY <1>3, <1>6, <1>8 DEF RequestsSame
<1>10. \A u \in Thread : ~ Serving(u)'
  BY <1>6 DEF Serving
<1>11. Linked' /\ Single' /\ Slots'
  BY <1>1, <1>2, <1>9, <1>10, SameLinks
<1>12. QED
  BY <1>6, <1>8, <1>11

\* Every step keeps the protocol.
LEMMA ProtocolKept ==
  ASSUME ServicesInv, [Next]_vars
  PROVE  Protocol'
<1>1. TypeOK'
  BY TypesKept
<1>2. TypeOK /\ RingsOK /\ Linked /\ Single /\ Slots /\ (\A u \in Thread : Located(u)) /\ Begin
  BY DEF ServicesInv, Protocol, TypeOK
<1>3. ASSUME NEW t \in Thread, ThreadStep(t) PROVE Protocol'
  <2>1. step' # 0
    BY <1>2, <1>3, NotAtStart, OthersSteady
  <2>2. QED
    BY <1>1, <1>3, <2>1, ThreadKeeps DEF Protocol, Begin
<1>4. CASE RunService \/ StopNext \/ Finish
  BY <1>1, <1>4, MasterKeeps DEF Protocol, Begin
<1>5. CASE UNCHANGED vars
  <2>1. step' = step /\ \A u \in Thread : Steady(u)
    BY <1>5 DEF vars, Steady
  <2>2. \A u \in Thread : RequestsSame(u) /\ Located(u)' /\ (Serving(u)' <=> Serving(u))
    BY <1>2, <2>1, SteadyRequests, SteadySame
  <2>3. UNCHANGED ringVars /\ net' = net /\ answers' = answers /\ caller' = caller /\ sid' = sid
    BY <1>5 DEF vars, ringVars
  <2>4. Linked' /\ Single' /\ Slots'
    BY <1>2, <2>2, <2>3, SameLinks
  <2>5. Begin'
    BY <1>2, <1>5 DEF Begin, vars
  <2>6. QED
    BY <1>1, <2>2, <2>4, <2>5 DEF Protocol
<1>6. QED
  BY <1>3, <1>4, <1>5 DEF Next

------------------------------------------------------------------------------
(* The tree: steps that leave it alone. *)

\* Only in the first service of the master is the tree built.
LEMMA TreeWork ==
  ASSUME Protocol
  PROVE  /\ \A t \in Thread : Placing(t) => step = 1
         /\ \A f, u \in Thread : \A e \in 0..Threads : Asked(f, u, e) => step = 1
         /\ \A u \in Thread : \A e \in 0..Threads : Bound(u, e) => step = 1
<1>1. TypeOK /\ Linked /\ \A t \in Thread : Located(t)
  BY DEF Protocol
<1>2. Phase = "SETADD" => step = 1
  BY DEF Phase
<1>3. \A t \in Thread : pc[t] \in Busy /\ sid[t] = "SETADD" => step = 1
  BY <1>1, <1>2 DEF Located
<1>4. \A t \in Thread : Placing(t) => step = 1
  BY <1>3 DEF Placing, Busy
<1>5. ASSUME NEW f \in Thread, NEW u \in Thread, NEW e \in 0..Threads, Asked(f, u, e) PROVE step = 1
  <2>1. CASE pc[f] = "request" /\ sid[f] = "SETADD"
    BY <1>3, <2>1 DEF Busy
  <2>2. CASE \E m \in net : m.sid = "SETADD" /\ m.from = f
    <3>1. PICK m \in net : m.sid = "SETADD" /\ m.from = f
      BY <2>2
    <3>2. sid[f] = "SETADD" /\ \E i \in 1..Sent(f) : TRUE
      BY <1>1, <3>1 DEF Linked, Belongs
    <3>3. Out(f) > 0
      BY <1>1, <3>2, OutFacts
    <3>4. QED
      BY <1>1, <1>3, <3>2, <3>3, SentWhenBusy
  <2>3. QED
    BY <1>5, <2>1, <2>2 DEF Asked
<1>6. QED
  BY <1>4, <1>5 DEF Bound

\* What the tree is about does not change.
SameTree ==
  /\ pst' = pst /\ (step' >= 1 <=> step >= 1)
  /\ \A t \in Thread : (Placing(t)' <=> Placing(t)) /\ (Placing(t) => idUpper'[t] = idUpper[t])
  /\ \A f, u \in Thread : \A e \in 0..Threads : Asked(f, u, e)' <=> Asked(f, u, e)

\* A step that changes nothing the tree is about keeps it.
LEMMA TreeSame ==
  ASSUME TypeOK, Tree, SameTree,
         (\A v \in Thread : Untouched(v) => Untouched(v)') \/ (\A u \in Thread : \A e \in 0..Threads : ~ Bound(u, e))
  PROVE  Tree'
<1>0. Nodes /\ OneParent /\ AskedKnown /\ Claims /\ Processes /\ \A t \in Thread : Deep(t)
  BY DEF Tree
<1>1. \A t \in Thread : \A i \in 1..Len(pst[t]) : Leaves(t, i)' = Leaves(t, i)
  BY DEF SameTree, Leaves
<1>2. \A t \in Thread : Inner(t)' = Inner(t)
  BY DEF SameTree, Inner
<1>3. \A u \in Thread : \A e \in 0..Threads : Bound(u, e)' <=> Bound(u, e)
  BY DEF SameTree, Bound
<1>4. \A v \in Thread : Targeted(v)' <=> Targeted(v)
  BY <1>2 DEF SameTree, Targeted
<1>5. Threads \in Nat \ {0} /\ 0 \in Thread /\ Thread \subseteq Nat
  BY ThreadsAre
<1>6. \A t \in Thread : Len(pst[t]) \in 1..Len(pst[t]) /\ 1 \in 1..Len(pst[t])
  <2>1. ASSUME NEW t \in Thread PROVE Len(pst[t]) \in Nat /\ Len(pst[t]) # 0
    <3>1. pst[t] \in Seq(NodeType) /\ pst[t] # <<>>
      BY <1>0, TypedThread DEF Nodes
    <3>2. QED
      BY <3>1, EmptySeq, LenProperties
  <2>2. QED
    BY <2>1
<1>7. ASSUME NEW t \in Thread, NEW i \in Inner(t) PROVE Split(t, i)'
  <2>1. Split(t, i) /\ i + 1 \in 1..Len(pst[t]) /\ pst[t][i].nLeaves \in Nat
    BY <1>0, <1>7, NodeTyped DEF Nodes
  <2>2. PICK v \in Thread : v = pst[t][i].idUpper
    BY <2>1 DEF Split
  <2>3. PICK e \in 0..Threads : e = t + pst[t][i].nLeaves
    <3>1. t + pst[t][i].nLeaves <= Threads
      BY <2>1 DEF Split
    <3>2. QED
      BY <1>5, <2>1, <3>1
  <2>4. Leaves(t, i + 1)' = Leaves(t, i + 1) /\ Leaves(v, 1)' = Leaves(v, 1)
    BY <1>1, <1>6, <2>1
  <2>5. (Asked(t, v, e)' <=> Asked(t, v, e)) /\ (Asked(t, t, e)' <=> Asked(t, t, e))
    BY DEF SameTree
  <2>6. pst' = pst /\ (Placing(t)' <=> Placing(t)) /\ (Placing(t) => idUpper'[t] = idUpper[t])
    BY DEF SameTree
  <2>7. QED
    BY <2>1, <2>2, <2>3, <2>4, <2>5, <2>6 DEF Split
<1>8. Nodes'
  <2>1. Leaves(0, 1)' = Leaves(0, 1)
    BY <1>1, <1>5, <1>6
  <2>2. \A t \in Thread : pst'[t] # <<>> /\ pst'[t][Len(pst'[t])] = Leaf /\ (Placing(t)' => idUpper'[t] >= t)
    BY <1>0 DEF Nodes, SameTree
  <2>3. step' >= 1 => Leaves(0, 1)' = Threads
    BY <1>0, <2>1 DEF Nodes, SameTree
  <2>4. QED
    BY <1>2, <1>7, <2>2, <2>3 DEF Nodes
<1>9. OneParent'
  BY <1>0, <1>2 DEF OneParent, SameTree
<1>10. \A v \in Thread : Fresh(v) /\ Untouched(v)' => Fresh(v)'
  BY <1>4 DEF Fresh
<1>11. AskedKnown'
  <2>1. ASSUME NEW f \in Thread, NEW u \in Thread, NEW e \in 0..Threads, Asked(f, u, e)'
        PROVE  u < e /\ (f # u => Untouched(u)') /\ \E i \in Inner(f) : pst[f][i].idUpper = u /\ e = f + pst[f][i].nLeaves
    <3>1. Asked(f, u, e)
      BY <2>1 DEF SameTree
    <3>2. Bound(u, e)
      BY <3>1 DEF Bound
    <3>3. QED
      BY <1>0, <3>1, <3>2 DEF AskedKnown
  <2>2. QED
    BY <1>2, <2>1 DEF AskedKnown, SameTree
<1>12. Claims'
  <2>1. ASSUME NEW u \in Thread, NEW e \in 0..Threads, Bound(u, e)', NEW v \in Thread, Within(v, u, e) PROVE Fresh(v)'
    <3>1. Bound(u, e) /\ Fresh(v)
      BY <1>0, <1>3, <2>1 DEF Claims
    <3>2. QED
      BY <1>10, <3>1 DEF Fresh
  <2>2. \A u, w \in Thread : \A d, e \in 0..Threads : Bound(u, d)' /\ Bound(w, e)' =>
          \A v \in Thread : Within(v, u, d) /\ Within(v, w, e) => u = w /\ d = e
    BY <1>0, <1>3 DEF Claims
  <2>3. step' >= 1 => \A v \in Thread \ {0} :
          Targeted(v)' \/ \E u \in Thread : \E e \in 0..Threads : Bound(u, e)' /\ Within(v, u, e)
    BY <1>0, <1>3, <1>4 DEF Claims, SameTree
  <2>4. QED
    BY <2>1, <2>2, <2>3 DEF Claims, Within
<1>13. Processes'
  <2>1. \A u \in Thread : \A e \in 0..Threads : Bound(u, e)' => Aligned(u, e)
    BY <1>0, <1>3 DEF Processes
  <2>2. \A f, u \in Thread : \A e \in 0..Threads : Asked(f, u, e)' /\ u = First(u) => e >= End(u)
    BY <1>0 DEF Processes, SameTree
  <2>3. \A t \in Thread : t # First(t) => \A i \in 1..Len(pst'[t]) : t + Leaves(t, i)' <= End(t)
    BY <1>0, <1>1 DEF Processes, SameTree
  <2>4. ASSUME NEW t \in Thread, t = First(t), Targeted(t)' \/ (t = 0 /\ step' >= 1) PROVE Whole(t)'
    <3>1. Whole(t)
      BY <1>0, <1>4, <2>4 DEF Processes, SameTree
    <3>2. QED
      BY <1>1, <1>3, <3>1 DEF Whole, SameTree
  <2>5. \A x \in Thread : \A i \in Inner(x)' : pst'[x][i].nLower = 0 => x = First(x)
    BY <1>0, <1>2 DEF Processes, SameTree
  <2>6. QED
    BY <2>1, <2>2, <2>3, <2>4, <2>5 DEF Processes, Aligned, First, End
<1>14. \A t \in Thread : Deep(t)'
  BY <1>0, <1>1, <1>6 DEF Deep, SameTree
<1>15. QED
  BY <1>8, <1>9, <1>11, <1>12, <1>13, <1>14 DEF Tree

------------------------------------------------------------------------------
(* The tree: SetAdd splits a range. *)

\* A thread has a node, and the last one is a leaf.
LEMMA NodesExist ==
  ASSUME TypeOK, Nodes, NEW t \in Thread
  PROVE  /\ Len(pst[t]) \in Nat \ {0} /\ Len(pst[t]) \in 1..Len(pst[t]) /\ 1 \in 1..Len(pst[t])
         /\ \A i \in 1..Len(pst[t]) : i \in Inner(t) \/ i = Len(pst[t])
         /\ Inner(t) \subseteq 1..Len(pst[t])
         /\ pst[t][Len(pst[t])] = Leaf
<1>1. pst[t] \in Seq(NodeType) /\ pst[t] # <<>>
  BY TypedThread DEF Nodes
<1>2. Len(pst[t]) \in Nat \ {0}
  BY <1>1, EmptySeq, LenProperties
<1>3. QED
  BY <1>2 DEF Inner, Nodes

\* A step of SetAdd: the range of t is e, it keeps what is before m and asks m for the rest.
SetAddStep(t, e, m, top) ==
  /\ e = idUpper[t] /\ m = Middle(t, e) /\ top = Len(pst[t])
  /\ SetAdd(t)

\* The thread that splits: its range, and where it is after the split.
LEMMA SetAddNodes ==
  ASSUME ServicesInv, NEW t \in Thread, NEW e, NEW m, NEW top, SetAddStep(t, e, m, top)
  PROVE  /\ e \in 0..Threads /\ m \in Thread /\ t <= m /\ m < e /\ 2 * (m - t) <= e - t /\ e - t > 1
         /\ Placing(t) /\ Placing(t)' /\ idUpper'[t] = m /\ pc'[t] = "request" /\ pc[t] = "descend" /\ sid[t] = "SETADD"
         /\ Aligned(t, e) /\ Bound(t, e)
         /\ step' = step /\ \A x \in Thread \ {t} : Steady(x)
<1>1. TypeOK /\ Nodes
  BY DEF ServicesInv, Protocol, Tree
<1>2. e = idUpper[t] /\ m = Middle(t, e) /\ top = Len(pst[t]) /\ SetAdd(t)
  BY DEF SetAddStep
<1>3. /\ pc[t] = "descend" /\ sid[t] = "SETADD" /\ e - t > 1
      /\ pc'[t] = "request" /\ sid'[t] = sid[t] /\ idUpper'[t] = m
  BY <1>1, <1>2 DEF SetAdd, ReqService, TypeOK
<1>4. /\ Placing(t) /\ m \in Thread /\ t <= m /\ m < e /\ 2 * (m - t) <= e - t /\ e \in 0..Threads
  BY <1>2, <1>3, SetAddSplits
<1>5. Aligned(t, e) /\ Bound(t, e)
  BY <1>2, <1>4, PlacingRange
<1>6. Placing(t)'
  BY <1>3 DEF Placing
<1>7. step' = step /\ \A x \in Thread \ {t} : Steady(x)
  BY <1>1, <1>2, OthersSteady DEF ThreadStep
<1>8. QED
  BY <1>3, <1>4, <1>5, <1>6, <1>7

\* Its nodes,
LEMMA SetAddLeaves ==
  ASSUME ServicesInv, NEW t \in Thread, NEW e, NEW m, NEW top, SetAddStep(t, e, m, top)
  PROVE  /\ top \in Nat \ {0} /\ Inner(t) = 1..(top - 1) /\ Inner(t)' = 1..top /\ Len(pst'[t]) = top + 1
         /\ \A i \in 1..(top - 1) : pst'[t][i] = pst[t][i]
         /\ pst'[t][top] = [nLeaves |-> e - t, nLower |-> m - t, nUpper |-> e - m, idUpper |-> m]
         /\ pst'[t][top + 1] = Leaf
         /\ \A i \in 1..top : Leaves(t, i)' = Leaves(t, i)
         /\ Leaves(t, top) = e - t /\ Leaves(t, top + 1)' = m - t
<1>1. TypeOK /\ Nodes
  BY DEF ServicesInv, Protocol, Tree
<1>2. e = idUpper[t] /\ m = Middle(t, e) /\ top = Len(pst[t]) /\ SetAdd(t)
  BY DEF SetAddStep
<1>3. Placing(t) /\ Placing(t)' /\ idUpper'[t] = m /\ idUpper[t] = e
  BY <1>2, SetAddNodes
<1>7. top \in Nat \ {0}
  BY <1>1, <1>2, NodesExist
<1>8. /\ Len(pst'[t]) = top + 1 /\ (\A i \in Inner(t) : pst'[t][i] = pst[t][i])
      /\ pst'[t][top] = NewNode(t) /\ pst'[t][top + 1] = Leaf
  BY <1>2, AfterSetAdd
<1>9. NewNode(t) = [nLeaves |-> e - t, nLower |-> m - t, nUpper |-> e - m, idUpper |-> m]
  BY <1>2 DEF NewNode
<1>10. Inner(t) = 1..(top - 1) /\ Inner(t)' = 1..top
  BY <1>2, <1>7, <1>8 DEF Inner
<1>11. pst'[t][top].nLeaves = e - t
  BY <1>8, <1>9
<1>12. Leaves(t, top) = e - t
  BY <1>2, <1>3 DEF Leaves
<1>13. Leaves(t, top + 1)' = m - t
  BY <1>3, <1>8 DEF Leaves
<1>14. \A i \in 1..top : Leaves(t, i)' = pst'[t][i].nLeaves
  BY <1>7, <1>8 DEF Leaves
<1>15. \A i \in 1..(top - 1) : Leaves(t, i) = pst[t][i].nLeaves
  BY <1>2, <1>7 DEF Leaves
<1>16. \A i \in 1..top : Leaves(t, i)' = Leaves(t, i)
  <2>1. \A i \in 1..(top - 1) : pst'[t][i] = pst[t][i]
    BY <1>8, <1>10
  <2>2. ASSUME NEW i \in 1..top PROVE Leaves(t, i)' = Leaves(t, i)
    <3>1. CASE i = top
      BY <1>11, <1>12, <1>14, <2>2, <3>1
    <3>2. CASE i # top
      <4>1. i \in 1..(top - 1)
        BY <1>7, <2>2, <3>2
      <4>2. QED
        BY <1>14, <1>15, <2>1, <2>2, <4>1
    <3>3. QED
      BY <3>1, <3>2
  <2>3. QED
    BY <2>2
<1>17. QED
  BY <1>7, <1>8, <1>9, <1>10, <1>12, <1>13, <1>16

\* and who is to place what: it the lower part, the thread it asks the upper one.
LEMMA SetAddRanges ==
  ASSUME ServicesInv, NEW t \in Thread, NEW e, NEW m, NEW top, SetAddStep(t, e, m, top)
  PROVE  /\ \A f, u \in Thread : \A d \in 0..Threads :
              Asked(f, u, d)' <=> (Asked(f, u, d) \/ (f = t /\ u = m /\ d = e))
         /\ \A f \in Thread : \A d \in 0..Threads : ~ Asked(f, t, d)
         /\ \A d \in 0..Threads : Bound(t, d) => d = e
         /\ m \in 0..Threads /\ Bound(t, m)' /\ Bound(m, e)'
         /\ \A u \in Thread \ {t} : \A d \in 0..Threads : Bound(u, d) => Bound(u, d)'
         /\ \A u \in Thread : \A d \in 0..Threads :
              Bound(u, d)' => (u = t /\ d = m) \/ (u = m /\ d = e) \/ (u # t /\ Bound(u, d))
         /\ \A v \in Thread : Targeted(v)' <=> Targeted(v) \/ v = m
         /\ m # t => Within(m, t, e) /\ Fresh(m)
<1>1. TypeOK /\ Nodes /\ AskedKnown /\ Claims
  BY DEF ServicesInv, Protocol, Tree
<1>2. e = idUpper[t] /\ m = Middle(t, e) /\ top = Len(pst[t]) /\ SetAdd(t)
  BY DEF SetAddStep
<1>3. /\ e \in 0..Threads /\ m \in Thread /\ t <= m /\ m < e /\ e - t > 1
      /\ Placing(t) /\ Placing(t)' /\ idUpper'[t] = m /\ pc'[t] = "request" /\ pc[t] = "descend" /\ sid[t] = "SETADD"
      /\ Bound(t, e) /\ top \in Nat \ {0} /\ Inner(t) = 1..(top - 1) /\ Inner(t)' = 1..top
      /\ \A i \in 1..(top - 1) : pst'[t][i] = pst[t][i]
      /\ pst'[t][top] = [nLeaves |-> e - t, nLower |-> m - t, nUpper |-> e - m, idUpper |-> m]
      /\ \A x \in Thread \ {t} : Steady(x)
  BY SetAddNodes, SetAddLeaves
<1>4. net' = net /\ sid' = sid /\ pending'[t].to = m /\ pending'[t].idUpper = e
  BY <1>1, <1>2 DEF SetAdd, ReqService, TypeOK
<1>5. \A f, u \in Thread : \A d \in 0..Threads : Asked(f, u, d)' <=> (Asked(f, u, d) \/ (f = t /\ u = m /\ d = e))
  <2>1. ASSUME NEW f \in Thread \ {t}, NEW u, NEW d PROVE Asked(f, u, d)' <=> Asked(f, u, d)
    BY <1>3, <1>4 DEF Asked, Steady
  <2>2. ASSUME NEW u, NEW d PROVE Asked(t, u, d)' <=> (Asked(t, u, d) \/ (u = m /\ d = e))
    BY <1>3, <1>4 DEF Asked
  <2>3. QED
    BY <2>1, <2>2
<1>6. ASSUME NEW f \in Thread, NEW d \in 0..Threads, Asked(f, t, d) PROVE FALSE
  <2>1. CASE f # t
    BY <1>1, <1>3, <1>6, <2>1 DEF AskedKnown, Untouched
  <2>2. CASE f = t
    <3>1. PICK i \in Inner(t) : pst[t][i].idUpper = t
      BY <1>1, <1>6, <2>2 DEF AskedKnown
    <3>2. PICK n \in NodeType : n = pst[t][i]
      BY <1>1, <3>1, NodeTyped
    <3>3. n.nLower \in Nat /\ t = t + n.nLower /\ (n.nLower = 0 => (Placing(t) => idUpper[t] = t))
      BY <1>1, <3>1, <3>2 DEF Nodes, Split, NodeType
    <3>4. t \in Nat
      BY ThreadsAre
    <3>5. QED
      BY <1>2, <1>3, <3>3, <3>4
  <2>3. QED
    BY <2>1, <2>2
<1>7. \A d \in 0..Threads : Bound(t, d) => d = e
  BY <1>2, <1>6 DEF Bound
<1>8. m \in 0..Threads /\ Bound(t, m)' /\ Bound(m, e)'
  <2>1. m \in 0..Threads
    BY <1>3, ThreadsAre
  <2>2. QED
    BY <1>3, <1>5, <2>1 DEF Bound
<1>9. \A u \in Thread \ {t} : Placing(u)' = Placing(u) /\ idUpper'[u] = idUpper[u]
  BY <1>3 DEF Placing, Steady
<1>10. ASSUME NEW u \in Thread \ {t}, NEW d \in 0..Threads, Bound(u, d) PROVE Bound(u, d)'
  BY <1>5, <1>9, <1>10 DEF Bound
<1>11. ASSUME NEW u \in Thread, NEW d \in 0..Threads, Bound(u, d)'
       PROVE  (u = t /\ d = m) \/ (u = m /\ d = e) \/ (u # t /\ Bound(u, d))
  <2>1. CASE Placing(u)' /\ d = idUpper'[u]
    BY <1>3, <1>9, <2>1 DEF Bound
  <2>2. CASE \E f \in Thread : Asked(f, u, d)'
    BY <1>5, <1>6, <2>2 DEF Bound
  <2>3. QED
    BY <1>11, <2>1, <2>2 DEF Bound
<1>12. \A x \in Thread \ {t} : Inner(x)' = Inner(x) /\ pst'[x] = pst[x]
  BY <1>3 DEF Inner, Steady
<1>13. \A v \in Thread : Targeted(v)' <=> Targeted(v) \/ v = m
  <2>1. ASSUME NEW v \in Thread, Targeted(v) PROVE Targeted(v)'
    <3>0. PICK x \in Thread : \E i \in Inner(x) : pst[x][i].idUpper = v
      BY <2>1 DEF Targeted
    <3>1. PICK i \in Inner(x) : pst[x][i].idUpper = v
      BY <3>0
    <3>2. i \in Inner(x)' /\ pst'[x][i] = pst[x][i]
      BY <1>3, <1>12, <3>1
    <3>3. QED
      BY <3>1, <3>2 DEF Targeted
  <2>2. ASSUME NEW v \in Thread, Targeted(v)' PROVE Targeted(v) \/ v = m
    <3>0. PICK x \in Thread : \E i \in Inner(x)' : pst'[x][i].idUpper = v
      BY <2>2 DEF Targeted
    <3>1. PICK i \in Inner(x)' : pst'[x][i].idUpper = v
      BY <3>0
    <3>2. CASE x = t /\ i = top
      BY <1>3, <3>1, <3>2
    <3>3. CASE ~ (x = t /\ i = top)
      <4>1. i \in Inner(x) /\ pst'[x][i] = pst[x][i]
        BY <1>3, <1>12, <3>1, <3>3
      <4>2. QED
        BY <3>1, <4>1 DEF Targeted
    <3>4. QED
      BY <3>2, <3>3
  <2>3. Targeted(m)'
    <3>1. top \in Inner(t)' /\ pst'[t][top].idUpper = m
      BY <1>3
    <3>2. QED
      BY <3>1 DEF Targeted
  <2>4. QED
    BY <2>1, <2>2, <2>3
<1>14. m # t => Within(m, t, e) /\ Fresh(m)
  <2>1. m # t => Within(m, t, e)
    BY <1>3, ThreadsAre DEF Within
  <2>2. QED
    BY <1>1, <1>3, <2>1 DEF Claims
<1>15. QED
  BY <1>5, <1>6, <1>7, <1>8, <1>10, <1>11, <1>13, <1>14

\* The other threads' nodes are the same.
LEMMA SetAddOthers ==
  ASSUME ServicesInv, NEW t \in Thread, NEW e, NEW m, NEW top, SetAddStep(t, e, m, top)
  PROVE  /\ \A x \in Thread \ {t} : pst'[x] = pst[x] /\ Inner(x)' = Inner(x) /\ (Placing(x)' <=> Placing(x)) /\ idUpper'[x] = idUpper[x]
         /\ \A x \in Thread \ {t} : \A i : Leaves(x, i)' = Leaves(x, i)
         /\ \A x \in Thread : \A i \in Inner(x) : i \in Inner(x)' /\ pst'[x][i] = pst[x][i]
         /\ \A x \in Thread : \A i \in Inner(x)' : (i \in Inner(x) /\ pst'[x][i] = pst[x][i]) \/ (x = t /\ i = top)
         /\ \A x \in Thread : Leaves(x, 1)' = Leaves(x, 1)
         /\ \A v \in Thread : Untouched(v) => v # t /\ Untouched(v)'
<1>0. step' = step /\ (\A x \in Thread \ {t} : Steady(x)) /\ pc[t] = "descend"
  BY SetAddNodes
<1>1. /\ top \in Nat \ {0} /\ Inner(t) = 1..(top - 1) /\ Inner(t)' = 1..top
      /\ \A i \in 1..(top - 1) : pst'[t][i] = pst[t][i]
      /\ \A i \in 1..top : Leaves(t, i)' = Leaves(t, i)
      /\ pst'[t][top] = [nLeaves |-> e - t, nLower |-> m - t, nUpper |-> e - m, idUpper |-> m]
  BY SetAddLeaves
<1>2. \A x \in Thread \ {t} : /\ pst'[x] = pst[x] /\ pc'[x] = pc[x] /\ Inner(x)' = Inner(x)
                              /\ (Placing(x)' <=> Placing(x)) /\ idUpper'[x] = idUpper[x]
  BY <1>0 DEF Steady, Inner, Placing
<1>3. \A x \in Thread \ {t} : \A i : Leaves(x, i)' = Leaves(x, i)
  BY <1>2 DEF Leaves
<1>4. \A x \in Thread : Leaves(x, 1)' = Leaves(x, 1)
  BY <1>1, <1>3
<1>5. \A v \in Thread : Untouched(v) => v # t /\ Untouched(v)'
  BY <1>0, <1>2 DEF Untouched
<1>6. \A i \in Inner(t) : i \in Inner(t)' /\ pst'[t][i] = pst[t][i]
  BY <1>1
<1>7. \A i \in Inner(t)' : (i \in Inner(t) /\ pst'[t][i] = pst[t][i]) \/ i = top
  BY <1>1
<1>8. QED
  BY <1>2, <1>3, <1>4, <1>5, <1>6, <1>7

\* The new node is split as it should be,
LEMMA SetAddSplit ==
  ASSUME ServicesInv, NEW t \in Thread, NEW e, NEW m, NEW top, SetAddStep(t, e, m, top)
  PROVE  Nodes'
<1>0. TypeOK /\ Nodes
  BY DEF ServicesInv, Protocol, Tree
<1>1. /\ e \in 0..Threads /\ m \in Thread /\ t <= m /\ m < e /\ 2 * (m - t) <= e - t /\ e - t > 1
      /\ Placing(t) /\ Placing(t)' /\ idUpper'[t] = m /\ idUpper[t] = e
      /\ top \in Nat \ {0} /\ Inner(t) = 1..(top - 1) /\ Inner(t)' = 1..top /\ Len(pst'[t]) = top + 1 /\ top = Len(pst[t])
      /\ pst'[t][top] = [nLeaves |-> e - t, nLower |-> m - t, nUpper |-> e - m, idUpper |-> m]
      /\ pst'[t][top + 1] = Leaf
      /\ \A i \in 1..top : Leaves(t, i)' = Leaves(t, i)
      /\ Leaves(t, top + 1)' = m - t /\ step' = step
  BY SetAddNodes, SetAddLeaves DEF SetAddStep
<1>2. /\ \A x \in Thread \ {t} : pst'[x] = pst[x] /\ Inner(x)' = Inner(x) /\ (Placing(x)' <=> Placing(x)) /\ idUpper'[x] = idUpper[x]
      /\ \A x \in Thread \ {t} : \A i : Leaves(x, i)' = Leaves(x, i)
      /\ \A x \in Thread : \A i \in Inner(x)' : (i \in Inner(x) /\ pst'[x][i] = pst[x][i]) \/ (x = t /\ i = top)
      /\ \A x \in Thread : Leaves(x, 1)' = Leaves(x, 1)
  BY SetAddOthers
<1>3. \A f, u \in Thread : \A d \in 0..Threads : Asked(f, u, d)' <=> (Asked(f, u, d) \/ (f = t /\ u = m /\ d = e))
  BY SetAddRanges
<1>4. Threads \in Nat \ {0} /\ 0 \in Thread /\ Thread \subseteq Nat
  BY ThreadsAre
<1>5. Split(t, top)'
  <2>1. PICK n : n = [nLeaves |-> e - t, nLower |-> m - t, nUpper |-> e - m, idUpper |-> m]
    OBVIOUS
  <2>2. t \in Nat /\ m \in Nat /\ e \in Nat
    BY <1>1, <1>4
  <2>3. /\ n.nLeaves >= 2 /\ n.nLower + n.nUpper = n.nLeaves /\ n.idUpper = t + n.nLower
        /\ 2 * n.nLower <= n.nLeaves /\ t + n.nLeaves = e /\ e <= Threads /\ n.idUpper = m
        /\ n.nLower = m - t /\ (n.nLower = 0 => m = t)
    <3>1. /\ e - t >= 2 /\ (m - t) + (e - m) = e - t /\ m = t + (m - t) /\ t + (e - t) = e /\ e <= Threads /\ (m - t = 0 => m = t)
      <4>1. e - t > 1 /\ e <= Threads
        BY <1>1, <1>4
      <4>2. QED
        BY <2>2, <4>1
    <3>2. n.nLeaves = e - t /\ n.nLower = m - t /\ n.nUpper = e - m /\ n.idUpper = m
      BY <2>1
    <3>3. QED
      BY <1>1, <3>1, <3>2
  <2>4. Asked(t, m, e)'
    BY <1>1, <1>3
  <2>5. top = Len(pst'[t]) - 1
    BY <1>1
  <2>6. pst'[t][top] = n
    BY <1>1, <2>1
  <2>7. QED
    BY <1>1, <2>3, <2>4, <2>5, <2>6 DEF Split
<1>6. ASSUME NEW x \in Thread, NEW i \in Inner(x), pst'[x][i] = pst[x][i] PROVE Split(x, i)'
  <2>1. Split(x, i) /\ i + 1 \in 1..Len(pst[x]) /\ pst[x][i].nLeaves \in Nat
    BY <1>0, <1>6, NodeTyped DEF Nodes
  <2>2. PICK v \in Thread : v = pst[x][i].idUpper
    BY <2>1 DEF Split
  <2>3. PICK d \in 0..Threads : d = x + pst[x][i].nLeaves
    <3>1. x + pst[x][i].nLeaves <= Threads
      BY <2>1 DEF Split
    <3>2. QED
      BY <1>4, <2>1, <3>1
  <2>4. Leaves(x, i + 1)' = Leaves(x, i + 1) /\ Leaves(v, 1)' = Leaves(v, 1)
    BY <1>1, <1>2, <2>1
  <2>5. (Asked(x, v, d) => Asked(x, v, d)') /\ (Asked(x, x, d) => Asked(x, x, d)')
    BY <1>3
  <2>6. x = t => pst[x][i].nLower # 0
    <3>1. SUFFICES ASSUME x = t, pst[x][i].nLower = 0 PROVE FALSE
      OBVIOUS
    <3>2. idUpper[t] = t
      BY <1>1, <2>1, <3>1 DEF Split
    <3>3. QED
      BY <1>1, <1>4, <3>2
  <2>7. x # t => pst'[x] = pst[x] /\ (Placing(x)' <=> Placing(x)) /\ idUpper'[x] = idUpper[x]
    BY <1>2
  <2>8. QED
    BY <1>6, <2>1, <2>2, <2>3, <2>4, <2>5, <2>6, <2>7 DEF Split
<1>7. \A x \in Thread : \A i \in Inner(x)' : Split(x, i)'
  BY <1>2, <1>5, <1>6
<1>8. \A x \in Thread : pst'[x] # <<>> /\ pst'[x][Len(pst'[x])] = Leaf /\ (Placing(x)' => idUpper'[x] >= x)
  <2>1. \A x \in Thread \ {t} : pst'[x] # <<>> /\ pst'[x][Len(pst'[x])] = Leaf /\ (Placing(x)' => idUpper'[x] >= x)
    BY <1>0, <1>2 DEF Nodes
  <2>2. pst'[t] # <<>>
    <3>1. Len(<<>>) = 0
      OBVIOUS
    <3>2. QED
      BY <1>1, <3>1
  <2>3. idUpper'[t] >= t
    BY <1>1, <1>4
  <2>4. QED
    BY <1>1, <2>1, <2>2, <2>3
<1>9. step' >= 1 => Leaves(0, 1)' = Threads
  BY <1>0, <1>1, <1>2, <1>4 DEF Nodes
<1>10. QED
  BY <1>7, <1>8, <1>9 DEF Nodes

\* the thread it asks is below no other node,
LEMMA SetAddParents ==
  ASSUME ServicesInv, NEW t \in Thread, NEW e, NEW m, NEW top, SetAddStep(t, e, m, top)
  PROVE  OneParent' /\ AskedKnown'
<1>0. TypeOK /\ Nodes /\ OneParent /\ AskedKnown
  BY DEF ServicesInv, Protocol, Tree
<1>1. /\ e \in 0..Threads /\ m \in Thread /\ t <= m /\ m < e /\ top \in Nat \ {0} /\ Inner(t)' = 1..top
      /\ pst'[t][top] = [nLeaves |-> e - t, nLower |-> m - t, nUpper |-> e - m, idUpper |-> m]
  BY SetAddNodes, SetAddLeaves
<1>2. /\ \A x \in Thread : \A i \in Inner(x) : i \in Inner(x)' /\ pst'[x][i] = pst[x][i]
      /\ \A x \in Thread : \A i \in Inner(x)' : (i \in Inner(x) /\ pst'[x][i] = pst[x][i]) \/ (x = t /\ i = top)
      /\ \A v \in Thread : Untouched(v) => v # t /\ Untouched(v)'
  BY SetAddOthers
<1>3. /\ \A f, u \in Thread : \A d \in 0..Threads : Asked(f, u, d)' <=> (Asked(f, u, d) \/ (f = t /\ u = m /\ d = e))
      /\ m # t => Within(m, t, e) /\ Fresh(m)
  BY SetAddRanges
<1>4. t \in Nat /\ m \in Nat /\ e \in Nat /\ pst'[t][top].idUpper = m /\ pst'[t][top].nLeaves = e - t /\ pst'[t][top].nLower = m - t
  BY <1>1, ThreadsAre
<1>5. OneParent'
  <2>1. SUFFICES ASSUME NEW x \in Thread, NEW y \in Thread, NEW i \in Inner(x)', NEW j \in Inner(y)',
                        pst'[x][i].idUpper = pst'[y][j].idUpper, pst'[x][i].nLower > 0, pst'[y][j].nLower > 0
                 PROVE  x = y /\ i = j
    BY DEF OneParent
  <2>2. m # t => \A z \in Thread : \A k \in Inner(z) : pst[z][k].idUpper # m
    BY <1>3 DEF Fresh, Targeted
  <2>3. CASE x = t /\ i = top
    <3>1. m # t /\ pst'[y][j].idUpper = m
      BY <1>4, <2>1, <2>3
    <3>2. QED
      BY <1>2, <2>2, <2>3, <3>1
  <2>4. CASE y = t /\ j = top
    <3>1. m # t /\ pst'[x][i].idUpper = m
      BY <1>4, <2>1, <2>4
    <3>2. QED
      BY <1>2, <2>2, <2>4, <3>1
  <2>5. CASE ~ (x = t /\ i = top) /\ ~ (y = t /\ j = top)
    <3>1. i \in Inner(x) /\ j \in Inner(y) /\ pst'[x][i] = pst[x][i] /\ pst'[y][j] = pst[y][j]
      BY <1>2, <2>5
    <3>2. QED
      BY <1>0, <2>1, <3>1 DEF OneParent
  <2>6. QED
    BY <2>3, <2>4, <2>5
<1>6. AskedKnown'
  <2>1. ASSUME NEW f \in Thread, NEW u \in Thread, NEW d \in 0..Threads, Asked(f, u, d)'
        PROVE  u < d /\ (f # u => Untouched(u)') /\ \E i \in Inner(f)' : pst'[f][i].idUpper = u /\ d = f + pst'[f][i].nLeaves
    <3>1. CASE Asked(f, u, d)
      <4>1. u < d /\ (f # u => Untouched(u)) /\ \E i \in Inner(f) : pst[f][i].idUpper = u /\ d = f + pst[f][i].nLeaves
        BY <1>0, <3>1 DEF AskedKnown
      <4>2. QED
        BY <1>2, <4>1
    <3>2. CASE f = t /\ u = m /\ d = e
      <4>1. top \in Inner(t)'
        BY <1>1
      <4>2. e = t + (e - t)
        BY <1>4
      <4>3. m # t => Untouched(m)'
        BY <1>1, <1>2, <1>3 DEF Fresh
      <4>4. QED
        BY <1>1, <1>4, <3>2, <4>1, <4>2, <4>3
    <3>3. QED
      BY <1>3, <2>1, <3>1, <3>2
  <2>2. QED
    BY <2>1 DEF AskedKnown
<1>7. QED
  BY <1>5, <1>6

\* and every thread is still to be placed once.
LEMMA SetAddClaims ==
  ASSUME ServicesInv, NEW t \in Thread, NEW e, NEW m, NEW top, SetAddStep(t, e, m, top)
  PROVE  Claims'
<1>0. TypeOK /\ Claims
  BY DEF ServicesInv, Protocol, Tree
<1>1. e \in 0..Threads /\ m \in Thread /\ t <= m /\ m < e /\ Bound(t, e) /\ pc[t] = "descend" /\ step' = step
  BY SetAddNodes
<1>2. /\ \A u \in Thread \ {t} : \A d \in 0..Threads : Bound(u, d) => Bound(u, d)'
      /\ \A d \in 0..Threads : Bound(t, d) => d = e
      /\ m \in 0..Threads /\ Bound(t, m)' /\ Bound(m, e)'
      /\ \A u \in Thread : \A d \in 0..Threads :
              Bound(u, d)' => (u = t /\ d = m) \/ (u = m /\ d = e) \/ (u # t /\ Bound(u, d))
      /\ \A v \in Thread : Targeted(v)' <=> Targeted(v) \/ v = m
      /\ m # t => Within(m, t, e) /\ Fresh(m)
  BY SetAddRanges
<1>3. \A v \in Thread : Untouched(v) => v # t /\ Untouched(v)'
  BY SetAddOthers
<1>4. t \in Nat /\ m \in Nat /\ e \in Nat /\ Thread \subseteq Nat
  BY <1>1, ThreadsAre
<1>5. \A v \in Thread : /\ Within(v, t, m) => Within(v, t, e) /\ v # m
                        /\ Within(v, m, e) => Within(v, t, e) /\ v # m
                        /\ Within(v, t, e) => Within(v, t, m) \/ v = m \/ Within(v, m, e)
                        /\ ~ (Within(v, t, m) /\ Within(v, m, e))
  BY <1>1, <1>4 DEF Within
<1>6. ASSUME NEW u \in Thread, NEW d \in 0..Threads, Bound(u, d)', NEW v \in Thread, Within(v, u, d) PROVE Fresh(v)'
  <2>1. Fresh(v) /\ v # m
    <3>1. CASE (u = t /\ d = m) \/ (u = m /\ d = e)
      BY <1>0, <1>1, <1>5, <1>6, <3>1 DEF Claims
    <3>2. CASE u # t /\ Bound(u, d)
      <4>1. Fresh(v)
        BY <1>0, <1>6, <3>2 DEF Claims
      <4>2. v # t
        BY <1>3, <4>1 DEF Fresh
      <4>3. v = m => Within(m, t, e) /\ Within(m, u, d)
        BY <1>2, <1>6, <4>2
      <4>4. v # m
        BY <1>0, <1>1, <1>6, <3>2, <4>3 DEF Claims
      <4>5. QED
        BY <4>1, <4>4
    <3>3. QED
      BY <1>2, <1>6, <3>1, <3>2
  <2>2. QED
    BY <1>2, <1>3, <2>1 DEF Fresh
<1>7. ASSUME NEW u \in Thread, NEW w \in Thread, NEW c \in 0..Threads, NEW d \in 0..Threads, Bound(u, c)', Bound(w, d)',
             NEW v \in Thread, Within(v, u, c), Within(v, w, d)
      PROVE  u = w /\ c = d
  <2>1. \/ ((u = t /\ c = m) \/ (u = m /\ c = e)) /\ Within(v, t, e)
        \/ u # t /\ Bound(u, c)
    BY <1>2, <1>5, <1>7
  <2>2. \/ ((w = t /\ d = m) \/ (w = m /\ d = e)) /\ Within(v, t, e)
        \/ w # t /\ Bound(w, d)
    BY <1>2, <1>5, <1>7
  <2>3. CASE u # t /\ Bound(u, c) /\ w # t /\ Bound(w, d)
    BY <1>0, <1>7, <2>3 DEF Claims
  <2>4. CASE u # t /\ Bound(u, c) /\ Within(v, t, e)
    BY <1>0, <1>1, <1>7, <2>4 DEF Claims
  <2>5. CASE w # t /\ Bound(w, d) /\ Within(v, t, e)
    BY <1>0, <1>1, <1>7, <2>5 DEF Claims
  <2>6. CASE ((u = t /\ c = m) \/ (u = m /\ c = e)) /\ ((w = t /\ d = m) \/ (w = m /\ d = e))
    BY <1>5, <1>7, <2>6
  <2>7. QED
    BY <2>1, <2>2, <2>3, <2>4, <2>5, <2>6
<1>8. ASSUME step' >= 1, NEW v \in Thread \ {0}
      PROVE  Targeted(v)' \/ \E u \in Thread : \E d \in 0..Threads : Bound(u, d)' /\ Within(v, u, d)
  <2>1. Targeted(v) \/ \E u \in Thread : \E d \in 0..Threads : Bound(u, d) /\ Within(v, u, d)
    BY <1>0, <1>1, <1>8 DEF Claims
  <2>2. CASE Targeted(v)
    BY <1>2, <2>2
  <2>3. CASE \E u \in Thread : \E d \in 0..Threads : Bound(u, d) /\ Within(v, u, d)
    <3>0. PICK u \in Thread : \E d \in 0..Threads : Bound(u, d) /\ Within(v, u, d)
      BY <2>3
    <3>1. PICK d \in 0..Threads : Bound(u, d) /\ Within(v, u, d)
      BY <3>0
    <3>2. CASE u # t
      BY <1>2, <3>1, <3>2
    <3>3. CASE u = t
      <4>1. Within(v, t, e)
        BY <1>2, <3>1, <3>3
      <4>2. Within(v, t, m) \/ v = m \/ Within(v, m, e)
        BY <1>5, <4>1
      <4>3. QED
        BY <1>1, <1>2, <4>2
    <3>4. QED
      BY <3>2, <3>3
  <2>4. QED
    BY <2>1, <2>2, <2>3
<1>9. QED
  BY <1>6, <1>7, <1>8 DEF Claims, Within

\* A thread is one of its process.
LEMMA FirstEnd ==
  ASSUME NEW t \in Thread
  PROVE  /\ First(t) \in Thread /\ First(t) <= t /\ t < End(t) /\ End(t) \in 0..Threads /\ End(t) \in Nat /\ t \in Nat
         /\ End(t) = First(t) + Cores[ThreadToProc(t)] /\ Cores[ThreadToProc(t)] \in Nat \ {0}
         /\ ThreadToProc(t) \in Proc
<1>1. ThreadToProc(t) \in Proc /\ First(t) <= t /\ t < End(t)
  BY ProcessOf DEF First, End
<1>2. /\ ThreadToProc(t) + 1 \in 0..Procs /\ First(t) \in Thread
      /\ End(t) = First(t) + Cores[ThreadToProc(t)] /\ Cores[ThreadToProc(t)] \in Nat \ {0}
  BY <1>1, ProcessOf DEF First, End
<1>3. End(t) \in 0..Threads
  BY <1>2, ProcessOf DEF End
<1>4. t \in Nat /\ End(t) \in Nat
  BY <1>3, ThreadsAre
<1>5. QED
  BY <1>1, <1>2, <1>3, <1>4

\* The ranges a process splits off and is given are aligned, and so are the nodes of its threads.
LEMMA SetAddProcesses ==
  ASSUME ServicesInv, NEW t \in Thread, NEW e, NEW m, NEW top, SetAddStep(t, e, m, top)
  PROVE  Processes'
<1>0. TypeOK /\ Nodes /\ Processes
  BY DEF ServicesInv, Protocol, Tree
<1>1. /\ e \in 0..Threads /\ m \in Thread /\ t <= m /\ m < e /\ e - t > 1
      /\ Aligned(t, e) /\ Bound(t, e) /\ step' = step
  BY SetAddNodes
<1>2. /\ top \in Nat \ {0} /\ Len(pst'[t]) = top + 1
      /\ \A i \in 1..top : Leaves(t, i)' = Leaves(t, i)
      /\ Leaves(t, top) = e - t /\ Leaves(t, top + 1)' = m - t
      /\ pst'[t][top] = [nLeaves |-> e - t, nLower |-> m - t, nUpper |-> e - m, idUpper |-> m]
  BY SetAddLeaves
<1>3. /\ \A x \in Thread \ {t} : pst'[x] = pst[x]
      /\ \A x \in Thread \ {t} : \A i : Leaves(x, i)' = Leaves(x, i)
  BY SetAddOthers
<1>4. /\ \A f, u \in Thread : \A d \in 0..Threads : Asked(f, u, d)' <=> (Asked(f, u, d) \/ (f = t /\ u = m /\ d = e))
      /\ \A d \in 0..Threads : Bound(t, d) => d = e
      /\ m \in 0..Threads /\ Bound(t, m)' /\ Bound(m, e)'
      /\ \A u \in Thread \ {t} : \A d \in 0..Threads : Bound(u, d) => Bound(u, d)'
      /\ \A v \in Thread : Targeted(v)' <=> Targeted(v) \/ v = m
  BY SetAddRanges
<1>5. /\ \A u \in Thread : \A d \in 0..Threads : Bound(u, d)' => (u = t /\ d = m) \/ (u = m /\ d = e) \/ (u # t /\ Bound(u, d))
  BY SetAddRanges
<1>6. m = Middle(t, e) /\ top = Len(pst[t])
  BY DEF SetAddStep
<1>7. /\ Aligned(t, m) /\ Aligned(m, e)
      /\ m = First(m) => e >= End(m)
      /\ m = t => t = First(t) /\ e > End(t)
      /\ t = First(t) /\ e > End(t) /\ m # t => m >= End(t)
  BY <1>1, <1>6, MiddleSplits
<1>8. \A u \in Thread : \A d \in 0..Threads : Bound(u, d)' => Aligned(u, d)
  BY <1>0, <1>5, <1>7 DEF Processes
<1>9. \A f, u \in Thread : \A d \in 0..Threads : Asked(f, u, d)' /\ u = First(u) => d >= End(u)
  BY <1>0, <1>4, <1>7 DEF Processes
<1>10. t \in Nat /\ m \in Nat /\ e \in Nat /\ End(t) \in Nat
  BY <1>1, FirstEnd, ThreadsAre
<1>11. ASSUME NEW x \in Thread, x # First(x), NEW i \in 1..Len(pst'[x]) PROVE x + Leaves(x, i)' <= End(x)
  <2>1. CASE x # t
    BY <1>0, <1>3, <1>11, <2>1 DEF Processes
  <2>2. CASE x = t /\ i \in 1..top
    BY <1>0, <1>2, <1>6, <1>11, <2>2 DEF Processes
  <2>3. CASE x = t /\ i = top + 1
    <3>1. t + (e - t) <= End(t)
      <4>1. top \in 1..Len(pst[t])
        BY <1>2, <1>6
      <4>2. QED
        BY <1>0, <1>2, <1>11, <2>3, <4>1 DEF Processes
    <3>2. t + (m - t) <= End(t)
      BY <1>1, <1>10, <3>1
    <3>3. QED
      BY <1>2, <2>3, <3>2
  <2>4. QED
    BY <1>2, <1>11, <2>1, <2>2, <2>3
<1>12. ASSUME NEW x \in Thread, x = First(x), Targeted(x)' \/ (x = 0 /\ step' >= 1) PROVE Whole(x)'
  <2>1. CASE x = m
    <3>1. e >= End(m)
      BY <1>7, <1>12, <2>1
    <3>2. QED
      BY <1>1, <1>4, <2>1, <3>1 DEF Whole, End
  <2>2. CASE x # m
    <3>1. Whole(x)
      BY <1>0, <1>1, <1>4, <1>12, <2>2 DEF Processes
    <3>2. CASE x # t
      <4>1. CASE \E d \in 0..Threads : Bound(x, d) /\ d >= End(x)
        BY <1>4, <3>2, <4>1 DEF Whole, End
      <4>2. CASE \E i \in 1..Len(pst[x]) : Leaves(x, i) = Cores[ThreadToProc(x)]
        BY <1>3, <3>2, <4>2 DEF Whole
      <4>3. QED
        BY <3>1, <4>1, <4>2 DEF Whole
    <3>3. CASE x = t
      <4>1. CASE \E i \in 1..top : Leaves(t, i) = Cores[ThreadToProc(t)]
        <5>1. PICK i \in 1..top : Leaves(t, i)' = Cores[ThreadToProc(t)]
          BY <1>2, <4>1
        <5>2. i \in 1..Len(pst'[t])
          BY <1>2
        <5>3. QED
          BY <3>3, <5>1, <5>2 DEF Whole
      <4>2. CASE e >= End(t)
        <5>1. CASE e = End(t)
          <6>1. e - t = Cores[ThreadToProc(t)]
            BY <1>10, <1>12, <3>3, <5>1, FirstEnd
          <6>2. top \in 1..top
            BY <1>2
          <6>3. QED
            BY <1>2, <4>1, <6>1, <6>2
        <5>2. CASE e # End(t)
          <6>1. m >= End(t)
            BY <1>7, <1>10, <1>12, <2>2, <3>3, <4>2, <5>2
          <6>2. QED
            BY <1>4, <3>3, <6>1 DEF Whole, End
        <5>3. QED
          BY <5>1, <5>2
      <4>3. QED
        BY <1>4, <1>6, <3>1, <3>3, <4>1, <4>2 DEF Whole
    <3>4. QED
      BY <3>2, <3>3
  <2>3. QED
    BY <2>1, <2>2
<1>13. ASSUME NEW x \in Thread, NEW i \in Inner(x)', pst'[x][i].nLower = 0 PROVE x = First(x)
  <2>1. CASE i \in Inner(x) /\ pst'[x][i] = pst[x][i]
    BY <1>0, <1>13, <2>1 DEF Processes
  <2>2. CASE x = t /\ i = top
    <3>1. m - t = 0
      BY <1>2, <1>13, <2>2
    <3>2. m = t
      BY <1>10, <3>1
    <3>3. QED
      BY <1>7, <2>2, <3>2
  <2>3. QED
    BY <1>13, <2>1, <2>2, SetAddOthers
<1>14. QED
  BY <1>8, <1>9, <1>11, <1>12, <1>13 DEF Processes, Aligned, First, End

\* A split makes a range half as long at most.
LEMMA SetAddDeep ==
  ASSUME ServicesInv, NEW t \in Thread, NEW e, NEW m, NEW top, SetAddStep(t, e, m, top)
  PROVE  \A x \in Thread : Deep(x)'
<1>0. TypeOK /\ \A x \in Thread : Deep(x)
  BY DEF ServicesInv, Protocol, Tree
<1>1. e \in 0..Threads /\ m \in Thread /\ t <= m /\ m < e /\ 2 * (m - t) <= e - t /\ e - t > 1 /\ top = Len(pst[t])
  BY SetAddNodes DEF SetAddStep
<1>2. /\ top \in Nat \ {0} /\ Len(pst'[t]) = top + 1 /\ Leaves(t, top) = e - t /\ Leaves(t, top + 1)' = m - t
      /\ pst'[t][top] = [nLeaves |-> e - t, nLower |-> m - t, nUpper |-> e - m, idUpper |-> m]
  BY SetAddLeaves
<1>3. ASSUME NEW x \in Thread \ {t} PROVE Deep(x)'
  <2>1. pst'[x] = pst[x] /\ \A i : Leaves(x, i)' = Leaves(x, i)
    BY SetAddOthers
  <2>2. Len(pst'[x]) = Len(pst[x])
    BY <2>1
  <2>3. PICK n : n = Len(pst[x])
    OBVIOUS
  <2>4. Leaves(x, n)' = Leaves(x, n)
    BY <2>1
  <2>5. QED
    BY <1>0, <2>2, <2>3, <2>4 DEF Deep
<1>4. Deep(t)'
  <2>1. t \in Nat /\ m \in Nat /\ e \in Nat /\ Threads \in Nat
    BY <1>1, ThreadsAre
  <2>2. e - t \in 0..Threads /\ m - t \in 0..Threads
    BY <1>1, <2>1
  <2>3. e - t \in 0..(Threads * Threads) /\ m - t \in 0..(Threads * Threads)
    BY <2>2, RingSizes
  <2>4. Log2[m - t] + 1 <= Log2[e - t] /\ Log2[m - t] \in Nat /\ Log2[e - t] \in Nat
    BY <1>1, <2>3, Log2Grows, Log2Natural
  <2>5. Log2[Threads] \in Nat
    BY <2>1, RingSizes, Log2Natural
  <2>6. top - 1 + Log2[e - t] <= Log2[Threads]
    BY <1>0, <1>1, <1>2 DEF Deep
  <2>7. top + 1 - 1 + Log2[m - t] <= Log2[Threads]
    BY <1>2, <2>4, <2>5, <2>6
  <2>8. PICK n : n = top + 1
    OBVIOUS
  <2>9. Len(pst'[t]) = n /\ Leaves(t, n)' = m - t /\ n - 1 + Log2[m - t] <= Log2[Threads]
    BY <1>2, <2>7, <2>8
  <2>10. QED
    BY <2>9 DEF Deep
<1>5. QED
  BY <1>3, <1>4

\* SetAdd keeps the tree.
LEMMA TreeAtSetAdd ==
  ASSUME ServicesInv, NEW t \in Thread, SetAdd(t)
  PROVE  Tree'
<1>1. PICK e, m, top : e = idUpper[t] /\ m = Middle(t, e) /\ top = Len(pst[t])
  OBVIOUS
<1>2. SetAddStep(t, e, m, top)
  BY <1>1 DEF SetAddStep
<1>3. Nodes'
  BY <1>2, SetAddSplit
<1>4. OneParent' /\ AskedKnown'
  BY <1>2, SetAddParents
<1>5. Claims'
  BY <1>2, SetAddClaims
<1>6. Processes'
  BY <1>2, SetAddProcesses
<1>7. \A x \in Thread : Deep(x)'
  BY <1>2, SetAddDeep
<1>8. QED
  BY <1>3, <1>4, <1>5, <1>6, <1>7 DEF Tree

------------------------------------------------------------------------------
(* The tree: SetAdd is done. *)

\* The thread has no more threads to place: its last node is itself.
LEMMA TreeAtSetAddDone ==
  ASSUME ServicesInv, NEW t \in Thread, SetAddDone(t)
  PROVE  Tree'
<1>0. TypeOK /\ Nodes /\ OneParent /\ AskedKnown /\ Claims /\ Processes /\ \A x \in Thread : Deep(x)
  BY DEF ServicesInv, Protocol, Tree
<1>1. PICK e \in 0..Threads : e = idUpper[t]
  BY <1>0, TypedThread
<1>2. /\ pc[t] = "descend" /\ sid[t] = "SETADD" /\ e - t <= 1 /\ pc' = [pc EXCEPT ![t] = "ascend"]
      /\ UNCHANGED <<sid, pst, idUpper, pending, net, step>>
  BY <1>1 DEF SetAddDone
<1>3. Placing(t) /\ ~ Placing(t)' /\ \A x \in Thread \ {t} : Placing(x)' <=> Placing(x)
  BY <1>0, <1>2 DEF Placing, TypeOK
<1>4. e >= t /\ e \in Nat /\ t \in Nat /\ Threads \in Nat \ {0} /\ 0 \in Thread /\ Thread \subseteq Nat
  BY <1>0, <1>1, <1>3, ThreadsAre DEF Nodes
<1>5. \A f, u : \A d : f \in Thread => (Asked(f, u, d)' <=> Asked(f, u, d))
  <2>1. \A f \in Thread : pc'[f] = "request" <=> pc[f] = "request"
    BY <1>0, <1>2 DEF TypeOK
  <2>2. QED
    BY <1>2, <2>1 DEF Asked
<1>6. \A u \in Thread : \A d \in 0..Threads : Bound(u, d)' => Bound(u, d)
  BY <1>2, <1>3, <1>5 DEF Bound
<1>7. \A u \in Thread : \A d \in 0..Threads : Bound(u, d) => Bound(u, d)' \/ (u = t /\ d = e)
  BY <1>1, <1>2, <1>3, <1>5 DEF Bound
<1>8. \A v \in Thread : ~ Within(v, t, e)
  BY <1>2, <1>4 DEF Within
<1>9. \A x \in Thread : Inner(x)' = Inner(x)
  BY <1>2 DEF Inner
<1>10. PICK top \in Nat \ {0} : top = Len(pst[t]) /\ pst[t][top] = Leaf
  BY <1>0, NodesExist
<1>11. /\ Leaves(t, top) = e - t /\ Leaves(t, top)' = 1
       /\ \A i : i # top => Leaves(t, i)' = Leaves(t, i)
       /\ \A x \in Thread \ {t} : \A i : Leaves(x, i)' = Leaves(x, i)
  BY <1>1, <1>2, <1>3, <1>10 DEF Leaves, Leaf
<1>12. \A x \in Thread : \A i, n : n # 0 /\ Leaves(x, i) = n => Leaves(x, i)' = n
  <2>1. ASSUME NEW n, n # 0, Leaves(t, top) = n PROVE Leaves(t, top)' = n
    BY <1>2, <1>4, <1>11, <2>1
  <2>2. QED
    BY <1>11, <2>1
<1>13. ASSUME NEW x \in Thread, NEW i \in Inner(x) PROVE Split(x, i)'
  <2>1. Split(x, i) /\ pst[x][i].nLeaves \in Nat /\ pst[x][i].nLower \in Nat /\ pst[x][i].nUpper \in Nat
    BY <1>0, <1>13, NodeTyped DEF Nodes
  <2>2. PICK n : n = pst[x][i]
    OBVIOUS
  <2>3. /\ n.nLeaves >= 2 /\ n.nLower + n.nUpper = n.nLeaves /\ n.idUpper = x + n.nLower
        /\ 2 * n.nLower <= n.nLeaves /\ x + n.nLeaves <= Threads /\ n.idUpper \in Thread
        /\ n.nLower > 0 => Leaves(x, i + 1) = n.nLower
        /\ n.nLower > 0 => Asked(x, n.idUpper, x + n.nLeaves) \/ Leaves(n.idUpper, 1) = n.nUpper
        /\ n.nLower = 0 => i = Len(pst[x]) - 1 /\ Asked(x, x, x + n.nLeaves) /\ (Placing(x) => idUpper[x] = x)
        /\ n.nLeaves \in Nat /\ n.nLower \in Nat /\ n.nUpper \in Nat
    BY <2>1, <2>2 DEF Split
  <2>4. PICK v \in Thread : v = n.idUpper
    BY <2>3
  <2>5. n.nUpper # 0
    <3>1. PICK a \in Nat, b \in Nat, c \in Nat : a = n.nLower /\ b = n.nUpper /\ c = n.nLeaves
      BY <2>3
    <3>2. a + b = c /\ 2 * a <= c /\ c >= 2
      BY <2>3, <3>1
    <3>3. b # 0
      BY <3>2
    <3>4. QED
      BY <3>1, <3>3
  <2>6. n.nLower > 0 => Leaves(x, i + 1)' = n.nLower
    BY <1>12, <2>3
  <2>7. n.nLower > 0 => Asked(x, v, x + n.nLeaves)' \/ Leaves(v, 1)' = n.nUpper
    BY <1>5, <1>12, <2>3, <2>4, <2>5
  <2>8. n.nLower = 0 => i = Len(pst'[x]) - 1 /\ Asked(x, x, x + n.nLeaves)' /\ (Placing(x)' => idUpper'[x] = x)
    BY <1>2, <1>3, <1>5, <2>3
  <2>9. pst'[x][i] = n
    BY <1>2, <2>2
  <2>10. QED
    BY <2>3, <2>4, <2>6, <2>7, <2>8, <2>9 DEF Split
<1>14. Nodes'
  <2>1. step' >= 1 => Leaves(0, 1)' = Threads
    BY <1>0, <1>2, <1>4, <1>12 DEF Nodes
  <2>2. QED
    BY <1>0, <1>2, <1>3, <1>9, <1>13, <2>1 DEF Nodes
<1>15. OneParent'
  BY <1>0, <1>2, <1>9 DEF OneParent
<1>16. \A v \in Thread : (Untouched(v) => Untouched(v)') /\ (Targeted(v)' <=> Targeted(v)) /\ (Fresh(v) => Fresh(v)')
  <2>1. \A v \in Thread : Untouched(v) => Untouched(v)'
    BY <1>0, <1>2 DEF Untouched, TypeOK
  <2>2. \A v \in Thread : Targeted(v)' <=> Targeted(v)
    BY <1>2, <1>9 DEF Targeted
  <2>3. QED
    BY <2>1, <2>2 DEF Fresh
<1>17. AskedKnown'
  BY <1>0, <1>2, <1>5, <1>9, <1>16 DEF AskedKnown
<1>18. Claims'
  <2>1. \A u \in Thread : \A d \in 0..Threads : Bound(u, d)' => \A v \in Thread : Within(v, u, d) => Fresh(v)'
    BY <1>0, <1>6, <1>16 DEF Claims
  <2>2. \A u, w \in Thread : \A c, d \in 0..Threads : Bound(u, c)' /\ Bound(w, d)' =>
          \A v \in Thread : Within(v, u, c) /\ Within(v, w, d) => u = w /\ c = d
    BY <1>0, <1>6 DEF Claims
  <2>3. ASSUME step' >= 1, NEW v \in Thread \ {0}
        PROVE  Targeted(v)' \/ \E u \in Thread : \E d \in 0..Threads : Bound(u, d)' /\ Within(v, u, d)
    <3>1. Targeted(v) \/ \E u \in Thread : \E d \in 0..Threads : Bound(u, d) /\ Within(v, u, d)
      BY <1>0, <1>2, <2>3 DEF Claims
    <3>2. QED
      BY <1>7, <1>8, <1>16, <3>1
  <2>4. QED
    BY <2>1, <2>2, <2>3 DEF Claims, Within
<1>19. Processes'
  <2>1. \A u \in Thread : \A d \in 0..Threads : Bound(u, d)' => Aligned(u, d)
    BY <1>0, <1>6 DEF Processes
  <2>2. \A f, u \in Thread : \A d \in 0..Threads : Asked(f, u, d)' /\ u = First(u) => d >= End(u)
    BY <1>0, <1>5 DEF Processes
  <2>3. ASSUME NEW x \in Thread, x # First(x), NEW i \in 1..Len(pst[x]) PROVE x + Leaves(x, i)' <= End(x)
    <3>1. CASE x = t /\ i = top
      BY <1>11, <3>1, FirstEnd
    <3>2. CASE ~ (x = t /\ i = top)
      BY <1>0, <1>11, <2>3, <3>2 DEF Processes
    <3>3. QED
      BY <3>1, <3>2
  <2>4. ASSUME NEW x \in Thread, x = First(x), Targeted(x)' \/ (x = 0 /\ step' >= 1) PROVE Whole(x)'
    <3>1. Whole(x)
      BY <1>0, <1>2, <1>16, <2>4 DEF Processes
    <3>2. CASE \E i \in 1..Len(pst[x]) : Leaves(x, i) = Cores[ThreadToProc(x)]
      <4>1. Cores[ThreadToProc(x)] # 0
        BY FirstEnd
      <4>2. QED
        BY <1>2, <1>12, <3>2, <4>1 DEF Whole
    <3>3. CASE \E d \in 0..Threads : Bound(x, d) /\ d >= End(x)
      <4>1. PICK d \in 0..Threads : Bound(x, d) /\ d >= End(x)
        BY <3>3
      <4>2. CASE Bound(x, d)'
        BY <4>1, <4>2 DEF Whole, End
      <4>3. CASE x = t /\ d = e
        <5>1. 1 = Cores[ThreadToProc(t)]
          BY <1>2, <1>4, <2>4, <4>1, <4>3, FirstEnd
        <5>2. top \in 1..Len(pst'[t])
          BY <1>2, <1>10
        <5>3. QED
          BY <1>11, <4>3, <5>1, <5>2 DEF Whole
      <4>4. QED
        BY <1>7, <4>1, <4>2, <4>3
    <3>4. QED
      BY <3>1, <3>2, <3>3 DEF Whole
  <2>5. \A x \in Thread : \A i \in Inner(x)' : pst'[x][i].nLower = 0 => x = First(x)
    BY <1>0, <1>2, <1>9 DEF Processes
  <2>6. QED
    BY <1>2, <2>1, <2>2, <2>3, <2>4, <2>5 DEF Processes, Aligned, First, End
<1>20. ASSUME NEW x \in Thread PROVE Deep(x)'
  <2>1. CASE x # t
    <3>1. PICK n : n = Len(pst[x])
      OBVIOUS
    <3>2. Leaves(x, n)' = Leaves(x, n) /\ Len(pst'[x]) = n
      BY <1>2, <1>11, <2>1, <3>1
    <3>3. QED
      BY <1>0, <3>1, <3>2 DEF Deep
  <2>2. CASE x = t
    <3>1. Log2[e - t] = 0 /\ Log2[1] = 0
      <4>1. {0, 1} \subseteq 0..Threads
        BY <1>4
      <4>2. Log2[0] = 0 /\ Log2[1] = 0
        BY <4>1, RingSizes, Log2Value
      <4>3. e - t = 0 \/ e - t = 1
        BY <1>2, <1>4
      <4>4. QED
        BY <4>2, <4>3
    <3>2. top - 1 + 0 <= Log2[Threads]
      BY <1>0, <1>10, <1>11, <3>1 DEF Deep
    <3>3. Len(pst'[t]) = top
      BY <1>2, <1>10
    <3>4. QED
      BY <1>11, <2>2, <3>1, <3>2, <3>3 DEF Deep
  <2>3. QED
    BY <2>1, <2>2
<1>21. QED
  BY <1>14, <1>15, <1>17, <1>18, <1>19, <1>20 DEF Tree

------------------------------------------------------------------------------
(* The tree: a thread takes a request of SetAdd. *)

\* A thread takes the request it has been sent for the tree: it is no longer asked, and places the range.
TakeStep(t, f, d, k) ==
  /\ t \in Thread /\ f \in Thread /\ f < t /\ d \in 0..Threads /\ t < d /\ k \in Inner(f)
  /\ Asked(f, t, d) /\ pst[f][k].idUpper = t /\ d = f + pst[f][k].nLeaves /\ pst[f][k].nLower > 0
  /\ pst[t] = <<Leaf>> /\ Len(pst[t]) = 1 /\ Inner(t) = {} /\ pst' = pst /\ step' = step
  /\ ~ Placing(t) /\ Placing(t)' /\ idUpper'[t] = d
  /\ \A x \in Thread \ {t} : (Placing(x)' <=> Placing(x)) /\ idUpper'[x] = idUpper[x] /\ pc'[x] = pc[x]
  /\ \A g, u \in Thread : \A c \in 0..Threads : Asked(g, u, c)' <=> Asked(g, u, c) /\ u # t
  /\ \A g \in Thread : \A c \in 0..Threads : Asked(g, t, c) => g = f /\ c = d

\* A request of SetAdd that is received is to be placed by its receiver now.
LEMMA HandlerTakes ==
  ASSUME ServicesInv, NEW t \in Thread, Handler(t), NEW m \in net, m.to = t, m.sid = "SETADD",
         net' = net \ {m}, Run(t, m.sid, m.idUpper), pc' = [pc EXCEPT ![t] = "descend"]
  PROVE  \E k : TakeStep(t, m.from, m.idUpper, k)
<1>0. /\ TypeOK /\ Nodes /\ OneParent /\ AskedKnown /\ Linked /\ Single /\ \A x \in Thread : Located(x)
  BY DEF ServicesInv, Protocol, Tree
<1>1. pc[t] = "handler" /\ pst' = pst /\ step' = step /\ pending' = pending
  BY DEF Handler
<1>2. /\ m \in Message /\ m.from \in Thread /\ m.from < t /\ m.from # t /\ pst[t] = <<Leaf>> /\ m.idUpper > t
      /\ Asked(m.from, t, m.idUpper) /\ pc[m.from] \in Busy /\ sid[m.from] = "SETADD"
      /\ \E i \in 1..Sent(m.from) : Tag(m.from, i) = m.tag /\ Target(m.from, i) = t
  BY <1>1, CallOf
<1>3. PICK f \in Thread, d \in 0..Threads : f = m.from /\ d = m.idUpper
  BY <1>2 DEF Message
<1>4. f < t /\ f # t /\ t < d /\ Asked(f, t, d) /\ sid[f] = "SETADD" /\ t \in Nat /\ f \in Nat /\ d \in Nat
  BY <1>2, <1>3, ThreadsAre
<1>5. PICK k \in Inner(f) : pst[f][k].idUpper = t /\ d = f + pst[f][k].nLeaves
  BY <1>0, <1>4 DEF AskedKnown
<1>6. \A g \in Thread : \A i \in Inner(g) : g # t /\ pst[g][i].idUpper = t => pst[g][i].nLower > 0
  <2>1. ASSUME NEW g \in Thread, NEW i \in Inner(g), g # t, pst[g][i].idUpper = t PROVE pst[g][i].nLower > 0
    <3>1. Split(g, i) /\ pst[g][i].nLower \in Nat /\ g \in Nat
      BY <1>0, <2>1, NodeTyped, ThreadsAre DEF Nodes
    <3>2. t = g + pst[g][i].nLower
      BY <2>1, <3>1 DEF Split
    <3>3. QED
      BY <1>4, <2>1, <3>1, <3>2
  <2>2. QED
    BY <2>1
<1>7. Len(pst[t]) = 1 /\ Inner(t) = {}
  <2>1. Len(<<Leaf>>) = 1
    OBVIOUS
  <2>2. Len(pst[t]) = 1
    BY <1>2, <2>1
  <2>3. QED
    BY <2>2 DEF Inner
<1>8. ASSUME NEW i \in Inner(f), pst[f][i].idUpper = t PROVE i = k
  BY <1>0, <1>4, <1>5, <1>6, <1>8 DEF OneParent
<1>9. ASSUME NEW g \in Thread, NEW c \in 0..Threads, Asked(g, t, c) PROVE g = f /\ c = d
  <2>1. PICK i \in Inner(g) : pst[g][i].idUpper = t /\ c = g + pst[g][i].nLeaves
    BY <1>0, <1>9 DEF AskedKnown
  <2>2. g # t
    BY <1>7, <2>1
  <2>3. pst[g][i].nLower > 0 /\ pst[f][k].nLower > 0
    BY <1>4, <1>5, <1>6, <2>1, <2>2
  <2>4. g = f /\ i = k
    BY <1>0, <1>5, <2>1, <2>3 DEF OneParent
  <2>5. QED
    BY <1>5, <2>1, <2>4
<1>10. PICK i \in 1..Sent(f) : Tag(f, i) = m.tag /\ Target(f, i) = t
  BY <1>2, <1>3
<1>11. \A j \in 1..Out(f) : Target(f, j) = t => j = k
  <2>1. ASSUME NEW j \in 1..Out(f), Target(f, j) = t PROVE j = k
    <3>1. j \in Inner(f) /\ pst[f][j].idUpper = t
      BY <1>0, <1>4, <2>1, RequestIsNode
    <3>2. QED
      BY <1>8, <3>1
  <2>2. QED
    BY <2>1
<1>12. Sent(f) \in Nat /\ Out(f) \in Nat /\ Sent(f) <= Out(f) /\ i = k
  <2>1. Sent(f) \in Nat /\ Out(f) \in Nat /\ Sent(f) <= Out(f)
    BY <1>0, OutFacts
  <2>2. i \in 1..Out(f)
    BY <2>1
  <2>3. QED
    BY <1>10, <1>11, <2>1, <2>2
<1>13. \A x \in net : x.from = f /\ x.to = t => x = m
  <2>1. ASSUME NEW x \in net, x.from = f, x.to = t PROVE x = m
    <3>1. PICK j \in 1..Sent(f) : Tag(f, j) = x.tag /\ Target(f, j) = t
      BY <1>0, <2>1 DEF Linked, Belongs
    <3>2. j \in 1..Out(f)
      BY <1>12, <3>1
    <3>3. x.tag = m.tag
      BY <1>10, <1>11, <1>12, <3>1, <3>2
    <3>4. QED
      BY <1>0, <1>3, <2>1, <3>3 DEF Single
  <2>2. QED
    BY <2>1
<1>14. ~ (pc[f] = "request" /\ pending[f].to = t)
  <2>1. SUFFICES ASSUME pc[f] = "request", pending[f].to = t PROVE FALSE
    OBVIOUS
  <2>2. Out(f) = Sent(f) + 1 /\ Target(f, Out(f)) = t
    BY <1>0, <2>1, OutFacts DEF Located, Asks
  <2>3. Out(f) \in 1..Out(f)
    BY <1>12, <2>2
  <2>4. QED
    BY <1>11, <1>12, <2>2, <2>3
<1>15. /\ pc'[t] = "descend" /\ sid'[t] = "SETADD" /\ idUpper'[t] = d
       /\ \A x \in Thread \ {t} : pc'[x] = pc[x] /\ sid'[x] = sid[x] /\ idUpper'[x] = idUpper[x]
  BY <1>0, <1>3 DEF Run, TypeOK
<1>16. ASSUME NEW g \in Thread, NEW u \in Thread, NEW c \in 0..Threads PROVE Asked(g, u, c)' <=> Asked(g, u, c) /\ u # t
  <2>1. pc'[g] = "request" /\ sid'[g] = "SETADD" <=> pc[g] = "request" /\ sid[g] = "SETADD"
    BY <1>1, <1>15
  <2>2. CASE u # t
    BY <1>1, <2>1, <2>2 DEF Asked
  <2>3. CASE u = t
    <3>1. SUFFICES ASSUME Asked(g, t, c)' PROVE FALSE
      BY <2>3
    <3>2. \/ \E x \in net \ {m} : x.sid = "SETADD" /\ x.from = g /\ x.to = t /\ x.idUpper = c
          \/ pc[g] = "request" /\ sid[g] = "SETADD" /\ pending[g].to = t /\ pending[g].idUpper = c
      BY <1>1, <2>1, <3>1 DEF Asked
    <3>3. Asked(g, t, c)
      BY <3>2 DEF Asked
    <3>4. g = f
      BY <1>9, <3>3
    <3>5. QED
      BY <1>13, <1>14, <3>2, <3>4
  <2>4. QED
    BY <2>2, <2>3
<1>17. ~ Placing(t) /\ Placing(t)' /\ \A x \in Thread \ {t} : Placing(x)' <=> Placing(x)
  BY <1>1, <1>15 DEF Placing
<1>18. TakeStep(t, f, d, k)
  BY <1>1, <1>2, <1>4, <1>5, <1>6, <1>7, <1>9, <1>15, <1>16, <1>17 DEF TakeStep
<1>19. QED
  BY <1>3, <1>18

\* Who takes a range keeps the tree.
LEMMA TreeAtTake ==
  ASSUME ServicesInv, NEW t, NEW f, NEW d, NEW k, TakeStep(t, f, d, k)
  PROVE  Tree'
<1>0. TypeOK /\ Nodes /\ OneParent /\ AskedKnown /\ Claims /\ Processes /\ \A x \in Thread : Deep(x)
  BY DEF ServicesInv, Protocol, Tree
<1>1. /\ t \in Thread /\ f \in Thread /\ f < t /\ d \in 0..Threads /\ t < d /\ k \in Inner(f)
      /\ Asked(f, t, d) /\ pst[f][k].idUpper = t /\ d = f + pst[f][k].nLeaves /\ pst[f][k].nLower > 0
      /\ pst[t] = <<Leaf>> /\ Len(pst[t]) = 1 /\ Inner(t) = {} /\ pst' = pst /\ step' = step
      /\ ~ Placing(t) /\ Placing(t)' /\ idUpper'[t] = d
  BY DEF TakeStep
<1>2. \A x \in Thread \ {t} : (Placing(x)' <=> Placing(x)) /\ idUpper'[x] = idUpper[x] /\ pc'[x] = pc[x]
  BY DEF TakeStep
<1>3. /\ \A g, u \in Thread : \A c \in 0..Threads : Asked(g, u, c)' <=> Asked(g, u, c) /\ u # t
      /\ \A g \in Thread : \A c \in 0..Threads : Asked(g, t, c) => g = f /\ c = d
  BY DEF TakeStep
<1>4. t \in Nat /\ f \in Nat /\ d \in Nat /\ t # 0 /\ t # f /\ Threads \in Nat \ {0} /\ 0 \in Thread /\ Thread \subseteq Nat
  BY <1>1, ThreadsAre
<1>5. \A u \in Thread : \A c \in 0..Threads : Bound(u, c)' <=> Bound(u, c)
  <2>1. \A u \in Thread \ {t} : \A c \in 0..Threads : Bound(u, c)' <=> Bound(u, c)
    BY <1>2, <1>3 DEF Bound
  <2>2. \A c \in 0..Threads : Bound(t, c) <=> c = d
    BY <1>1, <1>3 DEF Bound
  <2>3. \A c \in 0..Threads : Bound(t, c)' <=> c = d
    BY <1>1, <1>3 DEF Bound
  <2>4. QED
    BY <2>1, <2>2, <2>3
<1>6. \A x \in Thread : Inner(x)' = Inner(x)
  BY <1>1 DEF Inner
<1>7. Leaves(t, 1)' = d - t /\ \A x \in Thread \ {t} : \A i : Leaves(x, i)' = Leaves(x, i)
  BY <1>1, <1>2 DEF Leaves
<1>8. \A v \in Thread : Targeted(v)' <=> Targeted(v)
  BY <1>1, <1>6 DEF Targeted
<1>9. Targeted(t)
  BY <1>1 DEF Targeted
<1>10. \A v \in Thread : (v # t /\ Untouched(v) => Untouched(v)') /\ (Fresh(v) => Fresh(v)')
  <2>1. \A v \in Thread : v # t /\ Untouched(v) => Untouched(v)'
    BY <1>1, <1>2 DEF Untouched
  <2>2. QED
    BY <1>8, <1>9, <2>1 DEF Fresh
<1>11. ASSUME NEW x \in Thread, NEW i \in Inner(x) PROVE Split(x, i)'
  <2>1. Split(x, i) /\ pst[x][i].nLeaves \in Nat /\ pst[x][i].nLower \in Nat /\ pst[x][i].nUpper \in Nat /\ x # t
    BY <1>0, <1>1, <1>11, NodeTyped DEF Nodes
  <2>2. PICK n : n = pst[x][i]
    OBVIOUS
  <2>3. /\ n.nLeaves >= 2 /\ n.nLower + n.nUpper = n.nLeaves /\ n.idUpper = x + n.nLower
        /\ 2 * n.nLower <= n.nLeaves /\ x + n.nLeaves <= Threads /\ n.idUpper \in Thread
        /\ n.nLower > 0 => Leaves(x, i + 1) = n.nLower
        /\ n.nLower > 0 => Asked(x, n.idUpper, x + n.nLeaves) \/ Leaves(n.idUpper, 1) = n.nUpper
        /\ n.nLower = 0 => i = Len(pst[x]) - 1 /\ Asked(x, x, x + n.nLeaves) /\ (Placing(x) => idUpper[x] = x)
        /\ n.nLeaves \in Nat /\ n.nLower \in Nat /\ n.nUpper \in Nat
    BY <2>1, <2>2 DEF Split
  <2>4. PICK v \in Thread : v = n.idUpper
    BY <2>3
  <2>5. PICK e \in 0..Threads : e = x + n.nLeaves
    BY <1>4, <2>3
  <2>6. n.nLower > 0 => Leaves(x, i + 1)' = n.nLower
    BY <1>7, <2>1, <2>3
  <2>7. n.nLower > 0 => Asked(x, v, e)' \/ Leaves(v, 1)' = n.nUpper
    <3>1. CASE v # t
      BY <1>3, <1>7, <2>3, <2>4, <2>5, <3>1
    <3>2. CASE v = t /\ n.nLower > 0
      <4>1. x = f /\ i = k
        BY <1>0, <1>1, <2>2, <2>4, <3>2 DEF OneParent
      <4>2. PICK a \in Nat, b \in Nat, c \in Nat : a = n.nLower /\ b = n.nUpper /\ c = n.nLeaves
        BY <2>3
      <4>3. a + b = c /\ t = f + a /\ d = f + c
        BY <1>1, <2>2, <2>3, <2>4, <3>2, <4>1, <4>2
      <4>4. d - t = b
        BY <1>4, <4>3
      <4>5. QED
        BY <1>7, <3>2, <4>2, <4>4
    <3>3. QED
      BY <3>1, <3>2
  <2>8. n.nLower = 0 => i = Len(pst'[x]) - 1 /\ Asked(x, x, e)' /\ (Placing(x)' => idUpper'[x] = x)
    BY <1>1, <1>2, <1>3, <2>1, <2>3, <2>5
  <2>9. pst'[x][i] = n
    BY <1>1, <2>2
  <2>10. QED
    BY <2>3, <2>4, <2>5, <2>6, <2>7, <2>8, <2>9 DEF Split
<1>12. Nodes'
  <2>1. step' >= 1 => Leaves(0, 1)' = Threads
    BY <1>0, <1>1, <1>4, <1>7 DEF Nodes
  <2>2. \A x \in Thread : pst'[x] # <<>> /\ pst'[x][Len(pst'[x])] = Leaf /\ (Placing(x)' => idUpper'[x] >= x)
    BY <1>0, <1>1, <1>2, <1>4 DEF Nodes
  <2>3. QED
    BY <1>6, <1>11, <2>1, <2>2 DEF Nodes
<1>13. OneParent'
  BY <1>0, <1>1, <1>6 DEF OneParent
<1>14. AskedKnown'
  BY <1>0, <1>1, <1>3, <1>6, <1>10 DEF AskedKnown
<1>15. Claims'
  <2>1. \A u \in Thread : \A c \in 0..Threads : Bound(u, c)' => \A v \in Thread : Within(v, u, c) => Fresh(v)'
    BY <1>0, <1>5, <1>10 DEF Claims
  <2>2. \A u, w \in Thread : \A c, e \in 0..Threads : Bound(u, c)' /\ Bound(w, e)' =>
          \A v \in Thread : Within(v, u, c) /\ Within(v, w, e) => u = w /\ c = e
    BY <1>0, <1>5 DEF Claims
  <2>3. step' >= 1 => \A v \in Thread \ {0} : Targeted(v)' \/ \E u \in Thread : \E c \in 0..Threads : Bound(u, c)' /\ Within(v, u, c)
    BY <1>0, <1>1, <1>5, <1>8 DEF Claims
  <2>4. QED
    BY <2>1, <2>2, <2>3 DEF Claims, Within
<1>16. Processes'
  <2>1. \A u \in Thread : \A c \in 0..Threads : Bound(u, c)' => Aligned(u, c)
    BY <1>0, <1>5 DEF Processes
  <2>2. \A g, u \in Thread : \A c \in 0..Threads : Asked(g, u, c)' /\ u = First(u) => c >= End(u)
    BY <1>0, <1>3 DEF Processes
  <2>3. Bound(t, d) /\ Aligned(t, d)
    BY <1>0, <1>1 DEF Bound, Processes
  <2>4. ASSUME NEW x \in Thread, x # First(x), NEW i \in 1..Len(pst'[x]) PROVE x + Leaves(x, i)' <= End(x)
    <3>1. CASE x = t
      <4>0. Len(pst'[t]) = 1
        BY <1>1
      <4>1. i = 1
        BY <2>4, <3>1, <4>0
      <4>4. t + (d - t) = d
        BY <1>4
      <4>2. d <= End(t)
        BY <2>3, <2>4, <3>1 DEF Aligned
      <4>3. QED
        BY <1>7, <3>1, <4>1, <4>2, <4>4
    <3>2. CASE x # t
      BY <1>0, <1>1, <1>7, <2>4, <3>2 DEF Processes
    <3>3. QED
      BY <3>1, <3>2
  <2>5. ASSUME NEW x \in Thread, x = First(x), Targeted(x)' \/ (x = 0 /\ step' >= 1) PROVE Whole(x)'
    <3>1. CASE x = t
      <4>1. d >= End(t) /\ Bound(t, d)'
        BY <1>0, <1>1, <1>5, <2>3, <2>5, <3>1 DEF Processes
      <4>2. QED
        BY <1>1, <3>1, <4>1 DEF Whole, End
    <3>2. CASE x # t
      <4>1. Whole(x)
        BY <1>0, <1>1, <1>8, <2>5 DEF Processes
      <4>2. QED
        BY <1>1, <1>5, <1>7, <3>2, <4>1 DEF Whole, End
    <3>3. QED
      BY <3>1, <3>2
  <2>6. \A x \in Thread : \A i \in Inner(x)' : pst'[x][i].nLower = 0 => x = First(x)
    BY <1>0, <1>1, <1>6 DEF Processes
  <2>7. QED
    BY <2>1, <2>2, <2>4, <2>5, <2>6 DEF Processes, Aligned, First, End
<1>17. ASSUME NEW x \in Thread PROVE Deep(x)'
  <2>1. CASE x # t
    <3>1. PICK n : n = Len(pst[x])
      OBVIOUS
    <3>2. Leaves(x, n)' = Leaves(x, n) /\ Len(pst'[x]) = n
      BY <1>1, <1>7, <2>1, <3>1
    <3>3. QED
      BY <1>0, <3>1, <3>2 DEF Deep
  <2>2. CASE x = t
    <3>1. d - t \in 0..(Threads * Threads) /\ Threads \in 0..(Threads * Threads) /\ d - t <= Threads
      <4>1. d - t \in 0..Threads /\ Threads \in 0..Threads
        BY <1>1, <1>4
      <4>2. QED
        BY <4>1, RingSizes
    <3>2. Log2[d - t] <= Log2[Threads] /\ Log2[d - t] \in Nat /\ Log2[Threads] \in Nat
      BY <3>1, Log2Grows, Log2Natural
    <3>3. 1 - 1 + Log2[d - t] <= Log2[Threads]
      BY <3>2
    <3>4. Len(pst'[t]) = 1
      BY <1>1
    <3>5. QED
      BY <1>7, <2>2, <3>3, <3>4 DEF Deep
  <2>3. QED
    BY <2>1, <2>2
<1>18. QED
  BY <1>12, <1>13, <1>14, <1>15, <1>16, <1>17 DEF Tree

------------------------------------------------------------------------------
(* The tree is kept. *)

\* The master begins to build the tree: thread 0 is to place all others.
LEMMA TreeAtStart ==
  ASSUME ServicesInv, RunService, step = 0
  PROVE  Tree'
<1>0. TypeOK /\ Begin
  BY DEF ServicesInv, Protocol
<1>1. Threads \in Nat \ {0} /\ 0 \in Thread /\ Thread \subseteq Nat /\ Thread \subseteq 0..Threads /\ Threads \in 0..Threads
  BY ThreadsAre
<1>2. /\ net = {} /\ \A x \in Thread : pst[x] = <<Leaf>> /\ pc[x] = (IF x = 0 THEN "master" ELSE "handler")
  BY <1>0 DEF Begin
<1>3. /\ pst' = pst /\ net' = net /\ pending' = pending /\ step' = 1
      /\ pc' = [pc EXCEPT ![0] = "descend"] /\ sid'[0] = "SETADD" /\ idUpper'[0] = Threads
  BY <1>0, <1>1 DEF RunService, Run, TypeOK
<1>4. pc'[0] = "descend" /\ \A x \in Thread \ {0} : pc'[x] = "handler"
  BY <1>0, <1>1, <1>2, <1>3 DEF TypeOK
<1>5. Placing(0)' /\ \A x \in Thread \ {0} : ~ Placing(x)'
  BY <1>3, <1>4 DEF Placing
<1>6. \A f, u, e : f \in Thread => ~ Asked(f, u, e)'
  BY <1>2, <1>3, <1>4 DEF Asked
<1>7. \A u \in Thread : \A e \in 0..Threads : Bound(u, e)' <=> u = 0 /\ e = Threads
  BY <1>1, <1>3, <1>5, <1>6 DEF Bound
<1>8. \A x \in Thread : pst'[x] = <<Leaf>> /\ Len(pst'[x]) = 1 /\ pst'[x][1] = Leaf /\ pst'[x] # <<>>
  <2>1. Len(<<Leaf>>) = 1 /\ <<Leaf>>[1] = Leaf /\ <<Leaf>> # <<>>
    OBVIOUS
  <2>2. QED
    BY <1>2, <1>3, <2>1
<1>9. \A x \in Thread : Inner(x)' = {}
  <2>1. ASSUME NEW x \in Thread PROVE Inner(x)' = {}
    <3>1. Inner(x)' = 1..(Len(pst'[x]) - 1)
      BY DEF Inner
    <3>2. Len(pst'[x]) - 1 = 0
      BY <1>8
    <3>3. 1..0 = {}
      OBVIOUS
    <3>4. Inner(x)' = 1..0
      BY <3>1, <3>2
    <3>5. QED
      BY <3>3, <3>4
  <2>2. QED
    BY <2>1
<1>10. Leaves(0, 1)' = Threads /\ \A x \in Thread \ {0} : Leaves(x, 1)' = 1
  <2>1. Leaves(0, 1)' = Threads - 0
    BY <1>1, <1>3, <1>5, <1>8 DEF Leaves
  <2>2. \A x \in Thread \ {0} : Leaves(x, 1)' = 1
    BY <1>5, <1>8 DEF Leaves, Leaf
  <2>3. QED
    BY <1>1, <2>1, <2>2
<1>11. \A v \in Thread : ~ Targeted(v)'
  BY <1>9 DEF Targeted
<1>12. Nodes'
  <2>1. \A x \in Thread : pst'[x] # <<>> /\ pst'[x][Len(pst'[x])] = Leaf /\ (Placing(x)' => idUpper'[x] >= x)
    BY <1>1, <1>3, <1>5, <1>8
  <2>2. QED
    BY <1>9, <1>10, <2>1 DEF Nodes
<1>13. OneParent'
  BY <1>9 DEF OneParent
<1>14. AskedKnown'
  BY <1>6 DEF AskedKnown
<1>15. Claims'
  <2>1. \A v \in Thread \ {0} : Fresh(v)'
    BY <1>4, <1>8, <1>11 DEF Fresh, Untouched
  <2>2. \A u \in Thread : \A e \in 0..Threads : Bound(u, e)' => \A v \in Thread : Within(v, u, e) => Fresh(v)'
    BY <1>1, <1>7, <2>1 DEF Within
  <2>3. \A u, w \in Thread : \A c, e \in 0..Threads : Bound(u, c)' /\ Bound(w, e)' =>
          \A v \in Thread : Within(v, u, c) /\ Within(v, w, e) => u = w /\ c = e
    BY <1>7
  <2>4. \A v \in Thread \ {0} : Within(v, 0, Threads)
    BY <1>1 DEF Within, Thread
  <2>5. \A v \in Thread \ {0} : \E u \in Thread : \E e \in 0..Threads : Bound(u, e)' /\ Within(v, u, e)
    BY <1>1, <1>7, <2>4
  <2>6. QED
    BY <2>2, <2>3, <2>5 DEF Claims, Within
<1>16. First(0) = 0
  <2>1. First(0) \in Thread /\ First(0) <= 0
    BY <1>1, FirstEnd
  <2>2. First(0) \in Nat
    BY <1>1, <2>1
  <2>3. QED
    BY <2>1, <2>2
<1>17. Processes'
  <2>1. Aligned(0, Threads)
    <3>1. Threads = ProcToThread[Procs] /\ Procs \in 0..Procs
      BY ServicesAssumption DEF Threads
    <3>2. QED
      BY <1>16, <3>1 DEF Aligned
  <2>2. \A u \in Thread : \A e \in 0..Threads : Bound(u, e)' => Aligned(u, e)
    BY <1>7, <2>1
  <2>3. ASSUME NEW x \in Thread, x # First(x), NEW i \in 1..Len(pst'[x]) PROVE x + Leaves(x, i)' <= End(x)
    <3>1. x # 0 /\ i = 1
      <4>1. Len(pst'[x]) = 1
        BY <1>8
      <4>2. QED
        BY <1>16, <2>3, <4>1
    <3>2. x + 1 <= End(x)
      BY FirstEnd
    <3>3. QED
      BY <1>10, <3>1, <3>2
  <2>4. Whole(0)'
    <3>1. Threads >= End(0)
      BY <1>1, FirstEnd
    <3>2. QED
      BY <1>1, <1>7, <3>1 DEF Whole, End
  <2>5. \A x \in Thread : \A i \in Inner(x)' : pst'[x][i].nLower = 0 => x = First(x)
    BY <1>9
  <2>6. QED
    BY <1>6, <1>11, <2>2, <2>3, <2>4, <2>5 DEF Processes, Aligned, First, End
<1>18. ASSUME NEW x \in Thread PROVE Deep(x)'
  <2>1. {1, Threads} \subseteq 0..Threads
    BY <1>1
  <2>2. Log2[1] = 0 /\ Log2[Threads] \in Nat
    BY <2>1, RingSizes, Log2Value, Log2Natural
  <2>3. 1 - 1 + Log2[1] <= Log2[Threads] /\ 1 - 1 + Log2[Threads] <= Log2[Threads]
    BY <2>2
  <2>4. QED
    BY <1>8, <1>10, <2>3 DEF Deep
<1>19. QED
  BY <1>12, <1>13, <1>14, <1>15, <1>17, <1>18 DEF Tree

\* The steps of the master keep the tree,
LEMMA TreeAtMaster ==
  ASSUME ServicesInv, RunService \/ StopNext \/ Finish
  PROVE  Tree'
<1>0. TypeOK /\ Tree /\ Protocol /\ \A x \in Thread : Located(x)
  BY DEF ServicesInv, Protocol
<1>1. Idle /\ UNCHANGED <<pst, net>> /\ \A x \in Thread \ {0} : pc'[x] = pc[x]
  BY <1>0 DEF RunService, StopNext, Finish, Run, ReqService, TypeOK
<1>2. net = {} /\ (\A x \in Thread \ {0} : pc[x] \notin Busy) /\ pc[0] \in {"master", "ascend"} /\ 0 \in Thread
  BY <1>0, <1>1, QuietBetweenServices, ThreadsAre DEF Idle
<1>3. CASE RunService /\ step = 0
  BY <1>3, TreeAtStart
<1>4. CASE ~ (RunService /\ step = 0)
  <2>1. step \in Nat /\ Traversals \in Nat /\ Threads \in Nat \ {0}
    BY <1>0, ThreadsAre DEF TypeOK
  <2>2. step >= 1 /\ step' >= 1 /\ ~ (sid'[0] = "SETADD" /\ pc'[0] \in {"descend", "request", "sending"})
    <3>1. CASE RunService
      BY <1>0, <1>2, <1>4, <2>1, <3>1 DEF RunService, Run, TypeOK
    <3>2. CASE StopNext
      BY <1>0, <1>2, <2>1, <3>2 DEF StopNext, Run, TypeOK
    <3>3. CASE Finish
      BY <1>0, <1>2, <2>1, <3>3 DEF Finish, TypeOK
    <3>4. QED
      BY <3>1, <3>2, <3>3
  <2>3. \A x \in Thread : ~ Placing(x) /\ ~ Placing(x)'
    BY <1>1, <1>2, <2>2 DEF Placing, Busy
  <2>4. \A f, u \in Thread : \A e \in 0..Threads : ~ Asked(f, u, e) /\ ~ Asked(f, u, e)'
    BY <1>1, <1>2, <2>2 DEF Asked, Busy
  <2>5. SameTree
    BY <1>1, <2>2, <2>3, <2>4 DEF SameTree
  <2>6. \A u \in Thread : \A e \in 0..Threads : ~ Bound(u, e)
    BY <2>3, <2>4 DEF Bound
  <2>7. QED
    BY <1>0, <2>5, <2>6, TreeSame
<1>5. QED
  BY <1>3, <1>4

\* so does sending a request,
LEMMA TreeAtSend ==
  ASSUME ServicesInv, NEW t \in Thread, MessageSendRequest(t)
  PROVE  Tree'
<1>0. TypeOK /\ Tree /\ Located(t)
  BY DEF ServicesInv, Protocol
<1>1. PICK m \in Message : m = [pending[t] EXCEPT !.tag = FreeSlot(ThreadToProc(t))]
  BY SendTyped
<1>2. m.from = t /\ m.to = pending[t].to /\ m.sid = pending[t].sid /\ m.idUpper = pending[t].idUpper
  BY <1>1, SendTyped
<1>3. /\ pc[t] = "request" /\ pc' = [pc EXCEPT ![t] = "sending"] /\ net' = net \cup {m} /\ pending' = [pending EXCEPT ![t] = m]
      /\ UNCHANGED <<sid, pst, idUpper, step>>
  BY <1>1 DEF MessageSendRequest
<1>4. pending[t].sid = sid[t]
  BY <1>0, <1>3 DEF Located, Asks
<1>5. pc'[t] = "sending" /\ \A x \in Thread \ {t} : pc'[x] = pc[x] /\ pending'[x] = pending[x]
  BY <1>0, <1>3 DEF TypeOK
<1>6. \A x \in Thread : Placing(x)' <=> Placing(x)
  BY <1>3, <1>5 DEF Placing
<1>7. ASSUME NEW f \in Thread, NEW u \in Thread, NEW e \in 0..Threads PROVE Asked(f, u, e)' <=> Asked(f, u, e)
  <2>1. CASE f # t
    BY <1>2, <1>3, <1>5, <2>1 DEF Asked
  <2>2. CASE f = t
    <3>1. Asked(t, u, e)' <=> \E n \in net \cup {m} : n.sid = "SETADD" /\ n.from = t /\ n.to = u /\ n.idUpper = e
      BY <1>3, <1>5 DEF Asked
    <3>2. m.sid = "SETADD" /\ m.from = t /\ m.to = u /\ m.idUpper = e <=> sid[t] = "SETADD" /\ pending[t].to = u /\ pending[t].idUpper = e
      BY <1>2, <1>4
    <3>3. QED
      BY <1>3, <2>2, <3>1, <3>2 DEF Asked
  <2>3. QED
    BY <2>1, <2>2
<1>8. SameTree
  BY <1>3, <1>6, <1>7 DEF SameTree
<1>9. \A v \in Thread : Untouched(v) => Untouched(v)'
  BY <1>3, <1>5 DEF Untouched
<1>10. QED
  BY <1>0, <1>8, <1>9, TreeSame

\* A step of a thread that neither places nor is asked for anything.
LEMMA TreeAtOther ==
  ASSUME ServicesInv, NEW t \in Thread,
         Requested(t) \/ GetReply(t) \/ FinishReceiveReply(t) \/ SendReply(t) \/ Replied(t) \/ Recurse(t) \/ Service(t)
  PROVE  Tree'
<1>0. TypeOK /\ Tree /\ Located(t)
  BY DEF ServicesInv, Protocol
<1>1. /\ UNCHANGED <<sid, pst, idUpper, net, step>> /\ pc[t] # "handler"
      /\ (Placing(t)' <=> Placing(t))
      /\ (pc'[t] = "request" /\ sid'[t] = "SETADD" <=> pc[t] = "request" /\ sid[t] = "SETADD")
      /\ pc[t] # "request"
  <2>1. CASE Requested(t)
    BY <1>0, <2>1 DEF Requested, Placing, TypeOK
  <2>2. CASE GetReply(t)
    BY <1>0, <2>2 DEF GetReply, Placing, TypeOK
  <2>3. CASE FinishReceiveReply(t)
    BY <1>0, <2>3 DEF FinishReceiveReply, Placing, TypeOK
  <2>4. CASE SendReply(t)
    BY <1>0, <2>4 DEF SendReply, Placing, TypeOK
  <2>5. CASE Replied(t)
    BY <1>0, <2>5 DEF Replied, Placing, TypeOK
  <2>6. CASE Recurse(t)
    BY <1>0, <2>6 DEF Recurse, ReqService, Placing, TypeOK
  <2>7. CASE Service(t)
    BY <1>0, <2>7 DEF Service, Placing, TypeOK
  <2>8. QED
    BY <2>1, <2>2, <2>3, <2>4, <2>5, <2>6, <2>7
<1>2. \A x \in Thread \ {t} : Steady(x)
  BY <1>0, OthersSteady DEF ThreadStep
<1>3. \A x \in Thread : Placing(x)' <=> Placing(x)
  BY <1>1, <1>2 DEF Placing, Steady
<1>4. \A f, u \in Thread : \A e \in 0..Threads : Asked(f, u, e)' <=> Asked(f, u, e)
  BY <1>1, <1>2 DEF Asked, Steady
<1>5. SameTree
  BY <1>1, <1>3, <1>4 DEF SameTree
<1>6. \A v \in Thread : Untouched(v) => Untouched(v)'
  BY <1>1, <1>2 DEF Untouched, Steady
<1>7. QED
  BY <1>0, <1>5, <1>6, TreeSame

\* and receiving one.
LEMMA TreeAtHandler ==
  ASSUME ServicesInv, NEW t \in Thread, Handler(t)
  PROVE  Tree'
<1>0. TypeOK /\ Tree /\ Protocol
  BY DEF ServicesInv, Protocol
<1>1. PICK m \in net : /\ m.to = t /\ net' = net \ {m} /\ Run(t, m.sid, m.idUpper)
                       /\ pc' = [pc EXCEPT ![t] = IF m.sid = "STOP" THEN "ascend" ELSE "descend"]
  BY DEF Handler
<1>2. pc[t] = "handler" /\ UNCHANGED <<pst, pending, step>>
  BY DEF Handler
<1>3. m.sid = Phase /\ step > 0
  BY <1>1, <1>2, CallOf
<1>4. CASE m.sid = "SETADD"
  <2>1. pc' = [pc EXCEPT ![t] = "descend"]
    BY <1>1, <1>4
  <2>2. \E k : TakeStep(t, m.from, m.idUpper, k)
    BY <1>1, <1>4, <2>1, HandlerTakes
  <2>3. QED
    BY <2>2, TreeAtTake
<1>5. CASE m.sid # "SETADD"
  <2>1. step # 1
    BY <1>3, <1>5 DEF Phase
  <2>2. /\ \A x \in Thread : ~ Placing(x)
        /\ \A f, u \in Thread : \A e \in 0..Threads : ~ Asked(f, u, e)
        /\ \A u \in Thread : \A e \in 0..Threads : ~ Bound(u, e)
    BY <1>0, <2>1, TreeWork
  <2>3. sid'[t] # "SETADD" /\ pc'[t] # "request" /\ \A x \in Thread \ {t} : pc'[x] = pc[x] /\ sid'[x] = sid[x]
    BY <1>0, <1>1, <1>5 DEF Run, TypeOK
  <2>4. \A x \in Thread : ~ Placing(x)'
    BY <2>2, <2>3 DEF Placing
  <2>5. \A f, u \in Thread : \A e \in 0..Threads : ~ Asked(f, u, e)'
    <3>1. ASSUME NEW f \in Thread, NEW u \in Thread, NEW e \in 0..Threads, Asked(f, u, e)' PROVE Asked(f, u, e)
      BY <1>1, <1>2, <2>3, <3>1 DEF Asked
    <3>2. QED
      BY <2>2, <3>1
  <2>6. SameTree
    BY <1>2, <2>2, <2>4, <2>5 DEF SameTree
  <2>7. QED
    BY <1>0, <2>2, <2>6, TreeSame
<1>6. QED
  BY <1>4, <1>5

\* Every step keeps the tree.
LEMMA TreeKept ==
  ASSUME ServicesInv, [Next]_vars
  PROVE  Tree'
<1>1. ASSUME NEW t \in Thread, ThreadStep(t) PROVE Tree'
  <2>1. CASE MessageSendRequest(t)
    BY <2>1, TreeAtSend
  <2>2. CASE Handler(t)
    BY <2>2, TreeAtHandler
  <2>3. CASE SetAdd(t)
    BY <2>3, TreeAtSetAdd
  <2>4. CASE SetAddDone(t)
    BY <2>4, TreeAtSetAddDone
  <2>5. CASE Requested(t) \/ GetReply(t) \/ FinishReceiveReply(t) \/ SendReply(t) \/ Replied(t) \/ Recurse(t) \/ Service(t)
    BY <2>5, TreeAtOther
  <2>6. QED
    BY <1>1, <2>1, <2>2, <2>3, <2>4, <2>5 DEF ThreadStep
<1>2. CASE RunService \/ StopNext \/ Finish
  BY <1>2, TreeAtMaster
<1>3. CASE UNCHANGED vars
  <2>1. UNCHANGED <<pc, sid, pst, idUpper, pending, net, step>>
    BY <1>3 DEF vars
  <2>2. SameTree /\ \A v \in Thread : Untouched(v) => Untouched(v)'
    BY <2>1 DEF SameTree, Placing, Asked, Untouched
  <2>3. TypeOK /\ Tree
    BY DEF ServicesInv, Protocol
  <2>4. QED
    BY <2>2, <2>3, TreeSame
<1>4. QED
  BY <1>1, <1>2, <1>3 DEF Next

------------------------------------------------------------------------------
(* Init, the invariant, and what follows from it. *)

\* In the beginning there is nothing but leaves, free slots and threads that wait.
LEMMA InitServices ==
  ASSUME Init
  PROVE  ServicesInv
<1>1. Threads \in Nat \ {0} /\ 0 \in Thread /\ Thread \subseteq Nat
  BY ThreadsAre
<1>2. \A x \in Thread : /\ pc[x] = (IF x = 0 THEN "master" ELSE "handler") /\ sid[x] = "none"
                        /\ pst[x] = <<Leaf>> /\ replies[x] = <<>> /\ Len(pst[x]) = 1 /\ pst[x][1] = Leaf /\ Len(replies[x]) = 0
  <2>1. Len(<<Leaf>>) = 1 /\ <<Leaf>>[1] = Leaf /\ Len(<<>>) = 0
    OBVIOUS
  <2>2. QED
    BY <2>1 DEF Init
<1>3. step = 0 /\ net = {} /\ answers = {}
  BY DEF Init
<1>4. \A p \in Proc : pRequestTargets[p] = [i \in 0..(RingSize(p) - 1) |-> -1] /\ iRequestTarget[p] = 0 /\ RingSize(p) \in Nat \ {0}
  BY RingSizes DEF Init
<1>5. RingsOK
  BY <1>4 DEF Init, RingsOK
<1>6. TypeOK
  <2>1. Leaf \in NodeType
    BY DEF Leaf, NodeType
  <2>2. <<Leaf>> \in Seq(NodeType)
    BY <2>1
  <2>3. pc \in [Thread -> Busy \cup {"master", "handler", "answer", "stopped"}]
    BY DEF Init, Busy
  <2>4. QED
    BY <1>1, <1>5, <2>2, <2>3 DEF Init, TypeOK, Sid
<1>7. \A x \in Thread : Located(x)
  BY <1>2, <1>3 DEF Located, Busy, Asks
<1>8. \A x \in Thread : Sent(x) = 0 /\ ~ Serving(x) /\ ~ Placing(x)
  BY <1>2 DEF Sent, Serving, Busy, Placing
<1>9. Linked /\ Single
  BY <1>3, <1>8 DEF Linked, Single
<1>10. Slots
  <2>1. \A x \in Thread : \A i \in 1..Sent(x) : FALSE
    BY <1>8
  <2>2. ASSUME NEW p \in Proc, NEW k \in Ring(p) PROVE pRequestTargets[p][k] = -1
    <3>1. PICK n \in Nat : n = RingSize(p)
      BY <1>4
    <3>2. pRequestTargets[p] = [i \in 0..(n - 1) |-> -1]
      BY <1>4, <3>1
    <3>3. QED
      BY <2>2, <3>2 DEF Ring
  <2>3. QED
    BY <2>1, <2>2 DEF Slots
<1>11. Begin
  BY <1>2, <1>3 DEF Begin
<1>12. \A x \in Thread : Inner(x) = {}
  <2>1. 1..0 = {}
    OBVIOUS
  <2>2. ASSUME NEW x \in Thread PROVE Inner(x) = 1..0
    <3>1. Inner(x) = 1..(Len(pst[x]) - 1)
      BY DEF Inner
    <3>2. Len(pst[x]) - 1 = 0
      BY <1>2
    <3>3. QED
      BY <3>1, <3>2
  <2>3. QED
    BY <2>1, <2>2
<1>13. \A f, u, e : f \in Thread => ~ Asked(f, u, e)
  BY <1>2, <1>3 DEF Asked
<1>14. \A u \in Thread : \A e \in 0..Threads : ~ Bound(u, e)
  BY <1>8, <1>13 DEF Bound
<1>15. \A x \in Thread : ~ Targeted(x)
  BY <1>12 DEF Targeted
<1>16. \A x \in Thread : Leaves(x, 1) = 1
  BY <1>2, <1>8 DEF Leaves, Leaf
<1>17. Nodes
  <2>1. <<Leaf>> # <<>>
    OBVIOUS
  <2>2. QED
    BY <1>2, <1>3, <1>8, <1>12, <2>1 DEF Nodes
<1>18. OneParent /\ AskedKnown
  BY <1>12, <1>13 DEF OneParent, AskedKnown
<1>19. Claims
  BY <1>3, <1>14 DEF Claims
<1>20. Processes
  <2>1. ASSUME NEW x \in Thread, NEW i \in 1..Len(pst[x]) PROVE x + Leaves(x, i) <= End(x)
    <3>0. Len(pst[x]) = 1
      BY <1>2
    <3>1. i = 1
      BY <2>1, <3>0
    <3>2. x + 1 <= End(x)
      BY <1>1, FirstEnd
    <3>3. QED
      BY <1>16, <3>1, <3>2
  <2>2. QED
    BY <1>3, <1>12, <1>13, <1>14, <1>15, <2>1 DEF Processes
<1>21. ASSUME NEW x \in Thread PROVE Deep(x)
  <2>1. {1, Threads} \subseteq 0..Threads
    BY <1>1
  <2>2. Log2[1] = 0 /\ Log2[Threads] \in Nat
    BY <2>1, RingSizes, Log2Value, Log2Natural
  <2>3. 1 - 1 + Log2[1] <= Log2[Threads]
    BY <2>2
  <2>4. QED
    BY <1>2, <1>16, <2>3 DEF Deep
<1>22. Protocol
  BY <1>6, <1>7, <1>9, <1>10, <1>11 DEF Protocol
<1>23. Tree
  BY <1>17, <1>18, <1>19, <1>20, <1>21 DEF Tree
<1>24. QED
  BY <1>22, <1>23 DEF ServicesInv

\* In every state of every execution the requests, their slots and the tree are as they should be.
THEOREM ServicesInvariant == Spec => []ServicesInv
<1>1. Init => ServicesInv
  BY InitServices
<1>2. ServicesInv /\ [Next]_vars => ServicesInv'
  <2>1. SUFFICES ASSUME ServicesInv, [Next]_vars PROVE Protocol' /\ Tree'
    BY DEF ServicesInv
  <2>2. QED
    BY <2>1, ProtocolKept, TreeKept
<1>3. QED
  BY <1>1, <1>2, PTL DEF Spec

\* The reply with the tag and the process of the last request is the reply to it.
LEMMA RepliesMine == ASSUME ServicesInv PROVE ReplyIsMine
<1>1. SUFFICES ASSUME NEW t \in Thread, pc[t] = "reply", NEW r \in Matching(t)
               PROVE  /\ r.to = t /\ r.sid = sid[t]
                      /\ r.from = (IF sid[t] = "STOP" THEN step - 1 - Traversals ELSE pst[t][Len(replies[t])].idUpper)
  BY DEF ReplyIsMine
<1>2. r.to = t /\ r.sid = sid[t] /\ r.from = Target(t, Sent(t)) /\ Sent(t) = Len(replies[t])
  BY <1>1, MyReply
<1>3. QED
  BY <1>2 DEF Target

\* GetReply(rID) takes the answer to the request rID stands for, and MPI can give it no other.
THEOREM AnswersReachTheirRequests == Spec => []ReplyIsMine
<1>1. ServicesInv => ReplyIsMine
  BY RepliesMine
<1>2. QED
  BY <1>1, ServicesInvariant, PTL

\* Once the tree is there no thread places, and every node is final.
LEMMA TreeBuilt ==
  ASSUME ServicesInv, step >= 2
  PROVE  /\ \A t \in Thread : \A i : Leaves(t, i) = pst[t][i].nLeaves
         /\ \A f, u \in Thread : \A e \in 0..Threads : ~ Asked(f, u, e)
         /\ \A u \in Thread : \A e \in 0..Threads : ~ Bound(u, e)
         /\ \A v \in Thread \ {0} : Targeted(v)
         /\ \A t \in Thread : \A i \in Inner(t) :
              /\ pst[t][i].nLower > 0 /\ pst[t][i].nLower \in Nat /\ pst[t][i].nUpper \in Nat /\ pst[t][i].idUpper \in Thread
              /\ pst[t][i].nLeaves = pst[t][i].nLower + pst[t][i].nUpper /\ pst[t][i].idUpper = t + pst[t][i].nLower
              /\ pst[t][i + 1].nLeaves = pst[t][i].nLower /\ pst[pst[t][i].idUpper][1].nLeaves = pst[t][i].nUpper
<1>1. TypeOK /\ Nodes /\ Claims /\ Protocol
  BY DEF ServicesInv, Protocol, Tree
<1>2. Threads \in Nat /\ Thread \subseteq Nat /\ step \in Nat
  BY <1>1, ThreadsAre DEF TypeOK
<1>3. /\ \A t \in Thread : ~ Placing(t)
      /\ \A f, u \in Thread : \A e \in 0..Threads : ~ Asked(f, u, e)
      /\ \A u \in Thread : \A e \in 0..Threads : ~ Bound(u, e)
  BY <1>1, <1>2, TreeWork
<1>4. \A t \in Thread : \A i : Leaves(t, i) = pst[t][i].nLeaves
  BY <1>3 DEF Leaves
<1>5. \A v \in Thread \ {0} : Targeted(v)
  BY <1>1, <1>2, <1>3 DEF Claims
<1>6. ASSUME NEW t \in Thread, NEW i \in Inner(t)
      PROVE  /\ pst[t][i].nLower > 0 /\ pst[t][i].nLower \in Nat /\ pst[t][i].nUpper \in Nat /\ pst[t][i].idUpper \in Thread
             /\ pst[t][i].nLeaves = pst[t][i].nLower + pst[t][i].nUpper /\ pst[t][i].idUpper = t + pst[t][i].nLower
             /\ pst[t][i + 1].nLeaves = pst[t][i].nLower /\ pst[pst[t][i].idUpper][1].nLeaves = pst[t][i].nUpper
  <2>1. Split(t, i) /\ pst[t][i].nLeaves \in Nat /\ pst[t][i].nLower \in Nat /\ pst[t][i].nUpper \in Nat
    BY <1>1, <1>6, NodeTyped DEF Nodes
  <2>2. PICK e \in 0..Threads : e = t + pst[t][i].nLeaves
    BY <1>2, <2>1 DEF Split
  <2>3. pst[t][i].nLower > 0
    BY <1>3, <2>1, <2>2 DEF Split
  <2>4. ~ Asked(t, pst[t][i].idUpper, e) /\ pst[t][i].idUpper \in Thread
    BY <1>3, <2>1 DEF Split
  <2>5. Leaves(t, i + 1) = pst[t][i].nLower /\ Leaves(pst[t][i].idUpper, 1) = pst[t][i].nUpper
    BY <2>1, <2>2, <2>3, <2>4 DEF Split
  <2>6. pst[t][i].nLeaves = pst[t][i].nLower + pst[t][i].nUpper /\ pst[t][i].idUpper = t + pst[t][i].nLower
    BY <2>1 DEF Split
  <2>7. QED
    BY <1>4, <2>1, <2>3, <2>4, <2>5, <2>6
<1>7. QED
  BY <1>3, <1>4, <1>5, <1>6

\* A node covers what its parts cover, and a process is a node of its first thread and of no other.
LEMMA Followed == ASSUME ServicesInv PROVE TreeFollowsProcesses
<1>1. SUFFICES ASSUME step >= 2
               PROVE  /\ \A t \in Thread : \A i \in 1..(Len(pst[t]) - 1) :
                           Covers(t, i) = Covers(t, i + 1) \cup Covers(pst[t][i].idUpper, 1)
                      /\ \A p \in Proc :
                           {t \in Thread : \E i \in 1..Len(pst[t]) : pst[t][i].nLeaves = Cores[ThreadToProc(t)] /\ ThreadToProc(t) = p}
                             = {ProcToThread[p]}
  BY DEF TreeFollowsProcesses
<1>2. TypeOK /\ Processes
  BY DEF ServicesInv, Protocol, Tree
<1>3. /\ \A t \in Thread : \A i : Leaves(t, i) = pst[t][i].nLeaves
      /\ \A u \in Thread : \A e \in 0..Threads : ~ Bound(u, e)
      /\ \A v \in Thread \ {0} : Targeted(v)
  BY <1>1, TreeBuilt
<1>4. ASSUME NEW t \in Thread, NEW i \in 1..(Len(pst[t]) - 1)
      PROVE  Covers(t, i) = Covers(t, i + 1) \cup Covers(pst[t][i].idUpper, 1)
  <2>1. PICK a \in Nat, b \in Nat, u \in Thread : a = pst[t][i].nLower /\ b = pst[t][i].nUpper /\ u = pst[t][i].idUpper
    BY <1>1, <1>4, TreeBuilt DEF Inner
  <2>2. pst[t][i].nLeaves = a + b /\ u = t + a /\ pst[t][i + 1].nLeaves = a /\ pst[u][1].nLeaves = b
    BY <1>1, <1>4, <2>1, TreeBuilt DEF Inner
  <2>3. t \in Nat
    BY ThreadsAre
  <2>4. Covers(t, i) = t..(t + (a + b) - 1) /\ Covers(t, i + 1) = t..(t + a - 1) /\ Covers(u, 1) = (t + a)..(t + a + b - 1)
    BY <2>2 DEF Covers
  <2>5. t..(t + (a + b) - 1) = (t..(t + a - 1)) \cup ((t + a)..(t + a + b - 1))
    BY <2>3
  <2>6. QED
    BY <2>1, <2>4, <2>5
<1>5. ASSUME NEW p \in Proc
      PROVE  {t \in Thread : \E i \in 1..Len(pst[t]) : pst[t][i].nLeaves = Cores[ThreadToProc(t)] /\ ThreadToProc(t) = p}
               = {ProcToThread[p]}
  <2>1. PICK x \in Thread : x = ProcToThread[p] /\ ThreadToProc(x) = p
    BY ProcessOf
  <2>2. x = First(x)
    BY <2>1 DEF First
  <2>3. \E i \in 1..Len(pst[x]) : pst[x][i].nLeaves = Cores[ThreadToProc(x)]
    <3>1. Whole(x)
      BY <1>1, <1>2, <1>3, <2>2 DEF Processes, TypeOK
    <3>2. QED
      BY <1>3, <3>1 DEF Whole
  <2>4. ASSUME NEW t \in Thread, NEW i \in 1..Len(pst[t]), pst[t][i].nLeaves = Cores[ThreadToProc(t)], ThreadToProc(t) = p
        PROVE  t = x
    <3>1. First(t) = x
      BY <2>1, <2>4 DEF First
    <3>2. SUFFICES ASSUME t # First(t) PROVE FALSE
      BY <3>1
    <3>3. t + Cores[ThreadToProc(t)] <= End(t)
      BY <1>2, <1>3, <2>4, <3>2 DEF Processes
    <3>4. First(t) \in Nat
      BY FirstEnd, ThreadsAre
    <3>5. QED
      BY <3>2, <3>3, <3>4, FirstEnd
  <2>5. QED
    BY <2>1, <2>3, <2>4
<1>6. QED
  BY <1>4, <1>5

\* Once the tree is there, both parts of a node cover what the node covers, and pstAmNode and pstOffNode tell the nodes that are processes from all others.
THEOREM TreeIsFollowed == Spec => []TreeFollowsProcesses
<1>1. ServicesInv => TreeFollowsProcesses
  BY Followed
<1>2. QED
  BY <1>1, ServicesInvariant, PTL

------------------------------------------------------------------------------
(* The ring has room. *)

\* A request of a process among those it can have outstanding: the first thread has one
\* for each of its nodes at most, the others one to each of the other threads of it.
Place(u, i) == IF u = First(u) THEN i ELSE Log2[Threads] + (Target(u, i) - First(u))

\* The place is below the number of slots.
LEMMA RequestPlace ==
  ASSUME ServicesInv, NEW u \in Thread, NEW i \in 1..Sent(u), sid[u] # "STOP"
  PROVE  /\ Place(u, i) \in 1..(Log2[Threads] + Cores[ThreadToProc(u)] - 1)
         /\ i \in Inner(u) /\ Target(u, i) = pst[u][i].idUpper /\ Target(u, i) \in Thread /\ i \in Nat
         /\ u = First(u) => Place(u, i) = i /\ i <= Log2[Threads]
         /\ u # First(u) => Place(u, i) = Log2[Threads] + (Target(u, i) - First(u)) /\ Target(u, i) > First(u) /\ pst[u][i].nLower > 0
<1>1. TypeOK /\ Located(u) /\ Nodes /\ Processes /\ Deep(u)
  BY DEF ServicesInv, Protocol, Tree
<1>2. i \in Inner(u) /\ Target(u, i) = pst[u][i].idUpper
  <2>1. i \in 1..Out(u)
    BY <1>1, OutFacts
  <2>2. QED
    BY <1>1, <2>1, RequestIsNode
<1>3. Split(u, i) /\ i \in 1..Len(pst[u]) /\ Len(pst[u]) \in Nat /\ Leaves(u, i) = pst[u][i].nLeaves
  BY <1>1, <1>2, NodeTyped DEF Nodes
<1>4. PICK a \in Nat, b \in Nat, n \in Nat, x \in Thread :
        a = pst[u][i].nLower /\ b = pst[u][i].nUpper /\ n = pst[u][i].nLeaves /\ x = pst[u][i].idUpper
  BY <1>1, <1>2, <1>3, NodeTyped DEF Split
<1>5. n >= 2 /\ a + b = n /\ x = u + a /\ 2 * a <= n
  BY <1>3, <1>4 DEF Split
<1>6. PICK g \in Nat, c \in Nat \ {0}, e \in Nat : g = First(u) /\ c = Cores[ThreadToProc(u)] /\ e = End(u)
  BY FirstEnd, ThreadsAre
<1>7. g <= u /\ e = g + c /\ u \in Nat
  BY <1>6, FirstEnd
<1>8. PICK h \in Nat : h = Log2[Threads]
  BY <1>6, RingSizes, ProcessOf
<1>9. CASE u = g
  <2>1. Len(pst[u]) - 1 <= h
    <3>1. pst[u][Len(pst[u])] = Leaf /\ (Placing(u) => idUpper[u] >= u) /\ idUpper[u] \in 0..Threads
      BY <1>1, TypedThread DEF Nodes
    <3>2. Leaves(u, Len(pst[u])) \in 0..Threads
      <4>1. CASE Placing(u)
        BY <1>7, <3>1, <4>1, ThreadsAre DEF Leaves
      <4>2. CASE ~ Placing(u)
        BY <3>1, <4>2, ThreadsAre DEF Leaves, Leaf
      <4>3. QED
        BY <4>1, <4>2
    <3>3. PICK d \in Nat : d = Log2[Leaves(u, Len(pst[u]))]
      BY <3>2, RingSizes, Log2Natural
    <3>4. Len(pst[u]) - 1 + d <= h
      BY <1>1, <1>8, <3>3 DEF Deep
    <3>5. QED
      BY <1>3, <3>4
  <2>2. i \in 1..(Len(pst[u]) - 1)
    BY <1>2 DEF Inner
  <2>3. i \in 1..(h + c - 1) /\ i <= h /\ i \in Nat
    BY <1>3, <2>1, <2>2
  <2>4. QED
    BY <1>2, <1>4, <1>6, <1>8, <1>9, <2>3 DEF Place
<1>10. CASE u # g
  <2>1. a > 0
    BY <1>1, <1>2, <1>4, <1>6, <1>10 DEF Processes
  <2>2. u + n <= e
    BY <1>1, <1>3, <1>4, <1>6, <1>10 DEF Processes
  <2>3. x - g \in 1..(c - 1)
    BY <1>5, <1>7, <2>1, <2>2
  <2>4. h + (x - g) \in 1..(h + c - 1) /\ x > g /\ i \in Nat
    BY <1>3, <1>7, <2>1, <2>3, <1>5
  <2>5. Place(u, i) = h + (x - g)
    BY <1>2, <1>4, <1>6, <1>8, <1>10 DEF Place
  <2>6. QED
    BY <1>2, <1>4, <1>6, <1>8, <1>10, <2>1, <2>4, <2>5
<1>11. QED
  BY <1>9, <1>10

\* Two requests of a process in the same place are one.
LEMMA PlaceOfOne ==
  ASSUME ServicesInv, NEW u \in Thread, NEW v \in Thread, ThreadToProc(u) = ThreadToProc(v),
         NEW i \in 1..Sent(u), NEW j \in 1..Sent(v), sid[u] # "STOP", sid[v] # "STOP", Place(u, i) = Place(v, j)
  PROVE  u = v /\ i = j
<1>1. First(u) = First(v)
  BY DEF First
<1>2. First(u) \in Nat /\ Thread \subseteq Nat /\ Log2[Threads] \in Nat
  BY FirstEnd, ThreadsAre, RingSizes, ProcessOf
<1>3. i \in Inner(u) /\ j \in Inner(v) /\ Target(u, i) = pst[u][i].idUpper /\ Target(v, j) = pst[v][j].idUpper
  BY RequestPlace
<1>4. Target(u, i) \in Nat /\ Target(v, j) \in Nat /\ i \in Nat /\ j \in Nat
  BY <1>2, RequestPlace
<1>5. CASE u = First(u) /\ v = First(v)
  BY <1>1, <1>5, RequestPlace
<1>6. CASE u = First(u) /\ v # First(v)
  BY <1>2, <1>4, <1>6, <1>1, RequestPlace
<1>7. CASE u # First(u) /\ v = First(v)
  BY <1>2, <1>4, <1>7, <1>1, RequestPlace
<1>8. CASE u # First(u) /\ v # First(v)
  <2>1. Target(u, i) = Target(v, j)
    BY <1>1, <1>2, <1>4, <1>8, RequestPlace
  <2>2. pst[u][i].nLower > 0 /\ pst[v][j].nLower > 0
    BY <1>8, RequestPlace
  <2>3. QED
    BY <1>3, <2>1, <2>2 DEF ServicesInv, Tree, OneParent
<1>9. QED
  BY <1>5, <1>6, <1>7, <1>8

\* If every slot had a request, two of them would have one place.
LEMMA RoomForRequest == ASSUME ServicesInv PROVE RingHasRoom
<1>1. SUFFICES ASSUME NEW t \in Thread, pc[t] = "request",
                      \A k \in Ring(ThreadToProc(t)) : pRequestTargets[ThreadToProc(t)][k] # -1
               PROVE  FALSE
  BY DEF RingHasRoom
<1>2. TypeOK /\ Slots /\ (\A u \in Thread : Located(u)) /\ ThreadToProc(t) \in Proc
  BY ProcessOf DEF ServicesInv, Protocol
<1>3. PICK p \in Proc : p = ThreadToProc(t)
  BY <1>2
<1>4. PICK n \in Nat \ {0}, h \in Nat, c \in Nat \ {0} : n = RingSize(p) /\ h = Log2[Threads] /\ c = Cores[p] /\ n >= h + c
  BY RingSizes, ProcessOf
<1>5. Ring(p) = 0..(n - 1)
  <2>1. pRequestTargets[p] \in [0..(n - 1) -> Proc \cup {-1}]
    BY <1>2, <1>4 DEF TypeOK, RingsOK
  <2>2. QED
    BY <2>1 DEF Ring
<1>6. \A k \in 0..(n - 1) : \E u \in Thread : ThreadToProc(u) = p /\ \E i \in 1..Sent(u) : Tag(u, i) = k
  <2>1. \A k \in Ring(p) : pRequestTargets[p][k] # -1
    BY <1>1, <1>3
  <2>2. \A k \in Ring(p) : \E u \in Thread : ThreadToProc(u) = p /\ \E i \in 1..Sent(u) : Tag(u, i) = k
    BY <1>2, <2>1 DEF Slots
  <2>3. QED
    BY <1>5, <2>2
<1>7. \A u \in Thread : \A i \in 1..Sent(u) : sid[u] = sid[t]
  <2>1. ASSUME NEW u \in Thread, NEW i \in 1..Sent(u) PROVE sid[u] = sid[t]
    <3>1. Out(u) > 0
      BY <1>2, <2>1, OutFacts
    <3>2. pc[u] \in Busy
      BY <1>2, <3>1, SentWhenBusy
    <3>3. pc[t] \in Busy
      BY <1>1 DEF Busy
    <3>4. QED
      BY <1>2, <3>2, <3>3 DEF Located
  <2>2. QED
    BY <2>1
<1>8. sid[t] # "STOP"
  <2>1. SUFFICES ASSUME sid[t] = "STOP" PROVE FALSE
    OBVIOUS
  <2>2. pc[t] \in Busy /\ pc[t] \in Asks
    BY <1>1 DEF Busy, Asks
  <2>3. t = 0 /\ Out(t) = 1
    BY <1>2, <2>1, <2>2 DEF Located
  <2>4. Sent(t) = 0
    BY <1>1, <1>2, <2>3, OutFacts
  <2>5. PICK u \in Thread : \E i \in 1..Sent(u) : Tag(u, i) = 0
    <3>1. 0 \in 0..(n - 1)
      OBVIOUS
    <3>2. QED
      BY <1>6, <3>1
  <2>6. u # t /\ Out(u) > 0
    BY <1>2, <2>4, <2>5, OutFacts
  <2>7. pc[u] \in Busy
    BY <1>2, <2>6, SentWhenBusy
  <2>8. QED
    BY <1>2, <1>7, <2>1, <2>3, <2>5, <2>6, <2>7 DEF Located
<1>9. \A k \in 0..(n - 1) : \E u \in Thread : \E i \in 1..Sent(u) :
        ThreadToProc(u) = p /\ Tag(u, i) = k /\ Place(u, i) \in 1..(h + c - 1)
  <2>1. ASSUME NEW k \in 0..(n - 1)
        PROVE  \E u \in Thread : \E i \in 1..Sent(u) :
                 ThreadToProc(u) = p /\ Tag(u, i) = k /\ Place(u, i) \in 1..(h + c - 1)
    <3>1. PICK u \in Thread : ThreadToProc(u) = p /\ \E i \in 1..Sent(u) : Tag(u, i) = k
      BY <1>6
    <3>2. PICK i \in 1..Sent(u) : Tag(u, i) = k
      BY <3>1
    <3>3. sid[u] # "STOP"
      BY <1>7, <1>8
    <3>4. Place(u, i) \in 1..(Log2[Threads] + Cores[ThreadToProc(u)] - 1)
      BY <3>3, RequestPlace
    <3>5. QED
      BY <1>4, <3>1, <3>2, <3>4
  <2>2. QED
    BY <2>1
<1> DEFINE At(k, x) == \E u \in Thread : \E i \in 1..Sent(u) : ThreadToProc(u) = p /\ Tag(u, i) = k /\ Place(u, i) = x
           f == [k \in 0..(n - 1) |-> CHOOSE x \in 1..(h + c - 1) : At(k, x)]
<1>10. \A k \in 0..(n - 1) : \E x \in 1..(h + c - 1) : At(k, x)
  BY <1>9
<1>11. \A k \in 0..(n - 1) : f[k] \in 1..(h + c - 1) /\ At(k, f[k])
  <2> HIDE DEF At
  <2>1. QED
    BY <1>10
<1>12. f \in [0..(n - 1) -> 1..(h + c - 1)]
  <2>1. f = [k \in 0..(n - 1) |-> f[k]]
    OBVIOUS
  <2> HIDE DEF f
  <2>2. QED
    BY <1>11, <2>1
<1>13. PICK j \in 0..(n - 1), k \in 0..(n - 1) : j # k /\ f[j] = f[k]
  <2> HIDE DEF f
  <2>1. IsFiniteSet(0..(n - 1)) /\ Cardinality(0..(n - 1)) = n
    <3>1. 0 \in Int /\ n - 1 \in Int /\ ~ (0 > n - 1) /\ (n - 1) - 0 + 1 = n
      OBVIOUS
    <3>2. QED
      BY <3>1, FS_Interval
  <2>2. IsFiniteSet(1..(h + c - 1)) /\ Cardinality(1..(h + c - 1)) = h + c - 1
    <3>1. 1 \in Int /\ h + c - 1 \in Int /\ (1 > h + c - 1 => h + c - 1 = 0) /\ (h + c - 1) - 1 + 1 = h + c - 1
      OBVIOUS
    <3>2. QED
      BY <3>1, FS_Interval
  <2>3. Cardinality(1..(h + c - 1)) < Cardinality(0..(n - 1))
    BY <1>4, <2>1, <2>2
  <2>4. PICK X, Y : X = 0..(n - 1) /\ Y = 1..(h + c - 1)
    OBVIOUS
  <2>5. IsFiniteSet(X) /\ IsFiniteSet(Y) /\ Cardinality(Y) < Cardinality(X) /\ f \in [X -> Y]
    BY <1>12, <2>1, <2>2, <2>3, <2>4
  <2>6. \E x, y \in X : x # y /\ f[x] = f[y]
    BY <2>5, FS_PigeonHole
  <2>7. QED
    BY <2>4, <2>6
<1>14. PICK u \in Thread : \E i \in 1..Sent(u) : ThreadToProc(u) = p /\ Tag(u, i) = j /\ Place(u, i) = f[j]
  BY <1>11
<1>15. PICK i \in 1..Sent(u) : ThreadToProc(u) = p /\ Tag(u, i) = j /\ Place(u, i) = f[j]
  BY <1>14
<1>16. PICK v \in Thread : \E l \in 1..Sent(v) : ThreadToProc(v) = p /\ Tag(v, l) = k /\ Place(v, l) = f[k]
  BY <1>11
<1>17. PICK l \in 1..Sent(v) : ThreadToProc(v) = p /\ Tag(v, l) = k /\ Place(v, l) = f[k]
  BY <1>16
<1> HIDE DEF f, At
<1>18. u = v /\ i = l
  BY <1>7, <1>8, <1>13, <1>15, <1>17, PlaceOfOne
<1>19. QED
  BY <1>13, <1>15, <1>17, <1>18

\* The assertion of MessageSendRequest holds: whatever the threads of a process have outstanding, the next request finds a slot.
THEOREM RingsNeverFull == Spec => []RingHasRoom
<1>1. ServicesInv => RingHasRoom
  BY RoomForRequest
<1>2. QED
  BY <1>1, ServicesInvariant, PTL

------------------------------------------------------------------------------
(* What a service has still to count. *)

\* A service runs through the tree.
Counting == 2 <= step /\ step <= Traversals + 1

\* A thread goes down its nodes, or a request to it is on its way.
Walks(t) == pc[t] \in {"descend", "request", "sending"}
Called(u) == (\E m \in net : m.to = u) \/ \E t \in Thread : pc[t] = "request" /\ pending[t].to = u

\* The threads the service will still run on through t.
Left(t) == IF Walks(t) THEN Covers(t, level[t]) ELSE IF Called(t) THEN Covers(t, 1) ELSE {}

\* Every thread is left to one at most, and has been served if it is left to none.
Apart ==
  /\ \A t \in Thread : ~ (Walks(t) /\ Called(t))
  /\ \A t, u \in Thread : t # u => Left(t) \cap Left(u) = {}

Served == \A v \in Thread : served[v] = IF \E t \in Thread : v \in Left(t) THEN step - 2 ELSE step - 1

\* What comes back is the number of threads below the node it comes from.
Sums ==
  /\ \A t \in Thread : pc[t] \in {"ascend", "reply"} => vout[t] = pst[t][level[t]].nLeaves
  /\ \A r \in answers : r.vout = pst[r.from][1].nLeaves

Count == (Counting => Apart /\ Served /\ Sums) /\ (step <= 1 => \A v \in Thread : served[v] = 0)

\* A node has a leaf at least, the thread itself.
LEMMA NodeCounts ==
  ASSUME ServicesInv, step >= 2, NEW t \in Thread
  PROVE  /\ Len(pst[t]) \in Nat \ {0} /\ pst[t][Len(pst[t])] = Leaf /\ t \in Nat
         /\ \A i \in 1..Len(pst[t]) : pst[t][i].nLeaves \in Nat \ {0} /\ t \in Covers(t, i)
<1>1. TypeOK /\ Nodes
  BY DEF ServicesInv, Protocol, Tree
<1>2. /\ Len(pst[t]) \in Nat \ {0} /\ pst[t][Len(pst[t])] = Leaf /\ t \in Nat
      /\ \A i \in 1..Len(pst[t]) : i \in Inner(t) \/ i = Len(pst[t])
  BY <1>1, NodesExist, ThreadsAre
<1>3. ASSUME NEW i \in 1..Len(pst[t]) PROVE pst[t][i].nLeaves \in Nat \ {0} /\ t \in Covers(t, i)
  <2>1. pst[t][i].nLeaves \in Nat \ {0}
    <3>1. CASE i \in Inner(t)
      <4>1. PICK a \in Nat, b \in Nat : a = pst[t][i].nLower /\ b = pst[t][i].nUpper /\ a > 0 /\ pst[t][i].nLeaves = a + b
        BY <3>1, TreeBuilt
      <4>2. a + b \in Nat \ {0}
        BY <4>1
      <4>3. QED
        BY <4>1, <4>2
    <3>2. CASE i = Len(pst[t])
      BY <1>2, <3>2 DEF Leaf
    <3>3. QED
      BY <1>2, <3>1, <3>2
  <2>2. PICK n \in Nat \ {0} : n = pst[t][i].nLeaves
    BY <2>1
  <2>3. QED
    BY <1>2, <2>1, <2>2 DEF Covers
<1>4. QED
  BY <1>2, <1>3

\* The parts of a node cover what it covers, and no thread is in both.
LEMMA CoversSplit ==
  ASSUME ServicesInv, step >= 2, NEW t \in Thread, NEW i \in Inner(t), NEW u, u = pst[t][i].idUpper
  PROVE  /\ u \in Thread /\ u # t /\ i + 1 \in 1..Len(pst[t]) /\ i \in 1..Len(pst[t])
         /\ Covers(t, i) = Covers(t, i + 1) \cup Covers(u, 1) /\ Covers(t, i + 1) \cap Covers(u, 1) = {}
         /\ u \in Covers(t, i) /\ u \in Covers(u, 1) /\ t \in Covers(t, i + 1) /\ t \in Covers(t, i)
<1>1. PICK a \in Nat, b \in Nat : a = pst[t][i].nLower /\ b = pst[t][i].nUpper /\ a > 0
  BY TreeBuilt
<1>2. /\ pst[t][i].nLeaves = a + b /\ u = t + a /\ pst[t][i + 1].nLeaves = a /\ pst[u][1].nLeaves = b /\ u \in Thread
  BY <1>1, TreeBuilt
<1>3. t \in Nat /\ u \in Nat
  BY <1>2, ThreadsAre
<1>4. i \in 1..Len(pst[t]) /\ i + 1 \in 1..Len(pst[t])
  BY NodeTyped DEF ServicesInv, Protocol
<1>5. b > 0
  <2>1. Len(pst[u]) \in Nat \ {0} /\ \A j \in 1..Len(pst[u]) : pst[u][j].nLeaves \in Nat \ {0}
    BY <1>2, NodeCounts
  <2>2. 1 \in 1..Len(pst[u])
    BY <2>1
  <2>3. QED
    BY <1>2, <2>1, <2>2
<1>6. Covers(t, i) = t..(t + (a + b) - 1) /\ Covers(t, i + 1) = t..(t + a - 1) /\ Covers(u, 1) = (t + a)..(t + a + b - 1)
  BY <1>2 DEF Covers
<1>7. /\ t..(t + (a + b) - 1) = (t..(t + a - 1)) \cup ((t + a)..(t + a + b - 1))
      /\ (t..(t + a - 1)) \cap ((t + a)..(t + a + b - 1)) = {}
      /\ t + a \in t..(t + (a + b) - 1) /\ t + a \in (t + a)..(t + a + b - 1) /\ t \in t..(t + a - 1) /\ t \in t..(t + (a + b) - 1)
      /\ t + a # t
  BY <1>1, <1>3, <1>5
<1>8. QED
  BY <1>2, <1>4, <1>6, <1>7

\* A thread that runs the service is at a node of its own, below those it waits for.
LEMMA WalkerLevel ==
  ASSUME ServicesInv, Counting, NEW t \in Thread, pc[t] \in Busy
  PROVE  /\ sid[t] = "COUNT" /\ level[t] \in 1..Len(pst[t]) /\ Out(t) = level[t] - 1 /\ step \in Nat /\ step >= 2
         /\ Len(pst[t]) \in Nat /\ Out(t) \in Nat
<1>1. TypeOK /\ Located(t) /\ step \in Nat /\ Traversals \in Nat
  BY ThreadsAre DEF ServicesInv, Protocol, TypeOK
<1>2. sid[t] = "COUNT"
  BY <1>1 DEF Located, Counting, Phase
<1>3. QED
  BY <1>1, <1>2, TypedThread, OutFacts DEF Located, Counting

\* A thread is asked once: it is below one node, and the node's request has one tag.
LEMMA AskedOnce ==
  ASSUME ServicesInv, Counting
  PROVE  /\ \A m, n \in net : m.to = n.to => m = n
         /\ \A m \in net : \A f \in Thread : pc[f] = "request" => pending[f].to # m.to
<1>1. TypeOK /\ Linked /\ Single /\ OneParent /\ (\A u \in Thread : Located(u)) /\ step >= 2
  BY DEF ServicesInv, Protocol, Tree, Counting
<1>2. ASSUME NEW f \in Thread, NEW i \in 1..Out(f)
      PROVE  i \in Inner(f) /\ Target(f, i) = pst[f][i].idUpper /\ pst[f][i].nLower > 0
  <2>1. pc[f] \in Busy
    BY <1>1, <1>2, OutFacts, SentWhenBusy
  <2>2. sid[f] # "STOP"
    BY <2>1, WalkerLevel
  <2>3. i \in Inner(f) /\ Target(f, i) = pst[f][i].idUpper
    BY <1>1, <2>2, RequestIsNode
  <2>4. QED
    BY <1>1, <2>3, TreeBuilt
<1>3. ASSUME NEW m \in net, NEW f \in Thread, NEW i \in 1..Out(f), Target(f, i) = m.to
      PROVE  m.from = f /\ i \in 1..Sent(f) /\ Tag(f, i) = m.tag
  <2>1. Belongs(m.from, m.tag, m.to, m.sid)
    BY <1>1 DEF Linked
  <2>2. PICK g \in Thread : g = m.from
    BY <2>1 DEF Belongs
  <2>3. PICK j \in 1..Sent(g) : Tag(g, j) = m.tag /\ Target(g, j) = m.to
    BY <2>1, <2>2 DEF Belongs
  <2>4. j \in 1..Out(g)
    BY <1>1, OutFacts
  <2>5. j \in Inner(g) /\ Target(g, j) = pst[g][j].idUpper /\ pst[g][j].nLower > 0
    BY <1>2, <2>4
  <2>6. i \in Inner(f) /\ Target(f, i) = pst[f][i].idUpper /\ pst[f][i].nLower > 0
    BY <1>2
  <2>7. f = g /\ i = j
    BY <1>1, <1>3, <2>3, <2>5, <2>6 DEF OneParent
  <2>8. QED
    BY <2>2, <2>3, <2>7
<1>4. ASSUME NEW m \in net, NEW n \in net, m.to = n.to PROVE m = n
  <2>1. Belongs(n.from, n.tag, n.to, n.sid)
    BY <1>1 DEF Linked
  <2>2. PICK g \in Thread : g = n.from
    BY <2>1 DEF Belongs
  <2>3. PICK j \in 1..Sent(g) : Tag(g, j) = n.tag /\ Target(g, j) = n.to
    BY <2>1, <2>2 DEF Belongs
  <2>4. j \in 1..Out(g)
    BY <1>1, OutFacts
  <2>5. m.from = n.from /\ m.tag = n.tag
    BY <1>3, <1>4, <2>2, <2>3, <2>4
  <2>6. QED
    BY <1>1, <2>5 DEF Single
<1>5. ASSUME NEW m \in net, NEW f \in Thread, pc[f] = "request", pending[f].to = m.to PROVE FALSE
  <2>1. pc[f] \in Asks
    BY <1>5 DEF Asks
  <2>2. Out(f) = Sent(f) + 1 /\ Sent(f) \in Nat /\ Out(f) \in Nat
    BY <1>1, <1>5, OutFacts
  <2>3. Target(f, Out(f)) = m.to /\ Out(f) \in 1..Out(f)
    BY <1>1, <1>5, <2>1, <2>2 DEF Located
  <2>4. Out(f) \in 1..Sent(f)
    BY <1>3, <2>3
  <2>5. QED
    BY <2>2, <2>4
<1>6. QED
  BY <1>4, <1>5

------------------------------------------------------------------------------
(* The count: steps that hand nothing on. *)

\* Who goes down and who is called does not change.
Unmoved ==
  /\ pst' = pst
  /\ \A u \in Thread : (Walks(u)' <=> Walks(u)) /\ (Called(u)' <=> Called(u)) /\ (Walks(u) => level'[u] = level[u])

\* Then the same threads are left to each,
LEMMA LeftSame == ASSUME Unmoved PROVE \A u \in Thread : Left(u)' = Left(u)
<1>1. SUFFICES ASSUME NEW u \in Thread PROVE Left(u)' = Left(u)
  OBVIOUS
<1>2. (Walks(u)' <=> Walks(u)) /\ (Called(u)' <=> Called(u)) /\ (Walks(u) => level'[u] = level[u]) /\ pst' = pst
  BY DEF Unmoved
<1>3. CASE Walks(u)
  <2>1. Left(u) = u..(u + pst[u][level[u]].nLeaves - 1)
    BY <1>3 DEF Left, Covers
  <2>2. Left(u)' = u..(u + pst'[u][level'[u]].nLeaves - 1)
    BY <1>2, <1>3 DEF Left, Covers
  <2>3. QED
    BY <1>2, <1>3, <2>1, <2>2
<1>4. CASE ~ Walks(u)
  BY <1>2, <1>4 DEF Left, Covers
<1>5. QED
  BY <1>3, <1>4

\* and the count stands.
LEMMA CountUnmoved ==
  ASSUME TypeOK, Counting, Count, Unmoved, served' = served, step' = step, Sums'
  PROVE  Count'
<1>1. Apart /\ Served /\ step >= 2 /\ ~ (step <= 1)
  <2>1. step \in Nat /\ step >= 2
    BY DEF TypeOK, Counting
  <2>2. QED
    BY <2>1 DEF Count
<1>2. \A u \in Thread : Left(u)' = Left(u)
  BY LeftSame
<1>3. Apart'
  BY <1>1, <1>2 DEF Apart, Unmoved
<1>4. Served'
  BY <1>1, <1>2 DEF Served
<1>5. QED
  BY <1>1, <1>3, <1>4 DEF Count

\* A step that neither makes nor takes a request leaves the called as they are.
LEMMA CalledSame ==
  ASSUME TypeOK, NEW t \in Thread, ThreadStep(t), net' = net, pc[t] # "request", pc'[t] # "request"
  PROVE  \A u : Called(u)' <=> Called(u)
<1>1. \A f \in Thread \ {t} : pc'[f] = pc[f] /\ pending'[f] = pending[f]
  BY OthersSteady DEF Steady
<1>2. ASSUME NEW f \in Thread, NEW u PROVE (pc'[f] = "request" /\ pending'[f].to = u) <=> (pc[f] = "request" /\ pending[f].to = u)
  BY <1>1
<1>3. QED
  BY <1>2 DEF Called

\* A request on its way calls whom it called before.
LEMMA CountAtSend ==
  ASSUME ServicesInv, Counting, Count, NEW t \in Thread, MessageSendRequest(t)
  PROVE  Count'
<1>1. TypeOK /\ ThreadStep(t)
  BY DEF ServicesInv, Protocol, ThreadStep
<1>2. \A f \in Thread \ {t} : Steady(f)
  BY <1>1, OthersSteady
<1>3. PICK m : net' = net \cup {m} /\ m.to = pending[t].to
  BY SendTyped DEF MessageSendRequest
<1>4. pc[t] = "request" /\ pc'[t] = "sending"
  BY <1>1 DEF MessageSendRequest, TypeOK
<1>5. ASSUME NEW u PROVE Called(u)' <=> Called(u)
  <2>1. Called(u) <=> (\E n \in net : n.to = u) \/ (\E f \in Thread \ {t} : pc[f] = "request" /\ pending[f].to = u) \/ pending[t].to = u
    BY <1>4 DEF Called
  <2>2. Called(u)' <=> (\E n \in net' : n.to = u) \/ (\E f \in Thread \ {t} : pc'[f] = "request" /\ pending'[f].to = u)
    BY <1>4 DEF Called
  <2>3. \A f \in Thread \ {t} : pc'[f] = pc[f] /\ pending'[f] = pending[f]
    BY <1>2 DEF Steady
  <2>4. (\E n \in net' : n.to = u) <=> (\E n \in net : n.to = u) \/ pending[t].to = u
    BY <1>3
  <2>5. (\E f \in Thread \ {t} : pc'[f] = "request" /\ pending'[f].to = u) <=> (\E f \in Thread \ {t} : pc[f] = "request" /\ pending[f].to = u)
    BY <2>3
  <2>6. QED
    BY <2>1, <2>2, <2>4, <2>5
<1>6. Unmoved
  BY <1>2, <1>4, <1>5 DEF Unmoved, Walks, Steady, MessageSendRequest
<1>7. Sums'
  BY <1>2, <1>4 DEF Count, Sums, Steady, MessageSendRequest
<1>8. QED
  BY <1>1, <1>6, <1>7, CountUnmoved DEF MessageSendRequest

\* The thread has counted its lower part, the reply the upper one: together its node.
LEMMA CountAtReply ==
  ASSUME ServicesInv, Counting, Count, NEW t \in Thread, FinishReceiveReply(t)
  PROVE  Count'
<1>1. TypeOK /\ ThreadStep(t) /\ step >= 2
  BY DEF ServicesInv, Protocol, ThreadStep, Counting
<1>2. \A f \in Thread \ {t} : Steady(f)
  BY <1>1, OthersSteady
<1>3. pc[t] = "reply" /\ pc'[t] = "ascend" /\ net' = net /\ pst' = pst /\ served' = served /\ step' = step
  BY <1>1 DEF FinishReceiveReply, TypeOK
<1>4. PICK r \in Matching(t) : answers' = answers \ {r} /\ vout' = [vout EXCEPT ![t] = vout[t] + r.vout]
  BY DEF FinishReceiveReply, Combine
<1>5. r \in answers /\ r.from = Target(t, Sent(t)) /\ Sent(t) = Len(replies[t]) /\ Sent(t) >= 1 /\ Sent(t) \in Nat
  BY <1>3, <1>4, MyReply DEF Matching
<1>6. pc[t] \in Busy /\ Out(t) = Sent(t)
  BY <1>1, <1>3, OutFacts DEF Busy
<1>7. sid[t] = "COUNT" /\ level[t] \in 1..Len(pst[t]) /\ Sent(t) = level[t] - 1 /\ Len(pst[t]) \in Nat
  BY <1>6, WalkerLevel
<1>8. PICK i \in Inner(t) : i = Sent(t) /\ level[t] = i + 1
  BY <1>5, <1>7 DEF Inner
<1>9. r.from = pst[t][i].idUpper
  BY <1>5, <1>7, <1>8 DEF Target
<1>10. vout[t] = pst[t][i + 1].nLeaves /\ r.vout = pst[pst[t][i].idUpper][1].nLeaves
  BY <1>3, <1>5, <1>8, <1>9 DEF Count, Sums
<1>11. PICK a \in Nat, b \in Nat : a = pst[t][i].nLower /\ b = pst[t][i].nUpper /\ pst[t][i].nLeaves = a + b
  BY <1>1, TreeBuilt
<1>12. vout[t] + r.vout = pst[t][i].nLeaves
  BY <1>1, <1>10, <1>11, TreeBuilt
<1>13. vout'[t] = pst[t][i].nLeaves /\ level'[t] = i
  <2>1. level'[t] = level[t] - 1
    BY <1>1, <1>5, <1>7, <1>8 DEF FinishReceiveReply, TypeOK
  <2>2. vout'[t] = vout[t] + r.vout
    BY <1>1, <1>4 DEF TypeOK
  <2>3. QED
    BY <1>5, <1>8, <1>12, <2>1, <2>2
<1>14. Sums'
  <2>1. \A u \in Thread : pc'[u] \in {"ascend", "reply"} => vout'[u] = pst'[u][level'[u]].nLeaves
    BY <1>2, <1>3, <1>13 DEF Count, Sums, Steady
  <2>2. \A q \in answers' : q.vout = pst'[q.from][1].nLeaves
    BY <1>3, <1>4 DEF Count, Sums
  <2>3. QED
    BY <2>1, <2>2 DEF Sums
<1>15. Unmoved
  BY <1>1, <1>2, <1>3, CalledSame DEF Unmoved, Walks, Steady
<1>16. QED
  BY <1>1, <1>3, <1>14, <1>15, CountUnmoved

\* A thread answers for its top node,
LEMMA CountAtSendReply ==
  ASSUME ServicesInv, Counting, Count, NEW t \in Thread, SendReply(t)
  PROVE  Count'
<1>1. TypeOK /\ ThreadStep(t) /\ step >= 2
  BY DEF ServicesInv, Protocol, ThreadStep, Counting
<1>2. \A f \in Thread \ {t} : Steady(f)
  BY <1>1, OthersSteady
<1>3. /\ pc[t] = "ascend" /\ pc'[t] = "answer" /\ net' = net /\ pst' = pst /\ served' = served /\ step' = step
      /\ vout' = vout /\ level' = level /\ replies[t] = <<>>
  BY <1>1 DEF SendReply, TypeOK
<1>4. PICK q : answers' = answers \cup {q} /\ q.from = t /\ q.vout = vout[t]
  <2> DEFINE a == [from |-> t, to |-> caller[t].from, sid |-> sid[t], tag |-> caller[t].tag, vout |-> vout[t]]
  <2>1. answers' = answers \cup {a}
    BY DEF SendReply
  <2>2. a.from = t /\ a.vout = vout[t]
    OBVIOUS
  <2> HIDE DEF a
  <2>3. QED
    BY <2>1, <2>2
<1>5. pc[t] \in Busy /\ Out(t) = 0
  BY <1>1, <1>3, TypedThread DEF Busy, Out, Asks
<1>6. level[t] = 1
  <2>1. level[t] \in 1..Len(pst[t]) /\ Out(t) = level[t] - 1 /\ Len(pst[t]) \in Nat
    BY <1>5, WalkerLevel
  <2>2. QED
    BY <1>5, <2>1
<1>7. q.vout = pst[q.from][1].nLeaves
  BY <1>3, <1>4, <1>6 DEF Count, Sums
<1>8. Sums'
  <2>1. \A u \in Thread : pc'[u] \in {"ascend", "reply"} => vout'[u] = pst'[u][level'[u]].nLeaves
    BY <1>2, <1>3 DEF Count, Sums, Steady
  <2>2. \A r \in answers' : r.vout = pst'[r.from][1].nLeaves
    BY <1>3, <1>4, <1>7 DEF Count, Sums
  <2>3. QED
    BY <2>1, <2>2 DEF Sums
<1>9. Unmoved
  BY <1>1, <1>2, <1>3, CalledSame DEF Unmoved, Walks, Steady
<1>10. QED
  BY <1>1, <1>3, <1>8, <1>9, CountUnmoved

\* and the other steps count nothing.
LEMMA CountAtOther ==
  ASSUME ServicesInv, Counting, Count, NEW t \in Thread, Requested(t) \/ GetReply(t) \/ Replied(t)
  PROVE  Count'
<1>1. TypeOK /\ ThreadStep(t) /\ step >= 2
  BY DEF ServicesInv, Protocol, ThreadStep, Counting
<1>2. \A f \in Thread \ {t} : Steady(f)
  BY <1>1, OthersSteady
<1>3. /\ net' = net /\ pst' = pst /\ served' = served /\ step' = step
      /\ vout' = vout /\ level' = level /\ answers' = answers
  BY DEF Requested, GetReply, Replied
<1>4. /\ pc[t] # "request" /\ pc'[t] # "request"
      /\ Walks(t)' <=> Walks(t)
      /\ pc'[t] \in {"ascend", "reply"} => pc[t] \in {"ascend", "reply"}
  <2>1. CASE Requested(t)
    <3>1. pc[t] = "sending" /\ pc'[t] = (IF sid[t] = "STOP" THEN "ascend" ELSE "descend")
      BY <1>1, <2>1 DEF Requested, TypeOK
    <3>2. sid[t] = "COUNT"
      BY <3>1, WalkerLevel DEF Busy
    <3>3. QED
      BY <3>1, <3>2 DEF Walks
  <2>2. CASE GetReply(t)
    BY <1>1, <2>2 DEF GetReply, TypeOK, Walks
  <2>3. CASE Replied(t)
    BY <1>1, <2>3 DEF Replied, TypeOK, Walks
  <2>4. QED
    BY <2>1, <2>2, <2>3
<1>5. Sums'
  <2>1. \A u \in Thread : pc'[u] \in {"ascend", "reply"} => vout'[u] = pst'[u][level'[u]].nLeaves
    BY <1>2, <1>3, <1>4 DEF Count, Sums, Steady
  <2>2. QED
    BY <1>3, <2>1 DEF Count, Sums
<1>6. Unmoved
  BY <1>1, <1>2, <1>3, <1>4, CalledSame DEF Unmoved, Walks, Steady
<1>7. QED
  BY <1>1, <1>3, <1>5, <1>6, CountUnmoved

------------------------------------------------------------------------------
(* The count: steps that do. *)

\* A range that is handed on or split leaves the same threads to be served.
LEMMA CountHanded ==
  ASSUME TypeOK, Counting, Count, served' = served, step' = step, Sums', NEW t \in Thread, NEW u \in Thread,
         \A x \in Thread \ {t, u} : Left(x)' = Left(x),
         Left(t)' \cup Left(u)' = Left(t) \cup Left(u), t # u => Left(t)' \cap Left(u)' = {},
         \A x \in Thread : ~ (Walks(x)' /\ Called(x)')
  PROVE  Count'
<1>1. Apart /\ Served /\ step \in Nat /\ step >= 2
  BY DEF Count, Counting, TypeOK
<1>2. ASSUME NEW x \in Thread, NEW y \in Thread, x # y PROVE Left(x)' \cap Left(y)' = {}
  <2>1. \A z \in Thread \ {t, u} : Left(z)' \cap Left(t)' = {} /\ Left(z)' \cap Left(u)' = {}
    BY <1>1 DEF Apart
  <2>2. CASE x \in {t, u}
    BY <1>2, <2>1, <2>2
  <2>3. CASE y \in {t, u}
    BY <1>2, <2>1, <2>3
  <2>4. CASE x \notin {t, u} /\ y \notin {t, u}
    BY <1>1, <1>2, <2>4 DEF Apart
  <2>5. QED
    BY <2>2, <2>3, <2>4
<1>3. Apart'
  BY <1>2 DEF Apart
<1>4. ASSUME NEW v \in Thread PROVE (\E x \in Thread : v \in Left(x)') <=> (\E x \in Thread : v \in Left(x))
  <2>1. (\E x \in Thread : v \in Left(x)') <=> v \in Left(t)' \/ v \in Left(u)' \/ \E x \in Thread \ {t, u} : v \in Left(x)'
    OBVIOUS
  <2>2. (\E x \in Thread : v \in Left(x)) <=> v \in Left(t) \/ v \in Left(u) \/ \E x \in Thread \ {t, u} : v \in Left(x)
    OBVIOUS
  <2>3. QED
    BY <2>1, <2>2
<1>5. Served'
  BY <1>1, <1>4 DEF Served
<1>6. QED
  BY <1>1, <1>3, <1>5 DEF Count

\* The thread that was called goes down now.
LEMMA CountAtHandler ==
  ASSUME ServicesInv, Counting, Count, NEW t \in Thread, Handler(t)
  PROVE  Count'
<1>1. TypeOK /\ ThreadStep(t) /\ step >= 2 /\ Apart
  BY DEF ServicesInv, Protocol, ThreadStep, Counting, Count
<1>2. \A f \in Thread \ {t} : Steady(f)
  BY <1>1, OthersSteady
<1>3. PICK m \in net : /\ m.to = t /\ net' = net \ {m} /\ level'[t] = 1
                       /\ pc'[t] = (IF m.sid = "STOP" THEN "ascend" ELSE "descend")
  BY <1>1 DEF Handler, Run, TypeOK
<1>4. pc[t] = "handler" /\ pst' = pst /\ served' = served /\ step' = step /\ answers' = answers
  BY DEF Handler
<1>5. m.sid = "COUNT"
  <2>1. m.sid = Phase
    BY <1>3, <1>4, CallOf
  <2>2. QED
    BY <1>1, <2>1 DEF Counting, Phase, TypeOK
<1>6. pc'[t] = "descend"
  BY <1>3, <1>5
<1>7. \A f \in Thread : (pc'[f] = "request" <=> pc[f] = "request") /\ (pc[f] = "request" => pending'[f] = pending[f])
  BY <1>2, <1>4, <1>6 DEF Steady
<1>8. ~ Called(t)'
  <2>1. \A n \in net' : n.to # t
    BY <1>1, <1>3, AskedOnce
  <2>2. \A f \in Thread : ~ (pc'[f] = "request" /\ pending'[f].to = t)
    BY <1>3, <1>7, AskedOnce
  <2>3. QED
    BY <2>1, <2>2 DEF Called
<1>9. ASSUME NEW x \in Thread \ {t} PROVE (Called(x)' <=> Called(x)) /\ (Walks(x)' <=> Walks(x)) /\ level'[x] = level[x]
  <2>1. (\E n \in net' : n.to = x) <=> (\E n \in net : n.to = x)
    BY <1>3, <1>9
  <2>2. (\E f \in Thread : pc'[f] = "request" /\ pending'[f].to = x) <=> (\E f \in Thread : pc[f] = "request" /\ pending[f].to = x)
    BY <1>7
  <2>3. Called(x)' <=> Called(x)
    BY <2>1, <2>2 DEF Called
  <2>4. QED
    BY <1>2, <1>9, <2>3 DEF Walks, Steady
<1>10. \A x \in Thread \ {t} : Left(x)' = Left(x)
  BY <1>4, <1>9 DEF Left, Covers
<1>11. Left(t)' = Left(t)
  <2>1. ~ Walks(t) /\ Called(t) /\ Walks(t)'
    BY <1>3, <1>4, <1>6 DEF Walks, Called
  <2>2. Left(t) = t..(t + pst[t][1].nLeaves - 1)
    BY <2>1 DEF Left, Covers
  <2>3. Left(t)' = t..(t + pst'[t][level'[t]].nLeaves - 1)
    BY <2>1 DEF Left, Covers
  <2>4. QED
    BY <1>3, <1>4, <2>2, <2>3
<1>12. \A x \in Thread : ~ (Walks(x)' /\ Called(x)')
  BY <1>1, <1>8, <1>9 DEF Apart
<1>13. Sums'
  <2>1. \A u \in Thread : pc'[u] \in {"ascend", "reply"} => vout'[u] = pst'[u][level'[u]].nLeaves
    BY <1>2, <1>4, <1>6 DEF Count, Sums, Steady
  <2>2. QED
    BY <1>4, <2>1 DEF Count, Sums
<1>14. QED
  BY <1>1, <1>4, <1>10, <1>11, <1>12, <1>13, CountHanded

\* Recurse hands the upper part on and keeps the lower one.
LEMMA CountAtRecurse ==
  ASSUME ServicesInv, Counting, Count, NEW t \in Thread, Recurse(t)
  PROVE  Count'
<1>1. TypeOK /\ ThreadStep(t) /\ step >= 2 /\ Apart
  BY DEF ServicesInv, Protocol, ThreadStep, Counting, Count
<1>2. \A f \in Thread \ {t} : Steady(f)
  BY <1>1, OthersSteady
<1>3. PICK i \in Inner(t), u \in Thread : i = level[t] /\ Node(t) = pst[t][i] /\ u = pst[t][i].idUpper
  BY RecurseTarget DEF Recurse
<1>4. /\ pc[t] = "descend" /\ pc'[t] = "request" /\ pending'[t].to = u /\ level'[t] = i + 1
      /\ pst' = pst /\ served' = served /\ step' = step /\ answers' = answers /\ net' = net
  BY <1>1, <1>3 DEF Recurse, ReqService, TypeOK
<1>5. /\ u # t /\ Covers(t, i) = Covers(t, i + 1) \cup Covers(u, 1) /\ Covers(t, i + 1) \cap Covers(u, 1) = {}
      /\ u \in Covers(t, i) /\ u \in Covers(u, 1)
  BY <1>1, <1>3, CoversSplit
<1>6. Walks(t) /\ ~ Called(t) /\ Left(t) = Covers(t, i)
  BY <1>1, <1>3, <1>4 DEF Walks, Apart, Left
<1>7. ~ Walks(u) /\ ~ Called(u)
  <2>1. u \notin Left(u)
    BY <1>1, <1>5, <1>6 DEF Apart
  <2>2. ~ Walks(u)
    <3>1. SUFFICES ASSUME Walks(u) PROVE FALSE
      OBVIOUS
    <3>2. pc[u] \in Busy
      BY <3>1 DEF Walks, Busy
    <3>3. level[u] \in 1..Len(pst[u])
      BY <3>2, WalkerLevel
    <3>4. u \in Covers(u, level[u])
      BY <1>1, <3>3, NodeCounts
    <3>5. QED
      BY <2>1, <3>1, <3>4 DEF Left
  <2>3. ~ Called(u)
    BY <1>5, <2>1, <2>2 DEF Left
  <2>4. QED
    BY <2>2, <2>3
<1>8. \A x : Called(x)' <=> Called(x) \/ x = u
  <2>1. \A f \in Thread \ {t} : pc'[f] = pc[f] /\ pending'[f] = pending[f]
    BY <1>2 DEF Steady
  <2>2. ASSUME NEW x
        PROVE  (\E f \in Thread : pc'[f] = "request" /\ pending'[f].to = x)
                 <=> ((\E f \in Thread : pc[f] = "request" /\ pending[f].to = x) \/ x = u)
    BY <1>4, <2>1
  <2>3. QED
    BY <1>4, <2>2 DEF Called
<1>9. \A x \in Thread \ {t} : (Walks(x)' <=> Walks(x)) /\ level'[x] = level[x]
  BY <1>2 DEF Walks, Steady
<1>10. \A x \in Thread \ {t, u} : Left(x)' = Left(x)
  BY <1>4, <1>8, <1>9 DEF Left, Covers
<1>11. Left(t)' = Covers(t, i + 1) /\ Left(u)' = Covers(u, 1) /\ Left(u) = {}
  <2>1. Walks(t)'
    BY <1>4 DEF Walks
  <2>2. Left(t)' = t..(t + pst'[t][level'[t]].nLeaves - 1)
    BY <2>1 DEF Left, Covers
  <2>3. Left(t)' = Covers(t, i + 1)
    BY <1>4, <2>2 DEF Covers
  <2>4. ~ Walks(u)' /\ Called(u)'
    BY <1>5, <1>7, <1>8, <1>9
  <2>5. Left(u)' = u..(u + pst'[u][1].nLeaves - 1)
    BY <2>4 DEF Left, Covers
  <2>6. Left(u)' = Covers(u, 1)
    BY <1>4, <2>5 DEF Covers
  <2>7. QED
    BY <1>7, <2>3, <2>6 DEF Left
<1>12. \A x \in Thread : ~ (Walks(x)' /\ Called(x)')
  <2>1. ~ Called(t)'
    BY <1>5, <1>6, <1>8
  <2>2. \A x \in Thread \ {t} : ~ (Walks(x)' /\ Called(x)')
    BY <1>1, <1>7, <1>8, <1>9 DEF Apart
  <2>3. QED
    BY <2>1, <2>2
<1>13. Sums'
  <2>1. \A x \in Thread : pc'[x] \in {"ascend", "reply"} => vout'[x] = pst'[x][level'[x]].nLeaves
    BY <1>2, <1>4 DEF Count, Sums, Steady
  <2>2. QED
    BY <1>4, <2>1 DEF Count, Sums
<1>14. QED
  BY <1>1, <1>4, <1>5, <1>6, <1>10, <1>11, <1>12, <1>13, CountHanded

\* The service runs on a thread that was left to it alone.
LEMMA CountAtService ==
  ASSUME ServicesInv, Counting, Count, NEW t \in Thread, Service(t)
  PROVE  Count'
<1>1. TypeOK /\ ThreadStep(t) /\ step \in Nat /\ step >= 2 /\ Apart /\ Served
  BY DEF ServicesInv, Protocol, ThreadStep, Counting, Count, TypeOK
<1>2. \A f \in Thread \ {t} : Steady(f)
  BY <1>1, OthersSteady
<1>3. /\ pc[t] = "descend" /\ pc'[t] = "ascend" /\ vout'[t] = 1 /\ level' = level /\ pst[t][level[t]].nLeaves = 1
      /\ pst' = pst /\ served' = [served EXCEPT ![t] = @ + 1] /\ step' = step /\ answers' = answers /\ net' = net
  BY <1>1 DEF Service, Node, TypeOK
<1>4. t \in Nat /\ Walks(t) /\ ~ Called(t) /\ ~ Walks(t)'
  BY <1>1, <1>3, ThreadsAre DEF Walks, Apart
<1>5. Left(t) = {t}
  <2>1. Left(t) = t..(t + 1 - 1)
    BY <1>3, <1>4 DEF Left, Covers
  <2>2. t..(t + 1 - 1) = {t}
    BY <1>4
  <2>3. QED
    BY <2>1, <2>2
<1>6. \A x : Called(x)' <=> Called(x)
  BY <1>1, <1>3, CalledSame
<1>7. Left(t)' = {}
  BY <1>4, <1>6 DEF Left
<1>8. \A x \in Thread \ {t} : (Walks(x)' <=> Walks(x)) /\ Left(x)' = Left(x)
  <2>1. \A x \in Thread \ {t} : Walks(x)' <=> Walks(x)
    BY <1>2 DEF Walks, Steady
  <2>2. QED
    BY <1>3, <1>6, <2>1 DEF Left, Covers
<1>9. Apart'
  <2>1. \A x \in Thread : ~ (Walks(x)' /\ Called(x)')
    BY <1>1, <1>4, <1>6, <1>8 DEF Apart
  <2>2. \A x, y \in Thread : x # y => Left(x)' \cap Left(y)' = {}
    BY <1>1, <1>7, <1>8 DEF Apart
  <2>3. QED
    BY <2>1, <2>2 DEF Apart
<1>10. ASSUME NEW v \in Thread
       PROVE  served'[v] = IF \E x \in Thread : v \in Left(x)' THEN step' - 2 ELSE step' - 1
  <2>1. CASE v = t
    <3>1. served[t] = step - 2
      BY <1>1, <1>5 DEF Served
    <3>2. \A x \in Thread : t \notin Left(x)'
      BY <1>1, <1>5, <1>7, <1>8 DEF Apart
    <3>3. served'[t] = served[t] + 1
      BY <1>1, <1>3 DEF TypeOK
    <3>4. QED
      BY <1>1, <1>3, <2>1, <3>1, <3>2, <3>3
  <2>2. CASE v # t
    <3>1. (\E x \in Thread : v \in Left(x)') <=> (\E x \in Thread : v \in Left(x))
      BY <1>5, <1>7, <1>8, <2>2
    <3>2. served'[v] = served[v]
      BY <1>1, <1>3, <2>2 DEF TypeOK
    <3>3. QED
      BY <1>1, <1>3, <3>1, <3>2 DEF Served
  <2>3. QED
    BY <2>1, <2>2
<1>11. Sums'
  <2>1. \A x \in Thread : pc'[x] \in {"ascend", "reply"} => vout'[x] = pst'[x][level'[x]].nLeaves
    BY <1>2, <1>3 DEF Count, Sums, Steady
  <2>2. QED
    BY <1>3, <2>1 DEF Count, Sums
<1>12. Served'
  BY <1>10 DEF Served
<1>13. QED
  BY <1>1, <1>3, <1>9, <1>11, <1>12 DEF Count

------------------------------------------------------------------------------
(* Every service runs once on every thread. *)

\* Between services no thread is left,
LEMMA IdleLeft ==
  ASSUME ServicesInv, Idle
  PROVE  /\ \A x \in Thread : ~ Called(x) /\ ~ Walks(x) /\ Left(x) = {}
         /\ \A x \in Thread \ {0} : pc[x] \notin Busy
         /\ net = {} /\ answers = {} /\ pc[0] \in {"master", "ascend"}
<1>1. /\ net = {} /\ answers = {} /\ \A x \in Thread \ {0} : pc[x] \notin Busy
  BY QuietBetweenServices DEF ServicesInv
<1>2. pc[0] \in {"master", "ascend"}
  BY DEF Idle
<1>3. \A x \in Thread : pc[x] \notin {"descend", "request", "sending"}
  BY <1>1, <1>2 DEF Busy
<1>4. \A x \in Thread : ~ Called(x) /\ ~ Walks(x)
  BY <1>1, <1>3 DEF Called, Walks
<1>5. QED
  BY <1>1, <1>2, <1>4 DEF Left

\* and the top node covers all.
LEMMA TopCovers ==
  ASSUME ServicesInv, step >= 2
  PROVE  0 \in Thread /\ pst[0][1].nLeaves = Threads /\ Covers(0, 1) = Thread
<1>1. Threads \in Nat \ {0} /\ 0 \in Thread
  BY ThreadsAre
<1>2. step \in Nat /\ Nodes
  BY DEF ServicesInv, Protocol, Tree, TypeOK
<1>3. Leaves(0, 1) = Threads
  BY <1>2 DEF Nodes
<1>4. pst[0][1].nLeaves = Threads
  BY <1>1, <1>3, TreeBuilt
<1>5. 0..(0 + Threads - 1) = 0..(Threads - 1)
  BY <1>1
<1>6. QED
  BY <1>1, <1>4, <1>5 DEF Covers, Thread

\* The master begins a service: all threads are left to thread 0.
LEMMA CountAtRunService ==
  ASSUME ServicesInv, Count, RunService
  PROVE  Count'
<1>1. TypeOK /\ step \in Nat /\ 0 \in Thread /\ Traversals \in Nat /\ Idle
  BY ThreadsAre DEF ServicesInv, Protocol, TypeOK, RunService
<1>2. /\ \A x \in Thread : Left(x) = {}
      /\ \A x \in Thread \ {0} : pc[x] \notin Busy
      /\ net = {} /\ answers = {} /\ pc[0] \in {"master", "ascend"}
  BY <1>1, IdleLeft
<1>3. /\ step <= Traversals /\ step' = step + 1 /\ pst' = pst /\ net' = net /\ answers' = answers /\ served' = served
      /\ pc'[0] = "descend" /\ level'[0] = 1 /\ \A x \in Thread \ {0} : pc'[x] = pc[x]
  BY <1>1 DEF RunService, Run, TypeOK
<1>4. \A x \in Thread : pc'[x] \notin {"request", "ascend", "reply"}
  BY <1>2, <1>3 DEF Busy
<1>5. CASE step = 0
  <2>1. \A v \in Thread : served'[v] = 0
    BY <1>3, <1>5 DEF Count
  <2>2. ~ (2 <= step')
    BY <1>3, <1>5
  <2>3. QED
    BY <2>1, <2>2 DEF Count, Counting
<1>6. CASE step >= 1
  <2>1. \A v \in Thread : served[v] = step - 1
    <3>1. CASE step = 1
      BY <3>1 DEF Count
    <3>2. CASE step >= 2
      BY <1>1, <1>2, <1>3, <3>2 DEF Count, Counting, Served
    <3>3. QED
      BY <1>1, <1>6, <3>1, <3>2
  <2>2. \A x \in Thread : ~ Called(x)'
    BY <1>2, <1>3, <1>4 DEF Called
  <2>3. \A x \in Thread \ {0} : ~ Walks(x)' /\ Left(x)' = {}
    <3>1. \A x \in Thread \ {0} : ~ Walks(x)'
      BY <1>2, <1>3 DEF Walks, Busy
    <3>2. QED
      BY <2>2, <3>1 DEF Left
  <2>4. Left(0)' = Thread
    <3>1. Walks(0)'
      BY <1>3 DEF Walks
    <3>2. Left(0)' = 0..(0 + pst'[0][level'[0]].nLeaves - 1)
      BY <3>1 DEF Left, Covers
    <3>3. pst[0][1].nLeaves = Threads
      <4>1. Leaves(0, 1) = Threads /\ Len(pst[0]) \in Nat \ {0}
        BY <1>1, <1>6, NodesExist DEF ServicesInv, Tree, Nodes
      <4>2. ~ Placing(0)
        BY <1>2 DEF Placing
      <4>3. QED
        BY <4>1, <4>2 DEF Leaves
    <3>4. Threads \in Nat /\ 0..(0 + Threads - 1) = 0..(Threads - 1)
      BY ThreadsAre
    <3>5. QED
      BY <1>3, <3>2, <3>3, <3>4 DEF Thread
  <2>5. Apart'
    BY <2>2, <2>3 DEF Apart
  <2>6. Served'
    <3>1. \A v \in Thread : \E x \in Thread : v \in Left(x)'
      BY <1>1, <2>4
    <3>2. \A v \in Thread : served'[v] = step' - 2
      BY <1>1, <1>3, <2>1
    <3>3. QED
      BY <3>1, <3>2 DEF Served
  <2>7. Sums'
    BY <1>2, <1>3, <1>4 DEF Sums
  <2>8. ~ (step' <= 1)
    BY <1>1, <1>3, <1>6
  <2>9. QED
    BY <2>5, <2>6, <2>7, <2>8 DEF Count
<1>7. QED
  BY <1>1, <1>5, <1>6

\* The master stops the threads and ends.
LEMMA CountAtEnd ==
  ASSUME ServicesInv, Count, StopNext \/ Finish
  PROVE  Count'
<1>1. TypeOK /\ step \in Nat /\ 0 \in Thread /\ Traversals \in Nat /\ Threads \in Nat \ {0}
  BY ThreadsAre DEF ServicesInv, Protocol, TypeOK
<1>2. CASE StopNext
  <2>1. step' = step + 1 /\ step - Traversals >= 1
    BY <1>2 DEF StopNext
  <2>2. ~ (step' <= Traversals + 1) /\ ~ (step' <= 1)
    BY <1>1, <2>1
  <2>3. QED
    BY <2>2 DEF Count, Counting
<1>3. CASE Finish
  <2>1. /\ \A x \in Thread : ~ Called(x) /\ ~ Walks(x) /\ Left(x) = {}
        /\ net = {} /\ pc[0] \in {"master", "ascend"}
    BY <1>3, IdleLeft DEF Finish
  <2>2. /\ pc' = [pc EXCEPT ![0] = "stopped"] /\ step' = step /\ served' = served /\ net' = net /\ answers' = answers
        /\ pending' = pending /\ pst' = pst /\ level' = level /\ vout' = vout
    BY <1>3 DEF Finish
  <2>3. \A x \in Thread : (pc'[x] = pc[x] /\ x # 0) \/ (x = 0 /\ pc'[x] = "stopped")
    BY <1>1, <2>2 DEF TypeOK
  <2>4. \A x \in Thread : ~ Called(x)' /\ ~ Walks(x)' /\ Left(x)' = {}
    <3>1. \A x \in Thread : ~ Walks(x)'
      BY <2>1, <2>3 DEF Walks
    <3>2. \A x \in Thread : pc'[x] # "request"
      BY <2>1, <2>3 DEF Walks
    <3>3. \A x \in Thread : ~ Called(x)'
      BY <2>1, <2>2, <3>2 DEF Called
    <3>4. QED
      BY <3>1, <3>3 DEF Left
  <2>5. CASE Counting
    <3>1. Served /\ Sums
      BY <2>5 DEF Count
    <3>2. Apart'
      BY <2>4 DEF Apart
    <3>3. Served'
      BY <2>1, <2>2, <2>4, <3>1 DEF Served
    <3>4. Sums'
      BY <2>2, <2>3, <3>1 DEF Sums
    <3>5. step' <= 1 => \A v \in Thread : served'[v] = 0
      BY <2>2 DEF Count
    <3>6. QED
      BY <3>2, <3>3, <3>4, <3>5 DEF Count
  <2>6. CASE ~ Counting
    BY <2>2, <2>6 DEF Count, Counting
  <2>7. QED
    BY <2>5, <2>6
<1>4. QED
  BY <1>2, <1>3

\* The steps of a thread.
LEMMA CountAtThread ==
  ASSUME ServicesInv, Count, NEW t \in Thread, ThreadStep(t)
  PROVE  Count'
<1>1. TypeOK /\ Located(t) /\ step \in Nat /\ Traversals \in Nat
  BY ThreadsAre DEF ServicesInv, Protocol, TypeOK
<1>2. step' = step
  BY <1>1, OthersSteady
<1>3. CASE Counting
  <2>1. ~ SetAdd(t) /\ ~ SetAddDone(t)
    <3>1. pc[t] = "descend" => sid[t] = "COUNT"
      BY <1>3, WalkerLevel DEF Busy
    <3>2. QED
      BY <3>1 DEF SetAdd, SetAddDone
  <2>2. QED
    BY <1>3, <2>1, CountAtSend, CountAtReply, CountAtSendReply, CountAtOther, CountAtHandler, CountAtRecurse, CountAtService
       DEF ThreadStep
<1>4. CASE ~ Counting
  <2>1. CASE Service(t)
    <3>1. sid[t] = Phase /\ sid[t] = "COUNT"
      BY <1>1, <2>1 DEF Service, Located, Busy
    <3>2. Counting
      BY <1>1, <3>1 DEF Phase, Counting
    <3>3. QED
      BY <1>4, <3>2
  <2>2. CASE ~ Service(t)
    <3>1. served' = served
      BY <2>2 DEF ThreadStep, MessageSendRequest, Requested, GetReply, FinishReceiveReply, Handler, SendReply, Replied,
                  SetAdd, SetAddDone, Recurse
    <3>2. QED
      BY <1>2, <1>4, <3>1 DEF Count, Counting
  <2>3. QED
    BY <2>1, <2>2
<1>5. QED
  BY <1>3, <1>4

\* Nothing happens.
LEMMA CountStutters == ASSUME Count, UNCHANGED vars PROVE Count'
<1>1. Apart' <=> Apart
  BY DEF Apart, Left, Walks, Called, Covers, vars
<1>2. Served' <=> Served
  BY DEF Served, Left, Walks, Called, Covers, vars
<1>3. Sums' <=> Sums
  BY DEF Sums, vars
<1>4. QED
  BY <1>1, <1>2, <1>3 DEF Count, Counting, vars

\* When a service returns to the master it has run once on every thread, and the master has the sum over all, whatever tree SetAdd has built and in whatever order requests and replies arrived.
THEOREM EveryThreadServedOnce == Spec => []CountedOnce
<1>1. Init => Count
  BY DEF Init, Count, Counting
<1>2. ServicesInv /\ Count /\ [Next]_vars => Count'
  <2>1. SUFFICES ASSUME ServicesInv, Count, [Next]_vars PROVE Count'
    OBVIOUS
  <2>2. QED
    BY <2>1, CountAtRunService, CountAtEnd, CountAtThread, CountStutters DEF Next
<1>3. ServicesInv /\ Count => CountedOnce
  <2>1. SUFFICES ASSUME ServicesInv, Count, Idle, step >= 2, step <= Traversals + 1
                 PROVE  vout[0] = Threads /\ \A t \in Thread : served[t] = step - 1
    BY DEF CountedOnce
  <2>2. Counting /\ Served /\ Sums
    BY <2>1 DEF Counting, Count
  <2>3. \A t \in Thread : served[t] = step - 1
    BY <2>1, <2>2, IdleLeft DEF Served
  <2>4. TypeOK /\ Located(0) /\ 0 \in Thread /\ step \in Nat
    BY <2>1, ThreadsAre DEF ServicesInv, Protocol, TypeOK
  <2>5. pc[0] = "ascend"
    BY <2>1, <2>4 DEF Idle, Located
  <2>6. level[0] = 1
    <3>1. level[0] \in 1..Len(pst[0]) /\ Out(0) = level[0] - 1 /\ Len(pst[0]) \in Nat
      BY <2>1, <2>2, <2>4, <2>5, WalkerLevel DEF Busy
    <3>2. Out(0) = 0
      BY <2>1, QuietBetweenServices DEF ServicesInv
    <3>3. QED
      BY <3>1, <3>2
  <2>7. vout[0] = pst[0][1].nLeaves
    BY <2>2, <2>4, <2>5, <2>6 DEF Sums
  <2>8. QED
    BY <2>1, <2>3, <2>7, TopCovers
<1>4. QED
  BY <1>1, <1>2, <1>3, ServicesInvariant, PTL DEF Spec
=============================================================================
