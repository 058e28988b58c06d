------------------------------ MODULE MCGravity ------------------------------
(* Layouts of particles of up to three threads.  Of a thread's particles the even  *)
(* ones are slow and the odd ones fast, and their order in its store is given.     *)
EXTENDS Gravity

Layout(part, positions, fast, group, box, dd) ==
  [part |-> [t \in Thread |-> [j \in 0..Len(part[t + 1]) - 1 |-> part[t + 1][j + 1]]],
   pos |-> [p \in 0..Len(positions) - 1 |-> positions[p + 1]],
   rung |-> [p \in 0..Len(positions) - 1 |-> IF p \in fast THEN 1 ELSE 0],
   nGroup |-> group, boxes |-> box, uRungDD |-> dd]

\* One tree over two threads, cells above the groups; the thread in between is empty.
TwoThreads == Layout(<<<<0, 1>>, <<>>, <<2, 3>>>>, <<0, 12, 4, 24>>, {1, 2}, 1, 1, 1)
\* Deeper trees, and groups of two buckets.
Groups == Layout(<<<<0, 1, 2>>, <<3, 4>>, <<>>>>, <<24, 0, 4, 4, 8>>, {2, 3}, 2, 1, 1)
\* A replica of the box.
Replicas == Layout(<<<<0, 1>>, <<>>, <<>>>>, <<0, 12>>, {1}, 1, 2, 1)
\* Slow and fast particles in turn: two trees.
Dual == Layout(<<<<1, 0, 3>>, <<2, 4>>, <<>>>>, <<16, 4, 0, 28, 20>>, {1, 3}, 2, 1, 0)
DualSinks == Layout(<<<<1, 0, 3>>, <<>>, <<>>>>, <<0, 4, 16, 28>>, {1, 3}, 1, 1, 0)

\* Slow particles in front of the fast ones.
Ordered == Layout(<<<<0, 2, 1, 3>>, <<4, 6>>, <<>>>>, <<0, 20, 4, 28, 0, 4, 8>>, {1, 3}, 2, 1, 0)
OrderedLayout == {Ordered}
MCLayouts == {TwoThreads, Groups, Replicas, Dual, DualSinks}
=============================================================================
