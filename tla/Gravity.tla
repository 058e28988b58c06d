------------------------------- MODULE Gravity ------------------------------
(***************************************************************************)
(* Trees and walks of a step, as the master orders them (BuildTree,         *)
(* BuildTreeFixed, BuildTreeActive, Drift and Gravity in master.cxx).  All  *)
(* particles are put into one tree, or the slow ones into a tree that stays *)
(* while one of the fast ones is rebuilt against it as they move; then the  *)
(* threads walk.  What a thread does with its own store is one step, as the *)
(* others cannot see it before the master goes on.                          *)
(***************************************************************************)
EXTENDS KDTree, GravWalk

CONSTANTS Layouts,      \* particles of the threads: their order, positions and rungs
          Sizes,        \* values of dMaxMax for the tree of the fast particles
          Shift,        \* how far a fast particle moves
          nMaxStack,    \* stack of the walk at the start (30 in the code)
          MaxBuilds     \* how often the tree of the fast particles is rebuilt

VARIABLES tree,         \* "none", "all", "dumped", "fixed" or "active": the trees there are
          uRungDD,      \* particles on higher rungs are the fast ones
          nBoxes,       \* the box and its replicas
          nBuilds

vars == <<pkd, pos, rung, nGroup, tree, uRungDD, nBoxes, nBuilds, walk>>
world == <<nGroup, nBoxes, uRungDD, rung>>

nThreads == Cardinality(Thread)

\* No nodes yet: the first pkdDumpTrees starts with nNodes at NReserved.
NewThread(part) ==
  [nNodes |-> NReserved, part |-> part, nMaxStack |-> nMaxStack,
   node |-> [i \in {ROOT, FIXROOT} |-> Leaf(0, Cardinality(DOMAIN part) - 1, 0, Width, 0)],
   iTopTree |-> [i \in {ROOT, FIXROOT} |-> 0], cells |-> [i \in {ROOT, FIXROOT} |-> 0]]

Init ==
  /\ \E l \in Layouts :
       /\ pkd = [t \in Thread |-> NewThread(l.part[t])]
       /\ pos = l.pos /\ rung = l.rung
       /\ nGroup = l.nGroup /\ nBoxes = l.boxes /\ uRungDD = l.uRungDD
  /\ tree = "none" /\ nBuilds = 0
  /\ rungOf = <<>> /\ at = "idle" /\ self = 0 /\ lowest = 0 /\ iCell = ROOT
  /\ scope = [iRoot1 |-> ROOT, iRoot2 |-> 0, boxes |-> 1]
  /\ cl = <<>> /\ stays = <<>> /\ ilp = <<>> /\ ilc = <<>> /\ L = <<>> /\ S = <<>> /\ nForced = <<>>

nLocal(s) == Cardinality(DOMAIN s.part)
------------------------------------------------------------------------------
(* pkdDumpTrees *)

\* All particles are in ROOT, which is a bucket until it is built.
DumpAll(s) == SetNode(FreeFrom(s, NReserved), ROOT, Leaf(0, nLocal(s) - 1, 0, Width, 0))

IsSlow(p) == rung[p] <= uRungDD

\* The macro PARTITION with the slow particles as the lower ones: its loop of swaps,
RECURSIVE Swaps(_, _, _)
Swaps(part, i, j) ==
  IF i >= j THEN [part |-> part, iLast |-> j] ELSE
  LET swapped == [part EXCEPT ![i] = part[j], ![j] = part[i]]
  IN  Swaps(swapped, Min({n \in DOMAIN part : n > i /\ ~IsSlow(swapped[n])}),
                     Max({n \in DOMAIN part : n < j /\ IsSlow(swapped[n])}))

\* which it comes to unless the first loop has passed only slow particles.  iLast, and
\* not i, is used for the border.
Partition(part) ==
  LET last == Cardinality(DOMAIN part) - 1
      i == Min({n \in 0..last : ~IsSlow(part[n])} \cup {last})
      j == Max({n \in i..last : IsSlow(part[n])} \cup {i})
  IN  IF last < 0 \/ IsSlow(part[i]) THEN [part |-> part, iLast |-> last] ELSE Swaps(part, i, j)

DumpBoth(s) ==
  LET cut == Partition(s.part)
      emptied == FreeFrom([s EXCEPT !.part = cut.part], NReserved)
  IN  SetNode(SetNode(emptied, FIXROOT, Leaf(0, cut.iLast, 0, Width, 0)),
              ROOT, Leaf(cut.iLast + 1, nLocal(s) - 1, 0, Width, 0))

\* Only the tree of the fast particles: its nodes are free, if it has any, and with
\* them its top tree, which was made after it.
DumpActive_ToTop(s) ==
  LET root == s.node[ROOT]
      leaf == Leaf(root.pLower, root.pUpper, 0, Width, 0)
  IN  SetNode(FreeFrom(s, s.iTopTree[FIXROOT]), ROOT, leaf)

DumpActive(s) ==
  LET root == s.node[ROOT]
      leaf == Leaf(root.pLower, root.pUpper, 0, Width, 0)
  IN  SetNode(IF root.iLower # 0 THEN FreeFrom(s, root.iLower) ELSE s, ROOT, leaf)
------------------------------------------------------------------------------
(* MSR::BuildTree: each thread builds, the roots are combined, all get the top tree *)

BuildTree(P, uRoot, uTemp, dMaxMax) ==
  LET built == [t \in Thread |-> pkdTreeBuild(P[t], uRoot, uTemp, dMaxMax)]
      top == TopTree(built, 0, nThreads, uRoot)
  IN  [t \in Thread |-> pkdDistribTopTree(built[t], t, uRoot, top)]

BuildTreeAll ==
  /\ at = "idle" /\ tree \in {"none", "active"}
  /\ pkd' = BuildTree([t \in Thread |-> DumpAll(pkd[t])], ROOT, 0, Unbounded)
  /\ tree' = "all" /\ nBuilds' = 0
  /\ UNCHANGED <<world, walk, pos>>

\* Two trees are used if there are rungs above the slow ones (bDualTree).
DumpTrees ==
  /\ at = "idle" /\ uRungDD < MaxRung /\ tree = "all"
  /\ pkd' = [t \in Thread |-> DumpBoth(pkd[t])]
  /\ tree' = "dumped"
  /\ UNCHANGED <<world, walk, pos, nBuilds>>

BuildTreeFixed ==
  /\ at = "idle" /\ tree = "dumped"
  /\ pkd' = BuildTree(pkd, FIXROOT, 0, Unbounded)
  /\ tree' = "fixed"
  /\ UNCHANGED <<world, walk, pos, nBuilds>>

\* The fast particles move, and their tree is built.
Moves(p, P) == \E t \in Thread : \E j \in RootRange(t, ROOT) : pkd[t].part[j] = p

Drift ==
  pos' = [p \in DOMAIN pos |-> IF Moves(p, pkd) THEN (pos[p] + Shift) % Width ELSE pos[p]]

BuildTreeActive ==
  /\ at = "idle" /\ tree = "fixed"
  /\ \E dMaxMax \in Sizes :
       pkd' = BuildTree([t \in Thread |-> DumpActive(pkd[t])], ROOT, FIXROOT, dMaxMax)
  /\ tree' = "active" /\ nBuilds' = nBuilds + 1
  /\ UNCHANGED <<world, walk, pos>>

DriftActive ==
  /\ at = "idle" /\ tree = "active" /\ nBuilds < MaxBuilds
  /\ Drift
  /\ tree' = "fixed"
  /\ UNCHANGED <<world, walk, pkd, nBuilds>>
------------------------------------------------------------------------------
(* MSR::Gravity: the particles on the rungs from uRungLo are active *)

Lowest(uRungLo) == IF tree = "active" THEN uRungLo > uRungDD ELSE tree = "all"

Gravity(t) ==
  /\ \E uRungLo \in 0..MaxRung :
       /\ Lowest(uRungLo)
       /\ StartWalk(t, ROOT, IF tree = "active" THEN FIXROOT ELSE 0, nBoxes, uRungLo,
                    [j \in DOMAIN pkd[t].part |-> rung[pkd[t].part[j]]])
  /\ UNCHANGED <<world, tree, pos, nBuilds>>

WalkOn == WalkStep /\ UNCHANGED <<world, tree, pos, nBuilds>>

Walked ==
  /\ at = "walked"
  /\ at' = "idle"
  /\ rungOf' = <<>> /\ self' = 0 /\ lowest' = 0 /\ iCell' = ROOT
  /\ scope' = [iRoot1 |-> ROOT, iRoot2 |-> 0, boxes |-> 1]
  /\ nForced' = <<>> /\ cl' = <<>> /\ stays' = <<>> /\ ilp' = <<>> /\ ilc' = <<>> /\ L' = <<>> /\ S' = <<>>
  /\ UNCHANGED <<world, tree, pos, nBuilds, pkd>>

Next ==
  \/ BuildTreeAll \/ DumpTrees \/ BuildTreeFixed \/ BuildTreeActive \/ DriftActive
  \/ (\E t \in Thread : Gravity(t)) \/ WalkOn \/ Walked

\* A walk goes on without anything to wait for.
Spec == Init /\ [][Next]_vars /\ WF_vars(WalkOn)
------------------------------------------------------------------------------
(* Properties *)

\* Nodes of a tree, and of the copy of the top tree over it
RECURSIVE Reach(_, _)
Reach(s, nodes) ==
  LET below == UNION {{s.node[i].iLower, s.node[i].iLower + 1} : i \in {j \in nodes : s.node[j].iLower # 0}}
  IN  IF below \subseteq nodes THEN nodes ELSE Reach(s, nodes \cup below)

TreeNodes(s, uRoot) == Reach(s, {uRoot})
TopNodes(s, uRoot) == s.iTopTree[uRoot]..s.iTopTree[uRoot] + 2 * nThreads - 2
AllNodes(s, uRoot) == TreeNodes(s, uRoot) \cup TopNodes(s, uRoot)

BuiltTrees == IF tree = "all" THEN {ROOT} ELSE IF tree = "fixed" THEN {FIXROOT}
              ELSE IF tree = "active" THEN {ROOT, FIXROOT} ELSE {}

\* No node belongs to two trees, or to a tree and a top tree, and none is above
\* nNodes: one tree can be truncated and rebuilt, and the other is left alone.
TreesApart ==
  at = "idle" => \A t \in Thread : LET s == pkd[t] IN
    /\ \A r \in BuiltTrees :
         /\ TreeNodes(s, r) \cap TopNodes(s, r) = {}
         /\ AllNodes(s, r) \ {r} \subseteq NReserved..s.nNodes - 1
    /\ \A r1, r2 \in BuiltTrees : r1 # r2 => AllNodes(s, r1) \cap AllNodes(s, r2) = {}

\* A cell's children share its particles, its rungs and its number of particles;
\* a bucket is small; every particle is in one tree.
CellsAddUp ==
  at = "idle" => \A t \in Thread, r \in BuiltTrees : \A i \in TreeNodes(pkd[t], r) :
    LET c == pkd[t].node[i]
        held == {rung[pkd[t].part[j]] : j \in c.pLower..c.pUpper}
    IN  /\ c.m = Held(c)
        /\ held # {} => c.uMinRung = Min(held) /\ c.uMaxRung = Max(held)
        /\ c.iLower = 0 => c.bGroup /\ Held(c) <= nBucket
        /\ c.iLower # 0 =>
             LET a == pkd[t].node[c.iLower]
                 b == pkd[t].node[c.iLower + 1]
             IN  /\ a.pLower = c.pLower /\ b.pUpper = c.pUpper /\ b.pLower = a.pUpper + 1
                 /\ Held(a) > 0 /\ Held(b) > 0
                 /\ c.bGroup => a.bGroup /\ b.bGroup

\* Both trees are sound after every build and rebuild.
TreesSound == TreesApart /\ CellsAddUp

\* The assertions after the partition in pkdDumpTrees, which are commented out.
FixedTreeIsSlow ==
  tree \in {"dumped", "fixed", "active"} =>
    \A t \in Thread : /\ \A j \in RootRange(t, FIXROOT) : rung[pkd[t].part[j]] <= uRungDD
                      /\ \A j \in RootRange(t, ROOT) : rung[pkd[t].part[j]] > uRungDD

\* While the tree of the fast particles is rebuilt the cache over the other one stays
\* open: nothing that it serves may change.
FixedTreeStays ==
  [][{tree, tree'} \subseteq {"fixed", "active"} =>
       \A t \in Thread : \A i \in AllNodes(pkd[t], FIXROOT) :
         i \in DOMAIN pkd'[t].node /\ pkd'[t].node[i] = pkd[t].node[i]]_vars

\* Every check list is used up in the end, on every level: every walk ends.
WalksEnd == at = "check" ~> at = "walked"
=============================================================================
