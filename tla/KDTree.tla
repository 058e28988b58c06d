------------------------------- MODULE KDTree -------------------------------
(***************************************************************************)
(* The trees a thread builds over its particles (domains/tree.cxx), and the *)
(* top tree that pstBuildTree makes of their roots and pkdDistribTopTree    *)
(* copies to every thread.                                                  *)
(*                                                                         *)
(* Space has one dimension: a position is an integer and a cell an interval *)
(* of them.  Moments are reduced to the number of particles they sum, m.    *)
(* A thread's PKD is a record; its particles are indexed from 0 as there.   *)
(* In Create's climb a left child has an even index, a right child the odd   *)
(* one after it.                                                            *)
(***************************************************************************)
EXTENDS Integers, Sequences, SequencesExt, FiniteSetsExt

CONSTANTS nBucket,      \* most particles of a bucket
          Width,        \* the domain of a thread holds the positions 0..Width-1
          MaxRung,      \* MAX_RUNG
          NReserved,    \* NRESERVED_NODES: the first node that may be allocated
          Unbounded     \* dMaxMax = HUGE_VAL: a size no cell has

ASSUME TreeAssumption ==
  /\ nBucket \in Nat \ {0} /\ Width \in Nat \ {0} /\ MaxRung \in Nat
  /\ NReserved \in Nat /\ NReserved > 3 /\ NReserved % 2 = 0
  /\ Unbounded \in Nat /\ Unbounded >= Width

VARIABLES pos,      \* position of each particle
          rung,     \* uRung of each particle
          nGroup    \* most particles of a group (a parameter of the program)

ROOT == 1
FIXROOT == 3

\* A node as a leaf of a thread's own tree; whether it stays one is decided later.
Leaf(pLower, pUpper, lo, hi, depth) ==
  [pLower |-> pLower, pUpper |-> pUpper, iLower |-> 0, bGroup |-> TRUE,
   bTopTree |-> FALSE, bRemote |-> FALSE, lo |-> lo, hi |-> hi, iDepth |-> depth,
   uMinRung |-> MaxRung, uMaxRung |-> 0, m |-> 0, threads |-> {}]

Held(c) == c.pUpper - c.pLower + 1

SetNode(s, i, c) == [s EXCEPT !.node = [j \in DOMAIN @ \cup {i} |-> IF j = i THEN c ELSE @[j]]]

pkdTreeAlignNode(s) == [s EXCEPT !.nNodes = @ + (@ % 2)]

\* Truncates the tree: nodes from n on are free again.
FreeFrom(s, n) == [s EXCEPT !.nNodes = n, !.node = [j \in {i \in DOMAIN @ : i < n} |-> @[j]]]
------------------------------------------------------------------------------
(* Splitting cells *)

\* PartPart's loop.  A particle that is on the split may come to either side.
RECURSIVE SwapOver(_, _, _, _)
SwapOver(part, i, j, split) ==
  LET swapped == [part EXCEPT ![i] = part[j], ![j] = part[i]]
      iNext == Min({n \in DOMAIN part : n > i /\ pos[swapped[n]] >= split})
      jNext == Max({n \in DOMAIN part : n < j /\ pos[swapped[n]] <= split})
  IN  IF iNext < jNext THEN SwapOver(swapped, iNext, jNext, split) ELSE [part |-> swapped, mid |-> iNext]

\* The particles of c in front of the split come first; mid is the first of the others.
PartPart(s, c, split) ==
  LET i == Min({n \in c.pLower..c.pUpper : pos[s.part[n]] >= split} \cup {c.pUpper + 1})
      j == Max({n \in i..c.pUpper : pos[s.part[n]] <= split} \cup {i - 1})
  IN  IF i < j THEN SwapOver(s.part, i, j, split) ELSE [part |-> s.part, mid |-> i]

\* Both halves hold particles: two nodes, next to each other, for them.
SplitNode(s, i, split, mid, grouped) ==
  LET c == s.node[i]
      iLeft == s.nNodes
      left == Leaf(c.pLower, mid - 1, c.lo, split, c.iDepth + 1)
      right == Leaf(mid, c.pUpper, split, c.hi, c.iDepth + 1)
  IN  SetNode(SetNode(SetNode([s EXCEPT !.nNodes = @ + 2],
              i, [c EXCEPT !.iLower = iLeft, !.bGroup = grouped]),
              iLeft, left), iLeft + 1, right)

\* All particles are in one half: the cell shrinks to it.
ShrinkNode(s, i, lo, hi) ==
  SetNode(s, i, [s.node[i] EXCEPT !.lo = lo, !.hi = hi, !.iDepth = @ + 1])

\* BuildTemp's loop, with iNode and the stack as its todo list.  Half of the side
\* of a half cell is compared with dMaxMax.
RECURSIVE Subdivide(_, _, _)
Subdivide(s, todo, dMaxMax) ==
  IF todo = <<>> THEN s ELSE
  LET i == Head(todo)
      c == s.node[i]
      split == (c.lo + c.hi) \div 2
      cut == PartPart(s, c, split)
      parted == [s EXCEPT !.part = cut.part]
      nl == cut.mid - c.pLower
      nr == Held(c) - nl
      more(n) == c.hi - c.lo > 4 * dMaxMax \/ n > nBucket
      iLeft == s.nNodes
      order == IF nr > nl THEN <<iLeft, iLeft + 1>> ELSE <<iLeft + 1, iLeft>>
      next == SelectSeq(order, LAMBDA j : more(IF j = iLeft THEN nl ELSE nr))
      again == IF more(Held(c)) THEN <<i>> ELSE <<>>
      left == ShrinkNode(parted, i, c.lo, split)
      right == ShrinkNode(parted, i, split, c.hi)
  IN  IF nl > 0 /\ nr > 0
      THEN Subdivide(SplitNode(parted, i, split, cut.mid, c.pUpper - c.pLower < nGroup), next \o Tail(todo), dMaxMax)
      ELSE Subdivide(IF nl > 0 THEN left ELSE right, again \o Tail(todo), dMaxMax)

BuildTemp(s, i, dMaxMax) ==
  LET start == SetNode(s, i, [s.node[i] EXCEPT !.iDepth = 0])
  IN  IF Held(s.node[i]) <= nBucket THEN start ELSE Subdivide(start, <<i>>, dMaxMax)

\* BuildFromTemplate's loops: todo is a list of a template cell and the cell to
\* build after it.  The template's cells have been shrunk to their particles, and
\* the split is half way between its children.
RECURSIVE FollowTemplate(_, _, _)
FollowTemplate(s, todo, dMaxMax) ==
  IF todo = <<>> THEN s ELSE
  LET t == s.node[Head(todo)[1]]
      i == Head(todo)[2]
      c == s.node[i]
      split == (s.node[t.iLower].hi + s.node[t.iLower + 1].lo) \div 2
      cut == PartPart(s, c, split)
      parted == [s EXCEPT !.part = cut.part]
      nl == cut.mid - c.pLower
      nr == Held(c) - nl
      iLeft == s.nNodes
      grouped == c.pUpper - c.pLower < nGroup /\ t.bGroup
  IN  IF t.iLower = 0 \/ t.iDepth # c.iDepth
      THEN FollowTemplate(BuildTemp(s, i, dMaxMax), Tail(todo), dMaxMax)
      ELSE IF nl = 0
      THEN FollowTemplate(ShrinkNode(parted, i, split, c.hi), <<<<t.iLower + 1, i>>>> \o Tail(todo), dMaxMax)
      ELSE IF nr = 0
      THEN FollowTemplate(ShrinkNode(parted, i, c.lo, split), <<<<t.iLower, i>>>> \o Tail(todo), dMaxMax)
      ELSE FollowTemplate(SplitNode(parted, i, split, cut.mid, grouped),
             <<<<t.iLower, iLeft>>, <<t.iLower + 1, iLeft + 1>>>> \o Tail(todo), dMaxMax)

BuildFromTemplate(s, i, iTemplate, dMaxMax) ==
  LET root == SetNode(s, i, [s.node[i] EXCEPT !.iDepth = 0, !.iLower = 0, !.bGroup = TRUE])
  IN  IF Held(s.node[i]) = 0 THEN root ELSE FollowTemplate(root, <<<<iTemplate, i>>>>, dMaxMax)
------------------------------------------------------------------------------
(* Create: the quantities of each cell, from the buckets up *)

Rungs(s, c) == {rung[s.part[k]] : k \in c.pLower..c.pUpper}
Places(s, c) == {pos[s.part[k]] : k \in c.pLower..c.pUpper}

Bucket(s, i) ==
  LET c == s.node[i]
  IN  SetNode(s, i, [c EXCEPT !.lo = Min(Places(s, c)), !.hi = Max(Places(s, c)), !.m = Held(c),
                              !.uMinRung = Min(Rungs(s, c)), !.uMaxRung = Max(Rungs(s, c))])

CombineCells_FirstRung(c, c1, c2) ==
  [c EXCEPT !.lo = Min({c1.lo, c2.lo}), !.hi = Max({c1.hi, c2.hi}), !.m = c1.m + c2.m,
            !.uMinRung = Min({c1.uMinRung, c2.uMinRung}), !.uMaxRung = c1.uMaxRung]

\* pkdCombineCells1 and 2
CombineCells(c, c1, c2) ==
  [c EXCEPT !.lo = Min({c1.lo, c2.lo}), !.hi = Max({c1.hi, c2.hi}), !.m = c1.m + c2.m,
            !.uMinRung = Min({c1.uMinRung, c2.uMinRung}), !.uMaxRung = Max({c1.uMaxRung, c2.uMaxRung})]

Combine(s, i) ==
  LET c == s.node[i]
  IN  SetNode(s, i, CombineCells(c, s.node[c.iLower], s.node[c.iLower + 1]))

Needs_Path(path) == Len(path) + 1

\* Entries of the walk's stack, for the cell below the last of the path
Needs(path) == Len(path) + 2

\* path holds the cells above iNode: S[0..nDepth-2].  The walk needs a stack as
\* deep as the deepest path.
RECURSIVE Descent(_, _, _, _), Climb(_, _, _, _)
Descent(s, i, path, iRoot) ==
  LET below == s.node[i].iLower
      deeper == [s EXCEPT !.nMaxStack = Max({@, Needs(path)})]
  IN  IF below # 0 THEN Descent(deeper, below, Append(path, i), iRoot)
                   ELSE Climb(Bucket(s, i), i, path, iRoot)
Climb(s, i, path, iRoot) ==
  IF i % 2 = 0 /\ i # iRoot THEN Descent(s, i + 1, path, iRoot)
  ELSE IF path = <<>> THEN s
  ELSE Climb(Combine(s, Last(path)), Last(path), Front(path), iRoot)

Create(s, iRoot) ==
  IF Held(s.node[iRoot]) <= 0
  THEN SetNode(s, iRoot, [s.node[iRoot] EXCEPT !.uMinRung = MaxRung, !.uMaxRung = 0, !.m = 0])
  ELSE Descent(s, iRoot, <<>>, iRoot)

\* Opens the cache of the tree over the nodes there are now.
OpenCellCache(s, uRoot) == [s EXCEPT !.cells[uRoot] = s.nNodes]

pkdTreeBuild(s, uRoot, uTemp, dMaxMax) ==
  LET start == pkdTreeAlignNode(s)
      built == IF uTemp = 0 THEN BuildTemp(start, uRoot, Unbounded)
                            ELSE BuildFromTemplate(start, uRoot, uTemp, dMaxMax)
  IN  OpenCellCache(Create(built, uRoot), uRoot)
------------------------------------------------------------------------------
(* The top tree.  "threads" is not in the code: the threads a top cell stands for. *)

TopLeaf(pkd, t, uRoot) ==
  [pkd[t].node[uRoot] EXCEPT !.bTopTree = TRUE, !.bGroup = FALSE, !.bRemote = TRUE,
                             !.pLower = t, !.pUpper = t, !.threads = {t}]

\* pstBuildTree of the threads first..first+n-1, with links relative to each cell
RECURSIVE TopTree(_, _, _, _)
TopTree(pkd, first, n, uRoot) ==
  IF n = 1 THEN <<TopLeaf(pkd, first, uRoot)>> ELSE
  LET nLower == n \div 2
      lower == TopTree(pkd, first, nLower, uRoot)
      upper == TopTree(pkd, first + nLower, n - nLower, uRoot)
      cell == [Head(lower) EXCEPT !.bRemote = FALSE, !.iLower = 1, !.pLower = 0,
                                  !.pUpper = nLower * 2, !.threads = first..first + n - 1]
  IN  <<CombineCells(cell, Head(lower), Head(upper))>> \o lower \o upper

\* A cell as thread t keeps it at index i: absolute links, and its own root's in
\* the place of the cell that stands for it.
LocalCopy(s, t, uRoot, i, c) ==
  LET root == s.node[uRoot]
  IN  IF ~c.bRemote THEN [c EXCEPT !.bGroup = FALSE, !.iLower = @ + i, !.pUpper = @ + i]
      ELSE IF c.pLower = t
      THEN [c EXCEPT !.bGroup = FALSE, !.pLower = root.pLower, !.pUpper = root.pUpper,
                     !.iLower = root.iLower, !.bRemote = FALSE, !.bTopTree = FALSE]
      ELSE [c EXCEPT !.bGroup = FALSE]

pkdDistribTopTree_NoAlloc(s, t, uRoot, top) ==
  LET iTop == s.nNodes
      here == iTop..iTop + Len(top) - 1
  IN  [s EXCEPT !.iTopTree[uRoot] = iTop,
                !.node = [j \in DOMAIN @ \cup here |->
                   IF j \in here THEN LocalCopy(s, t, uRoot, j, top[j - iTop + 1]) ELSE @[j]]]

pkdDistribTopTree(s, t, uRoot, top) ==
  LET iTop == s.nNodes
      here == iTop..iTop + Len(top) - 1
  IN  [s EXCEPT !.nNodes = @ + Len(top), !.iTopTree[uRoot] = iTop,
                !.node = [j \in DOMAIN @ \cup here |->
                   IF j \in here THEN LocalCopy(s, t, uRoot, j, top[j - iTop + 1]) ELSE @[j]]]
=============================================================================
