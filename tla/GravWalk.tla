------------------------------ MODULE GravWalk ------------------------------
(***************************************************************************)
(* The gravity walk of one thread (processCheckList and pkdGravWalk in      *)
(* gravity/walk2.cxx).  It descends the thread's tree of active particles,  *)
(* the sinks, with a list of cells to check.  The check list starts with    *)
(* the top trees, which stand for the particles of all threads, the         *)
(* sources.  Every entry is opened, put on one of the interaction lists,    *)
(* added to the local expansion, or left for the next level; what the       *)
(* sibling of a cell needs is kept on a stack.                              *)
(*                                                                         *)
(* Which of two cells is large for the other and whether they are far apart *)
(* is open here, except that cells which share a particle are not far apart. *)
(* clNew, which becomes cl when cl is used up, is the tail of cl, and        *)
(* S[iStack+1].cl has a variable of its own, stays.                         *)
(***************************************************************************)
EXTENDS Integers, Sequences, FiniteSets, SequencesExt

CONSTANTS Thread,       \* thread ids: 0..nThreads-1
          HugeCount     \* particles a cell of a top tree is said to have

ASSUME WalkAssumption == Thread \subseteq Nat /\ HugeCount \in Nat /\ HugeCount >= 3

VARIABLES pkd,        \* each thread's nodes and particles, as built (module KDTree)
          rungOf,     \* the rung of each of the walking thread's particles, by index
          at,         \* where the walk is: "idle", "check" or "walked"
          self,       \* the thread that walks
          scope,      \* its sink tree, the second source tree or 0, and the boxes there are
          lowest,     \* uRungLo; uRungHi is the highest rung there is
          iCell,      \* the sink cell
          cl, stays, ilp, ilc, L, S,
          nForced     \* how often each of its particles has had its force calculated

walk == <<rungOf, at, self, scope, lowest, iCell, cl, stays, ilp, ilc, L, S, nForced>>

------------------------------------------------------------------------------
(* Check entries *)

Node(t, i) == pkd[t].node[i]
k == Node(self, iCell)

IsParticle(e) == e.iCell < 0

\* pkdGetChildCells: index and thread of the children of a cell found on thread id
LowerChild(c, id) == [i |-> c.iLower, id |-> IF c.bTopTree /\ c.bRemote THEN c.pLower ELSE id]
UpperChild(c, id) ==
  [i |-> IF c.bTopTree /\ ~c.bRemote THEN c.pUpper ELSE c.iLower + 1, id |-> LowerChild(c, id).id]

\* getCell: P-P with a cell of a top tree is not to be allowed
Count(c) == IF c.bTopTree THEN HugeCount ELSE c.pUpper - c.pLower + 1

\* addChild
CellEntry(tree, i, id, off) ==
  LET c == Node(id, i)
  IN  [tree |-> tree, iCell |-> i, id |-> id, lower |-> LowerChild(c, id), upper |-> UpperChild(c, id),
       nc |-> Count(c), m |-> c.m, off |-> off]

ParticleEntry(tree, pj, id, off) ==
  [tree |-> tree, iCell |-> -1 - pj, id |-> id, lower |-> [i |-> 0, id |-> 0],
   upper |-> [i |-> 0, id |-> 0], nc |-> 1, m |-> 1, off |-> off]

Source(t, j, off) == [thread |-> t, index |-> j, off |-> off]

RootRange(t, tree) == Node(t, tree).pLower..Node(t, tree).pUpper

\* The particles an entry stands for; an off other than 0 is a replica of the box.
Covers(e) ==
  LET c == Node(e.id, e.iCell)
  IN  IF IsParticle(e) THEN {Source(e.id, -1 - e.iCell, e.off)}
      ELSE IF c.bTopTree THEN UNION {{Source(t, j, e.off) : j \in RootRange(t, e.tree)} : t \in c.threads}
      ELSE {Source(e.id, j, e.off) : j \in c.pLower..c.pUpper}

Sink == {Source(self, j, 0) : j \in k.pLower..k.pUpper}

IsActive(c) == c.uMaxRung >= lowest

\* Boxes that share a particle overlap: minbnd2 is 0.
MayBeFar(e) == Covers(e) \cap Sink = {}
------------------------------------------------------------------------------
(* The list is taken from its head.  iOpenOutcomeCL allows one or more of these   *)
(* for an entry, depending on where it is and how large it is next to the sink.   *)

Ignore(e) ==
  /\ e.m <= 0
  /\ cl' = Tail(cl)
  /\ UNCHANGED <<stays, ilp, ilc, L>>

Keep_OnList(e) ==
  /\ e.m > 0 /\ ~k.bGroup
  /\ cl' = Append(Tail(cl), e)
  /\ UNCHANGED <<stays, ilp, ilc, L>>

\* 0: the sink is the larger one and is opened first
Keep(e) ==
  /\ e.m > 0 /\ ~k.bGroup
  /\ cl' = Tail(cl)
  /\ stays' = Append(stays, e)
  /\ UNCHANGED <<ilp, ilc, L>>

Particles(e) ==
  LET c == Node(e.id, e.iCell)
  IN  IF IsParticle(e) THEN <<e>>
      ELSE [j \in 1..(c.pUpper - c.pLower + 1) |-> ParticleEntry(e.tree, c.pLower + j - 1, e.id, e.off)]

\* 1: a particle, or those of a bucket, for a sink that is a group
ParticleParticle(e) ==
  /\ e.m > 0 /\ k.bGroup /\ e.lower.i = 0
  /\ cl' = Tail(cl)
  /\ ilp' = ilp \o Particles(e)
  /\ UNCHANGED <<stays, ilc, L>>

\* 2: a bucket that is large for the sink
OpenBucket(e) ==
  /\ e.m > 0 /\ ~IsParticle(e) /\ e.lower.i = 0
  /\ cl' = Tail(cl) \o Particles(e)
  /\ UNCHANGED <<stays, ilp, ilc, L>>

Children(e) ==
  <<CellEntry(e.tree, e.lower.i, e.lower.id, e.off), CellEntry(e.tree, e.upper.i, e.upper.id, e.off)>>

\* 3: a cell that is large for the sink, or close to a group
OpenCell(e) ==
  /\ e.m > 0 /\ e.lower.i # 0
  /\ cl' = Tail(cl) \o Children(e)
  /\ UNCHANGED <<stays, ilp, ilc, L>>

\* 4: for a group, the multipole of a cell of three or more particles
Multipole(e) ==
  /\ e.m > 0 /\ k.bGroup /\ e.nc >= 3 /\ MayBeFar(e)
  /\ cl' = Tail(cl)
  /\ ilc' = Append(ilc, e)
  /\ UNCHANGED <<stays, ilp, L>>

\* 8: far for the whole sink cell
LocalExpansion(e) ==
  /\ e.m > 0 /\ MayBeFar(e)
  /\ cl' = Tail(cl)
  /\ L' = Append(L, e)
  /\ UNCHANGED <<stays, ilp, ilc>>

CheckEntry ==
  /\ at = "check" /\ cl # <<>>
  /\ LET e == Head(cl)
     IN  Ignore(e) \/ Keep(e) \/ ParticleParticle(e) \/ OpenBucket(e) \/ OpenCell(e)
         \/ Multipole(e) \/ LocalExpansion(e)
  /\ UNCHANGED <<pkd, rungOf, at, self, scope, lowest, iCell, S, nForced>>
------------------------------------------------------------------------------
(* The list is used up: the next sink cell *)

\* The lower child if it is active, with what its sibling needs on the stack if
\* that is active as well; otherwise the sibling.
Frame(iSib) == [iNode |-> iSib, cl |-> stays, nPart |-> Len(ilp), nCell |-> Len(ilc), L |-> L]

Descend ==
  /\ at = "check" /\ cl = <<>> /\ ~k.bGroup
  /\ LET lower == k.iLower
         upper == lower + 1
     IN  /\ iCell' = IF IsActive(Node(self, lower)) THEN lower ELSE upper
         /\ S' = IF IsActive(Node(self, lower)) /\ IsActive(Node(self, upper))
                 THEN Append(S, Frame(upper)) ELSE S
  /\ cl' = stays
  /\ stays' = <<>>
  /\ UNCHANGED <<pkd, rungOf, at, self, scope, lowest, ilp, ilc, L, nForced>>

\* pkdGravInteract for the active particles of the group
Interacted ==
  [j \in DOMAIN nForced |-> nForced[j] + IF j \in k.pLower..k.pUpper /\ rungOf[j] >= lowest THEN 1 ELSE 0]

Pop_KeepLists ==
  LET f == Last(S)
  IN  /\ iCell' = f.iNode /\ cl' = f.cl /\ L' = f.L /\ S' = Front(S)
      /\ UNCHANGED <<at, ilp, ilc>>

\* The sibling, with the lists as they were when it was put on the stack
Pop ==
  LET f == Last(S)
  IN  /\ iCell' = f.iNode /\ cl' = f.cl /\ L' = f.L /\ S' = Front(S)
      /\ ilp' = SubSeq(ilp, 1, f.nPart) /\ ilc' = SubSeq(ilc, 1, f.nCell)
      /\ UNCHANGED at

Finish ==
  /\ at' = "walked"
  /\ UNCHANGED <<iCell, cl, ilp, ilc, L, S>>

Interact ==
  /\ at = "check" /\ cl = <<>> /\ k.bGroup
  /\ nForced' = Interacted
  /\ IF S = <<>> THEN Finish ELSE Pop
  /\ stays' = <<>>
  /\ UNCHANGED <<pkd, rungOf, self, scope, lowest>>
------------------------------------------------------------------------------
(* pkdGravWalk *)

Trees == {scope.iRoot1, scope.iRoot2} \ {0}

\* Every replica of the box, of one or of both trees
Checks(t, iRoot1, iRoot2, boxes) ==
  LET nRoots == IF iRoot2 = 0 THEN 1 ELSE 2
      root(n) == IF n % nRoots = 0 THEN iRoot1 ELSE iRoot2
  IN  [n \in 1..(boxes * nRoots) |->
         CellEntry(root(n - 1), pkd[t].iTopTree[root(n - 1)], t, (n - 1) \div nRoots)]

\* A thread without active particles in the tree does not walk.
StartWalk(t, iRoot1, iRoot2, boxes, uRungLo, rungs) ==
  LET root == Node(t, iRoot1)
      walks == root.pLower <= root.pUpper /\ root.uMaxRung >= uRungLo
  IN  /\ at = "idle"
      /\ self' = t /\ lowest' = uRungLo /\ rungOf' = rungs
      /\ scope' = [iRoot1 |-> iRoot1, iRoot2 |-> iRoot2, boxes |-> boxes]
      /\ iCell' = iRoot1
      /\ at' = IF walks THEN "check" ELSE "walked"
      /\ cl' = IF walks THEN Checks(t, iRoot1, iRoot2, boxes) ELSE <<>>
      /\ stays' = <<>> /\ ilp' = <<>> /\ ilc' = <<>> /\ L' = <<>> /\ S' = <<>>
      /\ nForced' = [j \in DOMAIN rungs |-> 0]
      /\ UNCHANGED pkd

WalkStep == CheckEntry \/ Descend \/ Interact
------------------------------------------------------------------------------
(* What a walk is given *)

\* The nodes of a thread's own tree: its root and those that were allocated for it.
BuiltNodes(t, r) ==
  {r} \cup IF Node(t, r).iLower = 0 THEN {}
           ELSE DOMAIN pkd[t].node \cap Node(t, r).iLower..(pkd[t].cells[r] - 1)

TopCells(t, r) == pkd[t].iTopTree[r]..(pkd[t].iTopTree[r] + 2 * Cardinality(Thread) - 2)

Within(a, c) == c.pLower <= a.pLower /\ a.pUpper <= c.pUpper

\* The cells from the root down to node i.
Path(t, r, i) == {j \in BuiltNodes(t, r) : Within(Node(t, i), Node(t, j))}

\* The children of a cell share its particles, and each has some; a bucket is a group;
\* the stack is as deep as the tree; an empty cell is one without mass.
BuiltSound(t, r) ==
  /\ {pkd[t].cells[r], pkd[t].nMaxStack} \subseteq Int
  /\ \A i \in BuiltNodes(t, r) :
       LET c == Node(t, i)
           a == Node(t, c.iLower)
           b == Node(t, c.iLower + 1)
       IN  /\ i \in Nat /\ i < pkd[t].cells[r] /\ ~c.bTopTree
           /\ c.pLower \in Nat /\ {c.pUpper, c.iLower, c.m} \subseteq Int
           /\ c.m > 0 <=> c.pLower <= c.pUpper
           /\ Cardinality(Path(t, r, i)) <= pkd[t].nMaxStack
           /\ c.iLower = 0 => c.bGroup
           /\ c.iLower # 0 =>
                /\ {c.iLower, c.iLower + 1} \subseteq BuiltNodes(t, r)
                /\ a.pLower = c.pLower /\ b.pLower = a.pUpper + 1 /\ b.pUpper = c.pUpper
                /\ a.pLower <= a.pUpper /\ b.pLower <= b.pUpper

\* The top tree that thread t has: its root stands for all threads, the children of a
\* cell share its threads, a leaf is the root of its thread's tree, which a walk can only
\* open if it has children, and t's own is not part of the top tree.
TopSound(t, r) ==
  /\ pkd[t].iTopTree[r] \in TopCells(t, r) /\ Node(t, pkd[t].iTopTree[r]).threads = Thread
  /\ \A i \in TopCells(t, r) :
       LET c == Node(t, i)
           lower == Node(t, c.iLower).threads
           upper == Node(t, c.pUpper).threads
       IN  /\ i \in Nat /\ c.m \in Int /\ c.threads \subseteq Thread
           /\ c.m > 0 <=> \E u \in c.threads : RootRange(u, r) # {}
           /\ ~c.bTopTree =>
                /\ c.threads = {t} /\ c.iLower = Node(t, r).iLower
                /\ c.pLower = Node(t, r).pLower /\ c.pUpper = Node(t, r).pUpper
           /\ c.bTopTree /\ c.bRemote =>
                /\ c.pLower # t /\ c.threads = {c.pLower} /\ c.iLower = Node(c.pLower, r).iLower
                /\ c.iLower = 0 => RootRange(c.pLower, r) = {}
           /\ c.bTopTree /\ ~c.bRemote =>
                /\ c.iLower # 0 /\ {c.iLower, c.pUpper} \subseteq TopCells(t, r)
                /\ lower \cap upper = {} /\ lower \cup upper = c.threads

\* Sound trees without a common particle.
Walkable(t, s) ==
  /\ t \in Thread /\ s.boxes \in Nat /\ s.iRoot1 # 0
  /\ \A r \in {s.iRoot1, s.iRoot2} \ {0} : TopSound(t, r) /\ \A u \in Thread : BuiltSound(u, r)
  /\ s.iRoot2 # 0 => \A u \in Thread : RootRange(u, s.iRoot1) \cap RootRange(u, s.iRoot2) = {}

\* No cell forgets a particle that is active.
RungsKnown(t, r, uRungLo, rungs) ==
  \A i \in BuiltNodes(t, r) : \A j \in Node(t, i).pLower..Node(t, i).pUpper :
    j \in DOMAIN rungs /\ (rungs[j] >= uRungLo => Node(t, i).uMaxRung >= uRungLo)

\* Between walks the trees are changed in any way; a walk begins on sound ones.
WalkSound ==
  /\ BuiltSound(self, scope.iRoot1) /\ RungsKnown(self, scope.iRoot1, lowest, rungOf)
  /\ at = "check" => Walkable(self, scope)

Builds == at = "idle" /\ UNCHANGED walk

Starts ==
  /\ StartWalk(self', scope'.iRoot1, scope'.iRoot2, scope'.boxes, lowest', rungOf')
  /\ WalkSound'

Ends == at = "walked" /\ at' = "idle" /\ nForced' = <<>> /\ UNCHANGED pkd

\* Whatever builds the trees and starts the walks does it in such a way that every walk finds
\* sound trees, and active particles only below cells which say so: what pkdTreeBuild,
\* pstBuildTree and pkdDistribTopTree have to give is all that pkdGravWalk needs.
WalkSpec ==
  at = "idle" /\ nForced = <<>> /\ [][Builds \/ Starts \/ WalkStep \/ Ends]_<<walk, pkd>>
------------------------------------------------------------------------------
(* Properties *)

\* The entries cover every particle of every tree and every box once.
CoverOnce(entries) ==
  LET covered == [n \in DOMAIN entries |-> Covers(entries[n])]
  IN  /\ \A m, n \in DOMAIN entries : m # n => covered[m] \cap covered[n] = {}
      /\ \A off \in 0..scope.boxes - 1, t \in Thread, tree \in Trees :
           \A j \in RootRange(t, tree) : \E n \in DOMAIN entries : Source(t, j, off) \in covered[n]

\* The walk comes past each active particle of its tree, and once only.
ForcedOnce ==
  /\ \A j \in DOMAIN nForced : nForced[j] <= 1
  /\ at = "walked" => \A j \in RootRange(self, scope.iRoot1) : rungOf[j] >= lowest => nForced[j] = 1

\* Each active particle comes to its group once, and whatever is opened, kept and accepted
\* on the way, the lists and the local expansion of the sink cell stand for each source
\* particle exactly once, when the group interacts as at any time before; so do the lists
\* that wait on the stack.
EachSourceOnce ==
  /\ ForcedOnce
  /\ at = "check" =>
       /\ CoverOnce(cl \o stays \o ilp \o ilc \o L)
       /\ \A n \in DOMAIN S :
            CoverOnce(S[n].cl \o SubSeq(ilp, 1, S[n].nPart) \o SubSeq(ilc, 1, S[n].nCell) \o S[n].L)

\* What the walk reads by an index is there.  S[iStack+1] is, at every level: the assertion
\* in processCheckList, and the slot above the top of the stack, which it uses without one.
\* What is fetched from another thread is a node of that thread's own tree, and one that
\* was there when the cache over the tree was opened.
IndicesHold ==
  at = "check" =>
    /\ Len(S) < pkd[self].nMaxStack
    /\ \A e \in {(cl \o stays)[n] : n \in DOMAIN (cl \o stays)} :
         e.id # self => IF IsParticle(e) THEN -1 - e.iCell \in RootRange(e.id, e.tree)
                        ELSE e.iCell < pkd[e.id].cells[e.tree] /\ ~Node(e.id, e.iCell).bTopTree

\* The comment in getCell: a cell of a top tree is never opened into particles.
NoParticlesOfTopCells ==
  [][at = "check" /\ cl # <<>> /\ Head(cl).nc = HugeCount =>
       /\ ilp' = ilp
       /\ Len(cl') >= Len(cl) => ~IsParticle(Last(cl'))]_<<walk, pkd>>
=============================================================================
