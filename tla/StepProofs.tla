----------------------------- MODULE StepProofs -----------------------------
(***************************************************************************)
(* Proofs about two parts of a step that share nothing: the gravity walk of *)
(* a thread (GravWalk), over any sound trees of any number of threads, and  *)
(* the decisions on outputs, checkpoints and stops after the step          *)
(* (Outputs), for any parameters and any number of steps, requests, deaths. *)
(*                                                                         *)
(* The walk: what an entry of a list stands for is a set of sources; every  *)
(* way to take an entry replaces it by entries that stand for the same set, *)
(* in one of five lists, so the five together stand for all sources once.   *)
(***************************************************************************)
EXTENDS GravWalk, Outputs, FiniteSetTheorems, SequenceTheorems, TLAPS

------------------------------------------------------------------------------
(* GravWalk: lists of entries *)

\* What the entries of a list stand for, no two of them for the same, and what they have to.
AllOf(s) == UNION {Covers(s[n]) : n \in DOMAIN s}
Apart(s) == \A m, n \in DOMAIN s : m # n => Covers(s[m]) \cap Covers(s[n]) = {}
Wanted(X) ==
  \A off \in 0..scope.boxes - 1, t \in Thread, tree \in Trees :
    \A j \in RootRange(t, tree) : Source(t, j, off) \in X

\* What a list stands for.
LEMMA InAllOf == ASSUME NEW s, NEW x PROVE x \in AllOf(s) <=> \E n \in DOMAIN s : x \in Covers(s[n])
BY DEF AllOf

\* CoverOnce says that no two entries share a source and that none is missing.
LEMMA CoverIs == ASSUME NEW s PROVE CoverOnce(s) <=> Apart(s) /\ Wanted(AllOf(s))
BY InAllOf DEF CoverOnce, Apart, Wanted

\* Two lists together.
LEMMA CatCovers ==
  ASSUME NEW E, NEW a \in Seq(E), NEW b \in Seq(E)
  PROVE  /\ AllOf(a \o b) = AllOf(a) \cup AllOf(b)
         /\ Apart(a \o b) <=> Apart(a) /\ Apart(b) /\ AllOf(a) \cap AllOf(b) = {}
<1> DEFINE c == a \o b
<1>1. /\ Len(a) \in Nat /\ Len(b) \in Nat /\ DOMAIN a = 1..Len(a) /\ DOMAIN b = 1..Len(b) /\ DOMAIN c = 1..(Len(a) + Len(b))
      /\ \A n \in DOMAIN c : c[n] = IF n <= Len(a) THEN a[n] ELSE b[n - Len(a)]
  OBVIOUS
<1>2. \A n \in DOMAIN a : n \in DOMAIN c /\ c[n] = a[n]
  BY <1>1
<1>3. \A n \in DOMAIN b : n + Len(a) \in DOMAIN c /\ c[n + Len(a)] = b[n]
  BY <1>1
<1>4. \A n \in DOMAIN c : (n \in DOMAIN a /\ c[n] = a[n]) \/ (n - Len(a) \in DOMAIN b /\ c[n] = b[n - Len(a)] /\ n \notin DOMAIN a)
  BY <1>1
<1> HIDE DEF c
<1>5. AllOf(c) = AllOf(a) \cup AllOf(b)
  BY <1>2, <1>3, <1>4, InAllOf
<1>6. ASSUME Apart(c) PROVE Apart(a) /\ Apart(b) /\ AllOf(a) \cap AllOf(b) = {}
  <2>1. Apart(a)
    BY <1>2, <1>6 DEF Apart
  <2>2. Apart(b)
    <3>1. \A m, n \in DOMAIN b : m # n => m + Len(a) # n + Len(a)
      BY <1>1
    <3>2. QED
      BY <1>3, <1>6, <3>1 DEF Apart
  <2>3. \A m \in DOMAIN a, n \in DOMAIN b : Covers(a[m]) \cap Covers(b[n]) = {}
    <3>1. \A m \in DOMAIN a, n \in DOMAIN b : m # n + Len(a)
      BY <1>1
    <3>2. QED
      BY <1>2, <1>3, <1>6, <3>1 DEF Apart
  <2>4. QED
    BY <2>1, <2>2, <2>3, InAllOf
<1>7. ASSUME Apart(a), Apart(b), AllOf(a) \cap AllOf(b) = {} PROVE Apart(c)
  <2>1. SUFFICES ASSUME NEW m \in DOMAIN c, NEW n \in DOMAIN c, m # n PROVE Covers(c[m]) \cap Covers(c[n]) = {}
    BY DEF Apart
  <2>2. CASE m \in DOMAIN a /\ n \in DOMAIN a
    BY <1>4, <1>2, <1>7, <2>1, <2>2 DEF Apart
  <2>3. CASE m \notin DOMAIN a /\ n \notin DOMAIN a
    <3>1. m - Len(a) \in DOMAIN b /\ n - Len(a) \in DOMAIN b /\ m - Len(a) # n - Len(a)
      BY <1>1, <1>4, <2>1, <2>3
    <3>2. QED
      BY <1>4, <2>3, <3>1, <1>7 DEF Apart
  <2>4. \A i \in DOMAIN a, j \in DOMAIN b : Covers(a[i]) \cap Covers(b[j]) = {}
    BY <1>7, InAllOf
  <2>5. CASE m \in DOMAIN a /\ n \notin DOMAIN a
    BY <1>2, <1>4, <2>4, <2>5
  <2>6. CASE m \notin DOMAIN a /\ n \in DOMAIN a
    BY <1>2, <1>4, <2>4, <2>6
  <2>7. QED
    BY <2>2, <2>3, <2>5, <2>6
<1>8. QED
  BY <1>5, <1>6, <1>7 DEF c

\* A list of one entry.
LEMMA OneCovers ==
  ASSUME NEW e PROVE AllOf(<<e>>) = Covers(e) /\ Apart(<<e>>)
<1> DEFINE s == <<e>>
<1>1. DOMAIN s = {1} /\ s[1] = e
  OBVIOUS
<1> HIDE DEF s
<1>2. AllOf(s) = Covers(e)
  BY <1>1, InAllOf
<1>3. Apart(s)
  BY <1>1 DEF Apart
<1>4. QED
  BY <1>2, <1>3 DEF s

\* The empty list.
LEMMA NoneCovers == AllOf(<<>>) = {} /\ Apart(<<>>)
BY DEF AllOf, Apart

\* A list and its head.
LEMMA HeadCovers ==
  ASSUME NEW E, NEW s \in Seq(E), s # <<>>
  PROVE  /\ Tail(s) \in Seq(E) /\ Head(s) \in E
         /\ AllOf(s) = Covers(Head(s)) \cup AllOf(Tail(s))
         /\ Apart(s) <=> Apart(Tail(s)) /\ Covers(Head(s)) \cap AllOf(Tail(s)) = {}
<1> DEFINE h == <<Head(s)>>
           t == Tail(s)
<1>1. Head(s) \in E /\ t \in Seq(E) /\ s = h \o t /\ h \in Seq(E)
  OBVIOUS
<1>2. AllOf(h) = Covers(Head(s)) /\ Apart(h)
  BY OneCovers
<1>3. AllOf(h \o t) = AllOf(h) \cup AllOf(t) /\ (Apart(h \o t) <=> Apart(h) /\ Apart(t) /\ AllOf(h) \cap AllOf(t) = {})
  BY <1>1, CatCovers
<1> HIDE DEF h, t
<1>4. QED
  <2>1. AllOf(s) = Covers(Head(s)) \cup AllOf(t) /\ (Apart(s) <=> Apart(t) /\ Covers(Head(s)) \cap AllOf(t) = {})
    BY <1>1, <1>2, <1>3
  <2>2. QED
    BY <1>1, <2>1 DEF t

------------------------------------------------------------------------------
(* Entries *)

Offs == 0..(scope.boxes - 1)

\* The cells a walk may have on its lists.
CellsOf(id, tree) ==
  {i \in BuiltNodes(id, tree) : Within(Node(id, i), Node(id, tree))}
  \cup IF id = self THEN TopCells(self, tree) ELSE {}

Entry ==
  {e \in {CellEntry(tree, i, id, off) : tree \in Trees, i \in Nat, id \in Thread, off \in Offs} :
     e.iCell \in CellsOf(e.id, e.tree)}
  \cup
  {e \in {ParticleEntry(tree, j, id, off) : tree \in Trees, j \in Nat, id \in Thread, off \in Offs} :
     -1 - e.iCell \in RootRange(e.id, e.tree)}

Sound == Walkable(self, scope)

\* The trees of a walk are sound on every thread.
LEMMA SoundTree ==
  ASSUME Sound, NEW tree \in Trees
  PROVE  tree # 0 /\ self \in Thread /\ TopSound(self, tree) /\ \A u \in Thread : BuiltSound(u, tree)
BY DEF Sound, Walkable, Trees

\* What BuiltSound says of a node of a thread's own tree.
LEMMA BuiltNode ==
  ASSUME Sound, NEW tree \in Trees, NEW u \in Thread, NEW i \in BuiltNodes(u, tree), NEW c, c = Node(u, i)
  PROVE  /\ i \in Nat /\ i < pkd[u].cells[tree] /\ pkd[u].cells[tree] \in Int /\ ~c.bTopTree
         /\ c.pLower \in Nat /\ c.pUpper \in Int /\ c.iLower \in Int /\ c.m \in Int
         /\ c.m > 0 <=> c.pLower <= c.pUpper
         /\ c.iLower = 0 => c.bGroup
         /\ c.iLower # 0 =>
              /\ c.iLower \in BuiltNodes(u, tree) /\ c.iLower + 1 \in BuiltNodes(u, tree)
              /\ Node(u, c.iLower).pLower = c.pLower
              /\ Node(u, c.iLower + 1).pLower = Node(u, c.iLower).pUpper + 1
              /\ Node(u, c.iLower + 1).pUpper = c.pUpper
              /\ Node(u, c.iLower).pLower <= Node(u, c.iLower).pUpper
              /\ Node(u, c.iLower + 1).pLower <= Node(u, c.iLower + 1).pUpper
BY SoundTree DEF BuiltSound

\* The root is a node of its tree.
LEMMA RootNode == \A u, tree : tree \in BuiltNodes(u, tree)
BY DEF BuiltNodes

\* What TopSound says of a cell of the top tree.
LEMMA TopNode ==
  ASSUME Sound, NEW tree \in Trees, NEW i \in TopCells(self, tree), NEW c, c = Node(self, i)
  PROVE  /\ i \in Nat /\ c.m \in Int /\ c.threads \subseteq Thread
         /\ c.m > 0 <=> \E u \in c.threads : RootRange(u, tree) # {}
         /\ ~c.bTopTree =>
              /\ c.threads = {self} /\ c.iLower = Node(self, tree).iLower
              /\ c.pLower = Node(self, tree).pLower /\ c.pUpper = Node(self, tree).pUpper
         /\ c.bTopTree /\ c.bRemote =>
              /\ c.pLower # self /\ c.threads = {c.pLower} /\ c.iLower = Node(c.pLower, tree).iLower
              /\ c.iLower = 0 => RootRange(c.pLower, tree) = {}
         /\ c.bTopTree /\ ~c.bRemote =>
              /\ c.iLower # 0 /\ c.iLower \in TopCells(self, tree) /\ c.pUpper \in TopCells(self, tree)
              /\ Node(self, c.iLower).threads \cap Node(self, c.pUpper).threads = {}
              /\ Node(self, c.iLower).threads \cup Node(self, c.pUpper).threads = c.threads
<1> DEFINE d == Node(self, i)
<1>1. /\ i \in Nat /\ d.m \in Int /\ d.threads \subseteq Thread
      /\ d.m > 0 <=> \E u \in d.threads : RootRange(u, tree) # {}
      /\ ~d.bTopTree =>
           /\ d.threads = {self} /\ d.iLower = Node(self, tree).iLower
           /\ d.pLower = Node(self, tree).pLower /\ d.pUpper = Node(self, tree).pUpper
      /\ d.bTopTree /\ d.bRemote =>
           /\ d.pLower # self /\ d.threads = {d.pLower} /\ d.iLower = Node(d.pLower, tree).iLower
           /\ d.iLower = 0 => RootRange(d.pLower, tree) = {}
      /\ d.bTopTree /\ ~d.bRemote =>
           /\ d.iLower # 0 /\ {d.iLower, d.pUpper} \subseteq TopCells(self, tree)
           /\ Node(self, d.iLower).threads \cap Node(self, d.pUpper).threads = {}
           /\ Node(self, d.iLower).threads \cup Node(self, d.pUpper).threads = d.threads
  BY SoundTree, Zenon DEF TopSound
<1> HIDE DEF d
<1>2. c = d
  BY DEF d
<1>3. \A y, z, X : {y, z} \subseteq X => y \in X /\ z \in X
  OBVIOUS
<1>4. QED
  BY <1>1, <1>2, <1>3

\* What makes an entry.
LEMMA IsEntry ==
  /\ \A tree \in Trees, id \in Thread, off \in Offs : \A i \in CellsOf(id, tree) :
       i \in Nat => CellEntry(tree, i, id, off) \in Entry
  /\ \A tree \in Trees, id \in Thread, off \in Offs : \A j \in RootRange(id, tree) :
       j \in Nat => ParticleEntry(tree, j, id, off) \in Entry
<1>1. ASSUME NEW tree \in Trees, NEW id \in Thread, NEW off \in Offs, NEW i \in CellsOf(id, tree), i \in Nat
      PROVE  CellEntry(tree, i, id, off) \in Entry
  <2>1. CellEntry(tree, i, id, off).id = id /\ CellEntry(tree, i, id, off).tree = tree /\ CellEntry(tree, i, id, off).iCell = i
    BY DEF CellEntry
  <2>2. QED
    BY <1>1, <2>1 DEF Entry
<1>2. ASSUME NEW tree \in Trees, NEW id \in Thread, NEW off \in Offs, NEW j \in RootRange(id, tree), j \in Nat
      PROVE  ParticleEntry(tree, j, id, off) \in Entry
  <2>1. /\ ParticleEntry(tree, j, id, off).id = id /\ ParticleEntry(tree, j, id, off).tree = tree
        /\ -1 - ParticleEntry(tree, j, id, off).iCell = j
    BY <1>2 DEF ParticleEntry
  <2>2. QED
    BY <1>2, <2>1 DEF Entry
<1>3. QED
  BY <1>1, <1>2

\* An entry is of a cell or of a particle.
LEMMA EntryIs ==
  ASSUME NEW e \in Entry
  PROVE  \/ \E tree \in Trees, id \in Thread, off \in Offs, i \in Nat :
              i \in CellsOf(id, tree) /\ e = CellEntry(tree, i, id, off)
         \/ \E tree \in Trees, id \in Thread, off \in Offs, j \in Nat :
              j \in RootRange(id, tree) /\ e = ParticleEntry(tree, j, id, off)
<1>1. CASE e \in {CellEntry(tree, i, id, off) : tree \in Trees, i \in Nat, id \in Thread, off \in Offs} /\ e.iCell \in CellsOf(e.id, e.tree)
  <2>1. PICK tree \in Trees, i \in Nat, id \in Thread, off \in Offs : e = CellEntry(tree, i, id, off)
    BY <1>1
  <2>2. e.id = id /\ e.tree = tree /\ e.iCell = i
    BY <2>1 DEF CellEntry
  <2>3. QED
    BY <1>1, <2>1, <2>2
<1>2. CASE e \in {ParticleEntry(tree, j, id, off) : tree \in Trees, j \in Nat, id \in Thread, off \in Offs} /\ -1 - e.iCell \in RootRange(e.id, e.tree)
  <2>1. PICK tree \in Trees, j \in Nat, id \in Thread, off \in Offs : e = ParticleEntry(tree, j, id, off)
    BY <1>2
  <2>2. e.id = id /\ e.tree = tree /\ -1 - e.iCell = j
    BY <2>1 DEF ParticleEntry
  <2>3. QED
    BY <1>2, <2>1, <2>2
<1>3. QED
  BY <1>1, <1>2 DEF Entry

\* A particle's entry covers that particle.
LEMMA ParticleCovers ==
  ASSUME NEW tree, NEW j \in Nat, NEW id, NEW off, NEW e, e = ParticleEntry(tree, j, id, off)
  PROVE  Covers(e) = {Source(id, j, off)} /\ IsParticle(e) /\ e.lower.i = 0 /\ e.m = 1 /\ e.iCell = -1 - j
<1>1. e.iCell = -1 - j /\ e.id = id /\ e.off = off /\ e.lower.i = 0 /\ e.m = 1
  BY DEF ParticleEntry
<1>2. IsParticle(e) /\ -1 - e.iCell = j
  BY <1>1 DEF IsParticle
<1>3. QED
  BY <1>1, <1>2 DEF Covers

\* The fields of a cell's entry.
LEMMA CellFields ==
  ASSUME NEW tree, NEW i \in Nat, NEW id, NEW off, NEW e, e = CellEntry(tree, i, id, off)
  PROVE  /\ e.tree = tree /\ e.iCell = i /\ e.id = id /\ e.off = off /\ e.m = Node(id, i).m /\ ~IsParticle(e)
         /\ e.lower = LowerChild(Node(id, i), id) /\ e.upper = UpperChild(Node(id, i), id)
BY DEF CellEntry, IsParticle

\* The particles of a node in the order of their indices.
Held(id, c, off) == {Source(id, j, off) : j \in c.pLower..c.pUpper}
Stored(id, tree, off) == {Source(id, j, off) : j \in RootRange(id, tree)}
OfThreads(X, tree, off) == UNION {Stored(u, tree, off) : u \in X}

\* What a cell's entry stands for.
LEMMA CellCovers ==
  ASSUME NEW tree, NEW i \in Nat, NEW id, NEW off, NEW e, e = CellEntry(tree, i, id, off)
  PROVE  Covers(e) = IF Node(id, i).bTopTree THEN OfThreads(Node(id, i).threads, tree, off) ELSE Held(id, Node(id, i), off)
<1>1. e.tree = tree /\ e.iCell = i /\ e.id = id /\ e.off = off /\ ~IsParticle(e)
  BY CellFields
<1>2. Covers(e) = LET c == Node(id, i) IN
        IF c.bTopTree THEN UNION {{Source(t, j, off) : j \in RootRange(t, tree)} : t \in c.threads}
        ELSE {Source(id, j, off) : j \in c.pLower..c.pUpper}
  BY <1>1 DEF Covers
<1>3. QED
  BY <1>2 DEF OfThreads, Held, Stored

\* The five kinds of entries.
LEMMA EntryKinds ==
  ASSUME Sound, NEW e \in Entry
  PROVE  \/ \E tree \in Trees, id \in Thread, off \in Offs, j \in Nat :
              j \in RootRange(id, tree) /\ e = ParticleEntry(tree, j, id, off)
         \/ \E tree \in Trees, id \in Thread, off \in Offs, i \in Nat :
              /\ e = CellEntry(tree, i, id, off)
              /\ i \in BuiltNodes(id, tree) /\ Within(Node(id, i), Node(id, tree))
         \/ \E tree \in Trees, off \in Offs, i \in Nat :
              /\ e = CellEntry(tree, i, self, off) /\ i \in TopCells(self, tree)
BY EntryIs DEF CellsOf

\* An entry without mass stands for nothing.
LEMMA EmptyEntry ==
  ASSUME Sound, NEW e \in Entry, e.m <= 0
  PROVE  Covers(e) = {}
<1>1. CASE \E tree \in Trees, id \in Thread, off \in Offs, j \in Nat :
              j \in RootRange(id, tree) /\ e = ParticleEntry(tree, j, id, off)
  BY <1>1, ParticleCovers
<1>2. ASSUME NEW tree \in Trees, NEW id \in Thread, NEW off \in Offs, NEW i \in BuiltNodes(id, tree), i \in Nat,
             e = CellEntry(tree, i, id, off)
      PROVE  Covers(e) = {}
  <2>1. ~Node(id, i).bTopTree /\ Node(id, i).m \in Int /\ (Node(id, i).m > 0 <=> Node(id, i).pLower <= Node(id, i).pUpper)
        /\ Node(id, i).pLower \in Int /\ Node(id, i).pUpper \in Int
    BY <1>2, BuiltNode
  <2>2. e.m = Node(id, i).m
    BY <1>2, CellFields
  <2>3. Node(id, i).pLower..Node(id, i).pUpper = {}
    BY <2>1, <2>2
  <2>4. Covers(e) = Held(id, Node(id, i), off)
    BY <1>2, <2>1, CellCovers
  <2>5. QED
    BY <2>3, <2>4 DEF Held
<1>3. ASSUME NEW tree \in Trees, NEW off \in Offs, NEW i \in TopCells(self, tree), i \in Nat, e = CellEntry(tree, i, self, off)
      PROVE  Covers(e) = {}
  <2> DEFINE c == Node(self, i)
  <2>1. c.m \in Int /\ (c.m > 0 <=> \E u \in c.threads : RootRange(u, tree) # {})
        /\ (~c.bTopTree => c.threads = {self} /\ c.pLower = Node(self, tree).pLower /\ c.pUpper = Node(self, tree).pUpper)
    BY <1>3, TopNode
  <2>2. e.m = c.m
    BY <1>3, CellFields
  <2>3. Covers(e) = IF c.bTopTree THEN OfThreads(c.threads, tree, off) ELSE Held(self, c, off)
    BY <1>3, CellCovers
  <2> HIDE DEF c
  <2>4. \A u \in c.threads : RootRange(u, tree) = {}
    BY <2>1, <2>2
  <2>5. CASE c.bTopTree
    <3>1. \A u \in c.threads : Stored(u, tree, off) = {}
      BY <2>4 DEF Stored
    <3>2. QED
      BY <3>1, <2>3, <2>5 DEF OfThreads
  <2>6. CASE ~c.bTopTree
    <3>1. c.pLower..c.pUpper = {}
      BY <2>1, <2>4, <2>6 DEF RootRange
    <3>2. QED
      BY <3>1, <2>3, <2>6 DEF Held
  <2>7. QED
    BY <2>5, <2>6
<1>4. QED
  BY <1>1, <1>2, <1>3, EntryKinds

\* Entries of particles with successive indices stand for them once each.
LEMMA OneEach ==
  ASSUME NEW id, NEW off, NEW lo \in Nat, NEW hi \in Int, NEW s, DOMAIN s = 1..(hi - lo + 1),
         \A n \in DOMAIN s : Covers(s[n]) = {Source(id, lo + n - 1, off)}
  PROVE  AllOf(s) = {Source(id, j, off) : j \in lo..hi} /\ Apart(s)
<1>1. \A n \in DOMAIN s : lo + n - 1 \in lo..hi
  OBVIOUS
<1>2. \A j \in lo..hi : j - lo + 1 \in DOMAIN s /\ lo + (j - lo + 1) - 1 = j
  OBVIOUS
<1>3. AllOf(s) \subseteq {Source(id, j, off) : j \in lo..hi}
  BY <1>1, InAllOf
<1>4. ASSUME NEW j \in lo..hi PROVE Source(id, j, off) \in AllOf(s)
  <2> DEFINE n == j - lo + 1
  <2>1. n \in DOMAIN s /\ lo + n - 1 = j
    BY <1>2
  <2>2. Source(id, j, off) \in Covers(s[n])
    BY <2>1
  <2>3. QED
    BY <2>1, <2>2, InAllOf
<1>5. ASSUME NEW m \in DOMAIN s, NEW n \in DOMAIN s, m # n PROVE Covers(s[m]) \cap Covers(s[n]) = {}
  <2>1. lo + m - 1 # lo + n - 1
    BY <1>5
  <2>2. \A i, j : i # j => Source(id, i, off) # Source(id, j, off)
    BY DEF Source
  <2>3. Source(id, lo + m - 1, off) # Source(id, lo + n - 1, off)
    BY <2>1, <2>2
  <2>4. Covers(s[m]) = {Source(id, lo + m - 1, off)} /\ Covers(s[n]) = {Source(id, lo + n - 1, off)}
    OBVIOUS
  <2>5. QED
    BY <2>3, <2>4
<1>6. QED
  BY <1>3, <1>4, <1>5 DEF Apart

\* The particles of a bucket stand for what it stands for, once each.
LEMMA HeldEntries ==
  ASSUME NEW tree \in Trees, NEW id \in Thread, NEW off \in Offs, NEW lo \in Nat, NEW hi \in Int, lo <= hi,
         lo..hi \subseteq RootRange(id, tree)
  PROVE  LET s == [n \in 1..(hi - lo + 1) |-> ParticleEntry(tree, lo + n - 1, id, off)]
         IN  s \in Seq(Entry) /\ AllOf(s) = {Source(id, j, off) : j \in lo..hi} /\ Apart(s)
<1> DEFINE s == [n \in 1..(hi - lo + 1) |-> ParticleEntry(tree, lo + n - 1, id, off)]
<1>1. \A n \in 1..(hi - lo + 1) : lo + n - 1 \in lo..hi /\ lo + n - 1 \in Nat
  OBVIOUS
<1>2. \A n \in 1..(hi - lo + 1) : ParticleEntry(tree, lo + n - 1, id, off) \in Entry
  BY <1>1, IsEntry
<1>3. \A n \in 1..(hi - lo + 1) : Covers(ParticleEntry(tree, lo + n - 1, id, off)) = {Source(id, lo + n - 1, off)}
  BY <1>1, ParticleCovers
<1>4. s \in [1..(hi - lo + 1) -> Entry] /\ hi - lo + 1 \in Nat
  BY <1>2
<1>5. s \in Seq(Entry)
  <2>1. \A N \in Nat : \A f \in [1..N -> Entry] : f \in Seq(Entry)
    OBVIOUS
  <2>2. QED
    BY <1>4, <2>1
<1>6. DOMAIN s = 1..(hi - lo + 1) /\ \A n \in DOMAIN s : Covers(s[n]) = {Source(id, lo + n - 1, off)}
  BY <1>3
<1> HIDE DEF s
<1>7. AllOf(s) = {Source(id, j, off) : j \in lo..hi} /\ Apart(s)
  BY <1>6, OneEach
<1>8. QED
  BY <1>5, <1>7 DEF s

\* The particles of a bucket stand for what the bucket does, once each.
LEMMA BucketOpens ==
  ASSUME Sound, NEW e \in Entry, ~IsParticle(e), e.lower.i = 0, e.m > 0
  PROVE  Particles(e) \in Seq(Entry) /\ AllOf(Particles(e)) = Covers(e) /\ Apart(Particles(e))
<1>1. ASSUME NEW tree \in Trees, NEW id \in Thread, NEW off \in Offs, NEW i \in Nat, e = CellEntry(tree, i, id, off),
             NEW c, c = Node(id, i), ~c.bTopTree, c.pLower \in Nat, c.pUpper \in Int, c.pLower <= c.pUpper,
             c.pLower..c.pUpper \subseteq RootRange(id, tree)
      PROVE  Particles(e) \in Seq(Entry) /\ AllOf(Particles(e)) = Covers(e) /\ Apart(Particles(e))
  <2>1. e.tree = tree /\ e.iCell = i /\ e.id = id /\ e.off = off
    BY <1>1, CellFields
  <2>2. Particles(e) = [n \in 1..(c.pUpper - c.pLower + 1) |-> ParticleEntry(tree, c.pLower + n - 1, id, off)]
    BY <1>1, <2>1 DEF Particles
  <2>3. Covers(e) = {Source(id, j, off) : j \in c.pLower..c.pUpper}
    BY <1>1, CellCovers DEF Held
  <2> DEFINE lo == c.pLower
             hi == c.pUpper
  <2>4. lo \in Nat /\ hi \in Int /\ lo <= hi /\ lo..hi \subseteq RootRange(id, tree)
    BY <1>1
  <2>5. Particles(e) = [n \in 1..(hi - lo + 1) |-> ParticleEntry(tree, lo + n - 1, id, off)]
        /\ Covers(e) = {Source(id, j, off) : j \in lo..hi}
    BY <2>2, <2>3
  <2> HIDE DEF lo, hi
  <2> DEFINE s == [n \in 1..(hi - lo + 1) |-> ParticleEntry(tree, lo + n - 1, id, off)]
  <2>6. s \in Seq(Entry) /\ AllOf(s) = {Source(id, j, off) : j \in lo..hi} /\ Apart(s)
    BY <2>4, HeldEntries
  <2> HIDE DEF s
  <2>7. Particles(e) = s
    BY <2>5 DEF s
  <2>8. QED
    BY <2>5, <2>6, <2>7
<1>2. \A tree \in Trees, id \in Thread :
        /\ Node(id, tree).pLower \in Nat /\ Node(id, tree).pUpper \in Int
        /\ RootRange(id, tree) = Node(id, tree).pLower..Node(id, tree).pUpper
  BY BuiltNode, RootNode DEF RootRange
<1>3. ASSUME NEW tree \in Trees, NEW id \in Thread, NEW off \in Offs, NEW i \in BuiltNodes(id, tree), i \in Nat,
             e = CellEntry(tree, i, id, off), Within(Node(id, i), Node(id, tree))
      PROVE  Particles(e) \in Seq(Entry) /\ AllOf(Particles(e)) = Covers(e) /\ Apart(Particles(e))
  <2> DEFINE c == Node(id, i)
  <2>1. ~c.bTopTree /\ (c.m > 0 <=> c.pLower <= c.pUpper) /\ c.pLower \in Nat /\ c.pUpper \in Int
    BY <1>3, BuiltNode
  <2>2. e.m = c.m
    BY <1>3, CellFields
  <2>3. c.pLower..c.pUpper \subseteq RootRange(id, tree)
    BY <1>2, <1>3, <2>1 DEF Within
  <2>4. QED
    BY <1>1, <1>3, <2>1, <2>2, <2>3
<1>4. ASSUME NEW tree \in Trees, NEW off \in Offs, NEW i \in TopCells(self, tree), i \in Nat, e = CellEntry(tree, i, self, off)
      PROVE  Particles(e) \in Seq(Entry) /\ AllOf(Particles(e)) = Covers(e) /\ Apart(Particles(e))
  <2> DEFINE c == Node(self, i)
  <2>1. e.m = c.m /\ e.lower = LowerChild(c, self)
    BY <1>4, CellFields
  <2>2. c.iLower = 0
    BY <2>1 DEF LowerChild
  <2>3. c.m > 0 <=> \E u \in c.threads : RootRange(u, tree) # {}
    BY <1>4, TopNode
  <2>4. CASE c.bTopTree
    <3>1. c.bRemote /\ c.threads = {c.pLower} /\ RootRange(c.pLower, tree) = {}
      BY <1>4, <2>2, <2>4, TopNode
    <3>2. QED
      BY <2>1, <2>3, <3>1
  <2>5. CASE ~c.bTopTree
    <3>1. c.threads = {self} /\ c.pLower = Node(self, tree).pLower /\ c.pUpper = Node(self, tree).pUpper
      BY <1>4, <2>5, TopNode
    <3>2. self \in Thread
      BY SoundTree
    <3>3. c.pLower \in Nat /\ c.pUpper \in Int /\ RootRange(self, tree) = c.pLower..c.pUpper
      BY <1>2, <3>1, <3>2
    <3>4. c.pLower <= c.pUpper
      BY <2>1, <2>3, <3>1, <3>3
    <3>5. c.pLower..c.pUpper \subseteq RootRange(self, tree)
      BY <3>3
    <3> HIDE DEF c
    <3>6. \A d : d = Node(self, i) /\ d = c => Particles(e) \in Seq(Entry) /\ AllOf(Particles(e)) = Covers(e) /\ Apart(Particles(e))
      BY <1>1, <1>4, <2>5, <3>2, <3>3, <3>4, <3>5
    <3>7. QED
      BY <3>6 DEF c
  <2>6. QED
    BY <2>4, <2>5
<1>5. QED
  BY <1>3, <1>4, EntryKinds, ParticleCovers

\* The children of a cell stand for what it stands for, once each.
LEMMA PairCovers ==
  ASSUME NEW e1 \in Entry, NEW e2 \in Entry, Covers(e1) \cap Covers(e2) = {}, NEW s, s = <<e1, e2>>
  PROVE  s \in Seq(Entry) /\ AllOf(s) = Covers(e1) \cup Covers(e2) /\ Apart(s)
<1>1. s \in Seq(Entry) /\ DOMAIN s = {1, 2} /\ s[1] = e1 /\ s[2] = e2
  OBVIOUS
<1>2. AllOf(s) = Covers(e1) \cup Covers(e2)
  BY <1>1, InAllOf
<1>3. QED
  BY <1>1, <1>2 DEF Apart

\* The children of a node split its particles.
LEMMA ChildrenOfBuilt ==
  ASSUME Sound, NEW tree \in Trees, NEW id \in Thread, NEW off \in Offs, NEW i \in BuiltNodes(id, tree),
         Within(Node(id, i), Node(id, tree)), Node(id, i).iLower # 0,
         NEW e1, e1 = CellEntry(tree, Node(id, i).iLower, id, off),
         NEW e2, e2 = CellEntry(tree, Node(id, i).iLower + 1, id, off)
  PROVE  /\ e1 \in Entry /\ e2 \in Entry /\ Covers(e1) \cap Covers(e2) = {}
         /\ Covers(e1) \cup Covers(e2) = Held(id, Node(id, i), off)
<1> DEFINE c == Node(id, i)
           r == Node(id, tree)
           i1 == c.iLower
           i2 == c.iLower + 1
           a == Node(id, i1)
           b == Node(id, i2)
<1>1. /\ c.pLower \in Nat /\ c.pUpper \in Int /\ i1 \in BuiltNodes(id, tree) /\ i2 \in BuiltNodes(id, tree)
      /\ a.pLower = c.pLower /\ b.pLower = a.pUpper + 1 /\ b.pUpper = c.pUpper
      /\ a.pLower <= a.pUpper /\ b.pLower <= b.pUpper
  BY BuiltNode
<1>2. i1 \in Nat /\ i2 \in Nat /\ ~a.bTopTree /\ ~b.bTopTree /\ a.pUpper \in Int /\ a.pLower \in Nat /\ b.pLower \in Nat /\ b.pUpper \in Int
  BY <1>1, BuiltNode
<1>3. r.pLower \in Nat /\ r.pUpper \in Int
  BY BuiltNode, RootNode
<1>4. Within(a, r) /\ Within(b, r)
  BY <1>1, <1>2, <1>3 DEF Within
<1>5. e1 \in Entry /\ e2 \in Entry
  <2>1. i1 \in CellsOf(id, tree) /\ i2 \in CellsOf(id, tree)
    BY <1>1, <1>4 DEF CellsOf
  <2>2. QED
    BY <1>2, <2>1, IsEntry
<1>6. Covers(e1) = Held(id, a, off) /\ Covers(e2) = Held(id, b, off)
  BY <1>2, CellCovers
<1>7. a.pLower..a.pUpper \cap b.pLower..b.pUpper = {} /\ c.pLower..c.pUpper = a.pLower..a.pUpper \cup b.pLower..b.pUpper
  BY <1>1, <1>2
<1> HIDE DEF a, b, c
<1>8. Held(id, a, off) \cup Held(id, b, off) = Held(id, c, off)
  BY <1>7 DEF Held
<1>9. Held(id, a, off) \cap Held(id, b, off) = {}
  <2>1. \A m, n : Source(id, m, off) = Source(id, n, off) => m = n
    BY DEF Source
  <2>2. QED
    BY <1>7, <2>1 DEF Held
<1>10. QED
  BY <1>5, <1>6, <1>8, <1>9 DEF c

\* Different threads have different particles.
LEMMA ThreadsApart ==
  ASSUME NEW tree, NEW off, NEW X, NEW Y
  PROVE  /\ OfThreads(X \cup Y, tree, off) = OfThreads(X, tree, off) \cup OfThreads(Y, tree, off)
         /\ X \cap Y = {} => OfThreads(X, tree, off) \cap OfThreads(Y, tree, off) = {}
<1>1. \A Z, p : p \in OfThreads(Z, tree, off) <=> \E u \in Z : p \in Stored(u, tree, off)
  BY DEF OfThreads
<1>2. \A u, p : p \in Stored(u, tree, off) => p.thread = u
  BY DEF Stored, Source
<1>3. QED
  BY <1>1, <1>2

\* In the top tree as it is copied to this thread a cell stands for its threads.
LEMMA TopCovers ==
  ASSUME Sound, NEW tree \in Trees, NEW off \in Offs, NEW i \in TopCells(self, tree), NEW e, e = CellEntry(tree, i, self, off)
  PROVE  e \in Entry /\ Covers(e) = OfThreads(Node(self, i).threads, tree, off)
<1> DEFINE c == Node(self, i)
<1>1. i \in Nat /\ self \in Thread /\ i \in CellsOf(self, tree)
  BY TopNode, SoundTree DEF CellsOf
<1>2. e \in Entry
  BY <1>1, IsEntry
<1>3. Covers(e) = IF c.bTopTree THEN OfThreads(c.threads, tree, off) ELSE Held(self, c, off)
  BY <1>1, CellCovers
<1>4. ~c.bTopTree => c.threads = {self} /\ c.pLower = Node(self, tree).pLower /\ c.pUpper = Node(self, tree).pUpper
  BY TopNode
<1> HIDE DEF c
<1>5. ~c.bTopTree => Held(self, c, off) = OfThreads(c.threads, tree, off)
  BY <1>4 DEF Held, OfThreads, Stored, RootRange
<1>6. QED
  BY <1>2, <1>3, <1>5 DEF c

\* The root of a tree and its particles.
LEMMA RootWithin ==
  ASSUME Sound, NEW tree \in Trees, NEW u \in Thread
  PROVE  Within(Node(u, tree), Node(u, tree)) /\ tree \in BuiltNodes(u, tree) /\ Node(u, tree).pLower \in Nat /\ Node(u, tree).pUpper \in Int
BY BuiltNode, RootNode DEF Within

\* The children of any cell, of the top tree or below it, stand for what it stands for, once each.
LEMMA CellOpens ==
  ASSUME Sound, NEW e \in Entry, e.lower.i # 0
  PROVE  Children(e) \in Seq(Entry) /\ AllOf(Children(e)) = Covers(e) /\ Apart(Children(e))
<1> DEFINE e1 == CellEntry(e.tree, e.lower.i, e.lower.id, e.off)
           e2 == CellEntry(e.tree, e.upper.i, e.upper.id, e.off)
           Good == e1 \in Entry /\ e2 \in Entry /\ Covers(e1) \cap Covers(e2) = {} /\ Covers(e1) \cup Covers(e2) = Covers(e)
<1>1. ASSUME NEW tree \in Trees, NEW id \in Thread, NEW off \in Offs, NEW i \in BuiltNodes(id, tree), i \in Nat,
             e = CellEntry(tree, i, id, off), Within(Node(id, i), Node(id, tree))
      PROVE  Good
  <2> DEFINE c == Node(id, i)
  <2>1. e.tree = tree /\ e.off = off /\ e.lower = LowerChild(c, id) /\ e.upper = UpperChild(c, id)
    BY <1>1, CellFields
  <2>2. ~c.bTopTree
    BY <1>1, BuiltNode
  <2>3. e.lower.i = c.iLower /\ e.lower.id = id /\ e.upper.i = c.iLower + 1 /\ e.upper.id = id
    BY <2>1, <2>2 DEF LowerChild, UpperChild
  <2>4. Covers(e) = Held(id, c, off)
    BY <1>1, <2>2, CellCovers
  <2>5. e1 = CellEntry(tree, c.iLower, id, off) /\ e2 = CellEntry(tree, c.iLower + 1, id, off) /\ c.iLower # 0
    BY <2>1, <2>3
  <2> HIDE DEF e1, e2
  <2>6. QED
    BY <1>1, <2>4, <2>5, ChildrenOfBuilt
<1>2. ASSUME NEW tree \in Trees, NEW off \in Offs, NEW i \in TopCells(self, tree), i \in Nat, e = CellEntry(tree, i, self, off)
      PROVE  Good
  <2> DEFINE c == Node(self, i)
  <2>1. e.tree = tree /\ e.off = off /\ e.lower = LowerChild(c, self) /\ e.upper = UpperChild(c, self)
    BY <1>2, CellFields
  <2>2. Covers(e) = OfThreads(c.threads, tree, off)
    BY <1>2, TopCovers
  <2>3. c.threads \subseteq Thread /\ self \in Thread
    BY <1>2, TopNode, SoundTree
  <2>4. CASE c.bTopTree /\ ~c.bRemote
    <3>1. e.lower.i = c.iLower /\ e.lower.id = self /\ e.upper.i = c.pUpper /\ e.upper.id = self
      BY <2>1, <2>4 DEF LowerChild, UpperChild
    <3>2. /\ c.iLower \in TopCells(self, tree) /\ c.pUpper \in TopCells(self, tree)
          /\ Node(self, c.iLower).threads \cap Node(self, c.pUpper).threads = {}
          /\ Node(self, c.iLower).threads \cup Node(self, c.pUpper).threads = c.threads
      BY <1>2, <2>4, TopNode
    <3>3. e1 = CellEntry(tree, c.iLower, self, off) /\ e2 = CellEntry(tree, c.pUpper, self, off)
      BY <2>1, <3>1
    <3> HIDE DEF e1, e2
    <3>4. e1 \in Entry /\ Covers(e1) = OfThreads(Node(self, c.iLower).threads, tree, off)
      BY <3>2, <3>3, TopCovers
    <3>5. e2 \in Entry /\ Covers(e2) = OfThreads(Node(self, c.pUpper).threads, tree, off)
      BY <3>2, <3>3, TopCovers
    <3> HIDE DEF c
    <3>6. QED
      BY <2>2, <3>2, <3>4, <3>5, ThreadsApart
  <2>5. ASSUME NEW u \in Thread, c.threads = {u}, c.iLower = Node(u, tree).iLower,
               e.lower = [i |-> c.iLower, id |-> u], e.upper = [i |-> c.iLower + 1, id |-> u]
        PROVE  Good
    <3>1. Within(Node(u, tree), Node(u, tree)) /\ tree \in BuiltNodes(u, tree)
      BY RootWithin
    <3>2. e1 = CellEntry(tree, Node(u, tree).iLower, u, off) /\ e2 = CellEntry(tree, Node(u, tree).iLower + 1, u, off)
          /\ Node(u, tree).iLower # 0
      BY <2>1, <2>5
    <3>3. Covers(e) = Held(u, Node(u, tree), off)
      BY <2>2, <2>5 DEF OfThreads, Stored, Held, RootRange
    <3> HIDE DEF e1, e2
    <3>4. QED
      BY <3>1, <3>2, <3>3, ChildrenOfBuilt
  <2>6. CASE c.bTopTree /\ c.bRemote
    <3>1. c.threads = {c.pLower} /\ c.iLower = Node(c.pLower, tree).iLower
      BY <1>2, <2>6, TopNode
    <3>2. c.pLower \in Thread
      BY <2>3, <3>1
    <3>3. e.lower = [i |-> c.iLower, id |-> c.pLower] /\ e.upper = [i |-> c.iLower + 1, id |-> c.pLower]
      BY <2>1, <2>6 DEF LowerChild, UpperChild
    <3>4. QED
      BY <2>5, <3>1, <3>2, <3>3
  <2>7. CASE ~c.bTopTree
    <3>1. c.threads = {self} /\ c.iLower = Node(self, tree).iLower
      BY <1>2, <2>7, TopNode
    <3>2. e.lower = [i |-> c.iLower, id |-> self] /\ e.upper = [i |-> c.iLower + 1, id |-> self]
      BY <2>1, <2>7 DEF LowerChild, UpperChild
    <3>3. QED
      BY <2>3, <2>5, <3>1, <3>2
  <2>8. QED
    BY <2>4, <2>6, <2>7
<1>3. Good
  BY <1>1, <1>2, EntryKinds, ParticleCovers
<1>4. Children(e) = <<e1, e2>>
  BY DEF Children
<1> HIDE DEF e1, e2
<1>5. QED
  BY <1>3, <1>4, PairCovers
------------------------------------------------------------------------------
(* The invariant *)

SinkNodes == BuiltNodes(self, scope.iRoot1)
RangeOf(i) == Node(self, i).pLower..Node(self, i).pUpper
Height(i) == Cardinality(Path(self, scope.iRoot1, i))

Frames == [iNode : Nat, cl : Seq(Entry), nPart : Nat, nCell : Nat, L : Seq(Entry)]

ListTypes ==
  /\ cl \in Seq(Entry) /\ stays \in Seq(Entry) /\ ilp \in Seq(Entry) /\ ilc \in Seq(Entry) /\ L \in Seq(Entry)
  /\ S \in Seq(Frames)
  /\ \A n \in DOMAIN S : S[n].nPart <= Len(ilp) /\ S[n].nCell <= Len(ilc)
  /\ \A m, n \in DOMAIN S : m < n => S[m].nPart <= S[n].nPart /\ S[m].nCell <= S[n].nCell

\* The walk comes from the root, and each level has put one sibling on the stack at most.
Sinks ==
  /\ iCell \in SinkNodes /\ \A n \in DOMAIN S : S[n].iNode \in SinkNodes
  /\ Len(S) < Height(iCell) /\ \A n \in DOMAIN S : n <= Height(S[n].iNode)

\* Each particle of the sink tree is in the sink cell, in a cell on the stack, or done.
Waiting ==
  /\ DOMAIN nForced = DOMAIN rungOf
  /\ \A j \in RangeOf(iCell) : nForced[j] = 0
  /\ \A n \in DOMAIN S : \A j \in RangeOf(S[n].iNode) : nForced[j] = 0
  /\ \A n \in DOMAIN S : RangeOf(iCell) \cap RangeOf(S[n].iNode) = {}
  /\ \A m, n \in DOMAIN S : m # n => RangeOf(S[m].iNode) \cap RangeOf(S[n].iNode) = {}
  /\ \A j \in RootRange(self, scope.iRoot1) : rungOf[j] >= lowest =>
       nForced[j] = 1 \/ j \in RangeOf(iCell) \/ \E n \in DOMAIN S : j \in RangeOf(S[n].iNode)

ListsCover == \A s : s = cl \o stays \o ilp \o ilc \o L => CoverOnce(s)
FramesCover ==
  \A n \in DOMAIN S : \A s :
    s = S[n].cl \o SubSeq(ilp, 1, S[n].nPart) \o SubSeq(ilc, 1, S[n].nCell) \o S[n].L => CoverOnce(s)

\* The inductive invariant of GravWalk.
WalkInv ==
  /\ at \in {"idle", "check", "walked"}
  /\ \A j \in DOMAIN nForced : nForced[j] \in {0, 1}
  /\ at = "walked" => \A j \in RootRange(self, scope.iRoot1) : rungOf[j] >= lowest => nForced[j] = 1
  /\ at = "check" =>
       /\ Sound /\ RungsKnown(self, scope.iRoot1, lowest, rungOf)
       /\ ListTypes /\ Sinks /\ Waiting /\ ListsCover /\ FramesCover

\* The trees stay as they are while a walk is on.
LEMMA TreesSame ==
  ASSUME pkd' = pkd, self' = self, scope' = scope
  PROVE  /\ Entry' = Entry /\ Sound' = Sound /\ SinkNodes' = SinkNodes
         /\ \A s : CoverOnce(s)' <=> CoverOnce(s)
         /\ \A i : RangeOf(i)' = RangeOf(i) /\ Height(i)' = Height(i)
         /\ \A t, r : RootRange(t, r)' = RootRange(t, r)
<1>1. Entry' = Entry
  BY DEF Entry, CellEntry, ParticleEntry, CellsOf, BuiltNodes, TopCells, Within, Trees, Offs, Node, RootRange, LowerChild, UpperChild, Count
<1>2. Sound' = Sound
  BY DEF Sound, Walkable, TopSound, BuiltSound, TopCells, BuiltNodes, Path, Within, Node, RootRange
<1>3. SinkNodes' = SinkNodes
  BY DEF SinkNodes, BuiltNodes, Node
<1>4. \A s : CoverOnce(s)' <=> CoverOnce(s)
  BY DEF CoverOnce, Covers, Node, IsParticle, Source, RootRange, Trees
<1>5. \A i : RangeOf(i)' = RangeOf(i) /\ Height(i)' = Height(i)
  BY DEF RangeOf, Height, Path, BuiltNodes, Within, Node
<1>6. \A t, r : RootRange(t, r)' = RootRange(t, r)
  BY DEF RootRange, Node
<1>7. QED
  BY <1>1, <1>2, <1>3, <1>4, <1>5, <1>6


\* What the invariant says is what the properties say.
LEMMA HeightIs ==
  ASSUME Sound, NEW i \in SinkNodes
  PROVE  Height(i) \in Nat /\ Height(i) <= pkd[self].nMaxStack /\ pkd[self].nMaxStack \in Int
         /\ IsFiniteSet(Path(self, scope.iRoot1, i))
<1>1. scope.iRoot1 \in Trees /\ self \in Thread
  BY DEF Sound, Walkable, Trees
<1>2. pkd[self].cells[scope.iRoot1] \in Int /\ pkd[self].nMaxStack \in Int /\ Height(i) <= pkd[self].nMaxStack
  BY <1>1, SoundTree DEF BuiltSound, SinkNodes, Height
<1> DEFINE n == pkd[self].cells[scope.iRoot1]
<1>3. \A j \in SinkNodes : j \in 0..(n - 1)
  <2>1. \A j \in SinkNodes : j \in Nat /\ j < n
    BY <1>1, BuiltNode DEF SinkNodes
  <2> HIDE DEF n
  <2>2. n \in Int
    BY <1>2 DEF n
  <2>3. QED
    BY <2>1, <2>2
<1>4. IsFiniteSet(0..(n - 1))
  BY <1>2, FS_Interval
<1>5. Path(self, scope.iRoot1, i) \subseteq 0..(n - 1)
  BY <1>3 DEF Path, SinkNodes
<1>6. IsFiniteSet(Path(self, scope.iRoot1, i))
  BY <1>4, <1>5, FS_Subset
<1>7. QED
  BY <1>2, <1>6, FS_CardinalityType DEF Height

\* The invariant says that every source is covered once.
LEMMA InvCovers == ASSUME WalkInv PROVE EachSourceOnce
<1>1. ForcedOnce
  BY DEF WalkInv, ForcedOnce
<1>2. ASSUME at = "check"
      PROVE  /\ CoverOnce(cl \o stays \o ilp \o ilc \o L)
             /\ \A n \in DOMAIN S :
                  CoverOnce(S[n].cl \o SubSeq(ilp, 1, S[n].nPart) \o SubSeq(ilc, 1, S[n].nCell) \o S[n].L)
  BY <1>2, Zenon DEF WalkInv, ListsCover, FramesCover
<1>3. QED
  BY <1>1, <1>2 DEF EachSourceOnce

\* The invariant says that what the walk reads is there.
LEMMA InvReads == ASSUME WalkInv PROVE IndicesHold
<1>1. SUFFICES ASSUME at = "check"
               PROVE  /\ Len(S) < pkd[self].nMaxStack
                      /\ \A e \in {(cl \o stays)[n] : n \in DOMAIN (cl \o stays)} :
                           e.id # self => IF IsParticle(e) THEN -1 - e.iCell \in RootRange(e.id, e.tree)
                                          ELSE e.iCell < pkd[e.id].cells[e.tree] /\ ~Node(e.id, e.iCell).bTopTree
  BY DEF IndicesHold
<1>2. Sound /\ ListTypes /\ Sinks
  BY <1>1 DEF WalkInv
<1>3. Len(S) < pkd[self].nMaxStack
  <2>1. Len(S) \in Nat
    BY <1>2 DEF ListTypes
  <2>2. Len(S) < Height(iCell) /\ iCell \in SinkNodes
    BY <1>2 DEF Sinks
  <2>3. QED
    BY <1>2, <2>1, <2>2, HeightIs
<1>4. ASSUME NEW e \in Entry, e.id # self
      PROVE  IF IsParticle(e) THEN -1 - e.iCell \in RootRange(e.id, e.tree)
             ELSE e.iCell < pkd[e.id].cells[e.tree] /\ ~Node(e.id, e.iCell).bTopTree
  <2>1. ASSUME NEW tree \in Trees, NEW id \in Thread, NEW off \in Offs, NEW j \in Nat, j \in RootRange(id, tree),
               e = ParticleEntry(tree, j, id, off)
        PROVE  IsParticle(e) /\ -1 - e.iCell \in RootRange(e.id, e.tree)
    <3>1. e.id = id /\ e.tree = tree
      BY <2>1 DEF ParticleEntry
    <3>2. IsParticle(e) /\ -1 - e.iCell = j
      <4>1. IsParticle(e) /\ e.iCell = -1 - j
        BY <2>1, ParticleCovers
      <4>2. QED
        BY <4>1
    <3>3. QED
      BY <2>1, <3>1, <3>2
  <2>2. ASSUME NEW tree \in Trees, NEW id \in Thread, NEW off \in Offs, NEW i \in Nat, i \in BuiltNodes(id, tree),
               e = CellEntry(tree, i, id, off)
        PROVE  ~IsParticle(e) /\ e.iCell < pkd[e.id].cells[e.tree] /\ ~Node(e.id, e.iCell).bTopTree
    <3>1. e.id = id /\ e.tree = tree /\ e.iCell = i /\ ~IsParticle(e)
      BY <2>2, CellFields
    <3>2. QED
      BY <1>2, <2>2, <3>1, BuiltNode
  <2>3. ASSUME NEW tree \in Trees, NEW off \in Offs, NEW i \in Nat, e = CellEntry(tree, i, self, off)
        PROVE  FALSE
    BY <1>4, <2>3, CellFields
  <2>4. QED
    BY <1>2, <2>1, <2>2, <2>3, EntryKinds
<1>5. cl \o stays \in Seq(Entry)
  BY <1>2 DEF ListTypes
<1>6. \A n \in DOMAIN (cl \o stays) : (cl \o stays)[n] \in Entry
  BY <1>5
<1>7. QED
  BY <1>3, <1>4, <1>6

------------------------------------------------------------------------------
(* Entries that go from one list to another *)

\* Sets no two of which share an element, and what they hold together.
Split(A, B, C, D, F) ==
  /\ A \cap B = {} /\ A \cap C = {} /\ A \cap D = {} /\ A \cap F = {}
  /\ B \cap C = {} /\ B \cap D = {} /\ B \cap F = {}
  /\ C \cap D = {} /\ C \cap F = {} /\ D \cap F = {}

Whole(A, B, C, D, F) == A \cup B \cup C \cup D \cup F

\* A part of the first set may go to any of the others.
LEMMA SplitMoves ==
  ASSUME NEW R, NEW X, NEW B, NEW C, NEW D, NEW F, R \cap X = {}, Split(R \cup X, B, C, D, F)
  PROVE  /\ Split(R, B \cup X, C, D, F) /\ Whole(R, B \cup X, C, D, F) = Whole(R \cup X, B, C, D, F)
         /\ Split(R, B, C \cup X, D, F) /\ Whole(R, B, C \cup X, D, F) = Whole(R \cup X, B, C, D, F)
         /\ Split(R, B, C, D \cup X, F) /\ Whole(R, B, C, D \cup X, F) = Whole(R \cup X, B, C, D, F)
         /\ Split(R, B, C, D, F \cup X) /\ Whole(R, B, C, D, F \cup X) = Whole(R \cup X, B, C, D, F)
         /\ B \cap X = {} /\ C \cap X = {} /\ D \cap X = {} /\ F \cap X = {}
<1>1. /\ R \cap B = {} /\ R \cap C = {} /\ R \cap D = {} /\ R \cap F = {}
      /\ B \cap X = {} /\ C \cap X = {} /\ D \cap X = {} /\ F \cap X = {}
  BY DEF Split
<1>2. /\ B \cap C = {} /\ B \cap D = {} /\ B \cap F = {}
      /\ C \cap D = {} /\ C \cap F = {} /\ D \cap F = {}
  BY DEF Split
<1>3. Split(R, B \cup X, C, D, F)
  BY <1>1, <1>2 DEF Split
<1>4. Split(R, B, C \cup X, D, F)
  BY <1>1, <1>2 DEF Split
<1>5. Split(R, B, C, D \cup X, F)
  BY <1>1, <1>2 DEF Split
<1>6. Split(R, B, C, D, F \cup X)
  BY <1>1, <1>2 DEF Split
<1>7. /\ Whole(R, B \cup X, C, D, F) = Whole(R \cup X, B, C, D, F)
      /\ Whole(R, B, C \cup X, D, F) = Whole(R \cup X, B, C, D, F)
      /\ Whole(R, B, C, D \cup X, F) = Whole(R \cup X, B, C, D, F)
      /\ Whole(R, B, C, D, F \cup X) = Whole(R \cup X, B, C, D, F)
  BY DEF Whole
<1>8. QED
  BY <1>1, <1>3, <1>4, <1>5, <1>6, <1>7

\* Five lists that cover every source once.
LEMMA FiveLists ==
  ASSUME NEW a \in Seq(Entry), NEW b \in Seq(Entry), NEW c \in Seq(Entry), NEW d \in Seq(Entry), NEW f \in Seq(Entry)
  PROVE  CoverOnce(a \o b \o c \o d \o f) <=>
           /\ Apart(a) /\ Apart(b) /\ Apart(c) /\ Apart(d) /\ Apart(f)
           /\ Split(AllOf(a), AllOf(b), AllOf(c), AllOf(d), AllOf(f))
           /\ Wanted(Whole(AllOf(a), AllOf(b), AllOf(c), AllOf(d), AllOf(f)))
<1> DEFINE s2 == a \o b
           s3 == s2 \o c
           s4 == s3 \o d
           s5 == s4 \o f
<1>1. s2 \in Seq(Entry) /\ s3 \in Seq(Entry) /\ s4 \in Seq(Entry)
  OBVIOUS
<1>2. AllOf(s2) = AllOf(a) \cup AllOf(b) /\ (Apart(s2) <=> Apart(a) /\ Apart(b) /\ AllOf(a) \cap AllOf(b) = {})
  BY CatCovers
<1>3. AllOf(s3) = AllOf(s2) \cup AllOf(c) /\ (Apart(s3) <=> Apart(s2) /\ Apart(c) /\ AllOf(s2) \cap AllOf(c) = {})
  BY <1>1, CatCovers
<1>4. AllOf(s4) = AllOf(s3) \cup AllOf(d) /\ (Apart(s4) <=> Apart(s3) /\ Apart(d) /\ AllOf(s3) \cap AllOf(d) = {})
  BY <1>1, CatCovers
<1>5. AllOf(s5) = AllOf(s4) \cup AllOf(f) /\ (Apart(s5) <=> Apart(s4) /\ Apart(f) /\ AllOf(s4) \cap AllOf(f) = {})
  BY <1>1, CatCovers
<1>6. CoverOnce(s5) <=> Apart(s5) /\ Wanted(AllOf(s5))
  BY CoverIs
<1> DEFINE A == AllOf(a)
           B == AllOf(b)
           C == AllOf(c)
           D == AllOf(d)
           F == AllOf(f)
<1> HIDE DEF s2, s3, s4, s5, A, B, C, D, F
<1>7. AllOf(s5) = Whole(A, B, C, D, F)
  BY <1>2, <1>3, <1>4, <1>5 DEF A, B, C, D, F, Whole
<1>8. Split(A, B, C, D, F) <=>
        A \cap B = {} /\ (A \cup B) \cap C = {} /\ ((A \cup B) \cup C) \cap D = {} /\ (((A \cup B) \cup C) \cup D) \cap F = {}
  BY DEF Split
<1>9. Apart(s5) <=> Apart(a) /\ Apart(b) /\ Apart(c) /\ Apart(d) /\ Apart(f) /\ Split(A, B, C, D, F)
  BY <1>2, <1>3, <1>4, <1>5, <1>8 DEF A, B, C, D, F
<1>10. CoverOnce(s5) <=>
           /\ Apart(a) /\ Apart(b) /\ Apart(c) /\ Apart(d) /\ Apart(f)
           /\ Split(A, B, C, D, F) /\ Wanted(Whole(A, B, C, D, F))
  BY <1>6, <1>7, <1>9
<1>11. QED
  BY <1>10 DEF s2, s3, s4, s5, A, B, C, D, F

\* The head of the first list may be replaced by what stands for the same, at the end of
\* any of the five.
LEMMA MoveHead ==
  ASSUME NEW a \in Seq(Entry), NEW b \in Seq(Entry), NEW c \in Seq(Entry), NEW d \in Seq(Entry), NEW f \in Seq(Entry),
         a # <<>>, CoverOnce(a \o b \o c \o d \o f),
         NEW new \in Seq(Entry), AllOf(new) = Covers(Head(a)), Apart(new),
         NEW rest, rest = Tail(a)
  PROVE  /\ CoverOnce((rest \o new) \o b \o c \o d \o f)
         /\ CoverOnce(rest \o (b \o new) \o c \o d \o f)
         /\ CoverOnce(rest \o b \o (c \o new) \o d \o f)
         /\ CoverOnce(rest \o b \o c \o (d \o new) \o f)
         /\ CoverOnce(rest \o b \o c \o d \o (f \o new))
<1> DEFINE A == AllOf(a)
           R == AllOf(rest)
           X == AllOf(new)
           B == AllOf(b)
           C == AllOf(c)
           D == AllOf(d)
           F == AllOf(f)
<1>1. rest \in Seq(Entry) /\ A = R \cup X /\ (Apart(a) <=> Apart(rest) /\ R \cap X = {})
  <2>1. /\ Tail(a) \in Seq(Entry) /\ AllOf(a) = Covers(Head(a)) \cup AllOf(Tail(a))
        /\ Apart(a) <=> Apart(Tail(a)) /\ Covers(Head(a)) \cap AllOf(Tail(a)) = {}
    BY HeadCovers
  <2>2. QED
    BY <2>1
<1>2. ASSUME NEW s \in Seq(Entry)
      PROVE  /\ s \o new \in Seq(Entry) /\ AllOf(s \o new) = AllOf(s) \cup X
             /\ Apart(s \o new) <=> Apart(s) /\ Apart(new) /\ AllOf(s) \cap X = {}
  BY CatCovers
<1>3. /\ Apart(a) /\ Apart(b) /\ Apart(c) /\ Apart(d) /\ Apart(f)
      /\ Split(A, B, C, D, F) /\ Wanted(Whole(A, B, C, D, F))
  BY FiveLists
<1>4. \A s, t, u, v, w \in Seq(Entry) :
        CoverOnce(s \o t \o u \o v \o w) <=>
           /\ Apart(s) /\ Apart(t) /\ Apart(u) /\ Apart(v) /\ Apart(w)
           /\ Split(AllOf(s), AllOf(t), AllOf(u), AllOf(v), AllOf(w))
           /\ Wanted(Whole(AllOf(s), AllOf(t), AllOf(u), AllOf(v), AllOf(w)))
  BY FiveLists
<1> HIDE DEF A, R, X, B, C, D, F
<1>5. /\ Split(R \cup X, B, C, D, F) /\ Whole(R \cup X, B, C, D, F) = Whole(A, B, C, D, F)
      /\ Split(R, B \cup X, C, D, F) /\ Whole(R, B \cup X, C, D, F) = Whole(A, B, C, D, F)
      /\ Split(R, B, C \cup X, D, F) /\ Whole(R, B, C \cup X, D, F) = Whole(A, B, C, D, F)
      /\ Split(R, B, C, D \cup X, F) /\ Whole(R, B, C, D \cup X, F) = Whole(A, B, C, D, F)
      /\ Split(R, B, C, D, F \cup X) /\ Whole(R, B, C, D, F \cup X) = Whole(A, B, C, D, F)
      /\ B \cap X = {} /\ C \cap X = {} /\ D \cap X = {} /\ F \cap X = {}
  <2>1. R \cap X = {} /\ A = R \cup X
    BY <1>1, <1>3
  <2>2. Split(R \cup X, B, C, D, F)
    BY <1>3, <2>1
  <2>3. /\ Split(R, B \cup X, C, D, F) /\ Whole(R, B \cup X, C, D, F) = Whole(R \cup X, B, C, D, F)
        /\ Split(R, B, C \cup X, D, F) /\ Whole(R, B, C \cup X, D, F) = Whole(R \cup X, B, C, D, F)
        /\ Split(R, B, C, D \cup X, F) /\ Whole(R, B, C, D \cup X, F) = Whole(R \cup X, B, C, D, F)
        /\ Split(R, B, C, D, F \cup X) /\ Whole(R, B, C, D, F \cup X) = Whole(R \cup X, B, C, D, F)
        /\ B \cap X = {} /\ C \cap X = {} /\ D \cap X = {} /\ F \cap X = {}
    BY <2>1, <2>2, SplitMoves, Zenon
  <2>4. QED
    BY <2>1, <2>2, <2>3
<1>6. Apart(rest) /\ R \cap X = {}
  BY <1>1, <1>3
<1>7. CoverOnce((rest \o new) \o b \o c \o d \o f)
  <2> DEFINE s == rest \o new
  <2>1. s \in Seq(Entry) /\ AllOf(s) = R \cup X /\ Apart(s)
    BY <1>1, <1>2, <1>3, <1>5, <1>6 DEF R, B, C, D, F
  <2> HIDE DEF s
  <2>2. Split(R \cup X, B, C, D, F) /\ Wanted(Whole(R \cup X, B, C, D, F))
    BY <1>3, <1>5
  <2>3. Split(AllOf(s), AllOf(b), AllOf(c), AllOf(d), AllOf(f)) /\ Wanted(Whole(AllOf(s), AllOf(b), AllOf(c), AllOf(d), AllOf(f)))
    BY <2>1, <2>2 DEF R, B, C, D, F
  <2>4. CoverOnce(s \o b \o c \o d \o f)
    BY <1>1, <1>3, <1>4, <1>6, <2>1, <2>3
  <2>5. QED
    BY <2>4 DEF s
<1>8. CoverOnce(rest \o (b \o new) \o c \o d \o f)
  <2> DEFINE s == b \o new
  <2>1. s \in Seq(Entry) /\ AllOf(s) = B \cup X /\ Apart(s)
    BY <1>1, <1>2, <1>3, <1>5, <1>6 DEF R, B, C, D, F
  <2> HIDE DEF s
  <2>2. Split(R, B \cup X, C, D, F) /\ Wanted(Whole(R, B \cup X, C, D, F))
    BY <1>3, <1>5
  <2>3. Split(AllOf(rest), AllOf(s), AllOf(c), AllOf(d), AllOf(f)) /\ Wanted(Whole(AllOf(rest), AllOf(s), AllOf(c), AllOf(d), AllOf(f)))
    BY <2>1, <2>2 DEF R, B, C, D, F
  <2>4. CoverOnce(rest \o s \o c \o d \o f)
    BY <1>1, <1>3, <1>4, <1>6, <2>1, <2>3
  <2>5. QED
    BY <2>4 DEF s
<1>9. CoverOnce(rest \o b \o (c \o new) \o d \o f)
  <2> DEFINE s == c \o new
  <2>1. s \in Seq(Entry) /\ AllOf(s) = C \cup X /\ Apart(s)
    BY <1>1, <1>2, <1>3, <1>5, <1>6 DEF R, B, C, D, F
  <2> HIDE DEF s
  <2>2. Split(R, B, C \cup X, D, F) /\ Wanted(Whole(R, B, C \cup X, D, F))
    BY <1>3, <1>5
  <2>3. Split(AllOf(rest), AllOf(b), AllOf(s), AllOf(d), AllOf(f)) /\ Wanted(Whole(AllOf(rest), AllOf(b), AllOf(s), AllOf(d), AllOf(f)))
    BY <2>1, <2>2 DEF R, B, C, D, F
  <2>4. CoverOnce(rest \o b \o s \o d \o f)
    BY <1>1, <1>3, <1>4, <1>6, <2>1, <2>3
  <2>5. QED
    BY <2>4 DEF s
<1>10. CoverOnce(rest \o b \o c \o (d \o new) \o f)
  <2> DEFINE s == d \o new
  <2>1. s \in Seq(Entry) /\ AllOf(s) = D \cup X /\ Apart(s)
    BY <1>1, <1>2, <1>3, <1>5, <1>6 DEF R, B, C, D, F
  <2> HIDE DEF s
  <2>2. Split(R, B, C, D \cup X, F) /\ Wanted(Whole(R, B, C, D \cup X, F))
    BY <1>3, <1>5
  <2>3. Split(AllOf(rest), AllOf(b), AllOf(c), AllOf(s), AllOf(f)) /\ Wanted(Whole(AllOf(rest), AllOf(b), AllOf(c), AllOf(s), AllOf(f)))
    BY <2>1, <2>2 DEF R, B, C, D, F
  <2>4. CoverOnce(rest \o b \o c \o s \o f)
    BY <1>1, <1>3, <1>4, <1>6, <2>1, <2>3
  <2>5. QED
    BY <2>4 DEF s
<1>11. CoverOnce(rest \o b \o c \o d \o (f \o new))
  <2> DEFINE s == f \o new
  <2>1. s \in Seq(Entry) /\ AllOf(s) = F \cup X /\ Apart(s)
    BY <1>1, <1>2, <1>3, <1>5, <1>6 DEF R, B, C, D, F
  <2> HIDE DEF s
  <2>2. Split(R, B, C, D, F \cup X) /\ Wanted(Whole(R, B, C, D, F \cup X))
    BY <1>3, <1>5
  <2>3. Split(AllOf(rest), AllOf(b), AllOf(c), AllOf(d), AllOf(s)) /\ Wanted(Whole(AllOf(rest), AllOf(b), AllOf(c), AllOf(d), AllOf(s)))
    BY <2>1, <2>2 DEF R, B, C, D, F
  <2>4. CoverOnce(rest \o b \o c \o d \o s)
    BY <1>1, <1>3, <1>4, <1>6, <2>1, <2>3
  <2>5. QED
    BY <2>4 DEF s
<1>12. QED
  BY <1>7, <1>8, <1>9, <1>10, <1>11

\* Particles(e) stands for e, also if e is a particle itself.
LEMMA ParticlesOpen ==
  ASSUME Sound, NEW e \in Entry, e.lower.i = 0, e.m > 0
  PROVE  Particles(e) \in Seq(Entry) /\ AllOf(Particles(e)) = Covers(e) /\ Apart(Particles(e))
<1>1. CASE ~IsParticle(e)
  BY <1>1, BucketOpens
<1>2. CASE IsParticle(e)
  <2>1. Particles(e) = <<e>>
    BY <1>2 DEF Particles
  <2>2. <<e>> \in Seq(Entry)
    OBVIOUS
  <2>3. QED
    BY <2>1, <2>2, OneCovers
<1>3. QED
  BY <1>1, <1>2

------------------------------------------------------------------------------
(* A walk begins *)

\* The root of the top tree stands for all particles of its tree, in one replica.
LEMMA CheckCovers ==
  ASSUME Sound, NEW tree \in Trees, NEW off \in Offs
  PROVE  /\ CellEntry(tree, pkd[self].iTopTree[tree], self, off) \in Entry
         /\ Covers(CellEntry(tree, pkd[self].iTopTree[tree], self, off)) = OfThreads(Thread, tree, off)
<1>1. pkd[self].iTopTree[tree] \in TopCells(self, tree) /\ Node(self, pkd[self].iTopTree[tree]).threads = Thread
  BY SoundTree DEF TopSound
<1>2. QED
  BY <1>1, TopCovers

\* Replicas differ in their offset, and the two trees in their particles.
LEMMA ReplicasApart ==
  ASSUME Sound, NEW r1 \in Trees, NEW r2 \in Trees, NEW o1, NEW o2,
         o1 # o2 \/ (\A u \in Thread : RootRange(u, r1) \cap RootRange(u, r2) = {})
  PROVE  OfThreads(Thread, r1, o1) \cap OfThreads(Thread, r2, o2) = {}
<1>1. \A r, o, p : p \in OfThreads(Thread, r, o) <=> \E u \in Thread : \E j \in RootRange(u, r) : p = Source(u, j, o)
  BY DEF OfThreads, Stored
<1>2. \A u, v, i, j : Source(u, i, o1) = Source(v, j, o2) => u = v /\ i = j /\ o1 = o2
  BY DEF Source
<1>3. QED
  BY <1>1, <1>2

\* The list that a walk begins with covers every source once.
LEMMA ChecksCover ==
  ASSUME Sound
  PROVE  LET s == Checks(self, scope.iRoot1, scope.iRoot2, scope.boxes)
         IN  s \in Seq(Entry) /\ CoverOnce(s)
<1> DEFINE s == Checks(self, scope.iRoot1, scope.iRoot2, scope.boxes)
           nRoots == IF scope.iRoot2 = 0 THEN 1 ELSE 2
           root(n) == IF n % nRoots = 0 THEN scope.iRoot1 ELSE scope.iRoot2
           N == scope.boxes * nRoots
<1>1. /\ scope.boxes \in Nat /\ scope.iRoot1 # 0 /\ N \in Nat
      /\ scope.iRoot2 # 0 => \A u \in Thread : RootRange(u, scope.iRoot1) \cap RootRange(u, scope.iRoot2) = {}
  BY DEF Sound, Walkable
<1>2. /\ DOMAIN s = 1..N
      /\ \A n \in 1..N : s[n] = CellEntry(root(n - 1), pkd[self].iTopTree[root(n - 1)], self, (n - 1) \div nRoots)
  BY <1>1 DEF Checks
<1>3. /\ Trees = IF scope.iRoot2 = 0 THEN {scope.iRoot1} ELSE {scope.iRoot1, scope.iRoot2}
  BY <1>1 DEF Trees
<1>4. \A n \in 1..N : root(n - 1) \in Trees /\ (n - 1) \div nRoots \in Offs
  <2>1. CASE scope.iRoot2 = 0
    BY <1>1, <1>3, <2>1 DEF Offs
  <2>2. CASE scope.iRoot2 # 0
    BY <1>1, <1>3, <2>2 DEF Offs
  <2>3. QED
    BY <2>1, <2>2
<1>5. \A m, n \in 1..N : m # n =>
        \/ (m - 1) \div nRoots # (n - 1) \div nRoots
        \/ \A u \in Thread : RootRange(u, root(m - 1)) \cap RootRange(u, root(n - 1)) = {}
  <2>1. CASE scope.iRoot2 = 0
    BY <1>1, <2>1
  <2>2. CASE scope.iRoot2 # 0
    <3>1. SUFFICES ASSUME NEW m \in 1..N, NEW n \in 1..N, m # n, (m - 1) \div 2 = (n - 1) \div 2
                   PROVE  \A u \in Thread : RootRange(u, root(m - 1)) \cap RootRange(u, root(n - 1)) = {}
      BY <2>2
    <3>2. m \in Nat /\ n \in Nat /\ m >= 1 /\ n >= 1
      BY <1>1
    <3>3. (m - 1) % 2 # (n - 1) % 2 /\ (m - 1) % 2 \in {0, 1} /\ (n - 1) % 2 \in {0, 1}
      BY <3>1, <3>2
    <3>4. {root(m - 1), root(n - 1)} = {scope.iRoot1, scope.iRoot2}
      BY <2>2, <3>3
    <3>5. \/ root(m - 1) = scope.iRoot1 /\ root(n - 1) = scope.iRoot2
          \/ root(m - 1) = scope.iRoot2 /\ root(n - 1) = scope.iRoot1
      BY <2>2, <3>3
    <3> HIDE DEF root
    <3>6. QED
      BY <1>1, <2>2, <3>5
  <2>3. QED
    BY <2>1, <2>2
<1>6. \A off \in Offs, tree \in Trees : \E n \in 1..N : (n - 1) \div nRoots = off /\ root(n - 1) = tree
  <2>1. SUFFICES ASSUME NEW off \in Offs, NEW tree \in Trees
                 PROVE  \E n \in 1..N : (n - 1) \div nRoots = off /\ root(n - 1) = tree
    OBVIOUS
  <2>2. off \in Nat /\ off < scope.boxes
    BY <1>1 DEF Offs
  <2>3. CASE scope.iRoot2 = 0
    <3>1. off + 1 \in 1..N /\ ((off + 1) - 1) \div nRoots = off /\ root((off + 1) - 1) = tree
      BY <1>1, <1>3, <2>2, <2>3
    <3>2. QED
      BY <3>1
  <2>4. CASE scope.iRoot2 # 0 /\ tree = scope.iRoot1
    <3>1. 2 * off + 1 \in 1..N /\ ((2 * off + 1) - 1) \div nRoots = off /\ root((2 * off + 1) - 1) = tree
      BY <1>1, <1>3, <2>2, <2>4
    <3>2. QED
      BY <3>1
  <2>5. CASE scope.iRoot2 # 0 /\ tree = scope.iRoot2
    <3>1. 2 * off + 2 \in 1..N /\ ((2 * off + 2) - 1) \div nRoots = off /\ root((2 * off + 2) - 1) = tree
      BY <1>1, <1>3, <2>2, <2>5
    <3>2. QED
      BY <3>1
  <2>6. QED
    BY <1>3, <2>3, <2>4, <2>5
<1>7. \A n \in 1..N : s[n] \in Entry /\ Covers(s[n]) = OfThreads(Thread, root(n - 1), (n - 1) \div nRoots)
  BY <1>2, <1>4, CheckCovers
<1>8. s = [n \in 1..N |-> s[n]]
  BY <1>2 DEF Checks
<1> HIDE DEF s, root, N, nRoots
<1>9. s \in Seq(Entry)
  <2>1. s \in [1..N -> Entry]
    BY <1>2, <1>7, <1>8
  <2>2. \A M \in Nat : \A f \in [1..M -> Entry] : f \in Seq(Entry)
    OBVIOUS
  <2>3. QED
    BY <1>1, <2>1, <2>2
<1>10. Apart(s)
  BY <1>2, <1>4, <1>5, <1>7, ReplicasApart DEF Apart
<1>11. Wanted(AllOf(s))
  <2>1. SUFFICES ASSUME NEW off \in Offs, NEW t \in Thread, NEW tree \in Trees, NEW j \in RootRange(t, tree)
                 PROVE  Source(t, j, off) \in AllOf(s)
    BY DEF Wanted, Offs
  <2>2. Source(t, j, off) \in OfThreads(Thread, tree, off)
    BY DEF OfThreads, Stored
  <2>3. PICK n \in 1..N : (n - 1) \div nRoots = off /\ root(n - 1) = tree
    BY <1>6
  <2>4. QED
    BY <1>2, <1>7, <2>2, <2>3, InAllOf
<1>12. QED
  BY <1>9, <1>10, <1>11, CoverIs DEF s
------------------------------------------------------------------------------
(* An entry is taken *)

\* What is added to a list leaves its beginnings as they are.
LEMMA Prefix ==
  ASSUME NEW E, NEW a \in Seq(E), NEW b \in Seq(E), NEW n \in Nat, n <= Len(a)
  PROVE  SubSeq(a \o b, 1, n) = SubSeq(a, 1, n) /\ n <= Len(a \o b) /\ a \o b \in Seq(E)
OBVIOUS

Takes(e) ==
  Ignore(e) \/ Keep(e) \/ ParticleParticle(e) \/ OpenBucket(e) \/ OpenCell(e) \/ Multipole(e) \/ LocalExpansion(e)

\* What is taken from the list goes to the end of one of the five, or is replaced there by
\* what it is opened into.
LEMMA HeadGoes ==
  ASSUME Sound, ListTypes, cl # <<>>, NEW e, e = Head(cl), Takes(e)
  PROVE  \E new \in Seq(Entry) :
           /\ AllOf(new) = Covers(e) /\ Apart(new)
           /\ \/ cl' = Tail(cl) \o new /\ stays' = stays /\ ilp' = ilp /\ ilc' = ilc /\ L' = L
              \/ cl' = Tail(cl) /\ stays' = stays \o new /\ ilp' = ilp /\ ilc' = ilc /\ L' = L
              \/ cl' = Tail(cl) /\ stays' = stays /\ ilp' = ilp \o new /\ ilc' = ilc /\ L' = L
              \/ cl' = Tail(cl) /\ stays' = stays /\ ilp' = ilp /\ ilc' = ilc \o new /\ L' = L
              \/ cl' = Tail(cl) /\ stays' = stays /\ ilp' = ilp /\ ilc' = ilc /\ L' = L \o new
<1> DEFINE rest == Tail(cl)
<1>1. e \in Entry /\ rest \in Seq(Entry) /\ <<e>> \in Seq(Entry) /\ <<>> \in Seq(Entry)
  BY HeadCovers DEF ListTypes
<1>2. /\ stays \in Seq(Entry) /\ ilc \in Seq(Entry) /\ L \in Seq(Entry)
      /\ \A s \in Seq(Entry) : Append(s, e) = s \o <<e>> /\ s \o <<>> = s
  BY <1>1 DEF ListTypes
<1>3. AllOf(<<e>>) = Covers(e) /\ Apart(<<e>>)
  BY OneCovers
<1>4. CASE Ignore(e)
  <2>1. e.m <= 0 /\ cl' = rest \o <<>> /\ stays' = stays /\ ilp' = ilp /\ ilc' = ilc /\ L' = L
    BY <1>1, <1>2, <1>4 DEF Ignore
  <2>2. AllOf(<<>>) = Covers(e) /\ Apart(<<>>)
    BY <1>1, <2>1, EmptyEntry, NoneCovers
  <2> HIDE DEF rest
  <2>3. QED
    BY <1>1, <2>1, <2>2 DEF rest
<1>5. CASE Keep(e)
  <2>1. cl' = rest /\ stays' = stays \o <<e>> /\ ilp' = ilp /\ ilc' = ilc /\ L' = L
    BY <1>2, <1>5 DEF Keep
  <2>2. QED
    BY <1>1, <1>3, <2>1
<1>6. CASE ParticleParticle(e)
  <2>1. e.m > 0 /\ e.lower.i = 0 /\ cl' = rest /\ stays' = stays /\ ilp' = ilp \o Particles(e) /\ ilc' = ilc /\ L' = L
    BY <1>6 DEF ParticleParticle
  <2>2. Particles(e) \in Seq(Entry) /\ AllOf(Particles(e)) = Covers(e) /\ Apart(Particles(e))
    BY <1>1, <2>1, ParticlesOpen
  <2>3. QED
    BY <2>1, <2>2
<1>7. CASE OpenBucket(e)
  <2>1. e.m > 0 /\ e.lower.i = 0 /\ cl' = rest \o Particles(e) /\ stays' = stays /\ ilp' = ilp /\ ilc' = ilc /\ L' = L
    BY <1>7 DEF OpenBucket
  <2>2. Particles(e) \in Seq(Entry) /\ AllOf(Particles(e)) = Covers(e) /\ Apart(Particles(e))
    BY <1>1, <2>1, ParticlesOpen
  <2>3. QED
    BY <2>1, <2>2
<1>8. CASE OpenCell(e)
  <2>1. e.lower.i # 0 /\ cl' = rest \o Children(e) /\ stays' = stays /\ ilp' = ilp /\ ilc' = ilc /\ L' = L
    BY <1>8 DEF OpenCell
  <2>2. Children(e) \in Seq(Entry) /\ AllOf(Children(e)) = Covers(e) /\ Apart(Children(e))
    BY <1>1, <2>1, CellOpens
  <2>3. QED
    BY <2>1, <2>2
<1>9. CASE Multipole(e)
  <2>1. cl' = rest /\ stays' = stays /\ ilp' = ilp /\ ilc' = ilc \o <<e>> /\ L' = L
    BY <1>2, <1>9 DEF Multipole
  <2>2. QED
    BY <1>1, <1>3, <2>1
<1>10. CASE LocalExpansion(e)
  <2>1. cl' = rest /\ stays' = stays /\ ilp' = ilp /\ ilc' = ilc /\ L' = L \o <<e>>
    BY <1>2, <1>10 DEF LocalExpansion
  <2>2. QED
    BY <1>1, <1>3, <2>1
<1>11. QED
  BY <1>4, <1>5, <1>6, <1>7, <1>8, <1>9, <1>10 DEF Takes

\* Whatever becomes of the head of the list, the five lists still cover every source once.
LEMMA EntryTaken ==
  ASSUME Sound, ListTypes, ListsCover, cl # <<>>, NEW e, e = Head(cl), Takes(e)
  PROVE  /\ cl' \in Seq(Entry) /\ stays' \in Seq(Entry) /\ ilp' \in Seq(Entry) /\ ilc' \in Seq(Entry) /\ L' \in Seq(Entry)
         /\ CoverOnce(cl' \o stays' \o ilp' \o ilc' \o L')
         /\ \A n \in Nat : n <= Len(ilp) => n <= Len(ilp') /\ SubSeq(ilp', 1, n) = SubSeq(ilp, 1, n)
         /\ \A n \in Nat : n <= Len(ilc) => n <= Len(ilc') /\ SubSeq(ilc', 1, n) = SubSeq(ilc, 1, n)
<1> DEFINE rest == Tail(cl)
<1>1. PICK new \in Seq(Entry) :
           /\ AllOf(new) = Covers(e) /\ Apart(new)
           /\ \/ cl' = rest \o new /\ stays' = stays /\ ilp' = ilp /\ ilc' = ilc /\ L' = L
              \/ cl' = rest /\ stays' = stays \o new /\ ilp' = ilp /\ ilc' = ilc /\ L' = L
              \/ cl' = rest /\ stays' = stays /\ ilp' = ilp \o new /\ ilc' = ilc /\ L' = L
              \/ cl' = rest /\ stays' = stays /\ ilp' = ilp /\ ilc' = ilc \o new /\ L' = L
              \/ cl' = rest /\ stays' = stays /\ ilp' = ilp /\ ilc' = ilc /\ L' = L \o new
  BY HeadGoes
<1>2. cl \in Seq(Entry) /\ stays \in Seq(Entry) /\ ilp \in Seq(Entry) /\ ilc \in Seq(Entry) /\ L \in Seq(Entry) /\ rest \in Seq(Entry)
  BY HeadCovers DEF ListTypes
<1>3. CoverOnce(cl \o stays \o ilp \o ilc \o L)
  BY DEF ListsCover
<1>4. /\ CoverOnce((rest \o new) \o stays \o ilp \o ilc \o L)
      /\ CoverOnce(rest \o (stays \o new) \o ilp \o ilc \o L)
      /\ CoverOnce(rest \o stays \o (ilp \o new) \o ilc \o L)
      /\ CoverOnce(rest \o stays \o ilp \o (ilc \o new) \o L)
      /\ CoverOnce(rest \o stays \o ilp \o ilc \o (L \o new))
  BY <1>1, <1>2, <1>3, MoveHead
<1>5. \A s \in Seq(Entry) : s \o new \in Seq(Entry)
  BY <1>1
<1> HIDE DEF rest
<1>6. /\ cl' \in Seq(Entry) /\ stays' \in Seq(Entry) /\ ilp' \in Seq(Entry) /\ ilc' \in Seq(Entry) /\ L' \in Seq(Entry)
  BY <1>1, <1>2, <1>5
<1>7. CoverOnce(cl' \o stays' \o ilp' \o ilc' \o L')
  BY <1>1, <1>4, Zenon
<1>8. \A n \in Nat : n <= Len(ilp) => n <= Len(ilp') /\ SubSeq(ilp', 1, n) = SubSeq(ilp, 1, n)
  <2>1. \A n \in Nat : n <= Len(ilp) => n <= Len(ilp \o new) /\ SubSeq(ilp \o new, 1, n) = SubSeq(ilp, 1, n)
    BY <1>1, <1>2, Prefix
  <2>2. ilp' = ilp \/ ilp' = ilp \o new
    BY <1>1
  <2>3. QED
    BY <2>1, <2>2
<1>9. \A n \in Nat : n <= Len(ilc) => n <= Len(ilc') /\ SubSeq(ilc', 1, n) = SubSeq(ilc, 1, n)
  <2>1. \A n \in Nat : n <= Len(ilc) => n <= Len(ilc \o new) /\ SubSeq(ilc \o new, 1, n) = SubSeq(ilc, 1, n)
    BY <1>1, <1>2, Prefix
  <2>2. ilc' = ilc \/ ilc' = ilc \o new
    BY <1>1
  <2>3. QED
    BY <2>1, <2>2
<1>10. QED
  BY <1>6, <1>7, <1>8, <1>9

\* A walk that goes on keeps everything that is not about its lists.
Goes == pkd' = pkd /\ self' = self /\ scope' = scope /\ lowest' = lowest /\ rungOf' = rungOf

\* What a walk does not change.
LEMMA WorldSame ==
  ASSUME Goes
  PROVE  /\ Sound' = Sound /\ RungsKnown(self, scope.iRoot1, lowest, rungOf)' = RungsKnown(self, scope.iRoot1, lowest, rungOf)
         /\ Seq(Entry)' = Seq(Entry) /\ Frames' = Frames
<1>1. Entry' = Entry /\ Sound' = Sound
  BY TreesSame DEF Goes
<1>2. RungsKnown(self, scope.iRoot1, lowest, rungOf)' = RungsKnown(self, scope.iRoot1, lowest, rungOf)
  BY DEF RungsKnown, BuiltNodes, Node, Goes
<1>3. QED
  BY <1>1, <1>2 DEF Frames

\* The fields of an element of the stack.
LEMMA FrameIs ==
  ASSUME ListTypes, NEW n \in DOMAIN S
  PROVE  S[n].iNode \in Nat /\ S[n].cl \in Seq(Entry) /\ S[n].nPart \in Nat /\ S[n].nCell \in Nat /\ S[n].L \in Seq(Entry)
<1>1. S[n] \in Frames
  BY DEF ListTypes
<1>2. QED
  BY <1>1 DEF Frames

\* Taking an entry keeps the invariant.
LEMMA EntryStep ==
  ASSUME WalkInv, CheckEntry
  PROVE  WalkInv'
<1>1. /\ at = "check" /\ cl # <<>> /\ Takes(Head(cl))
      /\ Goes /\ at' = at /\ iCell' = iCell /\ S' = S /\ nForced' = nForced
  BY DEF CheckEntry, Goes, Takes
<1>2. /\ Sound /\ RungsKnown(self, scope.iRoot1, lowest, rungOf)
      /\ ListTypes /\ Sinks /\ Waiting /\ ListsCover /\ FramesCover
      /\ \A j \in DOMAIN nForced : nForced[j] \in {0, 1}
  BY <1>1 DEF WalkInv
<1>3. /\ cl' \in Seq(Entry) /\ stays' \in Seq(Entry) /\ ilp' \in Seq(Entry) /\ ilc' \in Seq(Entry) /\ L' \in Seq(Entry)
      /\ CoverOnce(cl' \o stays' \o ilp' \o ilc' \o L')
      /\ \A n \in Nat : n <= Len(ilp) => n <= Len(ilp') /\ SubSeq(ilp', 1, n) = SubSeq(ilp, 1, n)
      /\ \A n \in Nat : n <= Len(ilc) => n <= Len(ilc') /\ SubSeq(ilc', 1, n) = SubSeq(ilc, 1, n)
  BY <1>1, <1>2, EntryTaken
<1>4. Sound' /\ RungsKnown(self, scope.iRoot1, lowest, rungOf)' /\ Seq(Entry)' = Seq(Entry) /\ Frames' = Frames
  BY <1>1, <1>2, WorldSame
<1>5. /\ SinkNodes' = SinkNodes /\ \A s : CoverOnce(s)' <=> CoverOnce(s)
      /\ \A i : RangeOf(i)' = RangeOf(i) /\ Height(i)' = Height(i)
      /\ RootRange(self, scope.iRoot1)' = RootRange(self, scope.iRoot1)
  BY <1>1, TreesSame DEF Goes
<1>6. S \in Seq(Frames) /\ \A n \in DOMAIN S : S[n].nPart \in Nat /\ S[n].nCell \in Nat
  BY <1>2, FrameIs DEF ListTypes
<1>7. ListTypes'
  BY <1>1, <1>2, <1>3, <1>4, <1>6 DEF ListTypes
<1>8. Sinks'
  BY <1>1, <1>2, <1>5 DEF Sinks
<1>9. Waiting'
  BY <1>1, <1>2, <1>5 DEF Waiting, Goes
<1>10. ListsCover'
  BY <1>3, <1>5 DEF ListsCover
<1>11. FramesCover'
  <2>1. ASSUME NEW n \in DOMAIN S
        PROVE  SubSeq(ilp', 1, S[n].nPart) = SubSeq(ilp, 1, S[n].nPart) /\ SubSeq(ilc', 1, S[n].nCell) = SubSeq(ilc, 1, S[n].nCell)
    BY <1>2, <1>3, <1>6 DEF ListTypes
  <2>2. \A n \in DOMAIN S : \A s :
          s = S[n].cl \o SubSeq(ilp', 1, S[n].nPart) \o SubSeq(ilc', 1, S[n].nCell) \o S[n].L => CoverOnce(s)
    BY <1>2, <2>1, Zenon DEF FramesCover
  <2>3. QED
    BY <1>1, <1>5, <2>2, Zenon DEF FramesCover
<1>12. QED
  BY <1>1, <1>2, <1>4, <1>7, <1>8, <1>9, <1>10, <1>11 DEF WalkInv
------------------------------------------------------------------------------
(* The next sink cell *)

\* The particles of a sink cell.
LEMMA SinkNode ==
  ASSUME Sound, NEW i \in SinkNodes
  PROVE  /\ i \in Nat /\ Node(self, i).pLower \in Nat /\ Node(self, i).pUpper \in Int
         /\ Node(self, i).iLower = 0 => Node(self, i).bGroup
BY BuiltNode DEF SinkNodes, Sound, Walkable, Trees

\* The children of a sink cell split its particles, and are one level deeper.
LEMMA SinkChildren ==
  ASSUME Sound, NEW i \in SinkNodes, ~Node(self, i).bGroup,
         NEW lower, lower = Node(self, i).iLower, NEW upper, upper = lower + 1
  PROVE  /\ lower \in SinkNodes /\ upper \in SinkNodes
         /\ RangeOf(i) = RangeOf(lower) \cup RangeOf(upper) /\ RangeOf(lower) \cap RangeOf(upper) = {}
         /\ Height(i) < Height(lower) /\ Height(i) < Height(upper)
<1> DEFINE c == Node(self, i)
           a == Node(self, lower)
           b == Node(self, upper)
<1>1. /\ scope.iRoot1 \in Trees /\ self \in Thread
  BY DEF Sound, Walkable, Trees
<1>2. /\ c.pLower \in Nat /\ c.pUpper \in Int /\ lower \in SinkNodes /\ upper \in SinkNodes
      /\ a.pLower = c.pLower /\ b.pLower = a.pUpper + 1 /\ b.pUpper = c.pUpper
      /\ a.pLower <= a.pUpper /\ b.pLower <= b.pUpper
  BY <1>1, BuiltNode DEF SinkNodes
<1>3. a.pUpper \in Int /\ b.pLower \in Nat
  BY <1>2, SinkNode
<1>4. RangeOf(i) = RangeOf(lower) \cup RangeOf(upper) /\ RangeOf(lower) \cap RangeOf(upper) = {}
  BY <1>2, <1>3 DEF RangeOf
<1>5. Within(a, c) /\ Within(b, c) /\ ~Within(c, a) /\ ~Within(c, b)
  BY <1>2, <1>3 DEF Within
<1>6. \A j \in SinkNodes : Within(c, Node(self, j)) => Within(a, Node(self, j)) /\ Within(b, Node(self, j))
  BY <1>2, <1>3, SinkNode DEF Within
<1> DEFINE P(j) == Path(self, scope.iRoot1, j)
<1>7. \A j : P(j) = {m \in SinkNodes : Within(Node(self, j), Node(self, m))}
  BY DEF Path, SinkNodes
<1>8. ASSUME NEW j \in SinkNodes, Within(Node(self, j), c), ~Within(c, Node(self, j)),
             \A m \in SinkNodes : Within(c, Node(self, m)) => Within(Node(self, j), Node(self, m)),
             Node(self, j).pLower <= Node(self, j).pUpper
      PROVE  Height(i) < Height(j)
  <2>1. j \in P(j)
    BY <1>7, <1>8, SinkNode DEF Within
  <2>2. j \notin P(i) /\ P(i) \subseteq P(j)
    BY <1>7, <1>8
  <2>3. IsFiniteSet(P(i)) /\ IsFiniteSet(P(j)) /\ Height(i) = Cardinality(P(i)) /\ Height(j) = Cardinality(P(j))
    BY <1>8, HeightIs DEF Height
  <2> HIDE DEF P
  <2>4. P(i) # P(j)
    BY <2>1, <2>2
  <2>5. Cardinality(P(i)) <= Cardinality(P(j)) /\ Cardinality(P(i)) # Cardinality(P(j))
    BY <2>2, <2>3, <2>4, FS_Subset
  <2>6. Cardinality(P(i)) \in Nat /\ Cardinality(P(j)) \in Nat
    BY <2>3, FS_CardinalityType
  <2>7. QED
    BY <2>3, <2>5, <2>6
<1>9. QED
  BY <1>2, <1>4, <1>5, <1>6, <1>8
\* A cell that is not active has no active particle.
LEMMA InactiveCell ==
  ASSUME Sound, RungsKnown(self, scope.iRoot1, lowest, rungOf), NEW i \in SinkNodes, NEW j \in RangeOf(i), rungOf[j] >= lowest
  PROVE  IsActive(Node(self, i))
BY DEF RungsKnown, SinkNodes, RangeOf, IsActive

\* Which of its children the walk descends to, and whether the other one waits.
Below(lower, upper) ==
  \/ /\ IsActive(Node(self, lower)) /\ IsActive(Node(self, upper))
     /\ iCell' = lower /\ S' = Append(S, Frame(upper))
  \/ /\ IsActive(Node(self, lower)) /\ ~IsActive(Node(self, upper))
     /\ iCell' = lower /\ S' = S
  \/ /\ ~IsActive(Node(self, lower)) /\ iCell' = upper /\ S' = S

\* Going down to a child, with its sibling on the stack or not, keeps the invariant.
LEMMA DescendStep ==
  ASSUME WalkInv, Descend
  PROVE  WalkInv'
<1> DEFINE lower == Node(self, iCell).iLower
           upper == lower + 1
<1>1. /\ at = "check" /\ cl = <<>> /\ ~Node(self, iCell).bGroup
      /\ Goes /\ at' = at /\ ilp' = ilp /\ ilc' = ilc /\ L' = L /\ nForced' = nForced
      /\ cl' = stays /\ stays' = <<>>
  BY DEF Descend, Goes, k
<1>2. Below(lower, upper)
  BY DEF Descend, Below, k
<1>3. /\ Sound /\ RungsKnown(self, scope.iRoot1, lowest, rungOf)
      /\ ListTypes /\ Sinks /\ Waiting /\ ListsCover /\ FramesCover
      /\ \A j \in DOMAIN nForced : nForced[j] \in {0, 1}
  BY <1>1 DEF WalkInv
<1>4. Sound' /\ RungsKnown(self, scope.iRoot1, lowest, rungOf)' /\ Seq(Entry)' = Seq(Entry) /\ Frames' = Frames
  BY <1>1, <1>3, WorldSame
<1>5. /\ SinkNodes' = SinkNodes /\ \A s : CoverOnce(s)' <=> CoverOnce(s)
      /\ \A i : RangeOf(i)' = RangeOf(i) /\ Height(i)' = Height(i)
      /\ RootRange(self, scope.iRoot1)' = RootRange(self, scope.iRoot1)
  BY <1>1, TreesSame DEF Goes
<1>6. iCell \in SinkNodes /\ Len(S) < Height(iCell)
  BY <1>3 DEF Sinks
<1>7. /\ lower \in SinkNodes /\ upper \in SinkNodes /\ lower \in Nat /\ upper \in Nat
      /\ RangeOf(iCell) = RangeOf(lower) \cup RangeOf(upper) /\ RangeOf(lower) \cap RangeOf(upper) = {}
      /\ Height(iCell) < Height(lower) /\ Height(iCell) < Height(upper)
      /\ Height(iCell) \in Nat /\ Height(lower) \in Nat /\ Height(upper) \in Nat
  <2>1. /\ lower \in SinkNodes /\ upper \in SinkNodes
        /\ RangeOf(iCell) = RangeOf(lower) \cup RangeOf(upper) /\ RangeOf(lower) \cap RangeOf(upper) = {}
        /\ Height(iCell) < Height(lower) /\ Height(iCell) < Height(upper)
    BY <1>1, <1>3, <1>6, SinkChildren
  <2>2. lower \in Nat /\ upper \in Nat
    BY <1>3, <2>1, SinkNode
  <2>3. Height(iCell) \in Nat /\ Height(lower) \in Nat /\ Height(upper) \in Nat
    BY <1>3, <1>6, <2>1, HeightIs
  <2>4. QED
    BY <2>1, <2>2, <2>3
<1>8. \A j : /\ j \in RangeOf(lower) /\ rungOf[j] >= lowest => IsActive(Node(self, lower))
             /\ j \in RangeOf(upper) /\ rungOf[j] >= lowest => IsActive(Node(self, upper))
  BY <1>3, <1>7, InactiveCell
<1> HIDE DEF lower, upper
<1>9. /\ stays \in Seq(Entry) /\ ilp \in Seq(Entry) /\ ilc \in Seq(Entry) /\ L \in Seq(Entry) /\ S \in Seq(Frames)
      /\ Len(ilp) \in Nat /\ Len(ilc) \in Nat /\ Len(S) \in Nat /\ DOMAIN S = 1..Len(S)
      /\ \A n \in DOMAIN S : S[n].nPart <= Len(ilp) /\ S[n].nCell <= Len(ilc)
      /\ \A m, n \in DOMAIN S : m < n => S[m].nPart <= S[n].nPart /\ S[m].nCell <= S[n].nCell
  BY <1>3 DEF ListTypes
<1> DEFINE f == Frame(upper)
<1>10. /\ f \in Frames /\ f.iNode = upper /\ f.cl = stays /\ f.nPart = Len(ilp) /\ f.nCell = Len(ilc) /\ f.L = L
  BY <1>7, <1>9 DEF Frame, Frames
<1>11. Append(S, f) \in Seq(Frames) /\ DOMAIN Append(S, f) = 1..(Len(S) + 1) /\ Len(Append(S, f)) = Len(S) + 1
       /\ \A n \in 1..(Len(S) + 1) : Append(S, f)[n] = IF n = Len(S) + 1 THEN f ELSE S[n]
  BY <1>9, <1>10
<1> HIDE DEF f
<1>12. CoverOnce(stays \o ilp \o ilc \o L)
  <2>1. \A s \in Seq(Entry) : <<>> \o s = s
    OBVIOUS
  <2>2. CoverOnce(cl \o stays \o ilp \o ilc \o L)
    BY <1>3 DEF ListsCover
  <2>3. cl \o stays = stays
    BY <1>1, <1>9, <2>1
  <2>4. QED
    BY <2>2, <2>3
<1>13. ListsCover'
  <2>1. \A s \in Seq(Entry) : s \o <<>> = s
    OBVIOUS
  <2>2. stays \o <<>> = stays
    BY <1>9, <2>1
  <2>3. CoverOnce(stays \o <<>> \o ilp \o ilc \o L)
    BY <1>12, <2>2
  <2>4. QED
    BY <1>1, <1>5, <2>3, Zenon DEF ListsCover
<1>14. CASE iCell' = lower /\ S' = Append(S, f) /\ IsActive(Node(self, lower)) /\ IsActive(Node(self, upper))
  <2>1. ListTypes'
    BY <1>1, <1>4, <1>9, <1>10, <1>11, <1>14 DEF ListTypes
  <2>2. Sinks'
    <3>1. \A n \in DOMAIN S : S[n].iNode \in SinkNodes /\ n <= Height(S[n].iNode)
      BY <1>3 DEF Sinks
    <3>2. \A n \in 1..(Len(S) + 1) : Append(S, f)[n].iNode \in SinkNodes /\ n <= Height(Append(S, f)[n].iNode)
      <4>1. SUFFICES ASSUME NEW n \in 1..(Len(S) + 1)
                     PROVE  Append(S, f)[n].iNode \in SinkNodes /\ n <= Height(Append(S, f)[n].iNode)
        OBVIOUS
      <4>2. CASE n = Len(S) + 1
        <5>1. Append(S, f)[n].iNode = upper
          BY <1>10, <1>11, <4>2
        <5>2. n <= Height(upper)
          BY <1>6, <1>7, <1>9, <4>2
        <5>3. QED
          BY <1>7, <5>1, <5>2
      <4>3. CASE n # Len(S) + 1
        <5>1. n \in DOMAIN S /\ Append(S, f)[n] = S[n]
          BY <1>9, <1>11, <4>3
        <5>2. QED
          BY <3>1, <5>1
      <4>4. QED
        BY <4>2, <4>3
    <3>3. QED
      BY <1>5, <1>6, <1>7, <1>9, <1>11, <1>14, <3>2 DEF Sinks
  <2>3. Waiting'
    <3>1. /\ DOMAIN nForced = DOMAIN rungOf
          /\ \A j \in RangeOf(iCell) : nForced[j] = 0
          /\ \A n \in DOMAIN S : \A j \in RangeOf(S[n].iNode) : nForced[j] = 0
          /\ \A n \in DOMAIN S : RangeOf(iCell) \cap RangeOf(S[n].iNode) = {}
          /\ \A m, n \in DOMAIN S : m # n => RangeOf(S[m].iNode) \cap RangeOf(S[n].iNode) = {}
          /\ \A j \in RootRange(self, scope.iRoot1) : rungOf[j] >= lowest =>
               nForced[j] = 1 \/ j \in RangeOf(iCell) \/ \E n \in DOMAIN S : j \in RangeOf(S[n].iNode)
      BY <1>3 DEF Waiting
    <3> DEFINE T == Append(S, f)
    <3>2. /\ DOMAIN T = DOMAIN S \cup {Len(S) + 1} /\ Len(S) + 1 \notin DOMAIN S
          /\ T[Len(S) + 1].iNode = upper /\ \A n \in DOMAIN S : T[n] = S[n]
      BY <1>9, <1>10, <1>11
    <3> HIDE DEF T
    <3>3. /\ \A j \in RangeOf(lower) : nForced[j] = 0
          /\ \A n \in DOMAIN T : \A j \in RangeOf(T[n].iNode) : nForced[j] = 0
          /\ \A n \in DOMAIN T : RangeOf(lower) \cap RangeOf(T[n].iNode) = {}
      BY <1>7, <3>1, <3>2
    <3>4. \A m, n \in DOMAIN T : m # n => RangeOf(T[m].iNode) \cap RangeOf(T[n].iNode) = {}
      BY <1>7, <3>1, <3>2
    <3>5. \A j \in RootRange(self, scope.iRoot1) : rungOf[j] >= lowest =>
               nForced[j] = 1 \/ j \in RangeOf(lower) \/ \E n \in DOMAIN T : j \in RangeOf(T[n].iNode)
      BY <1>7, <3>1, <3>2
    <3>6. S' = T
      BY <1>14 DEF T
    <3>7. QED
      BY <1>1, <1>5, <1>14, <3>1, <3>3, <3>4, <3>5, <3>6 DEF Waiting, Goes
  <2>4. FramesCover'
    <3>1. \A n \in DOMAIN S : \A s :
            s = S[n].cl \o SubSeq(ilp, 1, S[n].nPart) \o SubSeq(ilc, 1, S[n].nCell) \o S[n].L => CoverOnce(s)
      BY <1>3, Zenon DEF FramesCover
    <3>2. SubSeq(ilp, 1, Len(ilp)) = ilp /\ SubSeq(ilc, 1, Len(ilc)) = ilc
      BY <1>9
    <3>3. \A s : s = f.cl \o SubSeq(ilp, 1, f.nPart) \o SubSeq(ilc, 1, f.nCell) \o f.L => CoverOnce(s)
      BY <1>10, <1>12, <3>2
    <3>4. ASSUME NEW n \in DOMAIN S' PROVE (n \in DOMAIN S /\ S'[n] = S[n]) \/ S'[n] = f
      BY <1>9, <1>11, <1>14
    <3>5. \A n \in DOMAIN S' : \A s :
            s = S'[n].cl \o SubSeq(ilp, 1, S'[n].nPart) \o SubSeq(ilc, 1, S'[n].nCell) \o S'[n].L => CoverOnce(s)
      BY <3>1, <3>3, <3>4, Zenon
    <3>6. QED
      BY <1>1, <1>5, <3>5, Zenon DEF FramesCover
  <2>5. QED
    BY <1>1, <1>3, <1>4, <1>13, <2>1, <2>2, <2>3, <2>4 DEF WalkInv
<1>15. ASSUME NEW i \in {lower, upper}, iCell' = i, S' = S,
              \A j \in RangeOf(iCell) : rungOf[j] >= lowest => j \in RangeOf(i)
       PROVE  WalkInv'
  <2>1. ListTypes'
    BY <1>1, <1>4, <1>9, <1>15 DEF ListTypes
  <2>2. Sinks'
    BY <1>3, <1>5, <1>6, <1>7, <1>9, <1>15 DEF Sinks
  <2>3. Waiting'
    <3>1. RangeOf(i) \subseteq RangeOf(iCell)
      BY <1>7, <1>15
    <3>2. QED
      BY <1>1, <1>3, <1>5, <1>15, <3>1 DEF Waiting, Goes
  <2>4. FramesCover'
    <3>1. \A n \in DOMAIN S : \A s :
            s = S[n].cl \o SubSeq(ilp, 1, S[n].nPart) \o SubSeq(ilc, 1, S[n].nCell) \o S[n].L => CoverOnce(s)
      BY <1>3, Zenon DEF FramesCover
    <3>2. QED
      BY <1>1, <1>5, <1>15, <3>1, Zenon DEF FramesCover
  <2>5. QED
    BY <1>1, <1>3, <1>4, <1>13, <2>1, <2>2, <2>3, <2>4 DEF WalkInv
<1>16. QED
  BY <1>2, <1>7, <1>8, <1>14, <1>15 DEF Below, f
------------------------------------------------------------------------------
(* The group interacts *)

\* The beginning of a beginning.
LEMMA PrefixOfPrefix ==
  ASSUME NEW E, NEW a \in Seq(E), NEW n \in Nat, n <= Len(a), NEW m \in Nat, m <= n
  PROVE  /\ SubSeq(a, 1, n) \in Seq(E) /\ Len(SubSeq(a, 1, n)) = n
         /\ SubSeq(SubSeq(a, 1, n), 1, m) = SubSeq(a, 1, m)
OBVIOUS

\* The stack without its top.
LEMMA FrontLast ==
  ASSUME NEW E, NEW s \in Seq(E), s # <<>>
  PROVE  /\ Front(s) \in Seq(E) /\ Len(s) \in Nat \ {0} /\ DOMAIN s = 1..Len(s)
         /\ Len(Front(s)) = Len(s) - 1 /\ DOMAIN Front(s) = 1..(Len(s) - 1)
         /\ \A n \in DOMAIN Front(s) : Front(s)[n] = s[n] /\ n \in DOMAIN s /\ n < Len(s)
         /\ Last(s) = s[Len(s)]
<1>1. /\ Len(s) \in Nat \ {0} /\ DOMAIN s = 1..Len(s) /\ Last(s) = s[Len(s)]
  BY DEF Last
<1>2. Front(s) = SubSeq(s, 1, Len(s) - 1)
  BY DEF Front
<1>3. Len(s) - 1 \in Nat /\ Len(s) - 1 <= Len(s)
  BY <1>1
<1>4. SubSeq(s, 1, Len(s) - 1) \in Seq(E) /\ Len(SubSeq(s, 1, Len(s) - 1)) = Len(s) - 1
  <2>1. 0 \in Nat /\ 0 <= Len(s) - 1
    BY <1>3
  <2>2. QED
    BY <1>3, <2>1, PrefixOfPrefix
<1>5. \A n \in 1..(Len(s) - 1) : SubSeq(s, 1, Len(s) - 1)[n] = s[n]
  BY <1>3
<1>6. DOMAIN Front(s) = 1..(Len(s) - 1)
  BY <1>2, <1>4
<1>7. QED
  BY <1>1, <1>2, <1>4, <1>5, <1>6

\* The forces of the group are calculated, and no others.
LEMMA GroupForced ==
  ASSUME WalkInv, Interact
  PROVE  /\ \A j \in DOMAIN nForced' : nForced'[j] \in {0, 1}
         /\ DOMAIN nForced' = DOMAIN nForced
         /\ \A j \in DOMAIN nForced : j \notin RangeOf(iCell) => nForced'[j] = nForced[j]
         /\ \A j \in DOMAIN nForced : j \in RangeOf(iCell) /\ rungOf[j] >= lowest => nForced'[j] = 1
<1>1. at = "check" /\ nForced' = Interacted
  BY DEF Interact
<1>2. /\ \A j \in DOMAIN nForced : nForced[j] \in {0, 1}
      /\ \A j \in RangeOf(iCell) : nForced[j] = 0
  BY <1>1 DEF WalkInv, Waiting
<1>3. nForced' = [j \in DOMAIN nForced |-> nForced[j] + IF j \in RangeOf(iCell) /\ rungOf[j] >= lowest THEN 1 ELSE 0]
  BY <1>1 DEF Interacted, RangeOf, k
<1>4. QED
  BY <1>2, <1>3

\* At the last group every active particle has had its force calculated.
LEMMA FinishStep ==
  ASSUME WalkInv, Interact, S = <<>>
  PROVE  WalkInv'
<1>1. at = "check" /\ Goes /\ at' = "walked"
  BY DEF Interact, Finish, Goes
<1>2. RootRange(self, scope.iRoot1)' = RootRange(self, scope.iRoot1)
  BY <1>1, TreesSame DEF Goes
<1>3. /\ Waiting /\ \A j \in RootRange(self, scope.iRoot1) : j \in DOMAIN rungOf
  BY <1>1, RootNode DEF WalkInv, RungsKnown, RootRange
<1>4. \A j \in RootRange(self, scope.iRoot1) : rungOf[j] >= lowest => nForced[j] = 1 \/ j \in RangeOf(iCell)
  BY <1>3 DEF Waiting
<1>5. DOMAIN nForced = DOMAIN rungOf
  BY <1>3 DEF Waiting
<1>6. \A j \in RootRange(self, scope.iRoot1) : rungOf[j] >= lowest => nForced'[j] = 1
  <2>1. SUFFICES ASSUME NEW j \in RootRange(self, scope.iRoot1), rungOf[j] >= lowest PROVE nForced'[j] = 1
    OBVIOUS
  <2>2. j \in DOMAIN nForced
    BY <1>3, <1>5
  <2>3. CASE j \in RangeOf(iCell)
    BY <2>1, <2>2, <2>3, GroupForced
  <2>4. CASE j \notin RangeOf(iCell)
    BY <1>4, <2>1, <2>2, <2>4, GroupForced
  <2>5. QED
    BY <2>3, <2>4
<1>7. \A j \in DOMAIN nForced' : nForced'[j] \in {0, 1}
  BY GroupForced
<1>8. QED
  BY <1>1, <1>2, <1>6, <1>7 DEF WalkInv, Goes

\* The lists are those of the sibling again, and cover every source once.
LEMMA PopStep ==
  ASSUME WalkInv, Interact, S # <<>>
  PROVE  WalkInv'
<1> DEFINE f == S[Len(S)]
<1>1. at = "check" /\ Goes /\ stays' = <<>>
  BY DEF Interact, Goes
<1>2. /\ Sound /\ RungsKnown(self, scope.iRoot1, lowest, rungOf)
      /\ ListTypes /\ Sinks /\ Waiting /\ ListsCover /\ FramesCover
  BY <1>1 DEF WalkInv
<1>3. /\ S \in Seq(Frames) /\ Front(S) \in Seq(Frames) /\ Len(S) \in Nat \ {0} /\ DOMAIN S = 1..Len(S)
      /\ Len(Front(S)) = Len(S) - 1 /\ DOMAIN Front(S) = 1..(Len(S) - 1)
      /\ \A n \in DOMAIN Front(S) : Front(S)[n] = S[n] /\ n \in DOMAIN S /\ n < Len(S)
      /\ Last(S) = f
  BY <1>2, FrontLast DEF ListTypes
<1>4. /\ iCell' = f.iNode /\ cl' = f.cl /\ L' = f.L /\ S' = Front(S) /\ at' = at
      /\ ilp' = SubSeq(ilp, 1, f.nPart) /\ ilc' = SubSeq(ilc, 1, f.nCell)
  BY <1>3 DEF Interact, Pop
<1>5. Sound' /\ RungsKnown(self, scope.iRoot1, lowest, rungOf)' /\ Seq(Entry)' = Seq(Entry) /\ Frames' = Frames
  BY <1>1, <1>2, WorldSame
<1>6. /\ SinkNodes' = SinkNodes /\ \A s : CoverOnce(s)' <=> CoverOnce(s)
      /\ \A i : RangeOf(i)' = RangeOf(i) /\ Height(i)' = Height(i)
      /\ RootRange(self, scope.iRoot1)' = RootRange(self, scope.iRoot1)
  BY <1>1, TreesSame DEF Goes
<1>7. /\ \A n \in DOMAIN S : /\ S[n].iNode \in Nat /\ S[n].cl \in Seq(Entry) /\ S[n].L \in Seq(Entry)
                             /\ S[n].nPart \in Nat /\ S[n].nCell \in Nat
      /\ \A n \in DOMAIN S : S[n].nPart <= Len(ilp) /\ S[n].nCell <= Len(ilc)
      /\ \A m, n \in DOMAIN S : m < n => S[m].nPart <= S[n].nPart /\ S[m].nCell <= S[n].nCell
      /\ ilp \in Seq(Entry) /\ ilc \in Seq(Entry)
  BY <1>2, FrameIs DEF ListTypes
<1>8. Len(S) \in DOMAIN S
  BY <1>3
<1>9. /\ SubSeq(ilp, 1, f.nPart) \in Seq(Entry) /\ Len(SubSeq(ilp, 1, f.nPart)) = f.nPart
      /\ SubSeq(ilc, 1, f.nCell) \in Seq(Entry) /\ Len(SubSeq(ilc, 1, f.nCell)) = f.nCell
      /\ \A n \in DOMAIN Front(S) :
           /\ SubSeq(SubSeq(ilp, 1, f.nPart), 1, S[n].nPart) = SubSeq(ilp, 1, S[n].nPart)
           /\ SubSeq(SubSeq(ilc, 1, f.nCell), 1, S[n].nCell) = SubSeq(ilc, 1, S[n].nCell)
  <2>1. f.nPart \in Nat /\ f.nPart <= Len(ilp) /\ f.nCell \in Nat /\ f.nCell <= Len(ilc)
    BY <1>7, <1>8
  <2>2. \A n \in DOMAIN Front(S) : S[n].nPart \in Nat /\ S[n].nPart <= f.nPart /\ S[n].nCell \in Nat /\ S[n].nCell <= f.nCell
    BY <1>3, <1>7, <1>8
  <2> HIDE DEF f
  <2>3. 0 \in Nat /\ 0 <= f.nPart /\ 0 <= f.nCell
    BY <2>1
  <2>4. QED
    BY <1>7, <2>1, <2>2, <2>3, PrefixOfPrefix
<1>10. f.cl \in Seq(Entry) /\ f.L \in Seq(Entry)
  BY <1>7, <1>8
<1>11. ListTypes'
  <2>1. \A n \in DOMAIN Front(S) : /\ Front(S)[n].nPart <= f.nPart /\ Front(S)[n].nCell <= f.nCell
    BY <1>3, <1>7, <1>8
  <2>2. \A m, n \in DOMAIN Front(S) : m < n => Front(S)[m].nPart <= Front(S)[n].nPart /\ Front(S)[m].nCell <= Front(S)[n].nCell
    BY <1>3, <1>7
  <2>3. <<>> \in Seq(Entry)
    OBVIOUS
  <2> HIDE DEF f
  <2>4. QED
    BY <1>1, <1>3, <1>4, <1>5, <1>9, <1>10, <2>1, <2>2, <2>3 DEF ListTypes
<1>12. Sinks'
  <2>1. \A n \in DOMAIN S : S[n].iNode \in SinkNodes /\ n <= Height(S[n].iNode)
    BY <1>2 DEF Sinks
  <2>2. f.iNode \in SinkNodes /\ Len(S) <= Height(f.iNode)
    BY <1>8, <2>1
  <2>3. Height(f.iNode) \in Nat
    BY <1>2, <2>2, HeightIs
  <2> HIDE DEF f
  <2>4. Len(Front(S)) < Height(f.iNode)
    BY <1>3, <2>2, <2>3
  <2>5. QED
    BY <1>3, <1>4, <1>6, <2>1, <2>2, <2>4 DEF Sinks
<1>13. Waiting'
  <2>1. /\ DOMAIN nForced = DOMAIN rungOf
        /\ \A n \in DOMAIN S : \A j \in RangeOf(S[n].iNode) : nForced[j] = 0
        /\ \A n \in DOMAIN S : RangeOf(iCell) \cap RangeOf(S[n].iNode) = {}
        /\ \A m, n \in DOMAIN S : m # n => RangeOf(S[m].iNode) \cap RangeOf(S[n].iNode) = {}
        /\ \A j \in RootRange(self, scope.iRoot1) : rungOf[j] >= lowest =>
             nForced[j] = 1 \/ j \in RangeOf(iCell) \/ \E n \in DOMAIN S : j \in RangeOf(S[n].iNode)
    BY <1>2 DEF Waiting
  <2>2. /\ DOMAIN nForced' = DOMAIN nForced
        /\ \A j \in DOMAIN nForced : j \notin RangeOf(iCell) => nForced'[j] = nForced[j]
        /\ \A j \in DOMAIN nForced : j \in RangeOf(iCell) /\ rungOf[j] >= lowest => nForced'[j] = 1
    BY GroupForced
  <2>3. \A i \in SinkNodes : \A j \in RangeOf(i) : j \in DOMAIN rungOf
    BY <1>2 DEF RungsKnown, SinkNodes, RangeOf
  <2>4. \A n \in DOMAIN S : S[n].iNode \in SinkNodes
    BY <1>2 DEF Sinks
  <2>5. \A n \in DOMAIN S : \A j \in RangeOf(S[n].iNode) : nForced'[j] = 0
    BY <2>1, <2>2, <2>3, <2>4
  <2>6. \A j \in RootRange(self, scope.iRoot1) : j \in DOMAIN rungOf
    BY <1>2, RootNode DEF RungsKnown, RootRange
  <2>7. \A j \in RootRange(self, scope.iRoot1) : rungOf[j] >= lowest =>
             nForced'[j] = 1 \/ \E n \in DOMAIN S : j \in RangeOf(S[n].iNode)
    BY <2>1, <2>2, <2>6
  <2> DEFINE T == Front(S)
  <2>8. /\ DOMAIN T \subseteq DOMAIN S /\ \A n \in DOMAIN T : T[n] = S[n] /\ n # Len(S)
        /\ \A n \in DOMAIN S : n = Len(S) \/ n \in DOMAIN T
    BY <1>3
  <2> HIDE DEF T
  <2>9. /\ \A j \in RangeOf(f.iNode) : nForced'[j] = 0
        /\ \A n \in DOMAIN T : \A j \in RangeOf(T[n].iNode) : nForced'[j] = 0
        /\ \A n \in DOMAIN T : RangeOf(f.iNode) \cap RangeOf(T[n].iNode) = {}
        /\ \A m, n \in DOMAIN T : m # n => RangeOf(T[m].iNode) \cap RangeOf(T[n].iNode) = {}
    BY <1>8, <2>1, <2>5, <2>8
  <2>10. \A j \in RootRange(self, scope.iRoot1) : rungOf[j] >= lowest =>
             nForced'[j] = 1 \/ j \in RangeOf(f.iNode) \/ \E n \in DOMAIN T : j \in RangeOf(T[n].iNode)
    BY <2>7, <2>8
  <2>11. S' = T
    BY <1>4 DEF T
  <2> HIDE DEF f
  <2>12. QED
    BY <1>1, <1>4, <1>6, <2>1, <2>2, <2>9, <2>10, <2>11 DEF Waiting, Goes
<1>14. \A n \in DOMAIN S : \A s :
         s = S[n].cl \o SubSeq(ilp, 1, S[n].nPart) \o SubSeq(ilc, 1, S[n].nCell) \o S[n].L => CoverOnce(s)
  BY <1>2, Zenon DEF FramesCover
<1>15. ListsCover'
  <2>1. CoverOnce(f.cl \o SubSeq(ilp, 1, f.nPart) \o SubSeq(ilc, 1, f.nCell) \o f.L)
    BY <1>8, <1>14, Zenon
  <2>2. \A s \in Seq(Entry) : s \o <<>> = s
    OBVIOUS
  <2>3. f.cl \o <<>> = f.cl
    BY <1>10, <2>2
  <2> HIDE DEF f
  <2>4. CoverOnce(f.cl \o <<>> \o SubSeq(ilp, 1, f.nPart) \o SubSeq(ilc, 1, f.nCell) \o f.L)
    BY <2>1, <2>3
  <2>5. QED
    BY <1>1, <1>4, <1>6, <2>4, Zenon DEF ListsCover
<1>16. FramesCover'
  <2> DEFINE T == Front(S)
             P == SubSeq(ilp, 1, f.nPart)
             Q == SubSeq(ilc, 1, f.nCell)
  <2>1. \A n \in DOMAIN T : /\ n \in DOMAIN S /\ T[n] = S[n]
                            /\ SubSeq(P, 1, S[n].nPart) = SubSeq(ilp, 1, S[n].nPart)
                            /\ SubSeq(Q, 1, S[n].nCell) = SubSeq(ilc, 1, S[n].nCell)
    BY <1>3, <1>9
  <2>2. S' = T /\ ilp' = P /\ ilc' = Q
    BY <1>4
  <2> HIDE DEF f, T, P, Q
  <2>3. \A n \in DOMAIN T : \A s :
          s = T[n].cl \o SubSeq(P, 1, T[n].nPart) \o SubSeq(Q, 1, T[n].nCell) \o T[n].L => CoverOnce(s)
    BY <1>14, <2>1, Zenon
  <2>4. QED
    BY <1>6, <2>2, <2>3, Zenon DEF FramesCover
<1>17. \A j \in DOMAIN nForced' : nForced'[j] \in {0, 1}
  BY GroupForced
<1>18. QED
  BY <1>1, <1>4, <1>5, <1>11, <1>12, <1>13, <1>15, <1>16, <1>17 DEF WalkInv
------------------------------------------------------------------------------
(* Every step *)

\* A walk as StartWalk leaves it.
Begun ==
  /\ Sound /\ RungsKnown(self, scope.iRoot1, lowest, rungOf)
  /\ iCell = scope.iRoot1 /\ cl = Checks(self, scope.iRoot1, scope.iRoot2, scope.boxes)
  /\ stays = <<>> /\ ilp = <<>> /\ ilc = <<>> /\ L = <<>> /\ S = <<>>
  /\ nForced = [j \in DOMAIN rungOf |-> 0]

\* The invariant holds as a walk begins.
LEMMA BegunHolds == Begun => ListTypes /\ Sinks /\ Waiting /\ ListsCover /\ FramesCover
<1> SUFFICES ASSUME Begun PROVE ListTypes /\ Sinks /\ Waiting /\ ListsCover /\ FramesCover
  OBVIOUS
<1>1. Sound /\ cl \in Seq(Entry) /\ CoverOnce(cl)
  BY ChecksCover DEF Begun
<1>2. ListTypes
  <2>1. <<>> \in Seq(Entry) /\ <<>> \in Seq(Frames) /\ DOMAIN <<>> = {}
    OBVIOUS
  <2>2. QED
    BY <1>1, <2>1 DEF ListTypes, Begun
<1>3. Sinks
  <2>1. iCell \in SinkNodes
    BY RootNode DEF Begun, SinkNodes
  <2>2. iCell \in Path(self, scope.iRoot1, iCell)
    BY <1>1, <2>1, SinkNode DEF Path, SinkNodes, Within
  <2>3. IsFiniteSet(Path(self, scope.iRoot1, iCell)) /\ Height(iCell) \in Nat
    BY <1>1, <2>1, HeightIs
  <2>4. Height(iCell) # 0
    BY <2>2, <2>3, FS_EmptySet DEF Height
  <2>5. S = <<>> /\ Len(S) = 0 /\ DOMAIN S = {}
    BY DEF Begun
  <2>6. QED
    BY <2>1, <2>3, <2>4, <2>5 DEF Sinks
<1>4. Waiting
  <2>1. S = <<>> /\ DOMAIN S = {} /\ RangeOf(iCell) = RootRange(self, scope.iRoot1)
    BY DEF Begun, RangeOf, RootRange
  <2>2. \A j \in RangeOf(iCell) : j \in DOMAIN rungOf
    BY <2>1, RootNode DEF Begun, RungsKnown, RootRange
  <2>3. QED
    BY <2>1, <2>2 DEF Waiting, Begun
<1>5. ListsCover
  <2>1. \A s \in Seq(Entry) : s \o <<>> = s
    OBVIOUS
  <2>2. cl \o <<>> \o <<>> \o <<>> \o <<>> = cl
    BY <1>1, <2>1
  <2>3. QED
    BY <1>1, <2>2 DEF ListsCover, Begun
<1>6. FramesCover
  BY DEF FramesCover, Begun
<1>7. QED
  BY <1>2, <1>3, <1>4, <1>5, <1>6

\* The root is empty or not active, and no particle under it is active.
RootIdle == ~(Node(self, scope.iRoot1).pLower <= Node(self, scope.iRoot1).pUpper /\ Node(self, scope.iRoot1).uMaxRung >= lowest)
NobodyIsActive == \A j \in RootRange(self, scope.iRoot1) : ~(rungOf[j] >= lowest)

\* A thread whose root is empty or not active has no active particles.
LEMMA RootIsIdle == WalkSound /\ RootIdle => NobodyIsActive
<1> SUFFICES ASSUME WalkSound, RootIdle, NEW j \in RootRange(self, scope.iRoot1), rungOf[j] >= lowest PROVE FALSE
  BY DEF NobodyIsActive
<1>2. Node(self, scope.iRoot1).pLower \in Nat /\ Node(self, scope.iRoot1).pUpper \in Int
  BY RootNode DEF WalkSound, BuiltSound
<1>3. Node(self, scope.iRoot1).pLower <= Node(self, scope.iRoot1).pUpper
  BY <1>2 DEF RootRange
<1>4. Node(self, scope.iRoot1).uMaxRung >= lowest
  BY RootNode DEF WalkSound, RungsKnown, RootRange
<1>5. QED
  BY <1>3, <1>4 DEF RootIdle

\* The first step of a walk.
LEMMA StartStep ==
  ASSUME WalkInv, Starts
  PROVE  WalkInv'
<1>1. StartWalk(self', scope'.iRoot1, scope'.iRoot2, scope'.boxes, lowest', rungOf')
  BY DEF Starts
<1>2. /\ scope' = [iRoot1 |-> scope'.iRoot1, iRoot2 |-> scope'.iRoot2, boxes |-> scope'.boxes]
      /\ iCell' = scope'.iRoot1
      /\ stays' = <<>> /\ ilp' = <<>> /\ ilc' = <<>> /\ L' = <<>> /\ S' = <<>>
      /\ nForced' = [j \in DOMAIN rungOf' |-> 0] /\ pkd' = pkd
      /\ at' \in {"check", "walked"}
  BY <1>1 DEF StartWalk
<1>3. \A j \in DOMAIN nForced' : nForced'[j] \in {0, 1}
  BY <1>2
<1>4. CASE at' = "check"
  <2>1. cl' = Checks(self', scope'.iRoot1, scope'.iRoot2, scope'.boxes)
    BY <1>1, <1>4 DEF StartWalk
  <2>2. cl' = Checks(self, scope.iRoot1, scope.iRoot2, scope.boxes)'
    BY <1>2, <2>1 DEF Checks, CellEntry, Node, LowerChild, UpperChild, Count
  <2>3. Sound' /\ RungsKnown(self, scope.iRoot1, lowest, rungOf)'
    BY <1>4 DEF Starts, WalkSound, Sound
  <2>5. Begun'
    BY <1>2, <2>2, <2>3 DEF Begun
  <2>6. Begun' => ListTypes' /\ Sinks' /\ Waiting' /\ ListsCover' /\ FramesCover'
    BY BegunHolds, PTL
  <2>7. QED
    BY <1>3, <1>4, <2>3, <2>5, <2>6 DEF WalkInv
<1>5. CASE at' = "walked"
  <2>1. ~(Node(self', scope'.iRoot1).pLower <= Node(self', scope'.iRoot1).pUpper /\ Node(self', scope'.iRoot1).uMaxRung >= lowest')
    BY <1>1, <1>5 DEF StartWalk
  <2>2. NobodyIsActive'
    <3>1. WalkSound' /\ RootIdle'
      BY <1>2, <2>1 DEF Starts, RootIdle, Node
    <3>2. WalkSound' /\ RootIdle' => NobodyIsActive'
      BY RootIsIdle, PTL
    <3>3. QED
      BY <3>1, <3>2
  <2>3. QED
    BY <1>3, <1>5, <2>2 DEF WalkInv, NobodyIsActive
<1>6. QED
  BY <1>2, <1>4, <1>5

\* The invariant is about the walk and the trees.
LEMMA Unchanged ==
  ASSUME WalkInv, UNCHANGED <<walk, pkd>>
  PROVE  WalkInv'
<1>1. Goes /\ at' = at /\ iCell' = iCell /\ cl' = cl /\ stays' = stays /\ ilp' = ilp /\ ilc' = ilc /\ L' = L /\ S' = S /\ nForced' = nForced
  BY DEF walk, Goes
<1>2. /\ Sound' = Sound /\ RungsKnown(self, scope.iRoot1, lowest, rungOf)' = RungsKnown(self, scope.iRoot1, lowest, rungOf)
      /\ Seq(Entry)' = Seq(Entry) /\ Frames' = Frames
  BY <1>1, WorldSame
<1>3. /\ SinkNodes' = SinkNodes /\ \A s : CoverOnce(s)' <=> CoverOnce(s)
      /\ \A i : RangeOf(i)' = RangeOf(i) /\ Height(i)' = Height(i)
      /\ RootRange(self, scope.iRoot1)' = RootRange(self, scope.iRoot1)
  BY <1>1, TreesSame DEF Goes
<1>4. CASE at = "check"
  <2>1. /\ Sound /\ RungsKnown(self, scope.iRoot1, lowest, rungOf)
        /\ ListTypes /\ Sinks /\ Waiting /\ ListsCover /\ FramesCover
    BY <1>4 DEF WalkInv
  <2>2. ListTypes'
    BY <1>1, <1>2, <2>1 DEF ListTypes
  <2>3. Sinks'
    BY <1>1, <1>3, <2>1 DEF Sinks
  <2>4. Waiting'
    BY <1>1, <1>3, <2>1 DEF Waiting, Goes
  <2>5. ListsCover'
    BY <1>1, <1>3, <2>1, Zenon DEF ListsCover
  <2>6. FramesCover'
    BY <1>1, <1>3, <2>1, Zenon DEF FramesCover
  <2>7. QED
    BY <1>1, <1>2, <1>4, <2>1, <2>2, <2>3, <2>4, <2>5, <2>6 DEF WalkInv
<1>5. CASE at # "check"
  BY <1>1, <1>3, <1>5 DEF WalkInv, Goes
<1>6. QED
  BY <1>4, <1>5

\* Every step keeps the invariant.
LEMMA WalkInvKept ==
  ASSUME WalkInv, [Builds \/ Starts \/ WalkStep \/ Ends]_<<walk, pkd>>
  PROVE  WalkInv'
<1>1. CASE Builds
  BY <1>1 DEF Builds, walk, WalkInv
<1>2. CASE Starts
  BY <1>2, StartStep
<1>3. CASE CheckEntry
  BY <1>3, EntryStep
<1>4. CASE Descend
  BY <1>4, DescendStep
<1>5. CASE Interact
  BY <1>5, FinishStep, PopStep
<1>6. CASE Ends
  BY <1>6 DEF Ends, WalkInv
<1>7. CASE UNCHANGED <<walk, pkd>>
  BY <1>7, Unchanged
<1>8. QED
  BY <1>1, <1>2, <1>3, <1>4, <1>5, <1>6, <1>7 DEF WalkStep

\* Of pkdGravWalk and processCheckList over sound trees, for any number of threads, particles,
\* boxes and levels: the lists and the stack cover every source once, each active particle waits
\* in one cell or is done, and the stack is as deep as the path to the sink cell allows.
THEOREM WalkInvariant == WalkSpec => []WalkInv
<1>1. at = "idle" /\ nForced = <<>> => WalkInv
  BY DEF WalkInv
<1>2. WalkInv /\ [Builds \/ Starts \/ WalkStep \/ Ends]_<<walk, pkd>> => WalkInv'
  BY WalkInvKept
<1>3. QED
  BY <1>1, <1>2, PTL DEF WalkSpec

\* Each active particle has its force calculated once, from every source particle once.
THEOREM WalkCovers == WalkSpec => []EachSourceOnce
<1>1. WalkInv => EachSourceOnce
  BY InvCovers
<1>2. QED
  BY <1>1, WalkInvariant, PTL

\* Neither S[iStack+1] nor a node or particle fetched from another thread is out of bounds.
THEOREM WalkReads == WalkSpec => []IndicesHold
<1>1. WalkInv => IndicesHold
  BY InvReads
<1>2. QED
  BY <1>1, WalkInvariant, PTL

------------------------------------------------------------------------------
(* Outputs: types *)

Types ==
  /\ param \in Params
  /\ files \subseteq {"STOP", "CHECK"} /\ outs \subseteq Int
  /\ chk \subseteq [iStep : 0..nSteps, particles : BOOLEAN]
  /\ iStep \in 0..nSteps /\ iStartStep \in 0..nSteps /\ dOutTimes \subseteq Int
  /\ bGlobalOutput \in BOOLEAN /\ iStop \in BOOLEAN /\ iCheck \in BOOLEAN
  /\ bDoCheckpoint \in BOOLEAN /\ bDoOutput \in BOOLEAN
  /\ age \in [Request -> {NotAsked, 0, 1, 2}]

\* The places of Simulate from which it has gone a step beyond iStartStep
AfterStep == {"stopfile", "checkfile", "limits", "decideCheckpoint", "checkpointDecided", "decideOutput",
              "outputDecided", "write", "particles", "output", "end"}

Places ==
  /\ pc \in AfterStep \cup {"loop", "stopped", "done", "dead"}
  /\ iStartStep <= iStep
  /\ pc \in AfterStep => iStartStep < iStep

------------------------------------------------------------------------------
(* OutTimesServed *)

\* An output has been decided on and is still to be written.
OutputComes == pc = "outputDecided" \/ (pc \in {"write", "particles", "output"} /\ bDoOutput)

\* A time of the list is still to come, has been served, or is about to be; once OutTime
\* has looked, none that has come is left.
OutTimesKept ==
  /\ pc # "dead" =>
       \A e \in param.red : ~e.relative =>
         \/ e.at \in dOutTimes
         \/ \E t \in outs : t >= e.at
         \/ e.at <= dTime /\ OutputComes
  /\ \/ pc \in {"outputDecided", "write", "particles", "output", "end"}
     \/ pc \in {"loop", "stopped", "done"} /\ iStartStep < iStep
     => \A t \in dOutTimes : t > dTime

------------------------------------------------------------------------------
(* RequestsServed *)

CheckpointComes ==
  pc = "checkpointDecided" \/ (pc \in {"decideOutput", "outputDecided", "write"} /\ bDoCheckpoint)

\* CHECK is in its file until it is in iCheck, and there until the checkpoint is written.
CheckSeen == (pc \in {"limits", "decideCheckpoint"} /\ iCheck) \/ CheckpointComes

CheckKept ==
  /\ age["CHECK"] >= 0 => "CHECK" \in files \/ CheckSeen
  /\ age["CHECK"] <= 1
  /\ age["CHECK"] = 1 => pc \in {"loop", "stopfile", "checkfile", "stopped", "done"} \/ CheckSeen

\* STOP is in its file until it is in iStop, which stays set as something is written.
StopSeen == pc \in AfterStep \ {"stopfile"} /\ iStop

StopKept ==
  SomeInterval =>
    /\ age["STOP"] >= 0 => "STOP" \in files \/ StopSeen
    /\ age["STOP"] <= 1
    /\ age["STOP"] = 1 => pc \in {"loop", "stopfile", "stopped", "done"} \/ StopSeen
    /\ pc = "decideOutput" /\ iStop => bDoCheckpoint \/ param.OutInterval > 0
    /\ pc = "write" /\ iStop => bDoCheckpoint \/ bDoOutput

\* A signal is in bGlobalOutput until that is cleared, after which something is written.
SignalKept ==
  /\ age["USR2"] >= 0 =>
       bGlobalOutput \/ (CheckpointComes /\ pc # "checkpointDecided") \/ (OutputComes /\ pc # "outputDecided")
  /\ SomeInterval =>
       /\ age["USR2"] <= 1
       /\ age["USR2"] = 1 =>
            \/ pc \in {"loop", "stopfile", "checkfile", "limits", "decideCheckpoint", "stopped", "done"}
            \/ CheckpointComes \/ OutputComes
            \/ pc = "decideOutput" /\ param.OutInterval > 0

------------------------------------------------------------------------------
(* CanRestart *)

CheckpointsKept ==
  /\ iStartStep > 0 => iStartStep \in Complete
  /\ param.CheckInterval > 0 /\ iStop =>
       /\ pc \in {"decideOutput", "outputDecided", "write"} => bDoCheckpoint
       /\ pc \in {"output", "end"} => iStep \in Complete
  /\ param.CheckInterval > 0 /\ pc = "stopped" => iStep \in Complete

IInv == Types /\ Places /\ OutTimesKept /\ CheckKept /\ StopKept /\ SignalKept /\ CheckpointsKept

------------------------------------------------------------------------------
(* Types and places *)

\* A request that is not served in a turn of the loop is one turn older, up to two.
LEMMA OlderIs ==
  ASSUME Types, NEW r \in Request
  PROVE  Older[r] = IF age[r] = NotAsked THEN NotAsked ELSE IF age[r] = 0 THEN 1 ELSE 2
<1>1. ASSUME NEW n \in {0, 1, 2} PROVE Min({n + 1, 2}) = IF n = 0 THEN 1 ELSE 2
  <2> DEFINE m == IF n = 0 THEN 1 ELSE 2
  <2>1. m \in {n + 1, 2} /\ \A y \in {n + 1, 2} : m <= y
    OBVIOUS
  <2>2. \A x \in {n + 1, 2} : (\A y \in {n + 1, 2} : x <= y) => x = m
    OBVIOUS
  <2> QED
    BY <2>1, <2>2 DEF Min
<1> QED
  BY <1>1 DEF Older, Types, NotAsked

LEMMA TypesStep == Types /\ [Next]_vars => Types'
<1> SUFFICES ASSUME Types, [Next]_vars PROVE Types'
  OBVIOUS
<1> USE OutputsAssumption DEF Types
<1>1. CASE TakeStep
  BY <1>1 DEF TakeStep, disk, decisions, bounds
<1>2. CASE NoSteps \/ Ended \/ UNCHANGED vars
  BY <1>2 DEF NoSteps, Ended, vars, disk, decisions, bounds
<1>3. CASE CheckForStop
  BY <1>3 DEF CheckForStop, bounds
<1>4. CASE CheckForCheck
  BY <1>4 DEF CheckForCheck, bounds
<1>5. CASE CheckLimits
  BY <1>5 DEF CheckLimits, disk, bounds
<1>6. CASE DecideCheckpoint \/ CheckpointDecided
  BY <1>6 DEF DecideCheckpoint, CheckpointDecided, disk, decisions, bounds
<1>7. CASE DecideOutput \/ OutputDecided
  BY <1>7 DEF DecideOutput, OutputDecided, disk, decisions, bounds
<1>8. ASSUME NEW requests, age' = Served(requests)
      PROVE  age' \in [Request -> {NotAsked, 0, 1, 2}]
  BY <1>8 DEF Served
<1>9. CASE WriteScript
  <2>1. chk' \subseteq [iStep : 0..nSteps, particles : BOOLEAN]
    <3> DEFINE new == [iStep |-> iStep, particles |-> FALSE]
    <3>1. new \in [iStep : 0..nSteps, particles : BOOLEAN]
      OBVIOUS
    <3>2. chk' \subseteq chk \cup {new}
      BY <1>9 DEF WriteScript
    <3> QED
      BY <3>1, <3>2
  <2> QED
    BY <1>8, <1>9, <2>1 DEF WriteScript, bounds
<1>10. CASE WriteParticles
  <2>1. chk' \subseteq [iStep : 0..nSteps, particles : BOOLEAN]
    <3> DEFINE new == [iStep |-> iStep, particles |-> TRUE]
    <3>1. new \in [iStep : 0..nSteps, particles : BOOLEAN]
      OBVIOUS
    <3>2. chk' \subseteq chk \cup {new}
      BY <1>10 DEF WriteParticles
    <3> QED
      BY <3>1, <3>2
  <2> QED
    BY <1>10, <2>1 DEF WriteParticles, bounds
<1>11. CASE NoCheckpoint \/ NoOutput
  BY <1>11 DEF NoCheckpoint, NoOutput, disk, decisions, bounds
<1>12. CASE Output
  <2>1. outs' \subseteq Int
    BY <1>12 DEF Output, dTime
  <2> QED
    BY <1>8, <1>12, <2>1 DEF Output, bounds
<1>13. CASE LoopEnd
  <2>1. \A r \in Request : Older[r] \in {NotAsked, 0, 1, 2}
    BY OlderIs
  <2>2. Older \in [Request -> {NotAsked, 0, 1, 2}]
    BY <2>1 DEF Older
  <2> QED
    BY <1>13, <2>2 DEF LoopEnd, NotAsked, Request, disk, decisions, bounds
<1>14. CASE Touch("STOP") \/ Touch("CHECK") \/ USR2_handler \/ USR1_handler
  <2>1. ASSUME NEW file \in {"STOP", "CHECK"}, Touch(file) PROVE Types'
    BY <2>1 DEF Touch, Ask, Request, decisions
  <2>2. CASE USR2_handler
    BY <2>2 DEF USR2_handler, Ask, disk, decisions
  <2>3. CASE USR1_handler
    BY <2>3 DEF USR1_handler, disk, decisions
  <2> QED
    BY <1>14, <2>1, <2>2, <2>3
<1>15. CASE Crash
  BY <1>15 DEF Crash, Forgotten, NotAsked, disk
<1>16. CASE Restart
  <2>1. PICK step \in {0} \cup {c.iStep : c \in {d \in chk : d.particles}} :
          iStep' = step /\ iStartStep' = step /\ dOutTimes' = ReadOuts(2 * step)
    BY <1>16 DEF Restart
  <2>2. step \in 0..nSteps
    <3>1. \A c \in chk : c.iStep \in 0..nSteps
      OBVIOUS
    <3> QED
      BY <2>1, <3>1
  <2>3. \A e \in param.red : e.at \in Int
    OBVIOUS
  <2>4. dOutTimes' \subseteq Int
    BY <2>1, <2>2, <2>3 DEF ReadOuts
  <2> QED
    BY <1>16, <2>1, <2>2, <2>4 DEF Restart, Forgotten, NotAsked, disk, bounds
<1> QED
  BY <1>1, <1>2, <1>3, <1>4, <1>5, <1>6, <1>7, <1>9, <1>10, <1>11, <1>12, <1>13, <1>14, <1>15, <1>16 DEF Next

LEMMA PlacesStep == Types /\ Places /\ [Next]_vars => Places'
<1> SUFFICES ASSUME Types, Places, [Next]_vars PROVE Places'
  OBVIOUS
<1>t. iStep \in Nat /\ iStartStep \in Nat
  BY OutputsAssumption DEF Types
<1> USE <1>t DEF Places, AfterStep
<1>1. CASE TakeStep
  BY <1>1 DEF TakeStep
<1>2. CASE CheckForStop \/ CheckForCheck \/ CheckLimits
  BY <1>2 DEF CheckForStop, CheckForCheck, CheckLimits
<1>3. CASE DecideCheckpoint \/ CheckpointDecided \/ DecideOutput \/ OutputDecided
  BY <1>3 DEF DecideCheckpoint, CheckpointDecided, DecideOutput, OutputDecided
<1>4. CASE WriteScript \/ WriteParticles \/ NoCheckpoint \/ Output \/ NoOutput
  BY <1>4 DEF WriteScript, WriteParticles, NoCheckpoint, Output, NoOutput
<1>5. CASE LoopEnd \/ NoSteps
  BY <1>5 DEF LoopEnd, NoSteps
<1>6. CASE Touch("STOP") \/ Touch("CHECK") \/ USR2_handler \/ USR1_handler
  BY <1>6 DEF Touch, USR2_handler, USR1_handler
<1>7. CASE Crash
  BY <1>7 DEF Crash
<1>8. CASE Ended \/ UNCHANGED vars
  BY <1>8 DEF Ended, vars
<1>9. CASE Restart
  <2>1. pc' = "loop" /\ iStep' = iStartStep'
    BY <1>9 DEF Restart
  <2>2. iStep' \in Nat /\ iStartStep' \in Nat
    BY TypesStep, OutputsAssumption DEF Types
  <2> QED
    BY <2>1, <2>2
<1> QED
  BY <1>1, <1>2, <1>3, <1>4, <1>5, <1>6, <1>7, <1>8, <1>9 DEF Next

LEMMA ParamIsFixed == [Next]_vars => param' = param
<1> SUFFICES ASSUME [Next]_vars PROVE param' = param
  OBVIOUS
<1>1. CASE TakeStep \/ CheckForStop \/ CheckForCheck \/ CheckLimits \/ DecideCheckpoint \/ CheckpointDecided
  BY <1>1 DEF TakeStep, CheckForStop, CheckForCheck, CheckLimits, DecideCheckpoint, CheckpointDecided
<1>2. CASE DecideOutput \/ OutputDecided \/ WriteScript \/ WriteParticles \/ NoCheckpoint \/ Output \/ NoOutput
  BY <1>2 DEF DecideOutput, OutputDecided, WriteScript, WriteParticles, NoCheckpoint, Output, NoOutput
<1>3. CASE LoopEnd \/ NoSteps \/ Touch("STOP") \/ Touch("CHECK") \/ USR2_handler \/ USR1_handler
  BY <1>3 DEF LoopEnd, NoSteps, Touch, USR2_handler, USR1_handler
<1>4. CASE Crash \/ Restart \/ Ended \/ UNCHANGED vars
  BY <1>4 DEF Crash, Restart, Ended, vars
<1> QED
  BY <1>1, <1>2, <1>3, <1>4 DEF Next

------------------------------------------------------------------------------
(* RequestsServed *)

LEMMA CheckStep == Types /\ Places /\ CheckKept /\ [Next]_vars => CheckKept'
<1> SUFFICES ASSUME Types, Places, CheckKept, [Next]_vars PROVE CheckKept'
  OBVIOUS
<1>t. /\ age \in [Request -> {NotAsked, 0, 1, 2}] /\ "CHECK" \in Request
      /\ bDoCheckpoint \in BOOLEAN /\ iCheck \in BOOLEAN
  BY DEF Types, Request
<1>n. /\ age' \in [Request -> {NotAsked, 0, 1, 2}]
      /\ bDoCheckpoint' \in BOOLEAN /\ iCheck' \in BOOLEAN
  BY TypesStep DEF Types
<1> USE <1>t, <1>n DEF CheckKept, CheckSeen, CheckpointComes, NotAsked
<1>1. CASE TakeStep
  BY <1>1 DEF TakeStep, disk, decisions
<1>2. CASE CheckForStop
  BY <1>2 DEF CheckForStop
<1>12. CASE CheckForCheck
  <2>1. pc = "checkfile" /\ pc' = "limits" /\ (iCheck' <=> "CHECK" \in files) /\ UNCHANGED age
    BY <1>12 DEF CheckForCheck
  <2> QED
    BY <2>1
<1>3. CASE CheckLimits \/ DecideCheckpoint
  BY <1>3 DEF CheckLimits, DecideCheckpoint, disk, decisions
<1>4. CASE CheckpointDecided \/ DecideOutput \/ OutputDecided
  BY <1>4 DEF CheckpointDecided, DecideOutput, OutputDecided, disk, decisions
<1>5. CASE WriteScript
  BY <1>5 DEF WriteScript, Served
<1>6. CASE WriteParticles \/ NoCheckpoint \/ NoOutput
  BY <1>6 DEF WriteParticles, NoCheckpoint, NoOutput, disk, decisions
<1>13. CASE Output
  <2>1. age'["CHECK"] = age["CHECK"]
    BY <1>13 DEF Output, Served
  <2> QED
    BY <1>13, <2>1 DEF Output
<1>7. CASE LoopEnd
  <2>1. age'["CHECK"] = Older["CHECK"]
    BY <1>7 DEF LoopEnd, Older
  <2>2. Older["CHECK"] = IF age["CHECK"] = NotAsked THEN NotAsked ELSE IF age["CHECK"] = 0 THEN 1 ELSE 2
    BY OlderIs
  <2> QED
    BY <1>7, <2>1, <2>2 DEF LoopEnd, disk, decisions
<1>8. CASE NoSteps \/ Ended \/ UNCHANGED vars
  BY <1>8 DEF NoSteps, Ended, vars, disk, decisions
<1>9. CASE Touch("STOP") \/ USR2_handler \/ USR1_handler
  <2>1. age'["CHECK"] = age["CHECK"]
    BY <1>9 DEF Touch, USR2_handler, USR1_handler, Ask
  <2>2. /\ "CHECK" \in files => "CHECK" \in files'
        /\ UNCHANGED <<pc, iCheck, bDoCheckpoint>>
    BY <1>9 DEF Touch, USR2_handler, USR1_handler, disk, decisions
  <2> QED
    BY <2>1, <2>2
<1>14. CASE Touch("CHECK")
  <2>1. age'["CHECK"] = IF age["CHECK"] = NotAsked THEN 0 ELSE age["CHECK"]
    BY <1>14 DEF Touch, Ask
  <2>2. "CHECK" \in files' /\ UNCHANGED <<pc, iCheck, bDoCheckpoint>>
    BY <1>14 DEF Touch, decisions
  <2> QED
    BY <2>1, <2>2
<1>10. CASE Crash \/ Restart
  <2>1. age'["CHECK"] = (IF "CHECK" \in files THEN 0 ELSE NotAsked) /\ files' = files
    BY <1>10 DEF Crash, Restart, Forgotten, disk
  <2> QED
    BY <2>1
<1> QED
  BY <1>1, <1>2, <1>3, <1>4, <1>5, <1>6, <1>7, <1>8, <1>9, <1>10, <1>12, <1>13, <1>14 DEF Next

LEMMA StopStep == Types /\ Places /\ StopKept /\ [Next]_vars => StopKept'
<1>s. [Next]_vars => (SomeInterval' <=> SomeInterval)
  BY ParamIsFixed DEF SomeInterval
<1> SUFFICES ASSUME Types, Places, StopKept, SomeInterval, [Next]_vars PROVE StopKept'
  BY <1>s DEF StopKept
<1>t. /\ age \in [Request -> {NotAsked, 0, 1, 2}] /\ "STOP" \in Request
      /\ bDoCheckpoint \in BOOLEAN /\ bDoOutput \in BOOLEAN /\ iStop \in BOOLEAN
  BY DEF Types, Request
<1>n. /\ age' \in [Request -> {NotAsked, 0, 1, 2}]
      /\ bDoCheckpoint' \in BOOLEAN /\ bDoOutput' \in BOOLEAN /\ iStop' \in BOOLEAN
  BY TypesStep DEF Types
<1>p. param \in Params /\ param.CheckInterval \in Nat /\ param.OutInterval \in Nat
  BY OutputsAssumption DEF Types
<1> USE <1>t, <1>n, <1>p DEF StopKept, StopSeen, SomeInterval, AfterStep, NotAsked
<1>1. CASE TakeStep
  BY <1>1 DEF TakeStep, disk, decisions
<1>2. CASE CheckForStop
  <2>1. pc = "stopfile" /\ pc' = "checkfile" /\ (iStop' <=> "STOP" \in files) /\ UNCHANGED <<age, param>>
    BY <1>2 DEF CheckForStop
  <2> QED
    BY <2>1
<1>3. CASE CheckForCheck \/ CheckLimits
  BY <1>3 DEF CheckForCheck, CheckLimits, disk
<1>4. CASE DecideCheckpoint \/ CheckpointDecided
  BY <1>4 DEF DecideCheckpoint, CheckpointDecided, AtInterval, disk, decisions
<1>5. CASE DecideOutput \/ OutputDecided
  BY <1>5 DEF DecideOutput, OutputDecided, AtInterval, disk, decisions
<1>6. CASE WriteScript
  BY <1>6 DEF WriteScript, Served
<1>7. CASE WriteParticles \/ NoCheckpoint \/ Output \/ NoOutput
  BY <1>7 DEF WriteParticles, NoCheckpoint, Output, NoOutput, Served, disk, decisions
<1>8. CASE LoopEnd
  <2>1. age'["STOP"] = IF iStop THEN NotAsked ELSE Older["STOP"]
    BY <1>8 DEF LoopEnd, Older
  <2>2. Older["STOP"] = IF age["STOP"] = NotAsked THEN NotAsked ELSE IF age["STOP"] = 0 THEN 1 ELSE 2
    BY OlderIs
  <2> QED
    BY <1>8, <2>1, <2>2 DEF LoopEnd, disk, decisions
<1>9. CASE NoSteps \/ Ended \/ UNCHANGED vars
  BY <1>9 DEF NoSteps, Ended, vars, disk, decisions
<1>10. CASE Touch("CHECK") \/ USR2_handler \/ USR1_handler
  <2>1. age'["STOP"] = age["STOP"]
    BY <1>10 DEF Touch, USR2_handler, USR1_handler, Ask
  <2>2. /\ "STOP" \in files => "STOP" \in files'
        /\ UNCHANGED <<param, pc, iStop, bDoCheckpoint, bDoOutput>>
    BY <1>10 DEF Touch, USR2_handler, USR1_handler, disk, decisions
  <2> QED
    BY <2>1, <2>2
<1>12. CASE Touch("STOP")
  <2>1. age'["STOP"] = IF age["STOP"] = NotAsked THEN 0 ELSE age["STOP"]
    BY <1>12 DEF Touch, Ask
  <2>2. "STOP" \in files' /\ UNCHANGED <<param, pc, iStop, bDoCheckpoint, bDoOutput>>
    BY <1>12 DEF Touch, decisions
  <2> QED
    BY <2>1, <2>2
<1>11. CASE Crash \/ Restart
  <2>1. age'["STOP"] = (IF "STOP" \in files THEN 0 ELSE NotAsked) /\ UNCHANGED <<files, param>>
    BY <1>11 DEF Crash, Restart, Forgotten, disk
  <2>2. pc' \in {"dead", "loop"}
    BY <1>11 DEF Crash, Restart
  <2> QED
    BY <2>1, <2>2
<1> QED
  BY <1>1, <1>2, <1>3, <1>4, <1>5, <1>6, <1>7, <1>8, <1>9, <1>10, <1>11, <1>12 DEF Next

LEMMA SignalStep == Types /\ Places /\ SignalKept /\ [Next]_vars => SignalKept'
<1> SUFFICES ASSUME Types, Places, SignalKept, [Next]_vars PROVE SignalKept'
  OBVIOUS
<1>t. /\ age \in [Request -> {NotAsked, 0, 1, 2}] /\ "USR2" \in Request
      /\ bDoCheckpoint \in BOOLEAN /\ bDoOutput \in BOOLEAN /\ bGlobalOutput \in BOOLEAN
  BY DEF Types, Request
<1>n. /\ age' \in [Request -> {NotAsked, 0, 1, 2}]
      /\ bDoCheckpoint' \in BOOLEAN /\ bDoOutput' \in BOOLEAN /\ bGlobalOutput' \in BOOLEAN
  BY TypesStep DEF Types
<1>p. param \in Params /\ param.CheckInterval \in Nat /\ param.OutInterval \in Nat
  BY OutputsAssumption DEF Types
<1> USE <1>t, <1>n, <1>p DEF SignalKept, CheckpointComes, OutputComes, SomeInterval, NotAsked
<1>1. CASE TakeStep \/ CheckForStop \/ CheckForCheck \/ CheckLimits
  BY <1>1 DEF TakeStep, CheckForStop, CheckForCheck, CheckLimits, decisions
<1>2. CASE DecideCheckpoint
  <2>1. /\ pc = "decideCheckpoint"
        /\ pc' = "checkpointDecided" \/ (pc' = "decideOutput" /\ ~AtInterval(param.CheckInterval))
        /\ UNCHANGED <<param, age, bGlobalOutput>>
    BY <1>2 DEF DecideCheckpoint
  <2>2. pc' = "decideOutput" /\ param.CheckInterval > 0 => ~bGlobalOutput
    BY <2>1 DEF AtInterval
  <2> QED
    BY <2>1, <2>2
<1>3. CASE CheckpointDecided
  BY <1>3 DEF CheckpointDecided
<1>4. CASE DecideOutput
  <2>1. /\ pc = "decideOutput"
        /\ pc' = "outputDecided" \/ (pc' = "write" /\ ~AtInterval(param.OutInterval))
        /\ UNCHANGED <<param, age, bGlobalOutput, bDoCheckpoint>>
    BY <1>4 DEF DecideOutput, decisions
  <2>2. pc' = "write" /\ param.OutInterval > 0 => ~bGlobalOutput
    BY <2>1 DEF AtInterval
  <2> QED
    BY <2>1, <2>2
<1>5. CASE OutputDecided
  BY <1>5 DEF OutputDecided
<1>6. CASE WriteScript
  BY <1>6 DEF WriteScript, Served
<1>7. CASE WriteParticles \/ NoCheckpoint \/ NoOutput
  BY <1>7 DEF WriteParticles, NoCheckpoint, NoOutput, disk, decisions
<1>12. CASE Output
  <2>1. age'["USR2"] = NotAsked
    BY <1>12 DEF Output, Served
  <2> QED
    BY <2>1
<1>8. CASE LoopEnd
  <2>1. age'["USR2"] = Older["USR2"]
    BY <1>8 DEF LoopEnd, Older
  <2>2. Older["USR2"] = IF age["USR2"] = NotAsked THEN NotAsked ELSE IF age["USR2"] = 0 THEN 1 ELSE 2
    BY OlderIs
  <2> QED
    BY <1>8, <2>1, <2>2 DEF LoopEnd, decisions
<1>9. CASE NoSteps \/ Ended \/ UNCHANGED vars
  BY <1>9 DEF NoSteps, Ended, vars, disk, decisions
<1>10. CASE Touch("STOP") \/ Touch("CHECK") \/ USR1_handler
  <2>1. age'["USR2"] = age["USR2"]
    BY <1>10 DEF Touch, USR1_handler, Ask
  <2>2. UNCHANGED <<param, pc, bGlobalOutput, bDoCheckpoint, bDoOutput>>
    BY <1>10 DEF Touch, USR1_handler, decisions
  <2> QED
    BY <2>1, <2>2
<1>13. CASE USR2_handler
  <2>1. age'["USR2"] = IF age["USR2"] = NotAsked THEN 0 ELSE age["USR2"]
    BY <1>13 DEF USR2_handler, Ask
  <2>2. bGlobalOutput' /\ UNCHANGED <<param, pc, bDoCheckpoint, bDoOutput>>
    BY <1>13 DEF USR2_handler, decisions
  <2> QED
    BY <2>1, <2>2
<1>11. CASE Crash \/ Restart
  <2>1. age'["USR2"] = NotAsked
    BY <1>11 DEF Crash, Restart, Forgotten, Types
  <2> QED
    BY <2>1
<1> QED
  BY <1>1, <1>2, <1>3, <1>4, <1>5, <1>6, <1>7, <1>8, <1>9, <1>10, <1>11, <1>12, <1>13 DEF Next

------------------------------------------------------------------------------
(* OutTimesServed *)

LEMMA OutTimesStep == Types /\ Places /\ OutTimesKept /\ [Next]_vars => OutTimesKept'
<1> SUFFICES ASSUME Types, Places, OutTimesKept, [Next]_vars PROVE OutTimesKept'
  OBVIOUS
<1>t. /\ iStep \in Nat /\ iStartStep \in Nat /\ dOutTimes \subseteq Int /\ outs \subseteq Int
      /\ \A e \in param.red : e.relative \in BOOLEAN /\ e.at \in Nat
  BY OutputsAssumption DEF Types
<1>p. param' = param
  BY ParamIsFixed
<1>i. /\ pc \in AfterStep \cup {"loop", "stopped", "done", "dead"}
      /\ pc \in AfterStep => iStartStep < iStep
  BY DEF Places
<1> USE <1>t, <1>p, <1>i DEF OutTimesKept, OutputComes, dTime, AfterStep
<1>1. CASE TakeStep
  BY <1>1 DEF TakeStep, disk, decisions
<1>2. CASE CheckForStop \/ CheckForCheck \/ CheckLimits
  BY <1>2 DEF CheckForStop, CheckForCheck, CheckLimits, disk
<1>3. CASE DecideCheckpoint \/ CheckpointDecided
  BY <1>3 DEF DecideCheckpoint, CheckpointDecided, disk
<1>4. CASE DecideOutput
  <2> DEFINE came == {t \in dOutTimes : t <= dTime}
  <2>1. /\ pc = "decideOutput" /\ dOutTimes' = dOutTimes \ came
        /\ pc' \in {"outputDecided", "write"} /\ (came # {} => pc' = "outputDecided")
        /\ UNCHANGED <<outs, iStep, iStartStep>>
    BY <1>4 DEF DecideOutput, disk
  <2>2. \A t \in dOutTimes' : t > dTime'
    <3>1. iStep' = iStep /\ \A t \in dOutTimes' : t \in Int /\ ~(t <= 2 * iStep)
      BY <2>1
    <3>2. QED
      BY <3>1
  <2>3. ASSUME NEW e \in param.red, ~e.relative
        PROVE  \/ e.at \in dOutTimes' \/ \E t \in outs' : t >= e.at
               \/ e.at <= dTime' /\ OutputComes'
    <3>1. e.at \in dOutTimes \/ \E t \in outs : t >= e.at
      BY <2>1, <2>3
    <3>2. CASE e.at \in came
      BY <2>1, <3>2
    <3> QED
      BY <2>1, <3>1, <3>2
  <2> QED
    BY <2>1, <2>2, <2>3
<1>5. CASE OutputDecided
  BY <1>5 DEF OutputDecided, disk
<1>6. CASE WriteScript
  BY <1>6 DEF WriteScript
<1>7. CASE WriteParticles
  BY <1>7 DEF WriteParticles
<1>8. CASE NoCheckpoint
  BY <1>8 DEF NoCheckpoint, disk
<1>9. CASE Output
  <2>1. /\ pc = "output" /\ pc' = "end" /\ outs' = outs \cup {dTime}
        /\ UNCHANGED <<dOutTimes, iStep, iStartStep>>
    BY <1>9 DEF Output
  <2> QED
    BY <2>1
<1>10. CASE NoOutput
  BY <1>10 DEF NoOutput, disk
<1>11. CASE LoopEnd
  BY <1>11 DEF LoopEnd, disk
<1>12. CASE NoSteps
  BY <1>12 DEF NoSteps, disk
<1>13. CASE Touch("STOP") \/ Touch("CHECK") \/ USR2_handler \/ USR1_handler
  <2>1. UNCHANGED <<outs, pc, iStep, iStartStep, dOutTimes, bDoOutput>>
    BY <1>13 DEF Touch, USR2_handler, USR1_handler, disk, decisions
  <2> QED
    BY <2>1
<1>14. CASE Crash
  BY <1>14 DEF Crash, disk
<1>15. CASE Restart
  <2>1. PICK step \in {0} \cup {c.iStep : c \in {d \in chk : d.particles}} :
          iStep' = step /\ iStartStep' = step /\ dOutTimes' = ReadOuts(2 * step)
    BY <1>15 DEF Restart
  <2>2. pc' = "loop" /\ iStep' = iStartStep' /\ iStep' \in Nat
    BY <1>15, <2>1, TypesStep, OutputsAssumption DEF Restart, Types
  <2>3. \A e \in param.red : ~e.relative => e.at \in dOutTimes'
    BY <2>1 DEF ReadOuts
  <2> QED
    BY <2>2, <2>3
<1>16. CASE Ended \/ UNCHANGED vars
  BY <1>16 DEF Ended, vars, disk, decisions
<1> QED
  BY <1>1, <1>2, <1>3, <1>4, <1>5, <1>6, <1>7, <1>8, <1>9, <1>10, <1>11, <1>12, <1>13, <1>14, <1>15, <1>16 DEF Next

------------------------------------------------------------------------------
(* CanRestart *)

LEMMA CheckpointsStep == Types /\ Places /\ CheckpointsKept /\ [Next]_vars => CheckpointsKept'
<1> SUFFICES ASSUME Types, Places, CheckpointsKept, [Next]_vars PROVE CheckpointsKept'
  OBVIOUS
<1>t. /\ iStep \in Nat /\ iStartStep \in Nat /\ iStop \in BOOLEAN /\ bDoCheckpoint \in BOOLEAN
      /\ param.CheckInterval \in Nat /\ param.OutInterval \in Nat
  BY OutputsAssumption DEF Types
<1>p. param' = param
  BY ParamIsFixed
<1>i. /\ pc \in AfterStep \cup {"loop", "stopped", "done", "dead"}
      /\ pc \in AfterStep => iStartStep < iStep
  BY DEF Places
<1>c. chk' = chk => Complete' = Complete
  BY DEF Complete
<1> USE <1>t, <1>p, <1>i, <1>c DEF CheckpointsKept, AfterStep
<1>1. CASE TakeStep
  BY <1>1 DEF TakeStep, disk, decisions
<1>2. CASE CheckForStop \/ CheckForCheck \/ CheckLimits
  BY <1>2 DEF CheckForStop, CheckForCheck, CheckLimits, disk
<1>3. CASE DecideCheckpoint
  <2>1. /\ pc = "decideCheckpoint"
        /\ pc' = "checkpointDecided" \/ (pc' = "decideOutput" /\ ~AtInterval(param.CheckInterval))
        /\ UNCHANGED <<chk, iStep, iStartStep, iStop>>
    BY <1>3 DEF DecideCheckpoint, disk, decisions
  <2>2. pc' = "decideOutput" /\ param.CheckInterval > 0 => ~iStop
    BY <2>1 DEF AtInterval
  <2> QED
    BY <2>1, <2>2
<1>4. CASE CheckpointDecided
  BY <1>4 DEF CheckpointDecided, disk
<1>5. CASE DecideOutput
  BY <1>5 DEF DecideOutput, disk, decisions
<1>6. CASE OutputDecided
  BY <1>6 DEF OutputDecided, disk
<1>7. CASE WriteScript
  <2>1. /\ pc = "write" /\ pc' = "particles" /\ UNCHANGED <<iStep, iStartStep>>
        /\ chk' = {c \in chk : c.iStep # iStep} \cup {[iStep |-> iStep, particles |-> FALSE]}
    BY <1>7 DEF WriteScript, BuildCpName
  <2>2. iStartStep \in Complete => iStartStep \in Complete'
    BY <2>1 DEF Complete
  <2> QED
    BY <2>1, <2>2
<1>8. CASE WriteParticles
  <2>1. /\ pc = "particles" /\ pc' = "output" /\ UNCHANGED <<iStep, iStartStep>>
        /\ chk' = {c \in chk : c.iStep # iStep} \cup {[iStep |-> iStep, particles |-> TRUE]}
    BY <1>8 DEF WriteParticles
  <2>2. iStartStep \in Complete => iStartStep \in Complete'
    BY <2>1 DEF Complete
  <2>3. iStep \in Complete'
    <3> DEFINE new == [iStep |-> iStep, particles |-> TRUE]
    <3>1. new \in {d \in chk' : d.particles} /\ new.iStep = iStep
      BY <2>1
    <3> QED
      BY <3>1 DEF Complete
  <2> QED
    BY <2>1, <2>2, <2>3
<1>9. CASE NoCheckpoint
  BY <1>9 DEF NoCheckpoint, disk
<1>10. CASE Output
  BY <1>10 DEF Output
<1>11. CASE NoOutput
  BY <1>11 DEF NoOutput, disk, decisions
<1>12. CASE LoopEnd
  BY <1>12 DEF LoopEnd, disk, decisions
<1>13. CASE NoSteps
  BY <1>13 DEF NoSteps, disk, decisions
<1>14. CASE Touch("STOP") \/ Touch("CHECK") \/ USR2_handler \/ USR1_handler
  BY <1>14 DEF Touch, USR2_handler, USR1_handler, disk, decisions
<1>15. CASE Crash
  BY <1>15 DEF Crash, disk
<1>16. CASE Restart
  <2>1. PICK step \in {0} \cup Complete : iStartStep' = step
    BY <1>16 DEF Restart, Complete
  <2>2. pc' = "loop" /\ chk' = chk
    BY <1>16 DEF Restart, disk
  <2> QED
    BY <2>1, <2>2
<1>17. CASE Ended \/ UNCHANGED vars
  BY <1>17 DEF Ended, vars, disk, decisions
<1> QED
  BY <1>1, <1>2, <1>3, <1>4, <1>5, <1>6, <1>7, <1>8, <1>9, <1>10, <1>11, <1>12, <1>13, <1>14, <1>15, <1>16,
     <1>17 DEF Next

------------------------------------------------------------------------------
(* The theorems *)

LEMMA InvInit == Init => IInv
<1> SUFFICES ASSUME Init PROVE IInv
  OBVIOUS
<1>1. /\ param \in Params /\ param.CheckInterval \in Nat /\ param.OutInterval \in Nat
      /\ \A e \in param.red : e.relative \in BOOLEAN /\ e.at \in Nat
  BY OutputsAssumption DEF Init
<1>2. dOutTimes \subseteq Int /\ \A e \in param.red : ~e.relative => e.at \in dOutTimes
  BY <1>1 DEF Init, ReadOuts
<1>3. \A r \in Request : age[r] = NotAsked
  BY DEF Init
<1>4. {"CHECK", "STOP", "USR2"} \subseteq Request
  BY DEF Request
<1>5. Types
  <2>1. age \in [Request -> {NotAsked, 0, 1, 2}]
    BY DEF Init
  <2>2. /\ files = {} /\ outs = {} /\ chk = {} /\ iStep \in 0..nSteps /\ iStartStep \in 0..nSteps
        /\ bGlobalOutput = FALSE /\ iStop = FALSE /\ iCheck = FALSE /\ bDoCheckpoint = FALSE /\ bDoOutput = FALSE
    BY OutputsAssumption DEF Init
  <2> QED
    BY <1>1, <1>2, <2>1, <2>2 DEF Types
<1>6. Places /\ OutTimesKept /\ CheckpointsKept
  BY <1>1, <1>2 DEF Init, Places, AfterStep, OutTimesKept, CheckpointsKept
<1>7. CheckKept /\ StopKept /\ SignalKept
  BY <1>1, <1>3, <1>4 DEF Init, NotAsked, CheckKept, StopKept, SignalKept
<1> QED
  BY <1>5, <1>6, <1>7 DEF IInv

LEMMA InvHolds == Spec => []IInv
<1>1. IInv /\ [Next]_vars => IInv'
  BY TypesStep, PlacesStep, OutTimesStep, CheckStep, StopStep, SignalStep, CheckpointsStep DEF IInv
<1> QED
  BY <1>1, InvInit, PTL DEF Spec

\* Every variable keeps its type, and the loop never is behind the step it was started from.
THEOREM TypeCorrect == Spec => [](Types /\ Places)
<1>1. IInv => Types /\ Places
  BY DEF IInv
<1> QED
  BY <1>1, InvHolds, PTL

\* An output time that has passed has an output at or after it, whenever the program died and
\* whichever checkpoint it was started from.
THEOREM TimesServed == Spec => []OutTimesServed
<1>1. IInv => OutTimesServed
  <2> SUFFICES ASSUME IInv, pc \in {"loop", "stopped", "done"}, iStep > iStartStep,
                      NEW e \in param.red, ~e.relative, e.at <= dTime
               PROVE  \E t \in outs : t >= e.at
    BY DEF OutTimesServed
  <2>1. /\ iStep \in Nat /\ iStartStep \in Nat /\ e.at \in Nat /\ dOutTimes \subseteq Int
    BY OutputsAssumption DEF IInv, Types
  <2>2. \A t \in dOutTimes : t > dTime
    BY <2>1 DEF IInv, OutTimesKept
  <2>3. e.at \notin dOutTimes
    BY <2>1, <2>2 DEF dTime
  <2> QED
    BY <2>3 DEF IInv, OutTimesKept, OutputComes
<1> QED
  BY <1>1, InvHolds, PTL

\* What the user asks for by a file or a signal is done at the end of the step in which, or
\* after which, it is asked for, at whatever moment of the decisions the signal comes.
THEOREM EveryRequestServed == Spec => []RequestsServed
<1>1. IInv => RequestsServed
  BY DEF IInv, CheckKept, StopKept, SignalKept, RequestsServed
<1> QED
  BY <1>1, InvHolds, PTL

\* No step is lost that a run has been started from, whenever the program dies, and a run
\* that was stopped has a checkpoint of the step it stopped at.
THEOREM RestartPossible == Spec => []CanRestart
<1>1. IInv => CanRestart
  <2> SUFFICES ASSUME IInv PROVE CanRestart
    OBVIOUS
  <2>1. iStartStep \in Nat
    BY OutputsAssumption DEF IInv, Types
  <2> QED
    BY <2>1 DEF IInv, CheckpointsKept, CanRestart
<1> QED
  BY <1>1, InvHolds, PTL
=============================================================================
