---------------------------- MODULE CacheProofs ----------------------------
(***************************************************************************)
(* Proofs about the two classes that a CACHE is made of: ARC, its          *)
(* directory, and RWLock, the lock of its elements.                        *)
(*                                                                         *)
(* ARC, for every set of keys and every size of the cache: the             *)
(* type invariant, the bounds of the directory, the ownership of lines,    *)
(* that no modification is lost, that a cache without locks never hits a   *)
(* fatal error and that a locked line keeps its bytes.  The inductive      *)
(* invariant is the conjunction of the four invariants; the argument is a  *)
(* count of the lists, move by move.  The last theorem adds to it that a   *)
(* lock is on a line that a resident key owns.                             *)
(*                                                                         *)
(* RWLock, for any finite sets of readers and writers: the exclusion, what *)
(* the count says, and with a single writer that copies are whole.         *)
(***************************************************************************)
EXTENDS ARC, RWLock, FiniteSetTheorems, TLAPS

------------------------------------------------------------------------------
(* ARC *)

Of(f, l) == {k \in Key : f[k] = l}
Count(f, l) == Cardinality(Of(f, l))

LEMMA CountType ==
  ASSUME NEW f, NEW l
  PROVE  IsFiniteSet(Of(f, l)) /\ Count(f, l) \in Nat
<1>1. Of(f, l) \in SUBSET Key
  BY DEF Of
<1>2. QED
  BY <1>1, CacheAssumption, FS_Subset, FS_CardinalityType DEF Count

Where == Lists \union {"free"}

\* The counts of g are those of f after one entry moved from list l to list m.
Shift(f, g, l, m) ==
  /\ Count(g, m) = Count(f, m) + 1
  /\ Count(g, l) = Count(f, l) - 1
  /\ \A i : i # m /\ i # l => Count(g, i) = Count(f, i)

\* The map g is f with k mapped to m: entry k moved to list m, or got line m.
Moves(f, g, k, m) == g = [f EXCEPT ![k] = m]

\* Moving one entry from list l to list m changes just these two counts.
LEMMA MoveCounts ==
  ASSUME NEW f \in [Key -> Where], NEW k \in Key, NEW l, NEW m \in Where,
         f[k] = l, l # m, NEW g, Moves(f, g, k, m)
  PROVE  /\ g \in [Key -> Where]
         /\ g[k] = m
         /\ \A j \in Key \ {k} : g[j] = f[j]
         /\ Shift(f, g, l, m)
<1>0. g = [f EXCEPT ![k] = m]
  BY DEF Moves
<1>1. Of(g, m) = Of(f, m) \cup {k} /\ k \notin Of(f, m)
  BY <1>0 DEF Of
<1>2. Of(g, l) = Of(f, l) \ {k} /\ k \in Of(f, l)
  BY <1>0 DEF Of
<1>3. \A i : i # m /\ i # l => Of(g, i) = Of(f, i)
  BY <1>0 DEF Of
<1>4. IsFiniteSet(Of(f, m)) /\ IsFiniteSet(Of(f, l))
  BY CountType
<1>5. Cardinality(Of(g, m)) = Cardinality(Of(f, m)) + 1
  BY <1>1, <1>4, FS_AddElement
<1>6. Cardinality(Of(g, l)) = Cardinality(Of(f, l)) - 1
  BY <1>2, <1>4, FS_RemoveElement
<1>7. \A i : i # m /\ i # l => Cardinality(Of(g, i)) = Cardinality(Of(f, i))
  BY <1>3
<1>8. \A i : Count(f, i) \in Nat
  BY CountType
<1>9. QED
  BY <1>0, <1>5, <1>6, <1>7, <1>8 DEF Count, Shift

\* A list that an entry is on is not empty.
LEMMA CountPositive ==
  ASSUME NEW f, NEW k \in Key
  PROVE  Count(f, f[k]) \in Nat \ {0}
<1>1. k \in Of(f, f[k])
  BY DEF Of
<1>2. QED
  BY <1>1, CountType, FS_EmptySet DEF Count

LEMMA SizeIsCount == \A l : List(l) = Of(where, l) /\ Size(l) = Count(where, l)
BY DEF List, Of, Size, Count

LEMMA SizeType == \A l : Size(l) \in Nat /\ IsFiniteSet(List(l))
BY SizeIsCount, CountType

LEMMA SizeEmpty == \A l : Size(l) = 0 <=> List(l) = {}
BY SizeType, FS_EmptySet DEF Size

\* T1 and T2 are disjoint, so the resident keys are counted by their sizes.
LEMMA ResidentSize == IsFiniteSet(Resident) /\ Cardinality(Resident) = Size("T1") + Size("T2")
<1>1. List("T1") \cap List("T2") = {}
  BY DEF List
<1>2. Cardinality(List("T1") \cap List("T2")) = 0
  BY <1>1, FS_EmptySet
<1>3. /\ IsFiniteSet(List("T1")) /\ IsFiniteSet(List("T2"))
      /\ Cardinality(List("T1")) \in Nat /\ Cardinality(List("T2")) \in Nat
  BY SizeType DEF Size
<1>4. /\ IsFiniteSet(List("T1") \cup List("T2"))
      /\ Cardinality(List("T1") \cup List("T2"))
           = Cardinality(List("T1")) + Cardinality(List("T2"))
               - Cardinality(List("T1") \cap List("T2"))
  BY <1>3, FS_Union
<1>5. QED
  BY <1>2, <1>3, <1>4 DEF Resident, Size

-----------------------------------------------------------------------------
(***************************************************************************)
(* The bounds of the directory as a predicate of the list map alone, and   *)
(* one lemma per way the code changes the lists.                           *)
(***************************************************************************)
Bounds(f) ==
  /\ Count(f, "T1") + Count(f, "T2") <= nCache
  /\ Count(f, "T1") + Count(f, "B1") <= nCache
  /\ Count(f, "T1") + Count(f, "T2") + Count(f, "B1") + Count(f, "B2") <= 2 * nCache
  /\ Count(f, "A1") <= nCache
  /\ Count(f, "T1") + Count(f, "T2") < nCache
       => Count(f, "B1") + Count(f, "B2") = 0

CountsNat(f) ==
  /\ nCache \in Nat
  /\ Count(f, "T1") \in Nat /\ Count(f, "T2") \in Nat /\ Count(f, "A1") \in Nat
  /\ Count(f, "B1") \in Nat /\ Count(f, "B2") \in Nat

LEMMA CountsAreNat == \A f : CountsNat(f)
BY CountType, CacheAssumption DEF CountsNat

\* update() of an entry with data: to T2.
LEMMA BoundsHit ==
  ASSUME NEW f \in [Key -> Where], NEW k \in Key, f[k] \in {"T1", "T2"}, Bounds(f),
         NEW g, Moves(f, g, k, "T2")
  PROVE  Bounds(g)
<1>1. CASE f[k] = "T2"
  <2>1. g = f
    BY <1>1 DEF Moves
  <2>2. QED
    BY <2>1
<1>2. CASE f[k] = "T1"
  <2>1. "T2" \in Where
    BY DEF Where, Lists
  <2>2. Shift(f, g, "T1", "T2")
    BY <1>2, <2>1, MoveCounts
  <2>3. CountsNat(f) /\ CountsNat(g)
    BY CountsAreNat
  <2>4. QED
    BY <2>2, <2>3 DEF Bounds, CountsNat, Shift
<1>3. QED
  BY <1>1, <1>2

\* replace(): a resident entry becomes the ghost of its list.
LEMMA GhostedCounts ==
  ASSUME NEW f \in [Key -> Where], NEW v \in Key, f[v] \in {"T1", "T2"},
         NEW g, Moves(f, g, v, IF f[v] = "T1" THEN "B1" ELSE "B2")
  PROVE  /\ g \in [Key -> Where]
         /\ \A j \in Key \ {v} : g[j] = f[j]
         /\ Count(g, "T1") + Count(g, "B1") = Count(f, "T1") + Count(f, "B1")
         /\ Count(g, "T2") + Count(g, "B2") = Count(f, "T2") + Count(f, "B2")
         /\ Count(g, "T1") + Count(g, "T2") = Count(f, "T1") + Count(f, "T2") - 1
         /\ Count(g, "T1") <= Count(f, "T1")
         /\ Count(g, "A1") = Count(f, "A1")
<1>1. CountsNat(f) /\ CountsNat(g)
  BY CountsAreNat
<1>2. CASE f[v] = "T1"
  <2>1. Moves(f, g, v, "B1") /\ "B1" \in Where
    BY <1>2 DEF Where, Lists
  <2>2. /\ g \in [Key -> Where]
        /\ \A j \in Key \ {v} : g[j] = f[j]
        /\ Shift(f, g, "T1", "B1")
    BY <1>2, <2>1, MoveCounts
  <2>3. QED
    BY <1>1, <2>2 DEF CountsNat, Shift
<1>3. CASE f[v] = "T2"
  <2>1. Moves(f, g, v, "B2") /\ "B2" \in Where
    BY <1>3 DEF Where, Lists
  <2>2. /\ g \in [Key -> Where]
        /\ \A j \in Key \ {v} : g[j] = f[j]
        /\ Shift(f, g, "T2", "B2")
    BY <1>3, <2>1, MoveCounts
  <2>3. QED
    BY <1>1, <2>2 DEF CountsNat, Shift
<1>4. QED
  BY <1>2, <1>3

\* fetch() of a ghost.
LEMMA BoundsGhostHit ==
  ASSUME NEW f \in [Key -> Where], NEW k \in Key, NEW v \in Key,
         f[k] \in {"B1", "B2"}, f[v] \in {"T1", "T2"}, Bounds(f),
         NEW g, Moves(f, g, v, IF f[v] = "T1" THEN "B1" ELSE "B2"),
         NEW h, Moves(g, h, k, "T2")
  PROVE  Bounds(h)
<1>1. /\ k # v /\ g[k] = f[k] /\ "T2" \in Where
      /\ g \in [Key -> Where]
      /\ Count(g, "T1") + Count(g, "B1") = Count(f, "T1") + Count(f, "B1")
      /\ Count(g, "T2") + Count(g, "B2") = Count(f, "T2") + Count(f, "B2")
      /\ Count(g, "T1") + Count(g, "T2") = Count(f, "T1") + Count(f, "T2") - 1
      /\ Count(g, "A1") = Count(f, "A1")
  BY GhostedCounts DEF Where, Lists
<1>2. Shift(g, h, g[k], "T2")
  BY <1>1, MoveCounts
<1>3. CountsNat(f) /\ CountsNat(g) /\ CountsNat(h)
  BY CountsAreNat
<1>4. Count(f, f[k]) >= 1
  BY CountPositive
<1>5. CASE f[k] = "B1"
  <2>1. /\ Count(h, "T2") = Count(g, "T2") + 1 /\ Count(h, "B1") = Count(g, "B1") - 1
        /\ Count(h, "T1") = Count(g, "T1") /\ Count(h, "B2") = Count(g, "B2")
        /\ Count(h, "A1") = Count(g, "A1") /\ Count(f, "B1") >= 1
    BY <1>1, <1>2, <1>3, <1>4, <1>5 DEF Shift, CountsNat
  <2>2. QED
    BY <1>1, <1>3, <2>1 DEF Bounds, CountsNat
<1>6. CASE f[k] = "B2"
  <2>1. /\ Count(h, "T2") = Count(g, "T2") + 1 /\ Count(h, "B2") = Count(g, "B2") - 1
        /\ Count(h, "T1") = Count(g, "T1") /\ Count(h, "B1") = Count(g, "B1")
        /\ Count(h, "A1") = Count(g, "A1") /\ Count(f, "B2") >= 1
    BY <1>1, <1>2, <1>3, <1>4, <1>6 DEF Shift, CountsNat
  <2>2. QED
    BY <1>1, <1>3, <2>1 DEF Bounds, CountsNat
<1>7. QED
  BY <1>5, <1>6

\* insert_present() over a ghost of B1, whose line comes from a victim.
LEMMA BoundsOverB1 ==
  ASSUME NEW f \in [Key -> Where], NEW k \in Key, NEW v \in Key, NEW b \in Key,
         f[k] = "free", f[v] \in {"T1", "T2"}, f[b] = "B1", Bounds(f),
         NEW g, Moves(f, g, v, IF f[v] = "T1" THEN "B1" ELSE "B2"),
         NEW h, Moves(g, h, b, "free"),
         NEW i, Moves(h, i, k, "T1")
  PROVE  Bounds(i)
<1>1. /\ k # v /\ b # v /\ k # b /\ g[k] = "free" /\ g[b] = "B1"
      /\ "T1" \in Where /\ "free" \in Where /\ g \in [Key -> Where]
      /\ Count(g, "T1") + Count(g, "B1") = Count(f, "T1") + Count(f, "B1")
      /\ Count(g, "T2") + Count(g, "B2") = Count(f, "T2") + Count(f, "B2")
      /\ Count(g, "T1") + Count(g, "T2") = Count(f, "T1") + Count(f, "T2") - 1
      /\ Count(g, "A1") = Count(f, "A1")
  BY GhostedCounts DEF Where, Lists
<1>2. /\ h \in [Key -> Where] /\ h[k] = "free"
      /\ Shift(g, h, "B1", "free")
  BY <1>1, MoveCounts
<1>3. Shift(h, i, "free", "T1")
  BY <1>1, <1>2, MoveCounts
<1>4. CountsNat(f) /\ CountsNat(g) /\ CountsNat(h) /\ CountsNat(i)
  BY CountsAreNat
<1>5. Count(f, "B1") >= 1
  BY CountPositive
<1>6. QED
  BY <1>1, <1>2, <1>3, <1>4, <1>5 DEF Bounds, CountsNat, Shift

\* insert_present() over the front of a full T1.
LEMMA BoundsOverT1 ==
  ASSUME NEW f \in [Key -> Where], NEW k \in Key, NEW e \in Key,
         f[k] = "free", f[e] = "T1", Bounds(f),
         NEW g, Moves(f, g, e, "free"),
         NEW h, Moves(g, h, k, "T1")
  PROVE  Bounds(h)
<1>1. /\ k # e /\ g[k] = "free" /\ "T1" \in Where /\ "free" \in Where
      /\ g \in [Key -> Where]
      /\ Shift(f, g, "T1", "free")
  BY MoveCounts DEF Where, Lists
<1>2. Shift(g, h, "free", "T1")
  BY <1>1, MoveCounts
<1>3. CountsNat(f) /\ CountsNat(g) /\ CountsNat(h)
  BY CountsAreNat
<1>4. QED
  BY <1>1, <1>2, <1>3 DEF Bounds, CountsNat, Shift

\* insert_present() with a victim's line, the directory not full.
LEMMA BoundsReplacing ==
  ASSUME NEW f \in [Key -> Where], NEW k \in Key, NEW v \in Key,
         f[k] = "free", f[v] \in {"T1", "T2"}, Bounds(f),
         Count(f, "T1") + Count(f, "B1") # nCache,
         Count(f, "T1") + Count(f, "T2") + Count(f, "B1") + Count(f, "B2") # 2 * nCache,
         Count(f, "T1") + Count(f, "T2") + Count(f, "B1") + Count(f, "B2") >= nCache,
         NEW g, Moves(f, g, v, IF f[v] = "T1" THEN "B1" ELSE "B2"),
         NEW h, Moves(g, h, k, "T1")
  PROVE  Bounds(h)
<1>1. /\ k # v /\ g[k] = "free" /\ "T1" \in Where /\ g \in [Key -> Where]
      /\ Count(g, "T1") + Count(g, "B1") = Count(f, "T1") + Count(f, "B1")
      /\ Count(g, "T2") + Count(g, "B2") = Count(f, "T2") + Count(f, "B2")
      /\ Count(g, "T1") + Count(g, "T2") = Count(f, "T1") + Count(f, "T2") - 1
      /\ Count(g, "A1") = Count(f, "A1")
  BY GhostedCounts DEF Where, Lists
<1>2. Shift(g, h, "free", "T1")
  BY <1>1, MoveCounts
<1>3. CountsNat(f) /\ CountsNat(g) /\ CountsNat(h)
  BY CountsAreNat
<1>4. QED
  BY <1>1, <1>2, <1>3 DEF Bounds, CountsNat, Shift

\* The same with a full directory: an entry of B2 is recycled.
LEMMA BoundsRecycling ==
  ASSUME NEW f \in [Key -> Where], NEW k \in Key, NEW v \in Key, NEW b \in Key,
         f[k] = "free", f[v] \in {"T1", "T2"}, f[b] = "B2", Bounds(f),
         Count(f, "T1") + Count(f, "B1") # nCache,
         NEW g, Moves(f, g, v, IF f[v] = "T1" THEN "B1" ELSE "B2"),
         NEW h, Moves(g, h, b, "free"),
         NEW i, Moves(h, i, k, "T1")
  PROVE  Bounds(i)
<1>1. /\ k # v /\ b # v /\ k # b /\ g[k] = "free" /\ g[b] = "B2"
      /\ "T1" \in Where /\ "free" \in Where /\ g \in [Key -> Where]
      /\ Count(g, "T1") + Count(g, "B1") = Count(f, "T1") + Count(f, "B1")
      /\ Count(g, "T2") + Count(g, "B2") = Count(f, "T2") + Count(f, "B2")
      /\ Count(g, "T1") + Count(g, "T2") = Count(f, "T1") + Count(f, "T2") - 1
      /\ Count(g, "A1") = Count(f, "A1")
  BY GhostedCounts DEF Where, Lists
<1>2. /\ h \in [Key -> Where] /\ h[k] = "free"
      /\ Shift(g, h, "B2", "free")
  BY <1>1, MoveCounts
<1>3. Shift(h, i, "free", "T1")
  BY <1>1, <1>2, MoveCounts
<1>4. CountsNat(f) /\ CountsNat(g) /\ CountsNat(h) /\ CountsNat(i)
  BY CountsAreNat
<1>5. Count(f, "B2") >= 1
  BY CountPositive
<1>6. QED
  BY <1>1, <1>2, <1>3, <1>4, <1>5 DEF Bounds, CountsNat, Shift

\* insert_present() with the next unused line.
LEMMA BoundsFresh ==
  ASSUME NEW f \in [Key -> Where], NEW k \in Key, f[k] = "free", Bounds(f),
         Count(f, "T1") + Count(f, "B1") # nCache,
         Count(f, "T1") + Count(f, "T2") + Count(f, "B1") + Count(f, "B2") < nCache,
         NEW g, Moves(f, g, k, "T1")
  PROVE  Bounds(g)
<1>1. /\ "T1" \in Where
      /\ Shift(f, g, "free", "T1")
  BY MoveCounts DEF Where, Lists
<1>2. CountsNat(f) /\ CountsNat(g)
  BY CountsAreNat
<1>3. QED
  BY <1>1, <1>2 DEF Bounds, CountsNat, Shift

\* insert_absent() with an entry of the free list, and with its own front.
LEMMA BoundsAbsent ==
  ASSUME NEW f \in [Key -> Where], NEW k \in Key, f[k] = "free", Bounds(f),
         Count(f, "A1") < nCache,
         NEW g, Moves(f, g, k, "A1")
  PROVE  Bounds(g)
<1>1. /\ "A1" \in Where
      /\ Shift(f, g, "free", "A1")
  BY MoveCounts DEF Where, Lists
<1>2. CountsNat(f) /\ CountsNat(g)
  BY CountsAreNat
<1>3. QED
  BY <1>1, <1>2 DEF Bounds, CountsNat, Shift

LEMMA BoundsAbsentRecycling ==
  ASSUME NEW f \in [Key -> Where], NEW k \in Key, NEW a \in Key,
         f[k] = "free", f[a] = "A1", Bounds(f),
         NEW g, Moves(f, g, a, "free"),
         NEW h, Moves(g, h, k, "A1")
  PROVE  Bounds(h)
<1>1. /\ k # a /\ g[k] = "free" /\ "A1" \in Where /\ "free" \in Where
      /\ g \in [Key -> Where]
      /\ Shift(f, g, "A1", "free")
  BY MoveCounts DEF Where, Lists
<1>2. Shift(g, h, "free", "A1")
  BY <1>1, MoveCounts
<1>3. CountsNat(f) /\ CountsNat(g) /\ CountsNat(h)
  BY CountsAreNat
<1>4. QED
  BY <1>1, <1>2, <1>3 DEF Bounds, CountsNat, Shift

-----------------------------------------------------------------------------
(***************************************************************************)
(* Ownership of lines as a predicate of the resident keys, the line map    *)
(* and the contents: when one key takes the line of another, and when a    *)
(* key gets the next unused line.                                          *)
(***************************************************************************)
Owns(R, d, h) ==
  /\ \A k \in R : d[k] \in 1 .. Cardinality(R)
  /\ \A j, k \in R : d[j] = d[k] => j = k
  /\ \A k \in Key \ R : d[k] = 0
  /\ \A k \in R : h[d[k]] = k

LEMMA OwnsSwap ==
  ASSUME NEW R \in SUBSET Key, NEW d \in [Key -> 0 .. nCache],
         NEW h \in [Line -> Key \union {NoKey}], Cardinality(R) <= nCache,
         Owns(R, d, h), NEW k \in Key \ R, NEW v \in R,
         NEW S, S = (R \ {v}) \union {k},
         NEW e, e = [d EXCEPT ![k] = d[v], ![v] = 0],
         NEW g, g = [h EXCEPT ![d[v]] = k]
  PROVE  Owns(S, e, g) /\ Cardinality(S) = Cardinality(R)
<1>1. IsFiniteSet(R) /\ Cardinality(R) \in Nat
  BY CacheAssumption, FS_Subset, FS_CardinalityType
<1>2. IsFiniteSet(R \ {v}) /\ Cardinality(R \ {v}) = Cardinality(R) - 1
  BY <1>1, FS_RemoveElement
<1>3. Cardinality((R \ {v}) \union {k}) = Cardinality(R \ {v}) + 1
  BY <1>2, FS_AddElement
<1>4. Cardinality(S) = Cardinality(R)
  BY <1>1, <1>2, <1>3
<1>5. /\ e[k] = d[v] /\ e[v] = 0 /\ k # v
      /\ \A j \in Key \ {k, v} : e[j] = d[j]
  OBVIOUS
<1>6. d[v] \in Line /\ \A j \in R : d[j] \in Line
  BY <1>1, CacheAssumption DEF Owns, Line
<1>7. g[d[v]] = k /\ \A s \in Line \ {d[v]} : g[s] = h[s]
  BY <1>6
<1>8. \A j \in S : e[j] \in 1 .. Cardinality(S)
  BY <1>4, <1>5 DEF Owns
<1>9. \A j, i \in S : e[j] = e[i] => j = i
  BY <1>5 DEF Owns
<1>10. \A j \in Key \ S : e[j] = 0
  BY <1>5 DEF Owns
<1>11. \A j \in S : g[e[j]] = j
  BY <1>5, <1>6, <1>7 DEF Owns
<1>12. QED
  BY <1>4, <1>8, <1>9, <1>10, <1>11 DEF Owns

LEMMA OwnsFresh ==
  ASSUME NEW R \in SUBSET Key, NEW d \in [Key -> 0 .. nCache],
         NEW h \in [Line -> Key \union {NoKey}], Cardinality(R) < nCache,
         Owns(R, d, h), NEW k \in Key \ R, NEW s, s = Cardinality(R) + 1,
         NEW S, S = R \union {k},
         NEW e, Moves(d, e, k, s), NEW g, Moves(h, g, s, k)
  PROVE  Owns(S, e, g) /\ s \in Line
<1>1. IsFiniteSet(R) /\ Cardinality(R) \in Nat
  BY CacheAssumption, FS_Subset, FS_CardinalityType
<1>2. Cardinality(S) = s
  BY <1>1, FS_AddElement
<1>3. s \in Line /\ \A j \in R : d[j] \in Line /\ d[j] # s
  BY <1>1, CacheAssumption DEF Owns, Line
<1>4. e[k] = s /\ \A j \in Key \ {k} : e[j] = d[j]
  BY DEF Moves
<1>5. g[s] = k /\ \A i \in Line \ {s} : g[i] = h[i]
  BY <1>3 DEF Moves
<1>6. \A j \in S : e[j] \in 1 .. Cardinality(S)
  BY <1>1, <1>2, <1>4 DEF Owns
<1>7. \A j, i \in S : e[j] = e[i] => j = i
  BY <1>3, <1>4 DEF Owns
<1>8. \A j \in Key \ S : e[j] = 0
  BY <1>4 DEF Owns
<1>9. \A j \in S : g[e[j]] = j
  BY <1>3, <1>4, <1>5 DEF Owns
<1>10. QED
  BY <1>3, <1>6, <1>7, <1>8, <1>9 DEF Owns

-----------------------------------------------------------------------------
(***************************************************************************)
(* The inductive invariant and its preservation, one lemma per action.     *)
(***************************************************************************)
IInv == TypeOK /\ DirectoryBounds /\ LinesOwned /\ NoUpdateLost

LEMMA EmptyLists ==
  \A f : Count(f, "B1") + Count(f, "B2") = 0 <=> Of(f, "B1") \union Of(f, "B2") = {}
<1> SUFFICES ASSUME NEW f
             PROVE  Count(f, "B1") + Count(f, "B2") = 0
                      <=> Of(f, "B1") \union Of(f, "B2") = {}
  OBVIOUS
<1>1. /\ Count(f, "B1") \in Nat /\ (Count(f, "B1") = 0 <=> Of(f, "B1") = {})
      /\ Count(f, "B2") \in Nat /\ (Count(f, "B2") = 0 <=> Of(f, "B2") = {})
  BY CountType, FS_EmptySet DEF Count
<1>2. QED
  BY <1>1

LEMMA BoundsNow == DirectoryBounds <=> Bounds(where)
BY EmptyLists DEF DirectoryBounds, Bounds, nInCache, Size, List, Count, Of

LEMMA BoundsNext == DirectoryBounds' <=> Bounds(where')
BY EmptyLists DEF DirectoryBounds, Bounds, nInCache, Size, List, Count, Of

LEMMA OwnsNow == LinesOwned <=> Owns(Resident, data, held)
BY DEF LinesOwned, Owns

LEMMA OwnsNext == LinesOwned' <=> Owns(Resident', data', held')
BY DEF LinesOwned, Owns

\* The key and line that HandOut is used with, and the entries it flushed.
LEMMA HandOutStep ==
  ASSUME TypeOK, NoUpdateLost, NEW k \in Key, NEW s \in Line,
         NEW bLock \in BOOLEAN, NEW bModify \in BOOLEAN,
         NEW gone \in SUBSET Key, HandOut(k, s, bLock, bModify, gone),
         Resident \subseteq Resident' \union gone, k \in Resident', k \notin gone
  PROVE  /\ nLock' \in [Line -> 0 .. MaxLock]
         /\ dirty' \subseteq Key /\ unflushed' \subseteq Key
         /\ NoUpdateLost'
<1>1. nLock' \in [Line -> 0 .. MaxLock]
  BY CacheAssumption DEF TypeOK, HandOut
<1>2. dirty' \subseteq Key /\ unflushed' \subseteq Key
  BY DEF TypeOK, HandOut
<1>3. NoUpdateLost'
  BY DEF NoUpdateLost, HandOut
<1>4. QED
  BY <1>1, <1>2, <1>3

\* A victim is resident.
LEMMA VictimResident ==
  ASSUME NEW t, NEW v, IsFront(v, VictimList(t))
  PROVE  v \in Resident /\ where[v] \in {"T1", "T2"} /\ v \in Key
BY DEF IsFront, VictimList, Unlocked, Resident, List

\* Every way in which key k gets the line of the resident key v.
LEMMA SwapStep ==
  ASSUME IInv, NEW k \in Key \ Resident, NEW v \in Resident,
         NEW bLock \in BOOLEAN, NEW bModify \in BOOLEAN,
         where' \in [Key -> Where], Bounds(where'),
         Resident' = (Resident \ {v}) \union {k},
         before' \subseteq Key \X Key,
         data' = [data EXCEPT ![k] = data[v], ![v] = 0],
         held' = [held EXCEPT ![data[v]] = k],
         HandOut(k, data[v], bLock, bModify, {v}),
         target_T1' \in 0 .. nCache,
         status' = status
  PROVE  IInv'
<1>1. Resident \in SUBSET Key /\ v \in Key
  BY DEF Resident, List
<1>2. /\ Cardinality(Resident) <= nCache
      /\ data \in [Key -> 0 .. nCache] /\ held \in [Line -> Key \union {NoKey}]
      /\ Owns(Resident, data, held)
  BY ResidentSize, OwnsNow DEF IInv, TypeOK, DirectoryBounds
<1>3. Owns(Resident', data', held')
  BY <1>1, <1>2, OwnsSwap
<1>4. data[v] \in Line
  BY <1>2, ResidentSize, SizeType, CacheAssumption DEF Owns, Line
<1>5. /\ nLock' \in [Line -> 0 .. MaxLock]
      /\ dirty' \subseteq Key /\ unflushed' \subseteq Key
      /\ NoUpdateLost'
  BY <1>1, <1>4, HandOutStep DEF IInv
<1>6. data' \in [Key -> 0 .. nCache] /\ held' \in [Line -> Key \union {NoKey}]
  BY <1>1, <1>2, <1>4, CacheAssumption
<1>7. TypeOK'
  BY <1>5, <1>6 DEF IInv, TypeOK, Where
<1>8. QED
  BY <1>3, <1>5, <1>7, BoundsNext, OwnsNext DEF IInv

LEMMA HitStep ==
  ASSUME IInv, NEW k \in Key, NEW bLock \in BOOLEAN, NEW bModify \in BOOLEAN,
         Hit(k, bLock, bModify)
  PROVE  IInv'
<1>1. /\ where \in [Key -> Where] /\ Bounds(where)
      /\ where[k] \in {"T1", "T2"}
      /\ Moves(where, where', k, "T2")
  BY BoundsNow DEF IInv, TypeOK, Where, Hit, Moves, Resident, List
<1>2. where' \in [Key -> Where] /\ Bounds(where')
  <2>1. Bounds(where')
    BY <1>1, BoundsHit
  <2>2. QED
    BY <1>1, <2>1 DEF Moves, Where, Lists
<1>3. Resident' = Resident /\ k \in Resident
  BY <1>1 DEF Resident, List, Moves
<1>4. data[k] \in Line
  BY <1>3, OwnsNow, ResidentSize, SizeType, CacheAssumption
     DEF IInv, DirectoryBounds, Owns, Line
<1>5. /\ nLock' \in [Line -> 0 .. MaxLock]
      /\ dirty' \subseteq Key /\ unflushed' \subseteq Key
      /\ NoUpdateLost'
  BY <1>3, <1>4, HandOutStep DEF IInv, Hit
<1>6. before' \subseteq Key \X Key
  BY DEF IInv, TypeOK, Hit, ToEnd, Without, List
<1>7. TypeOK'
  BY <1>2, <1>5, <1>6 DEF IInv, TypeOK, Where, Hit
<1>8. LinesOwned'
  BY <1>3, OwnsNow, OwnsNext DEF IInv, Hit
<1>9. QED
  BY <1>2, <1>5, <1>7, <1>8, BoundsNext DEF IInv

\* The adapted target stays between 0 and nCache, and a B2 hit lowers it.
LEMMA AdaptedRange ==
  ASSUME IInv, NEW k \in Key, where[k] \in {"B1", "B2"}
  PROVE  /\ Adapted(k) \in 0 .. nCache
         /\ where[k] = "B2" => Adapted(k) < nCache
<1>1. target_T1 \in 0 .. nCache /\ nCache \in Nat \ {0}
  BY CacheAssumption DEF IInv, TypeOK
<1>2. Size("B1") \in Nat /\ Size("B2") \in Nat
  BY SizeType
<1>3. CASE where[k] = "B1"
  <2>1. Size("B1") # 0
    BY <1>3, CountPositive, SizeIsCount
  <2>2. Size("B2") \div Size("B1") \in Int
    BY <1>2, <2>1
  <2>3. Delta("B2", "B1") \in Int /\ Delta("B2", "B1") >= 1
    BY <2>2 DEF Delta
  <2>4. Adapted(k) = target_T1 + LesserOf(Delta("B2", "B1"), nCache - target_T1)
    BY <1>3 DEF Adapted
  <2>5. QED
    BY <1>1, <1>3, <2>3, <2>4 DEF LesserOf
<1>4. CASE where[k] = "B2"
  <2>1. Size("B2") # 0
    BY <1>4, CountPositive, SizeIsCount
  <2>2. Size("B1") \div Size("B2") \in Int
    BY <1>2, <2>1
  <2>3. Delta("B1", "B2") \in Int /\ Delta("B1", "B2") >= 1
    BY <2>2 DEF Delta
  <2>4. Adapted(k) = target_T1 - LesserOf(Delta("B1", "B2"), target_T1)
    BY <1>4 DEF Adapted
  <2>5. QED
    BY <1>1, <2>3, <2>4 DEF LesserOf
<1>5. QED
  BY <1>3, <1>4

LEMMA OrderEvictedType ==
  ASSUME TypeOK, NEW v \in Key
  PROVE  OrderEvicted(v) \subseteq Key \X Key
BY DEF TypeOK, OrderEvicted, ToEnd, Without, List

LEMMA GhostHitStep ==
  ASSUME IInv, NEW k \in Key, NEW bLock \in BOOLEAN, NEW bModify \in BOOLEAN,
         NEW v \in Key, GhostHit(k, bLock, bModify, v)
  PROVE  IInv'
<1> DEFINE g == [where EXCEPT ![v] = GhostOf(v)]
<1>1. v \in Resident /\ where[v] \in {"T1", "T2"}
  BY VictimResident DEF GhostHit
<1>2. where[k] \in {"B1", "B2"} /\ k \notin Resident /\ k # v
  BY <1>1 DEF GhostHit, Resident, List
<1>3. where \in [Key -> Where] /\ Bounds(where)
  BY BoundsNow DEF IInv, TypeOK, Where
<1>4. /\ Moves(where, g, v, IF where[v] = "T1" THEN "B1" ELSE "B2")
      /\ Moves(g, where', k, "T2")
  BY DEF Moves, GhostHit, GhostOf
<1>5. Bounds(where')
  BY <1>1, <1>2, <1>3, <1>4, BoundsGhostHit
<1>6. where' = [where EXCEPT ![v] = GhostOf(v), ![k] = "T2"] /\ GhostOf(v) \in Where
  BY DEF GhostHit, GhostOf, Where, Lists
<1>7. where' \in [Key -> Where]
  BY <1>3, <1>6 DEF Where, Lists
<1>8. Resident' = (Resident \ {v}) \union {k}
  BY <1>1, <1>2, <1>3, <1>6 DEF Resident, List, GhostOf
<1>9. before' \subseteq Key \X Key
  BY OrderEvictedType DEF IInv, GhostHit, ToEnd, Without, List
<1>10. /\ target_T1' \in 0 .. nCache
       /\ data' = [data EXCEPT ![k] = data[v], ![v] = 0]
       /\ held' = [held EXCEPT ![data[v]] = k]
       /\ HandOut(k, data[v], bLock, bModify, {v})
       /\ status' = status
  BY <1>2, AdaptedRange DEF GhostHit
<1>11. QED
  BY <1>1, <1>2, <1>5, <1>7, <1>8, <1>9, <1>10, SwapStep

LEMMA InsertOverB1Step ==
  ASSUME IInv, NEW k \in Key, NEW bLock \in BOOLEAN, NEW bModify \in BOOLEAN,
         NEW v \in Key, NEW b \in Key, InsertOverB1(k, bLock, bModify, v, b)
  PROVE  IInv'
<1> DEFINE g == [where EXCEPT ![v] = GhostOf(v)]
           h == [g EXCEPT ![b] = "free"]
<1>1. v \in Resident /\ where[v] \in {"T1", "T2"}
  BY VictimResident DEF InsertOverB1
<1>2. /\ where[k] = "free" /\ k \notin Resident /\ k # v
      /\ where[b] = "B1" /\ b # v /\ b # k
  BY <1>1 DEF InsertOverB1, Resident, List, IsFront
<1>3. where \in [Key -> Where] /\ Bounds(where)
  BY BoundsNow DEF IInv, TypeOK, Where
<1>4. where' = [where EXCEPT ![b] = "free", ![v] = GhostOf(v), ![k] = "T1"]
      /\ GhostOf(v) \in Where
  BY DEF InsertOverB1, GhostOf, Where, Lists
<1>5. /\ Moves(where, g, v, IF where[v] = "T1" THEN "B1" ELSE "B2")
      /\ Moves(g, h, b, "free")
      /\ Moves(h, where', k, "T1")
  BY <1>2, <1>3, <1>4 DEF Moves, GhostOf
<1>6. Bounds(where')
  BY <1>1, <1>2, <1>3, <1>5, BoundsOverB1
<1>7. where' \in [Key -> Where]
  BY <1>3, <1>4 DEF Where, Lists
<1>8. Resident' = (Resident \ {v}) \union {k}
  BY <1>1, <1>2, <1>3, <1>4 DEF Resident, List, GhostOf
<1>9. before' \subseteq Key \X Key
  BY OrderEvictedType DEF IInv, InsertOverB1, ToEnd, Without, List
<1>10. /\ target_T1' \in 0 .. nCache
       /\ data' = [data EXCEPT ![k] = data[v], ![v] = 0]
       /\ held' = [held EXCEPT ![data[v]] = k]
       /\ HandOut(k, data[v], bLock, bModify, {v})
       /\ status' = status
  BY DEF InsertOverB1, IInv, TypeOK
<1>11. QED
  BY <1>1, <1>2, <1>6, <1>7, <1>8, <1>9, <1>10, SwapStep

LEMMA InsertOverT1Step ==
  ASSUME IInv, NEW k \in Key, NEW bLock \in BOOLEAN, NEW bModify \in BOOLEAN,
         NEW e \in Key, InsertOverT1(k, bLock, bModify, e)
  PROVE  IInv'
<1> DEFINE g == [where EXCEPT ![e] = "free"]
<1>1. /\ where[k] = "free" /\ k \notin Resident /\ k # e
      /\ where[e] = "T1" /\ e \in Resident
  BY DEF InsertOverT1, Resident, List, IsFront
<1>2. where \in [Key -> Where] /\ Bounds(where)
  BY BoundsNow DEF IInv, TypeOK, Where
<1>3. where' = [where EXCEPT ![e] = "free", ![k] = "T1"]
  BY DEF InsertOverT1
<1>4. Moves(where, g, e, "free") /\ Moves(g, where', k, "T1")
  BY <1>3 DEF Moves
<1>5. Bounds(where')
  BY <1>1, <1>2, <1>4, BoundsOverT1
<1>6. where' \in [Key -> Where]
  BY <1>2, <1>3 DEF Where, Lists
<1>7. Resident' = (Resident \ {e}) \union {k}
  BY <1>1, <1>2, <1>3 DEF Resident, List
<1>8. before' \subseteq Key \X Key
  BY DEF IInv, TypeOK, InsertOverT1, ToEnd, Without, List
<1>9. /\ target_T1' \in 0 .. nCache
      /\ data' = [data EXCEPT ![k] = data[e], ![e] = 0]
      /\ held' = [held EXCEPT ![data[e]] = k]
      /\ HandOut(k, data[e], bLock, bModify, {e})
      /\ status' = status
  BY DEF InsertOverT1, IInv, TypeOK
<1>10. QED
  BY <1>1, <1>5, <1>6, <1>7, <1>8, <1>9, SwapStep

LEMMA InsertReplacingStep ==
  ASSUME IInv, NEW k \in Key, NEW bLock \in BOOLEAN, NEW bModify \in BOOLEAN,
         NEW v \in Key, NEW drop \in SUBSET List("B2"),
         InsertReplacing(k, bLock, bModify, v, drop)
  PROVE  IInv'
<1> DEFINE g == [where EXCEPT ![v] = GhostOf(v)]
<1>1. v \in Resident /\ where[v] \in {"T1", "T2"}
  BY VictimResident DEF InsertReplacing
<1>2. where[k] = "free" /\ k \notin Resident /\ k # v
  BY <1>1 DEF InsertReplacing, Resident, List
<1>3. where \in [Key -> Where] /\ Bounds(where)
  BY BoundsNow DEF IInv, TypeOK, Where
<1>4. /\ Moves(where, g, v, IF where[v] = "T1" THEN "B1" ELSE "B2")
      /\ GhostOf(v) \in Where
  BY DEF Moves, GhostOf, Where, Lists
<1>5. /\ Count(where, "T1") + Count(where, "B1") # nCache
      /\ Count(where, "T1") + Count(where, "T2") + Count(where, "B1")
           + Count(where, "B2") >= nCache
  BY SizeIsCount DEF InsertReplacing, L1Full, nInCache
<1>6. where' = [j \in Key |-> IF j = k THEN "T1"
                              ELSE IF j = v THEN GhostOf(v)
                              ELSE IF j \in drop THEN "free" ELSE where[j]]
  BY DEF InsertReplacing
<1>7. Bounds(where')
  <2>1. CASE nInCache = 2 * nCache
    <3>1. PICK b \in List("B2") : drop = {b}
      BY <2>1 DEF InsertReplacing
    <3>2. b \in Key /\ where[b] = "B2" /\ b # k /\ b # v
      BY <1>1, <1>2 DEF List
    <3> DEFINE h == [g EXCEPT ![b] = "free"]
    <3>3. Moves(g, h, b, "free") /\ Moves(h, where', k, "T1")
      BY <1>2, <1>3, <1>6, <3>1, <3>2 DEF Moves
    <3>4. QED
      BY <1>1, <1>2, <1>3, <1>4, <1>5, <3>2, <3>3, BoundsRecycling
  <2>2. CASE nInCache # 2 * nCache
    <3>1. drop = {}
      BY <2>2 DEF InsertReplacing
    <3>2. Moves(g, where', k, "T1")
      BY <1>2, <1>3, <1>6, <3>1 DEF Moves
    <3>3. Count(where, "T1") + Count(where, "T2") + Count(where, "B1")
            + Count(where, "B2") # 2 * nCache
      BY <2>2, SizeIsCount DEF nInCache
    <3>4. QED
      BY <1>1, <1>2, <1>3, <1>4, <1>5, <3>2, <3>3, BoundsReplacing
  <2>3. QED
    BY <2>1, <2>2
<1>8. where' \in [Key -> Where]
  BY <1>3, <1>4, <1>6 DEF Where, Lists
<1>9. Resident' = (Resident \ {v}) \union {k}
  BY <1>1, <1>2, <1>3, <1>6 DEF Resident, List, GhostOf
<1>10. before' \subseteq Key \X Key
  BY OrderEvictedType DEF IInv, InsertReplacing, ToEnd, Without, List
<1>11. /\ target_T1' \in 0 .. nCache
       /\ data' = [data EXCEPT ![k] = data[v], ![v] = 0]
       /\ held' = [held EXCEPT ![data[v]] = k]
       /\ HandOut(k, data[v], bLock, bModify, {v})
       /\ status' = status
  BY DEF InsertReplacing, IInv, TypeOK
<1>12. QED
  BY <1>1, <1>2, <1>7, <1>8, <1>9, <1>10, <1>11, SwapStep

\* The next line of a cache that has lines left is the one after those in use.
LEMMA FreshLine ==
  ASSUME IInv, NEW k \in Key, NEW bLock \in BOOLEAN, NEW bModify \in BOOLEAN,
         InsertFresh(k, bLock, bModify)
  PROVE  /\ Cardinality(Resident) < nCache /\ NextLine = Cardinality(Resident) + 1
         /\ Cardinality(Resident) \in Nat /\ NextLine \in Line
<1>1. Bounds(where)
  BY BoundsNow DEF IInv
<1>2. /\ Count(where, "T1") + Count(where, "B1") # nCache
      /\ Count(where, "T1") + Count(where, "T2") + Count(where, "B1")
           + Count(where, "B2") < nCache
  BY SizeIsCount DEF InsertFresh, L1Full, nInCache
<1>3. CountsNat(where) /\ Cardinality(Resident) = Count(where, "T1") + Count(where, "T2")
  BY CountsAreNat, ResidentSize, SizeIsCount
<1>4. Count(where, "B1") = 0 /\ Count(where, "B2") = 0
  BY <1>1, <1>2, <1>3 DEF Bounds, CountsNat
<1>5. NextLine = Cardinality(Resident) + 1
  BY <1>3, <1>4, SizeIsCount DEF NextLine, nInCache, CountsNat
<1>6. Cardinality(Resident) < nCache /\ Cardinality(Resident) \in Nat
  BY <1>2, <1>3, <1>4 DEF CountsNat
<1>7. QED
  BY <1>5, <1>6, CacheAssumption DEF Line

LEMMA InsertFreshStep ==
  ASSUME IInv, NEW k \in Key, NEW bLock \in BOOLEAN, NEW bModify \in BOOLEAN,
         InsertFresh(k, bLock, bModify)
  PROVE  IInv'
<1>1. where \in [Key -> Where] /\ Bounds(where)
  BY BoundsNow DEF IInv, TypeOK, Where
<1>2. where[k] = "free" /\ k \in Key \ Resident /\ Resident \in SUBSET Key
  BY DEF InsertFresh, Resident, List
<1>3. Moves(where, where', k, "T1") /\ where' = [where EXCEPT ![k] = "T1"]
  BY DEF Moves, InsertFresh
<1>4. /\ Count(where, "T1") + Count(where, "B1") # nCache
      /\ Count(where, "T1") + Count(where, "T2") + Count(where, "B1")
           + Count(where, "B2") < nCache
  BY SizeIsCount DEF InsertFresh, L1Full, nInCache
<1>5. Bounds(where')
  BY <1>1, <1>2, <1>3, <1>4, BoundsFresh
<1>6. where' \in [Key -> Where] /\ Resident' = Resident \union {k}
  BY <1>1, <1>2, <1>3 DEF Where, Lists, Resident, List
<1>7. Cardinality(Resident) < nCache /\ NextLine = Cardinality(Resident) + 1
  BY FreshLine
<1>8. /\ data \in [Key -> 0 .. nCache] /\ held \in [Line -> Key \union {NoKey}]
      /\ Owns(Resident, data, held)
  BY OwnsNow DEF IInv, TypeOK, InsertFresh
<1>9. Owns(Resident', data', held') /\ NextLine \in Line
  <2>1. Moves(data, data', k, NextLine) /\ Moves(held, held', NextLine, k)
    BY DEF InsertFresh, Moves
  <2>2. QED
    BY <1>2, <1>6, <1>7, <1>8, <2>1, OwnsFresh
<1>10. /\ nLock' \in [Line -> 0 .. MaxLock]
       /\ data' \in [Key -> 0 .. nCache] /\ held' \in [Line -> Key \union {NoKey}]
  BY <1>8, <1>9, CacheAssumption DEF IInv, TypeOK, InsertFresh, Line
<1>11. dirty' \subseteq Key /\ unflushed' \subseteq Key /\ before' \subseteq Key \X Key
  BY DEF IInv, TypeOK, InsertFresh, ToEnd, Without, List
<1>12. NoUpdateLost'
  BY <1>6 DEF IInv, NoUpdateLost, InsertFresh
<1>13. TypeOK'
  BY <1>6, <1>10, <1>11 DEF IInv, TypeOK, InsertFresh, Where
<1>14. QED
  BY <1>5, <1>9, <1>12, <1>13, BoundsNext, OwnsNext DEF IInv

LEMMA InsertAbsentStep ==
  ASSUME IInv, NEW k \in Key, NEW drop \in SUBSET List("A1"), InsertAbsent(k, drop)
  PROVE  IInv'
<1>1. where \in [Key -> Where] /\ Bounds(where) /\ where[k] = "free"
  BY BoundsNow DEF IInv, TypeOK, Where, InsertAbsent
<1>2. where' = [j \in Key |-> IF j = k THEN "A1"
                              ELSE IF j \in drop THEN "free" ELSE where[j]]
  BY DEF InsertAbsent
<1>3. Bounds(where')
  <2>1. CASE Size("A1") < nCache
    <3>1. drop = {}
      BY <2>1 DEF InsertAbsent
    <3>2. Moves(where, where', k, "A1") /\ Count(where, "A1") < nCache
      BY <1>1, <1>2, <2>1, <3>1, SizeIsCount DEF Moves
    <3>3. QED
      BY <1>1, <3>2, BoundsAbsent
  <2>2. CASE ~(Size("A1") < nCache)
    <3>1. PICK a \in List("A1") : drop = {a}
      BY <2>2 DEF InsertAbsent
    <3>2. a \in Key /\ where[a] = "A1" /\ a # k
      BY <1>1 DEF List
    <3> DEFINE g == [where EXCEPT ![a] = "free"]
    <3>3. Moves(where, g, a, "free") /\ Moves(g, where', k, "A1")
      BY <1>1, <1>2, <3>1, <3>2 DEF Moves
    <3>4. QED
      BY <1>1, <3>2, <3>3, BoundsAbsentRecycling
  <2>3. QED
    BY <2>1, <2>2
<1>4. where' \in [Key -> Where] /\ Resident' = Resident
  BY <1>1, <1>2 DEF Where, Lists, Resident, List
<1>5. before' \subseteq Key \X Key
  BY DEF IInv, TypeOK, InsertAbsent, ToEnd, Without, List
<1>6. TypeOK'
  BY <1>4, <1>5 DEF IInv, TypeOK, InsertAbsent, Where
<1>7. LinesOwned' /\ NoUpdateLost'
  BY <1>4, OwnsNow, OwnsNext DEF IInv, NoUpdateLost, InsertAbsent
<1>8. QED
  BY <1>3, <1>6, <1>7, BoundsNext DEF IInv

\* The empty directory: after initialize() and after clear().
LEMMA EmptyDirectory ==
  ASSUME NEW f, f = [k \in Key |-> "free"]
  PROVE  Bounds(f)
<1>1. Of(f, "T1") = {} /\ Of(f, "T2") = {} /\ Of(f, "B1") = {} /\ Of(f, "B2") = {}
      /\ Of(f, "A1") = {}
  BY DEF Of
<1>2. Count(f, "T1") = 0 /\ Count(f, "T2") = 0 /\ Count(f, "B1") = 0
      /\ Count(f, "B2") = 0 /\ Count(f, "A1") = 0
  BY <1>1, FS_EmptySet DEF Count
<1>3. QED
  BY <1>2, CacheAssumption DEF Bounds

LEMMA ClearStep ==
  ASSUME IInv, Clear
  PROVE  IInv'
<1>1. where' = [k \in Key |-> "free"] /\ Bounds(where')
  BY EmptyDirectory DEF Clear
<1>2. Resident' = {}
  BY <1>1 DEF Resident, List
<1>3. LinesOwned'
  BY <1>2 DEF LinesOwned, Clear
<1>4. NoUpdateLost'
  BY DEF IInv, NoUpdateLost, Clear
<1>5. TypeOK'
  BY CacheAssumption DEF IInv, TypeOK, Clear
<1>6. QED
  BY <1>1, <1>3, <1>4, <1>5, BoundsNext DEF IInv

LEMMA InitIInv == Init => IInv
<1> SUFFICES ASSUME Init PROVE IInv
  OBVIOUS
<1>1. where = [k \in Key |-> "free"] /\ Bounds(where)
  BY EmptyDirectory DEF Init
<1>2. Resident = {}
  BY <1>1 DEF Resident, List
<1>3. LinesOwned /\ NoUpdateLost
  BY <1>2 DEF LinesOwned, NoUpdateLost, Init
<1>4. TypeOK
  BY CacheAssumption DEF TypeOK, Init
<1>5. QED
  BY <1>1, <1>3, <1>4, BoundsNow DEF IInv

\* A step that leaves lists, lines and modifications alone.
LEMMA QuietStep ==
  ASSUME IInv, UNCHANGED <<where, data, dirty, held, unflushed>>,
         before' \subseteq Key \X Key, nLock' \in [Line -> 0 .. MaxLock],
         target_T1' \in 0 .. nCache, status' \in {"run", "aborted", "crashed"}
  PROVE  IInv'
<1>1. Resident' = Resident
  BY DEF Resident, List
<1>2. TypeOK'
  BY DEF IInv, TypeOK
<1>3. LinesOwned' /\ NoUpdateLost'
  BY <1>1, OwnsNow, OwnsNext DEF IInv, NoUpdateLost
<1>4. DirectoryBounds'
  BY BoundsNow, BoundsNext DEF IInv
<1>5. QED
  BY <1>2, <1>3, <1>4 DEF IInv

LEMMA FetchStep ==
  ASSUME IInv, NEW k \in Key, NEW bLock \in BOOLEAN, NEW bModify \in BOOLEAN,
         Fetch(k, bLock, bModify)
  PROVE  IInv'
<1>1. CASE Hit(k, bLock, bModify)
  BY <1>1, HitStep
<1>2. CASE HitAbsent(k)
  <2>1. before' \subseteq Key \X Key
    BY <1>2 DEF IInv, TypeOK, HitAbsent, ToEnd, Without, List
  <2>2. QED
    BY <1>2, <2>1, QuietStep DEF IInv, TypeOK, HitAbsent
<1>3. CASE \E v \in Key : GhostHit(k, bLock, bModify, v)
  BY <1>3, GhostHitStep
<1>4. CASE GhostHitCrash(k)
  BY <1>4, QuietStep DEF IInv, TypeOK, GhostHitCrash
<1>5. CASE \E v, b \in Key : InsertOverB1(k, bLock, bModify, v, b)
  BY <1>5, InsertOverB1Step
<1>6. CASE \E e \in Key : InsertOverT1(k, bLock, bModify, e)
  BY <1>6, InsertOverT1Step
<1>7. CASE \E v \in Key, drop \in SUBSET List("B2") :
             InsertReplacing(k, bLock, bModify, v, drop)
  BY <1>7, InsertReplacingStep
<1>8. CASE InsertFresh(k, bLock, bModify)
  BY <1>8, InsertFreshStep
<1>9. CASE InsertAbort(k)
  BY <1>9, QuietStep DEF IInv, TypeOK, InsertAbort
<1>10. CASE \E drop \in SUBSET List("A1") : InsertAbsent(k, drop)
  BY <1>10, InsertAbsentStep
<1>11. QED
  BY <1>1, <1>2, <1>3, <1>4, <1>5, <1>6, <1>7, <1>8, <1>9, <1>10 DEF Fetch

LEMMA NextIInv == IInv /\ [Next]_vars => IInv'
<1> SUFFICES ASSUME IInv, [Next]_vars PROVE IInv'
  OBVIOUS
<1>1. CASE \E k \in Key, bLock, bModify \in BOOLEAN : Fetch(k, bLock, bModify)
  BY <1>1, FetchStep
<1>2. CASE \E s \in Line : Release(s)
  <2>1. nLock' \in [Line -> 0 .. MaxLock]
    BY <1>2, CacheAssumption DEF IInv, TypeOK, Release
  <2>2. QED
    BY <1>2, <2>1, QuietStep DEF IInv, TypeOK, Release
<1>3. CASE Clear
  BY <1>3, ClearStep
<1>4. CASE Reinitialize
  <2>1. target_T1' \in 0 .. nCache
    BY <1>4, CacheAssumption DEF Reinitialize
  <2>2. QED
    BY <1>4, <2>1, QuietStep DEF IInv, TypeOK, Reinitialize
<1>5. CASE UNCHANGED vars
  BY <1>5, QuietStep DEF IInv, TypeOK, vars
<1>6. QED
  BY <1>1, <1>2, <1>3, <1>4, <1>5 DEF Next

LEMMA Invariance == Spec => []IInv
<1>1. QED
  BY InitIInv, NextIInv, PTL DEF Spec

-----------------------------------------------------------------------------
(***************************************************************************)
(* Theorems.                                                               *)
(***************************************************************************)

\* Every variable keeps its type; in particular target_T1, an unsigned
\* number the code adds to and subtracts from, never leaves 0 .. nCache.
THEOREM TypeCorrect == Spec => []TypeOK
<1>1. IInv => TypeOK
  BY DEF IInv
<1>2. QED
  BY <1>1, Invariance, PTL

\* The lists of every cache, whatever its size, stay within the bounds that
\* the code takes for granted when it takes the front of a list.
THEOREM DirectoryBounded == Spec => []DirectoryBounds
<1>1. IInv => DirectoryBounds
  BY DEF IInv
<1>2. QED
  BY <1>1, Invariance, PTL

\* No two keys ever share a line, and a key's line holds that key's bytes.
THEOREM LinesAreOwned == Spec => []LinesOwned
<1>1. IInv => LinesOwned
  BY DEF IInv
<1>2. QED
  BY <1>1, Invariance, PTL

\* No modification a caller made is dropped without being flushed.
THEOREM UpdatesKept == Spec => []NoUpdateLost
<1>1. IInv => NoUpdateLost
  BY DEF IInv
<1>2. QED
  BY <1>1, Invariance, PTL

\* Without locks every resident entry may be a victim.
LEMMA NoLocksUnlocked ==
  ASSUME IInv, \A s \in Line : ~(nLock[s] > 0)
  PROVE  Unlocked("T1") = List("T1") /\ Unlocked("T2") = List("T2")
<1>1. \A s \in Line : nLock[s] = 0
  BY CacheAssumption DEF IInv, TypeOK
<1>2. \A k \in Resident : data[k] \in Line
  BY OwnsNow, ResidentSize, SizeType, CacheAssumption
     DEF IInv, DirectoryBounds, Owns, Line
<1>3. QED
  BY <1>1, <1>2 DEF Unlocked, Resident, List

LEMMA NoLocksNoAbort ==
  ASSUME IInv, \A s \in Line : ~(nLock[s] > 0), NEW k \in Key, InsertAbort(k)
  PROVE  FALSE
<1>1. List("T1") = {} /\ List("T2") = {}
  BY NoLocksUnlocked DEF InsertAbort, AllLocked
<1>2. Size("T1") = 0 /\ Size("T2") = 0
  BY <1>1, SizeEmpty
<1>3. CountsNat(where) /\ Bounds(where) /\ nCache # 0
  BY CountsAreNat, BoundsNow, CacheAssumption DEF IInv
<1>4. Count(where, "B1") + Count(where, "B2") = 0
  BY <1>2, <1>3, SizeIsCount DEF Bounds, CountsNat
<1>5. nInCache = 0
  BY <1>2, <1>3, <1>4, SizeIsCount DEF nInCache, CountsNat
<1>6. QED
  BY <1>3, <1>5 DEF InsertAbort, CountsNat

\* With T2 empty the lines are all in T1, so B1 is empty and a B2 hit has
\* lowered the target below nCache: victim() looks at T1 first.
LEMMA NoLocksNoCrash ==
  ASSUME IInv, \A s \in Line : ~(nLock[s] > 0), NEW k \in Key, GhostHitCrash(k)
  PROVE  FALSE
<1>1. List("T2") = {} /\ Size("T2") = 0
  BY NoLocksUnlocked, SizeEmpty DEF GhostHitCrash
<1>2. where[k] \in {"B1", "B2"} /\ Count(where, where[k]) \in Nat \ {0}
  BY CountPositive DEF GhostHitCrash
<1>3. CountsNat(where) /\ Bounds(where) /\ nCache # 0
  BY CountsAreNat, BoundsNow, CacheAssumption DEF IInv
<1>4. Count(where, "T2") = 0 /\ Count(where, "T1") = nCache
  BY <1>1, <1>2, <1>3, SizeIsCount DEF Bounds, CountsNat
<1>5. where[k] = "B2"
  BY <1>2, <1>3, <1>4 DEF Bounds, CountsNat
<1>6. Adapted(k) \in 0 .. nCache /\ Adapted(k) < nCache
  BY <1>5, AdaptedRange
<1>7. Size("T1") >= T1Max(Adapted(k))
  BY <1>3, <1>4, <1>6, SizeIsCount DEF T1Max, CountsNat
<1>8. Unlocked("T1") # {}
  BY <1>3, <1>4, SizeIsCount, SizeEmpty, NoLocksUnlocked
<1>9. QED
  BY <1>7, <1>8 DEF GhostHitCrash, VictimFromT1

\* A cache of any size whose callers hold no lock never aborts and never
\* dereferences the null line of a ghost.
THEOREM NoFatalWithoutLocks == Spec => FatalOnlyUnderLocks
<1>1. IInv /\ [Next]_vars
        => [status' # "run" => \E s \in Line : nLock[s] > 0]_vars
  <2> SUFFICES ASSUME IInv, Next, status' # "run",
                      \A s \in Line : ~(nLock[s] > 0)
               PROVE  FALSE
    OBVIOUS
  <2>1. status = "run"
    BY DEF Next
  <2>2. CASE \E k \in Key, bLock, bModify \in BOOLEAN : Fetch(k, bLock, bModify)
    <3>1. PICK k \in Key, bLock \in BOOLEAN, bModify \in BOOLEAN :
             Fetch(k, bLock, bModify)
      BY <2>2
    <3>2. GhostHitCrash(k) \/ InsertAbort(k)
      BY <2>1, <3>1 DEF Fetch, Hit, HitAbsent, GhostHit, InsertOverB1, InsertOverT1,
                        InsertReplacing, InsertFresh, InsertAbsent
    <3>3. QED
      BY <3>2, NoLocksNoAbort, NoLocksNoCrash
  <2>3. CASE (\E s \in Line : Release(s)) \/ Clear \/ Reinitialize
    BY <2>1, <2>3 DEF Release, Clear, Reinitialize
  <2>4. QED
    BY <2>2, <2>3 DEF Next
<1>2. QED
  BY <1>1, Invariance, PTL DEF Spec, FatalOnlyUnderLocks

(***************************************************************************)
(* LockedKeptUnlessT1Full                                                  *)
(***************************************************************************)

\* A lock is on a line that a resident key owns.
LockedOwned == \A s \in Line : nLock[s] > 0 => \E k \in Resident : data[k] = s

\* Key k gets the line of v, which is not locked unless T1 has every line.
TakesLine(k, v, bLock, bModify) ==
  /\ k \notin Resident /\ Resident' = (Resident \ {v}) \union {k}
  /\ data' = [data EXCEPT ![k] = data[v], ![v] = 0]
  /\ held' = [held EXCEPT ![data[v]] = k]
  /\ HandOut(k, data[v], bLock, bModify, {v})
  /\ nLock[data[v]] = 0 \/ Size("T1") = nCache

LEMMA VictimUnlocked ==
  ASSUME NEW t, NEW v, IsFront(v, VictimList(t))
  PROVE  nLock[data[v]] = 0
BY DEF IsFront, VictimList, Unlocked

LEMMA GhostHitTakes ==
  ASSUME IInv, NEW k \in Key, NEW bLock \in BOOLEAN, NEW bModify \in BOOLEAN,
         NEW v \in Key, GhostHit(k, bLock, bModify, v)
  PROVE  v \in Resident /\ TakesLine(k, v, bLock, bModify)
<1>1. v \in Resident /\ where[v] \in {"T1", "T2"} /\ nLock[data[v]] = 0
  BY VictimResident, VictimUnlocked DEF GhostHit
<1>2. where[k] \in {"B1", "B2"} /\ k \notin Resident /\ k # v
  BY <1>1 DEF GhostHit, Resident, List
<1>3. where \in [Key -> Where]
  BY DEF IInv, TypeOK, Where
<1>4. where' = [where EXCEPT ![v] = GhostOf(v), ![k] = "T2"]
  BY DEF GhostHit
<1>5. Resident' = (Resident \ {v}) \union {k}
  BY <1>1, <1>2, <1>3, <1>4 DEF Resident, List, GhostOf
<1>6. QED
  BY <1>1, <1>2, <1>5 DEF TakesLine, GhostHit

LEMMA InsertOverB1Takes ==
  ASSUME IInv, NEW k \in Key, NEW bLock \in BOOLEAN, NEW bModify \in BOOLEAN,
         NEW v \in Key, NEW b \in Key, InsertOverB1(k, bLock, bModify, v, b)
  PROVE  v \in Resident /\ TakesLine(k, v, bLock, bModify)
<1>1. v \in Resident /\ where[v] \in {"T1", "T2"} /\ nLock[data[v]] = 0
  BY VictimResident, VictimUnlocked DEF InsertOverB1
<1>2. /\ where[k] = "free" /\ k \notin Resident /\ k # v
      /\ where[b] = "B1" /\ b # v /\ b # k
  BY <1>1 DEF InsertOverB1, Resident, List, IsFront
<1>3. where \in [Key -> Where]
  BY DEF IInv, TypeOK, Where
<1>4. where' = [where EXCEPT ![b] = "free", ![v] = GhostOf(v), ![k] = "T1"]
  BY DEF InsertOverB1
<1>5. Resident' = (Resident \ {v}) \union {k}
  BY <1>1, <1>2, <1>3, <1>4 DEF Resident, List, GhostOf
<1>6. QED
  BY <1>1, <1>2, <1>5 DEF TakesLine, InsertOverB1

LEMMA InsertOverT1Takes ==
  ASSUME IInv, NEW k \in Key, NEW bLock \in BOOLEAN, NEW bModify \in BOOLEAN,
         NEW e \in Key, InsertOverT1(k, bLock, bModify, e)
  PROVE  e \in Resident /\ TakesLine(k, e, bLock, bModify)
<1>1. /\ where[k] = "free" /\ k \notin Resident /\ k # e
      /\ where[e] = "T1" /\ e \in Resident
  BY DEF InsertOverT1, Resident, List, IsFront
<1>2. where \in [Key -> Where]
  BY DEF IInv, TypeOK, Where
<1>3. where' = [where EXCEPT ![e] = "free", ![k] = "T1"]
  BY DEF InsertOverT1
<1>4. Resident' = (Resident \ {e}) \union {k}
  BY <1>1, <1>2, <1>3 DEF Resident, List
<1>5. QED
  BY <1>1, <1>4 DEF TakesLine, InsertOverT1

LEMMA InsertReplacingTakes ==
  ASSUME IInv, NEW k \in Key, NEW bLock \in BOOLEAN, NEW bModify \in BOOLEAN,
         NEW v \in Key, NEW drop \in SUBSET List("B2"),
         InsertReplacing(k, bLock, bModify, v, drop)
  PROVE  v \in Resident /\ TakesLine(k, v, bLock, bModify)
<1>1. v \in Resident /\ where[v] \in {"T1", "T2"} /\ nLock[data[v]] = 0
  BY VictimResident, VictimUnlocked DEF InsertReplacing
<1>2. where[k] = "free" /\ k \notin Resident /\ k # v
  BY <1>1 DEF InsertReplacing, Resident, List
<1>3. where \in [Key -> Where]
  BY DEF IInv, TypeOK, Where
<1>4. where' = [j \in Key |-> IF j = k THEN "T1"
                              ELSE IF j = v THEN GhostOf(v)
                              ELSE IF j \in drop THEN "free" ELSE where[j]]
  BY DEF InsertReplacing
<1>5. Resident' = (Resident \ {v}) \union {k}
  BY <1>1, <1>2, <1>3, <1>4 DEF Resident, List, GhostOf
<1>6. QED
  BY <1>1, <1>2, <1>5 DEF TakesLine, InsertReplacing

\* The line of a resident key, and the only one that HandOut may lock
LEMMA HandOutLocks ==
  ASSUME IInv, NEW k, NEW r \in Resident, NEW bLock, NEW bModify, NEW gone,
         HandOut(k, data[r], bLock, bModify, gone)
  PROVE  data[r] \in Line /\ \A s \in Line \ {data[r]} : nLock'[s] = nLock[s]
<1>1. data[r] \in Line
  BY OwnsNow, ResidentSize, SizeType, CacheAssumption DEF IInv, DirectoryBounds, Owns, Line
<1>2. nLock \in [Line -> 0 .. MaxLock]
  BY DEF IInv, TypeOK
<1>3. nLock' = [nLock EXCEPT ![data[r]] = nLock[data[r]] + 1] \/ nLock' = nLock
  BY DEF HandOut
<1>4. QED
  BY <1>1, <1>2, <1>3

LEMMA TakesKeepsLocked ==
  ASSUME IInv, LockedOwned, NEW k \in Key, NEW v \in Resident, NEW bLock, NEW bModify,
         TakesLine(k, v, bLock, bModify)
  PROVE  /\ LockedOwned'
         /\ \A s \in Line : nLock[s] > 0 /\ held'[s] # held[s] => Size("T1") = nCache
<1>1. /\ data[v] \in Line /\ \A s \in Line \ {data[v]} : nLock'[s] = nLock[s]
      /\ v \in Key /\ Resident \subseteq Key /\ k # v
      /\ data \in [Key -> 0 .. nCache] /\ held \in [Line -> Key \union {NoKey}]
  BY HandOutLocks DEF TakesLine, IInv, TypeOK, Resident, List
<1>2. data'[k] = data[v] /\ \A j \in Key \ {k, v} : data'[j] = data[j]
  BY <1>1 DEF TakesLine
<1>3. ASSUME NEW s \in Line, nLock'[s] > 0 PROVE \E j \in Resident' : data'[j] = s
  <2>1. CASE s = data[v]
    BY <1>2, <2>1 DEF TakesLine
  <2>2. CASE s # data[v]
    <3>1. PICK j \in Resident : data[j] = s
      BY <1>1, <1>3, <2>2 DEF LockedOwned
    <3>2. j # v /\ j # k /\ j \in Key /\ j \in Resident'
      BY <1>1, <2>2, <3>1 DEF TakesLine
    <3>3. QED
      BY <1>2, <3>1, <3>2
  <2>3. QED
    BY <2>1, <2>2
<1>4. ASSUME NEW s \in Line, nLock[s] > 0, held'[s] # held[s] PROVE Size("T1") = nCache
  <2>1. s = data[v]
    BY <1>1, <1>4 DEF TakesLine
  <2>2. QED
    BY <1>4, <2>1 DEF TakesLine
<1>5. QED
  BY <1>3, <1>4 DEF LockedOwned

\* A fetch locks a line that its key owns, and takes none that is locked but for a full T1.
LEMMA FetchKeepsLocked ==
  ASSUME IInv, LockedOwned, NEW k \in Key, NEW bLock \in BOOLEAN, NEW bModify \in BOOLEAN,
         Fetch(k, bLock, bModify)
  PROVE  /\ LockedOwned'
         /\ \A s \in Line : nLock[s] > 0 /\ held'[s] # held[s] => Size("T1") = nCache
<1> DEFINE Kept == /\ LockedOwned'
                   /\ \A s \in Line : nLock[s] > 0 /\ held'[s] # held[s] => Size("T1") = nCache
<1>0. where \in [Key -> Where] /\ data \in [Key -> 0 .. nCache] /\ held \in [Line -> Key \union {NoKey}]
      /\ nLock \in [Line -> 0 .. MaxLock] /\ Resident \subseteq Key
  BY DEF IInv, TypeOK, Where, Resident, List
<1>1. CASE Hit(k, bLock, bModify)
  <2>1. /\ k \in Resident /\ where' = [where EXCEPT ![k] = "T2"] /\ UNCHANGED <<data, held>>
        /\ HandOut(k, data[k], bLock, bModify, {})
    BY <1>1 DEF Hit
  <2>2. Resident' = Resident
    BY <1>0, <2>1 DEF Resident, List
  <2>3. \A s \in Line \ {data[k]} : nLock'[s] = nLock[s]
    BY <2>1, HandOutLocks
  <2>4. ASSUME NEW s \in Line, nLock'[s] > 0 PROVE \E j \in Resident : data[j] = s
    <3>1. CASE s = data[k]
      BY <2>1, <3>1
    <3>2. CASE s # data[k]
      BY <2>3, <2>4, <3>2 DEF LockedOwned
    <3>3. QED
      BY <3>1, <3>2
  <2>5. LockedOwned'
    BY <2>1, <2>2, <2>4 DEF LockedOwned
  <2>6. QED
    BY <2>1, <2>5
<1>2. CASE \E v \in Key : GhostHit(k, bLock, bModify, v)
  BY <1>2, GhostHitTakes, TakesKeepsLocked
<1>3. CASE \E v, b \in Key : InsertOverB1(k, bLock, bModify, v, b)
  BY <1>3, InsertOverB1Takes, TakesKeepsLocked
<1>4. CASE \E e \in Key : InsertOverT1(k, bLock, bModify, e)
  BY <1>4, InsertOverT1Takes, TakesKeepsLocked
<1>5. CASE \E v \in Key, drop \in SUBSET List("B2") : InsertReplacing(k, bLock, bModify, v, drop)
  BY <1>5, InsertReplacingTakes, TakesKeepsLocked
<1>6. CASE InsertFresh(k, bLock, bModify)
  <2>1. PICK n : n = NextLine
    OBVIOUS
  <2>2. n = Cardinality(Resident) + 1 /\ n \in Line /\ Cardinality(Resident) \in Nat
    BY <1>6, <2>1, FreshLine
  <2>3. /\ where' = [where EXCEPT ![k] = "T1"] /\ data' = [data EXCEPT ![k] = n] /\ held' = [held EXCEPT ![n] = k]
        /\ nLock' = [nLock EXCEPT ![n] = IF bLock THEN 1 ELSE 0] /\ where[k] = "free"
    BY <1>6, <2>1 DEF InsertFresh
  <2>4. Resident' = Resident \union {k} /\ k \notin Resident
    BY <1>0, <2>3 DEF Resident, List
  <2>5. \A j \in Resident : data[j] # n
    <3>1. \A j \in Resident : data[j] \in 1 .. Cardinality(Resident)
      BY DEF IInv, LinesOwned
    <3>2. QED
      BY <2>2, <3>1
  <2>6. ~(nLock[n] > 0)
    BY <2>2, <2>5 DEF LockedOwned
  <2>7. ASSUME NEW s \in Line, nLock'[s] > 0 PROVE \E j \in Resident' : data'[j] = s
    <3>1. CASE s = n
      BY <1>0, <2>3, <2>4, <3>1
    <3>2. CASE s # n
      <4>1. PICK j \in Resident : data[j] = s
        BY <1>0, <2>2, <2>3, <2>7, <3>2 DEF LockedOwned
      <4>2. data'[j] = s /\ j \in Resident'
        BY <1>0, <2>3, <2>4, <4>1
      <4>3. QED
        BY <4>2
    <3>3. QED
      BY <3>1, <3>2
  <2>8. \A s \in Line : held'[s] # held[s] => s = n
    BY <1>0, <2>3
  <2>9. QED
    BY <2>6, <2>7, <2>8 DEF LockedOwned
<1>7. CASE HitAbsent(k) \/ GhostHitCrash(k) \/ InsertAbort(k)
  <2>1. UNCHANGED <<where, data, nLock, held>>
    BY <1>7 DEF HitAbsent, GhostHitCrash, InsertAbort
  <2>2. QED
    BY <2>1 DEF LockedOwned, Resident, List
<1>8. CASE \E drop \in SUBSET List("A1") : InsertAbsent(k, drop)
  <2>1. PICK drop \in SUBSET List("A1") : InsertAbsent(k, drop)
    BY <1>8
  <2>2. /\ UNCHANGED <<data, nLock, held>> /\ where[k] = "free"
        /\ where' = [j \in Key |-> IF j = k THEN "A1" ELSE IF j \in drop THEN "free" ELSE where[j]]
    BY <2>1 DEF InsertAbsent
  <2>3. Resident' = Resident
    BY <1>0, <2>1, <2>2 DEF Resident, List
  <2>4. QED
    BY <2>2, <2>3 DEF LockedOwned
<1>9. QED
  BY <1>1, <1>2, <1>3, <1>4, <1>5, <1>6, <1>7, <1>8 DEF Fetch

LEMMA NextKeepsLocked ==
  ASSUME IInv, LockedOwned, Next
  PROVE  /\ LockedOwned'
         /\ \A s \in Line : nLock[s] > 0 /\ held'[s] # held[s] => Size("T1") = nCache
<1>1. CASE \E k \in Key, bLock, bModify \in BOOLEAN : Fetch(k, bLock, bModify)
  BY <1>1, FetchKeepsLocked
<1>2. CASE \E r \in Line : Release(r)
  <2>1. PICK r \in Line : nLock' = [nLock EXCEPT ![r] = nLock[r] - 1] /\ nLock[r] > 0 /\ UNCHANGED <<where, data, held>>
    BY <1>2 DEF Release
  <2>2. nLock \in [Line -> 0 .. MaxLock]
    BY DEF IInv, TypeOK
  <2>3. \A s \in Line : nLock'[s] > 0 => nLock[s] > 0
    BY <2>1, <2>2
  <2>4. Resident' = Resident
    BY <2>1 DEF Resident, List
  <2>5. QED
    BY <2>1, <2>3, <2>4 DEF LockedOwned
<1>3. CASE Clear
  <2>1. (\A s \in Line : nLock[s] = 0) /\ UNCHANGED <<nLock, held>>
    BY <1>3 DEF Clear
  <2>2. QED
    BY <2>1 DEF LockedOwned
<1>4. CASE Reinitialize
  BY <1>4 DEF Reinitialize, LockedOwned, Resident, List
<1>5. QED
  BY <1>1, <1>2, <1>3, <1>4 DEF Next

\* A line that some caller has locked keeps the bytes of its key in a cache of any size, however
\* often it is locked, except when T1 holds every line (insert_present, arc.h:627).
THEOREM LockedLinesKept == Spec => LockedKeptUnlessT1Full
<1>1. Init => LockedOwned
  BY DEF Init, LockedOwned
<1>2. IInv /\ LockedOwned /\ [Next]_vars => LockedOwned'
  <2>1. CASE Next
    BY <2>1, NextKeepsLocked
  <2>2. CASE UNCHANGED vars
    BY <2>2 DEF vars, LockedOwned, Resident, List
  <2>3. QED
    BY <2>1, <2>2
<1>3. IInv /\ LockedOwned /\ [Next]_vars
        => [\A s \in Line : nLock[s] > 0 /\ held'[s] # held[s] => Size("T1") = nCache]_vars
  BY NextKeepsLocked
<1>4. QED
  BY <1>1, <1>2, <1>3, Invariance, PTL DEF Spec, LockedKeptUnlessT1Full

------------------------------------------------------------------------------
(* RWLock *)

\* LockTypeOK without the bounds on the count, which follow from who is inside.
Types ==
  /\ count \in Int
  /\ pc \in [Thread -> Locations]
  /\ prev \in [Thread -> Int]
  /\ word \in [Part -> Nat]
  /\ copy \in [Thread -> [Part -> Nat]]

USE DEF Locations

\* The exclusion follows from the count, and the count from the exclusion.
LockInv == Types /\ ReadersExcludeWriters /\ CountIsOccupancy

LEMMA SectionsFinite ==
  ASSUME Types
  PROVE  /\ IsFiniteSet(Thread)
         /\ IsFiniteSet(Reading) /\ Cardinality(Reading) \in Nat
         /\ IsFiniteSet(Writing) /\ Cardinality(Writing) \in Nat
         /\ Reading = {} <=> Cardinality(Reading) = 0
         /\ Writing = {} <=> Cardinality(Writing) = 0
<1>1. IsFiniteSet(Thread)
  BY ThreadAssumption, FS_Union DEF Thread
<1>2. Reading \subseteq Thread /\ Writing \subseteq Thread
  BY DEF Reading, Writing
<1>3. IsFiniteSet(Reading) /\ IsFiniteSet(Writing)
  BY <1>1, <1>2, FS_Subset
<1> QED
  BY <1>1, <1>3, FS_CardinalityType, FS_EmptySet

LEMMA TypeStep == Types /\ [LockNext]_lockVars => Types'
<1> SUFFICES ASSUME Types, [LockNext]_lockVars PROVE Types'
  OBVIOUS
<1>1. ASSUME NEW t \in Reader, LoadRead(t) \/ AcquireRead(t) \/ UnlockRead(t)
      PROVE  Types'
  BY <1>1 DEF Types, LoadRead, AcquireRead, UnlockRead, Goto, elementVars, Thread
<1>2. ASSUME NEW t \in Reader, Copy(t) PROVE Types'
  BY <1>2 DEF Types, Copy, Goto, countVars, Thread, Part
<1>3. ASSUME NEW t \in Writer, LoadWrite(t) \/ AcquireWrite(t) \/ UnlockWrite(t)
      PROVE  Types'
  BY SMTT(30), <1>3 DEF Types, LoadWrite, AcquireWrite, UnlockWrite, Goto, elementVars, Thread
<1>4. ASSUME NEW t \in Writer, CombineLoad(t) PROVE Types'
  BY <1>4 DEF Types, CombineLoad, Goto, countVars, Thread
<1>5. ASSUME NEW t \in Writer, CombineStore(t) PROVE Types'
  BY <1>5 DEF Types, CombineStore, Goto, countVars, Thread, Part
<1>6. ASSUME NEW t \in Thread, Retry(t) PROVE Types'
  BY <1>6 DEF Types, Retry, Goto, countVars, elementVars
<1>7. CASE UNCHANGED lockVars
  BY <1>7 DEF Types, lockVars
<1> QED
  BY <1>1, <1>2, <1>3, <1>4, <1>5, <1>6, <1>7 DEF LockNext

\* Every step moves at most one thread into or out of a section.
LEMMA LockStep == LockInv /\ [LockNext]_lockVars => LockInv'
<1> SUFFICES ASSUME LockInv, [LockNext]_lockVars PROVE LockInv'
  OBVIOUS
<1>t. Types /\ Types'
  BY TypeStep DEF LockInv
<1>f. /\ IsFiniteSet(Reading) /\ Cardinality(Reading) \in Nat
      /\ IsFiniteSet(Writing) /\ Cardinality(Writing) \in Nat
      /\ Reading = {} <=> Cardinality(Reading) = 0
      /\ Writing = {} <=> Cardinality(Writing) = 0
  BY <1>t, SectionsFinite
<1>i. /\ ReadersExcludeWriters
      /\ count = Cardinality(Reading) - Cardinality(Writing)
  BY DEF LockInv, CountIsOccupancy
<1>d. Reader \cap Writer = {}
  BY ThreadAssumption
<1>u. ASSUME UNCHANGED count, Reading' = Reading, Writing' = Writing PROVE LockInv'
  BY <1>u, <1>i, <1>t DEF LockInv, ReadersExcludeWriters, CountIsOccupancy
<1>1. ASSUME NEW t \in Reader, AcquireRead(t) PROVE LockInv'
  <2>1. Reading' = Reading \cup {t} /\ t \notin Reading /\ Writing' = Writing
    BY <1>1, <1>t DEF AcquireRead, Goto, Types, Reading, Writing, Thread
  <2>2. Cardinality(Reading') = Cardinality(Reading) + 1
    BY <2>1, <1>f, FS_AddElement
  <2>3. Writing = {}
    BY <1>1, <1>f, <1>i, <1>t DEF AcquireRead, MayRead, ReadersExcludeWriters, Types
  <2> QED
    BY <1>1, <1>f, <1>i, <1>t, <2>1, <2>2, <2>3
       DEF AcquireRead, LockInv, ReadersExcludeWriters, CountIsOccupancy
<1>2. ASSUME NEW t \in Writer, AcquireWrite(t) PROVE LockInv'
  <2>1. Writing' = Writing \cup {t} /\ t \notin Writing /\ Reading' = Reading
    BY <1>2, <1>t DEF AcquireWrite, Goto, Types, Reading, Writing, Thread
  <2>2. Cardinality(Writing') = Cardinality(Writing) + 1
    BY <2>1, <1>f, FS_AddElement
  <2>3. Reading = {}
    BY <1>2, <1>f, <1>i, <1>t DEF AcquireWrite, MayWrite, ReadersExcludeWriters, Types
  <2> QED
    BY <1>2, <1>f, <1>i, <1>t, <2>1, <2>2, <2>3
       DEF AcquireWrite, LockInv, ReadersExcludeWriters, CountIsOccupancy
<1>3. ASSUME NEW t \in Reader, UnlockRead(t) PROVE LockInv'
  <2>1. Reading' = Reading \ {t} /\ t \in Reading /\ Writing' = Writing
    BY <1>3, <1>t DEF UnlockRead, Goto, Types, Reading, Writing, Thread
  <2>2. Cardinality(Reading') = Cardinality(Reading) - 1
    BY <2>1, <1>f, FS_RemoveElement
  <2> QED
    BY <1>3, <1>f, <1>i, <1>t, <2>1, <2>2
       DEF UnlockRead, LockInv, ReadersExcludeWriters, CountIsOccupancy
<1>4. ASSUME NEW t \in Writer, UnlockWrite(t) PROVE LockInv'
  <2>1. Writing' = Writing \ {t} /\ t \in Writing /\ Reading' = Reading
    BY <1>4, <1>t DEF UnlockWrite, Goto, Types, Reading, Writing, Thread
  <2>2. Cardinality(Writing') = Cardinality(Writing) - 1
    BY <2>1, <1>f, FS_RemoveElement
  <2> QED
    BY <1>4, <1>f, <1>i, <1>t, <2>1, <2>2
       DEF UnlockWrite, LockInv, ReadersExcludeWriters, CountIsOccupancy
<1>5. ASSUME NEW t \in Reader, LoadRead(t) \/ Copy(t) PROVE LockInv'
  <2>1. Reading' = Reading /\ Writing' = Writing
    BY <1>5, <1>t DEF LoadRead, Copy, Goto, Types, Reading, Writing, Thread, Part
  <2> QED
    BY <1>5, <1>u, <2>1 DEF LoadRead, Copy, countVars
<1>6. ASSUME NEW t \in Writer, LoadWrite(t) \/ CombineLoad(t) \/ CombineStore(t) PROVE LockInv'
  <2>1. Reading' = Reading /\ Writing' = Writing
    BY <1>6, <1>t DEF LoadWrite, CombineLoad, CombineStore, Goto, Types, Reading, Writing, Thread, Part
  <2> QED
    BY <1>6, <1>u, <2>1 DEF LoadWrite, CombineLoad, CombineStore, countVars
<1>7. ASSUME NEW t \in Thread, Retry(t) PROVE LockInv'
  <2>1. Reading' = Reading /\ Writing' = Writing
    BY <1>7, <1>t DEF Retry, Goto, Types, Reading, Writing, Thread
  <2> QED
    BY <1>7, <1>u, <2>1 DEF Retry, countVars
<1>8. CASE UNCHANGED lockVars
  BY <1>8, <1>u DEF lockVars, Reading, Writing
<1> QED
  BY <1>1, <1>2, <1>3, <1>4, <1>5, <1>6, <1>7, <1>8 DEF LockNext

LEMMA LockInitially == LockInit => LockInv
<1> SUFFICES ASSUME LockInit PROVE LockInv
  OBVIOUS
<1>1. Types
  BY DEF LockInit, Types
<1>2. Reading = {} /\ Writing = {}
  BY DEF LockInit, Reading, Writing
<1>3. Cardinality(Reading) = 0 /\ Cardinality(Writing) = 0
  BY <1>2, FS_EmptySet
<1> QED
  BY <1>1, <1>2, <1>3 DEF LockInit, LockInv, ReadersExcludeWriters, CountIsOccupancy

LEMMA LockInvariant == LockSpec => []LockInv
<1>1. LockInit => LockInv
  BY LockInitially
<1>2. LockInv /\ [LockNext]_lockVars => LockInv'
  BY LockStep
<1> QED
  BY <1>1, <1>2, PTL DEF LockSpec

\* Whatever the number of threads on either side, a reader and a writer are
\* never inside together (lock_read, lock_write).
THEOREM Exclusion == LockSpec => []ReadersExcludeWriters
<1>1. LockInv => ReadersExcludeWriters
  BY DEF LockInv
<1> QED
  BY <1>1, LockInvariant, PTL

\* The atomic count always equals readers minus writers inside.
THEOREM CountExact == LockSpec => []CountIsOccupancy
<1>1. LockInv => CountIsOccupancy
  BY DEF LockInv
<1> QED
  BY <1>1, LockInvariant, PTL
------------------------------------------------------------------------------
(* The element *)

\* The element is whole except between the two stores of a combine, whose thread
\* holds what the first word was; a reader half way has the current first word.
ElementInv ==
  /\ \A t \in Writer : pc[t] = "write2" => copy[t] = word
  /\ \A t \in Writer : pc[t] = "write3" =>
        /\ word[1] = copy[t][1] + 1
        /\ copy[t][1] = copy[t][2]
  /\ (\A t \in Writer : pc[t] # "write3") => word[1] = word[2]
  /\ \A t \in Reader : pc[t] = "read2" => copy[t][1] = word[1]
  /\ NoTornCopy

\* A cache has one writer: the core that owns the elements.
OneWriter == \A s, t \in Writer : s = t

RoleOK ==
  /\ \A t \in Reader : pc[t] \in {"out", "tryRead", "read1", "read2", "unlockRead"}
  /\ \A t \in Writer : pc[t] \in {"out", "tryWrite", "write1", "write2", "write3", "unlockWrite"}

LEMMA RoleInvariant == LockSpec => [](RoleOK /\ LockInv)
<1>1. LockInit => RoleOK
  BY DEF LockInit, RoleOK, Thread
<1>2. RoleOK /\ LockInv /\ [LockNext]_lockVars => RoleOK'
  BY ThreadAssumption
     DEF RoleOK, LockInv, Types, LockNext, LoadRead, AcquireRead, Copy, UnlockRead, LoadWrite,
         AcquireWrite, CombineLoad, CombineStore, UnlockWrite, Retry, Goto, Thread, Part, lockVars
<1> QED
  BY <1>1, <1>2, LockInvariant, PTL DEF LockSpec

\* The variables keep their types and the count its bounds.
THEOREM LockTypeCorrect == LockSpec => []LockTypeOK
<1>1. ASSUME RoleOK, LockInv PROVE LockTypeOK
  <2>1. Reading \subseteq Reader /\ Writing \subseteq Writer
    BY <1>1 DEF RoleOK, Reading, Writing, Thread
  <2>2. /\ Cardinality(Reading) <= Cardinality(Reader)
        /\ Cardinality(Writing) <= Cardinality(Writer)
    BY <2>1, ThreadAssumption, FS_Subset
  <2>3. /\ Cardinality(Reader) \in Nat /\ Cardinality(Reading) \in Nat
        /\ Cardinality(Writer) \in Nat /\ Cardinality(Writing) \in Nat
    BY <1>1, SectionsFinite, ThreadAssumption, FS_CardinalityType DEF LockInv
  <2>4. count \in (-Cardinality(Writer))..Cardinality(Reader)
    BY <1>1, <2>2, <2>3 DEF LockInv, CountIsOccupancy
  <2> QED
    BY <1>1, <2>4 DEF LockInv, Types, LockTypeOK
<1>2. RoleOK /\ LockInv => LockTypeOK
  BY <1>1
<1> QED
  BY <1>2, RoleInvariant, PTL

LEMMA ElementStep ==
  ASSUME OneWriter, RoleOK, LockInv, ElementInv, [LockNext]_lockVars
  PROVE  ElementInv'
<1>t. Types /\ Reader \cap Writer = {}
  BY ThreadAssumption DEF LockInv
<1>x. Reading = {} \/ Writing = {}
  BY DEF LockInv, ReadersExcludeWriters
<1> DEFINE Whole == /\ \A t \in Writer : pc[t] = "write2" => copy[t] = word
                    /\ \A t \in Writer : pc[t] = "write3" =>
                          word[1] = copy[t][1] + 1 /\ copy[t][1] = copy[t][2]
                    /\ (\A t \in Writer : pc[t] # "write3") => word[1] = word[2]
           Copies == /\ \A t \in Reader : pc[t] = "read2" => copy[t][1] = word[1]
                     /\ \A t \in Reader : pc[t] = "unlockRead" => copy[t][1] = copy[t][2]
<1>e. Whole /\ Copies
  BY DEF ElementInv, NoTornCopy
<1>1. ASSUME NEW t \in Reader, LoadRead(t) \/ AcquireRead(t) \/ UnlockRead(t)
      PROVE  Whole' /\ Copies'
  BY <1>1, <1>e, <1>t DEF LoadRead, AcquireRead, UnlockRead, Goto, elementVars, Types, Thread
<1>2. ASSUME NEW t \in Reader, Copy(t) PROVE Whole' /\ Copies'
  <2>1. Writing = {}
    BY <1>2, <1>x, <1>t DEF Copy, Reading, Thread, Part
  <2>2. word[1] = word[2]
    BY <2>1, <1>e DEF Writing, Thread
  <2>3. Whole'
    BY <1>2, <1>e, <1>t DEF Copy, Goto, Types, Thread, Part
  <2>4. Copies'
    BY <1>2, <2>2, <1>e, <1>t DEF Copy, Goto, Types, Thread, Part
  <2> QED
    BY <2>3, <2>4
<1>3. ASSUME NEW t \in Writer, LoadWrite(t) \/ AcquireWrite(t) \/ UnlockWrite(t)
      PROVE  Whole' /\ Copies'
  BY <1>3, <1>e, <1>t
     DEF LoadWrite, AcquireWrite, UnlockWrite, Goto, elementVars, Types, Thread
<1>4. ASSUME NEW t \in Writer, CombineLoad(t) PROVE Whole' /\ Copies'
  BY <1>4, <1>e, <1>t DEF CombineLoad, Goto, countVars, Types, Thread
<1>5. ASSUME NEW t \in Writer, CombineStore(t) PROVE Whole' /\ Copies'
  <2>1. t \in Writing
    BY <1>5 DEF CombineStore, Writing, Thread, Part
  <2>2. \A r \in Reader : pc[r] \notin {"read2"}
    BY <2>1, <1>x DEF Reading, Thread
  <2>3. Copies'
    BY <1>5, <2>2, <1>e, <1>t DEF CombineStore, Goto, countVars, Types, Thread, Part
  <2>4. \A s \in Writer : s = t
    BY DEF OneWriter
  <2>5. CASE pc[t] = "write2"
    <3>1. word' = [word EXCEPT ![1] = copy[t][1] + 1] /\ copy' = copy /\ pc'[t] = "write3"
      BY <1>5, <2>5, <1>t DEF CombineStore, Goto, countVars, Types, Thread, Part
    <3>2. copy[t] = word /\ word[1] = word[2]
      BY <2>4, <2>5, <1>e
    <3>3. word'[1] = copy[t][1] + 1 /\ copy[t][1] = copy[t][2]
      BY <3>1, <3>2, <1>t DEF Types, Part, Thread
    <3> QED
      BY <3>1, <3>3, <2>3, <2>4
  <2>6. CASE pc[t] = "write3"
    <3>1. word' = [word EXCEPT ![2] = copy[t][2] + 1] /\ copy' = copy /\ pc'[t] = "unlockWrite"
      BY <1>5, <2>6, <1>t DEF CombineStore, Goto, countVars, Types, Thread, Part
    <3>2. word'[1] = word'[2]
      BY <3>1, <2>6, <1>e, <1>t DEF Types, Part, Thread
    <3> QED
      BY <3>1, <3>2, <2>3, <2>4, <1>t DEF Types, Thread
  <2> QED
    BY <1>5, <2>3, <2>5, <2>6 DEF CombineStore, Part
<1>6. ASSUME NEW t \in Thread, Retry(t) PROVE Whole' /\ Copies'
  BY <1>6, <1>e, <1>t DEF Retry, Goto, elementVars, Types, Thread
<1>7. ASSUME UNCHANGED lockVars PROVE Whole' /\ Copies'
  BY <1>7, <1>e DEF lockVars
<1>8. Whole' /\ Copies'
  BY <1>1, <1>2, <1>3, <1>4, <1>5, <1>6, <1>7 DEF LockNext
<1> QED
  BY <1>8 DEF ElementInv, NoTornCopy

\* When one thread combines, as the owner of a cache does, every copy of an
\* element is of one moment (MessageFlushToCore, CacheReceiveRequest).
THEOREM CopiesWhole ==
  ASSUME OneWriter
  PROVE  LockSpec => []NoTornCopy
<1>1. LockInit => ElementInv
  BY DEF LockInit, ElementInv, NoTornCopy, Thread, Part
<1>2. RoleOK /\ LockInv /\ ElementInv /\ [LockNext]_lockVars => ElementInv'
  BY ElementStep
<1>3. ElementInv => NoTornCopy
  BY DEF ElementInv
<1> QED
  BY <1>1, <1>2, <1>3, RoleInvariant, PTL DEF LockSpec
=============================================================================
