-------------------------------- MODULE ARC --------------------------------
(***************************************************************************)
(* The adaptive replacement cache of mdl2/mpi/arc.h: one cache of one      *)
(* thread, driven by the calls that thread makes.  A directory entry (CDB) *)
(* is named by its key; the five intrusive lists are a function "where"    *)
(* (cdb.iWhere) and a relation "before" that orders the entries of a list  *)
(* from the least to the most recently spliced one.  Ghost entries (B1,    *)
(* B2) and absent entries (A1) have no data; an entry of T1 or T2 owns one *)
(* line of dataBase, and the word data[-1] in front of the line counts the *)
(* callers that hold it locked.                                            *)
(*                                                                         *)
(* "held" and "unflushed" are history variables: the key whose bytes were  *)
(* last copied into a line, and the keys that were handed out for          *)
(* modification since they were last passed to helper->flushElement.       *)
(*                                                                         *)
(* An operator X_Y is not part of the model: it is X with the mistake Y,   *)
(* kept to show that some property would notice that mistake.              *)
(***************************************************************************)
EXTENDS Integers, FiniteSets

CONSTANTS
  Key,        \* keys (line and owner, or advanced key) a thread may ask for
  nCache,     \* lines of data; nGhost and nAbsent are set to the same value
  MaxLock,    \* bound: locks the callers hold on one line at a time
  NoKey       \* what a line holds before the first copy into it

ASSUME CacheAssumption ==
  /\ IsFiniteSet(Key)
  /\ nCache \in Nat \ {0}
  /\ MaxLock \in Nat \ {0}
  /\ NoKey \notin Key

VARIABLES
  where,      \* cdb.iWhere, "free" for an entry on the free list
  before,     \* <<j, k>>: j is nearer the front of the list that both are on
  data,       \* cdb.data: the line of an entry, 0 for nullptr
  dirty,      \* keys whose entry has bDirty set
  nLock,      \* data[-1] of each line, without the magic number
  target_T1,  \* adaptive target size of T1
  status,     \* "run", "aborted" (abort()) or "crashed" (null dereference)
  held,       \* history: key whose data a line holds, NoKey at first
  unflushed   \* history: keys modified and not yet flushed to their owner

vars == <<where, before, data, dirty, nLock, target_T1, status, held, unflushed>>

Line == 1 .. nCache
Lists == {"A1", "T1", "T2", "B1", "B2"}

List(l) == {k \in Key : where[k] = l}
Size(l) == Cardinality(List(l))
Resident == List("T1") \union List("T2")
nInCache == Size("T1") + Size("T2") + Size("B1") + Size("B2")

(***************************************************************************)
(* The front of a list, and the orders after an entry is removed from the  *)
(* lists or spliced to the end of a list with members "rest".              *)
(***************************************************************************)
IsFront(k, S) == k \in S /\ \A j \in S \ {k} : <<k, j>> \in before
Without(R, k) == {p \in R : p[1] # k /\ p[2] # k}
ToEnd(R, k, rest) == Without(R, k) \union ((rest \ {k}) \X {k})

Init ==
  /\ where = [k \in Key |-> "free"]
  /\ before = {}
  /\ data = [k \in Key |-> 0]
  /\ dirty = {}
  /\ nLock = [s \in Line |-> 0]
  /\ target_T1 = 0
  /\ status = "run"
  /\ held = [s \in Line |-> NoKey]
  /\ unflushed = {}

(***************************************************************************)
(* victim(): entries that may lose their line, least recent first.  The    *)
(* argument bInB2 is false in every call: fetch() passes "is the entry in  *)
(* B2" after update() has already moved the entry to T2.                   *)
(***************************************************************************)
Unlocked_Any(l) == List(l)
Unlocked(l) == {k \in List(l) : nLock[data[k]] = 0}
T1Max(t) == IF t > 1 THEN t + 1 ELSE 1
VictimFromT1(t) == Size("T1") >= T1Max(t) /\ Unlocked("T1") # {}
VictimList(t) ==
  IF VictimFromT1(t) THEN Unlocked("T1")
  ELSE IF Unlocked("T2") # {} THEN Unlocked("T2") ELSE Unlocked("T1")
AllLocked == Unlocked("T1") \union Unlocked("T2") = {}

(***************************************************************************)
(* replace(): the victim v is flushed if dirty, becomes a ghost of its     *)
(* list and gives its line away.                                           *)
(***************************************************************************)
GhostOf(v) == IF where[v] = "T1" THEN "B1" ELSE "B2"
OrderEvicted(v) == ToEnd(before, v, List(GhostOf(v)))

(***************************************************************************)
(* The end of fetch(): the caller may lock line s and may announce that it *)
(* will modify it.  "gone" are the entries that were flushed on the way.   *)
(***************************************************************************)
HandOut_NoFlush(k, s, bLock, bModify, gone) ==
  /\ bLock => nLock[s] < MaxLock
  /\ nLock' = IF bLock THEN [nLock EXCEPT ![s] = @ + 1] ELSE nLock
  /\ dirty' = (dirty \ gone) \union (IF bModify THEN {k} ELSE {})
  /\ unflushed' = unflushed \union (IF bModify THEN {k} ELSE {})

HandOut(k, s, bLock, bModify, gone) ==
  /\ bLock => nLock[s] < MaxLock
  /\ nLock' = IF bLock THEN [nLock EXCEPT ![s] = @ + 1] ELSE nLock
  /\ dirty' = (dirty \ gone) \union (IF bModify THEN {k} ELSE {})
  /\ unflushed' = (unflushed \ (gone \intersect dirty))
                    \union (IF bModify THEN {k} ELSE {})

(***************************************************************************)
(* fetch() of a key with data: P1 is never filled; update() moves the      *)
(* entry to the end of T2.                                                 *)
(***************************************************************************)
Hit(k, bLock, bModify) ==
  /\ k \in Resident
  /\ where' = [where EXCEPT ![k] = "T2"]
  /\ before' = ToEnd(before, k, List("T2"))
  /\ HandOut(k, data[k], bLock, bModify, {})
  /\ UNCHANGED <<data, target_T1, status, held>>

\* fetch() of a key known to be absent: refreshed in A1, nothing returned.
HitAbsent(k) ==
  /\ where[k] = "A1"
  /\ before' = ToEnd(before, k, List("A1"))
  /\ UNCHANGED <<where, data, dirty, nLock, target_T1, status, held, unflushed>>

(***************************************************************************)
(* update() of a ghost adapts the target with the sizes before the move.   *)
(***************************************************************************)
LesserOf(a, b) == IF a <= b THEN a ELSE b
Delta_NoMinimum(i, j) == Size(i) \div Size(j)
Delta(i, j) == IF Size(i) \div Size(j) > 1 THEN Size(i) \div Size(j) ELSE 1
Adapted(k) ==
  IF where[k] = "B1"
    THEN target_T1 + LesserOf(Delta("B2", "B1"), nCache - target_T1)
    ELSE target_T1 - LesserOf(Delta("B1", "B2"), target_T1)

(***************************************************************************)
(* fetch() of a ghost.  update() has put the entry, whose data is still    *)
(* nullptr, at the end of T2 when replace() looks for a victim, so a scan  *)
(* of T2 that finds every other entry locked reads the lock word of a null *)
(* line.                                                                   *)
(***************************************************************************)
GhostHit(k, bLock, bModify, v) ==
  LET t == Adapted(k) IN
  /\ where[k] \in {"B1", "B2"}
  /\ VictimFromT1(t) \/ Unlocked("T2") # {}
  /\ IsFront(v, VictimList(t))
  /\ target_T1' = t
  /\ where' = [where EXCEPT ![v] = GhostOf(v), ![k] = "T2"]
  /\ before' = ToEnd(Without(OrderEvicted(v), k), k, List("T2") \ {v})
  /\ data' = [data EXCEPT ![k] = data[v], ![v] = 0]
  /\ HandOut(k, data[v], bLock, bModify, {v})
  /\ held' = [held EXCEPT ![data[v]] = k]
  /\ UNCHANGED status

GhostHitCrash(k) ==
  /\ where[k] \in {"B1", "B2"}
  /\ ~VictimFromT1(Adapted(k))
  /\ Unlocked("T2") = {}
  /\ status' = "crashed"
  /\ UNCHANGED <<where, before, data, dirty, nLock, target_T1, held, unflushed>>

(***************************************************************************)
(* insert_present(), one action per branch.  The first two branches are    *)
(* for |T1|+|B1| = nCache, the other two for a smaller first level.        *)
(***************************************************************************)
L1Full == Size("T1") + Size("B1") = nCache

\* Take the entry b at the front of B1; its line comes from a victim.
InsertOverB1(k, bLock, bModify, v, b) ==
  /\ where[k] = "free"
  /\ L1Full /\ Size("T1") < nCache
  /\ IsFront(b, List("B1"))
  /\ IsFront(v, VictimList(target_T1))
  /\ where' = [where EXCEPT ![b] = "free", ![v] = GhostOf(v), ![k] = "T1"]
  /\ before' = ToEnd(Without(OrderEvicted(v), b), k, List("T1") \ {v})
  /\ data' = [data EXCEPT ![k] = data[v], ![v] = 0]
  /\ HandOut(k, data[v], bLock, bModify, {v})
  /\ held' = [held EXCEPT ![data[v]] = k]
  /\ UNCHANGED <<target_T1, status>>

\* T1 has every line: its front entry e is reused without a look at its lock.
InsertOverT1(k, bLock, bModify, e) ==
  /\ where[k] = "free"
  /\ L1Full /\ Size("T1") = nCache
  /\ IsFront(e, List("T1"))
  /\ where' = [where EXCEPT ![e] = "free", ![k] = "T1"]
  /\ before' = ToEnd(Without(before, e), k, List("T1") \ {e})
  /\ data' = [data EXCEPT ![k] = data[e], ![e] = 0]
  /\ HandOut(k, data[e], bLock, bModify, {e})
  /\ held' = [held EXCEPT ![data[e]] = k]
  /\ UNCHANGED <<target_T1, status>>

\* All lines are in use: a victim gives its line to an entry of B2 when the
\* directory is full, and otherwise to an entry of the free list.
InsertReplacing(k, bLock, bModify, v, drop) ==
  /\ where[k] = "free"
  /\ ~L1Full /\ nInCache >= nCache
  /\ IsFront(v, VictimList(target_T1))
  /\ IF nInCache = 2 * nCache
       THEN \E b \in List("B2") : IsFront(b, List("B2")) /\ drop = {b}
       ELSE drop = {}
  /\ where' = [j \in Key |-> IF j = k THEN "T1"
                             ELSE IF j = v THEN GhostOf(v)
                             ELSE IF j \in drop THEN "free" ELSE where[j]]
  /\ before' = ToEnd({p \in OrderEvicted(v) : p[1] \notin drop}, k, List("T1") \ {v})
  /\ data' = [data EXCEPT ![k] = data[v], ![v] = 0]
  /\ HandOut(k, data[v], bLock, bModify, {v})
  /\ held' = [held EXCEPT ![data[v]] = k]
  /\ UNCHANGED <<target_T1, status>>

NextLine_FirstLevel == Size("T1") + Size("B1") + 1
NextLine == nInCache + 1

\* Not every line is in use: the next one, dataBase[nInCache], with no locks.
InsertFresh(k, bLock, bModify) ==
  LET s == NextLine IN
  /\ where[k] = "free"
  /\ ~L1Full /\ nInCache < nCache
  /\ where' = [where EXCEPT ![k] = "T1"]
  /\ before' = ToEnd(before, k, List("T1"))
  /\ data' = [data EXCEPT ![k] = s]
  /\ nLock' = [nLock EXCEPT ![s] = IF bLock THEN 1 ELSE 0]
  /\ held' = [held EXCEPT ![s] = k]
  /\ dirty' = dirty \union (IF bModify THEN {k} ELSE {})
  /\ unflushed' = unflushed \union (IF bModify THEN {k} ELSE {})
  /\ UNCHANGED <<target_T1, status>>

\* victim() finds only locked entries for a key that is not in the cache.
InsertAbort(k) ==
  /\ where[k] = "free"
  /\ nInCache >= nCache
  /\ Size("T1") < nCache
  /\ AllLocked
  /\ status' = "aborted"
  /\ UNCHANGED <<where, before, data, dirty, nLock, target_T1, held, unflushed>>

\* insert_absent(): the owner has no such element; A1 recycles its front.
InsertAbsent(k, drop) ==
  /\ where[k] = "free"
  /\ IF Size("A1") < nCache THEN drop = {}
       ELSE \E a \in List("A1") : IsFront(a, List("A1")) /\ drop = {a}
  /\ where' = [j \in Key |-> IF j = k THEN "A1"
                             ELSE IF j \in drop THEN "free" ELSE where[j]]
  /\ before' = ToEnd({p \in before : p[1] \notin drop}, k, List("A1") \ drop)
  /\ UNCHANGED <<data, dirty, nLock, target_T1, status, held, unflushed>>

\* release(): the caller gives back one lock of a line it was handed.
Release(s) ==
  /\ nLock[s] > 0
  /\ nLock' = [nLock EXCEPT ![s] = @ - 1]
  /\ UNCHANGED <<where, before, data, dirty, target_T1, status, held, unflushed>>

\* clear(): every dirty entry is flushed and every entry freed.  FlushCache()
\* and FinishCache() come when the thread holds no line.  target_T1 stays.
Clear ==
  /\ \A s \in Line : nLock[s] = 0
  /\ where' = [k \in Key |-> "free"]
  /\ before' = {}
  /\ data' = [k \in Key |-> 0]
  /\ unflushed' = unflushed \ (dirty \intersect Resident)
  /\ dirty' = dirty \ Resident
  /\ UNCHANGED <<nLock, target_T1, status, held>>

\* initialize() of a cache of the same size that was cleared when it closed.
Reinitialize ==
  /\ \A k \in Key : where[k] = "free"
  /\ target_T1' = 0
  /\ UNCHANGED <<where, before, data, dirty, nLock, status, held, unflushed>>

Fetch(k, bLock, bModify) ==
  \/ Hit(k, bLock, bModify)
  \/ HitAbsent(k)
  \/ \E v \in Key : GhostHit(k, bLock, bModify, v)
  \/ GhostHitCrash(k)
  \/ \E v, b \in Key : InsertOverB1(k, bLock, bModify, v, b)
  \/ \E e \in Key : InsertOverT1(k, bLock, bModify, e)
  \/ \E v \in Key, drop \in SUBSET List("B2") :
        InsertReplacing(k, bLock, bModify, v, drop)
  \/ InsertFresh(k, bLock, bModify)
  \/ InsertAbort(k)
  \/ \E drop \in SUBSET List("A1") : InsertAbsent(k, drop)

Next ==
  /\ status = "run"
  /\ \/ \E k \in Key, bLock, bModify \in BOOLEAN : Fetch(k, bLock, bModify)
     \/ \E s \in Line : Release(s)
     \/ Clear
     \/ Reinitialize

Spec == Init /\ [][Next]_vars
(***************************************************************************)
(* Properties.                                                             *)
(***************************************************************************)

\* Every variable has its type.
TypeOK ==
  /\ where \in [Key -> Lists \union {"free"}]
  /\ before \subseteq Key \X Key
  /\ data \in [Key -> 0 .. nCache]
  /\ dirty \subseteq Key
  /\ nLock \in [Line -> 0 .. MaxLock]
  /\ target_T1 \in 0 .. nCache
  /\ status \in {"run", "aborted", "crashed"}
  /\ held \in [Line -> Key \union {NoKey}]
  /\ unflushed \subseteq Key

\* The list sizes stay within what insert_present() and insert_absent() rely
\* on: they never take the front of an empty list or of an empty free list
\* (3 nCache entries), and ghosts appear only when every line is in use, so
\* dataBase[nInCache] is a line nobody has.
DirectoryBounds ==
  /\ Size("T1") + Size("T2") <= nCache
  /\ Size("T1") + Size("B1") <= nCache
  /\ nInCache <= 2 * nCache
  /\ Size("A1") <= nCache
  /\ Size("T1") + Size("T2") < nCache => List("B1") \union List("B2") = {}

\* Two resident keys never share a line, the lines in use are the first ones
\* of dataBase, ghosts and absent keys have none, and a resident key's line
\* holds the bytes of that key and of no other.
LinesOwned ==
  /\ \A k \in Resident : data[k] \in 1 .. Cardinality(Resident)
  /\ \A j, k \in Resident : data[j] = data[k] => j = k
  /\ \A k \in Key \ Resident : data[k] = 0
  /\ \A k \in Resident : held[data[k]] = k

\* A modification handed to a caller is either still in a resident dirty
\* entry or has been given to flushElement: no path that takes a line away
\* or empties the cache forgets it.
NoUpdateLost == unflushed \subseteq dirty \intersect Resident

\* victim() is fatal only because of locks: while no caller holds a line the
\* cache always finds one to replace, a ghost hit included, where the only
\* entry left in T2 may be the one that has no data yet.
FatalOnlyUnderLocks ==
  [][status' # "run" => \E s \in Line : nLock[s] > 0]_vars

\* A line whose lock count is not zero keeps its bytes, except when T1 holds
\* every line of the cache.
LockedKeptUnlessT1Full ==
  [][\A s \in Line : nLock[s] > 0 /\ held'[s] # held[s]
                       => Size("T1") = nCache]_vars

\* arc.h on release(): "When the lock count is zero then it is eligible to be
\* flushed".  Until then the line is not given to another key.
LockedNeverEvicted ==
  [][\A s \in Line : nLock[s] > 0 => held'[s] = held[s]]_vars

=============================================================================
