--------------------------- MODULE WorkQueueProofs ---------------------------
(* Proofs about WorkQueue, for any number of cores, tiles and buckets and queues of any size. *)
EXTENDS WorkQueue, FiniteSetTheorems, SequenceTheorems, TLAPS

Item == [iCoreOwner : Core, bucket : Bucket, tile : 1..Tiles]

\* From the moment a tile has been counted to that where it is queued or done, and the
\* whole time a bucket is being worked through
InHand == {"add", "scan", "put", "enqueue", "self"}
Inside == InHand \cup {"queue"}
Walking == Inside \cup {"walk", "complete", "finish"}

Flat ==
  /\ nBuckets \in [Core -> 0..MaxBuckets]
  /\ nFree \in [Core -> Int] /\ wqCurSize \in [Core -> Int]
  /\ wqAccepting \in [Core -> BOOLEAN] /\ wqLastHelper \in [Core -> Core]
  /\ at \in [Core -> Walking \cup {"barrier", "report", "idle"}]
  /\ bucket \in [Core -> 0..MaxBuckets] /\ tile \in [Core -> 0..Tiles]
  /\ seek \in [Core -> Core] /\ barriers \in [Core -> 0..3]
  /\ doing \in [Core -> {"no", "work", "done", "own"}] /\ rc \in [Core -> BOOLEAN]
  /\ nRung \in [Core -> Int] /\ reported \in [Core -> Int]

Deep ==
  /\ wq \in [Core -> Seq(Item)] /\ wqDone \in [Core -> Seq(Item)]
  /\ hand \in [Core -> Item \cup {None}]
  /\ nRefs \in [Core -> [Bucket -> Int]] /\ added \in [Core -> [Bucket -> Seq(1..Tiles)]]

Types == Flat /\ Deep

\* Where a core is, what it holds, and that it is inside a bucket only if it has one
Located ==
  \A c \in Core :
    /\ wqAccepting[c] <=> at[c] = "barrier"
    /\ at[c] \in Walking <=> barriers[c] = 0
    /\ at[c] \in {"report", "idle"} => barriers[c] = 3
    /\ at[c] \in Inside => bucket[c] > 0
    /\ at[c] \in InHand => tile[c] > 0
    /\ doing[c] \in {"work", "done"} <=> hand[c] # None

------------------------------------------------------------------------------
(* PlacesHold *)

\* No core passes a barrier while another is in its walk, and an item is put only where
\* its core has looked, which is its own queue or that of a core that waits.
Gates ==
  /\ \A c, d \in Core : barriers[d] = 0 => barriers[c] <= 1
  /\ \A c \in Core : at[c] \in {"put", "enqueue"} /\ seek[c] # c => at[seek[c]] = "barrier"

\* The cores that are about to raise the size of c's queue, and those that have and still
\* have to put their item in it
Putters(c) == {d \in Core : at[d] = "put" /\ seek[d] = c}
Enqueuers(c) == {d \in Core : at[d] = "enqueue" /\ seek[d] = c}

Room == wqMaxSize + Max({0, Cores - 2})

\* A size counts what is in the queue, on its way into it, or just taken from it.
SizeOf(c) ==
  /\ wqCurSize[c] = Len(wq[c]) + Cardinality(Enqueuers(c)) + (IF doing[c] = "work" THEN 1 ELSE 0)
  /\ wqCurSize[c] + Cardinality(Putters(c)) <= Room
Sizes == \A c \in Core : SizeOf(c)

------------------------------------------------------------------------------
(* KickedWhenComplete *)

\* The tiles of bucket b of core c that have been counted in nRefs, and those of them that have
\* been queued or done
Counted(c, b) ==
  IF b > bucket[c] THEN 0 ELSE IF b = bucket[c] /\ at[c] \in Inside THEN tile[c] ELSE Tiles
Handed(c, b) == IF b = bucket[c] /\ at[c] \in InHand THEN tile[c] - 1 ELSE Counted(c, b)
Held(c, b) == IF b = bucket[c] /\ at[c] \in Inside THEN 1 ELSE 0

\* An item that has been handed out and has not been added to the forces
Pending(x) ==
  /\ x.tile <= Handed(x.iCoreOwner, x.bucket)
  /\ x.tile \notin Range(added[x.iCoreOwner][x.bucket])

AllPending ==
  \A c \in Core :
    /\ \A x \in Range(wq[c]) : Pending(x)
    /\ \A x \in Range(wqDone[c]) : Pending(x) /\ x.iCoreOwner = c
    /\ hand[c] # None => Pending(hand[c])

\* Every item is in one place.
Apart(c, d) ==
  /\ c # d => Range(wq[c]) \cap Range(wq[d]) = {} /\ (hand[c] # None => hand[c] # hand[d])
  /\ Range(wq[c]) \cap Range(wqDone[d]) = {}
  /\ hand[c] # None => hand[c] \notin Range(wq[d]) \cup Range(wqDone[d])
NoneTwice ==
  \A c \in Core : /\ IsInjective(wq[c]) /\ IsInjective(wqDone[c])
                  /\ \A d \in Core : Apart(c, d)

\* Nor has a tile been added twice.
AddedOnce ==
  \A c \in Core, b \in Bucket : /\ \A t \in Range(added[c][b]) : t <= Handed(c, b)
                                /\ IsInjective(added[c][b])

\* A reference is one tile to be added, or that of the walk.
References ==
  \A c \in Core, b \in Bucket : nRefs[c][b] + Len(added[c][b]) = Counted(c, b) + Held(c, b)

Kicked(c) == {b \in 1..bucket[c] : nRefs[c][b] = 0}
KicksCounted == \A c \in Core : nRung[c] = Cardinality(Kicked(c))

IInv ==
  /\ Types /\ Located /\ Gates /\ Sizes
  /\ AllPending /\ NoneTwice /\ AddedOnce /\ References /\ KicksCounted


------------------------------------------------------------------------------
(* Types *)

LEMMA CoreFinite == /\ IsFiniteSet(Core) /\ Cardinality(Core) = Cores
                    /\ Cores \in Nat \ {0} /\ wqMaxSize \in Nat /\ Tiles \in Nat /\ MaxBuckets \in Nat
BY WorkQueueAssumption, FS_Interval DEF Core

\* The loop over the cores stays among them.
LEMMA NextCore == \A i \in Core : (i + 1) % Cores \in Core
BY CoreFinite DEF Core

LEMMA FlatStep == Flat /\ Located /\ [Next]_vars => Flat'
<1> SUFFICES ASSUME Flat, Located, [Next]_vars PROVE Flat'
  OBVIOUS
<1> USE CoreFinite DEF Inside, InHand, Walking, sizes, forces, walk, GoTo, Flat
<1>1. ASSUME NEW c \in Core, StartBucket(c) PROVE Flat'
  <2>1. bucket[c] + 1 \in 0..MaxBuckets
    BY <1>1 DEF StartBucket, Start
  <2> QED
    BY <1>1, <2>1 DEF StartBucket, Start
<1>2. ASSUME NEW c \in Core, NextTile(c) PROVE Flat'
  BY <1>2 DEF NextTile
<1>3. ASSUME NEW c \in Core, AddWork(c) PROVE Flat'
  BY <1>3 DEF AddWork, Add
<1>4. ASSUME NEW c \in Core, SeekHelper(c) PROVE Flat'
  <2>1. (seek[c] + 1) % Cores \in Core
    BY NextCore
  <2>2. CASE HasRoom(seek[c])
    BY <1>4, <2>2 DEF SeekHelper
  <2>3. CASE ~HasRoom(seek[c])
    <3>1. /\ seek' = [seek EXCEPT ![c] = (seek[c] + 1) % Cores]
          /\ at' \in {[at EXCEPT ![c] = "self"], [at EXCEPT ![c] = "scan"]} /\ wqLastHelper' = wqLastHelper
      BY <1>4, <2>3 DEF SeekHelper
    <3>2. seek' \in [Core -> Core]
      BY <2>1, <3>1
    <3> QED
      BY <1>4, <3>1, <3>2 DEF SeekHelper
  <2> QED
    BY <2>2, <2>3
<1>5. ASSUME NEW c \in Core, Put(c) PROVE Flat'
  <2>1. nFree' = [nFree EXCEPT ![c] = nFree[c] - 1] /\ wqCurSize' = [wqCurSize EXCEPT ![seek[c]] = wqCurSize[seek[c]] + 1]
    BY <1>5 DEF Put
  <2>2. nFree' \in [Core -> Int] /\ wqCurSize' \in [Core -> Int]
    BY <2>1
  <2> QED
    BY <1>5, <2>2 DEF Put
<1>6. ASSUME NEW c \in Core, Enqueue(c) PROVE Flat'
  BY <1>6 DEF Enqueue
<1>7. ASSUME NEW c \in Core, DoItself(c) PROVE Flat'
  BY SMTT(30), <1>7 DEF DoItself, DoneWork, Released
<1>8. ASSUME NEW c \in Core, EndBucket(c) PROVE Flat'
  BY <1>8 DEF EndBucket, Released
<1>9. ASSUME NEW c \in Core, EndWalk(c) PROVE Flat'
  BY <1>9 DEF EndWalk
<1>10. ASSUME NEW c \in Core, DoSomeWork(c) PROVE Flat'
  <2>1. rc' \in [Core -> BOOLEAN] /\ doing' \in {[doing EXCEPT ![c] = "own"], [doing EXCEPT ![c] = "work"]}
    BY <1>10 DEF DoSomeWork
  <2>2. UNCHANGED <<nBuckets, nFree, wqCurSize, wqAccepting, wqLastHelper, walk, nRung>>
    BY <1>10 DEF DoSomeWork
  <2> QED
    BY <2>1, <2>2
<1>11. ASSUME NEW c \in Core, Work(c) PROVE Flat'
  BY <1>11 DEF Work
<1>12. ASSUME NEW c \in Core, ReQueue(c) PROVE Flat'
  BY SMTT(30), <1>12 DEF ReQueue, DoneWork, Released
<1>13. ASSUME NEW c \in Core, SendBack(c) PROVE Flat'
  BY <1>13 DEF SendBack
<1>14. ASSUME NEW c \in Core, Collect(c) PROVE Flat'
  BY SMTT(30), <1>14 DEF Collect, DoneWork, Released
<1>15. ASSUME NEW c \in Core, DidSomeWork(c) PROVE Flat'
  BY <1>15 DEF DidSomeWork
<1>16. ASSUME NEW c \in Core, FinishCache(c) PROVE Flat'
  BY <1>16 DEF FinishCache
<1>17. ASSUME NEW c \in Core, PassBarrier(c) PROVE Flat'
  <2>1. CASE barriers[c] < 3
    <3>1. barriers[c] + 1 \in 0..3
      BY <2>1
    <3> QED
      BY <1>17, <2>1, <3>1 DEF PassBarrier
  <2>2. CASE ~(barriers[c] < 3)
    BY <1>17, <2>2 DEF PassBarrier
  <2> QED
    BY <2>1, <2>2
<1>18. ASSUME NEW c \in Core, Report(c) PROVE Flat'
  BY <1>18 DEF Report
<1>19. CASE Idle \/ UNCHANGED vars
  BY <1>19 DEF Idle, vars
<1> QED
  BY <1>1, <1>2, <1>3, <1>4, <1>5, <1>6, <1>7, <1>8, <1>9, <1>10, <1>11, <1>12, <1>13, <1>14, <1>15, <1>16, <1>17,
     <1>18, <1>19 DEF Next, CoreStep

LEMMA ItemParts ==
  ASSUME NEW x \in Item
  PROVE  x.iCoreOwner \in Core /\ x.bucket \in Bucket /\ x.tile \in 1..Tiles /\ x # None
BY CoreFinite DEF Item, None, Core, Bucket

\* What a core has at hand while it hands out a tile
LEMMA HereIsItem ==
  ASSUME Flat, Located, NEW c \in Core, at[c] \in InHand
  PROVE  /\ Here(c) \in Item
         /\ Here(c).iCoreOwner = c /\ Here(c).bucket = bucket[c] /\ Here(c).tile = tile[c]
<1>1. bucket[c] \in 1..MaxBuckets /\ tile[c] \in 1..Tiles
  BY CoreFinite DEF Flat, Located, Inside
<1> QED
  BY <1>1 DEF Here, Item, Bucket

\* One reference of a bucket more or less
LEMMA RefsTypes ==
  ASSUME Deep, NEW c \in Core, NEW b \in Bucket, NEW n \in Int, 
         nRefs' = [nRefs EXCEPT ![c] = [nRefs[c] EXCEPT ![b] = n]]
  PROVE  /\ nRefs' \in [Core -> [Bucket -> Int]]
         /\ nRefs'[c][b] = n
         /\ \A d \in Core, e \in Bucket : d # c \/ e # b => nRefs'[d][e] = nRefs[d][e]
BY DEF Deep

\* An item that is done is added to the forces of its bucket, and released.
LEMMA DoneTypes ==
  ASSUME Deep, NEW c \in Core, NEW x \in Item, DoneWork(c, x)
  PROVE  /\ added' \in [Core -> [Bucket -> Seq(1..Tiles)]]
         /\ added'[c][x.bucket] = Append(added[c][x.bucket], x.tile)
         /\ \A d \in Core, e \in Bucket : d # c \/ e # x.bucket => added'[d][e] = added[d][e]
         /\ nRefs' \in [Core -> [Bucket -> Int]]
         /\ nRefs'[c][x.bucket] = nRefs[c][x.bucket] - 1
         /\ \A d \in Core, e \in Bucket : d # c \/ e # x.bucket => nRefs'[d][e] = nRefs[d][e]
<1>1. x.bucket \in Bucket /\ x.tile \in 1..Tiles
  BY ItemParts
<1> DEFINE b == x.bucket
           more == Append(added[c][b], x.tile)
<1>2. added[c][b] \in Seq(1..Tiles) /\ nRefs[c][b] \in Int
  BY <1>1 DEF Deep
<1>3. more \in Seq(1..Tiles)
  BY <1>1, <1>2
<1>4. added' = [added EXCEPT ![c] = [added[c] EXCEPT ![b] = more]]
  BY DEF DoneWork
<1>5. nRefs' = [nRefs EXCEPT ![c] = [nRefs[c] EXCEPT ![b] = nRefs[c][b] - 1]]
  BY DEF DoneWork, Released
<1>6. added \in [Core -> [Bucket -> Seq(1..Tiles)]]
  BY DEF Deep
<1> HIDE DEF more, b
<1>7. /\ added' \in [Core -> [Bucket -> Seq(1..Tiles)]] /\ added'[c][b] = more
      /\ \A d \in Core, e \in Bucket : d # c \/ e # b => added'[d][e] = added[d][e]
  BY <1>1, <1>3, <1>4, <1>6 DEF b
<1>8. b \in Bucket /\ nRefs[c][b] - 1 \in Int
  BY <1>1, <1>2 DEF b
<1>9. /\ nRefs' \in [Core -> [Bucket -> Int]] /\ nRefs'[c][b] = nRefs[c][b] - 1
      /\ \A d \in Core, e \in Bucket : d # c \/ e # b => nRefs'[d][e] = nRefs[d][e]
  <2>1. PICK n \in Int : n = nRefs[c][b] - 1
    BY <1>8
  <2>2. nRefs' = [nRefs EXCEPT ![c] = [nRefs[c] EXCEPT ![b] = n]]
    BY <1>5, <2>1
  <2>3. nRefs' \in [Core -> [Bucket -> Int]]
    BY <1>8, <2>2, RefsTypes
  <2>4. nRefs'[c][b] = n
    BY <1>8, <2>2, RefsTypes
  <2>5. ASSUME NEW d \in Core, NEW e \in Bucket, d # c \/ e # b PROVE nRefs'[d][e] = nRefs[d][e]
    BY <1>8, <2>2, <2>5, RefsTypes
  <2> QED
    BY <2>1, <2>3, <2>4, <2>5
<1> QED
  BY <1>7, <1>9 DEF b, more

\* The next item of a queue, and what is left of it
LEMMA HeadOfQueue ==
  ASSUME NEW S, NEW q \in Seq(S), q # <<>>
  PROVE  /\ Head(q) \in S /\ Tail(q) \in Seq(S) /\ Len(Tail(q)) = Len(q) - 1
         /\ DOMAIN q = 1..Len(q) /\ DOMAIN Tail(q) = 1..(Len(q) - 1) /\ Len(q) \in Nat \ {0}
         /\ Head(q) = q[1] /\ \A i \in DOMAIN Tail(q) : i + 1 \in DOMAIN q /\ Tail(q)[i] = q[i + 1]
OBVIOUS

\* A queue with one item more or less
LEMMA OneQueueChanged ==
  ASSUME NEW Q \in [Core -> Seq(Item)], NEW c \in Core, NEW q \in Seq(Item)
  PROVE  [Q EXCEPT ![c] = q] \in [Core -> Seq(Item)]
OBVIOUS

LEMMA DeepStep == Flat /\ Deep /\ Located /\ [Next]_vars => Deep'
<1> SUFFICES ASSUME Flat, Deep, Located, [Next]_vars PROVE Deep'
  OBVIOUS
<1>0. /\ wq \in [Core -> Seq(Item)] /\ wqDone \in [Core -> Seq(Item)] /\ hand \in [Core -> Item \cup {None}]
      /\ nRefs \in [Core -> [Bucket -> Int]] /\ added \in [Core -> [Bucket -> Seq(1..Tiles)]]
  BY DEF Deep
<1>a. ASSUME NEW c \in Core, at[c] \in Inside PROVE bucket[c] \in Bucket
  BY <1>a, CoreFinite DEF Located, Flat, Bucket
<1>1. ASSUME NEW c \in Core, StartBucket(c) PROVE Deep'
  <2> DEFINE b == bucket[c] + 1
             n == 1
  <2>1. b \in Bucket /\ n \in Int
    BY <1>1, CoreFinite DEF StartBucket, Start, Flat, Bucket
  <2>2. nRefs' = [nRefs EXCEPT ![c] = [nRefs[c] EXCEPT ![b] = n]]
    BY <1>1 DEF StartBucket, Start
  <2> HIDE DEF b, n
  <2>3. nRefs' \in [Core -> [Bucket -> Int]]
    BY <2>1, <2>2, RefsTypes
  <2>4. UNCHANGED <<wq, wqDone, hand, added>>
    BY <1>1 DEF StartBucket, Start
  <2> QED
    BY <1>0, <2>3, <2>4 DEF Deep
<1>2. ASSUME NEW c \in Core, NextTile(c) PROVE Deep'
  <2> DEFINE b == bucket[c]
             n == nRefs[c][b] + 1
  <2>1. b \in Bucket /\ n \in Int
    BY <1>2, <1>a, <1>0 DEF NextTile, Inside
  <2>2. nRefs' = [nRefs EXCEPT ![c] = [nRefs[c] EXCEPT ![b] = n]]
    BY <1>2 DEF NextTile
  <2> HIDE DEF b, n
  <2>3. nRefs' \in [Core -> [Bucket -> Int]]
    BY <2>1, <2>2, RefsTypes
  <2>4. UNCHANGED <<wq, wqDone, hand, added>>
    BY <1>2 DEF NextTile
  <2> QED
    BY <1>0, <2>3, <2>4 DEF Deep
<1>3. ASSUME NEW c \in Core, AddWork(c) \/ SeekHelper(c) \/ Put(c) \/ EndWalk(c) PROVE Deep'
  <2>1. UNCHANGED <<wq, wqDone, hand, added, nRefs>>
    BY <1>3 DEF AddWork, Add, SeekHelper, Put, EndWalk, forces
  <2> QED
    BY <1>0, <2>1 DEF Deep
<1>4. ASSUME NEW c \in Core, Work(c) \/ DidSomeWork(c) \/ FinishCache(c) \/ PassBarrier(c) \/ Report(c) PROVE Deep'
  <2>1. UNCHANGED <<wq, wqDone, hand, added, nRefs>>
    BY <1>4 DEF Work, DidSomeWork, FinishCache, PassBarrier, Report, forces
  <2> QED
    BY <1>0, <2>1 DEF Deep
<1>5. ASSUME NEW c \in Core, Enqueue(c) PROVE Deep'
  <2>1. seek[c] \in Core /\ Here(c) \in Item
    BY <1>5, HereIsItem DEF Enqueue, InHand, Flat
  <2>2. Append(wq[seek[c]], Here(c)) \in Seq(Item)
    BY <1>0, <2>1
  <2>3. wq' = [wq EXCEPT ![seek[c]] = Append(wq[seek[c]], Here(c))] /\ UNCHANGED <<wqDone, hand, added, nRefs>>
    BY <1>5 DEF Enqueue, forces
  <2> QED
    BY <1>0, <2>1, <2>2, <2>3, OneQueueChanged DEF Deep
<1>6. ASSUME NEW c \in Core, DoItself(c) PROVE Deep'
  <2>1. Here(c) \in Item
    BY <1>6, HereIsItem DEF DoItself, InHand
  <2>2. DoneWork(c, Here(c)) /\ UNCHANGED <<wq, wqDone, hand>>
    BY <1>6 DEF DoItself
  <2> QED
    BY <1>0, <2>1, <2>2, DoneTypes DEF Deep
<1>7. ASSUME NEW c \in Core, EndBucket(c) PROVE Deep'
  <2> DEFINE b == bucket[c]
             n == nRefs[c][b] - 1
  <2>1. b \in Bucket /\ n \in Int
    BY <1>7, <1>a, <1>0 DEF EndBucket, Inside
  <2>2. nRefs' = [nRefs EXCEPT ![c] = [nRefs[c] EXCEPT ![b] = n]]
    BY <1>7 DEF EndBucket, Released
  <2> HIDE DEF b, n
  <2>3. nRefs' \in [Core -> [Bucket -> Int]]
    BY <2>1, <2>2, RefsTypes
  <2>4. UNCHANGED <<wq, wqDone, hand, added>>
    BY <1>7 DEF EndBucket
  <2> QED
    BY <1>0, <2>3, <2>4 DEF Deep
<1>8. ASSUME NEW c \in Core, DoSomeWork(c) PROVE Deep'
  <2>1. UNCHANGED <<wqDone, nRefs, added>>
    BY <1>8 DEF DoSomeWork, forces
  <2>2. CASE wq[c] = <<>>
    BY <1>0, <1>8, <2>1, <2>2 DEF DoSomeWork, Deep
  <2>3. CASE wq[c] # <<>>
    <3>1. Head(wq[c]) \in Item /\ Tail(wq[c]) \in Seq(Item)
      BY <1>0, <2>3, HeadOfQueue
    <3>2. wq' = [wq EXCEPT ![c] = Tail(wq[c])] /\ hand' = [hand EXCEPT ![c] = Head(wq[c])]
      BY <1>8, <2>3 DEF DoSomeWork
    <3> QED
      BY <1>0, <2>1, <3>1, <3>2, OneQueueChanged DEF Deep
  <2> QED
    BY <2>2, <2>3
<1>9. ASSUME NEW c \in Core, ReQueue(c) PROVE Deep'
  <2>1. hand[c] \in Item
    BY <1>0, <1>9 DEF ReQueue, Located
  <2>2. DoneWork(c, hand[c]) /\ hand' = [hand EXCEPT ![c] = None] /\ UNCHANGED <<wq, wqDone>>
    BY <1>9 DEF ReQueue
  <2> QED
    BY <1>0, <2>1, <2>2, DoneTypes DEF Deep
<1>10. ASSUME NEW c \in Core, SendBack(c) PROVE Deep'
  <2>1. hand[c] \in Item /\ hand[c].iCoreOwner \in Core
    BY <1>0, <1>10, ItemParts DEF SendBack, Located
  <2> DEFINE o == hand[c].iCoreOwner
  <2>2. Append(wqDone[o], hand[c]) \in Seq(Item)
    BY <1>0, <2>1
  <2>3. /\ wqDone' = [wqDone EXCEPT ![o] = Append(wqDone[o], hand[c])]
        /\ hand' = [hand EXCEPT ![c] = None] /\ UNCHANGED <<wq, added, nRefs>>
    BY <1>10 DEF SendBack, forces
  <2> QED
    BY <1>0, <2>1, <2>2, <2>3, OneQueueChanged DEF Deep
<1>11. ASSUME NEW c \in Core, Collect(c) PROVE Deep'
  <2>1. Head(wqDone[c]) \in Item /\ Tail(wqDone[c]) \in Seq(Item)
    BY <1>0, <1>11, HeadOfQueue DEF Collect
  <2>2. /\ DoneWork(c, Head(wqDone[c])) /\ wqDone' = [wqDone EXCEPT ![c] = Tail(wqDone[c])]
        /\ UNCHANGED <<wq, hand>>
    BY <1>11 DEF Collect
  <2> QED
    BY <1>0, <2>1, <2>2, DoneTypes, OneQueueChanged DEF Deep
<1>12. CASE Idle \/ UNCHANGED vars
  BY <1>0, <1>12 DEF Idle, vars, forces, Deep
<1> QED
  BY <1>1, <1>2, <1>3, <1>4, <1>5, <1>6, <1>7, <1>8, <1>9, <1>10, <1>11, <1>12 DEF Next, CoreStep

\* A core is where its barriers say, and has an item at hand when it works on one.
LEMMA LocatedStep == Flat /\ Deep /\ Located /\ [Next]_vars => Located'
<1> SUFFICES ASSUME Flat, Deep, Located, [Next]_vars PROVE Located'
  OBVIOUS
<1>0. \A c \in Core : barriers[c] + 1 # 0 /\ (barriers[c] < 3 \/ barriers[c] = 3)
  BY DEF Flat
<1> USE DEF Inside, InHand, Walking, sizes, walk, GoTo, Flat, Deep, Located
<1>1. ASSUME NEW c \in Core, StartBucket(c) PROVE Located'
  BY <1>1 DEF StartBucket, Start
<1>2. ASSUME NEW c \in Core, NextTile(c) PROVE Located'
  BY <1>2 DEF NextTile
<1>3. ASSUME NEW c \in Core, AddWork(c) PROVE Located'
  BY <1>3 DEF AddWork, Add
<1>4. ASSUME NEW c \in Core, SeekHelper(c) PROVE Located'
  <2>1. /\ at' \in {[at EXCEPT ![c] = where] : where \in {"put", "self", "scan"}} /\ at[c] = "scan"
        /\ UNCHANGED <<wqAccepting, barriers, bucket, tile, doing, hand>>
    BY <1>4 DEF SeekHelper
  <2> QED
    BY SMTT(30), <2>1
<1>5. ASSUME NEW c \in Core, Put(c) PROVE Located'
  BY <1>5 DEF Put
<1>6. ASSUME NEW c \in Core, Enqueue(c) PROVE Located'
  BY <1>6 DEF Enqueue
<1>7. ASSUME NEW c \in Core, DoItself(c) PROVE Located'
  BY <1>7 DEF DoItself
<1>8. ASSUME NEW c \in Core, EndBucket(c) PROVE Located'
  BY <1>8 DEF EndBucket
<1>9. ASSUME NEW c \in Core, EndWalk(c) PROVE Located'
  BY <1>9 DEF EndWalk
<1>10. ASSUME NEW c \in Core, DoSomeWork(c) PROVE Located'
  <2>1. wq[c] # <<>> => Head(wq[c]) # None
    BY HeadOfQueue, ItemParts DEF Deep
  <2> QED
    BY SMTT(30), <1>10, <2>1 DEF DoSomeWork
<1>11. ASSUME NEW c \in Core, Work(c) PROVE Located'
  BY <1>11 DEF Work
<1>12. ASSUME NEW c \in Core, ReQueue(c) PROVE Located'
  BY <1>12 DEF ReQueue
<1>13. ASSUME NEW c \in Core, SendBack(c) PROVE Located'
  BY <1>13 DEF SendBack
<1>14. ASSUME NEW c \in Core, Collect(c) PROVE Located'
  BY <1>14 DEF Collect
<1>15. ASSUME NEW c \in Core, DidSomeWork(c) PROVE Located'
  BY SMTT(30), <1>15 DEF DidSomeWork
<1>16. ASSUME NEW c \in Core, FinishCache(c) PROVE Located'
  BY <1>16 DEF FinishCache
<1>17. ASSUME NEW c \in Core, PassBarrier(c) PROVE Located'
  <2>1. CASE barriers[c] < 3
    <3>1. /\ barriers' = [barriers EXCEPT ![c] = barriers[c] + 1] /\ at[c] = "barrier"
          /\ UNCHANGED <<at, wqAccepting, bucket, tile, doing, hand>>
      BY <1>17, <2>1 DEF PassBarrier
    <3>2. barriers[c] + 1 # 0
      BY <1>0
    <3> QED
      BY <3>1, <3>2
  <2>2. CASE ~(barriers[c] < 3)
    <3>1. /\ at' = [at EXCEPT ![c] = "report"] /\ wqAccepting' = [wqAccepting EXCEPT ![c] = FALSE]
          /\ at[c] = "barrier" /\ UNCHANGED <<barriers, bucket, tile, doing, hand>>
      BY <1>17, <2>2 DEF PassBarrier
    <3>2. barriers[c] = 3
      BY <1>0, <2>2
    <3> QED
      BY <3>1, <3>2
  <2> QED
    BY <2>1, <2>2
<1>18. ASSUME NEW c \in Core, Report(c) PROVE Located'
  BY <1>18 DEF Report
<1>19. CASE Idle \/ UNCHANGED vars
  BY <1>19 DEF Idle, vars
<1> QED
  BY <1>1, <1>2, <1>3, <1>4, <1>5, <1>6, <1>7, <1>8, <1>9, <1>10, <1>11, <1>12, <1>13, <1>14, <1>15, <1>16, <1>17,
     <1>18, <1>19 DEF Next, CoreStep

------------------------------------------------------------------------------
(* PlacesHold *)

\* No core leaves the barrier while another is in its walk.
LEMMA GatesStep == Flat /\ Located /\ Gates /\ [Next]_vars => Gates'
<1> SUFFICES ASSUME Flat, Located, Gates, [Next]_vars PROVE Gates'
  OBVIOUS
<1> USE DEF sizes, walk, GoTo
<1>1. /\ at \in [Core -> Walking \cup {"barrier", "report", "idle"}]
      /\ seek \in [Core -> Core] /\ barriers \in [Core -> 0..3]
  BY DEF Flat
<1>2. \A c \in Core : at[c] \in {"put", "enqueue"} => barriers[c] = 0
  BY DEF Located, Walking, Inside, InHand
<1>3. \A c \in Core : at[c] = "barrier" => barriers[c] > 0
  BY <1>1 DEF Located, Walking, Inside, InHand
\* Most steps: a core stays on its side of the barrier, and does not come to put an item.
<1>4. ASSUME NEW c \in Core, NEW where, at' = [at EXCEPT ![c] = where], at[c] # "barrier", barriers' = barriers,
             where \in {"put", "enqueue"} /\ seek'[c] # c => at[seek'[c]] = "barrier",
             seek' \in [Core -> Core], \A d \in Core : d # c => seek'[d] = seek[d]
      PROVE  Gates'
  BY <1>1, <1>4 DEF Gates
<1>5. ASSUME UNCHANGED <<at, seek, barriers>> PROVE Gates'
  BY <1>5 DEF Gates
<1>6. ASSUME NEW c \in Core,
             StartBucket(c) \/ NextTile(c) \/ Put(c) \/ Enqueue(c) \/ DoItself(c) \/ EndBucket(c) \/ EndWalk(c)
      PROVE  Gates'
  <2>1. PICK where \in Walking :
          /\ at' = [at EXCEPT ![c] = where] /\ at[c] # "barrier"
          /\ where \in {"put", "enqueue"} => at[c] = "put"
    BY <1>6 DEF StartBucket, Start, NextTile, Put, Enqueue, DoItself, EndBucket, EndWalk, Walking, Inside, InHand
  <2>2. UNCHANGED <<seek, barriers>>
    BY <1>6 DEF StartBucket, Start, NextTile, Put, Enqueue, DoItself, EndBucket, EndWalk
  <2>3. where \in {"put", "enqueue"} /\ seek[c] # c => at[seek[c]] = "barrier"
    BY <2>1 DEF Gates
  <2> QED
    BY <1>1, <1>4, <2>1, <2>2, <2>3
<1>7. ASSUME NEW c \in Core, AddWork(c) PROVE Gates'
  <2>1. CASE nFree[c] = 0 \/ wqCurSize[c] >= wqMaxSize
    <3>1. PICK where \in {"self", "scan"} : at' = [at EXCEPT ![c] = where]
      BY <1>7, <2>1 DEF AddWork, Add
    <3>2. seek' \in [Core -> Core] /\ (\A d \in Core : d # c => seek'[d] = seek[d]) /\ barriers' = barriers /\ at[c] = "add"
      BY <1>7, <1>1 DEF AddWork, Add, Flat
    <3> QED
      BY <1>4, <3>1, <3>2
  <2>2. CASE ~(nFree[c] = 0 \/ wqCurSize[c] >= wqMaxSize)
    <3>1. at' = [at EXCEPT ![c] = "put"] /\ seek' = [seek EXCEPT ![c] = c] /\ barriers' = barriers /\ at[c] = "add"
      BY <1>7, <2>2 DEF AddWork, Add
    <3> QED
      BY <1>1, <1>4, <3>1
  <2> QED
    BY <2>1, <2>2
<1>8. ASSUME NEW c \in Core, SeekHelper(c) PROVE Gates'
  <2>0. at[c] = "scan" /\ barriers' = barriers
    BY <1>8 DEF SeekHelper
  <2>1. CASE HasRoom(seek[c])
    <3>1. at' = [at EXCEPT ![c] = "put"] /\ seek' = seek
      BY <1>8, <2>1 DEF SeekHelper
    <3>2. at[seek[c]] = "barrier"
      BY <1>1, <2>1 DEF HasRoom, Located
    <3> QED
      BY <1>1, <1>4, <2>0, <3>1, <3>2
  <2>2. CASE ~HasRoom(seek[c])
    <3>1. PICK where \in {"self", "scan"} : at' = [at EXCEPT ![c] = where]
      BY <1>8, <2>2 DEF SeekHelper
    <3>2. (seek[c] + 1) % Cores \in Core
      BY <1>1, NextCore
    <3>3. seek' = [seek EXCEPT ![c] = (seek[c] + 1) % Cores]
      BY <1>8, <2>2 DEF SeekHelper
    <3>4. seek' \in [Core -> Core] /\ \A d \in Core : d # c => seek'[d] = seek[d]
      BY <1>1, <3>2, <3>3
    <3> QED
      BY <1>4, <2>0, <3>1, <3>4
  <2> QED
    BY <2>1, <2>2
<1>9. ASSUME NEW c \in Core, DoSomeWork(c) \/ Work(c) \/ ReQueue(c) \/ SendBack(c) \/ Collect(c) PROVE Gates'
  <2>1. UNCHANGED <<at, seek, barriers>>
    BY <1>9 DEF DoSomeWork, Work, ReQueue, SendBack, Collect
  <2> QED
    BY <1>5, <2>1
<1>10. ASSUME NEW c \in Core, DidSomeWork(c) PROVE Gates'
  <2>0. UNCHANGED <<seek, barriers>>
    BY <1>10 DEF DidSomeWork
  <2>1. CASE at[c] = "complete" /\ ~rc[c]
    <3>1. at' = [at EXCEPT ![c] = "finish"]
      BY <1>10, <2>1 DEF DidSomeWork
    <3> QED
      BY <1>1, <1>4, <2>0, <2>1, <3>1
  <2>2. CASE ~(at[c] = "complete" /\ ~rc[c])
    <3>1. at' = at
      BY <1>1, <1>10, <2>2 DEF DidSomeWork
    <3> QED
      BY <1>5, <2>0, <3>1
  <2> QED
    BY <2>1, <2>2
<1>11. ASSUME NEW c \in Core, FinishCache(c) PROVE Gates'
  BY <1>1, <1>11 DEF FinishCache, Gates
<1>12. ASSUME NEW c \in Core, PassBarrier(c) PROVE Gates'
  <2>1. at[c] = "barrier" /\ AllCame(c) /\ seek' = seek
    BY <1>12 DEF PassBarrier
  <2>2. \A d \in Core : barriers[d] > 0
    <3>1. \A d \in Core : barriers[d] >= barriers[c]
      BY <2>1 DEF AllCame
    <3> QED
      BY <1>1, <1>3, <2>1, <3>1
  <2>3. \A d \in Core : barriers'[d] > 0
    BY <1>1, <1>12, <2>2 DEF PassBarrier
  <2>4. \A d \in Core : at'[d] \notin {"put", "enqueue"}
    BY <1>1, <1>2, <1>12, <2>2 DEF PassBarrier
  <2> QED
    BY <2>3, <2>4 DEF Gates
<1>13. ASSUME NEW c \in Core, Report(c) PROVE Gates'
  <2>1. at' = [at EXCEPT ![c] = "idle"] /\ at[c] = "report" /\ UNCHANGED <<seek, barriers>>
    BY <1>13 DEF Report
  <2> QED
    BY <1>1, <1>4, <2>1
<1>14. CASE Idle \/ UNCHANGED vars
  BY <1>5, <1>14 DEF Idle, vars
<1> QED
  BY <1>6, <1>7, <1>8, <1>9, <1>10, <1>11, <1>12, <1>13, <1>14 DEF Next, CoreStep

\* The room of a queue is that for its own core and, with more than one, for each of the others.
LEMMA RoomIs == Room \in Int /\ Room >= wqMaxSize /\ Room >= wqMaxSize + (Cores - 2)
<1> DEFINE S == {0, Cores - 2}
<1>1. Cores - 2 \in Int /\ wqMaxSize \in Int
  BY CoreFinite
<1>2. \E x \in S : \A y \in S : x >= y
  <2>1. CASE Cores - 2 >= 0
    <3>1. Cores - 2 \in S /\ \A y \in S : Cores - 2 >= y
      BY <1>1, <2>1, CoreFinite
    <3> QED
      BY <3>1
  <2>2. CASE ~(Cores - 2 >= 0)
    BY <1>1, <2>2
  <2> QED
    BY <2>1, <2>2
<1>3. Max(S) \in S /\ \A y \in S : Max(S) >= y
  BY <1>2 DEF Max
<1> HIDE DEF S
<1>4. Max(S) \in Int /\ Max(S) >= 0 /\ Max(S) >= Cores - 2
  BY <1>1, <1>3 DEF S
<1> QED
  BY <1>1, <1>4 DEF Room, S

LEMMA PuttersFinite ==
  \A c \in Core : /\ IsFiniteSet(Putters(c)) /\ Cardinality(Putters(c)) \in Nat
                  /\ IsFiniteSet(Enqueuers(c)) /\ Cardinality(Enqueuers(c)) \in Nat
<1> SUFFICES ASSUME NEW c \in Core
             PROVE  /\ IsFiniteSet(Putters(c)) /\ Cardinality(Putters(c)) \in Nat
                    /\ IsFiniteSet(Enqueuers(c)) /\ Cardinality(Enqueuers(c)) \in Nat
  OBVIOUS
<1>1. Putters(c) \in SUBSET Core /\ Enqueuers(c) \in SUBSET Core
  BY DEF Putters, Enqueuers
<1> QED
  BY <1>1, CoreFinite, FS_Subset, FS_CardinalityType

LEMMA LenWq == Deep => \A c \in Core : Len(wq[c]) \in Nat
BY DEF Deep

\* The other items in a queue when a core looks for room in its own: there are none on the way.
LEMMA NobodyElse ==
  ASSUME Gates, NEW c \in Core, at[c] \notin {"barrier", "put"}
  PROVE  Putters(c) = {}
BY DEF Gates, Putters

\* Steps that put nothing in a queue, and take nothing from it
LEMMA SizesSame ==
  ASSUME Sizes, UNCHANGED <<wq, wqCurSize>>,
         \A d \in Core : /\ doing'[d] = "work" <=> doing[d] = "work"
                         /\ at'[d] = "put" <=> at[d] = "put"
                         /\ at'[d] = "enqueue" <=> at[d] = "enqueue"
                         /\ at[d] \in {"put", "enqueue"} => seek'[d] = seek[d]
  PROVE  Sizes'
<1>1. \A c \in Core : Putters(c)' = Putters(c) /\ Enqueuers(c)' = Enqueuers(c)
  BY DEF Putters, Enqueuers
<1> QED
  BY <1>1 DEF Sizes, SizeOf, Room

\* A core has seen room in queue s, which is its own or that of a core that waits.
LEMMA SizesSeen ==
  ASSUME Deep, Sizes, UNCHANGED <<wq, wqCurSize, doing>>, NEW c \in Core, NEW s \in Core,
         at' = [at EXCEPT ![c] = "put"], at \in [Core -> Walking \cup {"barrier", "report", "idle"}],
         at[c] \notin {"put", "enqueue", "barrier"}, seek \in [Core -> Core],
         seek'[c] = s, \A d \in Core \ {c} : seek'[d] = seek[d],
         wqCurSize[s] \in Int, wqCurSize[s] < wqMaxSize,
         (s = c /\ Putters(c) = {}) \/ at[s] = "barrier"
  PROVE  Sizes'
<1>1. Putters(s)' = Putters(s) \cup {c} /\ c \notin Putters(s)
  BY DEF Putters
<1>2. \A d \in Core : d # s => Putters(d)' = Putters(d)
  BY DEF Putters
<1>3. \A d \in Core : Enqueuers(d)' = Enqueuers(d)
  BY DEF Enqueuers
<1>4. Cardinality(Putters(s)') = Cardinality(Putters(s)) + 1
  <2>1. Cardinality(Putters(s) \cup {c}) = Cardinality(Putters(s)) + 1
    BY <1>1, PuttersFinite, FS_AddElement
  <2> QED
    BY <1>1, <2>1
<1>5. wqCurSize[s] + Cardinality(Putters(s)') <= Room
  <2>1. CASE Putters(s) = {}
    BY <1>4, <2>1, FS_EmptySet, RoomIs, CoreFinite
  <2>2. CASE at[s] = "barrier"
    <3>1. Putters(s) \cup {c} \in SUBSET (Core \ {s})
      BY <2>2 DEF Putters
    <3>2. IsFiniteSet(Core \ {s}) /\ Cardinality(Core \ {s}) = Cores - 1
      BY CoreFinite, FS_RemoveElement
    <3>3. Cardinality(Putters(s)') <= Cores - 1
      BY <1>1, <3>1, <3>2, FS_Subset
    <3> QED
      BY <1>4, <3>3, PuttersFinite, RoomIs, CoreFinite
  <2> QED
    BY <2>1, <2>2
<1> QED
  BY <1>2, <1>3, <1>5 DEF Sizes, SizeOf, Room

\* A core that has looked raises the size, and then puts its item in; one that takes an item
\* lowers the size after it.
LEMMA SizesStep == Flat /\ Deep /\ Located /\ Gates /\ Sizes /\ [Next]_vars => Sizes'
<1> SUFFICES ASSUME Flat, Deep, Located, Gates, Sizes, [Next]_vars PROVE Sizes'
  OBVIOUS
<1> USE DEF sizes, walk, GoTo
<1>1. /\ at \in [Core -> Walking \cup {"barrier", "report", "idle"}] /\ seek \in [Core -> Core]
      /\ doing \in [Core -> {"no", "work", "done", "own"}] /\ wqCurSize \in [Core -> Int]
  BY DEF Flat
<1>2. wq \in [Core -> Seq(Item)]
  BY DEF Deep
<1>3. ASSUME NEW c \in Core,
             \/ StartBucket(c) \/ NextTile(c) \/ DoItself(c) \/ EndBucket(c) \/ EndWalk(c) \/ FinishCache(c) \/ Report(c)
      PROVE  Sizes'
  <2>1. PICK where : /\ at' = [at EXCEPT ![c] = where] /\ where \notin {"put", "enqueue"}
                     /\ at[c] \notin {"put", "enqueue"}
    BY <1>3 DEF StartBucket, Start, NextTile, DoItself, EndBucket, EndWalk, FinishCache, Report
  <2>2. UNCHANGED <<wq, wqCurSize, seek, doing>>
    BY <1>3 DEF StartBucket, Start, NextTile, DoItself, EndBucket, EndWalk, FinishCache, Report
  <2> QED
    BY <1>1, <2>1, <2>2, SizesSame
<1>4. ASSUME NEW c \in Core, PassBarrier(c) PROVE Sizes'
  <2>1. /\ at[c] = "barrier" /\ at' \in {at, [at EXCEPT ![c] = "report"]}
        /\ UNCHANGED <<wq, wqCurSize, seek, doing>>
    BY <1>4 DEF PassBarrier
  <2> QED
    BY <1>1, <2>1, SizesSame
<1>5. ASSUME NEW c \in Core, ReQueue(c) \/ SendBack(c) \/ Collect(c) PROVE Sizes'
  <2>1. /\ doing[c] # "work" /\ doing' \in {doing, [doing EXCEPT ![c] = "own"]}
        /\ UNCHANGED <<wq, wqCurSize, seek, at>>
    BY <1>5 DEF ReQueue, SendBack, Collect
  <2> QED
    BY <1>1, <2>1, SizesSame
<1>6. ASSUME NEW c \in Core, DidSomeWork(c) PROVE Sizes'
  <2>1. /\ doing[c] = "own" /\ doing' = [doing EXCEPT ![c] = "no"] /\ UNCHANGED <<wq, wqCurSize, seek>>
        /\ at' = [at EXCEPT ![c] = IF at[c] = "complete" /\ ~rc[c] THEN "finish" ELSE at[c]]
    BY <1>6 DEF DidSomeWork
  <2>2. \A d \in Core : /\ at'[d] = "put" <=> at[d] = "put"
                        /\ at'[d] = "enqueue" <=> at[d] = "enqueue"
    BY <1>1, <2>1
  <2>3. \A d \in Core : doing'[d] = "work" <=> doing[d] = "work"
    BY <1>1, <2>1
  <2> QED
    BY <2>1, <2>2, <2>3, SizesSame
<1>7. ASSUME NEW c \in Core, AddWork(c) PROVE Sizes'
  <2>0. at[c] = "add" /\ UNCHANGED <<wq, wqCurSize, doing>>
    BY <1>7 DEF AddWork, Add
  <2>1. CASE nFree[c] = 0 \/ wqCurSize[c] >= wqMaxSize
    <3>1. PICK where \in {"self", "scan"} : at' = [at EXCEPT ![c] = where]
      BY <1>7, <2>1 DEF AddWork, Add
    <3>2. \A d \in Core : d # c => seek'[d] = seek[d]
      BY <1>1, <1>7 DEF AddWork, Add
    <3> QED
      BY <1>1, <2>0, <3>1, <3>2, SizesSame
  <2>2. CASE ~(nFree[c] = 0 \/ wqCurSize[c] >= wqMaxSize)
    <3>1. at' = [at EXCEPT ![c] = "put"] /\ seek' = [seek EXCEPT ![c] = c]
      BY <1>7, <2>2 DEF AddWork, Add
    <3>2. Putters(c) = {}
      BY <2>0, NobodyElse
    <3>3. seek'[c] = c /\ \A d \in Core \ {c} : seek'[d] = seek[d]
      BY <1>1, <3>1
    <3>4. wqCurSize[c] \in Int /\ wqCurSize[c] < wqMaxSize
      BY <1>1, <2>2, CoreFinite
    <3> QED
      BY <1>1, <2>0, <3>1, <3>2, <3>3, <3>4, SizesSeen
  <2> QED
    BY <2>1, <2>2
<1>8. ASSUME NEW c \in Core, SeekHelper(c) PROVE Sizes'
  <2>0. at[c] = "scan" /\ UNCHANGED <<wq, wqCurSize, doing>>
    BY <1>8 DEF SeekHelper
  <2>1. CASE HasRoom(seek[c])
    <3>1. at' = [at EXCEPT ![c] = "put"] /\ seek' = seek
      BY <1>8, <2>1 DEF SeekHelper
    <3>2. seek[c] \in Core /\ at[seek[c]] = "barrier" /\ wqCurSize[seek[c]] \in Int /\ wqCurSize[seek[c]] < wqMaxSize
      BY <1>1, <2>1 DEF HasRoom, Located
    <3> QED
      BY <1>1, <2>0, <3>1, <3>2, SizesSeen
  <2>2. CASE ~HasRoom(seek[c])
    <3>1. PICK where \in {"self", "scan"} : at' = [at EXCEPT ![c] = where]
      BY <1>8, <2>2 DEF SeekHelper
    <3>2. \A d \in Core : d # c => seek'[d] = seek[d]
      BY <1>1, <1>8, <2>2 DEF SeekHelper
    <3> QED
      BY <1>1, <2>0, <3>1, <3>2, SizesSame
  <2> QED
    BY <2>1, <2>2
<1>9. ASSUME NEW c \in Core, Put(c) PROVE Sizes'
  <2>0. PICK s \in Core : s = seek[c]
    BY <1>1
  <2>1. /\ at[c] = "put" /\ at' = [at EXCEPT ![c] = "enqueue"]
        /\ wqCurSize' = [wqCurSize EXCEPT ![s] = wqCurSize[s] + 1] /\ UNCHANGED <<wq, seek, doing>>
    BY <1>1, <1>9, <2>0 DEF Put
  <2>2. c \in Putters(s) /\ c \notin Enqueuers(s) /\ seek[c] = s
    BY <2>0, <2>1 DEF Putters, Enqueuers
  <2>3. Putters(s)' = Putters(s) \ {c} /\ Enqueuers(s)' = Enqueuers(s) \cup {c}
    BY <1>1, <2>1, <2>2 DEF Putters, Enqueuers
  <2>4. \A d \in Core : d # s => Putters(d)' = Putters(d) /\ Enqueuers(d)' = Enqueuers(d)
    BY <1>1, <2>1, <2>2 DEF Putters, Enqueuers
  <2>5. /\ Cardinality(Putters(s) \ {c}) = Cardinality(Putters(s)) - 1
        /\ Cardinality(Enqueuers(s) \cup {c}) = Cardinality(Enqueuers(s)) + 1
    BY <2>1, <2>2, PuttersFinite, FS_AddElement, FS_RemoveElement
  <2>6. SizeOf(s)'
    <3>1. SizeOf(s) /\ Cardinality(Putters(s)) \in Nat /\ Cardinality(Enqueuers(s)) \in Nat /\ Len(wq[s]) \in Nat
      BY PuttersFinite, LenWq DEF Sizes
    <3>2. wqCurSize'[s] = wqCurSize[s] + 1 /\ wqCurSize[s] \in Int
      BY <1>1, <2>1
    <3>3. /\ Cardinality(Putters(s))' = Cardinality(Putters(s)) - 1
          /\ Cardinality(Enqueuers(s))' = Cardinality(Enqueuers(s)) + 1 /\ Room' = Room
      BY <2>3, <2>5 DEF Room
    <3> QED
      <4>1. wq'[s] = wq[s] /\ doing'[s] = doing[s]
        BY <2>1
      <4>2. PICK i \in {0, 1} : i = (IF doing[s] = "work" THEN 1 ELSE 0)
        OBVIOUS
      <4>3. wqCurSize[s] = Len(wq[s]) + Cardinality(Enqueuers(s)) + i /\ wqCurSize[s] + Cardinality(Putters(s)) <= Room
        BY <3>1, <4>2 DEF SizeOf
      <4>4. /\ wqCurSize'[s] = Len(wq[s]) + Cardinality(Enqueuers(s))' + i
            /\ wqCurSize'[s] + Cardinality(Putters(s))' <= Room'
        <5>1. PICK n, l, e, p, r \in Int : /\ n = wqCurSize[s] /\ l = Len(wq[s]) /\ e = Cardinality(Enqueuers(s))
                                          /\ p = Cardinality(Putters(s)) /\ r = Room
          BY <3>1, <3>2, RoomIs
        <5>2. n = l + e + i /\ n + p <= r
          BY <4>3, <5>1
        <5>3. n + 1 = l + (e + 1) + i /\ (n + 1) + (p - 1) <= r
          BY <5>2
        <5> QED
          BY <3>2, <3>3, <5>1, <5>3
      <4> QED
        BY <4>1, <4>2, <4>4 DEF SizeOf
  <2>7. ASSUME NEW d \in Core, d # s PROVE SizeOf(d)'
    BY <1>1, <2>1, <2>4, <2>7 DEF Sizes, SizeOf, Room
  <2> QED
    BY <2>6, <2>7 DEF Sizes
<1>10. ASSUME NEW c \in Core, Enqueue(c) PROVE Sizes'
  <2>0. PICK s \in Core : s = seek[c]
    BY <1>1
  <2>1. /\ at[c] = "enqueue" /\ at' = [at EXCEPT ![c] = "queue"]
        /\ wq' = [wq EXCEPT ![s] = Append(wq[s], Here(c))] /\ UNCHANGED <<wqCurSize, seek, doing>>
    BY <1>1, <1>10, <2>0 DEF Enqueue
  <2>2. Here(c) \in Item
    BY <1>10, HereIsItem DEF Enqueue, InHand
  <2>3. Len(wq'[s]) = Len(wq[s]) + 1 /\ \A d \in Core : d # s => wq'[d] = wq[d]
    BY <1>2, <2>1, <2>2
  <2>4. c \in Enqueuers(s) /\ c \notin Putters(s) /\ seek[c] = s
    BY <2>0, <2>1 DEF Putters, Enqueuers
  <2>5. Enqueuers(s)' = Enqueuers(s) \ {c}
    BY <1>1, <2>1, <2>4 DEF Enqueuers
  <2>6. \A d \in Core : Putters(d)' = Putters(d) /\ (d # s => Enqueuers(d)' = Enqueuers(d))
    BY <1>1, <2>1, <2>4 DEF Putters, Enqueuers
  <2>7. Cardinality(Enqueuers(s) \ {c}) = Cardinality(Enqueuers(s)) - 1
    BY <2>1, <2>4, PuttersFinite, FS_RemoveElement
  <2>8. SizeOf(s)'
    <3>1. SizeOf(s) /\ Cardinality(Putters(s)) \in Nat /\ Cardinality(Enqueuers(s)) \in Nat /\ Len(wq[s]) \in Nat
      BY PuttersFinite, LenWq DEF Sizes
    <3> QED
      BY <1>1, <2>1, <2>3, <2>5, <2>6, <2>7, <3>1 DEF SizeOf, Room
  <2>9. ASSUME NEW d \in Core, d # s PROVE SizeOf(d)'
    BY <2>1, <2>3, <2>6, <2>9 DEF Sizes, SizeOf, Room
  <2> QED
    BY <2>8, <2>9 DEF Sizes
<1>11. ASSUME NEW c \in Core, DoSomeWork(c) PROVE Sizes'
  <2>0. doing[c] = "no" /\ UNCHANGED <<wqCurSize, at, seek>>
    BY <1>11 DEF DoSomeWork
  <2>1. CASE wq[c] = <<>>
    <3>1. doing' = [doing EXCEPT ![c] = "own"] /\ wq' = wq
      BY <1>11, <2>1 DEF DoSomeWork
    <3> QED
      BY <1>1, <2>0, <3>1, SizesSame
  <2>2. CASE wq[c] # <<>>
    <3>1. doing' = [doing EXCEPT ![c] = "work"] /\ wq' = [wq EXCEPT ![c] = Tail(wq[c])]
      BY <1>11, <2>2 DEF DoSomeWork
    <3>2. Len(Tail(wq[c])) = Len(wq[c]) - 1 /\ Len(wq[c]) \in Nat
      BY <1>2, <2>2, HeadOfQueue
    <3>3. \A d \in Core : Putters(d)' = Putters(d) /\ Enqueuers(d)' = Enqueuers(d)
      BY <2>0 DEF Putters, Enqueuers
    <3>4. SizeOf(c)'
      <4>1. SizeOf(c) /\ Cardinality(Putters(c)) \in Nat /\ Cardinality(Enqueuers(c)) \in Nat
        BY PuttersFinite DEF Sizes
      <4>2. Len(wq'[c]) = Len(wq[c]) - 1 /\ doing'[c] = "work"
        BY <1>1, <1>2, <3>1, <3>2
      <4> QED
        BY <2>0, <3>2, <3>3, <4>1, <4>2 DEF SizeOf, Room
    <3>5. ASSUME NEW d \in Core, d # c PROVE SizeOf(d)'
      BY <1>1, <1>2, <2>0, <3>1, <3>3, <3>5 DEF Sizes, SizeOf, Room
    <3> QED
      BY <3>4, <3>5 DEF Sizes
  <2> QED
    BY <2>1, <2>2
<1>12. ASSUME NEW c \in Core, Work(c) PROVE Sizes'
  <2>1. /\ doing[c] = "work" /\ doing' = [doing EXCEPT ![c] = "done"]
        /\ wqCurSize' = [wqCurSize EXCEPT ![c] = wqCurSize[c] - 1] /\ UNCHANGED <<wq, at, seek>>
    BY <1>12 DEF Work
  <2>2. \A d \in Core : Putters(d)' = Putters(d) /\ Enqueuers(d)' = Enqueuers(d)
    BY <2>1 DEF Putters, Enqueuers
  <2>3. SizeOf(c)'
    <3>1. SizeOf(c) /\ Cardinality(Putters(c)) \in Nat /\ Cardinality(Enqueuers(c)) \in Nat /\ Len(wq[c]) \in Nat
      BY PuttersFinite, LenWq DEF Sizes
    <3>2. wqCurSize'[c] = wqCurSize[c] - 1 /\ doing'[c] = "done" /\ wqCurSize[c] \in Int
      BY <1>1, <2>1
    <3> QED
      BY <2>1, <2>2, <3>1, <3>2, RoomIs DEF SizeOf, Room
  <2>4. ASSUME NEW d \in Core, d # c PROVE SizeOf(d)'
    BY <1>1, <2>1, <2>2, <2>4 DEF Sizes, SizeOf, Room
  <2> QED
    BY <2>3, <2>4 DEF Sizes
<1>13. CASE Idle \/ UNCHANGED vars
  BY <1>13, SizesSame DEF Idle, vars
<1> QED
  BY <1>3, <1>4, <1>5, <1>6, <1>7, <1>8, <1>9, <1>10, <1>11, <1>12, <1>13 DEF Next, CoreStep

------------------------------------------------------------------------------
(* KickedWhenComplete *)

LEMMA RangeAppend ==
  ASSUME NEW S, NEW q \in Seq(S), NEW x \in S
  PROVE  /\ Range(Append(q, x)) = Range(q) \cup {x}
         /\ IsInjective(q) /\ x \notin Range(q) => IsInjective(Append(q, x))
<1>1. /\ DOMAIN q = 1..Len(q) /\ DOMAIN Append(q, x) = 1..(Len(q) + 1) /\ Len(q) \in Nat
      /\ Append(q, x)[Len(q) + 1] = x /\ \A i \in 1..Len(q) : Append(q, x)[i] = q[i]
  OBVIOUS
<1>2. \A i \in 1..(Len(q) + 1) : i = Len(q) + 1 \/ i \in 1..Len(q)
  BY <1>1
<1>3. \A i \in 1..Len(q) : i \in 1..(Len(q) + 1)
  BY <1>1
<1>4. Len(q) + 1 \in 1..(Len(q) + 1)
  BY <1>1
<1> QED
  BY <1>1, <1>2, <1>3, <1>4, Zenon DEF Range, IsInjective

LEMMA TileAppended ==
  \A q \in Seq(1..Tiles), u \in 1..Tiles :
    IsInjective(q) /\ u \notin Range(q) => Range(Append(q, u)) = Range(q) \cup {u} /\ IsInjective(Append(q, u))
<1> TAKE q \in Seq(1..Tiles), u \in 1..Tiles
<1>1. PICK S : S = 1..Tiles
  OBVIOUS
<1>2. q \in Seq(S) /\ u \in S
  BY <1>1
<1>3. Range(Append(q, u)) = Range(q) \cup {u}
  BY <1>2, RangeAppend
<1>4. IsInjective(q) /\ u \notin Range(q) => IsInjective(Append(q, u))
  BY <1>2, RangeAppend
<1> QED
  BY <1>3, <1>4

LEMMA RangeTail ==
  ASSUME NEW S, NEW q \in Seq(S), q # <<>>
  PROVE  /\ Range(q) = Range(Tail(q)) \cup {Head(q)} /\ Head(q) \in S
         /\ IsInjective(q) => IsInjective(Tail(q)) /\ Head(q) \notin Range(Tail(q))
<1>1. /\ DOMAIN q = 1..Len(q) /\ DOMAIN Tail(q) = 1..(Len(q) - 1) /\ Len(q) \in Nat \ {0}
      /\ Head(q) \in S
  BY HeadOfQueue
<1>0. Head(q) = q[1] /\ \A i \in DOMAIN Tail(q) : i + 1 \in DOMAIN q /\ Tail(q)[i] = q[i + 1]
  BY HeadOfQueue
<1>2. \A i \in DOMAIN q : i = 1 \/ \E j \in DOMAIN Tail(q) : i = j + 1
  <2>1. ASSUME NEW i \in 1..Len(q), i # 1 PROVE i - 1 \in 1..(Len(q) - 1) /\ i = (i - 1) + 1
    BY <1>1, <2>1
  <2> QED
    BY <1>1, <2>1
<1>3. 1 \in DOMAIN q /\ \A i \in DOMAIN Tail(q) : i + 1 # 1
  BY <1>1
<1>4. \A i, j \in DOMAIN Tail(q) : i + 1 = j + 1 => i = j
  BY <1>1
<1>5. Range(q) = Range(Tail(q)) \cup {Head(q)}
  <2>1. ASSUME NEW i \in DOMAIN q PROVE q[i] \in Range(Tail(q)) \cup {Head(q)}
    <3>1. CASE i = 1
      BY <1>0, <3>1
    <3>2. CASE \E j \in DOMAIN Tail(q) : i = j + 1
      BY <1>0, <3>2 DEF Range
    <3> QED
      BY <1>2, <3>1, <3>2
  <2>2. ASSUME NEW j \in DOMAIN Tail(q) PROVE Tail(q)[j] \in Range(q)
    BY <1>0 DEF Range
  <2>3. Head(q) \in Range(q)
    BY <1>0, <1>3 DEF Range
  <2> QED
    BY <2>1, <2>2, <2>3 DEF Range
<1>6. IsInjective(q) => IsInjective(Tail(q))
  <2>1. ASSUME IsInjective(q), NEW i \in DOMAIN Tail(q), NEW j \in DOMAIN Tail(q), Tail(q)[i] = Tail(q)[j]
        PROVE  i = j
    <3>1. i + 1 \in DOMAIN q /\ j + 1 \in DOMAIN q /\ q[i + 1] = q[j + 1]
      BY <1>0, <2>1
    <3>2. i + 1 = j + 1
      BY <2>1, <3>1 DEF IsInjective
    <3> QED
      BY <1>4, <3>2
  <2> QED
    BY <2>1 DEF IsInjective
<1>7. IsInjective(q) => Head(q) \notin Range(Tail(q))
  <2>1. ASSUME IsInjective(q), NEW j \in DOMAIN Tail(q) PROVE Tail(q)[j] # Head(q)
    BY <1>0, <1>3, <2>1 DEF IsInjective
  <2> QED
    BY <2>1 DEF Range
<1> QED
  BY <1>1, <1>5, <1>6, <1>7

\* Numbers up to n, each once: there are as many as the sequence is long, and at most n.
LEMMA LenRange ==
  ASSUME NEW n \in Nat, NEW q \in Seq(1..Tiles), IsInjective(q), \A t \in Range(q) : t <= n
  PROVE  /\ Cardinality(Range(q)) = Len(q) /\ Len(q) <= n
         /\ \A t \in 1..n : t \notin Range(q) => Len(q) < n
<1>0. Len(q) \in Nat
  OBVIOUS
<1>1. q \in [1..Len(q) -> Range(q)]
  BY RangeEquality
<1>2. IsFiniteSet(1..Len(q)) /\ Cardinality(1..Len(q)) = Len(q)
  <2>1. \A k \in Nat : IsFiniteSet(1..k) /\ Cardinality(1..k) = k
    BY FS_Interval
  <2> QED
    BY <1>0, <2>1
<1>3. Range(q) \in SUBSET (1..n)
  <2>1. Range(q) \in SUBSET (1..Tiles)
    BY RangeOfSeq
  <2> QED
    BY <2>1, CoreFinite
<1>4. IsFiniteSet(1..n) /\ Cardinality(1..n) = n
  BY FS_Interval
<1>5. Cardinality(Range(q)) = Len(q) /\ IsFiniteSet(Range(q))
  <2>1. q \in Surjection(1..Len(q), Range(q)) /\ q \in Injection(1..Len(q), Range(q))
    BY <1>1, Zenon DEF Surjection, Injection, Range
  <2> QED
    BY <1>2, <2>1, FS_Surjection
<1>6. Len(q) <= n
  BY <1>3, <1>4, <1>5, FS_Subset
<1>7. ASSUME NEW t \in 1..n, t \notin Range(q) PROVE Len(q) < n
  <2>1. Range(q) # 1..n
    BY <1>7
  <2>2. Len(q) # n
    BY <1>3, <1>4, <1>5, <2>1, FS_Subset
  <2> QED
    BY <1>0, <1>6, <2>2
<1> QED
  BY <1>5, <1>6, <1>7

\* How the numbers of tiles change
LEMMA CountsTyped ==
  ASSUME Flat, Located, NEW c \in Core, NEW b \in Bucket
  PROVE  /\ Handed(c, b) \in Int /\ Counted(c, b) \in Int /\ Held(c, b) \in {0, 1}
         /\ 0 <= Handed(c, b) /\ Handed(c, b) <= Counted(c, b)
         /\ Held(c, b) = 0 /\ b <= bucket[c] => Counted(c, b) = Tiles
         /\ Counted(c, b) > 0 => b \in 1..bucket[c]
<1>1. bucket[c] \in Int /\ tile[c] \in Int /\ Tiles \in Int /\ 0 <= tile[c] /\ 0 <= Tiles /\ b \in Int /\ 1 <= b
  BY CoreFinite DEF Flat, Bucket
<1>2. at[c] \in InHand => tile[c] > 0
  BY DEF Located
<1> QED
  BY <1>1, <1>2 DEF Handed, Counted, Held, Inside

LEMMA CountsSame ==
  ASSUME Flat, NEW c \in Core, UNCHANGED <<bucket, tile>>, \A d \in Core : d # c => at'[d] = at[d],
         at'[c] \in Inside <=> at[c] \in Inside, at'[c] \in InHand <=> at[c] \in InHand,
         NEW d \in Core, NEW b \in Bucket
  PROVE  Handed(d, b)' = Handed(d, b) /\ Counted(d, b)' = Counted(d, b) /\ Held(d, b)' = Held(d, b)
BY DEF Handed, Counted, Held

LEMMA CountsStart ==
  ASSUME Flat, NEW c \in Core, StartBucket(c), NEW d \in Core, NEW b \in Bucket
  PROVE  /\ Handed(d, b)' = Handed(d, b) /\ Counted(d, b)' = Counted(d, b)
         /\ Held(d, b)' = IF d = c /\ b = bucket[c] + 1 THEN 1 ELSE Held(d, b)
         /\ d = c /\ b = bucket[c] + 1 => Handed(d, b) = 0 /\ Counted(d, b) = 0
<1>1. /\ bucket[c] \in Int /\ at[c] = "walk" /\ b \in Int
      /\ bucket' = [bucket EXCEPT ![c] = bucket[c] + 1] /\ tile' = [tile EXCEPT ![c] = 0]
      /\ at' = [at EXCEPT ![c] = "queue"]
  BY DEF StartBucket, Start, GoTo, Flat, Bucket
<1>2. CASE d # c
  BY <1>1, <1>2 DEF Flat, Handed, Counted, Held
<1>3. CASE d = c
  <2>1. bucket'[c] = bucket[c] + 1 /\ tile'[c] = 0 /\ at'[c] = "queue"
    BY <1>1 DEF Flat
  <2> QED
    BY <1>1, <1>3, <2>1 DEF Handed, Counted, Held, Inside, InHand
<1> QED
  BY <1>2, <1>3

LEMMA CountsNext ==
  ASSUME Flat, NEW c \in Core, NextTile(c), NEW d \in Core, NEW b \in Bucket
  PROVE  /\ Handed(d, b)' = Handed(d, b) /\ Held(d, b)' = Held(d, b)
         /\ Counted(d, b)' = IF d = c /\ b = bucket[c] THEN Counted(d, b) + 1 ELSE Counted(d, b)
         /\ d = c /\ b = bucket[c] => Held(d, b) = 1
<1>1. /\ bucket[c] \in Int /\ tile[c] \in Int /\ at[c] = "queue" /\ b \in Int
      /\ bucket' = bucket /\ tile' = [tile EXCEPT ![c] = tile[c] + 1] /\ at' = [at EXCEPT ![c] = "add"]
  BY DEF NextTile, GoTo, Flat, Bucket
<1>2. CASE d # c
  BY <1>1, <1>2 DEF Flat, Handed, Counted, Held
<1>3. CASE d = c
  <2>1. tile'[c] = tile[c] + 1 /\ at'[c] = "add"
    BY <1>1 DEF Flat
  <2> QED
    BY <1>1, <1>3, <2>1 DEF Handed, Counted, Held, Inside, InHand
<1> QED
  BY <1>2, <1>3

LEMMA CountsEnd ==
  ASSUME Flat, NEW c \in Core, EndBucket(c), NEW d \in Core, NEW b \in Bucket
  PROVE  /\ Handed(d, b)' = Handed(d, b) /\ Counted(d, b)' = Counted(d, b)
         /\ Held(d, b)' = IF d = c /\ b = bucket[c] THEN 0 ELSE Held(d, b)
         /\ d = c /\ b = bucket[c] => Held(d, b) = 1
<1>1. /\ bucket[c] \in Int /\ tile[c] = Tiles /\ at[c] = "queue" /\ b \in Int
      /\ UNCHANGED <<bucket, tile>> /\ at' = [at EXCEPT ![c] = "walk"]
  BY DEF EndBucket, GoTo, Flat, Bucket
<1>2. CASE d # c
  BY <1>1, <1>2 DEF Flat, Handed, Counted, Held
<1>3. CASE d = c
  <2>1. at'[c] = "walk"
    BY <1>1 DEF Flat
  <2> QED
    BY <1>1, <1>3, <2>1 DEF Handed, Counted, Held, Inside, InHand
<1> QED
  BY <1>2, <1>3

\* The tile at hand is queued or done.
LEMMA CountsHand ==
  ASSUME Flat, NEW c \in Core, at[c] \in InHand, at' = [at EXCEPT ![c] = "queue"], UNCHANGED <<bucket, tile>>,
         NEW d \in Core, NEW b \in Bucket
  PROVE  /\ Counted(d, b)' = Counted(d, b) /\ Held(d, b)' = Held(d, b)
         /\ Handed(d, b)' = IF d = c /\ b = bucket[c] THEN Handed(d, b) + 1 ELSE Handed(d, b)
         /\ d = c /\ b = bucket[c] => Handed(d, b) = tile[c] - 1 /\ Held(d, b) = 1 /\ Counted(d, b) = tile[c]
<1>1. bucket[c] \in Int /\ tile[c] \in Int /\ b \in Int
  BY DEF Flat, Bucket
<1>2. CASE d # c
  BY <1>1, <1>2 DEF Flat, Handed, Counted, Held
<1>3. CASE d = c
  <2>1. at'[c] = "queue"
    BY DEF Flat
  <2> QED
    BY <1>1, <1>3, <2>1 DEF Handed, Counted, Held, Inside, InHand
<1> QED
  BY <1>2, <1>3

\* The steps that change none of these numbers, and those of them that move no item either
Elsewhere(c) ==
  \/ AddWork(c) \/ SeekHelper(c) \/ Put(c) \/ EndWalk(c)
  \/ Work(c) \/ DidSomeWork(c) \/ FinishCache(c) \/ PassBarrier(c) \/ Report(c)
LEMMA CountsElsewhere ==
  ASSUME Flat, NEW c \in Core, \/ Elsewhere(c) \/ DoSomeWork(c) \/ ReQueue(c) \/ SendBack(c) \/ Collect(c),
         NEW d \in Core, NEW b \in Bucket
  PROVE  Handed(d, b)' = Handed(d, b) /\ Counted(d, b)' = Counted(d, b) /\ Held(d, b)' = Held(d, b)
<1> USE DEF GoTo, sizes, walk
<1>1. at \in [Core -> Walking \cup {"barrier", "report", "idle"}]
  BY DEF Flat
<1>2. CASE DoSomeWork(c) \/ Work(c) \/ ReQueue(c) \/ SendBack(c) \/ Collect(c)
  <2>1. UNCHANGED <<at, bucket, tile>>
    BY <1>2 DEF DoSomeWork, Work, ReQueue, SendBack, Collect
  <2> QED
    BY <2>1, CountsSame
<1>3. CASE AddWork(c) \/ SeekHelper(c)
  <2>1. /\ at' \in {[at EXCEPT ![c] = where] : where \in {"self", "scan", "put"}} /\ at[c] \in {"add", "scan"}
        /\ UNCHANGED <<bucket, tile>>
    BY <1>3 DEF AddWork, Add, SeekHelper
  <2>2. at'[c] \in InHand /\ at[c] \in InHand /\ \A e \in Core : e # c => at'[e] = at[e]
    BY <1>1, <2>1 DEF InHand
  <2> QED
    BY <2>1, <2>2, CountsSame DEF Inside
<1>4. CASE Put(c)
  <2>1. at' = [at EXCEPT ![c] = "enqueue"] /\ at[c] = "put" /\ UNCHANGED <<bucket, tile>>
    BY <1>4 DEF Put
  <2> QED
    BY <1>1, <2>1, CountsSame DEF Inside, InHand
<1>5. CASE EndWalk(c) \/ FinishCache(c) \/ Report(c)
  <2>1. PICK where \in {"complete", "barrier", "idle"} :
          at' = [at EXCEPT ![c] = where] /\ at[c] \notin Inside /\ UNCHANGED <<bucket, tile>>
    BY <1>5 DEF EndWalk, FinishCache, Report, Inside, InHand
  <2> QED
    BY <1>1, <2>1, CountsSame DEF Inside, InHand
<1>6. CASE DidSomeWork(c)
  <2>1. /\ at' = [at EXCEPT ![c] = IF at[c] = "complete" /\ ~rc[c] THEN "finish" ELSE at[c]]
        /\ UNCHANGED <<bucket, tile>>
    BY <1>6 DEF DidSomeWork
  <2> QED
    BY <1>1, <2>1, CountsSame DEF Inside, InHand
<1>7. CASE PassBarrier(c)
  <2>1. at' \in {at, [at EXCEPT ![c] = "report"]} /\ at[c] = "barrier" /\ UNCHANGED <<bucket, tile>>
    BY <1>7 DEF PassBarrier
  <2> QED
    BY <1>1, <2>1, CountsSame DEF Inside, InHand
<1> QED
  BY <1>2, <1>3, <1>4, <1>5, <1>6, <1>7 DEF Elsewhere

\* The items in the queues and hands, and the tiles in the forces
LEMMA WhatIsThere ==
  ASSUME Deep, NEW c \in Core
  PROVE  /\ Range(wq[c]) \in SUBSET Item /\ Range(wqDone[c]) \in SUBSET Item /\ hand[c] \in Item \cup {None}
         /\ wq[c] \in Seq(Item) /\ wqDone[c] \in Seq(Item)
         /\ \A b \in Bucket : added[c][b] \in Seq(1..Tiles) /\ Range(added[c][b]) \in SUBSET Int
<1>1. /\ wq[c] \in Seq(Item) /\ wqDone[c] \in Seq(Item) /\ hand[c] \in Item \cup {None}
      /\ \A b \in Bucket : added[c][b] \in Seq(1..Tiles)
  BY DEF Deep
<1>2. \A b \in Bucket : Range(added[c][b]) \in SUBSET (1..Tiles)
  BY <1>1, RangeOfSeq
<1>3. (1..Tiles) \in SUBSET Int
  OBVIOUS
<1> QED
  BY <1>1, <1>2, <1>3, RangeOfSeq

LEMMA ItemsDiffer ==
  ASSUME NEW x \in Item, NEW y \in Item, x # y
  PROVE  x.iCoreOwner # y.iCoreOwner \/ x.bucket # y.bucket \/ x.tile # y.tile
BY DEF Item

\* What the three invariants need of a step: that a core hands out at most one tile more
Onward == \A d \in Core, b \in Bucket : Handed(d, b)' = Handed(d, b) \/ Handed(d, b)' = Handed(d, b) + 1

\* An item that is not added remains to be.
LEMMA StillPending ==
  ASSUME Flat, Located, Onward, added' = added, NEW y \in Item, Pending(y)
  PROVE  Pending(y)'
<1>1. y.iCoreOwner \in Core /\ y.bucket \in Bucket /\ y.tile \in Int
  BY ItemParts
<1>2. Handed(y.iCoreOwner, y.bucket) \in Int
  BY <1>1, CountsTyped
<1>3. y.tile <= Handed(y.iCoreOwner, y.bucket)'
  BY <1>1, <1>2 DEF Onward, Pending
<1> QED
  BY <1>3 DEF Pending

LEMMA AddedSame ==
  ASSUME Flat, Deep, Located, AddedOnce, Onward, added' = added
  PROVE  AddedOnce'
<1> SUFFICES ASSUME NEW c \in Core, NEW b \in Bucket
             PROVE  (\A t \in Range(added[c][b]) : t <= Handed(c, b)') /\ IsInjective(added[c][b])
  BY DEF AddedOnce
<1>1. Handed(c, b) \in Int /\ \A t \in Range(added[c][b]) : t \in Int /\ t <= Handed(c, b)
  BY CountsTyped, WhatIsThere DEF AddedOnce
<1>2. \A t \in Range(added[c][b]) : t <= Handed(c, b)'
  BY <1>1 DEF Onward
<1> QED
  BY <1>2 DEF AddedOnce

\* An item that has been handed out is added, if it has not been before.
LEMMA AddedOneMore ==
  ASSUME Flat, Deep, Located, AddedOnce, Onward, NEW c \in Core, NEW x \in Item, DoneWork(c, x), x.iCoreOwner = c,
         x.tile \notin Range(added[c][x.bucket]), x.tile <= Handed(c, x.bucket)'
  PROVE  /\ AddedOnce'
         /\ \A y \in Item : y # x /\ Pending(y) => Pending(y)'
<1> DEFINE b == x.bucket
           t == x.tile
<1>1. b \in Bucket /\ t \in 1..Tiles /\ t \in Int
  BY ItemParts
<1>2. /\ added'[c][b] = Append(added[c][b], t)
      /\ \A d \in Core, e \in Bucket : d # c \/ e # b => added'[d][e] = added[d][e]
  BY DoneTypes
<1>3. added[c][b] \in Seq(1..Tiles)
  BY <1>1, WhatIsThere
<1>4. Range(added'[c][b]) = Range(added[c][b]) \cup {t} /\ IsInjective(added'[c][b])
  <2>1. IsInjective(added[c][b])
    BY <1>1 DEF AddedOnce
  <2>2. t \notin Range(added[c][b])
    OBVIOUS
  <2> HIDE DEF b, t
  <2>3. Range(Append(added[c][b], t)) = Range(added[c][b]) \cup {t} /\ IsInjective(Append(added[c][b], t))
    BY <1>1, <1>3, <2>1, <2>2, TileAppended
  <2> QED
    BY <1>2, <2>3
<1>5. ASSUME NEW d \in Core, NEW e \in Bucket
      PROVE  (\A u \in Range(added'[d][e]) : u <= Handed(d, e)') /\ IsInjective(added'[d][e])
  <2>1. /\ Handed(d, e) \in Int /\ IsInjective(added[d][e])
        /\ \A u \in Range(added[d][e]) : u \in Int /\ u <= Handed(d, e)
    BY CountsTyped, WhatIsThere DEF AddedOnce
  <2>2. \A u \in Range(added[d][e]) : u <= Handed(d, e)'
    BY <2>1 DEF Onward
  <2>3. CASE d = c /\ e = b
    BY <1>4, <2>2, <2>3
  <2>4. CASE ~(d = c /\ e = b)
    BY <1>2, <2>1, <2>2, <2>4
  <2> QED
    BY <2>3, <2>4
<1>6. ASSUME NEW y \in Item, y # x, Pending(y) PROVE Pending(y)'
  <2> DEFINE d == y.iCoreOwner
             e == y.bucket
  <2>1. d \in Core /\ e \in Bucket /\ y.tile \in Int
    BY ItemParts
  <2>2. Handed(d, e) \in Int
    BY <2>1, CountsTyped
  <2>3. y.tile <= Handed(d, e)' /\ y.tile \notin Range(added[d][e])
    BY <1>6, <2>1, <2>2 DEF Onward, Pending
  <2>4. CASE d = c /\ e = b
    <3>1. y.tile # t
      BY <1>6, <2>4, ItemsDiffer
    <3> QED
      BY <1>4, <2>3, <2>4, <3>1 DEF Pending
  <2>5. CASE ~(d = c /\ e = b)
    BY <1>2, <2>1, <2>3, <2>5 DEF Pending
  <2> QED
    BY <2>4, <2>5
<1> QED
  BY <1>5, <1>6 DEF AddedOnce

\* An item is handed out, worked on, given back, and added: at each step it leaves one place
\* for the next, and no step that adds it finds it added.
LEMMA ItemsStep ==
  Flat /\ Deep /\ Located /\ AllPending /\ NoneTwice /\ AddedOnce /\ [Next]_vars
    => AllPending' /\ NoneTwice' /\ AddedOnce'
<1> SUFFICES ASSUME Flat, Deep, Located, AllPending, NoneTwice, AddedOnce, [Next]_vars
             PROVE  AllPending' /\ NoneTwice' /\ AddedOnce'
  OBVIOUS
<1>0. wq \in [Core -> Seq(Item)] /\ wqDone \in [Core -> Seq(Item)] /\ hand \in [Core -> Item \cup {None}]
  BY DEF Deep
\* Steps that move no item
<1>1. ASSUME Onward, UNCHANGED <<wq, wqDone, hand, added>> PROVE AllPending' /\ NoneTwice' /\ AddedOnce'
  <2>1. \A y \in Item : Pending(y) => Pending(y)'
    BY <1>1, StillPending
  <2>2. AllPending'
    BY <1>1, <2>1, WhatIsThere DEF AllPending
  <2>3. NoneTwice'
    BY <1>1 DEF NoneTwice, Apart
  <2> QED
    BY <1>1, <2>2, <2>3, AddedSame
<1>2. ASSUME NEW c \in Core, StartBucket(c) \/ NextTile(c) \/ EndBucket(c) \/ Elsewhere(c)
      PROVE  AllPending' /\ NoneTwice' /\ AddedOnce'
  <2>1. Onward
    BY <1>2, CountsStart, CountsNext, CountsEnd, CountsElsewhere DEF Onward
  <2>2. CASE StartBucket(c) \/ NextTile(c) \/ EndBucket(c)
    BY <1>1, <2>1, <2>2 DEF StartBucket, Start, NextTile, EndBucket
  <2>3. CASE AddWork(c) \/ SeekHelper(c) \/ Put(c) \/ EndWalk(c)
    BY <1>1, <2>1, <2>3 DEF AddWork, Add, SeekHelper, Put, EndWalk, forces
  <2>4. CASE Work(c) \/ DidSomeWork(c) \/ FinishCache(c) \/ PassBarrier(c) \/ Report(c)
    BY <1>1, <2>1, <2>4 DEF Work, DidSomeWork, FinishCache, PassBarrier, Report, forces
  <2> QED
    BY <1>2, <2>2, <2>3, <2>4 DEF Elsewhere
\* What a core hands out is nowhere, as its tile comes after those that have been handed out.
<1>3. ASSUME NEW c \in Core, at[c] \in InHand, at' = [at EXCEPT ![c] = "queue"], UNCHANGED <<bucket, tile>>
      PROVE  /\ Onward
             /\ \E x \in Item :
                  /\ x = Here(c) /\ x.iCoreOwner = c
                  /\ x.tile <= Handed(c, x.bucket)' /\ x.tile \notin Range(added[c][x.bucket])
                  /\ \A d \in Core : x \notin Range(wq[d]) /\ x \notin Range(wqDone[d]) /\ x # hand[d]
  <2>1. Onward
    BY <1>3, CountsHand DEF Onward
  <2>2. PICK x \in Item : x = Here(c) /\ x.iCoreOwner = c /\ x.bucket = bucket[c] /\ x.tile = tile[c]
    BY <1>3, HereIsItem
  <2> DEFINE b == x.bucket
             t == x.tile
  <2>3. b \in Bucket /\ t \in 1..Tiles /\ t \in Int
    BY <2>2, ItemParts
  <2>4. Handed(c, b) = t - 1 /\ Handed(c, b)' = Handed(c, b) + 1
    <3>1. /\ Handed(c, b)' = IF b = bucket[c] THEN Handed(c, b) + 1 ELSE Handed(c, b)
          /\ b = bucket[c] => Handed(c, b) = tile[c] - 1
      BY <1>3, <2>3, CountsHand
    <3> QED
      BY <2>2, <3>1
  <2>5. t <= Handed(c, b)'
    BY <2>3, <2>4
  <2>6. t \notin Range(added[c][b])
    <3>1. ~(t <= Handed(c, b))
      BY <2>3, <2>4
    <3> QED
      BY <2>3, <3>1 DEF AddedOnce
  <2>7. ~Pending(x)
    BY <2>2, <2>3, <2>4 DEF Pending
  <2>8. \A d \in Core : x \notin Range(wq[d]) /\ x \notin Range(wqDone[d]) /\ x # hand[d]
    BY <2>2, <2>7, ItemParts DEF AllPending
  <2> QED
    BY <2>1, <2>2, <2>5, <2>6, <2>8
<1>4. ASSUME NEW c \in Core, Enqueue(c) PROVE AllPending' /\ NoneTwice' /\ AddedOnce'
  <2>0. PICK s \in Core : s = seek[c]
    BY DEF Flat
  <2>1. /\ at[c] \in InHand /\ at' = [at EXCEPT ![c] = "queue"]
        /\ wq' = [wq EXCEPT ![s] = Append(wq[s], Here(c))] /\ UNCHANGED <<bucket, tile, wqDone, hand, added>>
    BY <1>4, <2>0 DEF Enqueue, GoTo, InHand, forces
  <2>2. Onward
    BY <1>3, <2>1
  <2>3. PICK x \in Item :
          /\ x = Here(c) /\ x.iCoreOwner = c
          /\ x.tile <= Handed(c, x.bucket)' /\ x.tile \notin Range(added[c][x.bucket])
          /\ \A d \in Core : x \notin Range(wq[d]) /\ x \notin Range(wqDone[d]) /\ x # hand[d]
    BY <1>3, <2>1
  <2>4. Pending(x)'
    BY <2>1, <2>3 DEF Pending
  <2>5. /\ Range(wq'[s]) = Range(wq[s]) \cup {x}
        /\ IsInjective(wq[s]) => IsInjective(wq'[s])
        /\ \A d \in Core : d # s => wq'[d] = wq[d]
    <3>1. /\ Range(Append(wq[s], x)) = Range(wq[s]) \cup {x}
          /\ IsInjective(wq[s]) => IsInjective(Append(wq[s], x))
      BY <2>3, WhatIsThere, RangeAppend
    <3> QED
      BY <1>0, <2>1, <2>3, <3>1
  <2>6. AllPending'
    <3>1. \A y \in Item : Pending(y) => Pending(y)'
      BY <2>1, <2>2, StillPending
    <3>2. ASSUME NEW d \in Core, NEW y \in Range(wq'[d]) PROVE Pending(y)'
      <4>1. y = x \/ y \in Range(wq[d])
        BY <2>5
      <4> QED
        BY <2>4, <3>1, <4>1, WhatIsThere DEF AllPending
    <3> QED
      BY <2>1, <3>1, <3>2, WhatIsThere DEF AllPending
  <2>7. NoneTwice'
    <3>1. \A d \in Core : IsInjective(wq'[d]) /\ IsInjective(wqDone'[d])
      BY <2>1, <2>3, <2>5 DEF NoneTwice
    <3>2. \A d \in Core : \A y \in Range(wq'[d]) : y \in Range(wq[d]) \/ (y = x /\ d = s)
      BY <2>5
    <3>3. ASSUME NEW d \in Core, NEW e \in Core PROVE Apart(d, e)'
      <4>1. Apart(d, e)
        BY DEF NoneTwice
      <4>2. d # e => Range(wq'[d]) \cap Range(wq'[e]) = {}
        BY <2>3, <3>2, <4>1 DEF Apart
      <4>3. Range(wq'[d]) \cap Range(wqDone[e]) = {}
        BY <2>3, <3>2, <4>1 DEF Apart
      <4>4. hand[d] # None => hand[d] \notin Range(wq'[e]) \cup Range(wqDone[e])
        BY <2>3, <3>2, <4>1 DEF Apart
      <4> QED
        BY <2>1, <4>1, <4>2, <4>3, <4>4 DEF Apart
    <3> QED
      BY <3>1, <3>3 DEF NoneTwice
  <2> QED
    BY <2>1, <2>2, <2>6, <2>7, AddedSame
<1>5. ASSUME NEW c \in Core, DoItself(c) PROVE AllPending' /\ NoneTwice' /\ AddedOnce'
  <2>1. /\ at[c] \in InHand /\ at' = [at EXCEPT ![c] = "queue"] /\ DoneWork(c, Here(c))
        /\ UNCHANGED <<bucket, tile, wq, wqDone, hand>>
    BY <1>5 DEF DoItself, GoTo, InHand
  <2>2. Onward
    BY <1>3, <2>1
  <2>3. PICK x \in Item :
          /\ x = Here(c) /\ x.iCoreOwner = c
          /\ x.tile <= Handed(c, x.bucket)' /\ x.tile \notin Range(added[c][x.bucket])
          /\ \A d \in Core : x \notin Range(wq[d]) /\ x \notin Range(wqDone[d]) /\ x # hand[d]
    BY <1>3, <2>1
  <2>4. AddedOnce' /\ \A y \in Item : y # x /\ Pending(y) => Pending(y)'
    BY <2>1, <2>2, <2>3, AddedOneMore
  <2>5. AllPending'
    <3>1. ASSUME NEW d \in Core
          PROVE  /\ \A y \in Range(wq[d]) : Pending(y)'
                 /\ \A y \in Range(wqDone[d]) : Pending(y)'
      BY <2>3, <2>4, WhatIsThere DEF AllPending
    <3>2. ASSUME NEW d \in Core, hand[d] # None PROVE Pending(hand[d])'
      <4>1. hand[d] \in Item /\ hand[d] # x /\ Pending(hand[d]) /\ hand' = hand
        BY <2>1, <2>3, <3>2, WhatIsThere DEF AllPending
      <4> QED
        BY <2>4, <4>1
    <3> QED
      BY <2>1, <3>1, <3>2 DEF AllPending
  <2>6. NoneTwice'
    BY <2>1 DEF NoneTwice, Apart
  <2> QED
    BY <2>4, <2>5, <2>6
\* An item leaves the queue of the core it waits at.
<1>6. ASSUME NEW c \in Core, DoSomeWork(c) PROVE AllPending' /\ NoneTwice' /\ AddedOnce'
  <2>1. Onward /\ UNCHANGED <<wqDone, added>> /\ hand[c] = None
    BY <1>6, CountsElsewhere DEF Onward, DoSomeWork, forces, Located
  <2>2. CASE wq[c] = <<>>
    <3>1. UNCHANGED <<wq, hand>>
      BY <1>6, <2>2 DEF DoSomeWork
    <3> QED
      BY <1>1, <2>1, <3>1
  <2>3. CASE wq[c] # <<>>
    <3>1. PICK x : x = Head(wq[c])
      OBVIOUS
    <3>2. wq' = [wq EXCEPT ![c] = Tail(wq[c])] /\ hand' = [hand EXCEPT ![c] = x]
      BY <1>6, <2>3, <3>1 DEF DoSomeWork
    <3>3. /\ Range(wq[c]) = Range(Tail(wq[c])) \cup {x} /\ x \in Item
          /\ IsInjective(Tail(wq[c])) /\ x \notin Range(Tail(wq[c]))
      BY <2>3, <3>1, WhatIsThere, RangeTail DEF NoneTwice
    <3>4. /\ Range(wq[c]) = Range(wq'[c]) \cup {x} /\ IsInjective(wq'[c]) /\ x \notin Range(wq'[c])
          /\ hand'[c] = x /\ \A d \in Core : d # c => wq'[d] = wq[d] /\ hand'[d] = hand[d]
      BY <1>0, <3>2, <3>3
    <3>5. AllPending'
      <4>1. \A y \in Item : Pending(y) => Pending(y)'
        BY <2>1, StillPending
      <4>2. \A d \in Core : Range(wq'[d]) \in SUBSET Range(wq[d])
        BY <3>4
      <4>3. \A d \in Core : hand'[d] # None => Pending(hand'[d]) /\ hand'[d] \in Item
        BY <3>3, <3>4, WhatIsThere DEF AllPending
      <4>4. \A d \in Core : hand'[d] # None => Pending(hand[d])'
        BY <4>1, <4>3
      <4> QED
        BY <2>1, <4>1, <4>2, <4>4, WhatIsThere DEF AllPending
    <3>6. NoneTwice'
      BY <2>1, <3>3, <3>4 DEF NoneTwice, Apart
    <3> QED
      BY <2>1, <3>5, <3>6, AddedSame
  <2> QED
    BY <2>2, <2>3
<1>7. ASSUME NEW c \in Core, ReQueue(c) PROVE AllPending' /\ NoneTwice' /\ AddedOnce'
  <2>1. Onward
    BY <1>7, CountsElsewhere DEF Onward
  <2>2. PICK x \in Item : x = hand[c] /\ x.iCoreOwner = c
    BY <1>0, <1>7 DEF ReQueue, Located
  <2>3. /\ DoneWork(c, x) /\ UNCHANGED <<wq, wqDone>> /\ hand'[c] = None
        /\ \A d \in Core : d # c => hand'[d] = hand[d]
    BY <1>0, <1>7, <2>2 DEF ReQueue
  <2>4. /\ Pending(x)
        /\ \A d \in Core : /\ x \notin Range(wq[d]) /\ x \notin Range(wqDone[d])
                           /\ d # c => hand[d] # x
    BY <2>2, ItemParts DEF AllPending, NoneTwice, Apart
  <2>5. x.tile \notin Range(added[c][x.bucket]) /\ x.tile <= Handed(c, x.bucket)'
    <3>1. x.bucket \in Bucket /\ x.tile \in Int /\ Handed(c, x.bucket) \in Int
      BY ItemParts, CountsTyped
    <3> QED
      BY <2>1, <2>2, <2>4, <3>1 DEF Pending, Onward
  <2>6. AddedOnce' /\ \A y \in Item : y # x /\ Pending(y) => Pending(y)'
    BY <2>1, <2>2, <2>3, <2>5, AddedOneMore
  <2>7. AllPending'
    <3>1. ASSUME NEW d \in Core
          PROVE  /\ \A y \in Range(wq[d]) : Pending(y)'
                 /\ \A y \in Range(wqDone[d]) : Pending(y)'
      BY <2>4, <2>6, WhatIsThere DEF AllPending
    <3>2. ASSUME NEW d \in Core, hand'[d] # None PROVE Pending(hand[d])'
      <4>1. hand[d] \in Item /\ hand[d] # x /\ Pending(hand[d]) /\ hand'[d] = hand[d]
        BY <2>3, <2>4, <3>2, WhatIsThere DEF AllPending
      <4> QED
        BY <2>6, <4>1
    <3> QED
      BY <2>3, <3>1, <3>2 DEF AllPending
  <2>8. NoneTwice'
    BY <2>3 DEF NoneTwice, Apart
  <2> QED
    BY <2>6, <2>7, <2>8
\* It goes back to its owner.
<1>8. ASSUME NEW c \in Core, SendBack(c) PROVE AllPending' /\ NoneTwice' /\ AddedOnce'
  <2>1. Onward
    BY <1>8, CountsElsewhere DEF Onward
  <2>2. PICK x \in Item : x = hand[c]
    BY <1>0, <1>8 DEF SendBack, Located
  <2>3. PICK o \in Core : o = x.iCoreOwner
    BY ItemParts
  <2>4. /\ wqDone' = [wqDone EXCEPT ![o] = Append(wqDone[o], x)] /\ hand' = [hand EXCEPT ![c] = None]
        /\ UNCHANGED <<wq, added>>
    BY <1>8, <2>2, <2>3 DEF SendBack, forces
  <2>5. /\ Pending(x)
        /\ \A d \in Core : /\ x \notin Range(wq[d]) /\ x \notin Range(wqDone[d])
                           /\ d # c => hand[d] # x
    BY <2>2, ItemParts DEF AllPending, NoneTwice, Apart
  <2>6. /\ Range(wqDone'[o]) = Range(wqDone[o]) \cup {x}
        /\ IsInjective(wqDone[o]) => IsInjective(wqDone'[o])
        /\ hand'[c] = None /\ \A d \in Core : /\ d # o => wqDone'[d] = wqDone[d]
                                              /\ d # c => hand'[d] = hand[d]
    <3>1. /\ Range(Append(wqDone[o], x)) = Range(wqDone[o]) \cup {x}
          /\ IsInjective(wqDone[o]) => IsInjective(Append(wqDone[o], x))
      BY <2>5, WhatIsThere, RangeAppend
    <3> QED
      BY <1>0, <2>4, <3>1
  <2>7. \A y \in Item : Pending(y) => Pending(y)'
    BY <2>1, <2>4, StillPending
  <2>8. AllPending'
    <3>1. ASSUME NEW d \in Core, NEW y \in Range(wqDone'[d]) PROVE Pending(y)' /\ y.iCoreOwner = d
      <4>1. (y = x /\ d = o) \/ y \in Range(wqDone[d])
        BY <2>6
      <4> QED
        BY <2>3, <2>5, <2>7, <4>1, WhatIsThere DEF AllPending
    <3>2. ASSUME NEW d \in Core, hand'[d] # None PROVE Pending(hand[d])'
      <4>1. hand[d] \in Item /\ Pending(hand[d]) /\ hand'[d] = hand[d]
        BY <2>6, <3>2, WhatIsThere DEF AllPending
      <4> QED
        BY <2>7, <4>1
    <3>3. \A d \in Core : \A y \in Range(wq[d]) : Pending(y)'
      BY <2>7, WhatIsThere DEF AllPending
    <3> QED
      BY <2>4, <3>1, <3>2, <3>3 DEF AllPending
  <2>9. NoneTwice'
    <3>1. \A d \in Core : IsInjective(wq'[d]) /\ IsInjective(wqDone'[d])
      BY <2>4, <2>6 DEF NoneTwice
    <3>2. \A d \in Core : \A y \in Range(wqDone'[d]) : y \in Range(wqDone[d]) \/ y = x
      BY <2>6
    <3>3. ASSUME NEW d \in Core, NEW e \in Core PROVE Apart(d, e)'
      <4>1. Apart(d, e)
        BY DEF NoneTwice
      <4>2. Range(wq[d]) \cap Range(wqDone'[e]) = {}
        BY <2>5, <3>2, <4>1 DEF Apart
      <4>3. hand'[d] # None => d # c /\ hand'[d] = hand[d] /\ hand[d] \notin Range(wqDone'[e])
        BY <2>5, <2>6, <3>2, <4>1 DEF Apart
      <4>4. d # e => (hand'[d] # None => hand'[d] # hand'[e])
        BY <2>6, <4>1 DEF Apart
      <4> QED
        BY <2>4, <4>1, <4>2, <4>3, <4>4 DEF Apart
    <3> QED
      BY <3>1, <3>3 DEF NoneTwice
  <2> QED
    BY <2>1, <2>4, <2>8, <2>9, AddedSame
<1>9. ASSUME NEW c \in Core, Collect(c) PROVE AllPending' /\ NoneTwice' /\ AddedOnce'
  <2>1. Onward
    BY <1>9, CountsElsewhere DEF Onward
  <2>2. PICK x : x = Head(wqDone[c])
    OBVIOUS
  <2>3. /\ wqDone[c] # <<>> /\ DoneWork(c, x) /\ wqDone' = [wqDone EXCEPT ![c] = Tail(wqDone[c])]
        /\ UNCHANGED <<wq, hand>>
    BY <1>9, <2>2 DEF Collect
  <2>4. /\ Range(wqDone[c]) = Range(Tail(wqDone[c])) \cup {x} /\ x \in Item
        /\ IsInjective(Tail(wqDone[c])) /\ x \notin Range(Tail(wqDone[c]))
    BY <2>2, <2>3, WhatIsThere, RangeTail DEF NoneTwice
  <2>5. /\ Range(wqDone[c]) = Range(wqDone'[c]) \cup {x} /\ IsInjective(wqDone'[c]) /\ x \notin Range(wqDone'[c])
        /\ \A d \in Core : d # c => wqDone'[d] = wqDone[d]
    BY <1>0, <2>3, <2>4
  <2>6. /\ Pending(x) /\ x.iCoreOwner = c
        /\ \A d \in Core : x \notin Range(wq[d]) /\ (d # c => x \notin Range(wqDone[d]))
    BY <2>4 DEF AllPending, NoneTwice, Apart
  <2>7. \A d \in Core : hand[d] # None => hand[d] # x
    BY <2>4 DEF NoneTwice, Apart
  <2>8. x.tile \notin Range(added[c][x.bucket]) /\ x.tile <= Handed(c, x.bucket)'
    <3>1. x.bucket \in Bucket /\ x.tile \in Int /\ Handed(c, x.bucket) \in Int
      BY <2>4, ItemParts, CountsTyped
    <3> QED
      BY <2>1, <2>6, <3>1 DEF Pending, Onward
  <2>9. AddedOnce' /\ \A y \in Item : y # x /\ Pending(y) => Pending(y)'
    BY <2>1, <2>3, <2>4, <2>6, <2>8, AddedOneMore
  <2>10. AllPending'
    <3>1. \A d \in Core : \A y \in Range(wq[d]) : Pending(y)'
      BY <2>6, <2>9, WhatIsThere DEF AllPending
    <3>2. \A d \in Core : \A y \in Range(wqDone'[d]) : y # x /\ y \in Range(wqDone[d])
      BY <2>5, <2>6
    <3>3. \A d \in Core : \A y \in Range(wqDone'[d]) : Pending(y)' /\ y.iCoreOwner = d
      BY <2>9, <3>2, WhatIsThere DEF AllPending
    <3>4. ASSUME NEW d \in Core, hand[d] # None PROVE Pending(hand[d])'
      <4>1. hand[d] \in Item /\ hand[d] # x /\ Pending(hand[d]) /\ hand' = hand
        BY <2>3, <2>7, <3>4, WhatIsThere DEF AllPending
      <4> QED
        BY <2>9, <4>1
    <3> QED
      BY <2>3, <3>1, <3>3, <3>4 DEF AllPending
  <2>11. NoneTwice'
    BY <2>3, <2>5 DEF NoneTwice, Apart
  <2> QED
    BY <2>9, <2>10, <2>11
<1>10. CASE Idle \/ UNCHANGED vars
  <2>1. Onward
    BY <1>10 DEF Idle, vars, walk, Onward, Handed, Counted
  <2> QED
    BY <1>1, <1>10, <2>1 DEF Idle, vars, forces
<1> QED
  BY <1>2, <1>4, <1>5, <1>6, <1>7, <1>8, <1>9, <1>10 DEF Next, CoreStep, Elsewhere

\* Of a bucket, as many tiles have been added as its forces are long, and no more than handed out.
LEMMA LenAdded ==
  ASSUME Flat, Deep, Located, AddedOnce, NEW c \in Core, NEW b \in Bucket
  PROVE  /\ Cardinality(Range(added[c][b])) = Len(added[c][b])
         /\ Len(added[c][b]) \in Nat /\ Len(added[c][b]) <= Handed(c, b)
         /\ \A t \in 1..Handed(c, b) : t \notin Range(added[c][b]) => Len(added[c][b]) < Handed(c, b)
<1>1. PICK q \in Seq(1..Tiles) : q = added[c][b]
  BY WhatIsThere
<1>2. PICK n \in Nat : n = Handed(c, b)
  BY CountsTyped
<1>3. IsInjective(q) /\ \A t \in Range(q) : t <= n
  BY <1>1, <1>2 DEF AddedOnce
<1>4. Len(q) \in Nat
  OBVIOUS
<1>5. /\ Cardinality(Range(q)) = Len(q) /\ Len(q) <= n
      /\ \A t \in 1..n : t \notin Range(q) => Len(q) < n
  BY <1>3, LenRange
<1> QED
  BY <1>1, <1>2, <1>4, <1>5

\* While a tile of a bucket is to be added, or its walk goes on, there is a reference.
LEMMA HasReference ==
  ASSUME Flat, Deep, Located, AddedOnce, References, NEW c \in Core, NEW b \in Bucket
  PROVE  /\ nRefs[c][b] \in Int /\ nRefs[c][b] >= 0
         /\ Held(c, b) = 1 => nRefs[c][b] >= 1
         /\ Len(added[c][b]) < Counted(c, b) => nRefs[c][b] >= 1
<1>1. nRefs[c][b] \in Int
  BY DEF Deep
<1>2. nRefs[c][b] + Len(added[c][b]) = Counted(c, b) + Held(c, b)
  BY DEF References
<1> QED
  BY <1>1, <1>2, LenAdded, CountsTyped

LEMMA PendingHasReference ==
  ASSUME Flat, Deep, Located, AddedOnce, References, NEW x \in Item, Pending(x)
  PROVE  /\ x.bucket \in 1..bucket[x.iCoreOwner] /\ nRefs[x.iCoreOwner][x.bucket] >= 1
<1> DEFINE c == x.iCoreOwner
           b == x.bucket
<1>1. c \in Core /\ b \in Bucket /\ x.tile \in Nat /\ x.tile >= 1
  BY ItemParts, CoreFinite
<1>2. /\ Handed(c, b) \in Int /\ Counted(c, b) \in Int /\ Handed(c, b) <= Counted(c, b)
      /\ Counted(c, b) > 0 => b \in 1..bucket[c]
  BY <1>1, CountsTyped
<1>3. x.tile \in 1..Handed(c, b) /\ x.tile \notin Range(added[c][b])
  BY <1>1, <1>2 DEF Pending
<1> HIDE DEF c, b
<1>4. Len(added[c][b]) < Handed(c, b) /\ Len(added[c][b]) \in Nat
  BY <1>1, <1>3, LenAdded
<1>5. Len(added[c][b]) < Counted(c, b) /\ Counted(c, b) > 0
  BY <1>2, <1>4
<1>6. nRefs[c][b] >= 1
  BY <1>1, <1>5, HasReference
<1> QED
  BY <1>2, <1>5, <1>6 DEF c, b

\* The bucket a core is inside
LEMMA InsideBucket ==
  ASSUME Flat, Located, NEW c \in Core, at[c] \in Inside
  PROVE  bucket[c] \in Bucket /\ bucket[c] \in 1..bucket[c] /\ Held(c, bucket[c]) = 1
BY CoreFinite DEF Flat, Located, Bucket, Held

------------------------------------------------------------------------------

LEMMA ReferencesSame ==
  ASSUME Deep, References, UNCHANGED <<nRefs, added>>,
         \A d \in Core, b \in Bucket : Counted(d, b)' = Counted(d, b) /\ Held(d, b)' = Held(d, b)
  PROVE  References'
BY DEF References

\* A tile is added, and its reference goes.
LEMMA ReferencesDone ==
  ASSUME Deep, References, NEW c \in Core, NEW x \in Item, DoneWork(c, x),
         \A d \in Core, b \in Bucket : Counted(d, b)' = Counted(d, b) /\ Held(d, b)' = Held(d, b)
  PROVE  References'
<1>1. PICK b \in Bucket, t \in 1..Tiles : b = x.bucket /\ t = x.tile
  BY ItemParts
<1>2. /\ added'[c][b] = Append(added[c][b], t) /\ nRefs'[c][b] = nRefs[c][b] - 1
      /\ \A d \in Core, e \in Bucket : d # c \/ e # b => added'[d][e] = added[d][e] /\ nRefs'[d][e] = nRefs[d][e]
  BY <1>1, DoneTypes
<1>3. added[c][b] \in Seq(1..Tiles) /\ nRefs[c][b] \in Int
  BY DEF Deep
<1>4. Len(added'[c][b]) = Len(added[c][b]) + 1 /\ Len(added[c][b]) \in Nat
  BY <1>2, <1>3
<1>5. nRefs'[c][b] + Len(added'[c][b]) = nRefs[c][b] + Len(added[c][b])
  <2>1. PICK n \in Int, k \in Nat : n = nRefs[c][b] /\ k = Len(added[c][b])
    BY <1>3, <1>4
  <2>2. nRefs'[c][b] = n - 1 /\ Len(added'[c][b]) = k + 1
    BY <1>2, <1>4, <2>1
  <2>3. (n - 1) + (k + 1) = n + k
    OBVIOUS
  <2> QED
    BY <2>1, <2>2, <2>3
<1>6. \A d \in Core, e \in Bucket : nRefs'[d][e] + Len(added'[d][e]) = nRefs[d][e] + Len(added[d][e])
  BY <1>2, <1>5
<1> QED
  BY <1>6 DEF References

LEMMA KicksSame ==
  ASSUME KicksCounted, UNCHANGED <<nRefs, nRung, bucket>>
  PROVE  KicksCounted'
BY DEF KicksCounted, Kicked

\* A bucket is kicked with its last reference.
LEMMA KicksReleased ==
  ASSUME Flat, Deep, KicksCounted, NEW c \in Core, NEW b \in Bucket, b \in 1..bucket[c], nRefs[c][b] >= 1,
         Released(c, b), bucket' = bucket
  PROVE  KicksCounted'
<1>0. nRefs[c][b] \in Int /\ nRung \in [Core -> Int] /\ bucket[c] \in Nat
  BY CoreFinite DEF Deep, Flat
<1>1. /\ nRefs'[c][b] = nRefs[c][b] - 1
      /\ \A d \in Core, e \in Bucket : d # c \/ e # b => nRefs'[d][e] = nRefs[d][e]
  <2>1. nRefs' = [nRefs EXCEPT ![c] = [nRefs[c] EXCEPT ![b] = nRefs[c][b] - 1]]
    BY DEF Released
  <2> QED
    BY <1>0, <2>1 DEF Deep
<1>2. \A d \in Core : 1..bucket[d] \in SUBSET Bucket
  BY CoreFinite DEF Flat, Bucket
<1>3. \A d \in Core : d # c => Kicked(d)' = Kicked(d)
  BY <1>1, <1>2 DEF Kicked
<1>4. IsFiniteSet(Kicked(c)) /\ Cardinality(Kicked(c)) \in Nat
  <2>1. IsFiniteSet(1..bucket[c]) /\ Kicked(c) \in SUBSET (1..bucket[c])
    <3>1. \A n \in Nat : IsFiniteSet(1..n)
      BY FS_Interval
    <3> QED
      BY <1>0, <3>1 DEF Kicked
  <2> QED
    BY <2>1, FS_Subset, FS_CardinalityType
<1>5. CASE nRefs[c][b] = 1
  <2>1. Kicked(c)' = Kicked(c) \cup {b} /\ b \notin Kicked(c)
    BY <1>0, <1>1, <1>2, <1>5 DEF Kicked
  <2>2. Cardinality(Kicked(c) \cup {b}) = Cardinality(Kicked(c)) + 1
    BY <1>4, <2>1, FS_AddElement
  <2>3. nRung' = [nRung EXCEPT ![c] = nRung[c] + 1]
    BY <1>5 DEF Released
  <2> QED
    BY <1>0, <1>3, <2>1, <2>2, <2>3 DEF KicksCounted
<1>6. CASE nRefs[c][b] # 1
  <2>1. Kicked(c)' = Kicked(c)
    BY <1>0, <1>1, <1>2, <1>6 DEF Kicked
  <2>2. nRung' = nRung
    BY <1>6 DEF Released
  <2> QED
    BY <1>3, <2>1, <2>2 DEF KicksCounted
<1> QED
  BY <1>5, <1>6

LEMMA ReferencesStep ==
  Flat /\ Deep /\ Located /\ References /\ AddedOnce /\ [Next]_vars => References'
<1> SUFFICES ASSUME Flat, Deep, Located, References, AddedOnce, [Next]_vars PROVE References'
  OBVIOUS
<1>0. nRefs \in [Core -> [Bucket -> Int]]
  BY DEF Deep
<1>1. ASSUME NEW c \in Core, StartBucket(c) PROVE References'
  <2>1. PICK b \in Bucket : b = bucket[c] + 1
    BY <1>1, CoreFinite DEF StartBucket, Start, Flat, Bucket
  <2>2. nRefs' = [nRefs EXCEPT ![c] = [nRefs[c] EXCEPT ![b] = 1]] /\ added' = added
    BY <1>1, <2>1 DEF StartBucket, Start
  <2>3. nRefs'[c][b] = 1 /\ \A d \in Core, e \in Bucket : d # c \/ e # b => nRefs'[d][e] = nRefs[d][e]
    BY <1>0, <2>2
  <2>4. Handed(c, b) = 0 /\ Counted(c, b) = 0
    BY <1>1, <2>1, CountsStart
  <2>5. Len(added[c][b]) = 0
    BY <2>4, LenAdded
  <2>6. /\ \A d \in Core, e \in Bucket : Counted(d, e)' = Counted(d, e)
        /\ Held(c, b)' = 1
        /\ \A d \in Core, e \in Bucket : d # c \/ e # b => Held(d, e)' = Held(d, e)
    BY <1>1, <2>1, CountsStart
  <2>7. nRefs'[c][b] + Len(added'[c][b]) = Counted(c, b)' + Held(c, b)'
    BY <2>2, <2>3, <2>4, <2>5, <2>6
  <2> QED
    BY <2>2, <2>3, <2>6, <2>7 DEF References
<1>2. ASSUME NEW c \in Core, NextTile(c) PROVE References'
  <2>1. PICK b \in Bucket : b = bucket[c]
    BY <1>2, InsideBucket DEF NextTile, Inside
  <2>2. nRefs' = [nRefs EXCEPT ![c] = [nRefs[c] EXCEPT ![b] = nRefs[c][b] + 1]] /\ added' = added
    BY <1>2, <2>1 DEF NextTile
  <2>3. /\ nRefs'[c][b] = nRefs[c][b] + 1 /\ nRefs[c][b] \in Int
        /\ \A d \in Core, e \in Bucket : d # c \/ e # b => nRefs'[d][e] = nRefs[d][e]
    BY <1>0, <2>2
  <2>4. /\ \A d \in Core, e \in Bucket : Held(d, e)' = Held(d, e)
        /\ Counted(c, b)' = Counted(c, b) + 1
        /\ \A d \in Core, e \in Bucket : d # c \/ e # b => Counted(d, e)' = Counted(d, e)
    BY <1>2, <2>1, CountsNext
  <2>5. nRefs[c][b] + Len(added[c][b]) = Counted(c, b) + Held(c, b)
    BY DEF References
  <2>6. Len(added[c][b]) \in Nat /\ Counted(c, b) \in Int /\ Held(c, b) \in Int
    BY LenAdded, CountsTyped
  <2>7. nRefs'[c][b] + Len(added'[c][b]) = Counted(c, b)' + Held(c, b)'
    <3>1. Len(added'[c][b]) = Len(added[c][b]) /\ Held(c, b)' = Held(c, b)
      BY <2>2, <2>4
    <3>2. PICK l, n, a, h \in Int : l = Len(added[c][b]) /\ n = nRefs[c][b] /\ a = Counted(c, b) /\ h = Held(c, b)
      BY <2>3, <2>6
    <3>3. n + l = a + h
      BY <2>5, <3>2
    <3>4. (n + 1) + l = (a + 1) + h
      BY <3>3
    <3> QED
      BY <2>3, <2>4, <3>1, <3>2, <3>4
  <2> QED
    BY <2>2, <2>3, <2>4, <2>7 DEF References
<1>3. ASSUME NEW c \in Core, EndBucket(c) PROVE References'
  <2>1. PICK b \in Bucket : b = bucket[c]
    BY <1>3, InsideBucket DEF EndBucket, Inside
  <2>2. nRefs' = [nRefs EXCEPT ![c] = [nRefs[c] EXCEPT ![b] = nRefs[c][b] - 1]] /\ added' = added
    BY <1>3, <2>1 DEF EndBucket, Released
  <2>3. /\ nRefs'[c][b] = nRefs[c][b] - 1 /\ nRefs[c][b] \in Int
        /\ \A d \in Core, e \in Bucket : d # c \/ e # b => nRefs'[d][e] = nRefs[d][e]
    BY <1>0, <2>2
  <2>4. /\ \A d \in Core, e \in Bucket : Counted(d, e)' = Counted(d, e)
        /\ Held(c, b)' = 0 /\ Held(c, b) = 1
        /\ \A d \in Core, e \in Bucket : d # c \/ e # b => Held(d, e)' = Held(d, e)
    BY <1>3, <2>1, CountsEnd
  <2>5. nRefs[c][b] + Len(added[c][b]) = Counted(c, b) + Held(c, b)
    BY DEF References
  <2>6. Len(added[c][b]) \in Nat /\ Counted(c, b) \in Int
    BY LenAdded, CountsTyped
  <2>7. nRefs'[c][b] + Len(added'[c][b]) = Counted(c, b)' + Held(c, b)'
    BY <2>2, <2>3, <2>4, <2>5, <2>6
  <2> QED
    BY <2>2, <2>3, <2>4, <2>7 DEF References
<1>4. ASSUME NEW c \in Core, Enqueue(c) \/ DoItself(c) PROVE References'
  <2>1. at[c] \in InHand /\ at' = [at EXCEPT ![c] = "queue"] /\ UNCHANGED <<bucket, tile>>
    BY <1>4 DEF Enqueue, DoItself, GoTo, InHand
  <2>2. \A d \in Core, b \in Bucket : Counted(d, b)' = Counted(d, b) /\ Held(d, b)' = Held(d, b)
    BY <2>1, CountsHand
  <2>3. CASE Enqueue(c)
    BY <2>2, <2>3, ReferencesSame DEF Enqueue, forces
  <2>4. CASE DoItself(c)
    <3>1. PICK x \in Item : x = Here(c)
      BY <2>1, HereIsItem
    <3>2. DoneWork(c, x)
      BY <2>4, <3>1 DEF DoItself
    <3> QED
      BY <2>2, <3>2, ReferencesDone
  <2> QED
    BY <1>4, <2>3, <2>4
<1>5. ASSUME NEW c \in Core, \/ Elsewhere(c) \/ DoSomeWork(c) \/ SendBack(c) PROVE References'
  <2>1. UNCHANGED <<nRefs, added>>
    BY <1>5 DEF Elsewhere, AddWork, Add, SeekHelper, Put, EndWalk, Work, DidSomeWork, FinishCache, PassBarrier,
                Report, DoSomeWork, SendBack, forces
  <2> QED
    BY <1>5, <2>1, CountsElsewhere, ReferencesSame
<1>6. ASSUME NEW c \in Core, ReQueue(c) \/ Collect(c) PROVE References'
  <2>1. \A d \in Core, b \in Bucket : Counted(d, b)' = Counted(d, b) /\ Held(d, b)' = Held(d, b)
    BY <1>6, CountsElsewhere
  <2>2. PICK x \in Item : DoneWork(c, x)
    <3>1. CASE ReQueue(c)
      BY <3>1, WhatIsThere DEF ReQueue, Located
    <3>2. CASE Collect(c)
      BY <3>2, WhatIsThere, RangeTail DEF Collect
    <3> QED
      BY <1>6, <3>1, <3>2
  <2> QED
    BY <2>1, <2>2, ReferencesDone
<1>7. CASE Idle \/ UNCHANGED vars
  BY <1>7, ReferencesSame DEF Idle, vars, walk, forces, Counted, Held
<1> QED
  BY <1>1, <1>2, <1>3, <1>4, <1>5, <1>6, <1>7 DEF Next, CoreStep, Elsewhere

LEMMA KicksStep ==
  Flat /\ Deep /\ Located /\ AllPending /\ AddedOnce /\ References /\ KicksCounted /\ [Next]_vars => KicksCounted'
<1> SUFFICES ASSUME Flat, Deep, Located, AllPending, AddedOnce, References, KicksCounted, [Next]_vars
             PROVE  KicksCounted'
  OBVIOUS
<1>0. /\ nRefs \in [Core -> [Bucket -> Int]] /\ \A d \in Core : bucket[d] \in Nat /\ 1..bucket[d] \in SUBSET Bucket
      /\ bucket \in [Core -> 0..MaxBuckets]
  BY CoreFinite DEF Deep, Flat, Bucket
<1>1. ASSUME NEW c \in Core, StartBucket(c) PROVE KicksCounted'
  <2>1. PICK b \in Bucket : b = bucket[c] + 1
    BY <1>1, CoreFinite DEF StartBucket, Start, Flat, Bucket
  <2>2. /\ nRefs' = [nRefs EXCEPT ![c] = [nRefs[c] EXCEPT ![b] = 1]] /\ nRung' = nRung
        /\ bucket' = [bucket EXCEPT ![c] = b]
    BY <1>1, <2>1 DEF StartBucket, Start
  <2>3. nRefs'[c][b] = 1 /\ \A d \in Core, e \in Bucket : d # c \/ e # b => nRefs'[d][e] = nRefs[d][e]
    BY <1>0, <2>2
  <2>4. \A d \in Core : d # c => Kicked(d)' = Kicked(d)
    BY <1>0, <2>2, <2>3 DEF Kicked
  <2>5. Kicked(c)' = Kicked(c)
    <3>1. bucket'[c] = bucket[c] + 1 /\ bucket[c] \in Nat
      BY <1>0, <2>1, <2>2
    <3>2. 1..bucket'[c] = 1..bucket[c] \cup {b}
      BY <2>1, <3>1
    <3>3. \A e \in 1..bucket[c] : nRefs'[c][e] = nRefs[c][e]
      BY <1>0, <2>1, <2>3
    <3> QED
      BY <2>3, <3>2, <3>3 DEF Kicked
  <2> QED
    BY <2>2, <2>4, <2>5 DEF KicksCounted
<1>2. ASSUME NEW c \in Core, NextTile(c) PROVE KicksCounted'
  <2>1. PICK b \in Bucket : b = bucket[c] /\ Held(c, b) = 1
    BY <1>2, InsideBucket DEF NextTile, Inside
  <2>2. /\ nRefs' = [nRefs EXCEPT ![c] = [nRefs[c] EXCEPT ![b] = nRefs[c][b] + 1]]
        /\ UNCHANGED <<bucket, nRung>>
    BY <1>2, <2>1 DEF NextTile
  <2>3. nRefs[c][b] \in Int /\ nRefs[c][b] >= 1
    BY <2>1, HasReference
  <2>4. /\ nRefs'[c][b] = nRefs[c][b] + 1
        /\ \A d \in Core, e \in Bucket : d # c \/ e # b => nRefs'[d][e] = nRefs[d][e]
    BY <1>0, <2>2
  <2>5. \A d \in Core, e \in Bucket : nRefs'[d][e] = 0 <=> nRefs[d][e] = 0
    BY <2>3, <2>4
  <2>6. \A d \in Core : Kicked(d)' = Kicked(d)
    BY <1>0, <2>2, <2>5 DEF Kicked
  <2> QED
    BY <2>2, <2>6 DEF KicksCounted
<1>3. ASSUME NEW c \in Core, EndBucket(c) PROVE KicksCounted'
  <2>1. PICK b \in Bucket : b = bucket[c] /\ b \in 1..bucket[c] /\ Held(c, b) = 1
    BY <1>3, InsideBucket DEF EndBucket, Inside
  <2>2. nRefs[c][b] >= 1
    BY <2>1, HasReference
  <2> QED
    BY <1>3, <2>1, <2>2, KicksReleased DEF EndBucket
<1>4. ASSUME NEW c \in Core, DoItself(c) PROVE KicksCounted'
  <2>1. PICK b \in Bucket : b = bucket[c] /\ b \in 1..bucket[c] /\ Held(c, b) = 1
    BY <1>4, InsideBucket DEF DoItself, Inside, InHand
  <2>2. nRefs[c][b] >= 1
    BY <2>1, HasReference
  <2>3. Released(c, b)
    BY <1>4, <2>1, HereIsItem DEF DoItself, DoneWork, InHand
  <2> QED
    BY <1>4, <2>1, <2>2, <2>3, KicksReleased DEF DoItself
<1>5. ASSUME NEW c \in Core, ReQueue(c) \/ Collect(c) PROVE KicksCounted'
  <2>1. PICK x \in Item : Pending(x) /\ x.iCoreOwner = c /\ DoneWork(c, x)
    <3>1. CASE ReQueue(c)
      BY <3>1, WhatIsThere DEF ReQueue, Located, AllPending
    <3>2. CASE Collect(c)
      <4>1. Head(wqDone[c]) \in Range(wqDone[c]) /\ Head(wqDone[c]) \in Item
        BY <3>2, WhatIsThere, RangeTail DEF Collect
      <4> QED
        BY <3>2, <4>1 DEF Collect, AllPending
    <3> QED
      BY <1>5, <3>1, <3>2
  <2>2. x.bucket \in 1..bucket[c] /\ nRefs[c][x.bucket] >= 1 /\ x.bucket \in Bucket
    BY <2>1, ItemParts, PendingHasReference
  <2>3. Released(c, x.bucket) /\ bucket' = bucket
    BY <1>5, <2>1 DEF DoneWork, ReQueue, Collect, walk
  <2> QED
    BY <2>2, <2>3, KicksReleased
<1>6. ASSUME NEW c \in Core, Enqueue(c) \/ Elsewhere(c) \/ DoSomeWork(c) \/ SendBack(c) PROVE KicksCounted'
  <2>1. UNCHANGED <<nRefs, nRung, bucket>>
    BY <1>6 DEF Enqueue, Elsewhere, AddWork, Add, SeekHelper, Put, EndWalk, Work, DidSomeWork, FinishCache,
                PassBarrier, Report, DoSomeWork, SendBack, forces, walk
  <2> QED
    BY <2>1, KicksSame
<1>7. CASE Idle \/ UNCHANGED vars
  BY <1>7, KicksSame DEF Idle, vars, walk, forces
<1> QED
  BY <1>1, <1>2, <1>3, <1>4, <1>5, <1>6, <1>7 DEF Next, CoreStep, Elsewhere

------------------------------------------------------------------------------
(* The theorems *)

LEMMA InvInit == Init => IInv
<1> SUFFICES ASSUME Init PROVE IInv
  OBVIOUS
<1> USE CoreFinite DEF Init
<1>1. 0 \in Core
  BY DEF Core
<1>2. Flat
  BY <1>1 DEF Flat, Walking
<1>3. Range(<<>>) = {} /\ IsInjective(<<>>)
  BY DEF Range, IsInjective
<1>4. Deep
  BY DEF Deep
<1>5. Located
  BY DEF Located, Walking, Inside, InHand
<1>6. Gates
  BY DEF Gates
<1>7. Sizes
  <2>1. \A c \in Core : Putters(c) = {} /\ Enqueuers(c) = {}
    BY DEF Putters, Enqueuers
  <2>2. Cardinality({}) = 0
    BY FS_EmptySet
  <2>3. Room \in Int /\ Room >= 0
    BY RoomIs
  <2>4. ASSUME NEW c \in Core PROVE SizeOf(c)
    <3>1. wqCurSize[c] = 0 /\ Len(wq[c]) = 0 /\ doing[c] = "no"
      OBVIOUS
    <3>2. Cardinality(Putters(c)) = 0 /\ Cardinality(Enqueuers(c)) = 0
      BY <2>1, <2>2
    <3> HIDE DEF Init
    <3> QED
      BY <2>3, <3>1, <3>2 DEF SizeOf
  <2> QED
    BY <2>4 DEF Sizes
<1>8. AllPending
  BY <1>3 DEF AllPending
<1>9. NoneTwice
  BY <1>3 DEF NoneTwice, Apart
<1>10. AddedOnce
  BY <1>3 DEF AddedOnce
<1>11. References
  BY DEF References, Counted, Held, Bucket
<1>12. KicksCounted
  <2>1. \A c \in Core : Kicked(c) = {}
    BY DEF Kicked
  <2> QED
    BY <2>1, FS_EmptySet DEF KicksCounted
<1> QED
  BY <1>2, <1>4, <1>5, <1>6, <1>7, <1>8, <1>9, <1>10, <1>11, <1>12 DEF IInv, Types

LEMMA InvHolds == Spec => []IInv
<1>1. Init => IInv
  BY InvInit
<1>2. IInv /\ [Next]_vars => IInv'
  BY FlatStep, DeepStep, LocatedStep, GatesStep, SizesStep, ItemsStep, ReferencesStep, KicksStep DEF IInv, Types
<1> QED
  BY <1>1, <1>2, PTL DEF Spec

\* Every variable keeps its type, and every core is where its barriers and its items say.
THEOREM TypeCorrect == Spec => [](Types /\ Located)
<1>1. IInv => Types /\ Located
  BY DEF IInv
<1> QED
  BY <1>1, InvHolds, PTL

\* An item is put only into a queue that has a place for it: at most one too many of each core
\* but two, as what a core has read of a queue is still good when it puts the item in.
THEOREM PlacesKept == Spec => []PlacesHold
<1>1. ASSUME IInv PROVE PlacesHold
  <2> SUFFICES ASSUME NEW c \in Core
               PROVE  /\ Len(wq[c]) <= wqCurSize[c] /\ wqCurSize[c] <= Room
                      /\ at[c] \in {"put", "enqueue"} /\ seek[c] # c
                           => wqAccepting[seek[c]] /\ at[seek[c]] = "barrier"
    BY DEF PlacesHold, Room
  <2>1. wqCurSize[c] \in Int /\ seek[c] \in Core /\ Len(wq[c]) \in Nat
    BY <1>1, LenWq DEF IInv, Types, Flat
  <2>2. SizeOf(c)
    BY <1>1 DEF IInv, Sizes
  <2>3. Len(wq[c]) <= wqCurSize[c] /\ wqCurSize[c] <= Room
    BY <2>1, <2>2, PuttersFinite, RoomIs DEF SizeOf
  <2>4. at[c] \in {"put", "enqueue"} /\ seek[c] # c => wqAccepting[seek[c]] /\ at[seek[c]] = "barrier"
    BY <1>1, <2>1 DEF IInv, Gates, Located
  <2> QED
    BY <2>3, <2>4
<1> QED
  BY <1>1, InvHolds, PTL

\* The particles of a bucket are kicked and counted once, with all of its tiles added once.
THEOREM KickedComplete == Spec => []KickedWhenComplete
<1>1. ASSUME IInv PROVE KickedWhenComplete
  <2>0. Flat /\ Deep /\ Located /\ AddedOnce /\ References /\ KicksCounted
    BY <1>1 DEF IInv, Types
  <2> SUFFICES ASSUME NEW c \in Core
               PROVE  /\ \A b \in Bucket : /\ nRefs[c][b] >= 0
                                           /\ Cardinality(Range(added[c][b])) = Len(added[c][b])
                      /\ nRung[c] = Cardinality(Kicked(c))
                      /\ \A b \in 1..bucket[c] : nRefs[c][b] = 0 => Len(added[c][b]) = Tiles
    BY DEF KickedWhenComplete, Kicked
  <2>1. \A b \in Bucket : nRefs[c][b] >= 0 /\ Cardinality(Range(added[c][b])) = Len(added[c][b])
    BY <2>0, HasReference, LenAdded
  <2>2. nRung[c] = Cardinality(Kicked(c))
    BY <2>0 DEF KicksCounted
  <2>3. ASSUME NEW b \in 1..bucket[c], nRefs[c][b] = 0 PROVE Len(added[c][b]) = Tiles
    <3>1. b \in Bucket /\ b <= bucket[c]
      BY <2>0, CoreFinite DEF Flat, Bucket
    <3>2. nRefs[c][b] + Len(added[c][b]) = Counted(c, b) + Held(c, b)
      BY <2>0, <3>1 DEF References
    <3>3. /\ Len(added[c][b]) \in Nat /\ Len(added[c][b]) <= Handed(c, b)
          /\ Handed(c, b) \in Int /\ Counted(c, b) \in Int /\ Handed(c, b) <= Counted(c, b) /\ Held(c, b) \in {0, 1}
          /\ Held(c, b) = 0 => Counted(c, b) = Tiles
      BY <2>0, <3>1, LenAdded, CountsTyped
    <3>4. Held(c, b) = 0
      BY <2>3, <3>2, <3>3
    <3> QED
      BY <2>3, <3>2, <3>3, <3>4, CoreFinite
  <2> QED
    BY <2>1, <2>2, <2>3
<1> QED
  BY <1>1, InvHolds, PTL
=============================================================================
