----------------------------- MODULE WorkQueue ------------------------------
(***************************************************************************)
(* The work queues of the cores of one process (mdlAddWork, DoSomeWork and  *)
(* CompleteAllWork in mdl.cxx) in a gravity calculation, which is what they *)
(* are used for (grav2.cxx, walk2.cxx, pkdGravAll in pkd.c).                *)
(*                                                                         *)
(* A walk comes to one bucket after another.  The interactions of a bucket  *)
(* are in tiles, and each tile is an item of work: it is queued by its core,*)
(* or given to a core that waits at the end of the walk, or done at once.   *)
(* An item done by another core goes back to its owner, which adds it to    *)
(* the bucket's forces.  With the last item of a bucket its particles are   *)
(* kicked and counted.                                                      *)
(*                                                                         *)
(* A step of a core is at most one access to what other cores see: a queue, *)
(* wqAccepting, or wqCurSize.                                               *)
(***************************************************************************)
EXTENDS Integers, Sequences, SequencesExt

CONSTANTS Cores,      \* of the process
          wqMaxSize,  \* param.iWorkQueueSize, for every core
          Tiles,      \* of each bucket
          MaxBuckets  \* bound: buckets of a core

ASSUME WorkQueueAssumption ==
  Cores \in Nat \ {0} /\ wqMaxSize \in Nat /\ Tiles \in Nat /\ MaxBuckets \in Nat

Core == 0..(Cores - 1)
Bucket == 1..MaxBuckets

VARIABLES
  nBuckets,     \* buckets of each core
  wq, wqDone,   \* queues of each core: items for it to do, and items of its own done by others
  nFree,        \* length of wqFree
  wqCurSize, wqAccepting, wqLastHelper,
  at,           \* where each core is in its gravity calculation
  bucket, tile, \* the bucket and the tile its walk has come to
  seek,         \* i, and then Qmdl, of mdlAddWork
  barriers,     \* barriers of FinishCache each core has come to
  doing,        \* where it is in DoSomeWork, "no" if not there
  hand,         \* the item it has taken in DoSomeWork
  rc,           \* of DoSomeWork
  nRefs,        \* of the work particles of each bucket
  added,        \* what has been added to the forces of each bucket
  nRung,        \* buckets of the core that have been kicked and counted
  reported      \* what it told the master of them

walk == <<at, bucket, tile, seek, barriers, reported>>
sizes == <<nBuckets, wqAccepting, wqLastHelper>>
forces == <<nRefs, added, nRung>>
vars == <<nBuckets, wq, wqDone, nFree, wqCurSize, wqAccepting, wqLastHelper, walk, doing, hand, rc, forces>>

None == [iCoreOwner |-> -1, bucket |-> 0, tile |-> 0]

\* mdlSetWorkQueueSize has made an item for every core and every place.
Init ==
  /\ nBuckets \in [Core -> 0..MaxBuckets]
  /\ wq = [c \in Core |-> <<>>] /\ wqDone = wq
  /\ nFree = [c \in Core |-> Cores * wqMaxSize]
  /\ wqCurSize = [c \in Core |-> 0] /\ wqAccepting = [c \in Core |-> FALSE]
  /\ wqLastHelper = [c \in Core |-> 0]
  /\ at = [c \in Core |-> "walk"] /\ bucket = [c \in Core |-> 0] /\ tile = [c \in Core |-> 0]
  /\ seek = [c \in Core |-> 0] /\ barriers = [c \in Core |-> 0]
  /\ doing = [c \in Core |-> "no"] /\ hand = [c \in Core |-> None] /\ rc = [c \in Core |-> FALSE]
  /\ nRefs = [c \in Core |-> [b \in Bucket |-> 0]]
  /\ added = [c \in Core |-> [b \in Bucket |-> <<>>]]
  /\ nRung = [c \in Core |-> 0] /\ reported = [c \in Core |-> -1]

GoTo(c, where) == at' = [at EXCEPT ![c] = where]

------------------------------------------------------------------------------
(* The forces of a bucket *)

\* pkdParticleWorkDone: with the last reference the particles are kicked and counted.
Released(c, b) ==
  /\ nRefs' = [nRefs EXCEPT ![c][b] = @ - 1]
  /\ nRung' = IF nRefs[c][b] = 1 THEN [nRung EXCEPT ![c] = @ + 1] ELSE nRung

\* doneWorkPP, doneWorkPC
DoneWork(c, item) ==
  /\ added' = [added EXCEPT ![c][item.bucket] = Append(@, item.tile)]
  /\ Released(c, item.bucket)

------------------------------------------------------------------------------
(* The walk: pkdGravInteract, queuePP and mdlAddWork *)

Start(c, refs) ==
  /\ at[c] = "walk" /\ doing[c] = "no" /\ bucket[c] < nBuckets[c]
  /\ bucket' = [bucket EXCEPT ![c] = @ + 1] /\ tile' = [tile EXCEPT ![c] = 0]
  /\ nRefs' = [nRefs EXCEPT ![c][bucket[c] + 1] = refs]
  /\ GoTo(c, "queue")
  /\ UNCHANGED <<sizes, wq, wqDone, nFree, wqCurSize, seek, barriers, reported, doing, hand, rc, added, nRung>>

\* Mutant: the walk itself holds no reference.
StartBucket_NotHeld(c) == Start(c, 0)

\* "I am using it currently"
StartBucket(c) == Start(c, 1)

Here(c) == [iCoreOwner |-> c, bucket |-> bucket[c], tile |-> tile[c]]

NextTile(c) ==
  /\ at[c] = "queue" /\ tile[c] < Tiles
  /\ tile' = [tile EXCEPT ![c] = @ + 1]
  /\ nRefs' = [nRefs EXCEPT ![c][bucket[c]] = @ + 1]
  /\ GoTo(c, "add")
  /\ UNCHANGED <<sizes, wq, wqDone, nFree, wqCurSize, bucket, seek, barriers, reported, doing, hand, rc, added, nRung>>

\* Is there an item, and room in a queue: the core's own, if not one of a core that waits?
Add(c, full) ==
  /\ at[c] = "add"
  /\ GoTo(c, IF nFree[c] = 0 THEN "self" ELSE IF full THEN "scan" ELSE "put")
  /\ seek' = [seek EXCEPT ![c] = IF full THEN wqLastHelper[c] ELSE c]
  /\ UNCHANGED <<sizes, wq, wqDone, nFree, wqCurSize, bucket, tile, barriers, reported, doing, hand, rc, forces>>

AddWork(c) == Add(c, wqCurSize[c] >= wqMaxSize)

\* Mutant: a core that is still in its walk is given items, too.
HasRoom_Any(i) == wqCurSize[i] < wqMaxSize

HasRoom(i) == wqAccepting[i] /\ wqCurSize[i] < wqMaxSize

\* One turn of the loop over the other cores, from the last helper on.
SeekHelper(c) ==
  /\ at[c] = "scan"
  /\ LET i == seek[c]
         next == (i + 1) % Cores
     IN  IF HasRoom(i)
         THEN GoTo(c, "put") /\ wqLastHelper' = [wqLastHelper EXCEPT ![c] = i] /\ seek' = seek
         ELSE /\ seek' = [seek EXCEPT ![c] = next]
              /\ GoTo(c, IF next = wqLastHelper[c] THEN "self" ELSE "scan")
              /\ wqLastHelper' = wqLastHelper
  /\ UNCHANGED <<nBuckets, wqAccepting, wq, wqDone, nFree, wqCurSize, bucket, tile, barriers, reported, doing, hand, rc, forces>>

\* The size is raised first, so that it never is below the number of items.
Put(c) ==
  /\ at[c] = "put"
  /\ nFree' = [nFree EXCEPT ![c] = @ - 1]
  /\ wqCurSize' = [wqCurSize EXCEPT ![seek[c]] = @ + 1]
  /\ GoTo(c, "enqueue")
  /\ UNCHANGED <<sizes, wq, wqDone, bucket, tile, seek, barriers, reported, doing, hand, rc, forces>>

Enqueue(c) ==
  /\ at[c] = "enqueue"
  /\ wq' = [wq EXCEPT ![seek[c]] = Append(@, Here(c))]
  /\ GoTo(c, "queue")
  /\ UNCHANGED <<sizes, wqDone, nFree, wqCurSize, bucket, tile, seek, barriers, reported, doing, hand, rc, forces>>

\* "Just handle it ourselves"
DoItself(c) ==
  /\ at[c] = "self"
  /\ DoneWork(c, Here(c))
  /\ GoTo(c, "queue")
  /\ UNCHANGED <<sizes, wq, wqDone, nFree, wqCurSize, bucket, tile, seek, barriers, reported, doing, hand, rc>>

\* The end of pkdGravInteract
EndBucket(c) ==
  /\ at[c] = "queue" /\ tile[c] = Tiles
  /\ Released(c, bucket[c])
  /\ GoTo(c, "walk")
  /\ UNCHANGED <<sizes, wq, wqDone, nFree, wqCurSize, bucket, tile, seek, barriers, reported, doing, hand, rc, added>>

EndWalk(c) ==
  /\ at[c] = "walk" /\ doing[c] = "no" /\ bucket[c] = nBuckets[c]
  /\ GoTo(c, "complete")
  /\ UNCHANGED <<sizes, wq, wqDone, nFree, wqCurSize, bucket, tile, seek, barriers, reported, doing, hand, rc, forces>>

------------------------------------------------------------------------------
(* DoSomeWork: called in every wait for a message (waitQueue), and by CompleteAllWork *)

\* Mutant: a core that waits for the next service does no work.
Waits_NotIdle(c) == at[c] \in {"walk", "barrier", "report"}

\* For a cell or particle of another thread, for the other cores at the end, for the close
\* of the cache, and for the next service.
Waits(c) == at[c] \in {"walk", "barrier", "report", "idle"}

HasWork(c) == wq[c] # <<>> \/ wqDone[c] # <<>>

\* In a wait, calls that find nothing are left out; CompleteAllWork has to find nothing.
DoSomeWork(c) ==
  /\ doing[c] = "no" /\ (at[c] = "complete" \/ (Waits(c) /\ HasWork(c)))
  /\ rc' = [rc EXCEPT ![c] = wq[c] # <<>>]
  /\ IF wq[c] = <<>>
     THEN doing' = [doing EXCEPT ![c] = "own"] /\ UNCHANGED <<wq, hand>>
     ELSE /\ hand' = [hand EXCEPT ![c] = Head(wq[c])]
          /\ wq' = [wq EXCEPT ![c] = Tail(@)]
          /\ doing' = [doing EXCEPT ![c] = "work"]
  /\ UNCHANGED <<sizes, wqDone, nFree, wqCurSize, walk, forces>>

Work(c) ==
  /\ doing[c] = "work"
  /\ wqCurSize' = [wqCurSize EXCEPT ![c] = @ - 1]
  /\ doing' = [doing EXCEPT ![c] = "done"]
  /\ UNCHANGED <<sizes, wq, wqDone, nFree, walk, hand, rc, forces>>

\* Its own item is complete; another goes to the core it has come from.
ReQueue(c) ==
  /\ doing[c] = "done" /\ hand[c].iCoreOwner = c
  /\ DoneWork(c, hand[c])
  /\ nFree' = [nFree EXCEPT ![c] = @ + 1]
  /\ doing' = [doing EXCEPT ![c] = "own"] /\ hand' = [hand EXCEPT ![c] = None]
  /\ UNCHANGED <<sizes, wq, wqDone, wqCurSize, walk, rc>>

SendBack(c) ==
  /\ doing[c] = "done" /\ hand[c].iCoreOwner # c
  /\ wqDone' = [wqDone EXCEPT ![hand[c].iCoreOwner] = Append(@, hand[c])]
  /\ doing' = [doing EXCEPT ![c] = "own"] /\ hand' = [hand EXCEPT ![c] = None]
  /\ UNCHANGED <<sizes, wq, nFree, wqCurSize, walk, rc, forces>>

\* Items that others have done
Collect(c) ==
  /\ doing[c] = "own" /\ wqDone[c] # <<>>
  /\ DoneWork(c, Head(wqDone[c]))
  /\ wqDone' = [wqDone EXCEPT ![c] = Tail(@)]
  /\ nFree' = [nFree EXCEPT ![c] = @ + 1]
  /\ UNCHANGED <<sizes, wq, wqCurSize, walk, doing, hand, rc>>

DidSomeWork(c) ==
  /\ doing[c] = "own" /\ wqDone[c] = <<>>
  /\ doing' = [doing EXCEPT ![c] = "no"]
  /\ GoTo(c, IF at[c] = "complete" /\ ~rc[c] THEN "finish" ELSE at[c])
  /\ UNCHANGED <<sizes, wq, wqDone, nFree, wqCurSize, bucket, tile, seek, barriers, reported, hand, rc, forces>>

------------------------------------------------------------------------------
(* pkdGravAll after the walk: FinishCache with its three barriers, and the answer *)

FinishCache(c) ==
  /\ at[c] = "finish"
  /\ wqAccepting' = [wqAccepting EXCEPT ![c] = TRUE]
  /\ barriers' = [barriers EXCEPT ![c] = 1]
  /\ GoTo(c, "barrier")
  /\ UNCHANGED <<nBuckets, wqLastHelper, wq, wqDone, nFree, wqCurSize, bucket, tile, seek, reported, doing, hand, rc, forces>>

AllCame(c) == \A other \in Core : barriers[other] >= barriers[c]

\* The last barrier ends FinishCache.
PassBarrier(c) ==
  /\ at[c] = "barrier" /\ doing[c] = "no" /\ AllCame(c)
  /\ IF barriers[c] < 3
     THEN barriers' = [barriers EXCEPT ![c] = @ + 1] /\ UNCHANGED <<at, wqAccepting>>
     ELSE wqAccepting' = [wqAccepting EXCEPT ![c] = FALSE] /\ GoTo(c, "report") /\ UNCHANGED barriers
  /\ UNCHANGED <<nBuckets, wqLastHelper, wq, wqDone, nFree, wqCurSize, bucket, tile, seek, reported, doing, hand, rc, forces>>

\* pnRung is filled in, and the core waits for the next service.
Report(c) ==
  /\ at[c] = "report" /\ doing[c] = "no"
  /\ reported' = [reported EXCEPT ![c] = nRung[c]]
  /\ GoTo(c, "idle")
  /\ UNCHANGED <<sizes, wq, wqDone, nFree, wqCurSize, bucket, tile, seek, barriers, doing, hand, rc, forces>>

CoreStep(c) ==
  \/ StartBucket(c) \/ NextTile(c) \/ AddWork(c) \/ SeekHelper(c) \/ Put(c) \/ Enqueue(c) \/ DoItself(c)
  \/ EndBucket(c) \/ EndWalk(c)
  \/ DoSomeWork(c) \/ Work(c) \/ ReQueue(c) \/ SendBack(c) \/ Collect(c) \/ DidSomeWork(c)
  \/ FinishCache(c) \/ PassBarrier(c) \/ Report(c)

\* The threads wait for the next service.
AllIdle == \A c \in Core : at[c] = "idle" /\ doing[c] = "no"
Idle == AllIdle /\ UNCHANGED vars

Next == (\E c \in Core : CoreStep(c)) \/ Idle

\* Every core is a thread that goes on by itself; its loops yield while they wait.
Spec == Init /\ [][Next]_vars /\ \A c \in Core : WF_vars(CoreStep(c))
------------------------------------------------------------------------------
(* Properties *)

\* The particles of a bucket are kicked and counted once, and not before every tile has been
\* added once to their forces, whichever core did it and in whatever order.
KickedWhenComplete ==
  \A c \in Core :
    /\ \A b \in Bucket : /\ nRefs[c][b] >= 0
                         /\ Cardinality(Range(added[c][b])) = Len(added[c][b])
    /\ nRung[c] = Cardinality({b \in 1..bucket[c] : nRefs[c][b] = 0})
    /\ \A b \in 1..bucket[c] : nRefs[c][b] = 0 => Len(added[c][b]) = Tiles

\* What a core has read of a queue is still good when it puts the item in, however late.
\* The room is looked at before the size is raised: several cores may find the same place
\* free, but each is only one item too many, and a size never is less than the items.  A
\* queue of another core is that of one that waits, as it cannot go on without this core.
PlacesHold ==
  \A c \in Core :
    /\ Len(wq[c]) <= wqCurSize[c] /\ wqCurSize[c] <= wqMaxSize + Max({0, Cores - 2})
    /\ at[c] \in {"put", "enqueue"} /\ seek[c] # c => wqAccepting[seek[c]] /\ at[seek[c]] = "barrier"

\* No item is lost: in the end all particles are kicked.
AllKicked == <>[](\A c \in Core : nRung[c] = nBuckets[c])

\* The comment above pkdGravWalk: "Returns total number of active particles for which gravity
\* was calculated."  It does not hold: an item may still be in the queue of a core that has
\* left the barrier, when its owner, which found nothing to do, counts.
CountedInTime == \A c \in Core : reported[c] >= 0 => reported[c] = nBuckets[c]
=============================================================================
