------------------------------- MODULE RWLock -------------------------------
(***************************************************************************)
(* The lock of a CACHE (mdl2/mpi/rwlock.h) and the one thing it is for: a   *)
(* cache element owned by a core is combined with flushed data by that core *)
(* (mdlClass::MessageFlushToCore) while the MPI thread and the other cores  *)
(* of the node copy it out (mpiClass::CacheReceiveRequest and               *)
(* CACHE::finishRequest).  The element is modelled by two words that a      *)
(* combine updates one after the other, and a copy reads likewise.          *)
(*                                                                         *)
(* `count' is an atomic integer: positive while readers hold the lock,      *)
(* negative while writers do.  A thread loads it, tests it and publishes    *)
(* the new value with compare_exchange_weak, which may also fail            *)
(* spuriously; load and exchange are two steps.                             *)
(***************************************************************************)
EXTENDS Integers, FiniteSets

CONSTANTS Reader,      \* threads that copy the element
          Writer,      \* threads that combine into it: its owner, unless mdlAcquireWrite is used
          MaxCombine   \* bound: no combine starts once the element's first word is this large

ASSUME ThreadAssumption ==
  /\ IsFiniteSet(Reader) /\ IsFiniteSet(Writer)
  /\ Reader \cap Writer = {}
  /\ MaxCombine \in Nat

Thread == Reader \cup Writer

VARIABLES count,     \* RWLock::count
          pc,        \* where each thread is
          prev,      \* its local `prev'
          word,      \* the two words of the element
          copy       \* the words a thread has read so far

lockVars == <<count, pc, prev, word, copy>>
countVars == <<count, prev>>
elementVars == <<word, copy>>

Part == {1, 2}

LockInit ==
  /\ count = 0
  /\ pc = [t \in Thread |-> "out"]
  /\ prev = [t \in Thread |-> 0]
  /\ word = [i \in Part |-> 0]
  /\ copy = [t \in Thread |-> [i \in Part |-> 0]]

Goto(t, l) == pc' = [pc EXCEPT ![t] = l]

------------------------------------------------------------------------------
(* lock_read and lock_write: the load, then the exchange *)

\* A thread enters lock_read, or goes round its loop again, and loads the count.
LoadRead(t) ==
  /\ pc[t] = "out"
  /\ prev' = [prev EXCEPT ![t] = count]
  /\ Goto(t, "tryRead")
  /\ UNCHANGED <<count, elementVars>>

LoadWrite(t) ==
  /\ pc[t] = "out"
  /\ word[1] < MaxCombine
  /\ prev' = [prev EXCEPT ![t] = count]
  /\ Goto(t, "tryWrite")
  /\ UNCHANGED <<count, elementVars>>

MayRead_AnyCount(t) == TRUE

MayRead(t) == prev[t] >= 0

AcquireRead(t) ==
  /\ pc[t] = "tryRead"
  /\ MayRead(t) /\ count = prev[t]
  /\ count' = count + 1
  /\ Goto(t, "read1")
  /\ UNCHANGED <<prev, elementVars>>

MayWrite(t) == prev[t] <= 0

AcquireWrite(t) ==
  /\ pc[t] = "tryWrite"
  /\ MayWrite(t) /\ count = prev[t]
  /\ count' = count - 1
  /\ Goto(t, "write1")
  /\ UNCHANGED <<prev, elementVars>>

\* The test fails, the count has moved, or the weak exchange fails spuriously:
\* yield and load again.
Retry(t) ==
  /\ pc[t] \in {"tryRead", "tryWrite"}
  /\ Goto(t, "out")
  /\ UNCHANGED <<countVars, elementVars>>

------------------------------------------------------------------------------
(* The critical sections *)

\* pack or unpack copies the element a part at a time.
Copy(t) ==
  \E i \in Part :
    /\ pc[t] = (IF i = 1 THEN "read1" ELSE "read2")
    /\ copy' = [copy EXCEPT ![t][i] = word[i]]
    /\ Goto(t, IF i = 1 THEN "read2" ELSE "unlockRead")
    /\ UNCHANGED <<countVars, word>>

\* combine reads both parts, then stores them one after the other.
CombineLoad(t) ==
  /\ pc[t] = "write1"
  /\ copy' = [copy EXCEPT ![t] = word]
  /\ Goto(t, "write2")
  /\ UNCHANGED <<countVars, word>>

CombineStore(t) ==
  \E i \in Part :
    /\ pc[t] = (IF i = 1 THEN "write2" ELSE "write3")
    /\ word' = [word EXCEPT ![i] = copy[t][i] + 1]
    /\ Goto(t, IF i = 1 THEN "write3" ELSE "unlockWrite")
    /\ UNCHANGED <<countVars, copy>>

UnlockRead(t) ==
  /\ pc[t] = "unlockRead"
  /\ count' = count - 1
  /\ Goto(t, "out")
  /\ UNCHANGED <<prev, elementVars>>

UnlockWrite(t) ==
  /\ pc[t] = "unlockWrite"
  /\ count' = count + 1
  /\ Goto(t, "out")
  /\ UNCHANGED <<prev, elementVars>>

LockNext ==
  \/ \E t \in Reader : LoadRead(t) \/ AcquireRead(t) \/ Copy(t) \/ UnlockRead(t)
  \/ \E t \in Writer : LoadWrite(t) \/ AcquireWrite(t) \/ CombineLoad(t) \/ CombineStore(t) \/ UnlockWrite(t)
  \/ \E t \in Thread : Retry(t)

LockSpec == LockInit /\ [][LockNext]_lockVars
------------------------------------------------------------------------------
(* Properties *)

Reading == {t \in Thread : pc[t] \in {"read1", "read2", "unlockRead"}}
Writing == {t \in Thread : pc[t] \in {"write1", "write2", "write3", "unlockWrite"}}

Locations == {"out", "tryRead", "tryWrite", "read1", "read2", "unlockRead",
              "write1", "write2", "write3", "unlockWrite"}

\* Types of the variables; the count never counts more threads than there are.
LockTypeOK ==
  /\ count \in (-Cardinality(Writer))..Cardinality(Reader)
  /\ pc \in [Thread -> Locations]
  /\ prev \in [Thread -> Int]
  /\ word \in [Part -> Nat]
  /\ copy \in [Thread -> [Part -> Nat]]

\* Readers and writers exclude each other although the count is tested one step
\* before it is exchanged (lock_read, lock_write).
ReadersExcludeWriters == Reading = {} \/ Writing = {}

\* The count says who is inside: with the exclusion, its sign tells a reader's
\* section from a writer's and zero means the lock is free (lock_*, unlock_*).
CountIsOccupancy == count = Cardinality(Reading) - Cardinality(Writing)

\* A completed copy is of one moment: never half of one combine and half of the
\* next (the comment in MessageFlushToCore names this danger).
NoTornCopy == \A t \in Reader : pc[t] = "unlockRead" => copy[t][1] = copy[t][2]

=============================================================================
