# Verification of pkdgrav3

pkdgrav3 is a cosmological N-body code: it integrates up to trillions of particles
under gravity (optionally with gas), on many processes of many threads. This directory
holds TLA+ modules that model the parts of it whose correctness depends on the order in
which things happen, TLC configurations that check them on small instances, and proofs,
checked by TLAPS, of what holds for every instance.

Contents: 1 the system, 2 the modules and how they correspond to the code, 3 the runs,
4 fairness and other assumptions, 5 the proofs, 6 disagreements found, 7 what is not
modelled and why, 8 the plan.

## 1. The system

### Layers

    simulate.cxx, master.cxx    MSR: the master program, on thread 0
          |  pst<Service>(), mdlRun...
    pst.c, TraversePST.cxx,     PST: the processor subset tree; a service is called on
    core/setadd.cxx             its root and handed down to every thread
          |  local functions
    pkd.c, domains/, gravity/,  PKD: the particles of one thread, and what is done to
    smooth/, group/, ic/ ...    them; remote data through caches, swaps and the FFT
          |  mdlReqService, mdlAcquire, mdlSwap, mdlAllReduce ...
    mdl2/                       MDL: threads, MPI, caches, services, grids, work queue

One process runs `Cores()` worker threads. All MPI calls are made by one thread of the
process, the *MPI thread*: a thread of its own (`bDedicated`), or worker 0, which then
serves MPI whenever it waits for something (`mdlClass::waitQueue`, `bookkeeping`) and at
times between its own cache accesses. Workers talk to it by message objects that it takes
from a queue and sends back through another (`queueMPInew`, `threadBarrierQueue`,
`queueCacheReply` ...).

### Inventory

| Component | State it keeps | Operations | What makes it correct | Where |
|---|---|---|---|---|
| ARC software cache | five lists of directory entries, lines with lock counts, `target_T1` | fetch, release, clear, initialize | no line has two keys; a modified line is flushed before it is reused; victims exist | ARC |
| Reader/writer lock | one atomic count | lock and unlock for reading and for writing | readers exclude writers, copies are whole | RWLock |
| `mdlSwap` | counters of two sides, the particle stores, a chunk in flight | one exchange | nothing unsent is overwritten, both sides agree on lengths without sending them, it ends | Swap, SwapAtomic |
| Reject exchange | particles and rejects of each thread, answers, pairing | ColRejects, RejMatch, SwapRejects | pairs meet, stores hold, it ends, nothing is left | Rejects |
| Cache flush and close | updates in six kinds of buffers and queues | FinishCache, FlushCache, ThreadBarrier, MPI thread's handlers | every update is combined once, before the cache is closed | CacheFlush |
| Cache sessions, remote fetch | open caches, one request slot for each core, posted receives | open, fetch, answer, close | served only while open, the right answer, all answered | CacheRequest |
| Services, PST | ring of reply tags, the tree, service in progress | ReqService, GetReply, Handler, SetAdd, Traverse, Stop | the ring never fills, each reply goes to its request, each thread once | Services |
| Time stepping, new KDK | rungs, times of positions and velocities, two trees | NewTopStepKDK, Gravity, Drift, Simulate | each particle follows a leapfrog of its own | NewKDK, LeapFrog, Simulate |
| Time stepping, stored accelerations | the same and `uNewRung`, accelerations, counts | TopStepKDK, UpdateRung, kicks | the same, and accelerations are current | TopStepKDK, LeapFrog, Simulate |
| Tree build | nodes of a thread, where the trees begin, the top tree's copy | pkdDumpTrees, BuildTemp, BuildFromTemplate, Create, pkdDistribTopTree | trees share no node, a fixed tree stays while the other is rebuilt | KDTree, Gravity |
| Tree walk | check list, interaction lists, a stack of both | processCheckList, pkdGravWalk | each source once for each group, it ends, the stack is deep enough | GravWalk, Gravity |
| Work queue | queues of each core, their size, items that are free | mdlAddWork, DoSomeWork, CompleteAllWork | a bucket is kicked once and complete, no item is left | WorkQueue |
| Outputs, checkpoints, restart | output times, flags of signals and files, checkpoints | CheckForOutput, OutTime, ReadOuts, Checkpoint, Restart | requests are served, output times have outputs, there is a checkpoint to go on from | Outputs |
| FFT and grids | slabs of a grid over threads | mdlFFT, swapall, GridCoordFirstLast | collective calls by the same threads in the same order | planned |
| Root finder, order splits | bounds, counts on both sides, room | RootSplit, OrdSplit, DomainDecomp | ends, with halves that fit | planned |
| Gravity kernels, Ewald | none between calls | PP, PC, QEval ... | numerical | not modelled |
| Initial conditions | stored particles to be moved | ConstructIC, MoveIC | each particle reaches its slab | planned |
| Groups | group ids over threads, links | FoF, hop, statistics | one id for each group, it ends | planned |
| Smoothing | priority queue, replicas | smooth, fast gas | the k nearest | planned, late |
| Light cone, analysis, cosmology, input and output, parameters | | | numerical or pure input and output | not modelled |

PROJECT.json lists each component with its sources and status.

### How they interact, and what is hard

* **Threads and their MPI thread.** Queues carry messages both ways; while a worker waits,
  it does other work (combining flushed cache elements, serving MPI). What it read before
  the wait may be old after it. Waits in the wrong place, on a buffer that only the
  waiting thread can free, are deadlocks that need a burst of traffic to show.
* **Processes.** Messages of one kind are received in order, but sends complete at the
  sender before the receiver has looked at them; the caches rely on *synchronous* sends and
  a global barrier to know that nothing is on its way.
* **Caches.** One element goes through the ARC cache of a thread, buffers of the core, of
  the rank, the network and buffers of the owner; increments that are lost or doubled change
  sums by amounts nobody notices.
* **Domain decomposition.** Threads exchange particles in place, in stores that are nearly
  full, without sending the length of any message.
* **Time stepping.** A recursion over rungs is unrolled and the rungs change within it;
  one mistake makes a particle skip half a step, which no test of energy would see.
* **Trees.** Two trees, their copies of the top tree, and caches over both live in one array of
  nodes; truncating it at the wrong place frees what other threads still fetch.
* **Walks.** Every opening changes several lists at several levels of a stack; a cell that is on two
  of them, or on none, is a small error of the forces and of nothing else.
* **Work of other cores.** A core that waits does tiles of another's buckets; whoever does the last
  one kicks the particles, and the owner may already have told the master that it is done.
* **Restart.** All state outside the checkpoint is found again from parameters and clocks. Signals come
  between any two steps, and the program may die between any two writes.

There is no recovery from lost messages: MPI is reliable, an error aborts the run, and the only
restart is from a checkpoint. No module therefore loses messages; Outputs has the deaths.

## 2. The modules

An operator `X_Y` in any module is not part of the model. It is the operator `X` with the
mistake `Y`, kept beside it to show that a property would notice that mistake; the pairs
are listed in PROJECT.json under "mutants". The correspondence between every other
definition and the lines of the source is under "map".

### ARC (mdl2/mpi/arc.h)

State: `where` (the list of each key, `cdb.iWhere`), `before` (the order in the five
intrusive lists), `data` (the line of an entry), `dirty`, `nLock` (the word in front of a
line), `target_T1`; `held` and `unflushed` are history. Actions: one for each path through
`fetch` (`Hit`, `HitAbsent`, `GhostHit`, `GhostHitCrash`, and the misses that
`insert_present` and `insert_absent` serve), `release`, `clear`. Hash chains are left out: the
directory is a function of keys. `initialize` is `Init`.

### RWLock (mdl2/mpi/rwlock.h)

Load, test and `compare_exchange_weak` are separate steps, the exchange may fail without
reason. Inside, readers copy and writers combine an element of two words, word by word
(`CacheReceiveRequest`, `MessageFlushToCore`).

### Swap, SwapAtomic (mdlClass::Swap)

`Swap` has one step for each message event of each side; `chan[p]` is the one synchronous
send of side `p` that may be in flight, `mem` the bytes of the two buffers by origin.
`SwapAtomic` says what a swap promises: one step that moves as much as fits each way.
`Swap` implements it (`IsAtomic`), with the step at the moment both sides know both sizes.

### Rejects (domains/olddd.cxx, pkd.c)

`ColRejects` separates the particles of the other half for any split that passes the
assertions before it; then `RejMatch` pairs threads (the loops of the code take the largest
rejects left with the largest space left, which `Place` counts), `SwapRejects` moves for one pair the amounts `SwapAtomic!Transfer` gives, and
`Collect` reads the answers of all threads, until no pair is found. Every exchange is followed
by another.

### CacheFlush (mdlClass::FinishCache)

Each thread: `clear` its ARC cache into `coreFlushBuffer`, hand full buffers to the MPI thread,
then three barriers (`Core`); each barrier is made of the messages the code sends to core 0 and
back. The MPI thread (`MPIThread`): one action for each handler
(`MessageFlushFromCore`, `MessageCacheFlushOut`, `MessageBarrierMPI`,
`MessageCacheFlushLocal`, `MessageCacheClose`) and for each arm of `finishRequests`.
`Combine` is `bookkeeping`'s `MessageFlushToCore`. Buffers hold one update, so that every
buffer with something in it is full; `spare`, `flushHeadFree`, `localFlushBuffers` are the free
lists. `Dedicated` is the set of processes whose MPI thread is not core 0: each process decides
that for itself (mdl.cxx:1432-1436), so one run can hold both kinds.

### CacheRequest (CacheInitialize, Access, FinishCache, MessageCacheRequest ...)

Threads open a cache, fetch and close it, over and over, through a limited number of posted
receives. A fetch goes thread, MPI thread, network, MPI thread of the owner, and back.
`ThreadBarrier` is two steps for each thread here, arrival and leaving, since
CacheFlush has its messages.

### Services (ReqService, GetReply, Handler, SetAdd, TraversePST)

The tree is built by the recursive service `SETADD`; then a combining service runs through it,
several times, and the master stops all threads. `pRequestTargets` and `iRequestTarget` are the
ring of the code; a request and its reply carry the slot as their tag. The `rID`s that the frames of the
recursion hold in the code are the sequence `replies`, the innermost last, and the nodes of a thread are
`pst[t]`, the top one first. The size of a ring, `2 * log2(Threads()) + Cores()` in floating point cut to an
integer, is `Log2` of the square of `Threads`.

### LeapFrog, NewKDK, TopStepKDK (master.cxx, simulate.cxx, pkd.c, gravity/grav2.cxx)

`LeapFrog` is the abstract specification of block time steps: a particle is the time it has
drifted to (`x`), the time its velocity has been kicked to (`v`), its rung, and whether it is
within a step. Both schemes are shown to implement it with the same variables
(`IsLeapFrog`). `NewKDK` has `NewTopStepKDK` as a stack of frames (`at` is the place in
the function), `Gravity` with its closing and opening kicks and new rungs, the two trees, the
decisions of `CheckForOutput` (any) and the files of the light cone. `TopStepKDK` has the older
function with stored accelerations `a`, `UpdateRung` with its counts and
promotion, and `DensityStep`. The parameters `bDensityStep` and `nTruncateRung` are a variable,
`param`, that one run can give several values. Times are in halves of the shortest step.

### Simulate (simulate.cxx)

The loop of `Simulate` is the same for both schemes and `bNewKDK` chooses one of them. The
module instantiates both over common particles, so that each property is stated once, of a run,
whatever the scheme: `IsLeapFrog`, `ForcesCurrent`, `IntegralTimes`, `WritesInSync`.

### KDTree (domains/tree.cxx, pst.c, pkd.c)

The algorithms of one thread as operators on its `PKD`, a record of nodes, particles and the first
free node: `BuildTemp` (with the partition of particles at a split), `BuildFromTemplate`, by which the
tree of the fast particles follows the fixed one, `Create`, which sums the cells up from the buckets
and sizes the stack of the walk, `TopTree` and `pkdDistribTopTree`. Space has one dimension.

### GravWalk (gravity/walk2.cxx)

The walk of one thread as actions: one for each outcome of `iOpenOutcomeCL` (`Ignore`, `Keep`,
`ParticleParticle`, `OpenBucket`, `OpenCell`, `Multipole`, `LocalExpansion`), for the way down
(`Descend`), and for a group that is ready (`Interact`, then the sibling with the lists that are on the
stack). Which outcome an entry has depends on sizes and distances, and is left open among those that
the integer conditions of the code allow; all that geometry must give is that cells which share a
particle are not far apart. `WalkSpec` is the module's own specification, with an environment: between walks
anything may happen to the trees, and a walk begins on trees that are sound (`BuiltSound`, `TopSound`: the
children of a cell share its particles or threads, the stack is as deep as the tree), without a common
particle, whose cells do not forget an active one (`RungsKnown`).

### Gravity (master.cxx, domains/tree.cxx)

The order in which the master makes and unmakes trees: all particles in one tree, or `pkdDumpTrees`
with its partition (`PARTITION` of pkd.h is an operator), the fixed tree, and the other one built over
and over while its particles drift; then any thread walks, from any rung that is allowed.

### WorkQueue (mdl.cxx, gravity/grav2.cxx)

A gravity calculation of the cores of one process. A core's walk comes to buckets, whose tiles it
queues (`AddWork`, `SeekHelper`, `Put`, `Enqueue`: test, search, counter and queue are separate steps as
in the code); `DoSomeWork` runs inside every wait; `FinishCache` with its three barriers ends the
calculation, and `Report` is what the master is told. `nRefs` is the count of who still uses a bucket's
particles, whose last owner kicks them.

### Outputs (master.cxx, simulate.cxx)

Each turn of the loop of `Simulate` from the end of its step: the files `STOP` and `CHECK`, the limits, the
decisions to write a checkpoint and an output, the writing of either, and the end of the turn; each
read or clearing of a flag that a signal sets is a step of its own. The user touches files and
sends signals, and the program dies, between any two steps. A checkpoint is complete with its
particles, and `Restart` takes any that is, or none.

### Composition

`Rejects` takes the amount of a swap from `SwapAtomic`, which `Swap` implements; `NewKDK` and
`TopStepKDK` instantiate `LeapFrog` as what they implement, and `Simulate` instantiates both. `Gravity`
extends `KDTree` and `GravWalk`: the walks run on the trees as they were built, and `Gravity` implements `WalkSpec`, which
the theorems about the walk start from. What the walk calls an
interaction of a group is the bucket that `WorkQueue` starts with, and the gravity that `NewKDK` has as
one step. `CacheFlush` and `CacheRequest` divide
one component by concern: the first has updates going out and every message of a
barrier, the second requests and answers over several sessions. `CacheFlush` starts
where `ARC` ends (a flushed element); `RWLock` is what happens around one of its `Combine`
steps. Composing these into one cache seen from its users is in the plan.

## 3. The runs

Passing runs, one for each question. "Deadlock" says whether TLC also checks that the model
does not stop; where it does not, the system stops by itself at the end of what is
modelled (and a liveness property says that it gets there), or, for ARC, it may abort.

| Run | Instance | States | Deadlock | Properties |
|---|---|---|---|---|
| `arc` | 5 keys, 2 lines, a lock count up to 1, symmetric keys | 4852 | no | `LinesOwned`, `NoUpdateLost`, `FatalOnlyUnderLocks`, `LockedKeptUnlessT1Full` |
| `rwlock` | 3 readers, 1 writer, 2 combines, symmetric | 25575 | yes | `ReadersExcludeWriters` |
| `swap` | all buffers up to 4 bytes, chunks of 2 | 8106 | no | `LengthsAgree`, `InOrder`, `IsAtomic` |
| `rejects` | 2 + 2 threads, stores of 2 | 2192 | yes | `StoreNeverOverlaps`, `NoneLeftBehind`, `Ends` |
| `cache_flush` | 2 processes of 2 threads, one of them with an MPI thread, 4 crossing updates, 2 rank buffers, all kept free or in flight, 1 spare core buffer | 277969 | no | `OncePerUpdate`, `BarrierHolds`, `NothingLeftBehind`, `Completes` |
| `cache_request` | 2 processes of 2 threads, one of them with an MPI thread, 3 fetching threads, 1 posted receive, 2 sessions | 53402 | no | `ServedWhileOpen`, `OwnAnswer`, `Completes` |
| `services` | processes of 1, 2 and 2 threads, 2 traversals | 14763 | no | `RingHasRoom`, `ReplyIsMine`, `TreeFollowsProcesses`, `CountedOnce`, `Completes` |
| `kdk` | new scheme: 3 particles, 4 rungs, 1 or 2 trees, 2 top steps; stored accelerations: 2 particles on two threads, 4 rungs, 2 top steps, three settings of `bDensityStep` and `nTruncateRung` | 199567 | yes | `WritesInSync`, `IsLeapFrog`, `IntegralTimes`, `ConeOfTheStep`, `ForcesCurrent` |
| `gravity` | 5 layouts of up to 5 particles on up to 3 threads, 2 rungs, buckets of 1, groups of 1 or 2, 1 or 2 boxes, 2 builds of the second tree | 255859 | yes | `EachSourceOnce`, `IndicesHold`, `TreesSound`, `WalkSpec`, `FixedTreeStays`, `WalksEnd` |
| `work_queue` | 3 cores with up to one bucket of 2 tiles each, queues of 1 | 190688 | yes | `KickedWhenComplete`, `PlacesHold`, `AllKicked` |
| `restart` | 4 steps, checkpoint intervals 0 to 2, output intervals 0 and 2, with 3 output times or a limit, 2 requests, 2 deaths | 3932249 | yes | `OutTimesServed`, `RequestsServed`, `CanRestart` |

What they show:

* `arc`: a line never has two owners; no modified line is lost; an abort, or a read of the null line of a
  ghost, needs a lock; a locked line is given away only when T1 holds all lines. The type
  invariant of ARC, RWLock and Swap is proved (section 5) and has no run.
* `rwlock`: readers and writers exclude each other though the load, the test and the
  exchange are three steps.
* `swap`: without a length in any message both sides expect what the other sends, bytes
  arrive in order, and the whole is the single exchange of `SwapAtomic`, which also ends.
* `rejects`: the stores never overlap in whatever order the pairs of a round swap, rounds end, and when
  they do no reject is left.
* `cache_flush`: on its way through six kinds of buffers no update is lost or applied twice; no thread
  leaves a barrier before all have entered; when the cache is closed nothing is on its way; every
  thread returns, so no buffer is lost that another needs.
* `cache_request`: no request or answer meets a closed cache, a core gets the answer to its own
  request, and all sessions end, also where core 0 serves MPI only when it waits.
* `services`: the ring of reply tags never fills, a reply goes to its request, `SetAdd` gives each
  process a subtree of its own, a service counts each thread once, and all threads stop.
* `kdk`: in both schemes the unrolled recursion gives every particle complete, aligned steps of its
  own rung while rungs change within it; drifts and kicks are over the interval they integrate;
  forces are from all sources and of the right time; outputs see a synchronous state.
* `gravity`: whatever the geometry decides, the lists of a walk stand for each source particle of all
  threads exactly once whenever a group interacts, and so do those that wait on the stack; the stack
  is as deep as `Create` made it; trees and top trees share no node over builds and rebuilds; nothing
  of the fixed tree changes while its cache is open; every walk ends.
* `work_queue`: particles are kicked once, when all tiles have been added, whichever core did them; an
  item only goes to a core that is sure to look at its queue again; queues exceed their size by what
  the other cores can add between a test and the counter, and by no more; all particles are kicked.
* `restart`: a request, in whatever step of the decision it comes, is served at the end of that turn or of
  the next; an output time that has passed has an output at or after it, over deaths and restarts; a
  stopped run has a checkpoint of its last step, and no step is lost that a run was started from.

One violation run, `fixed_tree_is_slow`, is explained in section 6.

### Why the bounds are enough

* **ARC.** Two lines are the smallest cache in which T1 and T2 can both hold something and the
  target be 0, 1 or 2; the four lists together hold at most twice as many entries as lines, so the fifth
  key is one that is in no list while all four are full. Locks above 1 only repeat the test
  for zero. What the lists do for larger caches is proved.
* **RWLock.** Three readers allow two inside and one to come; a second combine can meet
  a copy begun before the first. Exclusion is proved for any number.
* **Swap.** With buffers of 4 and chunks of 2 each side has none, less than one, one, more than
  one, or two chunks to send, with as much room, and every combination is an initial state; the
  safety properties are proved for all sizes.
* **Rejects.** Two threads in a half are needed for a pairing that does not fit at once, stores
  of two for a partial swap. All ways to fill and to split the stores are enumerated.
* **CacheFlush.** Two processes of two threads have traffic to the own core 0, to another core
  of the process, to another process, and crossing traffic, with both kinds of MPI thread; four
  updates fill every kind of buffer, with as few buffers as the code can work with (`KeepFree` is the
  10 of `mdl.cxx:750`, `CoreBuffers` the 9 spare ones of a core). The safety properties are proved for
  all numbers of them.
* **CacheRequest.** One receive makes every message wait for the one before it; the second session
  is the one that could meet messages of the first.
* **Services.** With 1, 2 and 2 threads the tree has two levels above the processes, processes with
  and without a tree of their own, and a range that begins with a smaller process. Further
  traversals repeat the same state but for the ring, which goes round twice.
* **Simulate.** With three particles there is one on a slow, a middle and a fast rung at
  once; four rungs let the deepest rung change by more than one in either direction while two
  calls are above it. The second top step starts from the rungs the first left. `TopStepKDK` has two
  particles, one on each of two threads, since its rung counts are the sums over threads.
* **Gravity.** Buckets of one particle give the deepest trees; with three threads the top tree has a level
  below its root, and a thread may be empty. Five layouts have: cells above the groups, groups of two
  buckets, a replica of the box, and two trees with and without sinks on other threads. With two builds of
  the second tree one follows another. No thread's tree is a single bucket (section 6). Two rungs are enough for a cell to be active or not. The
  opening decisions are all enumerated, so a larger instance only has longer lists.
* **WorkQueue.** Three cores are needed for two to look for room in the queue of a third; queues of one
  place are full after one item; two tiles keep one with the owner and one with a helper. Cores without
  a bucket come early to the barrier.
* **Outputs.** Two requests and two deaths meet in one turn or in turns that follow each other; the output
  times have two within one step and one counted from the start; four steps let the intervals of one and
  two fall together and apart.

## 4. Fairness and other assumptions

No property of ARC, RWLock, Simulate and Outputs needs fairness; they are safety only.

* **Swap**: weak fairness of each side's steps. Both threads run, and MPI completes a send that
  has been posted to a receive that has been posted. **SwapAtomic** has the fairness of its one step.
* **Rejects**: weak fairness of the exchange, not of the decomposition that starts it.
* **CacheFlush**: weak fairness of each core, of combining, of the MPI thread of each process and of
  MPI matching a send to a posted receive. A core without a dedicated MPI thread is its
  own MPI thread, and is fair in it only while it waits, since the actions are enabled only then.
* **CacheRequest**: the same; a core 0 that is also the MPI thread need not serve MPI while it
  computes, so fairness of the MPI thread is assumed for a process that is in `Dedicated`, or
  while its core 0 is not computing. A thread that computes is sure to go on.
* **Gravity**: weak fairness of the steps of a walk, which is one thread's loop. The master's order of
  builds and walks is not fair, as nothing says that there is another step.
* **WorkQueue**: weak fairness of each core. A core in a wait calls `DoSomeWork` over and over, and its
  barriers are passed once all have come.
* **Services**: weak fairness of the master's actions and of each thread; a send is sure to complete only
  once it has been received (`Taken`), since it may be synchronous.

Threads are scheduled by the operating system and poll in loops (`waitQueue` yields), which
justifies weak fairness; strong fairness is used nowhere.

Assumed of MPI: messages of one sender and one tag arrive in order; a synchronous send completes
after the receiver's posted receive has matched it; the receiver learns of it when it next
tests (`MPI_Testsome`, in any order); a barrier ends when all have entered it.
Assumed of OpenPA's queues: first in, first out, for any number of producers.

Abstractions that a reader should know of: in Services the thread that serves MPI is never kept
away from it by a computation; in CacheRequest the content of a line is its owner and its number;
in CacheFlush `combine` is the arrival of an update; in NewKDK and TopStepKDK a particle's position,
velocity and acceleration are the times they are valid for, and a gravity calculation may give a
particle any rung the code's clamps allow; in KDTree space has one dimension and a moment is the number of
particles it sums; in GravWalk any opening decision is possible that does not put a cell far from
itself; in WorkQueue a tile is a number and a barrier of `ThreadBarrier` one step for each core (CacheFlush
has its messages); in Outputs the files are there or not, and whether the wall clock is near its limit
is open.

## 5. The proofs

`tlapm` checks the modules CacheProofs (ARC and RWLock), ExchangeProofs (Swap and Rejects), CacheFlushProofs,
CacheRequestProofs, ServicesProofs, SimulateProofs, WorkQueueProofs and StepProofs (GravWalk and Outputs). Everything is proved for every value of the
constants that satisfies the named assumption of the module (`CacheAssumption`, `ThreadAssumption`, `SwapAssumption`, `HalvesAssumption`,
`FlushAssumption`, `RequestAssumption`, `ServicesAssumption`, `SimulateAssumption`, `WorkQueueAssumption`,
`WalkAssumption`, `OutputsAssumption`), which TLC evaluates in the runs.

**CacheProofs**, of ARC: `TypeCorrect`, `DirectoryBounded`, `LinesAreOwned`, `UpdatesKept`,
`NoFatalWithoutLocks`, `LockedLinesKept`. The inductive invariant is
`IInv == TypeOK /\ DirectoryBounds /\ LinesOwned /\ NoUpdateLost`. None of the parts is inductive by
itself: a miss takes the next unused line, which is free only because the lines in use are the
first ones (`LinesOwned`) and ghosts exist only when all lines are in use (`DirectoryBounds`), and a line
taken from a victim is flushed only if the entry that was modified is the one that owns it. There
is one lemma for each action, over lemmas on the sizes of the lists when one entry moves. That a
cache without locks never aborts is an action property which follows from the invariant: T1 and T2
together hold every line at that moment, and a ghost hit finds another entry with data. That a
locked line keeps its bytes needs one invariant more, `LockedOwned`: a lock is on a line that a resident key
owns, so the next unused line has none, and the line of a victim has one only on the path where T1 is full.

**CacheProofs**, of RWLock: `LockTypeCorrect`, `Exclusion`, `CountExact`, and `CopiesWhole` for a single writer. The
invariant adds to the count being the occupancy that a thread between its load and its exchange
holds nothing, so an exchange that succeeds publishes a count that is true at that moment. A copy
is whole because the words of the element differ only while a writer is between them.

**ExchangeProofs**, of Swap: `SwapTypes`, `ChunksAgree`, `NothingOverwritten`, `ArrivesInOrder`, `SwapGuarantee`,
`SwapIsOneExchange`. The invariant relates the counters of the two sides at each pair of places in the
loops (what one side has sent is what the other has received or is in flight), which is
what makes each side compute the other's next length. On top of it a second invariant says which
byte is in each cell. The last theorem is the safety part of the refinement of `SwapAtomic`: every
step is a step or a stutter of the one-step exchange.

**ExchangeProofs**, of Rejects: `StoresHold`, `RejectsDelivered`. The invariant of the first is `StoreNeverOverlaps` with no
count being negative. A swap keeps it although both threads count the room that their own rejects still take
(`pkdSwapSpace`): one direction always moves all its rejects, and when the other does not it has
filled its partner's store, whose rejects are then gone. How `RejMatch` pairs the threads plays no part there.
It does in `RejectsDelivered`, that `NoneLeftBehind` holds: the loop may end when `RejMatch` finds no pair, and then all rejects
must have gone. The invariant is `Reserved`: the room of each half, the one its own rejects take included, is enough for
the particles that belong to it. With rejects left in one half and no pair, every
thread of the other half is full of particles that belong to it (`NobodyMatched`, `FullHalf`), and then by `Reserved`
no more can be on their way to it (`NothingLeft`). The sums over the threads of a half are sizes of sets of
numbered particles (`Total`), so that a swap changes them by what it moves without a
recursion over the threads (`TotalPlus`), and the last steps take a least counterexample (`LeastNatural`).

**CacheFlushProofs**: `TypeCorrect`, `Barriers`, `CarriedOnce`, `FlushLeavesNothing`. The invariant is built in three
parts, each on top of the one before:

* `Threads`: a core is in the round of its core 0 or about to leave the one before (`AtBarrier`, which counts the
  barrier messages); any message but a buffer is the only one of its sender, who waits for it, and comes after all
  buffers (`Queued`); and nobody is past the MPI barrier before all have entered it (`Barred`). `BarrierHolds` follows.
* `Moving`: every place holds only updates that pass it on their way (`Homes`), every update is in one place and once in
  it (`Once`), and the free, full, sent and finished buffers add up (`Accounted`). The lemma `AllMove` says what a step does
  that carries updates from one place to the next; all other steps leave them alone (`WhoMovesUpdates`).
* `Emptied`: which places are empty in which phase. The flushOut message is behind all buffers, so nothing
  is left in front of the rank buffers once it is taken (`OutEmpty`); it is answered when every rank
  buffer is free, and by `Accounted` nothing is unmatched then (`SentEmpty`). Out of the MPI barrier
  the network is therefore empty, and what has arrived is still to be seen by the loop of `finishRequests`
  in which the barrier ended (`ArrivedSeen`), so flushLocal finds it all in the buffers of the cores
  (`OwnersEmpty`). A single process makes no MPI barrier: there the end of its own sends takes its place
  (`ArrivesComplete`).

How many buffers there are, and which is evicted, plays no part in the safety; it does in `Completes`.

**CacheRequestProofs**: `TypeCorrect`, `Served`, `Answered`. Why no message meets a closed cache takes the whole
chain from the barriers to the network, and each link is a part of the invariant:

* `InSession` and `Gates`: a thread's barriers are those of its sessions, and nobody has left a barrier at which
  not everybody has arrived. Together they say that while one thread uses the cache all threads have it
  open in the same session (lemma `Together`), also those that wait in `FlushCache`.
* `Queued`, `Asked`, `Posted`: a queue of an MPI thread has at most one message from each thread, which waits for it;
  a thread that fetches has its request in that queue, in its slot or answered, in one of them only; and the one message
  on its way for a slot is the request or the answer. So a message on its way has a client that fetches,
  and by `Together` the owner it is for has the cache open.
* `Counted` and `ReceivesAccounted`: `nOpenCaches` is the number of threads of the process between the answers
  to their open and close messages. When the last close cancels the receives none has matched, since a thread
  that waits for a close excludes one that fetches, and so any message (`NothingOnItsWay`).

**ServicesProofs**: `ServicesInvariant`, `AnswersReachTheirRequests`, `TreeIsFollowed`, `RingsNeverFull`,
`EveryThreadServedOnce`, for any number of processes with any number of threads each. The
invariant `ServicesInv` has two halves, which need each other.

* `Protocol`: where a thread is and how many requests it has made by then (`Located`); a request on its way, in
  service or answered is one that its sender has sent and waits for (`Linked`), and is in one of these
  places only (`Single`); a used slot of a ring stands for one request of the process and holds
  the process of its receiver (`Slots`). A thread is called only by a lower one, so a thread that has been called
  can be followed up to the master, and while the master is in no service nothing is on its way
  (`QuietBetweenServices`). `ReplyIsMine` follows: the slot is in use, so there is one request with the tag, and the
  last rID of the thread is that of its last request.
* `Tree`, which holds also while `SetAdd` builds the tree: both parts of a node and what they have (`Nodes`), where a
  part counts as what it is to become (`Leaves`) from the moment it is asked for; a thread is below one node
  (`OneParent`); of a thread that is asked nothing has been done (`AskedKnown`); and every thread is below a node or
  in one of the ranges that are still to be placed, which do not meet (`Claims`). `Processes` says that these ranges begin and end
  with a process or stay within one. `TreeFollowsProcesses` follows. `Deep` bounds the nodes of a thread by what a range can be halved.

`RingHasRoom` is a count over both halves: a request of a process has a `Place` among `log2(Threads) + Cores - 1`. The
first thread of the process has at most one for each of its nodes (`Deep`); each of the others has
one to a thread of the process, and no thread is asked twice (`OneParent`). If all slots of the ring were in use two
requests would have the same place (`PlaceOfOne`). So the ring has `log2(Threads)` slots more than are ever needed.

`CountedOnce` rests on a second invariant, `Count`: the threads a service has still to run on are divided among the
threads that go down their nodes and those that have been called (`Left`), no thread is left to two of them (`Apart`), those
left to nobody have been served (`Served`), and what comes back is the size of the node it comes from (`Sums`).

The recursive functions `ProcToThread` and `Log2` are shown to have a value, and to grow, by least counterexample.
A process layout in which `SetAdd` asks itself (section 6) is not excluded: the thread waits for ever, and
the theorems hold of what is reached.

**SimulateProofs**: `SimulateInvariant`, `InSyncAtWrites`, `EachALeapFrog`, `ForcesAreCurrent`, `IntegralsTimed` and
`ConesMatch`, for any finite sets of particles, up to 31 rungs, any `nDT`, one or two trees, any number of steps and any
settings of `bDensityStep` and `nTruncateRung`. None of the five properties is inductive: a step is right only
because of where the recursion is. The invariant `Inv` says what a state of the recursion means:

* of `NewTopStepKDK`, `NewInv(T)`: `T` is the time at which the call of each rung has begun, a multiple of
  that rung's step (`NewBegins`). `dTime` follows from the innermost call (`NewNow`); `Deadline` is the
  end of the step a call is in, and each velocity has been kicked to half a step before that (`NewVelocities`). `NewPositions` has three
  cases: all particles are at `dTime`; or the slow ones wait in the middle of their step (`Waiting`), at
  the `dTimeFixed` of the call that split the trees; or they are at its end already and the fast ones have one drift to
  come (`Ended`). `NewRungs` ties `iRungDT` and `uRungMax` to the rungs of the particles, which is why a call that
  reads them again after a deeper one still ends the fixed tree that it began.
* of `TopStepKDK`, `TopInv`: the same for the beginnings of its calls (`TopBegins`) and the one time of all positions
  (`TopClock`); `Fresh` says which rungs may hold an acceleration of another time, those below the
  `iKickRung` of the call. `TopRegular`, which holds for `Regular` settings, adds that the deepest rung is that of
  the particles (`TopDeepest`), so that the recursion ends before the `abort()`, and the velocities.

There is a lemma for each action and each part. What a rung's step is enters by divisibility only: a step of rung r is a
multiple of each faster one (`halves`), so a call that ends at a time that is a multiple of its step ends with all faster ones.

**WorkQueueProofs**: `TypeCorrect`, `PlacesKept`, `KickedComplete`. The parts of the invariant are

* `Located` and `Gates`: where a core is in its walk and in which barrier, and that a core which still looks for
  a helper, or puts an item to one, has not come to the barrier that helper waits at; so the helper's last
  `DoSomeWork` is still to come.
* `Sizes`: the counter of a queue is its length and the cores between the counter and the queue, and each
  core that has seen room and not yet counted has seen it before the others did. That gives the bound on a queue, its
  size and what all cores but two can add at once.
* `AllPending`, `NoneTwice`, `AddedOnce`: every tile that has been handed out is in one queue, in the hands of one core or
  added to its bucket; never in two of these, and added once.
* `References` and `KicksCounted`: `nRefs` of a bucket is the number of its tiles that are not added, and one for the
  owner while it still walks. Whoever makes it zero is the last, so the particles are kicked once and with
  all forces.

**StepProofs**, of GravWalk: `WalkInvariant`, `WalkCovers` (`EachSourceOnce`) and `WalkReads` (`IndicesHold`) follow from `WalkSpec`,
for any number of threads and boxes, any sound trees, and whatever is opened, kept or accepted. An entry stands for a
set of sources (`Covers`). `ParticlesOpen` and `CellOpens` show that what an entry is opened into stands for the same set,
once: for particles, for cells of a thread's own tree, for cells of the top tree, and for a leaf of the top tree, whose
children are those of another thread's root. So every way to take an entry moves a set between five disjoint
ones (`MoveHead`). The invariant `WalkInv` has, besides:

* `ListTypes`: entries exist, and the checkpoints of the interaction lists on the stack grow and are within the lists, so
  that those below the top are still prefixes when the top is taken.
* `Sinks`: the stack is shorter than the path from the root to the sink cell (`Height`), and its n-th element has a path of n
  cells at least; a child's path is longer than its parent's, because its sibling is not empty. The slot above
  the stack is then within what `Create` has made room for.
* `Waiting`: an active particle is in the sink cell, in one cell of the stack, or has its force; a cell that is passed
  over because it is not active has none.
* `ListsCover` and `FramesCover`: the lists of this level, and those that each element of the stack will bring back, cover
  every source once.

What is left to TLC is that the trees are sound when a walk begins: `WalkSpec` as a property of `gravity`.

**StepProofs**, of Outputs: `TypeCorrect`, `TimesServed`, `EveryRequestServed`, `RestartPossible`. The requests are the hard part: a signal
may come between the reading and the clearing of its flag. `CheckKept`, `StopKept` and `SignalKept` follow a
request through the places of the loop (as a file, as a flag, as a decision taken) until it is done. `OutTimesKept`
says of each output time that it is still in the list or that an output at or after it is written or decided;
`CheckpointsKept` says which steps have a complete checkpoint while one is being written over.

**Proved and not run**: the type invariants of ARC, RWLock and Swap, `DirectoryBounds` of ARC,
`CountIsOccupancy` and `NoTornCopy` of RWLock, `UnsentIntact` and `Guarantee` of Swap. They are parts of the inductive
invariants or follow from them; the proofs cover every instance a run could.

**Only model-checked**: of Gravity that the trees are sound, for the other tree as for a walk (`TreesSound`, `FixedTreeStays`,
`WalkSpec`), which is about what the operators of KDTree build; all liveness (`Completes`, `Ends`, `WalksEnd`, `AllKicked`, and the fairness part of `IsAtomic`).

**Out of the prover's reach**: liveness under fairness and ENABLED; induction over data, for which the
library's theorems take an operator as a parameter; and RECURSIVE operators. Only KDTree and Gravity have
those, for the loops and recursions of the tree build over data that changes as they go, so what
they compute stays with TLC; GravWalk has none (`ProcToThread` and `Log2` in Services and `halves` in LeapFrog are recursive functions, which a proof can
unfold: `HalvesValue` shows that `halves` has a value, by a least counterexample).

## 6. Disagreements found

In one run TLC finds a statement of the source violated by what the code does; PROJECT.json
("findings") quotes it in full. `fixed_tree_is_slow`: with two trees, `pkdDumpTrees` takes the border
between slow and fast particles from the second index of `PARTITION` (tree.cxx:164), while the macro leaves
the first fast particle in the first index. The two differ after a swap only, so that a thread whose slow
particles are already in front, or that has none, puts its first fast particle into the fixed tree,
where it is drifted with the slow ones and gets no force. The assertions that would notice are
commented out (tree.cxx:168). `kdk` assumes that the particles are separated as meant.

Others were met while modelling and have no run of their own. In the trees, the walk and the work queue:

* The comment "we never allow pp with this cell" (walk2.cxx:57) does not hold for the top cell of a thread
  whose root is a bucket: it has no child, and a walk of another thread may open it into particles
  (walk2.cxx:390). Its `pLower` and `pUpper` are the number of the thread (pst.c:770), so the walk takes the particle
  of that index from its own store instead. `NoParticlesOfTopCells` says what the comment does. No
  layout of `gravity` has such a thread, and `WalkSpec` has no walk that meets one (`TopSound`): `EachSourceOnce` is
  claimed for walks over other threads that have more particles in a tree than `nBucket`, or none.
* `pkdDumpTrees` for the second tree alone frees the nodes from its first child on (tree.cxx:132); if the root
  is a bucket nothing is freed, and a top tree is left over at every rebuild. `TreesSound` holds all the same.
* The master computes an `nGroup` of 1 for two trees (master.cxx:3255), which `pkdGravWalk` ignores: the
  groups were fixed when the tree was built.
* A core counts the particles it has kicked when it has left the barrier, though a helper may still have
  one of its tiles (mdl.cxx:1708); they are kicked in a later wait, after the total has been reported
  and with pointers into the input of a service that has ended. `CountedInTime` says what the comment at
  walk2.cxx:889 does; it does not hold. `iWorkQueueSize` is 0 by default, and then nothing is queued.
* Helpers add to the owner's flop count while the owner does (grav2.cxx), which is a data race on a number
  that is only printed.

In outputs and restarts:

* Output times are read again at a restart, with the passed ones, so that the first turn after it
  writes an output that nobody asked for (master.cxx:2784). `OutTimesServed` needs them when the run
  died between a checkpoint and the output of the same step.
* Entries that count steps from the start (simulate.cxx:104, "passing the initial time") are counted from the
  checkpoint after a restart.
* `CheckForOutput` announces "Writing checkpoint and exiting" at a limit, but with both intervals 0 nothing is
  written and the stop is forgotten (master.cxx:3106, simulate.cxx). `RequestsServed` is claimed for runs
  with an interval (`SomeInterval`).
* An output at an interval is lost if the run dies between a step's checkpoint and its output.
* With `dDelta` and a final redshift the number of steps is counted from the checkpoint's time, and
  the steps before the checkpoint are then subtracted from it (simulate.cxx:69-70).

In groups, which are not modelled: `pkdFofPhases` reports progress only when a group's own name was lowered by
its links, not when it has handed a lower name to a linked group (fof.cxx:715). A group that got a
lower name from another thread at the end of an iteration passes it on in the next one without
reporting, and if no other group progressed the master stops: a third group that links to the second
keeps the old name. Groups Z (thread 2), X and W (1), C and D (0) with links Z-X, Z-D, X-C and W-C end with
two entries on thread 1, where fof.cxx:782 says "only one group per process". Particles within a
thread are linked at a distance of at most the linking length (fof.cxx:81), over threads below it (fof.cxx:311).

In the caches, services and the domain decomposition:

* A locked line is reused when T1 holds every line (arc.h:627); `LockedKeptUnlessT1Full` says only then.
* `initialize` returns early if the number of lines is unchanged, though the size of an element may
  have changed (arc.h:677); a core buffer that holds entries of several caches is taken apart with the element
  size of the first (mdl.cxx:720). The models have one cache and one size.
* A thread may return from `FlushCache` with updates for it not yet combined (mdl.cxx:1718 combines while it
  waits, and only then). `FinishCache` has two more barriers.
* `iProc`, the rank of the process, is overwritten by a remote fetch (mdl.cxx:542).
* The room of a domain, an unsigned number, is lowered by a margin that may be larger (olddd.cxx:363).
* A ghost hit may read the lock word of a null line (arc.h:763), which takes locked lines but
  not all of them: `FatalOnlyUnderLocks` says only that it takes locks.
* The lock admits any number of writers at once (rwlock.h:27). One thread combines into the elements of
  its own cache, so there is one writer; `rwlock` and `CopiesWhole` assume it.
* Without a dedicated MPI thread a burst of buffers for core 0 leaves it waiting for a buffer that only
  it can free (mdl.cxx:825). The code has 2 buffers for each core, so a process of n threads
  needs 2n + 1 of them within one call of `finishRequests`. `cache_flush` has fewer updates for
  the core 0 that serves MPI than there are buffers.
* `SetAdd` asks itself, and hangs, when the first process of a range has more than half of its threads
  (setadd.cxx:46). `services` has no such process.
* `nTruncateRung` promotes nothing: the particles of the deepest rungs keep their rung and the deepest
  rung is lowered (pkd.c:2657). `DensityStep` with all particles on the deepest rung reaches
  the `abort()` of `TopStepKDK` (master.cxx:3351). Both happen in `kdk`, whose
  `param` includes these settings; with the stored accelerations `IsLeapFrog`, `IntegralTimes` and `WritesInSync` are
  claimed for the settings without them (`Regular`), `ForcesCurrent` for all.

## 7. What is not modelled, and why

* Floating point: gravity kernels, Ewald sums, moments, kernels of smoothing, cosmology, power
  spectra, and the geometry of tree and walk. TLC has no reals, and what could go wrong is numerical.
* Pure input and output: file formats, parameter parsing, Python.
* Vendored code (more than half of the lines of the repository), accelerator kernels, stand-alone tools.
* Gas (`SphStep`, `StarForm`, `Cooling`) in the time stepping, and `AccelStep`, which nothing enables.
* In the trees: `pkdTreeInitMarked`, `pkdTreeBuildByGroup` and the walks of hop groups. In the work queue:
  device queues. In outputs: which thread writes which part of a file.
* What several caches share: one core buffer may hold entries of caches with different element
  sizes; the model has one cache. MPI loses nothing, and an error ends the run.
* The FFT, initial conditions, groups, the root finder and smoothing are sequential or meet only at
  barriers, and are in the plan.

## 8. The plan

In this order; each module with its runs, and with proofs where named.

1. **Proofs**: of KDTree that a build gives the sound trees that `WalkSpec` starts from, with the loops of the build as
   actions instead of RECURSIVE operators.
2. **Groups**: `pkdFofPhases` and `pkdFofFinishUp` over groups that are linked across threads, with the counts of the
   merged groups, and the early end of section 6.
3. **Combiner cache**: an abstract specification of a cache seen by its users (increments add up at
   the barrier), implemented by a composition of ARC and CacheFlush with several caches sharing a core
   buffer.
4. **RootSplit and OrdSplit**: the search for a split that leaves halves that fit, which is what
   Rejects starts from; the choice of a new decomposition over the old one.
5. **MPI request slots**: newRequest and finishRequests, whose tables of requests and messages
   are compacted while they are being handled.
6. **MoveIC** (ic/ic.cxx): every thread sends its particles to their slabs in place.
7. **FFT and grids**: who makes collective calls, and slabs that cover a grid once.
