----------------------------- MODULE CacheFlush -----------------------------
(***************************************************************************)
(* mdlFinishCache (mdl2/mpi/mdl.cxx): every thread of every process stops   *)
(* using a cache, and the changes each thread made to elements of others    *)
(* are carried back to their owners and combined there.  An update travels  *)
(*                                                                         *)
(*   ARC cache -> coreFlushBuffer of its core -> MPI thread of its process  *)
(*     -> buffer of the destination rank -> MPI -> MPI thread there         *)
(*     -> buffer of the destination core -> wqCacheFlush -> combine         *)
(*                                                                         *)
(* while the threads go through three barriers (FlushCache).  The MPI       *)
(* thread is a thread of its own (Dedicated) or core 0 itself, which then   *)
(* serves MPI whenever it waits for something.  Every buffer holds one      *)
(* update, so a buffer with something in it is full.                        *)
(*                                                                         *)
(* MPI: a synchronous send completes when the receiver's posted receive has *)
(* matched it; the receiver learns of it when it next tests its requests.   *)
(***************************************************************************)
EXTENDS Naturals, Sequences, FiniteSets, SequencesExt

CONSTANTS Proc,          \* processes
          Cores,         \* worker threads of each process
          Dedicated,     \* the processes that have an MPI thread beside the workers
          Update,        \* the changes made, records [from, to, n]
          RankBuffers,   \* flushBuffCount
          KeepFree,      \* rank buffers kept free or in flight: 10 in the code
          CoreBuffers    \* spare coreFlushBuffers of a core: 9 in the code

Thread == Proc \X (0..(Cores - 1))

ASSUME FlushAssumption ==
  /\ IsFiniteSet(Proc) /\ IsFiniteSet(Update) /\ Cores \in Nat \ {0} /\ Dedicated \subseteq Proc
  /\ Update \subseteq [from : Thread, to : Thread, n : Nat]
  /\ RankBuffers \in Nat /\ KeepFree \in Nat \ {0} /\ KeepFree <= RankBuffers
  /\ CoreBuffers \in Nat \ {0}

VARIABLES pc, round,             \* where each thread is, and before or in which barrier
          dirty,                 \* changes in each thread's ARC cache
          coreFlushBuffer, spare,\* the buffer of each core, and its spare ones
          threadBarrierQueue,    \* number of messages in that queue
          answered,              \* has the MPI thread answered the thread's message?
          queueMPInew,           \* messages to each MPI thread
          held,                  \* update an MPI thread is finding a rank buffer for
          stuck,                 \* update it waits for a core's buffer for
          flushingOut,           \* is it inside MessageCacheFlushOut?
          finishing,             \* is it in the loop of finishRequests?
          flushHeadBusy,         \* updates in rank buffers, most recently used first
          flushHeadFree,         \* number of free rank buffers
          net,                   \* updates sent and not matched
          arrived,               \* updates matched and not seen by the receiver
          completed,             \* sends matched and not seen by the sender
          inBarrier, barrierOpen,\* processes that entered MPI_Ibarrier; have not seen it end
          flushBuffersByCore,    \* update in the buffer for each core, or None
          localFlushBuffers,     \* number of free buffers for cores
          wqCacheFlush,          \* buffers queued for each core
          combined,              \* updates applied by their owners
          open, nOpenCaches      \* threads that have not closed the cache; per process

threadVars == <<pc, round, dirty, coreFlushBuffer, open>>
queueVars == <<threadBarrierQueue, answered, queueMPInew>>
rankVars == <<held, flushingOut, flushHeadBusy, flushHeadFree>>
mpiVars == <<net, arrived, completed, inBarrier, barrierOpen>>
localVars == <<stuck, flushBuffersByCore, localFlushBuffers, wqCacheFlush, combined>>
vars == <<threadVars, spare, queueVars, rankVars, finishing, mpiVars, localVars, nOpenCaches>>

None == [from |-> <<>>, to |-> <<>>, n |-> 0]
ProcOf(t) == t[1]
Core0(p) == <<p, 0>>
Others(p) == {t \in Thread : t[1] = p /\ t[2] # 0}

Init ==
  /\ pc = [t \in Thread |-> "clear"] /\ round = [t \in Thread |-> 1]
  /\ dirty = [t \in Thread |-> {u \in Update : u.from = t}]
  /\ coreFlushBuffer = [t \in Thread |-> None] /\ spare = [t \in Thread |-> CoreBuffers]
  /\ threadBarrierQueue = [t \in Thread |-> 0] /\ answered = [t \in Thread |-> FALSE]
  /\ queueMPInew = [p \in Proc |-> <<>>]
  /\ held = [p \in Proc |-> None] /\ stuck = [p \in Proc |-> None]
  /\ flushingOut = [p \in Proc |-> FALSE] /\ finishing = [p \in Proc |-> FALSE]
  /\ flushHeadBusy = [p \in Proc |-> <<>>] /\ flushHeadFree = [p \in Proc |-> RankBuffers]
  /\ net = {} /\ arrived = {} /\ completed = [p \in Proc |-> 0]
  /\ inBarrier = {} /\ barrierOpen = {}
  /\ flushBuffersByCore = [t \in Thread |-> None]
  /\ localFlushBuffers = [p \in Proc |-> 2 * Cores]
  /\ wqCacheFlush = [t \in Thread |-> <<>>] /\ combined = {}
  /\ open = Thread /\ nOpenCaches = [p \in Proc |-> Cores]

------------------------------------------------------------------------------
(* Waiting: waitQueue *)

Waiting(t) == pc[t] \in {"spare", "arrive", "wait", "answer"}

\* Is t the thread that serves MPI for its process?
IsMPI(t) == ProcOf(t) \notin Dedicated /\ t[2] = 0

\* The MPI thread runs: always, or when core 0 waits or checks its cache.
Serving(p) == p \in Dedicated \/ Waiting(Core0(p)) \/ pc[Core0(p)] = "done"

\* Not inside a loop that waits for a buffer.
Free(p) == held[p] = None /\ stuck[p] = None

\* A thread tests its queue.  Core 0 without a dedicated MPI thread does so only
\* after checkMPI and bookkeeping, the other threads at any time.
MayReturn(t) ==
  IsMPI(t) => /\ Free(ProcOf(t)) /\ ~flushingOut[ProcOf(t)] /\ ~finishing[ProcOf(t)]
              /\ wqCacheFlush[t] = <<>>

\* bookkeeping: combine what has been queued.
Combine(t) ==
  /\ Waiting(t)
  /\ IsMPI(t) => Free(ProcOf(t)) /\ ~finishing[ProcOf(t)]
  /\ wqCacheFlush[t] # <<>>
  /\ combined' = combined \cup {Head(wqCacheFlush[t])}
  /\ wqCacheFlush' = [wqCacheFlush EXCEPT ![t] = Tail(@)]
  /\ localFlushBuffers' = [localFlushBuffers EXCEPT ![ProcOf(t)] = @ + 1]
  /\ UNCHANGED <<threadVars, spare, queueVars, rankVars, finishing, mpiVars, stuck, flushBuffersByCore,
                 nOpenCaches>>

Goto(t, l) == pc' = [pc EXCEPT ![t] = l]
Send(t, kind, u) ==
  queueMPInew' = [queueMPInew EXCEPT ![ProcOf(t)] = Append(@, [kind |-> kind, from |-> t, update |-> u])]
Answer(t) == answered' = [answered EXCEPT ![t] = TRUE]
BarrierMessage(S) == threadBarrierQueue' = [t \in Thread |-> threadBarrierQueue[t] + (IF t \in S THEN 1 ELSE 0)]

------------------------------------------------------------------------------
(* A core: c->clear() and flush_core_buffer() *)

FlushElement(t) ==
  /\ pc[t] = "clear" /\ coreFlushBuffer[t] = None
  /\ \E u \in dirty[t] :
       /\ coreFlushBuffer' = [coreFlushBuffer EXCEPT ![t] = u]
       /\ dirty' = [dirty EXCEPT ![t] = @ \ {u}]
  /\ UNCHANGED <<pc, round, open, spare, queueVars, rankVars, finishing, mpiVars, localVars, nOpenCaches>>

\* The buffer is full, or it is the last one.
FlushCoreBuffer(t) ==
  /\ pc[t] = "clear" /\ coreFlushBuffer[t] # None
  /\ Send(t, "flushFromCore", coreFlushBuffer[t])
  /\ coreFlushBuffer' = [coreFlushBuffer EXCEPT ![t] = None]
  /\ Goto(t, "spare")
  /\ UNCHANGED <<round, dirty, open, spare, threadBarrierQueue, answered, rankVars, finishing, mpiVars,
                 localVars, nOpenCaches>>

TakeSpare(t) ==
  /\ pc[t] = "spare" /\ spare[t] > 0 /\ MayReturn(t)
  /\ spare' = [spare EXCEPT ![t] = @ - 1]
  /\ Goto(t, "clear")
  /\ UNCHANGED <<round, dirty, coreFlushBuffer, open, queueVars, rankVars, finishing, mpiVars, localVars,
                 nOpenCaches>>

Cleared(t) ==
  /\ pc[t] = "clear" /\ coreFlushBuffer[t] = None /\ dirty[t] = {}
  /\ IF t[2] # 0 THEN BarrierMessage({Core0(ProcOf(t))}) ELSE UNCHANGED threadBarrierQueue
  /\ Goto(t, "arrive")
  /\ UNCHANGED <<round, dirty, coreFlushBuffer, open, spare, answered, queueMPInew, rankVars, finishing,
                 mpiVars, localVars, nOpenCaches>>

------------------------------------------------------------------------------
(* ThreadBarrier, and what FlushCache and FinishCache do after each of the three *)

\* Mutant: no barrier of FlushCache is global.
IsGlobal_Never(r) == FALSE

IsGlobal(r) == r = 2

\* Mutant: core 0 goes on with one message missing.
Collected_OneShort(t) == threadBarrierQueue[t] + 1 >= Cores - 1

\* Core 0 has the messages of all the others.
Collected(t) == threadBarrierQueue[t] = Cores - 1

\* What thread t does once it has passed its barrier.
Passed(t) ==
  /\ round' = [round EXCEPT ![t] = @ + 1]
  /\ IF round[t] = 3
     THEN /\ Send(t, "close", None) /\ Goto(t, "answer")
     ELSE IF t[2] = 0
     THEN /\ Send(t, IF round[t] = 1 THEN "flushOut" ELSE "flushLocal", None)
          /\ Goto(t, "answer")
     ELSE /\ Goto(t, "arrive") /\ UNCHANGED queueMPInew

\* Core 0 has collected the messages of the others; a global barrier goes on.
CollectThenMPI(t) ==
  /\ t[2] = 0 /\ pc[t] = "arrive" /\ MayReturn(t)
  /\ Collected(t)
  /\ IsGlobal(round[t]) /\ Cardinality(Proc) > 1
  /\ threadBarrierQueue' = [threadBarrierQueue EXCEPT ![t] = 0]
  /\ Send(t, "barrierMPI", None)
  /\ Goto(t, "wait")
  /\ UNCHANGED <<round, dirty, coreFlushBuffer, open, spare, answered, rankVars, finishing, mpiVars,
                 localVars, nOpenCaches>>

\* Core 0 sends the messages of the others back.
Release(t) ==
  /\ t[2] = 0 /\ MayReturn(t)
  /\ \/ /\ pc[t] = "arrive" /\ Collected(t)
        /\ ~(IsGlobal(round[t]) /\ Cardinality(Proc) > 1)
        /\ threadBarrierQueue' = [s \in Thread |->
             IF s = t THEN 0 ELSE threadBarrierQueue[s] + (IF s \in Others(ProcOf(t)) THEN 1 ELSE 0)]
        /\ UNCHANGED answered
     \/ /\ pc[t] = "wait" /\ answered[t]
        /\ answered' = [answered EXCEPT ![t] = FALSE]
        /\ BarrierMessage(Others(ProcOf(t)))
  /\ Passed(t)
  /\ UNCHANGED <<dirty, coreFlushBuffer, open, spare, rankVars, finishing, mpiVars, localVars, nOpenCaches>>

\* Another core gets its message back, and sends the one of its next barrier.
LeaveBarrier(t) ==
  /\ t[2] # 0 /\ pc[t] = "arrive" /\ threadBarrierQueue[t] > 0
  /\ threadBarrierQueue' = [threadBarrierQueue EXCEPT ![t] = 0,
                              ![Core0(ProcOf(t))] = @ + (IF round[t] < 3 THEN 1 ELSE 0)]
  /\ Passed(t)
  /\ UNCHANGED <<dirty, coreFlushBuffer, open, spare, answered, rankVars, finishing, mpiVars, localVars,
                 nOpenCaches>>

\* The MPI thread has answered core 0's flush message, or anyone's close message.
Answered(t) ==
  /\ pc[t] = "answer" /\ answered[t] /\ MayReturn(t)
  /\ answered' = [answered EXCEPT ![t] = FALSE]
  /\ Goto(t, IF round[t] <= 3 THEN "arrive" ELSE "done")
  /\ open' = IF round[t] <= 3 THEN open ELSE open \ {t}
  /\ UNCHANGED <<round, dirty, coreFlushBuffer, spare, threadBarrierQueue, queueMPInew, rankVars, finishing,
                 mpiVars, localVars, nOpenCaches>>

Core(t) ==
  \/ FlushElement(t) \/ FlushCoreBuffer(t) \/ TakeSpare(t) \/ Cleared(t)
  \/ CollectThenMPI(t) \/ Release(t) \/ LeaveBarrier(t) \/ Answered(t)
------------------------------------------------------------------------------
(* The MPI thread: processMessages *)

\* The next message, once the requests that are known to be complete are finished.
Process(p, kind) ==
  /\ Serving(p) /\ Free(p) /\ ~finishing[p]
  /\ queueMPInew[p] # <<>> /\ Head(queueMPInew[p]).kind = kind
  /\ queueMPInew' = [queueMPInew EXCEPT ![p] = Tail(@)]

RankOf(u) == ProcOf(u.to)
\* The list without the buffer of rank q, if it has one (flushBuffersByRank).
Elsewhere(busy, q) ==
  LET at == {i \in DOMAIN busy : RankOf(busy[i]) = q}
  IN  IF at = {} THEN busy ELSE RemoveAt(busy, CHOOSE i \in at : TRUE)
Towards(busy, q) == {v \in ToSet(busy) : RankOf(v) = q}

\* flush_element: a full buffer for that rank is sent; if few buffers are left the
\* least recently used one is, too; then a free one is needed.
MessageFlushFromCore(p) ==
  /\ Process(p, "flushFromCore")
  /\ LET u == Head(queueMPInew[p]).update
         others == Elsewhere(flushHeadBusy[p], RankOf(u))
         full == Towards(flushHeadBusy[p], RankOf(u))
         evict == RankBuffers - Len(others) < KeepFree
     IN  /\ held' = [held EXCEPT ![p] = u]
         /\ flushHeadBusy' = [flushHeadBusy EXCEPT ![p] = IF evict THEN Front(others) ELSE others]
         /\ net' = net \cup full \cup (IF evict THEN {Last(others)} ELSE {})
  /\ UNCHANGED <<threadVars, spare, threadBarrierQueue, answered, flushingOut, flushHeadFree, finishing,
                 arrived, completed, inBarrier, barrierOpen, localVars, nOpenCaches>>

\* The free buffer is there: the update goes into it and the core's buffer back.
BufferForRank(p) ==
  /\ held[p] # None /\ stuck[p] = None /\ ~finishing[p]
  /\ flushHeadFree[p] > 0
  /\ flushHeadFree' = [flushHeadFree EXCEPT ![p] = @ - 1]
  /\ flushHeadBusy' = [flushHeadBusy EXCEPT ![p] = <<held[p]>> \o @]
  /\ spare' = [spare EXCEPT ![held[p].from] = @ + 1]
  /\ held' = [held EXCEPT ![p] = None]
  /\ UNCHANGED <<threadVars, queueVars, flushingOut, finishing, mpiVars, localVars, nOpenCaches>>

MessageCacheFlushOut(p) ==
  /\ Process(p, "flushOut")
  /\ net' = net \cup ToSet(flushHeadBusy[p])
  /\ flushHeadBusy' = [flushHeadBusy EXCEPT ![p] = <<>>]
  /\ flushingOut' = [flushingOut EXCEPT ![p] = TRUE]
  /\ UNCHANGED <<threadVars, spare, threadBarrierQueue, answered, held, flushHeadFree, finishing,
                 arrived, completed, inBarrier, barrierOpen, localVars, nOpenCaches>>

FlushedOut(p) == flushHeadFree[p] = RankBuffers

FlushOutDone(p) ==
  /\ Serving(p) /\ Free(p) /\ ~finishing[p]
  /\ flushingOut[p] /\ FlushedOut(p)
  /\ flushingOut' = [flushingOut EXCEPT ![p] = FALSE]
  /\ Answer(Core0(p))
  /\ UNCHANGED <<threadVars, spare, threadBarrierQueue, queueMPInew, held, flushHeadBusy, flushHeadFree,
                 finishing, mpiVars, localVars, nOpenCaches>>

MessageBarrierMPI(p) ==
  /\ Process(p, "barrierMPI")
  /\ inBarrier' = inBarrier \cup {p} /\ barrierOpen' = barrierOpen \cup {p}
  /\ UNCHANGED <<threadVars, spare, threadBarrierQueue, answered, rankVars, finishing, net, arrived,
                 completed, localVars, nOpenCaches>>

\* Mutant: flushBuffersByCore is not reset.
MessageCacheFlushLocal_BufferKept(p) ==
  /\ Process(p, "flushLocal")
  /\ wqCacheFlush' = [t \in Thread |->
       IF ProcOf(t) = p /\ flushBuffersByCore[t] # None
       THEN Append(wqCacheFlush[t], flushBuffersByCore[t]) ELSE wqCacheFlush[t]]
  /\ Answer(Core0(p))
  /\ UNCHANGED <<threadVars, spare, threadBarrierQueue, rankVars, finishing, mpiVars, stuck, flushBuffersByCore,
                 localFlushBuffers, combined, nOpenCaches>>

MessageCacheFlushLocal(p) ==
  /\ Process(p, "flushLocal")
  /\ wqCacheFlush' = [t \in Thread |->
       IF ProcOf(t) = p /\ flushBuffersByCore[t] # None
       THEN Append(wqCacheFlush[t], flushBuffersByCore[t]) ELSE wqCacheFlush[t]]
  /\ flushBuffersByCore' = [t \in Thread |-> IF ProcOf(t) = p THEN None ELSE flushBuffersByCore[t]]
  /\ Answer(Core0(p))
  /\ UNCHANGED <<threadVars, spare, threadBarrierQueue, rankVars, finishing, mpiVars, stuck,
                 localFlushBuffers, combined, nOpenCaches>>

MessageCacheClose(p) ==
  /\ Process(p, "close")
  /\ nOpenCaches' = [nOpenCaches EXCEPT ![p] = @ - 1]
  /\ Answer(Head(queueMPInew[p]).from)
  /\ UNCHANGED <<threadVars, spare, threadBarrierQueue, rankVars, finishing, mpiVars, localVars>>

------------------------------------------------------------------------------
(* The MPI thread: finishRequests *)

\* MPI matches a send with one of the receives posted while a cache is open.
Match(u) ==
  /\ u \in net /\ nOpenCaches[RankOf(u)] > 0
  /\ net' = net \ {u} /\ arrived' = arrived \cup {u}
  /\ completed' = [completed EXCEPT ![ProcOf(u.from)] = @ + 1]
  /\ UNCHANGED <<threadVars, spare, queueVars, rankVars, finishing, inBarrier, barrierOpen, localVars,
                 nOpenCaches>>

\* finishRequests runs from checkMPI, and while a rank buffer is awaited.
MayFinish(p) ==
  /\ Serving(p) /\ stuck[p] = None
  /\ finishing[p] \/ held[p] = None \/ flushHeadFree[p] = 0
Finish(p) == MayFinish(p) /\ finishing' = [finishing EXCEPT ![p] = TRUE]

BarrierEnded(p) == p \in barrierOpen /\ inBarrier = Proc
NothingComplete(p) ==
  completed[p] = 0 /\ ~BarrierEnded(p) /\ \A u \in arrived : RankOf(u) # p

\* CacheReceiveFlush and queue_local_flush: the buffer of that core is full and is
\* queued, and another is taken, or there was none.
FinishReceive(p) ==
  /\ Finish(p)
  /\ \E u \in arrived :
       /\ RankOf(u) = p
       /\ arrived' = arrived \ {u}
       /\ IF flushBuffersByCore[u.to] = None
          THEN UNCHANGED wqCacheFlush
          ELSE wqCacheFlush' = [wqCacheFlush EXCEPT ![u.to] = Append(@, flushBuffersByCore[u.to])]
       /\ flushBuffersByCore' = [flushBuffersByCore EXCEPT ![u.to] = None]
       /\ stuck' = [stuck EXCEPT ![p] = u]
  /\ UNCHANGED <<threadVars, spare, queueVars, rankVars, net, completed, inBarrier, barrierOpen,
                 localFlushBuffers, combined, nOpenCaches>>

\* localFlushBuffers.wait(): nothing else is done until there is one.
BufferForCore(p) ==
  /\ stuck[p] # None /\ localFlushBuffers[p] > 0
  /\ localFlushBuffers' = [localFlushBuffers EXCEPT ![p] = @ - 1]
  /\ flushBuffersByCore' = [flushBuffersByCore EXCEPT ![stuck[p].to] = stuck[p]]
  /\ stuck' = [stuck EXCEPT ![p] = None]
  /\ UNCHANGED <<threadVars, spare, queueVars, rankVars, finishing, mpiVars, wqCacheFlush, combined,
                 nOpenCaches>>

\* Mutant: the buffer of a finished send does not go back to flushHeadFree.
FinishFlushToRank_NotFreed(p) ==
  /\ Finish(p)
  /\ completed[p] > 0
  /\ completed' = [completed EXCEPT ![p] = @ - 1]
  /\ UNCHANGED <<threadVars, spare, queueVars, rankVars, net, arrived, inBarrier, barrierOpen, localVars,
                 nOpenCaches>>

FinishFlushToRank(p) ==
  /\ Finish(p)
  /\ completed[p] > 0
  /\ completed' = [completed EXCEPT ![p] = @ - 1]
  /\ flushHeadFree' = [flushHeadFree EXCEPT ![p] = @ + 1]
  /\ UNCHANGED <<threadVars, spare, queueVars, held, flushingOut, flushHeadBusy, net, arrived, inBarrier,
                 barrierOpen, localVars, nOpenCaches>>

FinishBarrier(p) ==
  /\ Finish(p)
  /\ BarrierEnded(p)
  /\ barrierOpen' = barrierOpen \ {p}
  /\ Answer(Core0(p))
  /\ UNCHANGED <<threadVars, spare, threadBarrierQueue, queueMPInew, rankVars, net, arrived, completed,
                 inBarrier, localVars, nOpenCaches>>

\* MPI_Testsome reports nothing more.
LeaveFinish(p) ==
  /\ finishing[p] /\ MayFinish(p) /\ NothingComplete(p)
  /\ finishing' = [finishing EXCEPT ![p] = FALSE]
  /\ UNCHANGED <<threadVars, spare, queueVars, rankVars, mpiVars, localVars, nOpenCaches>>

MPIThread(p) ==
  \/ MessageFlushFromCore(p) \/ BufferForRank(p) \/ MessageCacheFlushOut(p) \/ FlushOutDone(p)
  \/ MessageBarrierMPI(p) \/ MessageCacheFlushLocal(p) \/ MessageCacheClose(p)
  \/ FinishReceive(p) \/ BufferForCore(p) \/ FinishFlushToRank(p) \/ FinishBarrier(p) \/ LeaveFinish(p)

Next ==
  \/ \E t \in Thread : Core(t) \/ Combine(t)
  \/ \E p \in Proc : MPIThread(p)
  \/ \E u \in Update : Match(u)

\* Every thread keeps running and MPI makes progress.
Fairness ==
  /\ \A t \in Thread : WF_vars(Core(t)) /\ WF_vars(Combine(t))
  /\ \A p \in Proc : WF_vars(MPIThread(p))
  /\ \A u \in Update : WF_vars(Match(u))

Spec == Init /\ [][Next]_vars /\ Fairness
------------------------------------------------------------------------------
(* Properties *)

\* The updates that p has sent and MPI has not matched, and those in a buffer for a core of p
Sent(p) == {u \in net : ProcOf(u.from) = p}
InCoreBuffer(p) ==
  {u \in Update : RankOf(u) = p /\ (flushBuffersByCore[u.to] = u \/ u \in ToSet(wqCacheFlush[u.to]))}

\* No buffer is lost or handed out twice, nor queued twice.  MessageCacheFlushOut waits until
\* every rank buffer is free again, and the MPI thread and the cores wait for theirs.
BuffersAccounted ==
  /\ \A p \in Proc :
       /\ flushHeadFree[p] + Len(flushHeadBusy[p]) + completed[p] + Cardinality(Sent(p)) = RankBuffers
       /\ localFlushBuffers[p] + Cardinality(InCoreBuffer(p)) = 2 * Cores
  /\ \A t \in Thread : Cardinality(ToSet(wqCacheFlush[t])) = Len(wqCacheFlush[t])

\* The places an update can be in on its way.
At(u) ==
  LET p == ProcOf(u.from)
  IN  [arc |-> u \in dirty[u.from], core |-> coreFlushBuffer[u.from] = u,
       queue |-> \E m \in ToSet(queueMPInew[p]) : m.update = u,
       held |-> held[p] = u, rank |-> u \in ToSet(flushHeadBusy[p]), net |-> u \in net,
       arrived |-> u \in arrived, stuck |-> stuck[RankOf(u)] = u, local |-> flushBuffersByCore[u.to] = u,
       wq |-> u \in ToSet(wqCacheFlush[u.to]), combined |-> u \in combined]
Places(u) == {l \in DOMAIN At(u) : At(u)[l]}

\* No update is lost or doubled between the buffers and queues it goes through, where it
\* would be combined never or twice; nor is a buffer, and a full one is never needed by
\* two (BuffersAccounted).
OncePerUpdate == (\A u \in Update : Cardinality(Places(u)) = 1) /\ BuffersAccounted

\* Has s sent its message for barrier r?
ArrivedAt(s, r) == round[s] > r \/ (round[s] = r /\ pc[s] \in {"arrive", "wait"})

\* Nobody passes a barrier before everybody has reached it, on the same process or,
\* for the second one of FlushCache, on any (ThreadBarrier).
BarrierHolds ==
  \A s, t \in Thread : \A r \in 1..3 :
    round[t] > r /\ (ProcOf(s) = ProcOf(t) \/ r = 2) => ArrivedAt(s, r)

\* When FlushCache returns on a process, every update for its threads, from whatever
\* process and buffer, has been combined or is queued at its owner.
NothingLeftBehind ==
  \A t \in Thread : round[t] > 3 =>
    \A u \in Update : RankOf(u) = ProcOf(t) => Places(u) \subseteq {"wq", "combined"}

\* FinishCache returns on every thread.
Completes == <>(\A t \in Thread : pc[t] = "done")

\* The comment above mdlFlushCache: "all data from all caches will have been fully
\* flushed and synchonized between all threads on all nodes before it returns".
FlushedOnReturn ==
  \A t \in Thread : round[t] > 3 => \A u \in Update : u.to = t => u \in combined
=============================================================================
