---------------------------- MODULE CacheRequest ----------------------------
(***************************************************************************)
(* The life of one cache id (mdl2/mpi/mdl.cxx): all threads open it, fetch  *)
(* elements that other processes own, and finish it, again and again.      *)
(* A thread that misses in its ARC cache hands its one CacheRequest to the  *)
(* MPI thread of its process, which sends it to the process of the owner;   *)
(* the MPI thread there packs the line and sends it back.  The MPI thread   *)
(* is a thread of its own (Dedicated) or core 0, which serves MPI whenever  *)
(* it waits, and when it checks the cache between its own accesses.         *)
(*                                                                         *)
(* ThreadBarrier is one step for each thread to arrive and one to leave     *)
(* (CacheFlush has its messages), and of FlushCache its barriers are left.  *)
(* The session of a message is its history: nothing in the code reads it.   *)
(***************************************************************************)
EXTENDS Naturals, Sequences, FiniteSets, SequencesExt

CONSTANTS Proc,          \* processes
          Cores,         \* worker threads of each process
          Dedicated,     \* the processes that have an MPI thread beside the workers
          Wanted,        \* the lines threads may ask for, records [by, owner, line]
          Receives,      \* posted receives: 25 in the code
          Sessions,      \* bound: how often the cache is opened
          Fetches        \* bound: remote fetches of a thread in one session

Thread == Proc \X (0..(Cores - 1))

ASSUME RequestAssumption ==
  /\ IsFiniteSet(Proc) /\ Cores \in Nat \ {0} /\ Dedicated \subseteq Proc
  /\ Receives \in Nat \ {0} /\ Sessions \in Nat \ {0} /\ Fetches \in Nat
  /\ Wanted \subseteq [by : Thread, owner : Thread, line : Nat]
  /\ \A w \in Wanted : w.by[1] # w.owner[1]

VARIABLES pc, session, fetches,  \* where each thread is, in which session, after how many fetches
          active,                \* is cache_helper of the thread's cache set?
          barriers,              \* number of barriers each thread has arrived at
          asked,                 \* its CacheRequest: the last line it asked for
          queueCacheReply,       \* the answers it has been sent
          answered,              \* has its open or close message been answered?
          queueMPInew,           \* messages to each MPI thread
          CacheRequestMessages,  \* the request each core waits for, or None
          nOpenCaches, posted,   \* of each process: open caches, receives posted
          net, matched,          \* messages sent and not matched; matched and not finished
          iProc                  \* the rank the MPI thread's context has

threadVars == <<pc, session, fetches, active, barriers, asked>>
replyVars == <<queueCacheReply, answered>>
openVars == <<nOpenCaches, posted>>
mpiVars == <<net, matched>>
vars == <<threadVars, replyVars, queueMPInew, CacheRequestMessages, openVars, mpiVars, iProc>>

None == [owner |-> <<>>, line |-> <<>>]
ProcOf(t) == t[1]
Self(p) == <<p, 0>>
Request == {[owner |-> w.owner, line |-> w.line] : w \in Wanted}

Init ==
  /\ pc = [t \in Thread |-> "closed"] /\ session = [t \in Thread |-> 1]
  /\ fetches = [t \in Thread |-> 0] /\ active = [t \in Thread |-> FALSE]
  /\ barriers = [t \in Thread |-> 0] /\ asked = [t \in Thread |-> None]
  /\ queueCacheReply = [t \in Thread |-> <<>>] /\ answered = [t \in Thread |-> FALSE]
  /\ queueMPInew = [p \in Proc |-> <<>>]
  /\ CacheRequestMessages = [t \in Thread |-> None]
  /\ nOpenCaches = [p \in Proc |-> 0] /\ posted = [p \in Proc |-> 0]
  /\ net = {} /\ matched = {}
  /\ iProc = [p \in Proc |-> p]

Goto(t, l) == pc' = [pc EXCEPT ![t] = l]
Enqueue(t, m) == queueMPInew' = [queueMPInew EXCEPT ![ProcOf(t)] = Append(@, m)]
AllArrived(t) == \A s \in Thread : barriers[s] >= barriers[t]
Arrive(t) == barriers' = [barriers EXCEPT ![t] = @ + 1]

------------------------------------------------------------------------------
(* A thread: CacheInitialize, Access and FinishCache *)

\* c->initialize(), then the thread arrives at the barrier.
Initialize(t) ==
  /\ pc[t] = "closed" /\ ~active[t]
  /\ active' = [active EXCEPT ![t] = TRUE]
  /\ Arrive(t) /\ Goto(t, "opening")
  /\ UNCHANGED <<session, fetches, asked, replyVars, queueMPInew, CacheRequestMessages, openVars, mpiVars, iProc>>

\* Mutant: CacheInitialize without its barrier.
LeaveOpening_NoBarrier(t) ==
  /\ pc[t] = "opening"
  /\ Enqueue(t, [kind |-> "open", from |-> t, request |-> None]) /\ Goto(t, "openWait")
  /\ UNCHANGED <<session, fetches, active, barriers, asked, replyVars, CacheRequestMessages, openVars, mpiVars, iProc>>

\* Nobody should start using this cache until all threads have started it.
LeaveOpening(t) ==
  /\ pc[t] = "opening" /\ AllArrived(t)
  /\ Enqueue(t, [kind |-> "open", from |-> t, request |-> None]) /\ Goto(t, "openWait")
  /\ UNCHANGED <<session, fetches, active, barriers, asked, replyVars, CacheRequestMessages, openVars, mpiVars, iProc>>

Opened(t) ==
  /\ pc[t] = "openWait" /\ answered[t]
  /\ answered' = [answered EXCEPT ![t] = FALSE]
  /\ Goto(t, "compute")
  /\ UNCHANGED <<session, fetches, active, barriers, asked, queueCacheReply, queueMPInew, CacheRequestMessages,
                 openVars, mpiVars, iProc>>

\* A miss on a line of another process: invokeRequest.
InvokeRequest(t) ==
  /\ pc[t] = "compute" /\ fetches[t] < Fetches
  /\ fetches' = [fetches EXCEPT ![t] = @ + 1]
  /\ \E r \in Request :
       /\ [by |-> t, owner |-> r.owner, line |-> r.line] \in Wanted
       /\ asked' = [asked EXCEPT ![t] = r]
       /\ Enqueue(t, [kind |-> "request", from |-> t, request |-> r])
  /\ Goto(t, "fetch")
  /\ UNCHANGED <<session, active, barriers, replyVars, CacheRequestMessages, openVars, mpiVars, iProc>>

\* finishCacheRequest: the answer is there and is copied into the ARC cache.
FinishRequest(t) ==
  /\ pc[t] = "fetch" /\ queueCacheReply[t] # <<>>
  /\ queueCacheReply' = [queueCacheReply EXCEPT ![t] = Tail(@)]
  /\ Goto(t, "compute")
  /\ UNCHANGED <<session, fetches, active, barriers, asked, answered, queueMPInew, CacheRequestMessages,
                 openVars, mpiVars, iProc>>

\* FinishCache begins with FlushCache and its barriers.
FlushCache(t) ==
  /\ pc[t] = "compute"
  /\ Arrive(t) /\ Goto(t, "flushing")
  /\ UNCHANGED <<session, fetches, active, asked, replyVars, queueMPInew, CacheRequestMessages, openVars, mpiVars,
                 iProc>>

LeaveFlush(t) ==
  /\ pc[t] = "flushing" /\ AllArrived(t)
  /\ Enqueue(t, [kind |-> "close", from |-> t, request |-> None]) /\ Goto(t, "closeWait")
  /\ UNCHANGED <<session, fetches, active, barriers, asked, replyVars, CacheRequestMessages, openVars, mpiVars, iProc>>

\* The close message is answered: c->close().
Close(t) ==
  /\ pc[t] = "closeWait" /\ answered[t]
  /\ answered' = [answered EXCEPT ![t] = FALSE]
  /\ active' = [active EXCEPT ![t] = FALSE]
  /\ Goto(t, IF session[t] = Sessions THEN "done" ELSE "closed")
  /\ session' = [session EXCEPT ![t] = IF @ = Sessions THEN @ ELSE @ + 1]
  /\ fetches' = [fetches EXCEPT ![t] = 0]
  /\ UNCHANGED <<barriers, asked, queueCacheReply, queueMPInew, CacheRequestMessages, openVars, mpiVars, iProc>>

ThreadStep(t) ==
  \/ Initialize(t) \/ LeaveOpening(t) \/ Opened(t) \/ InvokeRequest(t) \/ FinishRequest(t)
  \/ FlushCache(t) \/ LeaveFlush(t) \/ Close(t)
------------------------------------------------------------------------------
(* The MPI thread *)

\* It runs always, or when core 0 waits or checks the cache.
Serving(p) == p \in Dedicated \/ pc[Self(p)] # "closed"

Process(p, kind) ==
  /\ Serving(p)
  /\ queueMPInew[p] # <<>> /\ Head(queueMPInew[p]).kind = kind
  /\ queueMPInew' = [queueMPInew EXCEPT ![p] = Tail(@)]
Answer(t) == answered' = [answered EXCEPT ![t] = TRUE]

MessageCacheOpen(p) ==
  /\ Process(p, "open")
  /\ posted' = [posted EXCEPT ![p] = IF nOpenCaches[p] = 0 THEN @ + Receives ELSE @]
  /\ nOpenCaches' = [nOpenCaches EXCEPT ![p] = @ + 1]
  /\ Answer(Head(queueMPInew[p]).from)
  /\ UNCHANGED <<threadVars, queueCacheReply, CacheRequestMessages, mpiVars, iProc>>

\* The receives that have matched nothing are cancelled with the last cache.
MessageCacheClose(p) ==
  /\ Process(p, "close")
  /\ nOpenCaches' = [nOpenCaches EXCEPT ![p] = @ - 1]
  /\ posted' = [posted EXCEPT ![p] = IF nOpenCaches[p] = 1 THEN 0 ELSE @]
  /\ Answer(Head(queueMPInew[p]).from)
  /\ UNCHANGED <<threadVars, queueCacheReply, CacheRequestMessages, mpiVars, iProc>>

\* The assertion that the core has no request is a property (OneRequestPerCore).
MessageCacheRequest(p) ==
  /\ Process(p, "request")
  /\ LET m == Head(queueMPInew[p])
     IN  /\ CacheRequestMessages' = [CacheRequestMessages EXCEPT ![m.from] = m.request]
         /\ iProc' = [iProc EXCEPT ![p] = ProcOf(m.request.owner)]
         /\ net' = net \cup {[mid |-> "REQUEST", idFrom |-> m.from, idTo |-> m.request.owner,
                              data |-> m.request, session |-> session[m.from]]}
  /\ UNCHANGED <<threadVars, replyVars, openVars, matched>>

\* A posted receive matches a message for its process.
Match(p) ==
  /\ posted[p] > 0
  /\ \E m \in net :
       /\ ProcOf(m.idTo) = p
       /\ net' = net \ {m} /\ matched' = matched \cup {m}
  /\ posted' = [posted EXCEPT ![p] = @ - 1]
  /\ UNCHANGED <<threadVars, replyVars, queueMPInew, CacheRequestMessages, nOpenCaches, iProc>>

\* Mutant: every reply is addressed to the first thread of the process.
ReplyTo_Self(m) == Self(ProcOf(m.idFrom))

ReplyTo(m) == m.idFrom

\* FinishCacheReceive of a request: the reply is sent and the receive posted again.
CacheReceiveRequest(p) ==
  /\ Serving(p)
  /\ \E m \in matched :
       /\ ProcOf(m.idTo) = p /\ m.mid = "REQUEST"
       /\ matched' = matched \ {m}
       /\ net' = net \cup {[mid |-> "REPLY", idFrom |-> Self(p), idTo |-> ReplyTo(m),
                            data |-> [owner |-> m.idTo, line |-> m.data.line], session |-> m.session]}
  /\ posted' = [posted EXCEPT ![p] = @ + 1]
  /\ UNCHANGED <<threadVars, replyVars, queueMPInew, CacheRequestMessages, nOpenCaches, iProc>>

Cleared(t) == [CacheRequestMessages EXCEPT ![t] = None]

\* The receive is restarted.
Restarted(p) == [posted EXCEPT ![p] = @ + 1]

\* FinishCacheReceive of a reply: if the core has a request, the line is copied to
\* it and it is sent back to the thread.
CacheReceiveReply(p) ==
  /\ Serving(p)
  /\ \E m \in matched :
       /\ ProcOf(m.idTo) = p /\ m.mid = "REPLY"
       /\ matched' = matched \ {m}
       /\ IF CacheRequestMessages[m.idTo] # None
          THEN queueCacheReply' = [queueCacheReply EXCEPT ![m.idTo] = Append(@, m.data)]
          ELSE UNCHANGED queueCacheReply
       /\ CacheRequestMessages' = Cleared(m.idTo)
  /\ posted' = Restarted(p)
  /\ UNCHANGED <<threadVars, answered, queueMPInew, nOpenCaches, net, iProc>>

MPIThread(p) ==
  \/ MessageCacheOpen(p) \/ MessageCacheClose(p) \/ MessageCacheRequest(p)
  \/ CacheReceiveRequest(p) \/ CacheReceiveReply(p)

Next ==
  \/ \E t \in Thread : ThreadStep(t)
  \/ \E p \in Proc : MPIThread(p) \/ Match(p)

\* Threads keep running and MPI makes progress.  A core 0 that computes is not
\* required to check its cache: it comes to its next barrier and serves there.
Fairness ==
  /\ \A t \in Thread : WF_vars(ThreadStep(t))
  /\ \A p \in Proc : WF_vars(MPIThread(p) /\ (p \in Dedicated \/ pc[Self(p)] # "compute")) /\ WF_vars(Match(p))

Spec == Init /\ [][Next]_vars /\ Fairness
------------------------------------------------------------------------------
(* Properties *)

\* Every receive a process posted is waiting, or its message is being handled, as long
\* as the process has a cache open; none is left over from one session to the next.
ReceivesAccounted ==
  \A p \in Proc :
    posted[p] + Cardinality({m \in matched : ProcOf(m.idTo) = p}) = IF nOpenCaches[p] = 0 THEN 0 ELSE Receives

\* A message never reaches a core whose cache is closed, or open again for something
\* else: its cache_helper would be null, or another one (CacheReceiveRequest and
\* CacheReceiveReply use it unchecked).  Nor does it find a receive of an earlier session.
ServedWhileOpen ==
  /\ \A m \in net \cup matched : active[m.idTo] /\ session[m.idTo] = m.session
  /\ ReceivesAccounted

\* The assertion of MessageCacheRequest: a core has at most one request, from the time
\* it is queued until its answer is.
OneRequestPerCore ==
  \A t \in Thread :
    LET queue == queueMPInew[ProcOf(t)]
        queued == Cardinality({i \in DOMAIN queue : queue[i].kind = "request" /\ queue[i].from = t})
        waiting == IF CacheRequestMessages[t] = None THEN 0 ELSE 1
    IN  queued + waiting + Len(queueCacheReply[t]) = IF pc[t] = "fetch" THEN 1 ELSE 0

\* The answer a thread takes is the line it asked for, from the thread that owns it, in
\* the one slot that its core has for requests (OneRequestPerCore).
OwnAnswer ==
  /\ OneRequestPerCore
  /\ \A t \in Thread : pc[t] = "fetch" /\ queueCacheReply[t] # <<>> => Head(queueCacheReply[t]) = asked[t]

\* Every fetch is answered, also when all threads fetch from each other, and the
\* sessions come to an end.
Completes == <>(\A t \in Thread : pc[t] = "done")

\* The comment at mdlBASE::iProc: "Index of this process (MPI rank)".
ProcIsRank == \A p \in Proc : iProc[p] = p
=============================================================================
