------------------------- MODULE CacheRequestProofs -------------------------
(***************************************************************************)
(* Proofs about CacheRequest, for any processes, cores, lines and sessions. *)
(* The inductive invariant says where the threads are with respect to each  *)
(* other (InSession, Gates), where a thread's one request is (Queued, Asked,*)
(* Posted), and what a process counts (Counted, ReceivesAccounted).         *)
(***************************************************************************)
EXTENDS CacheRequest, FiniteSetTheorems, SequenceTheorems, TLAPS

Message == [kind : {"open", "close", "request"}, from : Thread, request : Request \cup {None}]
Mail == [mid : {"REQUEST", "REPLY"}, idFrom : Thread, idTo : Thread, data : Request, session : Nat]

Using == {"openWait", "compute", "fetch"}
Where == Using \cup {"closed", "opening", "flushing", "closeWait", "done"}

Flat ==
  /\ pc \in [Thread -> Where]
  /\ session \in [Thread -> Nat \ {0}] /\ fetches \in [Thread -> Nat]
  /\ active \in [Thread -> BOOLEAN] /\ barriers \in [Thread -> Nat]
  /\ asked \in [Thread -> Request \cup {None}] /\ answered \in [Thread -> BOOLEAN]
  /\ CacheRequestMessages \in [Thread -> Request \cup {None}]
  /\ nOpenCaches \in [Proc -> Int] /\ posted \in [Proc -> Int] /\ iProc \in [Proc -> Proc]

Deep ==
  /\ queueCacheReply \in [Thread -> Seq(Request)]
  /\ queueMPInew \in [Proc -> Seq(Message)]
  /\ net \in SUBSET Mail /\ matched \in SUBSET Mail
  /\ IsFiniteSet(matched)

\* The barriers a thread has arrived at are those of its sessions.
InSession ==
  \A t \in Thread :
    /\ active[t] <=> pc[t] \notin {"closed", "done"}
    /\ pc[t] = "closed" => barriers[t] = 2 * session[t] - 2
    /\ pc[t] \in Using \cup {"opening"} => barriers[t] = 2 * session[t] - 1
    /\ pc[t] \in {"flushing", "closeWait", "done"} => barriers[t] = 2 * session[t]

\* Nobody has left a barrier at which not everybody has arrived.
Left(t) == IF pc[t] \in {"opening", "flushing"} THEN barriers[t] - 1 ELSE barriers[t]
Gates == \A s, t \in Thread : Left(t) <= barriers[s]

\* A queue of an MPI thread has at most one message from each of its threads, which waits for it.
OneEach(q) == \A i, j \in DOMAIN q : q[i].from = q[j].from => i = j
Waits(m) ==
  /\ ~answered[m.from]
  /\ m.kind = "open" => pc[m.from] = "openWait"
  /\ m.kind = "close" => pc[m.from] = "closeWait"
  /\ m.kind = "request" =>
       /\ pc[m.from] = "fetch" /\ m.request = asked[m.from]
       /\ CacheRequestMessages[m.from] = None /\ queueCacheReply[m.from] = <<>>
Queued ==
  \A p \in Proc :
    /\ OneEach(queueMPInew[p])
    /\ \A m \in Range(queueMPInew[p]) : ProcOf(m.from) = p /\ Waits(m)

\* A thread that fetches has its request in the queue, with the MPI thread, or answered.
InQueue(t) == \E m \in Range(queueMPInew[ProcOf(t)]) : m.from = t /\ m.kind = "request"
AskedOf(t) ==
  /\ answered[t] => pc[t] \in {"openWait", "closeWait"}
  /\ CacheRequestMessages[t] # None =>
       pc[t] = "fetch" /\ CacheRequestMessages[t] = asked[t] /\ queueCacheReply[t] = <<>>
  /\ queueCacheReply[t] # <<>> => pc[t] = "fetch" /\ queueCacheReply[t] = <<asked[t]>>
  /\ pc[t] = "fetch" =>
       asked[t] \in Request /\ (CacheRequestMessages[t] # None \/ queueCacheReply[t] # <<>> \/ InQueue(t))
Asked == \A t \in Thread : AskedOf(t)

\* The one message on its way for a thread is its request or the answer to it.
Client(m) == IF m.mid = "REQUEST" THEN m.idFrom ELSE m.idTo
Posted ==
  /\ net \cap matched = {}
  /\ \A m \in net \cup matched :
       /\ CacheRequestMessages[Client(m)] # None
       /\ m.data = asked[Client(m)] /\ m.session = session[Client(m)]
       /\ m.mid = "REQUEST" => m.idTo = m.data.owner
  /\ \A m, n \in net \cup matched : Client(m) = Client(n) => m = n

\* The threads that a process counts as having the cache open
HasOpen(t) ==
  \/ pc[t] = "openWait" /\ answered[t]
  \/ pc[t] \in {"compute", "fetch", "flushing"}
  \/ pc[t] = "closeWait" /\ ~answered[t]
Openers(p) == {t \in Thread : ProcOf(t) = p /\ HasOpen(t)}
Counted == \A p \in Proc : nOpenCaches[p] = Cardinality(Openers(p))

IInv == Flat /\ Deep /\ InSession /\ Gates /\ Queued /\ Asked /\ Posted /\ Counted /\ ReceivesAccounted

------------------------------------------------------------------------------
(* Types *)

LEMMA ThreadFacts ==
  /\ IsFiniteSet(Proc) /\ IsFiniteSet(Thread) /\ Receives \in Nat \ {0} /\ Sessions \in Nat \ {0} /\ Fetches \in Nat
  /\ \A t \in Thread : ProcOf(t) \in Proc
  /\ \A p \in Proc : Self(p) \in Thread /\ ProcOf(Self(p)) = p
<1>1. IsFiniteSet(0..(Cores - 1)) /\ 0 \in 0..(Cores - 1)
  BY RequestAssumption, FS_Interval
<1>2. IsFiniteSet(Proc \X (0..(Cores - 1)))
  BY <1>1, RequestAssumption, FS_Product
<1> QED
  BY <1>1, <1>2, RequestAssumption DEF Thread, ProcOf, Self

LEMMA RequestParts ==
  /\ \A r \in Request : /\ r.owner \in Thread /\ r.line \in Nat /\ r # None
                        /\ r = [owner |-> r.owner, line |-> r.line]
  /\ None \notin Request
<1>1. ASSUME NEW t \in Thread PROVE t # <<>>
  <2>1. PICK p \in Proc, i \in 0..(Cores - 1) : t = <<p, i>>
    BY DEF Thread
  <2> QED
    BY <2>1
<1>2. \A r \in Request : /\ r.owner \in Thread /\ r.line \in Nat
                         /\ r = [owner |-> r.owner, line |-> r.line]
  BY RequestAssumption DEF Request
<1> QED
  BY <1>1, <1>2 DEF None

LEMMA HeadOfQueue ==
  ASSUME NEW S, NEW q \in Seq(S), q # <<>>
  PROVE  Head(q) \in S /\ Tail(q) \in Seq(S)
OBVIOUS

\* The message that an MPI thread takes from its queue
LEMMA HeadMessage ==
  ASSUME Deep, NEW p \in Proc, queueMPInew[p] # <<>>
  PROVE  LET m == Head(queueMPInew[p])
         IN  m \in Message /\ m \in Range(queueMPInew[p]) /\ Tail(queueMPInew[p]) \in Seq(Message)
<1>1. queueMPInew[p] \in Seq(Message)
  BY DEF Deep
<1> QED
  BY <1>1, HeadOfQueue DEF Range

LEMMA MessageParts ==
  ASSUME NEW m \in Message
  PROVE  m.kind \in {"open", "close", "request"} /\ m.from \in Thread /\ m.request \in Request \cup {None}
BY DEF Message

\* A request in the queue of an MPI thread is that of its thread.
LEMMA HeadRequest ==
  ASSUME Flat, Deep, Queued, Asked, NEW p \in Proc, Process(p, "request")
  PROVE  LET m == Head(queueMPInew[p])
         IN  /\ m.from \in Thread /\ ProcOf(m.from) = p /\ pc[m.from] = "fetch"
             /\ m.request = asked[m.from] /\ m.request \in Request
             /\ m.request.owner \in Thread /\ m.request # None
<1>1. PICK m : m = Head(queueMPInew[p])
  OBVIOUS
<1>2. m \in Message /\ m \in Range(queueMPInew[p]) /\ m.kind = "request"
  BY <1>1, HeadMessage DEF Process
<1>3. m.from \in Thread
  BY <1>2, MessageParts
<1>4. ProcOf(m.from) = p /\ pc[m.from] = "fetch" /\ m.request = asked[m.from]
  BY <1>2 DEF Queued, Waits
<1>5. asked[m.from] \in Request
  BY <1>3, <1>4 DEF Asked, AskedOf
<1> QED
  BY <1>1, <1>3, <1>4, <1>5, RequestParts

LEMMA FlatStep == Flat /\ Deep /\ Queued /\ Asked /\ [Next]_vars => Flat'
<1> SUFFICES ASSUME Flat, Deep, Queued, Asked, [Next]_vars PROVE Flat'
  OBVIOUS
<1>0. \A t \in Thread : ProcOf(t) \in Proc
  BY ThreadFacts
<1>a. \A m \in net \cup matched : m.idFrom \in Thread /\ m.idTo \in Thread
  BY DEF Deep, Mail
<1> USE DEF threadVars, replyVars, openVars, mpiVars, Goto, Arrive, Using, Where, Flat
<1>1. ASSUME NEW t \in Thread, Initialize(t) PROVE Flat'
  BY <1>1 DEF Initialize
<1>2. ASSUME NEW t \in Thread, LeaveOpening(t) PROVE Flat'
  BY <1>2 DEF LeaveOpening
<1>3. ASSUME NEW t \in Thread, Opened(t) PROVE Flat'
  BY <1>3 DEF Opened
<1>4. ASSUME NEW t \in Thread, InvokeRequest(t) PROVE Flat'
  BY <1>4 DEF InvokeRequest
<1>5. ASSUME NEW t \in Thread, FinishRequest(t) PROVE Flat'
  BY <1>5 DEF FinishRequest
<1>6. ASSUME NEW t \in Thread, FlushCache(t) PROVE Flat'
  BY <1>6 DEF FlushCache
<1>7. ASSUME NEW t \in Thread, LeaveFlush(t) PROVE Flat'
  BY <1>7 DEF LeaveFlush
<1>8. ASSUME NEW t \in Thread, Close(t) PROVE Flat'
  BY <1>8 DEF Close
<1>9. ASSUME NEW p \in Proc, MessageCacheOpen(p) PROVE Flat'
  <2>1. PICK m : m = Head(queueMPInew[p])
    OBVIOUS
  <2>2. m \in Message
    BY <1>9, <2>1, HeadMessage DEF MessageCacheOpen, Process
  <2>3. answered' = [answered EXCEPT ![m.from] = TRUE] /\ m.from \in Thread
    BY <1>9, <2>1, <2>2, MessageParts DEF MessageCacheOpen, Answer
  <2>4. nOpenCaches' \in [Proc -> Int] /\ posted' \in [Proc -> Int]
    BY <1>9, ThreadFacts DEF MessageCacheOpen
  <2> QED
    BY <1>9, <2>3, <2>4 DEF MessageCacheOpen
<1>10. ASSUME NEW p \in Proc, MessageCacheClose(p) PROVE Flat'
  <2>1. PICK m : m = Head(queueMPInew[p])
    OBVIOUS
  <2>2. m \in Message
    BY <1>10, <2>1, HeadMessage DEF MessageCacheClose, Process
  <2>3. answered' = [answered EXCEPT ![m.from] = TRUE] /\ m.from \in Thread
    BY <1>10, <2>1, <2>2, MessageParts DEF MessageCacheClose, Answer
  <2>4. nOpenCaches' \in [Proc -> Int] /\ posted' \in [Proc -> Int]
    BY <1>10 DEF MessageCacheClose
  <2> QED
    BY <1>10, <2>3, <2>4 DEF MessageCacheClose
<1>11. ASSUME NEW p \in Proc, MessageCacheRequest(p) PROVE Flat'
  <2>1. PICK m : m = Head(queueMPInew[p])
    OBVIOUS
  <2>2. m.from \in Thread /\ m.request \in Request /\ m.request.owner \in Thread
    BY <1>11, <2>1, HeadRequest DEF MessageCacheRequest
  <2>3. /\ CacheRequestMessages' = [CacheRequestMessages EXCEPT ![m.from] = m.request]
        /\ iProc' = [iProc EXCEPT ![p] = ProcOf(m.request.owner)]
    BY <1>11, <2>1 DEF MessageCacheRequest
  <2>4. ProcOf(m.request.owner) \in Proc
    BY <1>0, <2>2
  <2>5. CacheRequestMessages' \in [Thread -> Request \cup {None}] /\ iProc' \in [Proc -> Proc]
    BY <2>2, <2>3, <2>4
  <2> QED
    BY <1>11, <2>5 DEF MessageCacheRequest
<1>12. ASSUME NEW p \in Proc, Match(p) PROVE Flat'
  BY <1>12 DEF Match
<1>13. ASSUME NEW p \in Proc, CacheReceiveRequest(p) PROVE Flat'
  BY <1>13 DEF CacheReceiveRequest
<1>14. ASSUME NEW p \in Proc, CacheReceiveReply(p) PROVE Flat'
  BY <1>a, <1>14 DEF CacheReceiveReply, Cleared, Restarted
<1>15. CASE UNCHANGED vars
  BY <1>15 DEF vars
<1> QED
  BY <1>1, <1>2, <1>3, <1>4, <1>5, <1>6, <1>7, <1>8, <1>9, <1>10, <1>11, <1>12, <1>13, <1>14, <1>15
     DEF Next, ThreadStep, MPIThread
------------------------------------------------------------------------------
(* The queues of the MPI threads and the messages between them *)

LEMMA EachAppend ==
  ASSUME NEW q \in Seq(Message), NEW m \in Message
  PROVE  /\ Append(q, m) \in Seq(Message) /\ Range(Append(q, m)) = Range(q) \cup {m}
         /\ OneEach(q) /\ (\A n \in Range(q) : n.from # m.from) => OneEach(Append(q, m))
<1>1. /\ DOMAIN q = 1..Len(q) /\ DOMAIN Append(q, m) = 1..(Len(q) + 1) /\ Len(q) \in Nat
      /\ Append(q, m)[Len(q) + 1] = m /\ \A i \in 1..Len(q) : Append(q, m)[i] = q[i]
  OBVIOUS
<1>2. \A i \in 1..(Len(q) + 1) : i = Len(q) + 1 \/ i \in 1..Len(q)
  BY <1>1
<1>3. \A i \in 1..Len(q) : i \in 1..(Len(q) + 1)
  BY <1>1
<1>4. Len(q) + 1 \in 1..(Len(q) + 1)
  BY <1>1
<1>5. Append(q, m) \in Seq(Message)
  OBVIOUS
<1>6. Range(Append(q, m)) = Range(q) \cup {m}
  BY <1>1, <1>2, <1>3, <1>4, Zenon DEF Range
<1>7. ASSUME OneEach(q), \A n \in Range(q) : n.from # m.from PROVE OneEach(Append(q, m))
  <2>1. \A i \in 1..Len(q) : q[i].from # m.from
    BY <1>1, <1>7 DEF Range
  <2> QED
    BY <1>1, <1>2, <1>7, <2>1, Zenon DEF OneEach
<1> QED
  BY <1>5, <1>6, <1>7

LEMMA EachTail ==
  ASSUME NEW q \in Seq(Message), q # <<>>
  PROVE  /\ Tail(q) \in Seq(Message) /\ Head(q) \in Message /\ Range(q) = Range(Tail(q)) \cup {Head(q)}
         /\ OneEach(q) => OneEach(Tail(q)) /\ \A n \in Range(Tail(q)) : n.from # Head(q).from
<1>1. /\ DOMAIN q = 1..Len(q) /\ DOMAIN Tail(q) = 1..(Len(q) - 1) /\ Len(q) \in Nat \ {0}
      /\ Head(q) \in Message /\ Tail(q) \in Seq(Message)
  BY HeadOfQueue
<1>0. Head(q) = q[1] /\ \A i \in DOMAIN Tail(q) : i + 1 \in DOMAIN q /\ Tail(q)[i] = q[i + 1]
  BY HeadOfQueue
<1>2. \A i \in DOMAIN q : i = 1 \/ \E j \in DOMAIN Tail(q) : i = j + 1
  <2>1. ASSUME NEW i \in 1..Len(q), i # 1 PROVE i - 1 \in 1..(Len(q) - 1) /\ i = (i - 1) + 1
    BY <1>1, <2>1
  <2> QED
    BY <1>1, <2>1
<1>3. 1 \in DOMAIN q /\ \A i \in DOMAIN Tail(q) : i + 1 # 1
  BY <1>1
<1>4. \A i, j \in DOMAIN Tail(q) : i + 1 = j + 1 => i = j
  BY <1>1
<1>5. Range(q) = Range(Tail(q)) \cup {Head(q)}
  <2>1. ASSUME NEW i \in DOMAIN q PROVE q[i] \in Range(Tail(q)) \cup {Head(q)}
    <3>1. CASE i = 1
      BY <1>0, <3>1
    <3>2. CASE \E j \in DOMAIN Tail(q) : i = j + 1
      BY <1>0, <3>2 DEF Range
    <3> QED
      BY <1>2, <3>1, <3>2
  <2>2. \A i \in DOMAIN Tail(q) : Tail(q)[i] \in Range(q)
    BY <1>0 DEF Range
  <2>3. Head(q) \in Range(q)
    BY <1>0, <1>3 DEF Range
  <2> QED
    BY <2>1, <2>2, <2>3 DEF Range
<1>6. ASSUME OneEach(q) PROVE OneEach(Tail(q)) /\ \A n \in Range(Tail(q)) : n.from # Head(q).from
  <2>1. \A i \in DOMAIN Tail(q) : Tail(q)[i].from # Head(q).from
    BY <1>0, <1>3, <1>6 DEF OneEach
  <2>2. ASSUME NEW i \in DOMAIN Tail(q), NEW j \in DOMAIN Tail(q), Tail(q)[i].from = Tail(q)[j].from PROVE i = j
    <3>1. q[i + 1].from = q[j + 1].from /\ i + 1 \in DOMAIN q /\ j + 1 \in DOMAIN q
      BY <1>0, <2>2
    <3>2. i + 1 = j + 1
      BY <1>6, <3>1 DEF OneEach
    <3> QED
      BY <1>4, <3>2
  <2> QED
    BY <2>1, <2>2 DEF Range, OneEach
<1> QED
  BY <1>1, <1>5, <1>6

LEMMA Enqueued ==
  ASSUME Deep, NEW t \in Thread, NEW m \in Message, Enqueue(t, m)
  PROVE  /\ queueMPInew' \in [Proc -> Seq(Message)]
         /\ Range(queueMPInew'[ProcOf(t)]) = Range(queueMPInew[ProcOf(t)]) \cup {m}
         /\ OneEach(queueMPInew[ProcOf(t)]) /\ (\A n \in Range(queueMPInew[ProcOf(t)]) : n.from # m.from)
              => OneEach(queueMPInew'[ProcOf(t)])
         /\ \A p \in Proc \ {ProcOf(t)} : queueMPInew'[p] = queueMPInew[p]
<1>1. ProcOf(t) \in Proc /\ queueMPInew \in [Proc -> Seq(Message)]
  BY ThreadFacts DEF Deep
<1>2. queueMPInew[ProcOf(t)] \in Seq(Message)
  BY <1>1
<1>3. queueMPInew' = [queueMPInew EXCEPT ![ProcOf(t)] = Append(queueMPInew[ProcOf(t)], m)]
  BY DEF Enqueue
<1>4. \A q \in Seq(Message), n \in Message :
        /\ Append(q, n) \in Seq(Message) /\ Range(Append(q, n)) = Range(q) \cup {n}
        /\ OneEach(q) /\ (\A o \in Range(q) : o.from # n.from) => OneEach(Append(q, n))
  BY EachAppend
<1>5. queueMPInew'[ProcOf(t)] = Append(queueMPInew[ProcOf(t)], m)
  BY <1>1, <1>3
<1>6. queueMPInew' \in [Proc -> Seq(Message)] /\ \A p \in Proc \ {ProcOf(t)} : queueMPInew'[p] = queueMPInew[p]
  BY <1>1, <1>2, <1>3, <1>4
<1> QED
  BY <1>2, <1>4, <1>5, <1>6

LEMMA Dequeued ==
  ASSUME Deep, Queued, NEW p \in Proc, NEW kind, Process(p, kind)
  PROVE  LET m == Head(queueMPInew[p])
         IN  /\ m \in Message /\ m.kind = kind /\ m.from \in Thread
             /\ queueMPInew' \in [Proc -> Seq(Message)]
             /\ Range(queueMPInew[p]) = Range(queueMPInew'[p]) \cup {m}
             /\ OneEach(queueMPInew'[p]) /\ \A n \in Range(queueMPInew'[p]) : n.from # m.from
             /\ \A o \in Proc \ {p} : queueMPInew'[o] = queueMPInew[o]
<1>1. queueMPInew \in [Proc -> Seq(Message)] /\ queueMPInew[p] \in Seq(Message) /\ OneEach(queueMPInew[p])
  BY DEF Deep, Queued
<1>2. /\ queueMPInew[p] # <<>> /\ Head(queueMPInew[p]).kind = kind
      /\ queueMPInew' = [queueMPInew EXCEPT ![p] = Tail(queueMPInew[p])]
  BY DEF Process
<1>3. /\ Tail(queueMPInew[p]) \in Seq(Message) /\ Head(queueMPInew[p]) \in Message
      /\ Range(queueMPInew[p]) = Range(Tail(queueMPInew[p])) \cup {Head(queueMPInew[p])}
      /\ OneEach(Tail(queueMPInew[p]))
      /\ \A n \in Range(Tail(queueMPInew[p])) : n.from # Head(queueMPInew[p]).from
  BY <1>1, <1>2, EachTail
<1>4. queueMPInew'[p] = Tail(queueMPInew[p])
  BY <1>1, <1>2
<1>5. queueMPInew' \in [Proc -> Seq(Message)] /\ \A o \in Proc \ {p} : queueMPInew'[o] = queueMPInew[o]
  BY <1>1, <1>2, <1>3
<1>6. Head(queueMPInew[p]).from \in Thread
  BY <1>3, MessageParts
<1> QED
  BY <1>2, <1>3, <1>4, <1>5, <1>6

\* The MPI thread has a request in hand and sends it.
LEMMA RequestSent ==
  ASSUME Flat, Deep, Queued, Asked, Posted, NEW p \in Proc, MessageCacheRequest(p)
  PROVE  \E t \in Thread, n \in Mail :
           /\ ProcOf(t) = p /\ t = Head(queueMPInew[p]).from /\ pc[t] = "fetch" /\ asked[t] \in Request
           /\ CacheRequestMessages[t] = None /\ queueCacheReply[t] = <<>>
           /\ CacheRequestMessages' = [CacheRequestMessages EXCEPT ![t] = asked[t]]
           /\ n.mid = "REQUEST" /\ n.idFrom = t /\ n.idTo = n.data.owner /\ n.data = asked[t] /\ n.session = session[t]
           /\ net' = net \cup {n} /\ Client(n) = t
           /\ \A m \in net \cup matched : Client(m) # t
<1>1. PICK h : h = Head(queueMPInew[p])
  OBVIOUS
<1>2. Process(p, "request")
  BY DEF MessageCacheRequest
<1>3. h.from \in Thread /\ ProcOf(h.from) = p /\ pc[h.from] = "fetch" /\ h.request = asked[h.from] /\ h.request \in Request
  BY <1>1, <1>2, HeadRequest
<1>4. h \in Range(queueMPInew[p]) /\ h.kind = "request"
  BY <1>1, <1>2, HeadMessage DEF Process
<1>5. CacheRequestMessages[h.from] = None /\ queueCacheReply[h.from] = <<>>
  BY <1>4 DEF Queued, Waits
<1>6. PICK n : n = [mid |-> "REQUEST", idFrom |-> h.from, idTo |-> h.request.owner,
                    data |-> h.request, session |-> session[h.from]]
  OBVIOUS
<1>7. h.request.owner \in Thread /\ session[h.from] \in Nat
  BY <1>3, RequestParts DEF Flat
<1>8. n \in Mail
  BY <1>3, <1>6, <1>7 DEF Mail
<1>9. CacheRequestMessages' = [CacheRequestMessages EXCEPT ![h.from] = h.request] /\ net' = net \cup {n}
  BY <1>1, <1>6 DEF MessageCacheRequest
<1>10. /\ n.mid = "REQUEST" /\ n.idFrom = h.from /\ n.idTo = n.data.owner /\ n.data = asked[h.from]
       /\ n.session = session[h.from] /\ Client(n) = h.from
  BY <1>3, <1>6 DEF Client
<1>11. \A m \in net \cup matched : Client(m) # h.from
  BY <1>5 DEF Posted
<1> QED
  BY <1>1, <1>3, <1>5, <1>8, <1>9, <1>10, <1>11

LEMMA MailParts ==
  ASSUME NEW m \in Mail
  PROVE  /\ m.mid \in {"REQUEST", "REPLY"} /\ m.idFrom \in Thread /\ m.idTo \in Thread
         /\ m.data \in Request /\ m.session \in Nat /\ Client(m) \in Thread
BY DEF Mail, Client

\* The owner's MPI thread answers with the line that was asked for.
LEMMA RequestServed ==
  ASSUME Flat, Deep, Posted, NEW p \in Proc, CacheReceiveRequest(p)
  PROVE  \E m \in matched, n \in Mail :
           /\ m.mid = "REQUEST" /\ ProcOf(m.idTo) = p /\ m.data = asked[m.idFrom]
           /\ matched' = matched \ {m} /\ net' = net \cup {n}
           /\ n.mid = "REPLY" /\ n.idTo = m.idFrom /\ n.data = m.data /\ n.session = m.session
           /\ Client(n) = Client(m) /\ n \notin matched
<1>1. PICK m \in matched :
        /\ ProcOf(m.idTo) = p /\ m.mid = "REQUEST" /\ matched' = matched \ {m}
        /\ net' = net \cup {[mid |-> "REPLY", idFrom |-> Self(p), idTo |-> ReplyTo(m),
                             data |-> [owner |-> m.idTo, line |-> m.data.line], session |-> m.session]}
  BY DEF CacheReceiveRequest
<1>2. m \in Mail
  BY DEF Deep
<1>3. m.idFrom \in Thread /\ m.data \in Request /\ m.session \in Nat
  BY <1>2, MailParts
<1>4. m.idTo = m.data.owner /\ m.data = asked[m.idFrom]
  BY <1>1 DEF Posted, Client
<1>5. [owner |-> m.idTo, line |-> m.data.line] = m.data
  BY <1>3, <1>4, RequestParts
<1>6. PICK n : n = [mid |-> "REPLY", idFrom |-> Self(p), idTo |-> m.idFrom, data |-> m.data, session |-> m.session]
  OBVIOUS
<1>7. n \in Mail
  BY <1>3, <1>6, ThreadFacts DEF Mail
<1>8. net' = net \cup {n}
  BY <1>1, <1>5, <1>6 DEF ReplyTo
<1>9. /\ n.mid = "REPLY" /\ n.idTo = m.idFrom /\ n.data = m.data /\ n.session = m.session
      /\ Client(n) = Client(m)
  BY <1>1, <1>6 DEF Client
<1>10. n \notin matched
  BY <1>1, <1>9 DEF Posted
<1> QED
  BY <1>1, <1>4, <1>7, <1>8, <1>9, <1>10

\* The line comes back to the core that waits for it.
LEMMA ReplyServed ==
  ASSUME Flat, Deep, Asked, Posted, NEW p \in Proc, CacheReceiveReply(p)
  PROVE  \E m \in matched, t \in Thread :
           /\ t = m.idTo /\ t = Client(m) /\ ProcOf(t) = p /\ matched' = matched \ {m}
           /\ pc[t] = "fetch" /\ CacheRequestMessages[t] # None /\ asked[t] \in Request
           /\ queueCacheReply' = [queueCacheReply EXCEPT ![t] = <<asked[t]>>]
           /\ CacheRequestMessages' = [CacheRequestMessages EXCEPT ![t] = None]
<1>1. PICK m \in matched :
        /\ ProcOf(m.idTo) = p /\ m.mid = "REPLY" /\ matched' = matched \ {m}
        /\ CacheRequestMessages[m.idTo] # None =>
             queueCacheReply' = [queueCacheReply EXCEPT ![m.idTo] = Append(queueCacheReply[m.idTo], m.data)]
        /\ CacheRequestMessages' = [CacheRequestMessages EXCEPT ![m.idTo] = None]
  BY DEF CacheReceiveReply, Cleared
<1>2. m \in Mail
  BY DEF Deep
<1>3. m.idTo \in Thread /\ m.data \in Request /\ m.idTo = Client(m)
  BY <1>1, <1>2, MailParts DEF Client
<1>4. CacheRequestMessages[m.idTo] # None /\ m.data = asked[m.idTo]
  BY <1>3 DEF Posted
<1>5. pc[m.idTo] = "fetch" /\ queueCacheReply[m.idTo] = <<>>
  BY <1>3, <1>4 DEF Asked, AskedOf
<1>6. Append(queueCacheReply[m.idTo], m.data) = <<asked[m.idTo]>>
  BY <1>4, <1>5
<1> QED
  BY <1>1, <1>3, <1>4, <1>5, <1>6

LEMMA DeepStep == Flat /\ Deep /\ Queued /\ Asked /\ Posted /\ [Next]_vars => Deep'
<1> SUFFICES ASSUME Flat, Deep, Queued, Asked, Posted, [Next]_vars PROVE Deep'
  OBVIOUS
<1>a. \A t \in Thread : [kind |-> "open", from |-> t, request |-> None] \in Message
                        /\ [kind |-> "close", from |-> t, request |-> None] \in Message
  BY DEF Message
<1> USE DEF threadVars, replyVars, openVars, mpiVars
<1>1. ASSUME NEW t \in Thread, Initialize(t) PROVE Deep'
  BY <1>1 DEF Initialize, Deep
<1>2. ASSUME NEW t \in Thread, LeaveOpening(t) PROVE Deep'
  <2>1. queueMPInew' \in [Proc -> Seq(Message)]
    BY <1>a, <1>2, Enqueued DEF LeaveOpening
  <2> QED
    BY <1>2, <2>1 DEF LeaveOpening, Deep
<1>3. ASSUME NEW t \in Thread, Opened(t) PROVE Deep'
  BY <1>3 DEF Opened, Deep
<1>4. ASSUME NEW t \in Thread, InvokeRequest(t) PROVE Deep'
  <2>1. PICK r \in Request : Enqueue(t, [kind |-> "request", from |-> t, request |-> r])
    BY <1>4 DEF InvokeRequest
  <2>2. [kind |-> "request", from |-> t, request |-> r] \in Message
    BY DEF Message
  <2>3. queueMPInew' \in [Proc -> Seq(Message)]
    BY <2>1, <2>2, Enqueued
  <2> QED
    BY <1>4, <2>3 DEF InvokeRequest, Deep
<1>5. ASSUME NEW t \in Thread, FinishRequest(t) PROVE Deep'
  <2>1. queueCacheReply[t] \in Seq(Request) /\ queueCacheReply[t] # <<>>
    BY <1>5 DEF FinishRequest, Deep
  <2>2. Tail(queueCacheReply[t]) \in Seq(Request)
    BY <2>1, HeadOfQueue
  <2> QED
    BY <1>5, <2>2 DEF FinishRequest, Deep
<1>6. ASSUME NEW t \in Thread, FlushCache(t) PROVE Deep'
  BY <1>6 DEF FlushCache, Deep
<1>7. ASSUME NEW t \in Thread, LeaveFlush(t) PROVE Deep'
  <2>1. queueMPInew' \in [Proc -> Seq(Message)]
    BY <1>a, <1>7, Enqueued DEF LeaveFlush
  <2> QED
    BY <1>7, <2>1 DEF LeaveFlush, Deep
<1>8. ASSUME NEW t \in Thread, Close(t) PROVE Deep'
  BY <1>8 DEF Close, Deep
<1>9. ASSUME NEW p \in Proc, MessageCacheOpen(p) PROVE Deep'
  <2>1. queueMPInew' \in [Proc -> Seq(Message)]
    BY <1>9, Dequeued DEF MessageCacheOpen
  <2> QED
    BY <1>9, <2>1 DEF MessageCacheOpen, Deep
<1>10. ASSUME NEW p \in Proc, MessageCacheClose(p) PROVE Deep'
  <2>1. queueMPInew' \in [Proc -> Seq(Message)]
    BY <1>10, Dequeued DEF MessageCacheClose
  <2> QED
    BY <1>10, <2>1 DEF MessageCacheClose, Deep
<1>11. ASSUME NEW p \in Proc, MessageCacheRequest(p) PROVE Deep'
  <2>1. queueMPInew' \in [Proc -> Seq(Message)]
    BY <1>11, Dequeued DEF MessageCacheRequest
  <2>2. net' \in SUBSET Mail
    BY <1>11, RequestSent DEF Deep
  <2> QED
    BY <1>11, <2>1, <2>2 DEF MessageCacheRequest, Deep
<1>12. ASSUME NEW p \in Proc, Match(p) PROVE Deep'
  <2>1. PICK m \in net : net' = net \ {m} /\ matched' = matched \cup {m}
    BY <1>12 DEF Match
  <2>2. IsFiniteSet(matched \cup {m})
    BY FS_AddElement DEF Deep
  <2> QED
    BY <1>12, <2>1, <2>2 DEF Match, Deep
<1>13. ASSUME NEW p \in Proc, CacheReceiveRequest(p) PROVE Deep'
  <2>1. PICK m \in matched, n \in Mail : matched' = matched \ {m} /\ net' = net \cup {n}
    BY <1>13, RequestServed
  <2>2. IsFiniteSet(matched \ {m})
    BY FS_RemoveElement DEF Deep
  <2> QED
    BY <1>13, <2>1, <2>2 DEF CacheReceiveRequest, Deep
<1>14. ASSUME NEW p \in Proc, CacheReceiveReply(p) PROVE Deep'
  <2>1. PICK m \in matched, t \in Thread :
          /\ matched' = matched \ {m} /\ asked[t] \in Request
          /\ queueCacheReply' = [queueCacheReply EXCEPT ![t] = <<asked[t]>>]
    BY <1>14, ReplyServed
  <2>2. IsFiniteSet(matched \ {m})
    BY FS_RemoveElement DEF Deep
  <2>3. <<asked[t]>> \in Seq(Request)
    BY <2>1
  <2> QED
    BY <1>14, <2>1, <2>2, <2>3 DEF CacheReceiveReply, Deep
<1>15. CASE UNCHANGED vars
  BY <1>15 DEF vars, Deep
<1> QED
  BY <1>1, <1>2, <1>3, <1>4, <1>5, <1>6, <1>7, <1>8, <1>9, <1>10, <1>11, <1>12, <1>13, <1>14, <1>15
     DEF Next, ThreadStep, MPIThread
------------------------------------------------------------------------------
(* Where the threads are *)

LEMMA InSessionStep == Flat /\ Queued /\ Asked /\ InSession /\ [Next]_vars => InSession'
<1> SUFFICES ASSUME Flat, Queued, Asked, InSession, [Next]_vars PROVE InSession'
  OBVIOUS
<1> USE DEF threadVars, Goto, Arrive, InSession, Using
<1>1. ASSUME NEW t \in Thread, Initialize(t) PROVE InSession'
  BY <1>1 DEF Initialize, Flat
<1>2. ASSUME NEW t \in Thread, LeaveOpening(t) PROVE InSession'
  BY <1>2 DEF LeaveOpening, Flat
<1>3. ASSUME NEW t \in Thread, Opened(t) PROVE InSession'
  BY <1>3 DEF Opened, Flat
<1>4. ASSUME NEW t \in Thread, InvokeRequest(t) PROVE InSession'
  BY <1>4 DEF InvokeRequest, Flat
<1>5. ASSUME NEW t \in Thread, FinishRequest(t) PROVE InSession'
  BY <1>5 DEF FinishRequest, Flat
<1>6. ASSUME NEW t \in Thread, FlushCache(t) PROVE InSession'
  BY <1>6 DEF FlushCache, Flat
<1>7. ASSUME NEW t \in Thread, LeaveFlush(t) PROVE InSession'
  BY <1>7 DEF LeaveFlush, Flat
<1>8. ASSUME NEW t \in Thread, Close(t) PROVE InSession'
  BY <1>8, ThreadFacts DEF Close, Flat
<1>9. CASE UNCHANGED <<pc, session, active, barriers>>
  BY <1>9
<1>10. ASSUME NEW p \in Proc, MPIThread(p) \/ Match(p) PROVE UNCHANGED <<pc, session, active, barriers>>
  BY <1>10 DEF MPIThread, MessageCacheOpen, MessageCacheClose, MessageCacheRequest, Match, CacheReceiveRequest,
               CacheReceiveReply
<1> QED
  BY <1>1, <1>2, <1>3, <1>4, <1>5, <1>6, <1>7, <1>8, <1>9, <1>10 DEF Next, ThreadStep, vars

LEMMA GatesStep == Flat /\ InSession /\ Gates /\ [Next]_vars => Gates'
<1> SUFFICES ASSUME Flat, InSession, Gates, [Next]_vars PROVE Gates'
  OBVIOUS
<1>0. /\ \A s \in Thread : barriers[s] \in Nat /\ Left(s) \in Int
      /\ \A s, t \in Thread : Left(t) <= barriers[s]
  BY DEF Flat, Gates, Left
\* A thread that arrives has not left yet, and other threads wait no less than before.
<1>a. ASSUME NEW t \in Thread, barriers' = [barriers EXCEPT ![t] = barriers[t] + 1],
             pc' = [pc EXCEPT ![t] = IF pc[t] = "closed" THEN "opening" ELSE "flushing"], pc[t] \in {"closed", "compute"}
      PROVE  Gates'
  <2>1. \A s \in Thread : barriers'[s] \in Nat /\ barriers'[s] >= barriers[s]
    BY <1>0, <1>a DEF Flat
  <2>2. \A s \in Thread : Left(s)' = Left(s)
    BY <1>0, <1>a DEF Left, Flat
  <2> QED
    BY <1>0, <2>1, <2>2 DEF Gates
\* A thread that leaves has seen all threads arrive.
<1>b. ASSUME NEW t \in Thread, NEW l \in {"openWait", "closeWait"}, AllArrived(t), UNCHANGED barriers,
             pc' = [pc EXCEPT ![t] = l]
      PROVE  Gates'
  <2>1. \A s \in Thread : Left(s)' = IF s = t THEN barriers[t] ELSE Left(s)
    BY <1>b DEF Left, Flat
  <2> QED
    BY <1>0, <1>b, <2>1 DEF Gates, AllArrived
<1>c. ASSUME NEW t \in Thread, NEW l \in {"compute", "fetch", "closed", "done"}, UNCHANGED barriers,
             pc' = [pc EXCEPT ![t] = l], pc[t] \notin {"opening", "flushing"}
      PROVE  Gates'
  <2>1. \A s \in Thread : Left(s)' = Left(s)
    BY <1>c DEF Left, Flat
  <2> QED
    BY <1>0, <1>c, <2>1 DEF Gates
<1> USE DEF threadVars, Goto, Arrive
<1>1. ASSUME NEW t \in Thread, Initialize(t) PROVE Gates'
  BY <1>1, <1>a DEF Initialize
<1>2. ASSUME NEW t \in Thread, LeaveOpening(t) PROVE Gates'
  BY <1>2, <1>b DEF LeaveOpening
<1>3. ASSUME NEW t \in Thread, Opened(t) PROVE Gates'
  BY <1>3, <1>c DEF Opened
<1>4. ASSUME NEW t \in Thread, InvokeRequest(t) PROVE Gates'
  BY <1>4, <1>c DEF InvokeRequest
<1>5. ASSUME NEW t \in Thread, FinishRequest(t) PROVE Gates'
  BY <1>5, <1>c DEF FinishRequest
<1>6. ASSUME NEW t \in Thread, FlushCache(t) PROVE Gates'
  BY <1>6, <1>a DEF FlushCache
<1>7. ASSUME NEW t \in Thread, LeaveFlush(t) PROVE Gates'
  BY <1>7, <1>b DEF LeaveFlush
<1>8. ASSUME NEW t \in Thread, Close(t) PROVE Gates'
  BY <1>8, <1>c DEF Close
<1>9. CASE UNCHANGED <<pc, barriers>>
  BY <1>9 DEF Gates, Left
<1>10. ASSUME NEW p \in Proc, MPIThread(p) \/ Match(p) PROVE UNCHANGED <<pc, barriers>>
  BY <1>10 DEF MPIThread, MessageCacheOpen, MessageCacheClose, MessageCacheRequest, Match, CacheReceiveRequest,
               CacheReceiveReply
<1> QED
  BY <1>1, <1>2, <1>3, <1>4, <1>5, <1>6, <1>7, <1>8, <1>9, <1>10 DEF Next, ThreadStep, vars

\* While a thread uses the cache, all threads have it open, in the same session.
LEMMA Together ==
  ASSUME Flat, InSession, Gates, NEW s \in Thread, NEW t \in Thread, pc[t] \in Using
  PROVE  active[s] /\ session[s] = session[t] /\ pc[s] \in Using \cup {"opening", "flushing"}
<1>1. /\ session[s] \in Nat \ {0} /\ session[t] \in Nat \ {0} /\ barriers[s] \in Nat /\ barriers[t] \in Nat
      /\ pc[s] \in Where /\ pc[t] \in Where
  BY DEF Flat
<1>2. barriers[t] = 2 * session[t] - 1 /\ barriers[t] <= barriers[s]
  BY DEF InSession, Gates, Left, Using
<1>3. Left(s) <= barriers[t]
  BY DEF Gates
<1>4. CASE pc[s] = "closed"
  BY <1>1, <1>2, <1>3, <1>4 DEF InSession, Left, Using
<1>5. CASE pc[s] \in {"closeWait", "done"}
  BY <1>1, <1>2, <1>3, <1>5 DEF InSession, Left, Using
<1>6. CASE pc[s] = "flushing"
  BY <1>1, <1>2, <1>3, <1>6 DEF InSession, Left, Using
<1>7. CASE pc[s] \in Using \cup {"opening"}
  BY <1>1, <1>2, <1>3, <1>7 DEF InSession, Left, Using
<1> QED
  BY <1>1, <1>4, <1>5, <1>6, <1>7 DEF Where
------------------------------------------------------------------------------
(* Where the one request of a thread is *)

QueuedVars == <<pc, answered, asked, CacheRequestMessages, queueCacheReply>>

\* Of the threads but one, nothing changes that a message of theirs depends on.
OthersSame(t) ==
  \A s \in Thread \ {t} :
    /\ pc'[s] = pc[s] /\ answered'[s] = answered[s] /\ asked'[s] = asked[s]
    /\ CacheRequestMessages'[s] = CacheRequestMessages[s] /\ queueCacheReply'[s] = queueCacheReply[s]

LEMMA InMessage == ASSUME Deep, NEW p \in Proc, NEW m \in Range(queueMPInew[p]) PROVE m \in Message
<1>1. queueMPInew[p] \in Seq(Message)
  BY DEF Deep
<1> QED
  BY <1>1 DEF Range

LEMMA WaitsSame ==
  ASSUME NEW t \in Thread, OthersSame(t), NEW m \in Message, m.from # t, Waits(m)
  PROVE  Waits(m)'
<1>1. m.from \in Thread \ {t}
  BY MessageParts
<1> QED
  BY <1>1 DEF Waits, OthersSame

\* A thread that does not wait for an MPI thread has no message there.
LEMMA NoMessage ==
  ASSUME Deep, Queued, NEW t \in Thread, NEW p \in Proc, NEW m \in Range(queueMPInew[p]), m.from = t
  PROVE  /\ pc[t] \in {"openWait", "closeWait", "fetch"} /\ ~answered[t]
         /\ pc[t] = "fetch" => CacheRequestMessages[t] = None /\ queueCacheReply[t] = <<>>
<1>1. Waits(m)
  BY DEF Queued
<1>2. m.kind \in {"open", "close", "request"}
  BY InMessage, MessageParts
<1> QED
  BY <1>1, <1>2 DEF Waits

LEMMA QueuedSame ==
  ASSUME Deep, Queued, NEW t \in Thread, UNCHANGED queueMPInew, OthersSame(t),
         \A m \in Range(queueMPInew[ProcOf(t)]) : m.from # t
  PROVE  Queued'
<1>1. ASSUME NEW p \in Proc, NEW m \in Range(queueMPInew[p]) PROVE Waits(m)'
  <2>1. m \in Message /\ ProcOf(m.from) = p /\ Waits(m)
    BY InMessage DEF Queued
  <2>2. m.from # t
    BY <2>1
  <2> QED
    BY <2>1, <2>2, WaitsSame
<1>2. \A p \in Proc : \A m \in Range(queueMPInew[p]) : Waits(m)'
  BY <1>1
<1> QED
  BY <1>2 DEF Queued

LEMMA QueuedMore ==
  ASSUME Deep, Queued, NEW t \in Thread, NEW m \in Message, m.from = t, Enqueue(t, m), OthersSame(t), Waits(m)',
         \A n \in Range(queueMPInew[ProcOf(t)]) : n.from # t
  PROVE  Queued'
<1>0. /\ Range(queueMPInew'[ProcOf(t)]) = Range(queueMPInew[ProcOf(t)]) \cup {m}
      /\ OneEach(queueMPInew'[ProcOf(t)])
      /\ \A p \in Proc \ {ProcOf(t)} : queueMPInew'[p] = queueMPInew[p]
  BY Enqueued, ThreadFacts DEF Queued
<1>1. ASSUME NEW p \in Proc, NEW n \in Range(queueMPInew[p]) PROVE Waits(n)'
  <2>1. n \in Message /\ ProcOf(n.from) = p /\ Waits(n)
    BY InMessage DEF Queued
  <2>2. n.from # t
    BY <2>1
  <2> QED
    BY <2>1, <2>2, WaitsSame
<1> SUFFICES ASSUME NEW p \in Proc
             PROVE  /\ OneEach(queueMPInew'[p])
                    /\ \A n \in Range(queueMPInew'[p]) : ProcOf(n.from) = p /\ Waits(n)'
  BY DEF Queued
<1>2. CASE p = ProcOf(t)
  <2>1. \A n \in Range(queueMPInew[p]) : ProcOf(n.from) = p /\ Waits(n)'
    BY <1>1 DEF Queued
  <2> QED
    BY <1>0, <1>2, <2>1
<1>3. CASE p # ProcOf(t)
  <2>1. queueMPInew'[p] = queueMPInew[p]
    BY <1>0, <1>3
  <2> QED
    BY <1>1, <2>1 DEF Queued
<1> QED
  BY <1>2, <1>3

LEMMA QueuedLess ==
  ASSUME Deep, Queued, NEW p \in Proc, NEW kind, Process(p, kind), NEW t \in Thread,
         t = Head(queueMPInew[p]).from, OthersSame(t)
  PROVE  Queued'
<1>0. /\ Range(queueMPInew'[p]) \subseteq Range(queueMPInew[p]) /\ Head(queueMPInew[p]) \in Range(queueMPInew[p])
      /\ OneEach(queueMPInew'[p]) /\ \A n \in Range(queueMPInew'[p]) : n.from # t
      /\ \A o \in Proc \ {p} : queueMPInew'[o] = queueMPInew[o]
  BY Dequeued
<1>1. ProcOf(t) = p
  BY <1>0 DEF Queued
<1>2. ASSUME NEW o \in Proc, NEW n \in Range(queueMPInew[o]), n.from # t PROVE Waits(n)'
  <2>1. n \in Message /\ Waits(n)
    BY InMessage DEF Queued
  <2> QED
    BY <1>2, <2>1, WaitsSame
<1> SUFFICES ASSUME NEW o \in Proc
             PROVE  /\ OneEach(queueMPInew'[o])
                    /\ \A n \in Range(queueMPInew'[o]) : ProcOf(n.from) = o /\ Waits(n)'
  BY DEF Queued
<1>3. CASE o = p
  BY <1>0, <1>2, <1>3 DEF Queued
<1>4. CASE o # p
  <2>1. queueMPInew'[o] = queueMPInew[o]
    BY <1>0, <1>4
  <2>2. \A n \in Range(queueMPInew[o]) : n.from # t
    BY <1>1, <1>4 DEF Queued
  <2> QED
    BY <1>2, <2>1, <2>2 DEF Queued
<1> QED
  BY <1>3, <1>4

LEMMA OwnMessages == \A t \in Thread : [kind |-> "open", from |-> t, request |-> None] \in Message
                                       /\ [kind |-> "close", from |-> t, request |-> None] \in Message
                                       /\ \A r \in Request : [kind |-> "request", from |-> t, request |-> r] \in Message
BY DEF Message

LEMMA QueuedStep == Flat /\ Deep /\ Queued /\ Asked /\ Posted /\ [Next]_vars => Queued'
<1> SUFFICES ASSUME Flat, Deep, Queued, Asked, Posted, [Next]_vars PROVE Queued'
  OBVIOUS
<1>0. \A t \in Thread : ProcOf(t) \in Proc
  BY ThreadFacts
<1>a. \A t \in Thread : AskedOf(t)
  BY DEF Asked
<1> USE DEF threadVars, replyVars, openVars, mpiVars, Goto
<1>1. ASSUME NEW t \in Thread, Initialize(t) PROVE Queued'
  <2>1. OthersSame(t) /\ UNCHANGED queueMPInew
    BY <1>1 DEF Initialize, Flat, Deep, OthersSame
  <2>2. \A m \in Range(queueMPInew[ProcOf(t)]) : m.from # t
    BY <1>0, <1>1, NoMessage DEF Initialize
  <2> QED
    BY <2>1, <2>2, QueuedSame
<1>2. ASSUME NEW t \in Thread, LeaveOpening(t) PROVE Queued'
  <2>1. PICK m : m = [kind |-> "open", from |-> t, request |-> None]
    OBVIOUS
  <2>2. m \in Message /\ m.from = t /\ m.kind = "open" /\ Enqueue(t, m)
    BY <1>2, <2>1, OwnMessages DEF LeaveOpening
  <2>3. OthersSame(t) /\ pc'[t] = "openWait" /\ UNCHANGED answered
    BY <1>2 DEF LeaveOpening, Flat, Deep, OthersSame
  <2>4. \A n \in Range(queueMPInew[ProcOf(t)]) : n.from # t
    BY <1>0, <1>2, NoMessage DEF LeaveOpening
  <2>5. Waits(m)'
    BY <1>2, <1>a, <2>2, <2>3 DEF Waits, AskedOf, LeaveOpening
  <2> QED
    BY <2>2, <2>3, <2>4, <2>5, QueuedMore
<1>3. ASSUME NEW t \in Thread, Opened(t) PROVE Queued'
  <2>1. OthersSame(t) /\ UNCHANGED queueMPInew
    BY <1>3 DEF Opened, Flat, Deep, OthersSame
  <2>2. \A m \in Range(queueMPInew[ProcOf(t)]) : m.from # t
    BY <1>0, <1>3, NoMessage DEF Opened
  <2> QED
    BY <2>1, <2>2, QueuedSame
<1>4. ASSUME NEW t \in Thread, InvokeRequest(t) PROVE Queued'
  <2>0. PICK r \in Request : /\ asked' = [asked EXCEPT ![t] = r]
                             /\ Enqueue(t, [kind |-> "request", from |-> t, request |-> r])
    BY <1>4 DEF InvokeRequest
  <2>1. PICK m : m = [kind |-> "request", from |-> t, request |-> r]
    OBVIOUS
  <2>2. m \in Message /\ m.from = t /\ m.kind = "request" /\ m.request = r /\ Enqueue(t, m)
    BY <2>0, <2>1, OwnMessages
  <2>3. OthersSame(t) /\ pc'[t] = "fetch" /\ asked'[t] = r /\ UNCHANGED <<answered, CacheRequestMessages, queueCacheReply>>
    BY <1>4, <2>0 DEF InvokeRequest, Flat, Deep, OthersSame
  <2>4. \A n \in Range(queueMPInew[ProcOf(t)]) : n.from # t
    BY <1>0, <1>4, NoMessage DEF InvokeRequest
  <2>5. ~answered[t] /\ CacheRequestMessages[t] = None /\ queueCacheReply[t] = <<>>
    BY <1>4, <1>a DEF AskedOf, InvokeRequest
  <2>6. Waits(m)'
    BY <2>2, <2>3, <2>5 DEF Waits
  <2> QED
    BY <2>2, <2>3, <2>4, <2>6, QueuedMore
<1>5. ASSUME NEW t \in Thread, FinishRequest(t) PROVE Queued'
  <2>1. OthersSame(t) /\ UNCHANGED queueMPInew
    BY <1>5 DEF FinishRequest, Flat, Deep, OthersSame
  <2>2. \A m \in Range(queueMPInew[ProcOf(t)]) : m.from # t
    BY <1>0, <1>5, NoMessage DEF FinishRequest
  <2> QED
    BY <2>1, <2>2, QueuedSame
<1>6. ASSUME NEW t \in Thread, FlushCache(t) PROVE Queued'
  <2>1. OthersSame(t) /\ UNCHANGED queueMPInew
    BY <1>6 DEF FlushCache, Flat, Deep, OthersSame
  <2>2. \A m \in Range(queueMPInew[ProcOf(t)]) : m.from # t
    BY <1>0, <1>6, NoMessage DEF FlushCache
  <2> QED
    BY <2>1, <2>2, QueuedSame
<1>7. ASSUME NEW t \in Thread, LeaveFlush(t) PROVE Queued'
  <2>1. PICK m : m = [kind |-> "close", from |-> t, request |-> None]
    OBVIOUS
  <2>2. m \in Message /\ m.from = t /\ m.kind = "close" /\ Enqueue(t, m)
    BY <1>7, <2>1, OwnMessages DEF LeaveFlush
  <2>3. OthersSame(t) /\ pc'[t] = "closeWait" /\ UNCHANGED answered
    BY <1>7 DEF LeaveFlush, Flat, Deep, OthersSame
  <2>4. \A n \in Range(queueMPInew[ProcOf(t)]) : n.from # t
    BY <1>0, <1>7, NoMessage DEF LeaveFlush
  <2>5. Waits(m)'
    BY <1>7, <1>a, <2>2, <2>3 DEF Waits, AskedOf, LeaveFlush
  <2> QED
    BY <2>2, <2>3, <2>4, <2>5, QueuedMore
<1>8. ASSUME NEW t \in Thread, Close(t) PROVE Queued'
  <2>1. OthersSame(t) /\ UNCHANGED queueMPInew
    BY <1>8 DEF Close, Flat, Deep, OthersSame
  <2>2. \A m \in Range(queueMPInew[ProcOf(t)]) : m.from # t
    BY <1>0, <1>8, NoMessage DEF Close
  <2> QED
    BY <2>1, <2>2, QueuedSame
<1>9. ASSUME NEW p \in Proc, MessageCacheOpen(p) \/ MessageCacheClose(p) PROVE Queued'
  <2>1. PICK k \in {"open", "close"} : Process(p, k)
    BY <1>9 DEF MessageCacheOpen, MessageCacheClose
  <2>2. PICK t : t = Head(queueMPInew[p]).from
    OBVIOUS
  <2>3. t \in Thread
    BY <2>1, <2>2, Dequeued
  <2>4. /\ answered' = [answered EXCEPT ![t] = TRUE]
        /\ UNCHANGED <<pc, asked, CacheRequestMessages, queueCacheReply>>
    BY <1>9, <2>2 DEF MessageCacheOpen, MessageCacheClose, Answer
  <2>5. OthersSame(t)
    BY <2>4 DEF Flat, OthersSame
  <2> QED
    BY <2>1, <2>2, <2>3, <2>5, QueuedLess
<1>10. ASSUME NEW p \in Proc, MessageCacheRequest(p) PROVE Queued'
  <2>1. PICK t \in Thread : /\ t = Head(queueMPInew[p]).from
                            /\ CacheRequestMessages' = [CacheRequestMessages EXCEPT ![t] = asked[t]]
    BY <1>10, RequestSent
  <2>2. OthersSame(t) /\ Process(p, "request")
    BY <1>10, <2>1 DEF MessageCacheRequest, Flat, OthersSame
  <2> QED
    BY <2>1, <2>2, QueuedLess
<1>11. ASSUME NEW p \in Proc, Match(p) \/ CacheReceiveRequest(p) PROVE UNCHANGED <<QueuedVars, queueMPInew>>
  BY <1>11 DEF Match, CacheReceiveRequest, QueuedVars
<1>12. CASE UNCHANGED <<QueuedVars, queueMPInew>>
  BY <1>12 DEF QueuedVars, Queued, Waits
<1>13. ASSUME NEW p \in Proc, CacheReceiveReply(p) PROVE Queued'
  <2>1. PICK t \in Thread :
          /\ ProcOf(t) = p /\ pc[t] = "fetch" /\ CacheRequestMessages[t] # None
          /\ queueCacheReply' = [queueCacheReply EXCEPT ![t] = <<asked[t]>>]
          /\ CacheRequestMessages' = [CacheRequestMessages EXCEPT ![t] = None]
    BY <1>13, ReplyServed
  <2>2. OthersSame(t) /\ UNCHANGED queueMPInew
    BY <1>13, <2>1 DEF CacheReceiveReply, Flat, Deep, OthersSame
  <2>3. \A m \in Range(queueMPInew[ProcOf(t)]) : m.from # t
    BY <1>0, <2>1, NoMessage
  <2> QED
    BY <2>2, <2>3, QueuedSame
<1> QED
  BY <1>1, <1>2, <1>3, <1>4, <1>5, <1>6, <1>7, <1>8, <1>9, <1>10, <1>11, <1>12, <1>13
     DEF Next, ThreadStep, MPIThread, vars, QueuedVars
------------------------------------------------------------------------------
(* What a thread has asked for, and the one message on its way for it *)

\* Other threads keep their requests in the queues.
LEMMA AskedOthers ==
  ASSUME Asked, NEW t \in Thread, OthersSame(t), AskedOf(t)', 
         \A s \in Thread \ {t} : InQueue(s) => InQueue(s)'
  PROVE  Asked'
<1>1. ASSUME NEW s \in Thread, s # t PROVE AskedOf(s)'
  <2>1. AskedOf(s) /\ (InQueue(s) => InQueue(s)')
    BY <1>1 DEF Asked
  <2>2. /\ pc'[s] = pc[s] /\ answered'[s] = answered[s] /\ asked'[s] = asked[s]
        /\ CacheRequestMessages'[s] = CacheRequestMessages[s] /\ queueCacheReply'[s] = queueCacheReply[s]
    BY <1>1 DEF OthersSame
  <2> QED
    BY <2>1, <2>2 DEF AskedOf
<1> QED
  BY <1>1 DEF Asked

LEMMA InQueueMore ==
  ASSUME Deep, NEW t \in Thread, NEW m \in Message, Enqueue(t, m)
  PROVE  /\ \A s \in Thread : InQueue(s) => InQueue(s)'
         /\ m.from = t /\ m.kind = "request" => InQueue(t)'
<1>1. /\ Range(queueMPInew'[ProcOf(t)]) = Range(queueMPInew[ProcOf(t)]) \cup {m}
      /\ \A p \in Proc \ {ProcOf(t)} : queueMPInew'[p] = queueMPInew[p]
  BY Enqueued
<1>2. ASSUME NEW s \in Thread, InQueue(s) PROVE InQueue(s)'
  <2>1. ProcOf(s) \in Proc
    BY ThreadFacts
  <2>2. PICK n \in Range(queueMPInew[ProcOf(s)]) : n.from = s /\ n.kind = "request"
    BY <1>2 DEF InQueue
  <2>3. n \in Range(queueMPInew'[ProcOf(s)])
    BY <1>1, <2>1, <2>2
  <2> QED
    BY <2>2, <2>3 DEF InQueue
<1>3. m.from = t /\ m.kind = "request" => InQueue(t)'
  BY <1>1 DEF InQueue
<1> QED
  BY <1>2, <1>3

LEMMA InQueueLess ==
  ASSUME Deep, Queued, NEW p \in Proc, NEW kind, Process(p, kind), NEW t \in Thread, t = Head(queueMPInew[p]).from
  PROVE  /\ \A s \in Thread \ {t} : InQueue(s) => InQueue(s)'
         /\ kind # "request" => ~InQueue(t)
<1>1. /\ Range(queueMPInew[p]) = Range(queueMPInew'[p]) \cup {Head(queueMPInew[p])}
      /\ \A n \in Range(queueMPInew'[p]) : n.from # t
      /\ Head(queueMPInew[p]).kind = kind
      /\ \A o \in Proc \ {p} : queueMPInew'[o] = queueMPInew[o]
  BY Dequeued
<1>2. ASSUME NEW s \in Thread, s # t, InQueue(s) PROVE InQueue(s)'
  <2>1. ProcOf(s) \in Proc
    BY ThreadFacts
  <2>2. PICK n \in Range(queueMPInew[ProcOf(s)]) : n.from = s /\ n.kind = "request"
    BY <1>2 DEF InQueue
  <2>3. n \in Range(queueMPInew'[ProcOf(s)])
    BY <1>1, <1>2, <2>1, <2>2
  <2> QED
    BY <2>2, <2>3 DEF InQueue
<1>3. ProcOf(t) = p
  BY <1>1 DEF Queued
<1>4. kind # "request" => ~InQueue(t)
  BY <1>1, <1>3 DEF InQueue
<1> QED
  BY <1>2, <1>4

LEMMA InQueueSame == UNCHANGED queueMPInew => \A s \in Thread : InQueue(s)' = InQueue(s)
BY DEF InQueue

LEMMA AskedStep == Flat /\ Deep /\ Queued /\ Asked /\ Posted /\ [Next]_vars => Asked'
<1> SUFFICES ASSUME Flat, Deep, Queued, Asked, Posted, [Next]_vars PROVE Asked'
  OBVIOUS
<1>a. \A t \in Thread : AskedOf(t)
  BY DEF Asked
\* A step of a thread outside its requests
<1>b. ASSUME NEW t \in Thread, UNCHANGED <<CacheRequestMessages, queueCacheReply, asked>>,
             NEW l \in Where \ {"fetch"}, pc' = [pc EXCEPT ![t] = l], pc[t] # "fetch",
             (answered' = answered /\ ~answered[t]) \/ answered' = [answered EXCEPT ![t] = FALSE],
             \A s \in Thread \ {t} : InQueue(s) => InQueue(s)'
      PROVE  Asked'
  <2>1. OthersSame(t)
    BY <1>b DEF Flat, OthersSame
  <2>2. ~answered'[t] /\ pc'[t] # "fetch"
    BY <1>b DEF Flat
  <2>3. AskedOf(t)'
    BY <1>a, <1>b, <2>2 DEF AskedOf
  <2> QED
    BY <1>b, <2>1, <2>3, AskedOthers
<1> USE DEF threadVars, replyVars, openVars, mpiVars, Goto
<1>1. ASSUME NEW t \in Thread, Initialize(t) PROVE Asked'
  <2>1. ~answered[t]
    BY <1>1, <1>a DEF AskedOf, Initialize
  <2> QED
    BY <1>1, <1>b, <2>1, InQueueSame DEF Initialize, Where
<1>2. ASSUME NEW t \in Thread, LeaveOpening(t) PROVE Asked'
  <2>1. ~answered[t]
    BY <1>2, <1>a DEF AskedOf, LeaveOpening
  <2>2. \A s \in Thread : InQueue(s) => InQueue(s)'
    BY <1>2, OwnMessages, InQueueMore DEF LeaveOpening
  <2> QED
    BY <1>2, <1>b, <2>1, <2>2 DEF LeaveOpening, Where, Using
<1>3. ASSUME NEW t \in Thread, Opened(t) PROVE Asked'
  BY <1>3, <1>b, InQueueSame DEF Opened, Where, Using
<1>4. ASSUME NEW t \in Thread, InvokeRequest(t) PROVE Asked'
  <2>0. PICK r \in Request : /\ asked' = [asked EXCEPT ![t] = r]
                             /\ Enqueue(t, [kind |-> "request", from |-> t, request |-> r])
    BY <1>4 DEF InvokeRequest
  <2>1. PICK m : m = [kind |-> "request", from |-> t, request |-> r]
    OBVIOUS
  <2>2. m \in Message /\ m.from = t /\ m.kind = "request" /\ Enqueue(t, m)
    BY <2>0, <2>1, OwnMessages
  <2>3. OthersSame(t) /\ pc'[t] = "fetch" /\ asked'[t] = r /\ UNCHANGED <<answered, CacheRequestMessages, queueCacheReply>>
    BY <1>4, <2>0 DEF InvokeRequest, Flat, Deep, OthersSame
  <2>4. InQueue(t)' /\ \A s \in Thread : InQueue(s) => InQueue(s)'
    BY <2>2, InQueueMore
  <2>5. ~answered[t] /\ CacheRequestMessages[t] = None /\ queueCacheReply[t] = <<>>
    BY <1>4, <1>a DEF AskedOf, InvokeRequest
  <2>6. AskedOf(t)'
    BY <2>3, <2>4, <2>5 DEF AskedOf
  <2> QED
    BY <2>3, <2>4, <2>6, AskedOthers
<1>5. ASSUME NEW t \in Thread, FinishRequest(t) PROVE Asked'
  <2>1. OthersSame(t) /\ UNCHANGED <<queueMPInew, answered, CacheRequestMessages>> /\ pc'[t] = "compute"
    BY <1>5 DEF FinishRequest, Flat, Deep, OthersSame
  <2>2. queueCacheReply[t] = <<asked[t]>> /\ pc[t] = "fetch" /\ queueCacheReply'[t] = Tail(queueCacheReply[t])
    BY <1>5, <1>a DEF FinishRequest, AskedOf, Deep
  <2>3. queueCacheReply'[t] = <<>>
    BY <2>2
  <2>4. CacheRequestMessages[t] = None /\ ~answered[t]
    BY <1>a, <2>2 DEF AskedOf
  <2>5. AskedOf(t)'
    BY <2>1, <2>3, <2>4 DEF AskedOf
  <2> QED
    BY <2>1, <2>5, AskedOthers, InQueueSame
<1>6. ASSUME NEW t \in Thread, FlushCache(t) PROVE Asked'
  <2>1. ~answered[t]
    BY <1>6, <1>a DEF AskedOf, FlushCache
  <2> QED
    BY <1>6, <1>b, <2>1, InQueueSame DEF FlushCache, Where
<1>7. ASSUME NEW t \in Thread, LeaveFlush(t) PROVE Asked'
  <2>1. ~answered[t]
    BY <1>7, <1>a DEF AskedOf, LeaveFlush
  <2>2. \A s \in Thread : InQueue(s) => InQueue(s)'
    BY <1>7, OwnMessages, InQueueMore DEF LeaveFlush
  <2> QED
    BY <1>7, <1>b, <2>1, <2>2 DEF LeaveFlush, Where, Using
<1>8. ASSUME NEW t \in Thread, Close(t) PROVE Asked'
  BY <1>8, <1>b, InQueueSame DEF Close, Where, Using
<1>9. ASSUME NEW p \in Proc, MessageCacheOpen(p) \/ MessageCacheClose(p) PROVE Asked'
  <2>1. PICK k \in {"open", "close"} : Process(p, k)
    BY <1>9 DEF MessageCacheOpen, MessageCacheClose
  <2>2. PICK t : t = Head(queueMPInew[p]).from
    OBVIOUS
  <2>3. t \in Thread
    BY <2>1, <2>2, Dequeued
  <2>4. /\ answered' = [answered EXCEPT ![t] = TRUE]
        /\ UNCHANGED <<pc, asked, CacheRequestMessages, queueCacheReply>>
    BY <1>9, <2>2 DEF MessageCacheOpen, MessageCacheClose, Answer
  <2>5. OthersSame(t) /\ answered'[t]
    BY <2>3, <2>4 DEF Flat, OthersSame
  <2>6. pc[t] \in {"openWait", "closeWait"}
    <3>1. PICK m : m = Head(queueMPInew[p])
      OBVIOUS
    <3>2. m \in Range(queueMPInew[p]) /\ m.kind = k
      BY <2>1, <3>1, Dequeued
    <3> QED
      BY <2>2, <3>1, <3>2 DEF Queued, Waits
  <2>7. AskedOf(t)'
    <3>1. CacheRequestMessages[t] = None /\ queueCacheReply[t] = <<>> /\ pc[t] # "fetch"
      BY <1>a, <2>3, <2>6 DEF AskedOf
    <3>2. CacheRequestMessages'[t] = None /\ queueCacheReply'[t] = <<>> /\ pc'[t] \in {"openWait", "closeWait"}
      BY <2>4, <2>6, <3>1
    <3> QED
      BY <3>2 DEF AskedOf
  <2>8. \A s \in Thread \ {t} : InQueue(s) => InQueue(s)'
    BY <2>1, <2>2, <2>3, InQueueLess
  <2> QED
    BY <2>3, <2>5, <2>7, <2>8, AskedOthers
<1>10. ASSUME NEW p \in Proc, MessageCacheRequest(p) PROVE Asked'
  <2>1. PICK t \in Thread : /\ t = Head(queueMPInew[p]).from /\ pc[t] = "fetch" /\ asked[t] \in Request
                            /\ queueCacheReply[t] = <<>>
                            /\ CacheRequestMessages' = [CacheRequestMessages EXCEPT ![t] = asked[t]]
    BY <1>10, RequestSent
  <2>2. OthersSame(t) /\ Process(p, "request") /\ UNCHANGED <<pc, asked, answered, queueCacheReply>>
    BY <1>10, <2>1 DEF MessageCacheRequest, Flat, OthersSame
  <2>3. CacheRequestMessages'[t] = asked[t] /\ asked[t] # None
    BY <2>1, RequestParts DEF Flat
  <2>4. AskedOf(t)'
    BY <1>a, <2>1, <2>2, <2>3 DEF AskedOf
  <2>5. \A s \in Thread \ {t} : InQueue(s) => InQueue(s)'
    BY <2>1, <2>2, InQueueLess
  <2> QED
    BY <2>2, <2>4, <2>5, AskedOthers
<1>11. ASSUME NEW p \in Proc, Match(p) \/ CacheReceiveRequest(p) PROVE UNCHANGED <<QueuedVars, queueMPInew>>
  BY <1>11 DEF Match, CacheReceiveRequest, QueuedVars
<1>12. CASE UNCHANGED <<QueuedVars, queueMPInew>>
  BY <1>12 DEF QueuedVars, Asked, AskedOf, InQueue
<1>13. ASSUME NEW p \in Proc, CacheReceiveReply(p) PROVE Asked'
  <2>1. PICK t \in Thread :
          /\ ProcOf(t) = p /\ pc[t] = "fetch" /\ asked[t] \in Request
          /\ queueCacheReply' = [queueCacheReply EXCEPT ![t] = <<asked[t]>>]
          /\ CacheRequestMessages' = [CacheRequestMessages EXCEPT ![t] = None]
    BY <1>13, ReplyServed
  <2>2. OthersSame(t) /\ UNCHANGED <<queueMPInew, pc, asked, answered>>
    BY <1>13, <2>1 DEF CacheReceiveReply, Flat, Deep, OthersSame
  <2>3. queueCacheReply'[t] = <<asked[t]>> /\ CacheRequestMessages'[t] = None
    BY <2>1 DEF Flat, Deep
  <2>4. <<asked[t]>> # <<>>
    OBVIOUS
  <2>5. AskedOf(t)'
    BY <1>a, <2>1, <2>2, <2>3, <2>4 DEF AskedOf
  <2> QED
    BY <2>2, <2>5, AskedOthers, InQueueSame
<1> QED
  BY <1>1, <1>2, <1>3, <1>4, <1>5, <1>6, <1>7, <1>8, <1>9, <1>10, <1>11, <1>12, <1>13
     DEF Next, ThreadStep, MPIThread, vars, QueuedVars

\* The mail depends on the threads it is for.
LEMMA PostedSame ==
  ASSUME Deep, Posted, UNCHANGED mpiVars,
         \A s \in Thread : CacheRequestMessages[s] # None =>
           CacheRequestMessages'[s] # None /\ asked'[s] = asked[s] /\ session'[s] = session[s]
  PROVE  Posted'
<1>1. \A m \in net \cup matched : Client(m) \in Thread
  BY MailParts DEF Deep
<1> QED
  BY <1>1 DEF Posted, mpiVars

LEMMA PostedStep == Flat /\ Deep /\ Queued /\ Asked /\ Posted /\ [Next]_vars => Posted'
<1> SUFFICES ASSUME Flat, Deep, Queued, Asked, Posted, [Next]_vars PROVE Posted'
  OBVIOUS
<1>a. \A t \in Thread : CacheRequestMessages[t] # None => pc[t] = "fetch"
  BY DEF Asked, AskedOf
<1>b. \A m \in net \cup matched : m \in Mail /\ Client(m) \in Thread
  BY MailParts DEF Deep
<1> USE DEF threadVars, replyVars, openVars, mpiVars
<1>1. ASSUME NEW t \in Thread, InvokeRequest(t) PROVE Posted'
  <2>1. PICK r \in Request : asked' = [asked EXCEPT ![t] = r]
    BY <1>1 DEF InvokeRequest
  <2> QED
    BY <1>1, <1>a, <2>1, PostedSame DEF InvokeRequest, Flat
<1>2. ASSUME NEW t \in Thread, Close(t) PROVE Posted'
  BY <1>2, <1>a, PostedSame DEF Close, Flat
<1>3. ASSUME NEW t \in Thread, \/ Initialize(t) \/ LeaveOpening(t) \/ Opened(t) \/ FinishRequest(t)
                               \/ FlushCache(t) \/ LeaveFlush(t)
      PROVE  UNCHANGED <<CacheRequestMessages, asked, session, net, matched>>
  BY <1>3 DEF Initialize, LeaveOpening, Opened, FinishRequest, FlushCache, LeaveFlush
<1>4. ASSUME NEW p \in Proc, MessageCacheOpen(p) \/ MessageCacheClose(p)
      PROVE  UNCHANGED <<CacheRequestMessages, asked, session, net, matched>>
  BY <1>4 DEF MessageCacheOpen, MessageCacheClose
<1>5. CASE UNCHANGED <<CacheRequestMessages, asked, session, net, matched>>
  BY <1>5 DEF Posted
<1>6. ASSUME NEW p \in Proc, MessageCacheRequest(p) PROVE Posted'
  <2>1. PICK t \in Thread, n \in Mail :
          /\ asked[t] \in Request /\ CacheRequestMessages[t] = None
          /\ CacheRequestMessages' = [CacheRequestMessages EXCEPT ![t] = asked[t]]
          /\ n.mid = "REQUEST" /\ n.idFrom = t /\ n.idTo = n.data.owner /\ n.data = asked[t] /\ n.session = session[t]
          /\ net' = net \cup {n} /\ Client(n) = t /\ \A m \in net \cup matched : Client(m) # t
    BY <1>6, RequestSent
  <2>2. UNCHANGED <<asked, session, matched>>
    BY <1>6 DEF MessageCacheRequest
  <2>3. asked[t] # None
    BY <2>1, RequestParts
  <2>4. ASSUME NEW m \in net \cup matched
        PROVE  /\ CacheRequestMessages'[Client(m)] # None
               /\ m.data = asked'[Client(m)] /\ m.session = session'[Client(m)]
               /\ m.mid = "REQUEST" => m.idTo = m.data.owner
    BY <1>b, <2>1, <2>2 DEF Posted, Flat
  <2>5. /\ CacheRequestMessages'[Client(n)] # None
        /\ n.data = asked'[Client(n)] /\ n.session = session'[Client(n)] /\ n.idTo = n.data.owner
    BY <2>1, <2>2, <2>3 DEF Flat
  <2>6. net' \cap matched' = {} /\ net' \cup matched' = (net \cup matched) \cup {n}
    BY <2>1, <2>2 DEF Posted
  <2>7. \A m, o \in net' \cup matched' : Client(m) = Client(o) => m = o
    BY <2>1, <2>6 DEF Posted
  <2> QED
    BY <2>4, <2>5, <2>6, <2>7 DEF Posted
<1>7. ASSUME NEW p \in Proc, Match(p) PROVE Posted'
  <2>1. PICK m \in net : net' = net \ {m} /\ matched' = matched \cup {m}
    BY <1>7 DEF Match
  <2>2. UNCHANGED <<asked, session, CacheRequestMessages>>
    BY <1>7 DEF Match
  <2>3. net' \cup matched' = net \cup matched /\ net' \cap matched' = {}
    BY <2>1 DEF Posted
  <2> QED
    BY <2>2, <2>3 DEF Posted
<1>8. ASSUME NEW p \in Proc, CacheReceiveRequest(p) PROVE Posted'
  <2>1. PICK m \in matched, n \in Mail :
           /\ matched' = matched \ {m} /\ net' = net \cup {n}
           /\ n.mid = "REPLY" /\ n.data = m.data /\ n.session = m.session
           /\ Client(n) = Client(m) /\ n \notin matched
    BY <1>8, RequestServed
  <2>2. UNCHANGED <<asked, session, CacheRequestMessages>>
    BY <1>8 DEF CacheReceiveRequest
  <2>3. net' \cup matched' = ((net \cup matched) \ {m}) \cup {n} /\ net' \cap matched' = {}
    BY <2>1 DEF Posted
  <2>4. \A o \in (net \cup matched) \ {m} : Client(o) # Client(n)
    BY <2>1 DEF Posted
  <2>5. \A o, q \in net' \cup matched' : Client(o) = Client(q) => o = q
    BY <2>3, <2>4 DEF Posted
  <2>6. \A o \in net' \cup matched' :
          /\ CacheRequestMessages[Client(o)] # None
          /\ o.data = asked[Client(o)] /\ o.session = session[Client(o)]
          /\ o.mid = "REQUEST" => o.idTo = o.data.owner
    BY <2>1, <2>3 DEF Posted
  <2> QED
    BY <2>2, <2>3, <2>5, <2>6 DEF Posted
<1>9. ASSUME NEW p \in Proc, CacheReceiveReply(p) PROVE Posted'
  <2>1. PICK m \in matched, t \in Thread :
           /\ t = Client(m) /\ matched' = matched \ {m}
           /\ CacheRequestMessages' = [CacheRequestMessages EXCEPT ![t] = None]
    BY <1>9, ReplyServed
  <2>2. UNCHANGED <<asked, session, net>>
    BY <1>9 DEF CacheReceiveReply
  <2>3. net' \cup matched' = (net \cup matched) \ {m} /\ net' \cap matched' = {}
    BY <2>1, <2>2 DEF Posted
  <2>4. \A o \in (net \cup matched) \ {m} : Client(o) # t /\ Client(o) \in Thread
    BY <1>b, <2>1 DEF Posted
  <2>5. \A o \in net' \cup matched' : CacheRequestMessages'[Client(o)] = CacheRequestMessages[Client(o)]
    BY <2>1, <2>3, <2>4 DEF Flat
  <2> QED
    BY <2>2, <2>3, <2>5 DEF Posted
<1> QED
  BY <1>1, <1>2, <1>3, <1>4, <1>5, <1>6, <1>7, <1>8, <1>9 DEF Next, ThreadStep, MPIThread, vars
------------------------------------------------------------------------------
(* Open caches and posted receives *)

LEMMA OpenersFinite == \A p \in Proc : IsFiniteSet(Openers(p)) /\ Cardinality(Openers(p)) \in Nat
<1>1. ASSUME NEW p \in Proc PROVE IsFiniteSet(Openers(p))
  BY ThreadFacts, FS_Subset DEF Openers
<1> QED
  BY <1>1, FS_CardinalityType

\* A close message is answered when no message for the cache is on its way.
LEMMA NothingOnItsWay ==
  ASSUME Flat, Deep, InSession, Gates, Queued, Asked, Posted, NEW p \in Proc, Process(p, "close")
  PROVE  net \cup matched = {}
<1>1. PICK m : m = Head(queueMPInew[p])
  OBVIOUS
<1>2. m \in Range(queueMPInew[p]) /\ m.kind = "close" /\ m.from \in Thread
  BY <1>1, Dequeued
<1>3. pc[m.from] = "closeWait"
  BY <1>2 DEF Queued, Waits
<1>4. ASSUME NEW n \in net \cup matched PROVE FALSE
  <2>1. Client(n) \in Thread /\ CacheRequestMessages[Client(n)] # None
    BY MailParts DEF Deep, Posted
  <2>2. pc[Client(n)] \in Using
    BY <2>1 DEF Asked, AskedOf, Using
  <2>3. pc[m.from] \in Using \cup {"opening", "flushing"}
    BY <1>2, <2>1, <2>2, Together
  <2> QED
    BY <1>3, <2>3 DEF Using
<1> QED
  BY <1>4

\* What the answer to an open or a close message changes
LEMMA OpenAnswered ==
  ASSUME Flat, Deep, Queued, NEW p \in Proc, MessageCacheOpen(p)
  PROVE  \E t \in Thread : /\ t \notin Openers(p) /\ Openers(p)' = Openers(p) \cup {t}
                           /\ \A o \in Proc \ {p} : Openers(o)' = Openers(o)
<1>1. PICK m : m = Head(queueMPInew[p])
  OBVIOUS
<1>2. Process(p, "open") /\ answered' = [answered EXCEPT ![m.from] = TRUE] /\ pc' = pc
  BY <1>1 DEF MessageCacheOpen, Answer, threadVars
<1>3. m \in Range(queueMPInew[p]) /\ m.kind = "open" /\ m.from \in Thread
  BY <1>1, <1>2, Dequeued
<1>4. pc[m.from] = "openWait" /\ ~answered[m.from] /\ ProcOf(m.from) = p
  BY <1>3 DEF Queued, Waits
<1>5. ~HasOpen(m.from) /\ HasOpen(m.from)'
  BY <1>2, <1>3, <1>4 DEF HasOpen, Flat
<1>6. \A s \in Thread \ {m.from} : HasOpen(s)' = HasOpen(s)
  BY <1>2 DEF HasOpen, Flat
<1> QED
  BY <1>3, <1>4, <1>5, <1>6 DEF Openers

LEMMA CloseAnswered ==
  ASSUME Flat, Deep, Queued, NEW p \in Proc, MessageCacheClose(p)
  PROVE  \E t \in Thread : /\ t \in Openers(p) /\ Openers(p)' = Openers(p) \ {t}
                           /\ \A o \in Proc \ {p} : Openers(o)' = Openers(o)
<1>1. PICK m : m = Head(queueMPInew[p])
  OBVIOUS
<1>2. Process(p, "close") /\ answered' = [answered EXCEPT ![m.from] = TRUE] /\ pc' = pc
  BY <1>1 DEF MessageCacheClose, Answer, threadVars
<1>3. m \in Range(queueMPInew[p]) /\ m.kind = "close" /\ m.from \in Thread
  BY <1>1, <1>2, Dequeued
<1>4. pc[m.from] = "closeWait" /\ ~answered[m.from] /\ ProcOf(m.from) = p
  BY <1>3 DEF Queued, Waits
<1>5. HasOpen(m.from) /\ ~HasOpen(m.from)'
  BY <1>2, <1>3, <1>4 DEF HasOpen, Flat
<1>6. \A s \in Thread \ {m.from} : HasOpen(s)' = HasOpen(s)
  BY <1>2 DEF HasOpen, Flat
<1> QED
  BY <1>3, <1>4, <1>5, <1>6 DEF Openers

LEMMA CountedStep == Flat /\ Deep /\ Queued /\ Asked /\ Counted /\ [Next]_vars => Counted'
<1> SUFFICES ASSUME Flat, Deep, Queued, Asked, Counted, [Next]_vars PROVE Counted'
  OBVIOUS
<1>0. \A p \in Proc : /\ nOpenCaches[p] = Cardinality(Openers(p))
                      /\ IsFiniteSet(Openers(p)) /\ Cardinality(Openers(p)) \in Nat
  BY OpenersFinite DEF Counted
<1>a. \A t \in Thread : answered[t] => pc[t] \in {"openWait", "closeWait"}
  BY DEF Asked, AskedOf
<1>b. ASSUME \A t \in Thread : HasOpen(t)' = HasOpen(t), UNCHANGED nOpenCaches PROVE Counted'
  <2>1. \A p \in Proc : Openers(p)' = Openers(p)
    BY <1>b DEF Openers
  <2> QED
    BY <1>b, <2>1 DEF Counted
<1> USE DEF threadVars, replyVars, openVars, mpiVars, Goto
<1>1. ASSUME NEW t \in Thread, Initialize(t) PROVE Counted'
  BY <1>1, <1>b DEF Initialize, HasOpen, Flat
<1>2. ASSUME NEW t \in Thread, LeaveOpening(t) PROVE Counted'
  BY <1>2, <1>a, <1>b DEF LeaveOpening, HasOpen, Flat
<1>3. ASSUME NEW t \in Thread, Opened(t) PROVE Counted'
  BY <1>3, <1>b DEF Opened, HasOpen, Flat
<1>4. ASSUME NEW t \in Thread, InvokeRequest(t) PROVE Counted'
  BY <1>4, <1>b DEF InvokeRequest, HasOpen, Flat
<1>5. ASSUME NEW t \in Thread, FinishRequest(t) PROVE Counted'
  BY <1>5, <1>b DEF FinishRequest, HasOpen, Flat
<1>6. ASSUME NEW t \in Thread, FlushCache(t) PROVE Counted'
  BY <1>6, <1>b DEF FlushCache, HasOpen, Flat
<1>7. ASSUME NEW t \in Thread, LeaveFlush(t) PROVE Counted'
  BY <1>7, <1>a, <1>b DEF LeaveFlush, HasOpen, Flat
<1>8. ASSUME NEW t \in Thread, Close(t) PROVE Counted'
  BY <1>8, <1>b DEF Close, HasOpen, Flat
<1>9. ASSUME NEW p \in Proc, MessageCacheOpen(p) PROVE Counted'
  <2>1. PICK t \in Thread : /\ t \notin Openers(p) /\ Openers(p)' = Openers(p) \cup {t}
                            /\ \A o \in Proc \ {p} : Openers(o)' = Openers(o)
    BY <1>9, OpenAnswered
  <2>2. Cardinality(Openers(p) \cup {t}) = Cardinality(Openers(p)) + 1
    BY <1>0, <2>1, FS_AddElement
  <2>3. nOpenCaches' = [nOpenCaches EXCEPT ![p] = nOpenCaches[p] + 1]
    BY <1>9 DEF MessageCacheOpen
  <2> QED
    BY <1>0, <2>1, <2>2, <2>3 DEF Counted, Flat
<1>10. ASSUME NEW p \in Proc, MessageCacheClose(p) PROVE Counted'
  <2>1. PICK t \in Thread : /\ t \in Openers(p) /\ Openers(p)' = Openers(p) \ {t}
                            /\ \A o \in Proc \ {p} : Openers(o)' = Openers(o)
    BY <1>10, CloseAnswered
  <2>2. Cardinality(Openers(p) \ {t}) = Cardinality(Openers(p)) - 1
    BY <1>0, <2>1, FS_RemoveElement
  <2>3. nOpenCaches' = [nOpenCaches EXCEPT ![p] = nOpenCaches[p] - 1]
    BY <1>10 DEF MessageCacheClose
  <2> QED
    BY <1>0, <2>1, <2>2, <2>3 DEF Counted, Flat
<1>11. ASSUME NEW p \in Proc, MessageCacheRequest(p) \/ Match(p) \/ CacheReceiveRequest(p) \/ CacheReceiveReply(p)
       PROVE  UNCHANGED <<pc, answered, nOpenCaches>>
  BY <1>11 DEF MessageCacheRequest, Match, CacheReceiveRequest, CacheReceiveReply
<1>12. CASE UNCHANGED <<pc, answered, nOpenCaches>>
  BY <1>12, <1>b DEF HasOpen
<1> QED
  BY <1>1, <1>2, <1>3, <1>4, <1>5, <1>6, <1>7, <1>8, <1>9, <1>10, <1>11, <1>12
     DEF Next, ThreadStep, MPIThread, vars

\* The receives of a process that have matched
InHand(p) == {m \in matched : ProcOf(m.idTo) = p}

LEMMA ReceivesStep ==
  Flat /\ Deep /\ InSession /\ Gates /\ Queued /\ Asked /\ Posted /\ Counted /\ ReceivesAccounted /\ [Next]_vars
    => ReceivesAccounted'
<1> SUFFICES ASSUME Flat, Deep, InSession, Gates, Queued, Asked, Posted, Counted, ReceivesAccounted, [Next]_vars
             PROVE  ReceivesAccounted'
  OBVIOUS
<1>0. \A p \in Proc : /\ posted[p] + Cardinality(InHand(p)) = IF nOpenCaches[p] = 0 THEN 0 ELSE Receives
                      /\ posted[p] \in Int /\ IsFiniteSet(InHand(p)) /\ Cardinality(InHand(p)) \in Nat
                      /\ nOpenCaches[p] \in Nat /\ nOpenCaches[p] = Cardinality(Openers(p))
  <2>1. \A p \in Proc : IsFiniteSet(InHand(p))
    BY FS_Subset DEF Deep, InHand
  <2> QED
    BY <2>1, FS_CardinalityType, OpenersFinite DEF ReceivesAccounted, InHand, Flat, Counted
<1>a. Receives \in Nat
  BY ThreadFacts
\* A receive of one process matches, or is posted again.
<1>b. ASSUME NEW p \in Proc, NEW m, m \notin matched, ProcOf(m.idTo) = p, matched' = matched \cup {m},
             posted' = [posted EXCEPT ![p] = posted[p] - 1], UNCHANGED nOpenCaches
      PROVE  ReceivesAccounted'
  <2>1. InHand(p)' = InHand(p) \cup {m} /\ m \notin InHand(p) /\ \A o \in Proc \ {p} : InHand(o)' = InHand(o)
    BY <1>b DEF InHand
  <2>2. Cardinality(InHand(p) \cup {m}) = Cardinality(InHand(p)) + 1
    BY <1>0, <2>1, FS_AddElement
  <2>3. ASSUME NEW o \in Proc PROVE posted'[o] + Cardinality(InHand(o)') = posted[o] + Cardinality(InHand(o))
    <3>1. CASE o = p
      <4>1. posted'[p] = posted[p] - 1 /\ Cardinality(InHand(p)') = Cardinality(InHand(p)) + 1
        BY <1>b, <2>1, <2>2 DEF Flat
      <4> QED
        BY <1>0, <3>1, <4>1
    <3>2. CASE o # p
      <4>1. posted'[o] = posted[o] /\ InHand(o)' = InHand(o)
        BY <1>b, <2>1, <3>2 DEF Flat
      <4> QED
        BY <4>1
    <3> QED
      BY <3>1, <3>2
  <2> QED
    BY <1>0, <1>b, <2>3 DEF ReceivesAccounted, InHand
<1>c. ASSUME NEW p \in Proc, NEW m \in matched, ProcOf(m.idTo) = p, matched' = matched \ {m},
             posted' = [posted EXCEPT ![p] = posted[p] + 1], UNCHANGED nOpenCaches
      PROVE  ReceivesAccounted'
  <2>1. InHand(p)' = InHand(p) \ {m} /\ m \in InHand(p) /\ \A o \in Proc \ {p} : InHand(o)' = InHand(o)
    BY <1>c DEF InHand
  <2>2. Cardinality(InHand(p) \ {m}) = Cardinality(InHand(p)) - 1
    BY <1>0, <2>1, FS_RemoveElement
  <2>3. ASSUME NEW o \in Proc PROVE posted'[o] + Cardinality(InHand(o)') = posted[o] + Cardinality(InHand(o))
    <3>1. CASE o = p
      <4>1. posted'[p] = posted[p] + 1 /\ Cardinality(InHand(p)') = Cardinality(InHand(p)) - 1
        BY <1>c, <2>1, <2>2 DEF Flat
      <4> QED
        BY <1>0, <3>1, <4>1
    <3>2. CASE o # p
      <4>1. posted'[o] = posted[o] /\ InHand(o)' = InHand(o)
        BY <1>c, <2>1, <3>2 DEF Flat
      <4> QED
        BY <4>1
    <3> QED
      BY <3>1, <3>2
  <2> QED
    BY <1>0, <1>c, <2>3 DEF ReceivesAccounted, InHand
<1> USE DEF threadVars, replyVars, openVars, mpiVars
<1>1. ASSUME NEW p \in Proc, MessageCacheOpen(p) PROVE ReceivesAccounted'
  <2>1. /\ posted' = [posted EXCEPT ![p] = IF nOpenCaches[p] = 0 THEN posted[p] + Receives ELSE posted[p]]
        /\ nOpenCaches' = [nOpenCaches EXCEPT ![p] = nOpenCaches[p] + 1] /\ matched' = matched
    BY <1>1 DEF MessageCacheOpen
  <2>2. ASSUME NEW o \in Proc PROVE posted'[o] + Cardinality(InHand(o)) = IF nOpenCaches'[o] = 0 THEN 0 ELSE Receives
    <3>1. CASE o = p
      <4>1. /\ posted'[p] = IF nOpenCaches[p] = 0 THEN posted[p] + Receives ELSE posted[p]
            /\ nOpenCaches'[p] = nOpenCaches[p] + 1
        BY <2>1 DEF Flat
      <4> QED
        BY <1>0, <1>a, <3>1, <4>1
    <3>2. CASE o # p
      <4>1. posted'[o] = posted[o] /\ nOpenCaches'[o] = nOpenCaches[o]
        BY <2>1, <3>2 DEF Flat
      <4> QED
        BY <1>0, <4>1
    <3> QED
      BY <3>1, <3>2
  <2> QED
    BY <2>1, <2>2 DEF ReceivesAccounted, InHand
<1>2. ASSUME NEW p \in Proc, MessageCacheClose(p) PROVE ReceivesAccounted'
  <2>1. /\ posted' = [posted EXCEPT ![p] = IF nOpenCaches[p] = 1 THEN 0 ELSE posted[p]]
        /\ nOpenCaches' = [nOpenCaches EXCEPT ![p] = nOpenCaches[p] - 1] /\ matched' = matched
    BY <1>2 DEF MessageCacheClose
  <2>2. Cardinality(InHand(p)) = 0
    <3>1. matched = {}
      BY <1>2, NothingOnItsWay DEF MessageCacheClose
    <3>2. InHand(p) = {}
      BY <3>1 DEF InHand
    <3> QED
      BY <3>2, FS_EmptySet
  <2>3. nOpenCaches[p] # 0
    <3>1. Openers(p) # {}
      BY <1>2, CloseAnswered
    <3> QED
      BY <1>0, <3>1, OpenersFinite, FS_EmptySet
  <2>4. \A o \in Proc : posted'[o] + Cardinality(InHand(o)) = IF nOpenCaches'[o] = 0 THEN 0 ELSE Receives
    BY <1>0, <1>a, <2>1, <2>2, <2>3 DEF Flat
  <2> QED
    BY <2>1, <2>4 DEF ReceivesAccounted, InHand
<1>3. ASSUME NEW p \in Proc, Match(p) PROVE ReceivesAccounted'
  <2>1. PICK m \in net : ProcOf(m.idTo) = p /\ matched' = matched \cup {m}
    BY <1>3 DEF Match
  <2>2. m \notin matched
    BY <2>1 DEF Posted
  <2> QED
    BY <1>3, <1>b, <2>1, <2>2 DEF Match
<1>4. ASSUME NEW p \in Proc, CacheReceiveRequest(p) \/ CacheReceiveReply(p) PROVE ReceivesAccounted'
  <2>1. PICK m \in matched : ProcOf(m.idTo) = p /\ matched' = matched \ {m}
    BY <1>4 DEF CacheReceiveRequest, CacheReceiveReply
  <2>2. posted' = [posted EXCEPT ![p] = posted[p] + 1] /\ UNCHANGED nOpenCaches
    BY <1>4 DEF CacheReceiveRequest, CacheReceiveReply, Restarted
  <2> QED
    BY <1>c, <2>1, <2>2
<1>5. ASSUME NEW t \in Thread, ThreadStep(t) PROVE UNCHANGED <<posted, nOpenCaches, matched>>
  BY <1>5 DEF ThreadStep, Initialize, LeaveOpening, Opened, InvokeRequest, FinishRequest, FlushCache, LeaveFlush, Close
<1>6. ASSUME NEW p \in Proc, MessageCacheRequest(p) PROVE UNCHANGED <<posted, nOpenCaches, matched>>
  BY <1>6 DEF MessageCacheRequest
<1>7. CASE UNCHANGED <<posted, nOpenCaches, matched>>
  BY <1>7 DEF ReceivesAccounted
<1> QED
  BY <1>1, <1>2, <1>3, <1>4, <1>5, <1>6, <1>7 DEF Next, MPIThread, vars

------------------------------------------------------------------------------
(* The invariant and the theorems *)

LEMMA InvInit == Init => IInv
<1> SUFFICES ASSUME Init PROVE IInv
  OBVIOUS
<1>1. Flat
  BY RequestAssumption DEF Init, Flat, Where, Using
<1>2. \A t \in Thread : /\ pc[t] = "closed" /\ session[t] = 1 /\ barriers[t] = 0 /\ ~active[t]
                        /\ ~answered[t] /\ CacheRequestMessages[t] = None /\ queueCacheReply[t] = <<>>
  BY DEF Init
<1>3. net = {} /\ matched = {} /\ \A p \in Proc : queueMPInew[p] = <<>> /\ nOpenCaches[p] = 0 /\ posted[p] = 0
  BY DEF Init
<1>4. Deep
  <2>1. IsFiniteSet(matched)
    BY <1>3, FS_EmptySet
  <2>2. queueCacheReply \in [Thread -> Seq(Request)] /\ queueMPInew \in [Proc -> Seq(Message)]
    BY DEF Init
  <2> QED
    BY <1>3, <2>1, <2>2 DEF Deep
<1>5. InSession /\ Gates /\ Asked /\ Posted
  BY <1>2, <1>3 DEF InSession, Gates, Left, Using, Asked, AskedOf, Posted
<1>6. Queued
  <2>1. Range(<<>>) = {} /\ OneEach(<<>>)
    BY DEF Range, OneEach
  <2> QED
    BY <1>3, <2>1 DEF Queued
<1>7. Counted
  <2>1. \A p \in Proc : Openers(p) = {}
    BY <1>2 DEF Openers, HasOpen
  <2> QED
    BY <1>3, <2>1, FS_EmptySet DEF Counted
<1>8. ReceivesAccounted
  <2>1. \A p \in Proc : {m \in matched : ProcOf(m.idTo) = p} = {}
    BY <1>3
  <2> QED
    BY <1>3, <2>1, FS_EmptySet DEF ReceivesAccounted
<1> QED
  BY <1>1, <1>4, <1>5, <1>6, <1>7, <1>8 DEF IInv

LEMMA InvHolds == Spec => []IInv
<1>1. IInv /\ [Next]_vars => IInv'
  BY FlatStep, DeepStep, InSessionStep, GatesStep, QueuedStep, AskedStep, PostedStep, CountedStep, ReceivesStep DEF IInv
<1> QED
  BY <1>1, InvInit, PTL DEF Spec

\* Every variable keeps its type, and every thread is where the barriers of its sessions say.
THEOREM TypeCorrect == Spec => [](Flat /\ Deep /\ InSession)
<1>1. IInv => Flat /\ Deep /\ InSession
  BY DEF IInv
<1> QED
  BY <1>1, InvHolds, PTL

\* A message never reaches a core whose cache is closed or open again for something else, and
\* no receive is left over from one session to the next.
THEOREM Served == Spec => []ServedWhileOpen
<1>1. ASSUME IInv PROVE ServedWhileOpen
  <2>1. ASSUME NEW m \in net \cup matched PROVE active[m.idTo] /\ session[m.idTo] = m.session
    <3>1. Client(m) \in Thread /\ m.idTo \in Thread
      BY <1>1, MailParts DEF IInv, Deep
    <3>2. CacheRequestMessages[Client(m)] # None /\ m.session = session[Client(m)]
      BY <1>1 DEF IInv, Posted
    <3>3. pc[Client(m)] \in Using
      BY <1>1, <3>1, <3>2 DEF IInv, Asked, AskedOf, Using
    <3>4. active[m.idTo] /\ session[m.idTo] = session[Client(m)]
      BY <1>1, <3>1, <3>3, Together DEF IInv
    <3> QED
      BY <3>2, <3>4
  <2> QED
    BY <1>1, <2>1 DEF IInv, ServedWhileOpen
<1> QED
  BY <1>1, InvHolds, PTL

LEMMA OneRequest == IInv => OneRequestPerCore
<1> SUFFICES ASSUME IInv, NEW t \in Thread
             PROVE  LET queue == queueMPInew[ProcOf(t)]
                        queued == Cardinality({i \in DOMAIN queue : queue[i].kind = "request" /\ queue[i].from = t})
                        waiting == IF CacheRequestMessages[t] = None THEN 0 ELSE 1
                    IN  queued + waiting + Len(queueCacheReply[t]) = IF pc[t] = "fetch" THEN 1 ELSE 0
  BY DEF OneRequestPerCore
<1>0. ProcOf(t) \in Proc /\ Deep /\ Queued /\ AskedOf(t)
  BY ThreadFacts DEF IInv, Asked
<1> DEFINE q == queueMPInew[ProcOf(t)]
           mine == {i \in DOMAIN q : q[i].kind = "request" /\ q[i].from = t}
<1>1. OneEach(q) /\ \A m \in Range(q) : m.from = t =>
                      /\ ~answered[t] /\ m.kind = "request" => pc[t] = "fetch"
                      /\ pc[t] = "fetch" => CacheRequestMessages[t] = None /\ queueCacheReply[t] = <<>>
  BY <1>0, NoMessage DEF Queued, Waits
<1>2. \A i \in DOMAIN q : q[i] \in Range(q)
  BY DEF Range
<1>3. CASE InQueue(t)
  <2>1. PICK i \in DOMAIN q : q[i].from = t /\ q[i].kind = "request"
    BY <1>3 DEF InQueue, Range
  <2>2. mine = {i}
    BY <1>1, <2>1 DEF OneEach
  <2>3. Cardinality(mine) = 1
    BY <2>2, FS_Singleton
  <2>4. pc[t] = "fetch" /\ CacheRequestMessages[t] = None /\ queueCacheReply[t] = <<>>
    BY <1>0, <1>1, <1>2, <2>1 DEF Queued, Waits
  <2> QED
    BY <2>3, <2>4
<1>4. CASE ~InQueue(t)
  <2>1. mine = {}
    BY <1>2, <1>4 DEF InQueue
  <2>2. Cardinality(mine) = 0
    BY <2>1, FS_EmptySet
  <2>3. CASE CacheRequestMessages[t] # None
    BY <1>0, <2>2, <2>3 DEF AskedOf
  <2>4. CASE CacheRequestMessages[t] = None /\ queueCacheReply[t] # <<>>
    <3>1. pc[t] = "fetch" /\ queueCacheReply[t] = <<asked[t]>>
      BY <1>0, <2>4 DEF AskedOf
    <3>2. Len(queueCacheReply[t]) = 1
      BY <3>1
    <3> QED
      BY <2>2, <2>4, <3>1, <3>2
  <2>5. CASE CacheRequestMessages[t] = None /\ queueCacheReply[t] = <<>>
    <3>1. pc[t] # "fetch" /\ Len(queueCacheReply[t]) = 0
      BY <1>0, <1>4, <2>5 DEF AskedOf
    <3> QED
      BY <2>2, <2>5, <3>1
  <2> QED
    BY <2>3, <2>4, <2>5
<1> QED
  BY <1>3, <1>4

\* A core has at most one request, and the answer its thread takes is the line it asked for.
THEOREM Answered == Spec => []OwnAnswer
<1>1. ASSUME IInv PROVE OwnAnswer
  <2>1. ASSUME NEW t \in Thread, pc[t] = "fetch", queueCacheReply[t] # <<>> PROVE Head(queueCacheReply[t]) = asked[t]
    <3>1. queueCacheReply[t] = <<asked[t]>>
      BY <1>1, <2>1 DEF IInv, Asked, AskedOf
    <3> QED
      BY <3>1
  <2> QED
    BY <1>1, <2>1, OneRequest DEF OwnAnswer
<1> QED
  BY <1>1, InvHolds, PTL
=============================================================================
