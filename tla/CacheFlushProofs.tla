-------------------------- MODULE CacheFlushProofs --------------------------
(***************************************************************************)
(* Proofs about CacheFlush, for any processes, cores, updates and numbers   *)
(* of buffers.  The inductive invariant has three parts, each of which      *)
(* rests on the one before: where the threads of a process are with respect *)
(* to its core 0, and what they have sent (Threads); that an update and its *)
(* buffer are in one place (Moving); and which places are empty once the    *)
(* second and the third barrier of FlushCache have been passed (Emptied).   *)
(***************************************************************************)
EXTENDS CacheFlush, FiniteSetTheorems, SequenceTheorems, TLAPS

Kinds == {"flushFromCore", "flushOut", "barrierMPI", "flushLocal", "close"}
Message == [kind : Kinds, from : Thread, update : Update \cup {None}]

Flat ==
  /\ pc \in [Thread -> {"clear", "spare", "arrive", "wait", "answer", "done"}] /\ round \in [Thread -> 1..4]
  /\ dirty \in [Thread -> SUBSET Update] /\ coreFlushBuffer \in [Thread -> Update \cup {None}]
  /\ open \in SUBSET Thread /\ spare \in [Thread -> Int] /\ nOpenCaches \in [Proc -> Int]
  /\ threadBarrierQueue \in [Thread -> Int] /\ answered \in [Thread -> BOOLEAN]
  /\ held \in [Proc -> Update \cup {None}] /\ stuck \in [Proc -> Update \cup {None}]
  /\ flushingOut \in [Proc -> BOOLEAN] /\ finishing \in [Proc -> BOOLEAN]
  /\ flushHeadFree \in [Proc -> Nat] /\ completed \in [Proc -> Nat] /\ localFlushBuffers \in [Proc -> Nat]
  /\ net \in SUBSET Update /\ arrived \in SUBSET Update /\ combined \in SUBSET Update
  /\ inBarrier \in SUBSET Proc /\ barrierOpen \in SUBSET Proc
  /\ flushBuffersByCore \in [Thread -> Update \cup {None}]

Deep ==
  /\ queueMPInew \in [Proc -> Seq(Message)]
  /\ flushHeadBusy \in [Proc -> Seq(Update)] /\ wqCacheFlush \in [Thread -> Seq(Update)]

Located ==
  \A t \in Thread :
    /\ pc[t] \in {"clear", "spare"} => round[t] = 1
    /\ pc[t] = "arrive" => round[t] <= 3
    /\ pc[t] = "wait" => t[2] = 0 /\ round[t] = 2 /\ Cardinality(Proc) > 1
    /\ pc[t] = "answer" => round[t] > 1 /\ (t[2] # 0 => round[t] = 4)
    /\ pc[t] = "done" => round[t] = 4

------------------------------------------------------------------------------
(* BarrierHolds *)

\* The cores whose message for its barrier core 0 has, or has collected
Here(p) == {s \in Others(p) : round[s] = round[Core0(p)] /\ pc[s] = "arrive"}

\* A core is in the same round as core 0, or is released and has to leave the one before.
Gathered(p) ==
  /\ \A s \in Others(p) :
       /\ threadBarrierQueue[s] \in {0, 1}
       /\ round[Core0(p)] = round[s] + threadBarrierQueue[s]
       /\ threadBarrierQueue[s] = 1 => pc[s] = "arrive"
  /\ threadBarrierQueue[Core0(p)] = IF pc[Core0(p)] = "wait" THEN 0 ELSE Cardinality(Here(p))
  /\ pc[Core0(p)] = "wait" => Here(p) = Others(p)
AtBarrier == \A p \in Proc : Gathered(p)

\* A message other than a buffer is from a thread that waits for the answer.
Waits(m, p) ==
  /\ m.kind = "flushOut" => pc[m.from] = "answer" /\ round[m.from] = 2 /\ ~flushingOut[p]
  /\ m.kind = "flushLocal" => pc[m.from] = "answer" /\ round[m.from] = 3
  /\ m.kind = "close" => pc[m.from] = "answer" /\ round[m.from] = 4
  /\ m.kind = "barrierMPI" => pc[m.from] = "wait" /\ p \notin barrierOpen \cup inBarrier
  /\ m.kind # "flushFromCore" => ~answered[m.from]

\* It is the only one of its thread, and the buffers of all cores are in front of it.
Lined(p) ==
  LET q == queueMPInew[p]
  IN  /\ \A i \in DOMAIN q : ProcOf(q[i].from) = p /\ Waits(q[i], p)
      /\ \A i, j \in DOMAIN q : q[i].kind # "flushFromCore" /\ q[j].kind # "flushFromCore" /\ q[i].from = q[j].from
                                 => i = j
      /\ \A i, j \in DOMAIN q : i < j /\ q[j].kind = "flushFromCore" => q[i].kind = "flushFromCore"
Queued == \A p \in Proc : Lined(p)

\* Nobody has passed the MPI barrier before all processes have entered it.
BarredAt(p) ==
  LET c == Core0(p)
  IN  /\ p \in barrierOpen => pc[c] = "wait" /\ ~answered[c] /\ p \in inBarrier
      /\ p \in inBarrier => round[c] > 2 \/ pc[c] = "wait"
      /\ pc[c] = "wait" /\ answered[c] => inBarrier = Proc
      /\ round[c] > 2 /\ Cardinality(Proc) > 1 => inBarrier = Proc
      /\ flushingOut[p] => pc[c] = "answer" /\ round[c] = 2 /\ ~answered[c]
Barred ==
  /\ \A t \in Thread : answered[t] => pc[t] \in {"wait", "answer"}
  /\ \A p \in Proc : BarredAt(p)

------------------------------------------------------------------------------
(* OncePerUpdate *)

\* A place holds only updates that pass it on their way.
OfCores ==
  \A t \in Thread : /\ \A u \in dirty[t] : u.from = t
                    /\ coreFlushBuffer[t] # None => coreFlushBuffer[t].from = t
OfQueues ==
  \A p \in Proc : \A m \in ToSet(queueMPInew[p]) :
    /\ m.kind = "flushFromCore" <=> m.update # None
    /\ m.update # None => m.update.from = m.from
OfRanks ==
  \A p \in Proc : /\ held[p] # None => ProcOf(held[p].from) = p
                  /\ \A u \in ToSet(flushHeadBusy[p]) : ProcOf(u.from) = p
OfOwners ==
  /\ \A t \in Thread : /\ flushBuffersByCore[t] # None => flushBuffersByCore[t].to = t
                       /\ \A u \in ToSet(wqCacheFlush[t]) : u.to = t
  /\ \A p \in Proc : stuck[p] # None => RankOf(stuck[p]) = p /\ flushBuffersByCore[stuck[p].to] = None
Homes == OfCores /\ OfQueues /\ OfRanks /\ OfOwners

\* An update is in one place, and once in a list; there is at most one buffer for each rank.
Labels == {"arc", "core", "queue", "held", "rank", "net", "arrived", "stuck", "local", "wq", "combined"}
Alone(u) == \E l \in Labels : Places(u) = {l}
OneEach(q) == \A i, j \in DOMAIN q : RankOf(q[i]) = RankOf(q[j]) => i = j
OneBuffer(p) ==
  /\ OneEach(flushHeadBusy[p])
  /\ held[p] # None => \A u \in ToSet(flushHeadBusy[p]) : RankOf(u) # RankOf(held[p])
OneMessage(q) == \A i, j \in DOMAIN q : q[i].update = q[j].update /\ q[i].update # None => i = j
Once ==
  /\ \A u \in Update : Alone(u)
  /\ \A p \in Proc : OneBuffer(p) /\ OneMessage(queueMPInew[p])
  /\ \A t \in Thread : IsInjective(wqCacheFlush[t])

------------------------------------------------------------------------------
(* NothingLeftBehind *)

\* The MPI thread has taken the flushOut message of its process; it has answered it; it has come
\* out of the MPI barrier; it has answered the flushLocal message.
TakenOut(p) ==
  LET c == Core0(p) IN round[c] > 2 \/ (round[c] = 2 /\ (pc[c] # "answer" \/ answered[c] \/ flushingOut[p]))
FlushedAll(p) == LET c == Core0(p) IN round[c] > 2 \/ (round[c] = 2 /\ (pc[c] # "answer" \/ answered[c]))
BarrierDone(p) ==
  LET c == Core0(p)
  IN  round[c] > 2 \/ (pc[c] = "wait" /\ answered[c]) \/ (Cardinality(Proc) = 1 /\ FlushedAll(p))
LocalDone(p) == LET c == Core0(p) IN round[c] > 3 \/ (round[c] = 3 /\ (pc[c] # "answer" \/ answered[c]))

ArrivedAtRank(p) == {u \in arrived : RankOf(u) = p}

\* A thread that has cleared its cache has nothing left there.
CoreEmpty(t) ==
  /\ pc[t] \notin {"clear", "spare"} => dirty[t] = {}
  /\ pc[t] # "clear" => coreFlushBuffer[t] = None
\* No update is left on the way to the rank buffers, or in them; none that was sent is unmatched.
OutEmpty(p) ==
  TakenOut(p) => /\ \A m \in ToSet(queueMPInew[p]) : m.kind # "flushFromCore"
                 /\ held[p] = None /\ flushHeadBusy[p] = <<>>
SentEmpty(p) == FlushedAll(p) => Sent(p) = {}
\* An update that a process has sent to itself arrives with the end of its send.
ArrivesComplete(p) ==
  ~finishing[p] /\ (\E u \in arrived : RankOf(u) = p /\ ProcOf(u.from) = p) => completed[p] > 0
\* Whoever has left the MPI barrier looks at what has arrived before the next message.
ArrivedSeen(p) == BarrierDone(p) => finishing[p] \/ ArrivedAtRank(p) = {}
OwnersEmpty(p) ==
  LocalDone(p) => /\ ArrivedAtRank(p) = {} /\ stuck[p] = None
                  /\ \A t \in Thread : ProcOf(t) = p => flushBuffersByCore[t] = None
Emptied ==
  /\ \A t \in Thread : CoreEmpty(t)
  /\ \A p \in Proc : OutEmpty(p) /\ SentEmpty(p) /\ ArrivesComplete(p) /\ ArrivedSeen(p) /\ OwnersEmpty(p)

------------------------------------------------------------------------------
(* Types *)

LEMMA ThreadFacts ==
  /\ IsFiniteSet(Proc) /\ IsFiniteSet(Update) /\ IsFiniteSet(Thread) /\ Cores \in Nat \ {0}
  /\ RankBuffers \in Nat /\ KeepFree \in Nat \ {0} /\ KeepFree <= RankBuffers
  /\ \A t \in Thread : ProcOf(t) \in Proc
  /\ \A p \in Proc : Core0(p) \in Thread /\ ProcOf(Core0(p)) = p /\ Core0(p)[2] = 0
  /\ \A t \in Thread : t[2] = 0 => t = Core0(ProcOf(t))
  /\ \A t \in Thread, p \in Proc : t \in Others(p) <=> ProcOf(t) = p /\ t # Core0(p)
  /\ \A p \in Proc : \A t \in Others(p) : t \in Thread
<1>1. IsFiniteSet(0..(Cores - 1)) /\ 0 \in 0..(Cores - 1)
  <2>1. PICK n : n = Cores - 1
    OBVIOUS
  <2>2. n \in Int /\ 0 \in Int /\ 0 \in 0..n
    BY <2>1, FlushAssumption
  <2>3. IsFiniteSet(0..n)
    BY <2>2, FS_Interval
  <2> QED
    BY <2>1, <2>2, <2>3
<1>2. IsFiniteSet(Proc \X (0..(Cores - 1)))
  BY <1>1, FlushAssumption, FS_Product
<1>3. \A t \in Thread : ProcOf(t) \in Proc /\ (t[2] = 0 => t = Core0(ProcOf(t)))
  BY DEF Thread, ProcOf, Core0
<1>4. \A p \in Proc : Core0(p) \in Thread /\ ProcOf(Core0(p)) = p /\ Core0(p)[2] = 0
  BY <1>1 DEF Thread, ProcOf, Core0
<1>5. \A t \in Thread, p \in Proc : t \in Others(p) <=> ProcOf(t) = p /\ t # Core0(p)
  BY <1>3, <1>4 DEF Others, ProcOf
<1>6. \A p \in Proc : \A t \in Others(p) : t \in Thread
  BY DEF Others
<1> QED
  BY <1>2, <1>3, <1>4, <1>5, <1>6, FlushAssumption DEF Thread

LEMMA OthersCount == \A p \in Proc : IsFiniteSet(Others(p)) /\ Cardinality(Others(p)) = Cores - 1
<1> SUFFICES ASSUME NEW p \in Proc PROVE IsFiniteSet(Others(p)) /\ Cardinality(Others(p)) = Cores - 1
  OBVIOUS
<1>0. Cores \in Nat \ {0}
  BY ThreadFacts
<1>1. IsFiniteSet(1..(Cores - 1)) /\ Cardinality(1..(Cores - 1)) = Cores - 1
  BY <1>0, FS_Interval
<1>2. IsFiniteSet({p}) /\ Cardinality({p}) = 1
  BY FS_Singleton
<1>3. Others(p) = {p} \X (1..(Cores - 1))
  <2>1. \A i \in 0..(Cores - 1) : i # 0 <=> i \in 1..(Cores - 1)
    BY <1>0
  <2>2. \A i \in 1..(Cores - 1) : i \in 0..(Cores - 1)
    BY <1>0
  <2> QED
    BY <2>1, <2>2 DEF Others, Thread
<1>4. PICK A, B : A = {p} /\ B = 1..(Cores - 1)
  OBVIOUS
<1>5. IsFiniteSet(A \X B) /\ Cardinality(A \X B) = Cardinality(A) * Cardinality(B)
  BY <1>1, <1>2, <1>4, FS_Product
<1>6. Cardinality(A) * Cardinality(B) = Cores - 1
  BY <1>0, <1>1, <1>2, <1>4
<1> QED
  BY <1>3, <1>4, <1>5, <1>6

LEMMA UpdateParts ==
  /\ None \notin Update
  /\ \A u \in Update : u.from \in Thread /\ u.to \in Thread /\ u # None /\ ProcOf(u.from) \in Proc /\ RankOf(u) \in Proc
<1>1. ASSUME NEW t \in Thread PROVE t # <<>>
  <2>1. PICK p \in Proc, i \in 0..(Cores - 1) : t = <<p, i>>
    BY DEF Thread
  <2> QED
    BY <2>1
<1>2. \A u \in Update : u.from \in Thread /\ u.to \in Thread
  BY FlushAssumption
<1> QED
  BY <1>1, <1>2, ThreadFacts DEF None, RankOf

LEMMA MessageParts ==
  \A m \in Message : m.kind \in Kinds /\ m.from \in Thread /\ m.update \in Update \cup {None}
BY DEF Message

LEMMA AppendIndex ==
  ASSUME NEW S, NEW q \in Seq(S), NEW x \in S
  PROVE  /\ Append(q, x) \in Seq(S) /\ Len(q) \in Nat
         /\ DOMAIN q = 1..Len(q) /\ DOMAIN Append(q, x) = (DOMAIN q) \cup {Len(q) + 1} /\ Len(q) + 1 \notin DOMAIN q
         /\ Append(q, x)[Len(q) + 1] = x /\ \A i \in DOMAIN q : Append(q, x)[i] = q[i] /\ i < Len(q) + 1
         /\ ToSet(Append(q, x)) = ToSet(q) \cup {x}
<1>1. /\ DOMAIN q = 1..Len(q) /\ DOMAIN Append(q, x) = 1..(Len(q) + 1) /\ Len(q) \in Nat
      /\ Append(q, x)[Len(q) + 1] = x /\ \A i \in 1..Len(q) : Append(q, x)[i] = q[i]
  OBVIOUS
<1>2. DOMAIN Append(q, x) = (DOMAIN q) \cup {Len(q) + 1} /\ Len(q) + 1 \notin DOMAIN q
  BY <1>1
<1>3. \A i \in DOMAIN q : i < Len(q) + 1
  BY <1>1
<1>4. ToSet(Append(q, x)) = ToSet(q) \cup {x}
  <2>1. PICK n, r, D : n = Len(q) + 1 /\ r = Append(q, x) /\ D = DOMAIN q
    OBVIOUS
  <2>2. DOMAIN r = D \cup {n} /\ n \notin D /\ r[n] = x /\ \A i \in D : r[i] = q[i]
    BY <1>1, <1>2, <2>1
  <2>3. {r[i] : i \in D \cup {n}} = {q[i] : i \in D} \cup {x}
    BY <2>2
  <2> QED
    BY <2>1, <2>2, <2>3 DEF ToSet
<1>5. Append(q, x) \in Seq(S)
  OBVIOUS
<1> QED
  BY <1>1, <1>2, <1>3, <1>4, <1>5

LEMMA TailIndex ==
  ASSUME NEW S, NEW q \in Seq(S), q # <<>>
  PROVE  /\ Tail(q) \in Seq(S) /\ Head(q) \in S /\ Head(q) = q[1] /\ Len(q) \in Nat \ {0} /\ Len(Tail(q)) = Len(q) - 1
         /\ DOMAIN q = 1..Len(q) /\ 1 \in DOMAIN q
         /\ \A i \in DOMAIN Tail(q) : i + 1 \in DOMAIN q /\ Tail(q)[i] = q[i + 1] /\ i + 1 # 1 /\ i \in Nat
         /\ \A i \in DOMAIN q : i = 1 \/ \E j \in DOMAIN Tail(q) : i = j + 1
         /\ ToSet(q) = ToSet(Tail(q)) \cup {Head(q)}
<1>1. /\ DOMAIN q = 1..Len(q) /\ DOMAIN Tail(q) = 1..(Len(q) - 1) /\ Len(q) \in Nat \ {0} /\ Len(Tail(q)) = Len(q) - 1
      /\ Head(q) \in S /\ Tail(q) \in Seq(S) /\ Head(q) = q[1]
  OBVIOUS
<1>0. \A i \in DOMAIN Tail(q) : i + 1 \in DOMAIN q /\ Tail(q)[i] = q[i + 1] /\ i \in Nat /\ i + 1 # 1
  BY <1>1
<1>2. \A i \in DOMAIN q : i = 1 \/ \E j \in DOMAIN Tail(q) : i = j + 1
  <2>1. ASSUME NEW i \in 1..Len(q), i # 1 PROVE i - 1 \in 1..(Len(q) - 1) /\ i = (i - 1) + 1
    BY <1>1, <2>1
  <2> QED
    BY <1>1, <2>1
<1>3. 1 \in DOMAIN q
  BY <1>1
<1>5. ToSet(q) = ToSet(Tail(q)) \cup {Head(q)}
  <2>1. ASSUME NEW i \in DOMAIN q PROVE q[i] \in ToSet(Tail(q)) \cup {Head(q)}
    <3>1. CASE i = 1
      BY <1>1, <3>1
    <3>2. CASE \E j \in DOMAIN Tail(q) : i = j + 1
      BY <1>0, <3>2 DEF ToSet
    <3> QED
      BY <1>2, <3>1, <3>2
  <2>2. \A i \in DOMAIN Tail(q) : Tail(q)[i] \in ToSet(q)
    BY <1>0 DEF ToSet
  <2>3. Head(q) \in ToSet(q)
    BY <1>1, <1>3 DEF ToSet
  <2> QED
    BY <2>1, <2>2, <2>3 DEF ToSet
<1> QED
  BY <1>1, <1>0, <1>2, <1>3, <1>5

\* Sending a message to an MPI thread, and taking the next one
LEMMA Sends ==
  ASSUME Deep, NEW t \in Thread, NEW k \in Kinds, NEW u \in Update \cup {None}, Send(t, k, u)
  PROVE  LET p == ProcOf(t)
             m == [kind |-> k, from |-> t, update |-> u]
         IN  /\ m \in Message /\ m.kind = k /\ m.from = t /\ m.update = u
             /\ p \in Proc /\ queueMPInew[p] \in Seq(Message)
             /\ queueMPInew' \in [Proc -> Seq(Message)] /\ queueMPInew'[p] = Append(queueMPInew[p], m)
             /\ \A o \in Proc \ {p} : queueMPInew'[o] = queueMPInew[o]
<1>1. PICK m : m = [kind |-> k, from |-> t, update |-> u]
  OBVIOUS
<1>2. m \in Message /\ m.kind = k /\ m.from = t /\ m.update = u
  BY <1>1 DEF Message
<1>3. ProcOf(t) \in Proc /\ queueMPInew \in [Proc -> Seq(Message)] /\ queueMPInew[ProcOf(t)] \in Seq(Message)
  BY ThreadFacts DEF Deep
<1>4. queueMPInew' = [queueMPInew EXCEPT ![ProcOf(t)] = Append(queueMPInew[ProcOf(t)], m)]
  BY <1>1 DEF Send
<1>5. Append(queueMPInew[ProcOf(t)], m) \in Seq(Message)
  BY <1>2, <1>3, AppendIndex
<1> QED
  BY <1>1, <1>2, <1>3, <1>4, <1>5

LEMMA Takes ==
  ASSUME Deep, NEW p \in Proc, NEW k, Process(p, k)
  PROVE  LET m == Head(queueMPInew[p])
         IN  /\ m \in Message /\ m.kind = k /\ m.from \in Thread /\ m.update \in Update \cup {None}
             /\ queueMPInew[p] \in Seq(Message) /\ queueMPInew[p] # <<>> /\ m \in ToSet(queueMPInew[p])
             /\ queueMPInew' \in [Proc -> Seq(Message)] /\ queueMPInew'[p] = Tail(queueMPInew[p])
             /\ \A o \in Proc \ {p} : queueMPInew'[o] = queueMPInew[o]
             /\ Free(p) /\ ~finishing[p]
<1>1. queueMPInew \in [Proc -> Seq(Message)] /\ queueMPInew[p] \in Seq(Message)
  BY DEF Deep
<1>2. /\ queueMPInew[p] # <<>> /\ Head(queueMPInew[p]).kind = k /\ Free(p) /\ ~finishing[p]
      /\ queueMPInew' = [queueMPInew EXCEPT ![p] = Tail(queueMPInew[p])]
  BY DEF Process
<1>3. Tail(queueMPInew[p]) \in Seq(Message) /\ Head(queueMPInew[p]) \in Message
      /\ ToSet(queueMPInew[p]) = ToSet(Tail(queueMPInew[p])) \cup {Head(queueMPInew[p])}
  BY <1>1, <1>2, TailIndex
<1> QED
  BY <1>1, <1>2, <1>3, MessageParts

\* A sequence without its element i, put before one more, and without its last
LEMMA RemoveAtIs ==
  ASSUME NEW S, NEW q \in Seq(S), NEW i \in DOMAIN q, NEW r, r = RemoveAt(q, i)
  PROVE  /\ r \in Seq(S) /\ Len(r) = Len(q) - 1 /\ Len(q) \in Nat \ {0} /\ i \in 1..Len(q)
         /\ \A j \in DOMAIN r : j \in 1..(Len(q) - 1) /\ r[j] = IF j < i THEN q[j] ELSE q[j + 1]
         /\ DOMAIN r = 1..(Len(q) - 1) /\ DOMAIN q = 1..Len(q)
<1>1. Len(q) \in Nat \ {0} /\ i \in 1..Len(q) /\ i \in Int /\ DOMAIN q = 1..Len(q)
  OBVIOUS
<1>2. PICK a, b : a = SubSeq(q, 1, i - 1) /\ b = SubSeq(q, i + 1, Len(q))
  OBVIOUS
<1>3. \A j \in 1..(i - 1) : q[j] \in S
  BY <1>1
<1>4. \A j \in (i + 1)..Len(q) : q[j] \in S
  BY <1>1
<1>5. a \in Seq(S) /\ Len(a) = i - 1 /\ \A j \in 1..(i - 1) : a[j] = q[j]
  BY <1>1, <1>2, <1>3, SubSeqProperties
<1>6. b \in Seq(S) /\ Len(b) = Len(q) - i /\ \A j \in 1..(Len(q) - i) : b[j] = q[i + j]
  <2>1. /\ b \in Seq(S) /\ Len(b) = IF i + 1 <= Len(q) THEN Len(q) - (i + 1) + 1 ELSE 0
        /\ \A j \in 1..(Len(q) - (i + 1) + 1) : b[j] = q[(i + 1) + j - 1]
    BY <1>1, <1>2, <1>4, SubSeqProperties
  <2>2. \A j \in 1..(Len(q) - i) : j \in 1..(Len(q) - (i + 1) + 1) /\ (i + 1) + j - 1 = i + j
    BY <1>1
  <2> QED
    BY <1>1, <2>1, <2>2
<1>7. r = a \o b
  BY <1>2 DEF RemoveAt
<1>8. /\ r \in Seq(S) /\ Len(r) = Len(a) + Len(b)
      /\ \A j \in 1..(Len(a) + Len(b)) : r[j] = IF j <= Len(a) THEN a[j] ELSE b[j - Len(a)]
  <2>1. a \in Seq(S) /\ b \in Seq(S)
    BY <1>5, <1>6
  <2>2. r \in Seq(S)
    BY <1>7, <2>1, ConcatProperties
  <2>3. Len(r) = Len(a) + Len(b)
    BY <1>7, <2>1, ConcatProperties
  <2>4. \A j \in 1..(Len(a) + Len(b)) : (a \o b)[j] = IF j <= Len(a) THEN a[j] ELSE b[j - Len(a)]
    BY <2>1, ConcatProperties
  <2> QED
    BY <1>7, <2>2, <2>3, <2>4
<1>9. Len(r) = Len(q) - 1 /\ DOMAIN r = 1..(Len(q) - 1)
  BY <1>1, <1>5, <1>6, <1>8
<1>10. ASSUME NEW j \in 1..(Len(q) - 1) PROVE r[j] = IF j < i THEN q[j] ELSE q[j + 1]
  <2>1. r[j] = IF j <= i - 1 THEN a[j] ELSE b[j - (i - 1)]
    BY <1>1, <1>5, <1>6, <1>8
  <2>2. CASE j < i
    <3>1. j \in 1..(i - 1)
      BY <1>1, <2>2
    <3> QED
      BY <1>1, <1>5, <2>1, <2>2, <3>1
  <2>3. CASE ~(j < i)
    <3>1. j - (i - 1) \in 1..(Len(q) - i) /\ i + (j - (i - 1)) = j + 1 /\ ~(j <= i - 1)
      BY <1>1, <2>3
    <3>2. b[j - (i - 1)] = q[i + (j - (i - 1))]
      BY <1>6, <3>1
    <3> QED
      BY <2>1, <2>3, <3>1, <3>2
  <2> QED
    BY <2>2, <2>3
<1> QED
  BY <1>1, <1>8, <1>9, <1>10

LEMMA FrontIs ==
  ASSUME NEW S, NEW q \in Seq(S), Len(q) > 0, NEW r, r = Front(q)
  PROVE  /\ r \in Seq(S) /\ Len(r) = Len(q) - 1 /\ Len(q) \in Nat /\ Last(q) = q[Len(q)] /\ Last(q) \in S
         /\ DOMAIN r = 1..(Len(q) - 1) /\ DOMAIN q = 1..Len(q) /\ \A j \in DOMAIN r : r[j] = q[j]
<1>1. Len(q) \in Nat /\ DOMAIN q = 1..Len(q) /\ Len(q) \in DOMAIN q
  OBVIOUS
<1>2. \A j \in 1..(Len(q) - 1) : q[j] \in S
  BY <1>1
<1>3. r \in Seq(S) /\ Len(r) = Len(q) - 1 /\ \A j \in 1..(Len(q) - 1) : r[j] = q[j]
  BY <1>1, <1>2, SubSeqProperties DEF Front
<1> QED
  BY <1>1, <1>3 DEF Last

LEMMA PushIs ==
  ASSUME NEW S, NEW q \in Seq(S), NEW x \in S, NEW r, r = <<x>> \o q
  PROVE  /\ r \in Seq(S) /\ Len(r) = Len(q) + 1 /\ Len(q) \in Nat
         /\ DOMAIN r = 1..(Len(q) + 1) /\ DOMAIN q = 1..Len(q)
         /\ r[1] = x /\ \A j \in DOMAIN q : r[j + 1] = q[j]
<1>1. <<x>> \in Seq(S) /\ Len(<<x>>) = 1 /\ <<x>>[1] = x /\ Len(q) \in Nat /\ DOMAIN q = 1..Len(q)
  OBVIOUS
<1>2. PICK s : s = <<x>>
  OBVIOUS
<1>3. s \in Seq(S) /\ Len(s) = 1 /\ s[1] = x
  BY <1>1, <1>2
<1>4. /\ r \in Seq(S) /\ Len(r) = Len(s) + Len(q)
      /\ \A j \in 1..(Len(s) + Len(q)) : r[j] = IF j <= Len(s) THEN s[j] ELSE q[j - Len(s)]
  BY <1>2, <1>3, ConcatProperties
<1>5. \A j \in 1..Len(q) : j + 1 \in 1..(1 + Len(q)) /\ ~(j + 1 <= 1) /\ (j + 1) - 1 = j
  BY <1>1
<1>6. 1 \in 1..(1 + Len(q))
  BY <1>1
<1> QED
  BY <1>1, <1>3, <1>4, <1>5, <1>6

\* The buffers that are left in the list, and the one that is sent
LEMMA ElsewhereIs ==
  ASSUME NEW busy \in Seq(Update), NEW q
  PROVE  /\ Elsewhere(busy, q) \in Seq(Update) /\ Len(Elsewhere(busy, q)) \in Nat
         /\ Towards(busy, q) \in SUBSET Update
<1>1. CASE {i \in DOMAIN busy : RankOf(busy[i]) = q} = {}
  BY <1>1 DEF Elsewhere, Towards, ToSet
<1>2. CASE {i \in DOMAIN busy : RankOf(busy[i]) = q} # {}
  <2>1. PICK i \in DOMAIN busy : Elsewhere(busy, q) = RemoveAt(busy, i)
    BY <1>2 DEF Elsewhere
  <2>2. PICK r : r = RemoveAt(busy, i)
    OBVIOUS
  <2>3. r \in Seq(Update) /\ Len(r) \in Nat
    BY <2>2, RemoveAtIs
  <2> QED
    BY <2>1, <2>2, <2>3 DEF ToSet, Towards
<1> QED
  BY <1>1, <1>2

\* When few buffers are left there is one to send.
LEMMA EvictIs ==
  ASSUME NEW others \in Seq(Update), RankBuffers - Len(others) < KeepFree
  PROVE  Len(others) > 0 /\ Front(others) \in Seq(Update) /\ Last(others) \in Update
<1>1. Len(others) \in Nat /\ RankBuffers \in Nat /\ KeepFree \in Nat /\ KeepFree <= RankBuffers
  BY ThreadFacts
<1>2. Len(others) > 0
  BY <1>1
<1>3. PICK r : r = Front(others)
  OBVIOUS
<1> QED
  BY <1>2, <1>3, FrontIs

LEMMA FlatStep == Flat /\ Deep /\ Located /\ [Next]_vars => Flat'
<1> SUFFICES ASSUME Flat, Deep, Located, [Next]_vars PROVE Flat'
  OBVIOUS
<1> USE DEF Flat
<1>1. ASSUME NEW t \in Thread, FlushElement(t) PROVE Flat'
  <2>1. PICK u \in dirty[t] : /\ coreFlushBuffer' = [coreFlushBuffer EXCEPT ![t] = u]
                              /\ dirty' = [dirty EXCEPT ![t] = dirty[t] \ {u}]
    BY <1>1 DEF FlushElement
  <2>2. u \in Update /\ dirty[t] \ {u} \in SUBSET Update
    OBVIOUS
  <2>3. coreFlushBuffer' \in [Thread -> Update \cup {None}] /\ dirty' \in [Thread -> SUBSET Update]
    BY <2>1, <2>2
  <2> QED
    BY <1>1, <2>3 DEF FlushElement, queueVars, rankVars, mpiVars, localVars
<1>2. ASSUME NEW t \in Thread, FlushCoreBuffer(t) PROVE Flat'
  BY <1>2 DEF FlushCoreBuffer, Goto, rankVars, mpiVars, localVars
<1>3. ASSUME NEW t \in Thread, TakeSpare(t) PROVE Flat'
  BY <1>3 DEF TakeSpare, Goto, queueVars, rankVars, mpiVars, localVars
<1>4. ASSUME NEW S \in SUBSET Thread, BarrierMessage(S) PROVE threadBarrierQueue' \in [Thread -> Int]
  BY <1>4 DEF BarrierMessage
<1>5. ASSUME NEW t \in Thread, Cleared(t) PROVE Flat'
  <2>1. threadBarrierQueue' \in [Thread -> Int]
    BY <1>4, <1>5, ThreadFacts DEF Cleared
  <2> QED
    BY <1>5, <2>1 DEF Cleared, Goto, rankVars, mpiVars, localVars
<1>6. ASSUME NEW t \in Thread, CollectThenMPI(t) PROVE Flat'
  BY <1>6 DEF CollectThenMPI, Goto, rankVars, mpiVars, localVars
<1>7. ASSUME NEW t \in Thread, round[t] <= 3, Passed(t)
      PROVE  /\ pc' \in [Thread -> {"clear", "spare", "arrive", "wait", "answer", "done"}]
             /\ round' \in [Thread -> 1..4]
  <2>1. round' = [round EXCEPT ![t] = round[t] + 1] /\ round[t] + 1 \in 1..4
    BY <1>7 DEF Passed
  <2> QED
    BY <1>7, <2>1 DEF Passed, Goto
<1>8. ASSUME NEW t \in Thread, Release(t) PROVE Flat'
  <2>0. round[t] <= 3
    BY <1>8 DEF Release, Located
  <2>1. threadBarrierQueue' \in [Thread -> Int]
    <3>1. Others(ProcOf(t)) \in SUBSET Thread
      BY DEF Others
    <3> QED
      BY <1>4, <1>8, <3>1 DEF Release
  <2>2. answered' \in [Thread -> BOOLEAN]
    BY <1>8 DEF Release
  <2> QED
    BY <1>7, <1>8, <2>0, <2>1, <2>2 DEF Release, rankVars, mpiVars, localVars
<1>9. ASSUME NEW t \in Thread, LeaveBarrier(t) PROVE Flat'
  <2>0. round[t] <= 3
    BY <1>9 DEF LeaveBarrier, Located
  <2>1. threadBarrierQueue' \in [Thread -> Int]
    BY <1>9, ThreadFacts DEF LeaveBarrier
  <2> QED
    BY <1>7, <1>9, <2>0, <2>1 DEF LeaveBarrier, rankVars, mpiVars, localVars
<1>10. ASSUME NEW t \in Thread, Answered(t) PROVE Flat'
  <2>1. answered' \in [Thread -> BOOLEAN] /\ open' \in SUBSET Thread
    BY <1>10 DEF Answered
  <2> QED
    BY <1>10, <2>1 DEF Answered, Goto, rankVars, mpiVars, localVars
<1>11. ASSUME NEW t \in Thread, Combine(t) PROVE Flat'
  <2>1. ProcOf(t) \in Proc /\ Head(wqCacheFlush[t]) \in Update
    BY <1>11, ThreadFacts, TailIndex DEF Deep, Combine
  <2>2. localFlushBuffers' \in [Proc -> Nat]
    BY <1>11, <2>1 DEF Combine
  <2>3. combined' \in SUBSET Update
    BY <1>11, <2>1 DEF Combine
  <2> QED
    BY <1>11, <2>2, <2>3 DEF Combine, threadVars, queueVars, rankVars, mpiVars
<1>12. ASSUME NEW p \in Proc, MessageFlushFromCore(p) PROVE Flat'
  <2> DEFINE u == Head(queueMPInew[p]).update
             others == Elsewhere(flushHeadBusy[p], RankOf(u))
  <2>1. u \in Update \cup {None}
    BY <1>12, Takes DEF MessageFlushFromCore
  <2>2. held' \in [Proc -> Update \cup {None}]
    BY <1>12, <2>1 DEF MessageFlushFromCore
  <2>3. others \in Seq(Update) /\ Towards(flushHeadBusy[p], RankOf(u)) \in SUBSET Update
    BY ElsewhereIs DEF Deep
  <2>4. RankBuffers - Len(others) < KeepFree => Last(others) \in Update
    BY <2>3, EvictIs
  <2>5. net' \in SUBSET Update
    BY <1>12, <2>3, <2>4 DEF MessageFlushFromCore
  <2> QED
    BY <1>12, <2>2, <2>5 DEF MessageFlushFromCore, threadVars, localVars
<1>13. ASSUME NEW p \in Proc, BufferForRank(p) PROVE Flat'
  <2>1. held[p] \in Update /\ held[p].from \in Thread /\ flushHeadFree[p] - 1 \in Nat
    <3>1. held[p] \in Update \cup {None} /\ held[p] # None /\ flushHeadFree[p] \in Nat /\ flushHeadFree[p] > 0
      BY <1>13 DEF BufferForRank
    <3>2. flushHeadFree[p] - 1 \in Nat
      BY <3>1
    <3> QED
      BY <3>1, <3>2, UpdateParts
  <2>2. /\ flushHeadFree' \in [Proc -> Nat] /\ held' \in [Proc -> Update \cup {None}] /\ spare' \in [Thread -> Int]
    BY <1>13, <2>1 DEF BufferForRank
  <2> QED
    BY <1>13, <2>2 DEF BufferForRank, threadVars, queueVars, mpiVars, localVars
<1>14. ASSUME NEW p \in Proc, MessageCacheFlushOut(p) PROVE Flat'
  <2>1. ToSet(flushHeadBusy[p]) \in SUBSET Update
    BY DEF Deep, ToSet
  <2> QED
    BY <1>14, <2>1 DEF MessageCacheFlushOut, threadVars, localVars
<1>15. ASSUME NEW p \in Proc, FlushOutDone(p) PROVE Flat'
  BY <1>15, ThreadFacts DEF FlushOutDone, Answer, threadVars, mpiVars, localVars
<1>16. ASSUME NEW p \in Proc, MessageBarrierMPI(p) PROVE Flat'
  BY <1>16 DEF MessageBarrierMPI, threadVars, rankVars, localVars
<1>17. ASSUME NEW p \in Proc, MessageCacheFlushLocal(p) PROVE Flat'
  <2>1. flushBuffersByCore' \in [Thread -> Update \cup {None}]
    BY <1>17 DEF MessageCacheFlushLocal
  <2> QED
    BY <1>17, <2>1, ThreadFacts DEF MessageCacheFlushLocal, Answer, threadVars, rankVars, mpiVars
<1>18. ASSUME NEW p \in Proc, MessageCacheClose(p) PROVE Flat'
  <2>1. Head(queueMPInew[p]).from \in Thread
    BY <1>18, Takes DEF MessageCacheClose
  <2> QED
    BY <1>18, <2>1 DEF MessageCacheClose, Answer, threadVars, rankVars, mpiVars, localVars
<1>19. ASSUME NEW u \in Update, Match(u) PROVE Flat'
  BY <1>19, UpdateParts DEF Match, threadVars, queueVars, rankVars, localVars
<1>20. ASSUME NEW p \in Proc, FinishReceive(p) PROVE Flat'
  <2>1. PICK u \in Update : /\ arrived' = arrived \ {u} /\ stuck' = [stuck EXCEPT ![p] = u]
                            /\ flushBuffersByCore' = [flushBuffersByCore EXCEPT ![u.to] = None]
    BY <1>20 DEF FinishReceive
  <2> QED
    BY <1>20, <2>1 DEF FinishReceive, Finish, threadVars, queueVars, rankVars
<1>21. ASSUME NEW p \in Proc, BufferForCore(p) PROVE Flat'
  <2>1. stuck[p] \in Update /\ localFlushBuffers[p] - 1 \in Nat
    BY <1>21 DEF BufferForCore
  <2> QED
    BY <1>21, <2>1 DEF BufferForCore, threadVars, queueVars, rankVars, mpiVars
<1>22. ASSUME NEW p \in Proc, FinishFlushToRank(p) PROVE Flat'
  <2>1. completed[p] - 1 \in Nat /\ flushHeadFree[p] + 1 \in Nat
    BY <1>22 DEF FinishFlushToRank
  <2> QED
    BY <1>22, <2>1 DEF FinishFlushToRank, Finish, threadVars, queueVars, localVars
<1>23. ASSUME NEW p \in Proc, FinishBarrier(p) PROVE Flat'
  BY <1>23, ThreadFacts DEF FinishBarrier, Finish, Answer, threadVars, rankVars, localVars
<1>24. ASSUME NEW p \in Proc, LeaveFinish(p) PROVE Flat'
  BY <1>24 DEF LeaveFinish, threadVars, queueVars, rankVars, mpiVars, localVars
<1>25. CASE UNCHANGED vars
  BY <1>25 DEF vars, threadVars, queueVars, rankVars, mpiVars, localVars
<1> QED
  BY <1>1, <1>2, <1>3, <1>5, <1>6, <1>8, <1>9, <1>10, <1>11, <1>12, <1>13, <1>14, <1>15, <1>16, <1>17, <1>18,
     <1>19, <1>20, <1>21, <1>22, <1>23, <1>24, <1>25 DEF Next, Core, MPIThread

\* The steps that send a message, and those that take one
LEMMA PassedSends ==
  ASSUME Deep, NEW t \in Thread, Passed(t)
  PROVE  \/ queueMPInew' = queueMPInew
         \/ \E k \in Kinds \ {"flushFromCore"} : Send(t, k, None)
BY DEF Passed, Kinds

LEMMA DeepStep == Flat /\ Deep /\ [Next]_vars => Deep'
<1> SUFFICES ASSUME Flat, Deep, [Next]_vars PROVE Deep'
  OBVIOUS
<1>0. /\ queueMPInew \in [Proc -> Seq(Message)]
      /\ flushHeadBusy \in [Proc -> Seq(Update)] /\ wqCacheFlush \in [Thread -> Seq(Update)]
  BY DEF Deep
<1>a. ASSUME NEW t \in Thread, NEW k \in Kinds, NEW u \in Update \cup {None}, Send(t, k, u)
      PROVE  queueMPInew' \in [Proc -> Seq(Message)]
  BY <1>a, Sends
<1>b. ASSUME NEW p \in Proc, NEW k, Process(p, k) PROVE queueMPInew' \in [Proc -> Seq(Message)]
  BY <1>b, Takes
<1>c. ASSUME NEW t \in Thread, Passed(t) PROVE queueMPInew' \in [Proc -> Seq(Message)]
  BY <1>0, <1>a, <1>c, PassedSends
<1>1. ASSUME NEW t \in Thread, FlushElement(t) \/ TakeSpare(t) \/ Cleared(t) \/ Answered(t) PROVE Deep'
  BY <1>0, <1>1 DEF Deep, FlushElement, TakeSpare, Cleared, Answered, queueVars, rankVars, localVars
<1>2. ASSUME NEW t \in Thread, FlushCoreBuffer(t) PROVE Deep'
  <2>1. Send(t, "flushFromCore", coreFlushBuffer[t]) /\ coreFlushBuffer[t] \in Update \cup {None}
    BY <1>2 DEF FlushCoreBuffer, Flat
  <2>2. queueMPInew' \in [Proc -> Seq(Message)]
    BY <1>a, <2>1 DEF Kinds
  <2> QED
    BY <1>0, <1>2, <2>2 DEF Deep, FlushCoreBuffer, rankVars, localVars
<1>3. ASSUME NEW t \in Thread, CollectThenMPI(t) PROVE Deep'
  <2>1. queueMPInew' \in [Proc -> Seq(Message)]
    BY <1>3, <1>a DEF CollectThenMPI, Kinds
  <2> QED
    BY <1>0, <1>3, <2>1 DEF Deep, CollectThenMPI, rankVars, localVars
<1>4. ASSUME NEW t \in Thread, Release(t) \/ LeaveBarrier(t) PROVE Deep'
  <2>1. queueMPInew' \in [Proc -> Seq(Message)]
    BY <1>4, <1>c DEF Release, LeaveBarrier
  <2> QED
    BY <1>0, <1>4, <2>1 DEF Deep, Release, LeaveBarrier, rankVars, localVars
<1>5. ASSUME NEW t \in Thread, Combine(t) PROVE Deep'
  <2>1. Tail(wqCacheFlush[t]) \in Seq(Update)
    BY <1>0, <1>5, TailIndex DEF Combine
  <2>2. wqCacheFlush' = [wqCacheFlush EXCEPT ![t] = Tail(wqCacheFlush[t])]
    BY <1>5 DEF Combine
  <2>3. wqCacheFlush' \in [Thread -> Seq(Update)]
    BY <1>0, <2>1, <2>2
  <2> QED
    BY <1>0, <1>5, <2>3 DEF Deep, Combine, queueVars, rankVars
<1>6. ASSUME NEW p \in Proc, MessageFlushFromCore(p) PROVE Deep'
  <2> DEFINE u == Head(queueMPInew[p]).update
             others == Elsewhere(flushHeadBusy[p], RankOf(u))
  <2>1. others \in Seq(Update)
    BY <1>0, ElsewhereIs
  <2>2. RankBuffers - Len(others) < KeepFree => Front(others) \in Seq(Update)
    BY <2>1, EvictIs
  <2>3. PICK r \in Seq(Update) : flushHeadBusy' = [flushHeadBusy EXCEPT ![p] = r]
    BY <1>6, <2>1, <2>2 DEF MessageFlushFromCore
  <2>4. flushHeadBusy' \in [Proc -> Seq(Update)]
    BY <1>0, <2>3
  <2>5. queueMPInew' \in [Proc -> Seq(Message)]
    BY <1>6, <1>b DEF MessageFlushFromCore
  <2> QED
    BY <1>0, <1>6, <2>4, <2>5 DEF Deep, MessageFlushFromCore, localVars
<1>7. ASSUME NEW p \in Proc, BufferForRank(p) PROVE Deep'
  <2>1. held[p] \in Update
    BY <1>7 DEF BufferForRank, Flat
  <2>2. PICK r : r = <<held[p]>> \o flushHeadBusy[p]
    OBVIOUS
  <2>3. r \in Seq(Update)
    BY <1>0, <2>1, <2>2, PushIs
  <2>4. flushHeadBusy' = [flushHeadBusy EXCEPT ![p] = r]
    BY <1>7, <2>2 DEF BufferForRank
  <2>5. flushHeadBusy' \in [Proc -> Seq(Update)]
    BY <1>0, <2>3, <2>4
  <2> QED
    BY <1>0, <1>7, <2>5 DEF Deep, BufferForRank, queueVars, localVars
<1>8. ASSUME NEW p \in Proc, MessageCacheFlushOut(p) PROVE Deep'
  <2>1. queueMPInew' \in [Proc -> Seq(Message)]
    BY <1>8, <1>b DEF MessageCacheFlushOut
  <2>2. flushHeadBusy' = [flushHeadBusy EXCEPT ![p] = <<>>] /\ <<>> \in Seq(Update)
    BY <1>8 DEF MessageCacheFlushOut
  <2>3. flushHeadBusy' \in [Proc -> Seq(Update)]
    BY <1>0, <2>2
  <2> QED
    BY <1>0, <1>8, <2>1, <2>3 DEF Deep, MessageCacheFlushOut, localVars
<1>9. ASSUME NEW p \in Proc, MessageBarrierMPI(p) \/ MessageCacheClose(p) PROVE Deep'
  <2>1. queueMPInew' \in [Proc -> Seq(Message)]
    BY <1>9, <1>b DEF MessageBarrierMPI, MessageCacheClose
  <2> QED
    BY <1>0, <1>9, <2>1 DEF Deep, MessageBarrierMPI, MessageCacheClose, rankVars, localVars
<1>10. ASSUME NEW p \in Proc, MessageCacheFlushLocal(p) PROVE Deep'
  <2>1. queueMPInew' \in [Proc -> Seq(Message)]
    BY <1>10, <1>b DEF MessageCacheFlushLocal
  <2>2. ASSUME NEW t \in Thread, flushBuffersByCore[t] # None PROVE Append(wqCacheFlush[t], flushBuffersByCore[t]) \in Seq(Update)
    BY <1>0, <2>2, AppendIndex DEF Flat
  <2>3. ASSUME NEW t \in Thread
        PROVE  (IF ProcOf(t) = p /\ flushBuffersByCore[t] # None
                THEN Append(wqCacheFlush[t], flushBuffersByCore[t]) ELSE wqCacheFlush[t]) \in Seq(Update)
    BY <1>0, <2>2
  <2>4. wqCacheFlush' \in [Thread -> Seq(Update)]
    BY <1>10, <2>3 DEF MessageCacheFlushLocal
  <2> QED
    BY <1>0, <1>10, <2>1, <2>4 DEF Deep, MessageCacheFlushLocal, rankVars
<1>11. ASSUME NEW p \in Proc, FinishReceive(p) PROVE Deep'
  <2>1. PICK u \in Update : wqCacheFlush' \in {wqCacheFlush, [wqCacheFlush EXCEPT ![u.to] = Append(wqCacheFlush[u.to], flushBuffersByCore[u.to])]}
                            /\ (wqCacheFlush' # wqCacheFlush => flushBuffersByCore[u.to] # None)
    BY <1>11 DEF FinishReceive, Flat
  <2>2. u.to \in Thread
    BY UpdateParts
  <2>3. PICK q : q = Append(wqCacheFlush[u.to], flushBuffersByCore[u.to])
    OBVIOUS
  <2>4. flushBuffersByCore[u.to] # None => q \in Seq(Update)
    BY <1>0, <2>2, <2>3, AppendIndex DEF Flat
  <2>5. wqCacheFlush' \in [Thread -> Seq(Update)]
    BY <1>0, <2>1, <2>2, <2>3, <2>4
  <2> QED
    BY <1>0, <1>11, <2>5 DEF Deep, FinishReceive, queueVars, rankVars
<1>12. ASSUME NEW p \in Proc, FlushOutDone(p) \/ BufferForCore(p) \/ FinishFlushToRank(p) \/ FinishBarrier(p) \/ LeaveFinish(p)
       PROVE  Deep'
  BY <1>0, <1>12 DEF Deep, FlushOutDone, BufferForCore, FinishFlushToRank, FinishBarrier, LeaveFinish, queueVars, rankVars,
                     localVars
<1>13. ASSUME NEW u \in Update, Match(u) PROVE Deep'
  BY <1>0, <1>13 DEF Deep, Match, queueVars, rankVars, localVars
<1>14. CASE UNCHANGED vars
  BY <1>0, <1>14 DEF Deep, vars, queueVars, rankVars, localVars
<1> QED
  BY <1>1, <1>2, <1>3, <1>4, <1>5, <1>6, <1>7, <1>8, <1>9, <1>10, <1>11, <1>12, <1>13, <1>14 DEF Next, Core, MPIThread

------------------------------------------------------------------------------
(* Where the threads are *)

\* Only the cores themselves move.
LEMMA WhoMoves ==
  ASSUME [Next]_vars
  PROVE  (\E t \in Thread : Core(t)) \/ UNCHANGED <<pc, round, threadBarrierQueue>>
<1>1. ASSUME NEW t \in Thread, Combine(t) PROVE UNCHANGED <<pc, round, threadBarrierQueue>>
  BY <1>1 DEF Combine, threadVars, queueVars
<1>2. ASSUME NEW p \in Proc, MPIThread(p) PROVE UNCHANGED <<pc, round, threadBarrierQueue>>
  BY <1>2 DEF MPIThread, MessageFlushFromCore, BufferForRank, MessageCacheFlushOut, FlushOutDone, MessageBarrierMPI,
    MessageCacheFlushLocal, MessageCacheClose, FinishReceive, BufferForCore, FinishFlushToRank, FinishBarrier, LeaveFinish,
    threadVars, queueVars
<1>3. ASSUME NEW u \in Update, Match(u) PROVE UNCHANGED <<pc, round, threadBarrierQueue>>
  BY <1>3 DEF Match, threadVars, queueVars
<1>4. CASE UNCHANGED vars
  BY <1>4 DEF vars, threadVars, queueVars
<1> QED
  BY <1>1, <1>2, <1>3, <1>4 DEF Next

\* Passing a barrier
LEMMA PassedMoves ==
  ASSUME Flat, NEW t \in Thread, round[t] <= 3, Passed(t)
  PROVE  /\ round' = [round EXCEPT ![t] = round[t] + 1] /\ round'[t] = round[t] + 1 /\ round'[t] \in Int
         /\ \A s \in Thread \ {t} : round'[s] = round[s] /\ pc'[s] = pc[s]
         /\ pc'[t] = IF round[t] = 3 \/ t[2] = 0 THEN "answer" ELSE "arrive"
         /\ round[t] = 3 => Send(t, "close", None)
         /\ round[t] # 3 /\ t[2] = 0 => Send(t, IF round[t] = 1 THEN "flushOut" ELSE "flushLocal", None)
         /\ round[t] # 3 /\ t[2] # 0 => UNCHANGED queueMPInew
BY DEF Passed, Goto, Flat

LEMMA LocatedStep == Flat /\ Located /\ [Next]_vars => Located'
<1> SUFFICES ASSUME Flat, Located, [Next]_vars PROVE Located'
  OBVIOUS
<1>0. /\ pc \in [Thread -> {"clear", "spare", "arrive", "wait", "answer", "done"}] /\ round \in [Thread -> 1..4]
      /\ \A t \in Thread : round[t] \in Int /\ 1 <= round[t] /\ round[t] <= 4
  BY DEF Flat
<1>1. ASSUME NEW t \in Thread, FlushElement(t) \/ FlushCoreBuffer(t) \/ TakeSpare(t) PROVE Located'
  <2>1. /\ pc[t] \in {"clear", "spare"} /\ round' = round
        /\ pc' = pc \/ pc' = [pc EXCEPT ![t] = "spare"] \/ pc' = [pc EXCEPT ![t] = "clear"]
    BY <1>1 DEF FlushElement, FlushCoreBuffer, TakeSpare, Goto
  <2> QED
    BY <1>0, <2>1 DEF Located
<1>2. ASSUME NEW t \in Thread, Cleared(t) PROVE Located'
  <2>1. pc[t] = "clear" /\ round' = round /\ pc' = [pc EXCEPT ![t] = "arrive"]
    BY <1>2 DEF Cleared, Goto
  <2> QED
    BY <1>0, <2>1 DEF Located
<1>3. ASSUME NEW t \in Thread, CollectThenMPI(t) PROVE Located'
  <2>1. pc' = [pc EXCEPT ![t] = "wait"] /\ round' = round /\ t[2] = 0 /\ round[t] = 2 /\ Cardinality(Proc) > 1
    BY <1>3 DEF CollectThenMPI, Goto, IsGlobal
  <2> QED
    BY <1>0, <2>1 DEF Located
<1>4. ASSUME NEW t \in Thread, Release(t) \/ LeaveBarrier(t) PROVE Located'
  <2>1. round[t] <= 3 /\ Passed(t)
    BY <1>4 DEF Release, LeaveBarrier, Located
  <2>2. /\ round'[t] = round[t] + 1 /\ \A s \in Thread \ {t} : round'[s] = round[s] /\ pc'[s] = pc[s]
        /\ pc'[t] = IF round[t] = 3 \/ t[2] = 0 THEN "answer" ELSE "arrive"
    BY <2>1, PassedMoves
  <2> QED
    BY <1>0, <2>1, <2>2 DEF Located
<1>5. ASSUME NEW t \in Thread, Answered(t) PROVE Located'
  <2>1. pc' = [pc EXCEPT ![t] = IF round[t] <= 3 THEN "arrive" ELSE "done"] /\ round' = round
    BY <1>5 DEF Answered, Goto
  <2> QED
    BY <1>0, <2>1 DEF Located
<1>6. CASE UNCHANGED <<pc, round, threadBarrierQueue>>
  BY <1>6 DEF Located
<1> QED
  BY <1>1, <1>2, <1>3, <1>4, <1>5, <1>6, WhoMoves DEF Core

\* The threads of the other processes
LEMMA GatheredSame ==
  ASSUME Flat, NEW p \in Proc, Gathered(p), round'[Core0(p)] = round[Core0(p)],
         threadBarrierQueue'[Core0(p)] = threadBarrierQueue[Core0(p)],
         pc'[Core0(p)] = "wait" <=> pc[Core0(p)] = "wait",
         \A s \in Others(p) : /\ round'[s] = round[s] /\ threadBarrierQueue'[s] = threadBarrierQueue[s]
                              /\ pc'[s] = "arrive" <=> pc[s] = "arrive"
  PROVE  Gathered(p)'
<1>1. Here(p)' = Here(p)
  BY DEF Here, Others
<1>2. Others(p)' = Others(p)
  BY DEF Others
<1> QED
  BY <1>1, <1>2 DEF Gathered

\* A core that is not core 0 is the one more that has arrived.
LEMMA OneMoreHere ==
  ASSUME NEW p \in Proc, NEW t \in Others(p), t \notin Here(p)
  PROVE  /\ Cardinality(Here(p) \cup {t}) = Cardinality(Here(p)) + 1 /\ Here(p) # Others(p)
         /\ Cardinality(Here(p)) \in Nat
<1>1. IsFiniteSet(Here(p))
  BY OthersCount, FS_Subset DEF Here
<1> QED
  BY <1>1, FS_AddElement, FS_CardinalityType

\* Core 0 has collected all messages when all have arrived.
LEMMA AllHere ==
  ASSUME NEW p \in Proc, Gathered(p), pc[Core0(p)] # "wait", threadBarrierQueue[Core0(p)] = Cores - 1
  PROVE  Here(p) = Others(p)
<1>1. Here(p) \subseteq Others(p) /\ Cardinality(Here(p)) = Cores - 1
  BY DEF Here, Gathered
<1> QED
  BY <1>1, OthersCount, FS_Subset

LEMMA AtBarrierStep == Flat /\ Located /\ AtBarrier /\ [Next]_vars => AtBarrier'
<1> SUFFICES ASSUME Flat, Located, AtBarrier, [Next]_vars PROVE AtBarrier'
  OBVIOUS
<1>0. /\ pc \in [Thread -> {"clear", "spare", "arrive", "wait", "answer", "done"}] /\ round \in [Thread -> 1..4]
      /\ threadBarrierQueue \in [Thread -> Int]
      /\ \A t \in Thread : round[t] \in Int /\ 1 <= round[t] /\ round[t] <= 4 /\ threadBarrierQueue[t] \in Int
  BY DEF Flat
<1>x. ASSUME NEW t \in Thread,
             \A s \in Thread : ProcOf(s) # ProcOf(t) => /\ pc'[s] = pc[s] /\ round'[s] = round[s]
                                                        /\ threadBarrierQueue'[s] = threadBarrierQueue[s],
             Gathered(ProcOf(t))'
      PROVE  AtBarrier'
  <2>1. ASSUME NEW p \in Proc, p # ProcOf(t) PROVE Gathered(p)'
    <3>1. ProcOf(Core0(p)) = p /\ Core0(p) \in Thread /\ \A s \in Others(p) : s \in Thread /\ ProcOf(s) = p
      BY ThreadFacts
    <3> QED
      BY <1>x, <2>1, <3>1, GatheredSame DEF AtBarrier
  <2> QED
    BY <1>x, <2>1 DEF AtBarrier
<1>1. ASSUME NEW t \in Thread, FlushElement(t) \/ FlushCoreBuffer(t) \/ TakeSpare(t) \/ Answered(t) PROVE AtBarrier'
  <2>1. /\ round' = round /\ threadBarrierQueue' = threadBarrierQueue
        /\ \/ pc' = pc
           \/ \E l \in {"spare", "clear", "arrive", "done"} : pc' = [pc EXCEPT ![t] = l] /\ (l = "arrive" => t[2] = 0)
        /\ pc[t] \notin {"wait", "arrive"}
    <3>1. CASE Answered(t)
      <4>1. round[t] <= 3 => t[2] = 0
        BY <1>0, <3>1 DEF Answered, Located
      <4> QED
        BY <3>1, <4>1 DEF Answered, Goto
    <3> QED
      BY <1>1, <3>1 DEF FlushElement, FlushCoreBuffer, TakeSpare, Goto, queueVars
  <2>2. \A s \in Thread : /\ pc'[s] = "wait" <=> pc[s] = "wait"
                          /\ s[2] # 0 => (pc'[s] = "arrive" <=> pc[s] = "arrive")
    <3>1. CASE pc' = pc
      BY <3>1
    <3>2. CASE \E l \in {"spare", "clear", "arrive", "done"} : pc' = [pc EXCEPT ![t] = l] /\ (l = "arrive" => t[2] = 0)
      <4>1. PICK l \in {"spare", "clear", "arrive", "done"} : pc' = [pc EXCEPT ![t] = l] /\ (l = "arrive" => t[2] = 0)
        BY <3>2
      <4>2. pc'[t] = l /\ \A s \in Thread : s # t => pc'[s] = pc[s]
        BY <1>0, <4>1
      <4> QED
        BY <2>1, <4>1, <4>2
    <3> QED
      BY <2>1, <3>1, <3>2
  <2>3. ASSUME NEW p \in Proc PROVE Gathered(p)'
    <3>1. Core0(p) \in Thread /\ \A s \in Others(p) : s \in Thread /\ s[2] # 0
      BY ThreadFacts DEF Others
    <3> QED
      BY <2>1, <2>2, <3>1, GatheredSame DEF AtBarrier
  <2> QED
    BY <2>3 DEF AtBarrier
<1>2. ASSUME NEW t \in Thread, Cleared(t) PROVE AtBarrier'
  <2> DEFINE p == ProcOf(t)
  <2>0. p \in Proc /\ Gathered(p) /\ Core0(p) \in Thread
    BY ThreadFacts DEF AtBarrier
  <2>1. pc[t] = "clear" /\ round' = round /\ pc' = [pc EXCEPT ![t] = "arrive"]
    BY <1>2 DEF Cleared, Goto
  <2>2. CASE t[2] = 0
    <3>1. threadBarrierQueue' = threadBarrierQueue /\ t = Core0(p)
      BY <1>2, <2>2, ThreadFacts DEF Cleared
    <3>2. \A s \in Others(p) : s \in Thread /\ s # t
      BY <3>1, ThreadFacts
    <3>3. Gathered(p)'
      BY <1>0, <2>0, <2>1, <3>1, <3>2, GatheredSame
    <3> QED
      BY <1>0, <1>x, <2>1, <3>1, <3>3
  <2>3. CASE t[2] # 0
    <3>1. t \in Others(p) /\ t # Core0(p)
      BY <2>3, ThreadFacts DEF Others
    <3>2. threadBarrierQueue' = [s \in Thread |-> threadBarrierQueue[s] + (IF s = Core0(p) THEN 1 ELSE 0)]
      BY <1>2, <2>3 DEF Cleared, BarrierMessage
    <3>3. /\ threadBarrierQueue'[Core0(p)] = threadBarrierQueue[Core0(p)] + 1
          /\ \A s \in Thread : s # Core0(p) => threadBarrierQueue'[s] = threadBarrierQueue[s]
      BY <1>0, <2>0, <3>2
    <3>4. threadBarrierQueue[t] = 0 /\ round[t] = round[Core0(p)]
      BY <1>0, <2>0, <2>1, <3>1 DEF Gathered
    <3>5. t \notin Here(p)
      BY <2>1 DEF Here
    <3>6. Here(p)' = Here(p) \cup {t} /\ Others(p)' = Others(p)
      BY <1>0, <2>1, <3>1, <3>4 DEF Here, Others
    <3>7. pc[Core0(p)] # "wait" /\ pc'[Core0(p)] = pc[Core0(p)]
      BY <1>0, <2>0, <2>1, <3>1, <3>5, OneMoreHere DEF Gathered
    <3>8. threadBarrierQueue'[Core0(p)] = Cardinality(Here(p)')
      BY <2>0, <3>1, <3>3, <3>5, <3>6, <3>7, OneMoreHere DEF Gathered
    <3>9. ASSUME NEW s \in Others(p)
          PROVE  /\ threadBarrierQueue'[s] \in {0, 1} /\ round'[Core0(p)] = round'[s] + threadBarrierQueue'[s]
                 /\ threadBarrierQueue'[s] = 1 => pc'[s] = "arrive"
      <4>1. s \in Thread /\ s # Core0(p)
        BY <2>0, ThreadFacts
      <4> QED
        BY <1>0, <2>0, <2>1, <3>3, <4>1 DEF Gathered
    <3>10. Gathered(p)'
      BY <3>6, <3>7, <3>8, <3>9 DEF Gathered
    <3>11. \A s \in Thread : ProcOf(s) # p => s # Core0(p) /\ s # t
      BY <2>0, ThreadFacts
    <3> QED
      BY <1>0, <1>x, <2>1, <3>3, <3>10, <3>11
  <2> QED
    BY <2>2, <2>3
<1>3. ASSUME NEW t \in Thread, CollectThenMPI(t) PROVE AtBarrier'
  <2> DEFINE p == ProcOf(t)
  <2>0. p \in Proc /\ Gathered(p) /\ t = Core0(p)
    BY <1>3, ThreadFacts DEF AtBarrier, CollectThenMPI
  <2>1. /\ pc[t] = "arrive" /\ round' = round /\ pc' = [pc EXCEPT ![t] = "wait"]
        /\ threadBarrierQueue' = [threadBarrierQueue EXCEPT ![t] = 0] /\ threadBarrierQueue[t] = Cores - 1
    BY <1>3 DEF CollectThenMPI, Goto, Collected
  <2>2. Here(p) = Others(p)
    BY <2>0, <2>1, AllHere
  <2>3. \A s \in Thread : s # t => pc'[s] = pc[s] /\ threadBarrierQueue'[s] = threadBarrierQueue[s]
    BY <1>0, <2>1
  <2>4. pc'[t] = "wait" /\ threadBarrierQueue'[t] = 0
    BY <1>0, <2>1
  <2>5. \A s \in Others(p) : s \in Thread /\ s # t
    BY <2>0, ThreadFacts
  <2>6. Here(p)' = Here(p) /\ Others(p)' = Others(p)
    BY <2>0, <2>1, <2>3, <2>5 DEF Here, Others
  <2>7. Gathered(p)'
    BY <2>0, <2>1, <2>2, <2>3, <2>4, <2>5, <2>6 DEF Gathered
  <2>8. \A s \in Thread : ProcOf(s) # p => s # t
    OBVIOUS
  <2> QED
    BY <1>x, <2>1, <2>3, <2>7, <2>8
<1>4. ASSUME NEW t \in Thread, Release(t) PROVE AtBarrier'
  <2> DEFINE p == ProcOf(t)
  <2>0. p \in Proc /\ Gathered(p) /\ t = Core0(p)
    BY <1>4, ThreadFacts DEF AtBarrier, Release
  <2>1. Passed(t) /\ round[t] <= 3 /\ pc[t] \in {"arrive", "wait"}
    BY <1>4 DEF Release, Located
  <2>2. /\ round'[t] = round[t] + 1 /\ \A s \in Thread \ {t} : round'[s] = round[s] /\ pc'[s] = pc[s]
        /\ pc'[t] = "answer"
    BY <1>4, <2>1, PassedMoves DEF Release
  <2>3. Here(p) = Others(p) /\ (pc[t] = "wait" => threadBarrierQueue[t] = 0)
    BY <1>4, <2>0, AllHere DEF Release, Collected, Gathered
  <2>4. threadBarrierQueue' = [s \in Thread |-> IF s = t THEN 0 ELSE threadBarrierQueue[s] + (IF s \in Others(p) THEN 1 ELSE 0)]
    <3>1. CASE pc[t] = "arrive"
      BY <1>4, <3>1 DEF Release
    <3>2. CASE pc[t] = "wait"
      <4>1. threadBarrierQueue' = [s \in Thread |-> threadBarrierQueue[s] + (IF s \in Others(p) THEN 1 ELSE 0)]
        BY <1>4, <3>2 DEF Release, BarrierMessage
      <4>2. t \notin Others(p)
        BY <2>0, ThreadFacts
      <4> QED
        BY <1>0, <2>3, <3>2, <4>1, <4>2
    <3> QED
      BY <2>1, <3>1, <3>2
  <2>5. ASSUME NEW s \in Others(p)
        PROVE  s \in Thread \ {t} /\ threadBarrierQueue'[s] = 1 /\ pc'[s] = "arrive" /\ round'[s] + 1 = round'[t]
    <3>1. s \in Thread /\ s # t /\ pc[s] = "arrive" /\ round[s] = round[t]
      BY <2>0, <2>3, ThreadFacts DEF Here
    <3>2. threadBarrierQueue[s] = 0
      BY <1>0, <2>0, <3>1 DEF Gathered
    <3> QED
      BY <2>2, <2>4, <3>1, <3>2
  <2>6. Others(p)' = Others(p) /\ threadBarrierQueue'[t] = 0
    BY <2>4 DEF Others
  <2>7. Here(p)' = {}
    <3>1. \A s \in Others(p) : round'[s] # round'[t]
      BY <1>0, <2>2, <2>5
    <3> QED
      BY <2>0, <2>6, <3>1 DEF Here
  <2>8. Gathered(p)'
    BY <1>0, <2>0, <2>2, <2>5, <2>6, <2>7, FS_EmptySet DEF Gathered
  <2>9. ASSUME NEW s \in Thread, ProcOf(s) # p
        PROVE  pc'[s] = pc[s] /\ round'[s] = round[s] /\ threadBarrierQueue'[s] = threadBarrierQueue[s]
    <3>1. s # t /\ s \notin Others(p)
      BY <2>0, <2>9, ThreadFacts
    <3> QED
      BY <1>0, <2>2, <2>4, <3>1
  <2> QED
    BY <1>x, <2>8, <2>9
<1>5. ASSUME NEW t \in Thread, LeaveBarrier(t) PROVE AtBarrier'
  <2> DEFINE p == ProcOf(t)
  <2>0. p \in Proc /\ Gathered(p) /\ t \in Others(p) /\ t # Core0(p) /\ Core0(p) \in Thread
    BY <1>5, ThreadFacts DEF AtBarrier, LeaveBarrier
  <2>1. Passed(t) /\ round[t] <= 3 /\ pc[t] = "arrive" /\ threadBarrierQueue[t] = 1 /\ t[2] # 0
    BY <1>0, <1>5, <2>0 DEF LeaveBarrier, Located, Gathered
  <2>2. /\ round'[t] = round[t] + 1 /\ \A s \in Thread \ {t} : round'[s] = round[s] /\ pc'[s] = pc[s]
        /\ pc'[t] = IF round[t] = 3 THEN "answer" ELSE "arrive"
    BY <2>1, PassedMoves
  <2>3. round[Core0(p)] = round[t] + 1 /\ t \notin Here(p)
    BY <1>0, <2>0, <2>1 DEF Gathered, Here
  <2>4. /\ threadBarrierQueue'[t] = 0
        /\ threadBarrierQueue'[Core0(p)] = threadBarrierQueue[Core0(p)] + (IF round[t] < 3 THEN 1 ELSE 0)
        /\ \A s \in Thread : s # t /\ s # Core0(p) => threadBarrierQueue'[s] = threadBarrierQueue[s]
    BY <1>0, <1>5, <2>0 DEF LeaveBarrier
  <2>5. pc[Core0(p)] # "wait" /\ pc'[Core0(p)] = pc[Core0(p)] /\ round'[Core0(p)] = round[Core0(p)]
    BY <2>0, <2>2, <2>3 DEF Gathered
  <2>6. Others(p)' = Others(p) /\ \A s \in Others(p) : s \in Thread /\ s # Core0(p)
    BY <2>0, ThreadFacts DEF Others
  <2>7. Here(p)' = IF round[t] < 3 THEN Here(p) \cup {t} ELSE Here(p)
    <3>1. round[t] = 3 <=> ~(round[t] < 3)
      BY <1>0, <2>1
    <3>2. \A s \in Others(p) \ {t} : s \in Here(p)' <=> s \in Here(p)
      BY <2>2, <2>5, <2>6 DEF Here
    <3>3. t \in Here(p)' <=> round[t] < 3
      BY <2>0, <2>2, <2>3, <2>5, <2>6, <3>1 DEF Here
    <3>4. Here(p)' \subseteq Others(p) /\ Here(p) \subseteq Others(p)
      BY <2>6 DEF Here
    <3> QED
      BY <2>0, <2>3, <3>2, <3>3, <3>4
  <2>8. threadBarrierQueue'[Core0(p)] = Cardinality(Here(p)')
    <3>1. threadBarrierQueue[Core0(p)] = Cardinality(Here(p)) /\ Cardinality(Here(p)) \in Nat
      BY <2>0, <2>3, <2>5, OneMoreHere DEF Gathered
    <3>2. Cardinality(Here(p) \cup {t}) = Cardinality(Here(p)) + 1
      BY <2>0, <2>3, OneMoreHere
    <3> QED
      BY <2>4, <2>7, <3>1, <3>2
  <2>9. ASSUME NEW s \in Others(p)
        PROVE  /\ threadBarrierQueue'[s] \in {0, 1} /\ round'[Core0(p)] = round'[s] + threadBarrierQueue'[s]
               /\ threadBarrierQueue'[s] = 1 => pc'[s] = "arrive"
    <3>1. CASE s = t
      BY <1>0, <2>0, <2>2, <2>3, <2>4, <2>5, <3>1
    <3>2. CASE s # t
      BY <2>0, <2>2, <2>4, <2>5, <2>6, <3>2 DEF Gathered
    <3> QED
      BY <3>1, <3>2
  <2>10. Gathered(p)'
    BY <2>5, <2>6, <2>8, <2>9 DEF Gathered
  <2>11. \A s \in Thread : ProcOf(s) # p => s # Core0(p) /\ s # t
    BY <2>0, ThreadFacts
  <2> QED
    BY <1>x, <2>2, <2>4, <2>10, <2>11
<1>6. CASE UNCHANGED <<pc, round, threadBarrierQueue>>
  BY <1>6, GatheredSame DEF AtBarrier
<1> QED
  BY <1>1, <1>2, <1>3, <1>4, <1>5, <1>6, WhoMoves DEF Core

------------------------------------------------------------------------------
(* The messages to an MPI thread *)

LEMMA QueueTyped ==
  ASSUME Deep, NEW p \in Proc
  PROVE  /\ queueMPInew[p] \in Seq(Message)
         /\ \A i \in DOMAIN queueMPInew[p] :
              /\ queueMPInew[p][i] \in Message /\ queueMPInew[p][i].from \in Thread
              /\ queueMPInew[p][i].kind \in Kinds /\ queueMPInew[p][i].update \in Update \cup {None}
<1>1. queueMPInew[p] \in Seq(Message)
  BY DEF Deep
<1>2. \A i \in DOMAIN queueMPInew[p] : queueMPInew[p][i] \in Message
  BY <1>1
<1> QED
  BY <1>1, <1>2, MessageParts

LEMMA LinedSame ==
  ASSUME NEW p \in Proc, Lined(p), queueMPInew'[p] = queueMPInew[p],
         \A m \in ToSet(queueMPInew[p]) : Waits(m, p)'
  PROVE  Lined(p)'
<1>1. PICK q : q = queueMPInew[p]
  OBVIOUS
<1>2. \A i \in DOMAIN q : Waits(q[i], p)'
  BY <1>1 DEF ToSet
<1>3. queueMPInew'[p] = q
  BY <1>1
<1> QED
  BY <1>1, <1>2, <1>3 DEF Lined

LEMMA LinedTail ==
  ASSUME Deep, NEW p \in Proc, Lined(p), queueMPInew[p] # <<>>, queueMPInew'[p] = Tail(queueMPInew[p]),
         \A m \in ToSet(queueMPInew[p]) :
           m.kind = "flushFromCore" \/ Head(queueMPInew[p]).kind = "flushFromCore" \/ m.from # Head(queueMPInew[p]).from
           => Waits(m, p)'
  PROVE  Lined(p)'
<1>1. PICK q, r : q = queueMPInew[p] /\ r = Tail(q)
  OBVIOUS
<1>2. /\ Head(q) = q[1] /\ 1 \in DOMAIN q
      /\ \A i \in DOMAIN r : i + 1 \in DOMAIN q /\ r[i] = q[i + 1] /\ i + 1 # 1 /\ i \in Nat
  <2>1. q \in Seq(Message) /\ q # <<>>
    BY <1>1, QueueTyped
  <2> QED
    BY <1>1, <2>1, TailIndex
<1>3. ASSUME NEW i \in DOMAIN r PROVE ProcOf(r[i].from) = p /\ Waits(r[i], p)'
  <2>1. i + 1 \in DOMAIN q /\ r[i] = q[i + 1] /\ i + 1 # 1
    BY <1>2
  <2>2. q[i + 1].kind = "flushFromCore" \/ q[1].kind = "flushFromCore" \/ q[i + 1].from # q[1].from
    BY <1>1, <1>2, <2>1 DEF Lined
  <2>3. Waits(q[i + 1], p)'
    <3>1. PICK k \in DOMAIN q : k = i + 1
      BY <2>1
    <3>2. q[k].kind = "flushFromCore" \/ Head(q).kind = "flushFromCore" \/ q[k].from # Head(q).from
      BY <1>2, <2>2, <3>1
    <3>3. q[k] \in ToSet(queueMPInew[p])
      BY <1>1 DEF ToSet
    <3> QED
      BY <1>1, <3>1, <3>2, <3>3
  <2>4. ProcOf(q[i + 1].from) = p
    BY <1>1, <2>1 DEF Lined
  <2> QED
    BY <2>1, <2>3, <2>4
<1>4. ASSUME NEW i \in DOMAIN r, NEW j \in DOMAIN r
      PROVE  /\ r[i].kind # "flushFromCore" /\ r[j].kind # "flushFromCore" /\ r[i].from = r[j].from => i = j
             /\ i < j /\ r[j].kind = "flushFromCore" => r[i].kind = "flushFromCore"
  <2>1. /\ i + 1 \in DOMAIN q /\ r[i] = q[i + 1] /\ i \in Nat
        /\ j + 1 \in DOMAIN q /\ r[j] = q[j + 1] /\ j \in Nat
    BY <1>2
  <2>2. r[i].kind # "flushFromCore" /\ r[j].kind # "flushFromCore" /\ r[i].from = r[j].from => i + 1 = j + 1
    BY <1>1, <2>1 DEF Lined
  <2>3. i + 1 < j + 1 /\ r[j].kind = "flushFromCore" => r[i].kind = "flushFromCore"
    BY <1>1, <2>1 DEF Lined
  <2> QED
    BY <2>1, <2>2, <2>3
<1>5. queueMPInew'[p] = r
  BY <1>1
<1> QED
  BY <1>3, <1>4, <1>5 DEF Lined

LEMMA LinedAppend ==
  ASSUME Deep, NEW p \in Proc, Lined(p), NEW m \in Message, queueMPInew'[p] = Append(queueMPInew[p], m),
         ProcOf(m.from) = p, Waits(m, p)', \A o \in ToSet(queueMPInew[p]) : Waits(o, p)',
         m.kind # "flushFromCore" => \A o \in ToSet(queueMPInew[p]) : o.from = m.from => o.kind = "flushFromCore",
         m.kind = "flushFromCore" => \A o \in ToSet(queueMPInew[p]) : o.kind = "flushFromCore"
  PROVE  Lined(p)'
<1>1. PICK q, r : q = queueMPInew[p] /\ r = Append(q, m)
  OBVIOUS
<1>2. PICK n : n = Len(q) + 1
  OBVIOUS
<1>3. /\ DOMAIN r = (DOMAIN q) \cup {n} /\ n \notin DOMAIN q /\ r[n] = m
      /\ \A i \in DOMAIN q : r[i] = q[i] /\ i < n /\ ~(n < i)
  <2>1. q \in Seq(Message)
    BY <1>1, QueueTyped
  <2>2. /\ DOMAIN r = (DOMAIN q) \cup {n} /\ n \notin DOMAIN q /\ r[n] = m /\ n \in Nat /\ DOMAIN q = 1..Len(q)
        /\ \A i \in DOMAIN q : r[i] = q[i] /\ i < n
    BY <1>1, <1>2, <2>1, AppendIndex
  <2> QED
    BY <2>2
<1>0. \A i \in DOMAIN q : q[i] \in ToSet(queueMPInew[p])
  BY <1>1 DEF ToSet
<1>4. ASSUME NEW i \in DOMAIN r PROVE ProcOf(r[i].from) = p /\ Waits(r[i], p)'
  <2>1. CASE i \in DOMAIN q
    BY <1>0, <1>1, <1>3, <2>1 DEF Lined
  <2>2. CASE i = n
    BY <1>3, <2>2
  <2> QED
    BY <1>3, <2>1, <2>2
<1>5. ASSUME NEW i \in DOMAIN r, NEW j \in DOMAIN r
      PROVE  /\ r[i].kind # "flushFromCore" /\ r[j].kind # "flushFromCore" /\ r[i].from = r[j].from => i = j
             /\ i < j /\ r[j].kind = "flushFromCore" => r[i].kind = "flushFromCore"
  <2>1. CASE i \in DOMAIN q /\ j \in DOMAIN q
    BY <1>1, <1>3, <2>1 DEF Lined
  <2>2. CASE i = n /\ j \in DOMAIN q
    BY <1>0, <1>3, <2>2
  <2>3. CASE i \in DOMAIN q /\ j = n
    BY <1>0, <1>3, <2>3
  <2>4. CASE i = n /\ j = n
    <3>1. n \in Nat
      <4>1. q \in Seq(Message)
        BY <1>1, QueueTyped
      <4> QED
        BY <1>2, <4>1
    <3> QED
      BY <2>4, <3>1
  <2> QED
    BY <1>3, <2>1, <2>2, <2>3, <2>4
<1>6. queueMPInew'[p] = r
  BY <1>1
<1> QED
  BY <1>4, <1>5, <1>6 DEF Lined

\* A thread that does not wait for an answer, or has it, has sent buffers only.
LEMMA Quiet ==
  ASSUME Deep, Queued, NEW t \in Thread, pc[t] \notin {"wait", "answer"} \/ answered[t],
         NEW p \in Proc, NEW m \in ToSet(queueMPInew[p]), m.from = t
  PROVE  m.kind = "flushFromCore"
<1>1. PICK i \in DOMAIN queueMPInew[p] : m = queueMPInew[p][i]
  BY DEF ToSet
<1>2. m.kind \in Kinds /\ Waits(m, p)
  BY <1>1, QueueTyped DEF Queued, Lined
<1> QED
  BY <1>2 DEF Waits, Kinds

LEMMA InQueue ==
  ASSUME Deep, Queued, NEW p \in Proc, NEW m \in ToSet(queueMPInew[p])
  PROVE  m \in Message /\ m.kind \in Kinds /\ m.from \in Thread /\ ProcOf(m.from) = p /\ Waits(m, p)
<1>1. PICK i \in DOMAIN queueMPInew[p] : m = queueMPInew[p][i]
  BY DEF ToSet
<1> QED
  BY <1>1, QueueTyped DEF Queued, Lined

LEMMA WaitsSame ==
  ASSUME NEW p \in Proc, NEW m, Waits(m, p),
         m.kind # "flushFromCore" => /\ pc'[m.from] = pc[m.from] /\ round'[m.from] = round[m.from]
                                     /\ ~answered[m.from] => ~answered'[m.from],
         m.kind = "flushOut" /\ ~flushingOut[p] => ~flushingOut'[p],
         m.kind = "barrierMPI" /\ p \notin barrierOpen \cup inBarrier => p \notin barrierOpen' \cup inBarrier'
  PROVE  Waits(m, p)'
BY DEF Waits

\* What a step of a core leaves to the MPI threads
CoreFrame(t) ==
  /\ \A s \in Thread \ {t} : pc'[s] = pc[s] /\ round'[s] = round[s] /\ answered'[s] = answered[s]
  /\ UNCHANGED <<flushingOut, barrierOpen, inBarrier>>
  /\ pc'[t] # pc[t] \/ round'[t] # round[t] \/ answered'[t] # answered[t] => pc[t] \notin {"wait", "answer"} \/ answered[t]
  /\ answered'[t] => answered[t]

LEMMA CoreFrames ==
  ASSUME Flat, Located, NEW t \in Thread, Core(t)
  PROVE  CoreFrame(t)
<1>0. /\ pc \in [Thread -> {"clear", "spare", "arrive", "wait", "answer", "done"}] /\ round \in [Thread -> 1..4]
      /\ answered \in [Thread -> BOOLEAN]
  BY DEF Flat
<1>1. CASE FlushElement(t) \/ FlushCoreBuffer(t) \/ TakeSpare(t) \/ Cleared(t)
  BY <1>0, <1>1 DEF CoreFrame, FlushElement, FlushCoreBuffer, TakeSpare, Cleared, Goto, queueVars, rankVars, mpiVars
<1>2. CASE CollectThenMPI(t) \/ Answered(t)
  BY <1>0, <1>2 DEF CoreFrame, CollectThenMPI, Answered, Goto, rankVars, mpiVars
<1>3. CASE Release(t) \/ LeaveBarrier(t)
  <2>1. Passed(t) /\ round[t] <= 3
    BY <1>3 DEF Release, LeaveBarrier, Located
  <2>2. \A s \in Thread \ {t} : round'[s] = round[s] /\ pc'[s] = pc[s]
    BY <2>1, PassedMoves
  <2>3. /\ answered' = answered \/ answered' = [answered EXCEPT ![t] = FALSE]
        /\ UNCHANGED <<flushingOut, barrierOpen, inBarrier>> /\ (pc[t] \notin {"wait", "answer"} \/ answered[t])
    BY <1>3 DEF Release, LeaveBarrier, rankVars, mpiVars
  <2> QED
    BY <1>0, <2>2, <2>3 DEF CoreFrame
<1> QED
  BY <1>1, <1>2, <1>3 DEF Core

\* Such a step leaves the messages as they are, and sends one, or none.
LEMMA CoreKeeps ==
  ASSUME Deep, Queued, NEW t \in Thread, CoreFrame(t), NEW p \in Proc, NEW m \in ToSet(queueMPInew[p])
  PROVE  Waits(m, p)'
<1>1. m.from \in Thread /\ Waits(m, p)
  BY InQueue
<1>2. m.kind # "flushFromCore" => pc'[m.from] = pc[m.from] /\ round'[m.from] = round[m.from] /\ answered'[m.from] = answered[m.from]
  <2>1. CASE m.from # t
    BY <1>1, <2>1 DEF CoreFrame
  <2>2. CASE m.from = t
    BY <2>2, Quiet DEF CoreFrame
  <2> QED
    BY <2>1, <2>2
<1> QED
  BY <1>1, <1>2, WaitsSame DEF CoreFrame

LEMMA CoreSilent ==
  ASSUME Deep, Queued, NEW t \in Thread, CoreFrame(t), UNCHANGED queueMPInew
  PROVE  Queued'
BY CoreKeeps, LinedSame DEF Queued

LEMMA CoreSends ==
  ASSUME Flat, Deep, Queued, NEW t \in Thread, CoreFrame(t), NEW k \in Kinds, NEW u \in Update \cup {None}, Send(t, k, u),
         k # "flushFromCore" => /\ pc[t] \notin {"wait", "answer"} \/ answered[t]
                                /\ Waits([kind |-> k, from |-> t, update |-> u], ProcOf(t))',
         k = "flushFromCore" => \A o \in ToSet(queueMPInew[ProcOf(t)]) : o.kind = "flushFromCore"
  PROVE  Queued'
<1> DEFINE p == ProcOf(t)
<1>1. PICK m : m = [kind |-> k, from |-> t, update |-> u]
  OBVIOUS
<1>2. /\ m \in Message /\ m.kind = k /\ m.from = t /\ p \in Proc
      /\ queueMPInew'[p] = Append(queueMPInew[p], m) /\ \A o \in Proc \ {p} : queueMPInew'[o] = queueMPInew[o]
  BY <1>1, Sends
<1>3. Waits(m, p)'
  <2>1. CASE k = "flushFromCore"
    BY <1>2, <2>1 DEF Waits
  <2>2. CASE k # "flushFromCore"
    BY <1>1, <2>2
  <2> QED
    BY <2>1, <2>2
<1>4. \A o \in ToSet(queueMPInew[p]) : Waits(o, p)'
  BY <1>2, CoreKeeps
<1>5. k # "flushFromCore" => \A o \in ToSet(queueMPInew[p]) : o.from = t => o.kind = "flushFromCore"
  BY <1>2, Quiet
<1>6. Lined(p)'
  BY <1>2, <1>3, <1>4, <1>5, LinedAppend DEF Queued
<1>7. ASSUME NEW o \in Proc, o # p PROVE Lined(o)'
  BY <1>2, <1>7, CoreKeeps, LinedSame DEF Queued
<1> QED
  BY <1>6, <1>7 DEF Queued

\* While a core clears its cache there are only buffers in the queue of its process.
LEMMA OnlyBuffers ==
  ASSUME Flat, Deep, Located, AtBarrier, Queued, NEW t \in Thread, pc[t] = "clear",
         NEW m \in ToSet(queueMPInew[ProcOf(t)])
  PROVE  m.kind = "flushFromCore"
<1> DEFINE p == ProcOf(t)
<1>0. p \in Proc /\ Gathered(p) /\ Core0(p) \in Thread /\ (t # Core0(p) => t \in Others(p))
  BY ThreadFacts DEF AtBarrier
<1>1. \A s \in Thread : round[s] \in Int /\ 1 <= round[s]
  BY DEF Flat
<1>2. round[t] = 1
  BY DEF Located
<1>3. round[Core0(p)] = 1
  BY <1>0, <1>1, <1>2 DEF Gathered
<1>4. ASSUME NEW s \in Thread, ProcOf(s) = p PROVE pc[s] \notin {"wait", "answer"}
  <2>1. s # Core0(p) => s \in Others(p)
    BY <1>0, <1>4, ThreadFacts
  <2>2. round[s] <= 1
    <3>1. CASE s = Core0(p)
      BY <1>3, <3>1
    <3>2. CASE s \in Others(p)
      <4>1. threadBarrierQueue[s] \in {0, 1} /\ round[Core0(p)] = round[s] + threadBarrierQueue[s]
        BY <1>0, <3>2 DEF Gathered
      <4> QED
        BY <1>1, <1>3, <4>1
    <3> QED
      BY <2>1, <3>1, <3>2
  <2> QED
    BY <1>1, <2>2 DEF Located
<1>5. m.from \in Thread /\ ProcOf(m.from) = p
  BY <1>0, InQueue
<1> QED
  BY <1>0, <1>4, <1>5, Quiet

LEMMA QueuedCore ==
  ASSUME Flat, Deep, Located, AtBarrier, Queued, Barred, NEW t \in Thread, Core(t)
  PROVE  Queued'
<1>0. /\ pc \in [Thread -> {"clear", "spare", "arrive", "wait", "answer", "done"}] /\ round \in [Thread -> 1..4]
      /\ answered \in [Thread -> BOOLEAN] /\ round[t] \in Int /\ 1 <= round[t]
  BY DEF Flat
<1>f. CoreFrame(t)
  BY CoreFrames
<1>1. CASE FlushElement(t) \/ TakeSpare(t) \/ Cleared(t) \/ Answered(t)
  <2>1. UNCHANGED queueMPInew
    BY <1>1 DEF FlushElement, TakeSpare, Cleared, Answered, queueVars
  <2> QED
    BY <1>f, <2>1, CoreSilent
<1>2. CASE FlushCoreBuffer(t)
  <2>1. pc[t] = "clear" /\ Send(t, "flushFromCore", coreFlushBuffer[t]) /\ coreFlushBuffer[t] \in Update \cup {None}
    BY <1>2 DEF FlushCoreBuffer, Flat
  <2>2. \A m \in ToSet(queueMPInew[ProcOf(t)]) : m.kind = "flushFromCore"
    BY <2>1, OnlyBuffers
  <2> QED
    BY <1>f, <2>1, <2>2, CoreSends DEF Kinds
<1>3. CASE CollectThenMPI(t)
  <2>1. /\ t = Core0(ProcOf(t)) /\ ProcOf(t) \in Proc /\ pc[t] = "arrive" /\ round[t] = 2
        /\ Send(t, "barrierMPI", None) /\ pc'[t] = "wait"
        /\ UNCHANGED <<answered, barrierOpen, inBarrier>>
    BY <1>0, <1>3, ThreadFacts DEF CollectThenMPI, IsGlobal, Goto, mpiVars
  <2>2. ~answered[t] /\ ProcOf(t) \notin barrierOpen \cup inBarrier
    BY <1>0, <2>1 DEF Barred, BarredAt
  <2>3. PICK m : m = [kind |-> "barrierMPI", from |-> t, update |-> None]
    OBVIOUS
  <2>4. Waits(m, ProcOf(t))'
    BY <2>1, <2>2, <2>3 DEF Waits
  <2> QED
    BY <1>f, <2>1, <2>3, <2>4, CoreSends DEF Kinds
<1>4. CASE Release(t) \/ LeaveBarrier(t)
  <2>1. Passed(t) /\ round[t] <= 3 /\ pc[t] \in {"arrive", "wait"} /\ (pc[t] = "wait" => answered[t])
    BY <1>4 DEF Release, LeaveBarrier, Located
  <2>2. /\ round'[t] = round[t] + 1
        /\ pc'[t] = IF round[t] = 3 \/ t[2] = 0 THEN "answer" ELSE "arrive"
        /\ round[t] = 3 => Send(t, "close", None)
        /\ round[t] # 3 /\ t[2] = 0 => Send(t, IF round[t] = 1 THEN "flushOut" ELSE "flushLocal", None)
        /\ round[t] # 3 /\ t[2] # 0 => UNCHANGED queueMPInew
    BY <2>1, PassedMoves
  <2>3. ~answered'[t] /\ UNCHANGED flushingOut
    <3>1. pc[t] = "arrive" => ~answered[t]
      BY DEF Barred, BarredAt
    <3>2. LeaveBarrier(t) => pc[t] = "arrive" /\ answered' = answered
      BY DEF LeaveBarrier
    <3>3. Release(t) => \/ pc[t] = "arrive" /\ answered' = answered
                        \/ answered' = [answered EXCEPT ![t] = FALSE]
      BY DEF Release
    <3>4. UNCHANGED flushingOut
      BY <1>4 DEF Release, LeaveBarrier, rankVars
    <3> QED
      BY <1>0, <1>4, <3>1, <3>2, <3>3, <3>4
  <2>4. CASE round[t] = 3
    <3>1. PICK m : m = [kind |-> "close", from |-> t, update |-> None]
      OBVIOUS
    <3>2. Waits(m, ProcOf(t))'
      BY <2>2, <2>3, <2>4, <3>1 DEF Waits
    <3> QED
      BY <1>f, <2>1, <2>2, <2>4, <3>1, <3>2, CoreSends DEF Kinds
  <2>5. CASE round[t] # 3 /\ t[2] = 0
    <3>1. PICK m, k : m = [kind |-> k, from |-> t, update |-> None] /\ k = IF round[t] = 1 THEN "flushOut" ELSE "flushLocal"
      OBVIOUS
    <3>2. t = Core0(ProcOf(t)) /\ ProcOf(t) \in Proc
      BY <2>5, ThreadFacts
    <3>3. ~flushingOut[ProcOf(t)]
      BY <2>1, <3>2 DEF Barred, BarredAt
    <3>4. round[t] # 1 => round[t] = 2
      BY <1>0, <2>1, <2>5
    <3>5. Waits(m, ProcOf(t))'
      BY <2>2, <2>3, <2>5, <3>1, <3>3, <3>4 DEF Waits
    <3>6. Send(t, k, None) /\ k \in Kinds /\ k # "flushFromCore"
      BY <2>2, <2>5, <3>1 DEF Kinds
    <3> QED
      BY <1>f, <2>1, <3>1, <3>5, <3>6, CoreSends
  <2>6. CASE round[t] # 3 /\ t[2] # 0
    BY <1>f, <2>2, <2>6, CoreSilent
  <2> QED
    BY <2>4, <2>5, <2>6
<1> QED
  BY <1>1, <1>2, <1>3, <1>4 DEF Core

\* Only core 0 waits for the MPI barrier, or for an answer before it closes the cache.
LEMMA FromCore0 ==
  ASSUME Flat, Located, NEW p \in Proc, NEW t \in Thread, ProcOf(t) = p, pc[t] = "wait" \/ (pc[t] = "answer" /\ round[t] # 4)
  PROVE  t = Core0(p)
<1>1. t[2] = 0
  BY DEF Located
<1> QED
  BY <1>1, ThreadFacts

\* An MPI thread that takes a message answers its sender, or says what it has begun.
LEMMA QueuedTake ==
  ASSUME Flat, Deep, Located, Queued, NEW p \in Proc, NEW k, Process(p, k), UNCHANGED <<pc, round>>,
         \A s \in Thread : answered'[s] = answered[s] \/ (s = Head(queueMPInew[p]).from /\ k # "flushFromCore"),
         \A o \in Proc : flushingOut'[o] = flushingOut[o] \/ (o = p /\ k = "flushOut"),
         \A o \in Proc : o \in barrierOpen' \cup inBarrier' => o \in barrierOpen \cup inBarrier \/ (o = p /\ k = "barrierMPI")
  PROVE  Queued'
<1>1. PICK h : h = Head(queueMPInew[p])
  OBVIOUS
<1>2. /\ h.kind = k /\ h \in ToSet(queueMPInew[p]) /\ queueMPInew[p] # <<>>
      /\ queueMPInew'[p] = Tail(queueMPInew[p]) /\ \A o \in Proc \ {p} : queueMPInew'[o] = queueMPInew[o]
  BY <1>1, Takes
<1>3. h.from \in Thread /\ ProcOf(h.from) = p /\ Waits(h, p)
  BY <1>2, InQueue
<1>4. h.kind \in {"flushOut", "barrierMPI"} => h.from = Core0(p)
  <2>1. h.kind \in {"flushOut", "barrierMPI"} => pc[h.from] = "wait" \/ (pc[h.from] = "answer" /\ round[h.from] # 4)
    BY <1>3 DEF Waits
  <2> QED
    BY <1>3, <2>1, FromCore0
<1>5. ASSUME NEW m \in ToSet(queueMPInew[p]), m.kind = "flushFromCore" \/ h.kind = "flushFromCore" \/ m.from # h.from
      PROVE  Waits(m, p)'
  <2>1. m.from \in Thread /\ ProcOf(m.from) = p /\ Waits(m, p)
    BY InQueue
  <2>2. m.kind \in {"flushOut", "barrierMPI"} => m.from = Core0(p)
    <3>1. m.kind \in {"flushOut", "barrierMPI"} => pc[m.from] = "wait" \/ (pc[m.from] = "answer" /\ round[m.from] # 4)
      BY <2>1 DEF Waits
    <3> QED
      BY <2>1, <3>1, FromCore0
  <2>3. m.kind # "flushFromCore" => answered'[m.from] = answered[m.from]
    BY <1>1, <1>2, <1>5, <2>1
  <2>4. m.kind = "flushOut" => flushingOut'[p] = flushingOut[p]
    BY <1>2, <1>4, <1>5, <2>2
  <2>5. m.kind = "barrierMPI" /\ p \notin barrierOpen \cup inBarrier => p \notin barrierOpen' \cup inBarrier'
    BY <1>2, <1>4, <1>5, <2>2
  <2> QED
    BY <2>1, <2>3, <2>4, <2>5, WaitsSame
<1>6. Lined(p)'
  BY <1>1, <1>2, <1>5, LinedTail DEF Queued
<1>7. ASSUME NEW o \in Proc, o # p PROVE Lined(o)'
  <2>1. ASSUME NEW m \in ToSet(queueMPInew[o]) PROVE Waits(m, o)'
    <3>1. m.from \in Thread /\ ProcOf(m.from) = o /\ Waits(m, o)
      BY InQueue
    <3>2. answered'[m.from] = answered[m.from]
      BY <1>1, <1>3, <1>7, <3>1
    <3> QED
      BY <1>7, <3>1, <3>2, WaitsSame
  <2> QED
    BY <1>2, <1>7, <2>1, LinedSame DEF Queued
<1> QED
  BY <1>6, <1>7 DEF Queued

\* An MPI thread answers core 0, which has no other message there.
LEMMA QueuedAnswer ==
  ASSUME Flat, Deep, Queued, NEW p \in Proc, UNCHANGED <<pc, round, queueMPInew>>,
         answered' = [answered EXCEPT ![Core0(p)] = TRUE],
         \A m \in ToSet(queueMPInew[p]) : m.from = Core0(p) => m.kind = "flushFromCore",
         \A o \in Proc : flushingOut'[o] => flushingOut[o], barrierOpen' \cup inBarrier' \subseteq barrierOpen \cup inBarrier
  PROVE  Queued'
<1>1. ASSUME NEW o \in Proc, NEW m \in ToSet(queueMPInew[o]) PROVE Waits(m, o)'
  <2>1. m.from \in Thread /\ ProcOf(m.from) = o /\ Waits(m, o)
    BY InQueue
  <2>2. m.kind # "flushFromCore" => m.from # Core0(p)
    BY <2>1, ThreadFacts
  <2>3. m.kind # "flushFromCore" => answered'[m.from] = answered[m.from]
    BY <2>1, <2>2 DEF Flat
  <2>4. flushingOut' [o] => flushingOut[o]
    OBVIOUS
  <2> QED
    BY <2>1, <2>3, <2>4, WaitsSame
<1> QED
  BY <1>1, LinedSame DEF Queued

LEMMA QueuedSame ==
  ASSUME Deep, Queued, UNCHANGED <<pc, round, queueMPInew, answered, flushingOut, barrierOpen, inBarrier>>
  PROVE  Queued'
<1>1. ASSUME NEW o \in Proc, NEW m \in ToSet(queueMPInew[o]) PROVE Waits(m, o)'
  BY InQueue, WaitsSame
<1> QED
  BY <1>1, LinedSame DEF Queued

LEMMA QueuedStep ==
  Flat /\ Deep /\ Located /\ AtBarrier /\ Queued /\ Barred /\ [Next]_vars => Queued'
<1> SUFFICES ASSUME Flat, Deep, Located, AtBarrier, Queued, Barred, [Next]_vars PROVE Queued'
  OBVIOUS
<1>0. answered \in [Thread -> BOOLEAN] /\ flushingOut \in [Proc -> BOOLEAN]
  BY DEF Flat
<1>1. ASSUME NEW t \in Thread, Core(t) PROVE Queued'
  BY <1>1, QueuedCore
<1>2. ASSUME NEW p \in Proc, MessageFlushFromCore(p) PROVE Queued'
  <2>1. Process(p, "flushFromCore") /\ UNCHANGED <<pc, round, answered, flushingOut, barrierOpen, inBarrier>>
    BY <1>2 DEF MessageFlushFromCore, threadVars
  <2> QED
    BY <2>1, QueuedTake
<1>3. ASSUME NEW p \in Proc, MessageCacheFlushOut(p) PROVE Queued'
  <2>1. /\ Process(p, "flushOut") /\ UNCHANGED <<pc, round, answered, barrierOpen, inBarrier>>
        /\ flushingOut' = [flushingOut EXCEPT ![p] = TRUE]
    BY <1>3 DEF MessageCacheFlushOut, threadVars
  <2>2. \A o \in Proc : flushingOut'[o] = flushingOut[o] \/ o = p
    BY <1>0, <2>1
  <2> QED
    BY <2>1, <2>2, QueuedTake
<1>4. ASSUME NEW p \in Proc, MessageBarrierMPI(p) PROVE Queued'
  <2>1. /\ Process(p, "barrierMPI") /\ UNCHANGED <<pc, round, answered, flushingOut>>
        /\ inBarrier' = inBarrier \cup {p} /\ barrierOpen' = barrierOpen \cup {p}
    BY <1>4 DEF MessageBarrierMPI, threadVars, rankVars
  <2> QED
    BY <2>1, QueuedTake
<1>5. ASSUME NEW p \in Proc, MessageCacheFlushLocal(p) PROVE Queued'
  <2>1. /\ Process(p, "flushLocal") /\ UNCHANGED <<pc, round, flushingOut, barrierOpen, inBarrier>>
        /\ answered' = [answered EXCEPT ![Core0(p)] = TRUE]
    BY <1>5 DEF MessageCacheFlushLocal, threadVars, rankVars, mpiVars, Answer
  <2>2. PICK h \in ToSet(queueMPInew[p]) : h = Head(queueMPInew[p]) /\ h.kind = "flushLocal"
    BY <2>1, Takes
  <2>3. h.from = Core0(p)
    <3>1. h.from \in Thread /\ ProcOf(h.from) = p /\ pc[h.from] = "answer" /\ round[h.from] = 3
      BY <2>2, InQueue DEF Waits
    <3> QED
      BY <3>1, FromCore0
  <2>4. \A s \in Thread : answered'[s] = answered[s] \/ s = Core0(p)
    BY <1>0, <2>1
  <2> QED
    BY <2>1, <2>2, <2>3, <2>4, QueuedTake
<1>6. ASSUME NEW p \in Proc, MessageCacheClose(p) PROVE Queued'
  <2>1. /\ Process(p, "close") /\ UNCHANGED <<pc, round, flushingOut, barrierOpen, inBarrier>>
        /\ answered' = [answered EXCEPT ![Head(queueMPInew[p]).from] = TRUE]
    BY <1>6 DEF MessageCacheClose, threadVars, rankVars, mpiVars, Answer
  <2>2. PICK h : h = Head(queueMPInew[p])
    OBVIOUS
  <2>3. \A s \in Thread : answered'[s] = answered[s] \/ s = h.from
    BY <1>0, <2>1, <2>2
  <2>4. /\ \A o \in Proc : flushingOut'[o] = flushingOut[o]
        /\ \A o \in Proc : o \in barrierOpen' \cup inBarrier' => o \in barrierOpen \cup inBarrier
    BY <2>1
  <2>5. PICK k : k = "close"
    OBVIOUS
  <2>6. Process(p, k) /\ UNCHANGED <<pc, round>>
    BY <2>1, <2>5
  <2>7. \A s \in Thread : answered'[s] = answered[s] \/ (s = Head(queueMPInew[p]).from /\ k # "flushFromCore")
    BY <2>2, <2>3, <2>5
  <2> QED
    BY <2>4, <2>6, <2>7, QueuedTake
<1>7. ASSUME NEW p \in Proc, FlushOutDone(p) PROVE Queued'
  <2>1. /\ UNCHANGED <<pc, round, queueMPInew, barrierOpen, inBarrier>> /\ flushingOut[p]
        /\ answered' = [answered EXCEPT ![Core0(p)] = TRUE] /\ flushingOut' = [flushingOut EXCEPT ![p] = FALSE]
    BY <1>7 DEF FlushOutDone, threadVars, mpiVars, Answer
  <2>2. ASSUME NEW m \in ToSet(queueMPInew[p]), m.from = Core0(p) PROVE m.kind = "flushFromCore"
    BY <2>1, <2>2, InQueue DEF Waits, Barred, BarredAt, Kinds
  <2>3. \A o \in Proc : flushingOut'[o] => flushingOut[o]
    BY <1>0, <2>1
  <2> QED
    BY <2>1, <2>2, <2>3, QueuedAnswer
<1>8. ASSUME NEW p \in Proc, FinishBarrier(p) PROVE Queued'
  <2>1. /\ UNCHANGED <<pc, round, queueMPInew, flushingOut, inBarrier>> /\ p \in barrierOpen
        /\ answered' = [answered EXCEPT ![Core0(p)] = TRUE] /\ barrierOpen' = barrierOpen \ {p}
    BY <1>8 DEF FinishBarrier, Finish, BarrierEnded, threadVars, rankVars, Answer
  <2>2. ASSUME NEW m \in ToSet(queueMPInew[p]), m.from = Core0(p) PROVE m.kind = "flushFromCore"
    BY <2>1, <2>2, InQueue DEF Waits, Barred, BarredAt, Kinds
  <2> QED
    BY <2>1, <2>2, QueuedAnswer
<1>9. ASSUME NEW t \in Thread, Combine(t) PROVE Queued'
  BY <1>9, QueuedSame DEF Combine, threadVars, queueVars, rankVars, mpiVars
<1>10. ASSUME NEW p \in Proc, BufferForRank(p) \/ FinishReceive(p) \/ BufferForCore(p) \/ FinishFlushToRank(p) \/ LeaveFinish(p)
       PROVE  Queued'
  BY <1>10, QueuedSame DEF BufferForRank, FinishReceive, BufferForCore, FinishFlushToRank, LeaveFinish, Finish,
                           threadVars, queueVars, rankVars, mpiVars
<1>11. ASSUME NEW u \in Update, Match(u) PROVE Queued'
  BY <1>11, QueuedSame DEF Match, threadVars, queueVars, rankVars
<1>12. CASE UNCHANGED vars
  BY <1>12, QueuedSame DEF vars, threadVars, queueVars, rankVars, mpiVars
<1> QED
  BY <1>1, <1>2, <1>3, <1>4, <1>5, <1>6, <1>7, <1>8, <1>9, <1>10, <1>11, <1>12 DEF Next, MPIThread

------------------------------------------------------------------------------
(* The MPI barrier *)

LEMMA BarredSame ==
  ASSUME NEW p \in Proc, BarredAt(p), UNCHANGED inBarrier, barrierOpen' \subseteq barrierOpen,
         \A q \in Proc : flushingOut'[q] => flushingOut[q],
         pc'[Core0(p)] = pc[Core0(p)], round'[Core0(p)] = round[Core0(p)], answered'[Core0(p)] = answered[Core0(p)]
  PROVE  BarredAt(p)'
BY DEF BarredAt

LEMMA BarredCore ==
  ASSUME Flat, Located, Barred, NEW t \in Thread, Core(t)
  PROVE  Barred'
<1>0. /\ pc \in [Thread -> {"clear", "spare", "arrive", "wait", "answer", "done"}] /\ round \in [Thread -> 1..4]
      /\ answered \in [Thread -> BOOLEAN] /\ round[t] \in Int /\ 1 <= round[t]
  BY DEF Flat
<1>1. CoreFrame(t)
  BY CoreFrames
<1>2. ASSUME NEW p \in Proc, Core0(p) # t PROVE BarredAt(p)'
  <2>1. Core0(p) \in Thread
    BY ThreadFacts
  <2> QED
    BY <1>1, <1>2, <2>1, BarredSame DEF CoreFrame, Barred
<1>3. ASSUME answered'[t] PROVE pc'[t] \in {"wait", "answer"}
  <2>1. answered[t] /\ pc[t] \in {"wait", "answer"}
    BY <1>1, <1>3 DEF CoreFrame, Barred
  <2>2. ~Release(t) /\ ~Answered(t) /\ ~LeaveBarrier(t) /\ ~CollectThenMPI(t)
    BY <1>0, <1>3, <2>1 DEF Release, Answered, LeaveBarrier, CollectThenMPI
  <2>3. ~FlushElement(t) /\ ~FlushCoreBuffer(t) /\ ~TakeSpare(t) /\ ~Cleared(t)
    BY <2>1 DEF FlushElement, FlushCoreBuffer, TakeSpare, Cleared
  <2> QED
    BY <2>2, <2>3 DEF Core
<1>4. \A s \in Thread : answered'[s] => pc'[s] \in {"wait", "answer"}
  BY <1>1, <1>3 DEF CoreFrame, Barred
<1>5. ASSUME NEW p \in Proc, Core0(p) = t PROVE BarredAt(p)'
  <2>0. BarredAt(p) /\ ProcOf(t) = p /\ t[2] = 0 /\ UNCHANGED <<flushingOut, barrierOpen, inBarrier>>
    BY <1>1, <1>5, ThreadFacts DEF CoreFrame, Barred
  <2>1. CASE FlushElement(t) \/ FlushCoreBuffer(t) \/ TakeSpare(t) \/ Cleared(t)
    <3>1. /\ pc[t] \notin {"wait", "answer"} /\ pc'[t] \notin {"wait", "answer"} /\ round'[t] = round[t]
          /\ answered'[t] = answered[t]
      BY <1>0, <2>1 DEF FlushElement, FlushCoreBuffer, TakeSpare, Cleared, Goto, queueVars
    <3> QED
      BY <1>5, <2>0, <3>1 DEF BarredAt
  <2>2. CASE CollectThenMPI(t)
    <3>1. pc[t] = "arrive" /\ pc'[t] = "wait" /\ round'[t] = round[t] /\ answered'[t] = answered[t] /\ ~answered[t]
      BY <1>0, <2>2 DEF CollectThenMPI, Goto, Barred
    <3> QED
      BY <1>5, <2>0, <3>1 DEF BarredAt
  <2>3. CASE Release(t)
    <3>1. round'[t] = round[t] + 1 /\ pc'[t] = "answer" /\ round[t] <= 3 /\ ~answered'[t] /\ ~flushingOut[p]
      <4>1. Passed(t) /\ round[t] <= 3 /\ pc[t] \in {"arrive", "wait"}
        BY <2>3 DEF Release, Located
      <4>2. ~answered'[t]
        BY <1>0, <2>3 DEF Release, Barred
      <4> QED
        BY <1>5, <2>0, <4>1, <4>2, PassedMoves DEF BarredAt
    <3>2. CASE pc[t] = "wait"
      <4>1. inBarrier = Proc /\ round[t] = 2 /\ p \notin barrierOpen
        BY <1>5, <2>0, <2>3, <3>2 DEF BarredAt, Release, Located
      <4> QED
        BY <1>5, <2>0, <3>1, <4>1 DEF BarredAt
    <3>3. CASE pc[t] = "arrive"
      <4>1. ~(round[t] = 2 /\ Cardinality(Proc) > 1)
        BY <2>3, <3>3 DEF Release, IsGlobal
      <4>2. p \notin barrierOpen /\ (p \in inBarrier => round[t] > 2)
        BY <1>5, <2>0, <3>3 DEF BarredAt
      <4>3. round'[t] > 2 /\ Cardinality(Proc) > 1 => round[t] > 2
        BY <1>0, <3>1, <4>1
      <4>4. round[t] > 2 /\ Cardinality(Proc) > 1 => inBarrier = Proc
        BY <1>5, <2>0 DEF BarredAt
      <4> QED
        BY <1>0, <1>5, <2>0, <3>1, <4>2, <4>3, <4>4 DEF BarredAt
    <3> QED
      BY <2>3, <3>2, <3>3 DEF Release
  <2>4. CASE Answered(t)
    <3>1. /\ pc[t] = "answer" /\ pc'[t] \in {"arrive", "done"} /\ round'[t] = round[t] /\ answered[t] /\ ~answered'[t]
      BY <1>0, <2>4 DEF Answered, Goto
    <3> QED
      BY <1>5, <2>0, <3>1 DEF BarredAt
  <2>5. ~LeaveBarrier(t)
    BY <2>0 DEF LeaveBarrier
  <2> QED
    BY <2>1, <2>2, <2>3, <2>4, <2>5 DEF Core
<1> QED
  BY <1>2, <1>4, <1>5 DEF Barred

\* An answer is given to a thread that waits for one.
LEMMA BarredAnswer ==
  ASSUME Flat, Barred, UNCHANGED <<pc, round, inBarrier>>, NEW t \in Thread, answered' = [answered EXCEPT ![t] = TRUE],
         pc[t] \in {"wait", "answer"}, barrierOpen' \subseteq barrierOpen,
         \A q \in Proc : flushingOut'[q] => flushingOut[q],
         \A p \in Proc : t = Core0(p) => /\ pc[t] = "wait" => inBarrier = Proc /\ p \notin barrierOpen'
                                         /\ pc[t] = "answer" => round[t] # 2 \/ ~flushingOut'[p]
  PROVE  Barred'
<1>1. answered'[t] /\ \A s \in Thread : s # t => answered'[s] = answered[s]
  BY DEF Flat
<1>2. \A s \in Thread : answered'[s] => pc'[s] \in {"wait", "answer"}
  BY <1>1 DEF Barred
<1>3. ASSUME NEW p \in Proc PROVE BarredAt(p)'
  <2>1. CASE t # Core0(p)
    <3>1. answered'[Core0(p)] = answered[Core0(p)]
      BY <1>1, <2>1, ThreadFacts
    <3> QED
      BY <3>1, BarredSame DEF Barred
  <2>2. CASE t = Core0(p)
    <3>1. BarredAt(p)
      BY DEF Barred
    <3>2. flushingOut[p] => pc[t] = "answer" /\ round[t] = 2
      BY <2>2, <3>1 DEF BarredAt
    <3>3. ~flushingOut'[p]
      BY <2>2, <3>2
    <3>4. p \notin barrierOpen'
      BY <2>2, <3>1 DEF BarredAt
    <3> QED
      BY <2>2, <3>1, <3>3, <3>4 DEF BarredAt
  <2> QED
    BY <2>1, <2>2
<1> QED
  BY <1>2, <1>3 DEF Barred

LEMMA BarredStep ==
  Flat /\ Deep /\ Located /\ Queued /\ Barred /\ [Next]_vars => Barred'
<1> SUFFICES ASSUME Flat, Deep, Located, Queued, Barred, [Next]_vars PROVE Barred'
  OBVIOUS
<1>0. answered \in [Thread -> BOOLEAN] /\ flushingOut \in [Proc -> BOOLEAN]
  BY DEF Flat
<1>1. ASSUME NEW t \in Thread, Core(t) PROVE Barred'
  BY <1>1, BarredCore
<1>2. ASSUME NEW p \in Proc, MessageCacheFlushOut(p) PROVE Barred'
  <2>1. /\ Process(p, "flushOut") /\ UNCHANGED <<pc, round, answered, barrierOpen, inBarrier>>
        /\ flushingOut' = [flushingOut EXCEPT ![p] = TRUE]
    BY <1>2 DEF MessageCacheFlushOut, threadVars
  <2>2. PICK h \in ToSet(queueMPInew[p]) : h.kind = "flushOut"
    BY <2>1, Takes
  <2>3. h.from \in Thread /\ ProcOf(h.from) = p /\ pc[h.from] = "answer" /\ round[h.from] = 2 /\ ~answered[h.from]
    BY <2>2, InQueue DEF Waits
  <2>4. h.from = Core0(p)
    BY <2>3, FromCore0
  <2>5. BarredAt(p)'
    BY <1>0, <2>1, <2>3, <2>4 DEF Barred, BarredAt
  <2>6. ASSUME NEW q \in Proc, q # p PROVE BarredAt(q)'
    BY <1>0, <2>1, <2>6 DEF Barred, BarredAt
  <2> QED
    BY <2>1, <2>5, <2>6 DEF Barred
<1>3. ASSUME NEW p \in Proc, MessageBarrierMPI(p) PROVE Barred'
  <2>1. /\ Process(p, "barrierMPI") /\ UNCHANGED <<pc, round, answered, flushingOut>>
        /\ inBarrier' = inBarrier \cup {p} /\ barrierOpen' = barrierOpen \cup {p} /\ inBarrier \subseteq Proc
    BY <1>3 DEF MessageBarrierMPI, threadVars, rankVars, Flat
  <2>2. PICK h \in ToSet(queueMPInew[p]) : h.kind = "barrierMPI"
    BY <2>1, Takes
  <2>3. h.from \in Thread /\ ProcOf(h.from) = p /\ pc[h.from] = "wait" /\ ~answered[h.from]
    BY <2>2, InQueue DEF Waits
  <2>4. h.from = Core0(p)
    BY <2>3, FromCore0
  <2>5. inBarrier = Proc => inBarrier' = Proc
    BY <2>1
  <2>6. ASSUME NEW q \in Proc PROVE BarredAt(q)'
    <3>1. BarredAt(q)
      BY DEF Barred
    <3>2. CASE q = p
      BY <2>1, <2>3, <2>4, <2>5, <3>1, <3>2 DEF BarredAt
    <3>3. CASE q # p
      BY <2>1, <2>5, <3>1, <3>3 DEF BarredAt
    <3> QED
      BY <3>2, <3>3
  <2> QED
    BY <2>1, <2>6 DEF Barred
<1>4. ASSUME NEW p \in Proc, MessageCacheFlushLocal(p) PROVE Barred'
  <2>1. /\ Process(p, "flushLocal") /\ UNCHANGED <<pc, round, flushingOut, barrierOpen, inBarrier>>
        /\ answered' = [answered EXCEPT ![Core0(p)] = TRUE]
    BY <1>4 DEF MessageCacheFlushLocal, threadVars, rankVars, mpiVars, Answer
  <2>2. PICK h \in ToSet(queueMPInew[p]) : h.kind = "flushLocal"
    BY <2>1, Takes
  <2>3. h.from \in Thread /\ ProcOf(h.from) = p /\ pc[h.from] = "answer" /\ round[h.from] = 3
    BY <2>2, InQueue DEF Waits
  <2>4. h.from = Core0(p)
    BY <2>3, FromCore0
  <2>5. PICK t \in Thread : t = Core0(p) /\ pc[t] = "answer" /\ round[t] = 3
    BY <2>3, <2>4
  <2>6. /\ answered' = [answered EXCEPT ![t] = TRUE] /\ barrierOpen' \subseteq barrierOpen
        /\ \A q \in Proc : flushingOut'[q] => flushingOut[q]
    BY <2>1, <2>5
  <2>7. \A q \in Proc : t = Core0(q) => /\ pc[t] = "wait" => inBarrier = Proc /\ q \notin barrierOpen'
                                        /\ pc[t] = "answer" => round[t] # 2 \/ ~flushingOut'[q]
    BY <2>5
  <2> QED
    BY <2>1, <2>5, <2>6, <2>7, BarredAnswer
<1>5. ASSUME NEW p \in Proc, MessageCacheClose(p) PROVE Barred'
  <2>1. /\ Process(p, "close") /\ UNCHANGED <<pc, round, flushingOut, barrierOpen, inBarrier>>
        /\ answered' = [answered EXCEPT ![Head(queueMPInew[p]).from] = TRUE]
    BY <1>5 DEF MessageCacheClose, threadVars, rankVars, mpiVars, Answer
  <2>2. PICK h \in ToSet(queueMPInew[p]) : h = Head(queueMPInew[p]) /\ h.kind = "close"
    BY <2>1, Takes
  <2>3. h.from \in Thread /\ ProcOf(h.from) = p /\ pc[h.from] = "answer" /\ round[h.from] = 4
    BY <2>2, InQueue DEF Waits
  <2>4. PICK t \in Thread : t = Head(queueMPInew[p]).from /\ pc[t] = "answer" /\ round[t] = 4
    BY <2>2, <2>3
  <2>5. /\ answered' = [answered EXCEPT ![t] = TRUE] /\ barrierOpen' \subseteq barrierOpen
        /\ \A q \in Proc : flushingOut'[q] => flushingOut[q]
    BY <2>1, <2>4
  <2>6. \A q \in Proc : t = Core0(q) => /\ pc[t] = "wait" => inBarrier = Proc /\ q \notin barrierOpen'
                                        /\ pc[t] = "answer" => round[t] # 2 \/ ~flushingOut'[q]
    BY <2>4
  <2> QED
    BY <2>1, <2>4, <2>5, <2>6, BarredAnswer
<1>6. ASSUME NEW p \in Proc, FlushOutDone(p) PROVE Barred'
  <2>1. /\ UNCHANGED <<pc, round, barrierOpen, inBarrier>> /\ flushingOut[p]
        /\ answered' = [answered EXCEPT ![Core0(p)] = TRUE] /\ flushingOut' = [flushingOut EXCEPT ![p] = FALSE]
    BY <1>6 DEF FlushOutDone, threadVars, mpiVars, Answer
  <2>2. Core0(p) \in Thread /\ pc[Core0(p)] = "answer" /\ \A q \in Proc : Core0(q) = Core0(p) => q = p
    BY <2>1, ThreadFacts DEF Barred, BarredAt
  <2>3. (\A q \in Proc : flushingOut'[q] => flushingOut[q]) /\ ~flushingOut'[p]
    BY <1>0, <2>1
  <2>4. PICK t \in Thread : t = Core0(p) /\ pc[t] = "answer" /\ \A q \in Proc : Core0(q) = t => q = p
    BY <2>2
  <2>5. answered' = [answered EXCEPT ![t] = TRUE] /\ barrierOpen' \subseteq barrierOpen
    BY <2>1, <2>4
  <2>6. \A q \in Proc : t = Core0(q) => /\ pc[t] = "wait" => inBarrier = Proc /\ q \notin barrierOpen'
                                        /\ pc[t] = "answer" => round[t] # 2 \/ ~flushingOut'[q]
    BY <2>3, <2>4
  <2> QED
    BY <2>1, <2>3, <2>4, <2>5, <2>6, BarredAnswer
<1>7. ASSUME NEW p \in Proc, FinishBarrier(p) PROVE Barred'
  <2>1. /\ UNCHANGED <<pc, round, flushingOut, inBarrier>> /\ p \in barrierOpen /\ inBarrier = Proc
        /\ answered' = [answered EXCEPT ![Core0(p)] = TRUE] /\ barrierOpen' = barrierOpen \ {p}
    BY <1>7 DEF FinishBarrier, Finish, BarrierEnded, threadVars, rankVars, Answer
  <2>2. Core0(p) \in Thread /\ pc[Core0(p)] = "wait" /\ \A q \in Proc : Core0(q) = Core0(p) => q = p
    BY <2>1, ThreadFacts DEF Barred, BarredAt
  <2> QED
    BY <2>1, <2>2, BarredAnswer
<1>8. CASE UNCHANGED <<pc, round, answered, flushingOut, barrierOpen, inBarrier>>
  BY <1>8, BarredSame DEF Barred
<1>9. ASSUME NEW t \in Thread, Combine(t) PROVE Barred'
  BY <1>8, <1>9 DEF Combine, threadVars, queueVars, rankVars, mpiVars
<1>10. ASSUME NEW p \in Proc, \/ MessageFlushFromCore(p) \/ BufferForRank(p) \/ FinishReceive(p) \/ BufferForCore(p)
                              \/ FinishFlushToRank(p) \/ LeaveFinish(p)
       PROVE  Barred'
  BY <1>8, <1>10 DEF MessageFlushFromCore, BufferForRank, FinishReceive, BufferForCore, FinishFlushToRank, LeaveFinish, Finish,
                     threadVars, queueVars, rankVars, mpiVars
<1>11. ASSUME NEW u \in Update, Match(u) PROVE Barred'
  BY <1>8, <1>11 DEF Match, threadVars, queueVars, rankVars
<1>12. CASE UNCHANGED vars
  BY <1>8, <1>12 DEF vars, threadVars, queueVars, rankVars, mpiVars
<1> QED
  BY <1>1, <1>2, <1>3, <1>4, <1>5, <1>6, <1>7, <1>9, <1>10, <1>11, <1>12 DEF Next, MPIThread

\* A thread is at most one round behind core 0, and then it has arrived.
LEMMA BehindCore0 ==
  ASSUME Flat, AtBarrier, NEW t \in Thread
  PROVE  LET c == Core0(ProcOf(t))
         IN  /\ c \in Thread /\ round[c] \in Int /\ round[t] \in Int /\ round[t] <= round[c]
             /\ round[t] = round[c] \/ (round[c] = round[t] + 1 /\ pc[t] = "arrive")
             /\ pc[c] = "wait" => t = c \/ (round[t] = round[c] /\ pc[t] = "arrive")
<1> DEFINE p == ProcOf(t)
<1>1. p \in Proc /\ Gathered(p) /\ Core0(p) \in Thread /\ (t # Core0(p) => t \in Others(p))
  BY ThreadFacts DEF AtBarrier
<1>2. round[t] \in Int /\ round[Core0(p)] \in Int
  BY <1>1 DEF Flat
<1> QED
  BY <1>1, <1>2 DEF Gathered, Here

LEMMA BarriersHold == Flat /\ Located /\ AtBarrier /\ Barred => BarrierHolds
<1> SUFFICES ASSUME Flat, Located, AtBarrier, Barred, NEW s \in Thread, NEW t \in Thread, NEW r \in 1..3,
                    round[t] > r, ProcOf(s) = ProcOf(t) \/ r = 2
             PROVE  ArrivedAt(s, r)
  BY DEF BarrierHolds
<1> DEFINE c == Core0(ProcOf(t))
           d == Core0(ProcOf(s))
<1>1. /\ round[c] \in Int /\ round[t] \in Int /\ round[t] <= round[c]
      /\ round[d] \in Int /\ round[s] \in Int
      /\ round[s] = round[d] \/ (round[d] = round[s] + 1 /\ pc[s] = "arrive")
      /\ pc[d] = "wait" => s = d \/ (round[s] = round[d] /\ pc[s] = "arrive")
  BY BehindCore0
<1>2. r \in Int /\ d \in Thread
  BY BehindCore0
<1>3. CASE round[d] > r
  BY <1>1, <1>2, <1>3 DEF ArrivedAt
<1>4. CASE ~(round[d] > r)
  <2>1. ProcOf(s) # ProcOf(t) /\ r = 2
    BY <1>1, <1>2, <1>4
  <2>2. inBarrier = Proc /\ ProcOf(s) \in Proc
    <3>1. ProcOf(s) \in Proc /\ ProcOf(t) \in Proc /\ IsFiniteSet(Proc)
      BY ThreadFacts
    <3>2. Cardinality(Proc) > 1
      <4>1. /\ {ProcOf(s), ProcOf(t)} \subseteq Proc
            /\ IsFiniteSet({ProcOf(s)}) /\ Cardinality({ProcOf(s)}) = 1
        BY <3>1, FS_Singleton
      <4>2. Cardinality({ProcOf(s)} \cup {ProcOf(t)}) = 2
        BY <2>1, <4>1, FS_AddElement
      <4>3. Cardinality({ProcOf(s)} \cup {ProcOf(t)}) <= Cardinality(Proc) /\ Cardinality(Proc) \in Nat
        BY <3>1, FS_Subset, FS_CardinalityType
      <4> QED
        BY <4>2, <4>3
    <3>3. round[c] > 2
      BY <1>1, <2>1
    <3> QED
      BY <3>1, <3>2, <3>3 DEF Barred, BarredAt
  <2>3. pc[d] = "wait" /\ round[d] = 2
    BY <1>2, <1>4, <2>1, <2>2 DEF Barred, BarredAt, Located
  <2> QED
    BY <1>1, <2>1, <2>3 DEF ArrivedAt
<1> QED
  BY <1>3, <1>4

Threads == Flat /\ Deep /\ Located /\ AtBarrier /\ Queued /\ Barred

LEMMA InitThreads == Init => Threads
<1> SUFFICES ASSUME Init PROVE Threads
  OBVIOUS
<1>1. Flat
  <2>1. \A t \in Thread : {u \in Update : u.from = t} \in SUBSET Update
    OBVIOUS
  <2>2. dirty \in [Thread -> SUBSET Update]
    BY <2>1 DEF Init
  <2>3. 2 * Cores \in Nat /\ RankBuffers \in Nat /\ CoreBuffers \in Int /\ Cores \in Int
    BY FlushAssumption
  <2> QED
    BY <2>2, <2>3 DEF Init, Flat
<1>2. Deep
  BY DEF Init, Deep
<1>3. Located
  BY DEF Init, Located
<1>4. AtBarrier
  <2>1. ASSUME NEW p \in Proc PROVE Gathered(p)
    <3>1. Core0(p) \in Thread /\ \A s \in Others(p) : s \in Thread
      BY ThreadFacts
    <3>2. Here(p) = {}
      BY <3>1 DEF Here, Init
    <3> QED
      BY <3>1, <3>2, FS_EmptySet DEF Init, Gathered
  <2> QED
    BY <2>1 DEF AtBarrier
<1>5. Queued
  BY DEF Init, Queued, Lined
<1>6. Barred
  BY ThreadFacts DEF Init, Barred, BarredAt
<1> QED
  BY <1>1, <1>2, <1>3, <1>4, <1>5, <1>6 DEF Threads

LEMMA ThreadsStep == Threads /\ [Next]_vars => Threads'
BY FlatStep, DeepStep, LocatedStep, AtBarrierStep, QueuedStep, BarredStep DEF Threads

LEMMA ThreadsHold == Spec => []Threads
BY InitThreads, ThreadsStep, PTL DEF Spec

\* Every variable holds what the code puts there: threads are where they can be in the round they
\* are in, buffers hold updates or nothing, and queues hold messages (mdlFinishCache).
THEOREM TypeCorrect == Spec => [](Flat /\ Deep /\ Located)
BY ThreadsHold, PTL DEF Threads

\* Nobody passes a barrier of mdlFlushCache before every thread of its process has reached it, and
\* nobody passes the global one before every thread of every process has (ThreadBarrier).
THEOREM Barriers == Spec => []BarrierHolds
<1>1. Threads => BarrierHolds
  BY BarriersHold DEF Threads
<1> QED
  BY <1>1, ThreadsHold, PTL

------------------------------------------------------------------------------
(* The way of an update *)

\* The messages of process p that carry an update, and steps that leave them alone
Buffers(p) == {m \in ToSet(queueMPInew[p]) : m.kind = "flushFromCore"}
Steady ==
  \A p \in Proc : /\ Buffers(p)' = Buffers(p)
                  /\ \A m \in ToSet(queueMPInew[p])' : m \in ToSet(queueMPInew[p]) \/ (m.kind # "flushFromCore" /\ m.update = None)
                  /\ OneMessage(queueMPInew[p]) => OneMessage(queueMPInew[p])'
placeVars == <<dirty, coreFlushBuffer, held, flushHeadBusy, net, arrived, stuck, flushBuffersByCore, wqCacheFlush, combined,
               localFlushBuffers>>

\* The steps that move updates
Moves ==
  \/ \E t \in Thread : FlushElement(t) \/ FlushCoreBuffer(t) \/ Combine(t)
  \/ \E p \in Proc : \/ MessageFlushFromCore(p) \/ BufferForRank(p) \/ MessageCacheFlushOut(p) \/ MessageCacheFlushLocal(p)
                     \/ FinishReceive(p) \/ BufferForCore(p)
  \/ \E u \in Update : Match(u)

LEMMA SentOne ==
  ASSUME Deep, NEW t \in Thread, NEW k \in Kinds, NEW u \in Update \cup {None}, Send(t, k, u)
  PROVE  \E m \in Message :
           /\ m.kind = k /\ m.from = t /\ m.update = u
           /\ ToSet(queueMPInew[ProcOf(t)])' = ToSet(queueMPInew[ProcOf(t)]) \cup {m}
           /\ \A o \in Proc \ {ProcOf(t)} : queueMPInew'[o] = queueMPInew[o]
           /\ OneMessage(queueMPInew[ProcOf(t)]) /\ (\A v \in ToSet(queueMPInew[ProcOf(t)]) : u # None => v.update # u)
                => OneMessage(queueMPInew[ProcOf(t)])'
<1> DEFINE p == ProcOf(t)
<1>1. PICK m, q, r : m = [kind |-> k, from |-> t, update |-> u] /\ q = queueMPInew[p] /\ r = queueMPInew'[p]
  OBVIOUS
<1>2. /\ m \in Message /\ m.kind = k /\ m.from = t /\ m.update = u /\ p \in Proc
      /\ q \in Seq(Message) /\ r = Append(q, m) /\ \A o \in Proc \ {p} : queueMPInew'[o] = queueMPInew[o]
  BY <1>1, Sends
<1>3. PICK n : n = Len(q) + 1
  OBVIOUS
<1>4. /\ DOMAIN r = (DOMAIN q) \cup {n} /\ r[n] = m /\ ToSet(r) = ToSet(q) \cup {m}
      /\ \A i \in DOMAIN q : r[i] = q[i] /\ q[i] \in ToSet(q)
  <2>1. \A i \in DOMAIN q : q[i] \in ToSet(q)
    BY DEF ToSet
  <2> QED
    BY <1>2, <1>3, <2>1, AppendIndex
<1>5. OneMessage(q) /\ (\A v \in ToSet(q) : u # None => v.update # u) => OneMessage(r)
  BY <1>2, <1>4 DEF OneMessage
<1> QED
  BY <1>1, <1>2, <1>4, <1>5

LEMMA TookOne ==
  ASSUME Deep, NEW p \in Proc, NEW k, Process(p, k)
  PROVE  \E h \in Message :
           /\ h = Head(queueMPInew[p]) /\ h.kind = k /\ ToSet(queueMPInew[p]) = ToSet(queueMPInew[p])' \cup {h}
           /\ \A o \in Proc \ {p} : queueMPInew'[o] = queueMPInew[o]
           /\ OneMessage(queueMPInew[p]) => OneMessage(queueMPInew[p])' /\ (h.update # None =>
                \A m \in ToSet(queueMPInew[p])' : m.update # h.update)
           /\ Free(p) /\ ~finishing[p]
<1>1. PICK h, q, r : h = Head(queueMPInew[p]) /\ q = queueMPInew[p] /\ r = queueMPInew'[p]
  OBVIOUS
<1>2. /\ h \in Message /\ h.kind = k /\ q \in Seq(Message) /\ q # <<>> /\ r = Tail(q) /\ Free(p) /\ ~finishing[p]
      /\ \A o \in Proc \ {p} : queueMPInew'[o] = queueMPInew[o]
  BY <1>1, Takes
<1>3. /\ h = q[1] /\ 1 \in DOMAIN q /\ ToSet(q) = ToSet(r) \cup {h}
      /\ \A i \in DOMAIN r : i + 1 \in DOMAIN q /\ r[i] = q[i + 1] /\ i + 1 # 1 /\ i \in Nat
  BY <1>1, <1>2, TailIndex
<1>4. \A i, j \in DOMAIN r : i + 1 = j + 1 => i = j
  BY <1>3
<1>5. ASSUME OneMessage(q) PROVE OneMessage(r)
  <2>1. ASSUME NEW i \in DOMAIN r, NEW j \in DOMAIN r, r[i].update = r[j].update, r[i].update # None PROVE i = j
    <3>1. i + 1 = j + 1
      BY <1>3, <1>5, <2>1 DEF OneMessage
    <3> QED
      BY <1>4, <3>1
  <2> QED
    BY <2>1 DEF OneMessage
<1>6. ASSUME OneMessage(q), h.update # None, NEW m \in ToSet(r) PROVE m.update # h.update
  <2>1. PICK i \in DOMAIN r : m = r[i]
    BY DEF ToSet
  <2>2. i + 1 \in DOMAIN q /\ m = q[i + 1] /\ i + 1 # 1
    BY <1>3, <2>1
  <2> QED
    BY <1>3, <1>6, <2>2 DEF OneMessage
<1> QED
  BY <1>1, <1>2, <1>3, <1>5, <1>6

LEMMA SentControl ==
  ASSUME Deep, NEW t \in Thread, NEW k \in Kinds, k # "flushFromCore", Send(t, k, None)
  PROVE  Steady
<1>1. PICK m \in Message :
        /\ m.kind = k /\ m.update = None
        /\ ToSet(queueMPInew[ProcOf(t)])' = ToSet(queueMPInew[ProcOf(t)]) \cup {m}
        /\ \A o \in Proc \ {ProcOf(t)} : queueMPInew'[o] = queueMPInew[o]
        /\ OneMessage(queueMPInew[ProcOf(t)]) => OneMessage(queueMPInew[ProcOf(t)])'
  BY SentOne
<1> QED
  BY <1>1 DEF Steady, Buffers

LEMMA TookControl ==
  ASSUME Deep, NEW p \in Proc, NEW k, k # "flushFromCore", Process(p, k)
  PROVE  Steady
<1>1. PICK h \in Message :
        /\ h.kind = k /\ ToSet(queueMPInew[p]) = ToSet(queueMPInew[p])' \cup {h}
        /\ \A o \in Proc \ {p} : queueMPInew'[o] = queueMPInew[o]
        /\ OneMessage(queueMPInew[p]) => OneMessage(queueMPInew[p])'
  BY TookOne
<1> QED
  BY <1>1 DEF Steady, Buffers

\* Every other step leaves the updates where they are.
LEMMA WhoMovesUpdates ==
  ASSUME Deep, [Next]_vars, ~Moves
  PROVE  UNCHANGED placeVars /\ Steady
<1>s. UNCHANGED queueMPInew => Steady
  BY DEF Steady, Buffers
<1>1. ASSUME NEW t \in Thread, TakeSpare(t) \/ Cleared(t) \/ Answered(t) PROVE UNCHANGED placeVars /\ Steady
  BY <1>1, <1>s DEF TakeSpare, Cleared, Answered, placeVars, queueVars, rankVars, mpiVars, localVars
<1>2. ASSUME NEW t \in Thread, CollectThenMPI(t) PROVE UNCHANGED placeVars /\ Steady
  <2>1. Steady
    BY <1>2, SentControl DEF CollectThenMPI, Kinds
  <2> QED
    BY <1>2, <2>1 DEF CollectThenMPI, placeVars, rankVars, mpiVars, localVars
<1>3. ASSUME NEW t \in Thread, Release(t) \/ LeaveBarrier(t) PROVE UNCHANGED placeVars /\ Steady
  <2>1. Passed(t)
    BY <1>3 DEF Release, LeaveBarrier
  <2>2. Steady
    BY <1>s, <2>1, PassedSends, SentControl
  <2> QED
    BY <1>3, <2>2 DEF Release, LeaveBarrier, placeVars, rankVars, mpiVars, localVars
<1>4. ASSUME NEW p \in Proc, MessageBarrierMPI(p) \/ MessageCacheClose(p) PROVE UNCHANGED placeVars /\ Steady
  <2>1. PICK k \in {"barrierMPI", "close"} : Process(p, k)
    BY <1>4 DEF MessageBarrierMPI, MessageCacheClose
  <2>2. Steady
    BY <2>1, TookControl
  <2> QED
    BY <1>4, <2>2 DEF MessageBarrierMPI, MessageCacheClose, placeVars, threadVars, rankVars, mpiVars, localVars
<1>5. ASSUME NEW p \in Proc, FlushOutDone(p) \/ FinishFlushToRank(p) \/ FinishBarrier(p) \/ LeaveFinish(p)
      PROVE  UNCHANGED placeVars /\ Steady
  BY <1>5, <1>s DEF FlushOutDone, FinishFlushToRank, FinishBarrier, LeaveFinish, placeVars, threadVars, queueVars, rankVars,
                    mpiVars, localVars
<1>6. CASE UNCHANGED vars
  BY <1>6, <1>s DEF vars, placeVars, threadVars, queueVars, rankVars, mpiVars, localVars
<1> QED
  BY <1>1, <1>2, <1>3, <1>4, <1>5, <1>6 DEF Next, Core, MPIThread, Moves

------------------------------------------------------------------------------
(* Homes *)

LEMMA OfCoresStep == Flat /\ Deep /\ OfCores /\ [Next]_vars => OfCores'
<1> SUFFICES ASSUME Flat, Deep, OfCores, [Next]_vars PROVE OfCores'
  OBVIOUS
<1>0. dirty \in [Thread -> SUBSET Update] /\ coreFlushBuffer \in [Thread -> Update \cup {None}]
  BY DEF Flat
<1>s. UNCHANGED <<dirty, coreFlushBuffer>> => OfCores'
  BY DEF OfCores
<1>1. ASSUME NEW t \in Thread, FlushElement(t) PROVE OfCores'
  <2>1. PICK u \in dirty[t] : /\ coreFlushBuffer' = [coreFlushBuffer EXCEPT ![t] = u]
                              /\ dirty' = [dirty EXCEPT ![t] = dirty[t] \ {u}]
    BY <1>1 DEF FlushElement
  <2> QED
    BY <1>0, <2>1 DEF OfCores
<1>2. ASSUME NEW t \in Thread, FlushCoreBuffer(t) PROVE OfCores'
  BY <1>0, <1>2 DEF FlushCoreBuffer, OfCores
<1>3. ASSUME NEW t \in Thread, Combine(t) PROVE OfCores'
  BY <1>3, <1>s DEF Combine, threadVars
<1>4. ASSUME NEW p \in Proc,
             \/ MessageFlushFromCore(p) \/ BufferForRank(p) \/ MessageCacheFlushOut(p) \/ MessageCacheFlushLocal(p)
             \/ FinishReceive(p) \/ BufferForCore(p)
      PROVE  OfCores'
  BY <1>4, <1>s DEF MessageFlushFromCore, BufferForRank, MessageCacheFlushOut, MessageCacheFlushLocal, FinishReceive,
                    BufferForCore, threadVars
<1>5. ASSUME NEW u \in Update, Match(u) PROVE OfCores'
  BY <1>5, <1>s DEF Match, threadVars
<1>6. CASE ~Moves
  BY <1>6, <1>s, WhoMovesUpdates DEF placeVars
<1> QED
  BY <1>1, <1>2, <1>3, <1>4, <1>5, <1>6 DEF Moves

OfQueue(p) ==
  \A m \in ToSet(queueMPInew[p]) : /\ m.kind = "flushFromCore" <=> m.update # None
                                   /\ m.update # None => m.update.from = m.from

LEMMA OfQueuesStep == Flat /\ Deep /\ OfCores /\ OfQueues /\ [Next]_vars => OfQueues'
<1> SUFFICES ASSUME Flat, Deep, OfCores, OfQueues, [Next]_vars PROVE OfQueues'
  OBVIOUS
<1>0. \A p \in Proc : OfQueue(p)
  BY DEF OfQueues, OfQueue
<1>s. ASSUME Steady PROVE OfQueues'
  <2>1. ASSUME NEW p \in Proc, NEW m \in ToSet(queueMPInew[p])'
        PROVE  m.kind = "flushFromCore" <=> m.update # None
    BY <1>s, <2>1 DEF Steady, OfQueues
  <2>2. ASSUME NEW p \in Proc, NEW m \in ToSet(queueMPInew[p])', m.update # None
        PROVE  m.update.from = m.from
    BY <1>s, <2>2 DEF Steady, OfQueues
  <2> QED
    BY <2>1, <2>2 DEF OfQueues
<1>u. ASSUME UNCHANGED queueMPInew PROVE OfQueues'
  BY <1>u DEF OfQueues
<1>1. ASSUME NEW t \in Thread, FlushCoreBuffer(t) PROVE OfQueues'
  <2>1. /\ coreFlushBuffer[t] \in Update \cup {None} /\ coreFlushBuffer[t] # None /\ coreFlushBuffer[t].from = t
        /\ Send(t, "flushFromCore", coreFlushBuffer[t])
    BY <1>1 DEF FlushCoreBuffer, Flat, OfCores
  <2>2. PICK m \in Message :
          /\ m.kind = "flushFromCore" /\ m.from = t /\ m.update = coreFlushBuffer[t]
          /\ ToSet(queueMPInew[ProcOf(t)])' = ToSet(queueMPInew[ProcOf(t)]) \cup {m}
          /\ \A o \in Proc \ {ProcOf(t)} : queueMPInew'[o] = queueMPInew[o]
    BY <2>1, SentOne DEF Kinds
  <2>3. m.update # None /\ m.update.from = m.from
    BY <2>1, <2>2
  <2>4. ASSUME NEW o \in Proc, NEW n \in ToSet(queueMPInew[o])' PROVE n \in ToSet(queueMPInew[o]) \/ n = m
    BY <2>2, <2>4
  <2> QED
    BY <1>0, <2>2, <2>3, <2>4 DEF OfQueues, OfQueue
<1>2. ASSUME NEW p \in Proc, NEW k, Process(p, k) PROVE OfQueues'
  <2>1. PICK h \in Message : /\ ToSet(queueMPInew[p]) = ToSet(queueMPInew[p])' \cup {h}
                             /\ \A o \in Proc \ {p} : queueMPInew'[o] = queueMPInew[o]
    BY <1>2, TookOne
  <2>2. ASSUME NEW o \in Proc, NEW n \in ToSet(queueMPInew[o])' PROVE n \in ToSet(queueMPInew[o])
    BY <2>1, <2>2
  <2> QED
    BY <1>0, <2>2 DEF OfQueues, OfQueue
<1>3. ASSUME NEW t \in Thread, FlushElement(t) \/ Combine(t) PROVE OfQueues'
  BY <1>3, <1>u DEF FlushElement, Combine, queueVars
<1>4. ASSUME NEW p \in Proc, MessageFlushFromCore(p) \/ MessageCacheFlushOut(p) \/ MessageCacheFlushLocal(p) PROVE OfQueues'
  BY <1>2, <1>4 DEF MessageFlushFromCore, MessageCacheFlushOut, MessageCacheFlushLocal
<1>5. ASSUME NEW p \in Proc, BufferForRank(p) \/ FinishReceive(p) \/ BufferForCore(p) PROVE OfQueues'
  BY <1>5, <1>u DEF BufferForRank, FinishReceive, BufferForCore, queueVars
<1>6. ASSUME NEW u \in Update, Match(u) PROVE OfQueues'
  BY <1>6, <1>u DEF Match, queueVars
<1>7. CASE ~Moves
  BY <1>7, <1>s, WhoMovesUpdates
<1> QED
  BY <1>1, <1>3, <1>4, <1>5, <1>6, <1>7 DEF Moves

\* With at most one buffer for each rank, the list without the buffer of rank q
LEMMA ElsewhereParts ==
  ASSUME NEW busy \in Seq(Update), OneEach(busy), NEW q, NEW r, r = Elsewhere(busy, q)
  PROVE  /\ r \in Seq(Update) /\ OneEach(r) /\ \A v \in ToSet(r) : RankOf(v) # q
         /\ ToSet(busy) = ToSet(r) \cup Towards(busy, q)
         /\ IsFiniteSet(Towards(busy, q)) /\ Len(r) + Cardinality(Towards(busy, q)) = Len(busy)
         /\ Towards(busy, q) \in SUBSET Update /\ \A v \in Towards(busy, q) : RankOf(v) = q
<1>0. Len(busy) \in Nat /\ DOMAIN busy = 1..Len(busy) /\ \A i \in DOMAIN busy : busy[i] \in Update
  OBVIOUS
<1>1. \A v \in Towards(busy, q) : RankOf(v) = q /\ v \in Update
  BY <1>0 DEF Towards, ToSet
<1>2. CASE {i \in DOMAIN busy : RankOf(busy[i]) = q} = {}
  <2>1. r = busy
    BY <1>2 DEF Elsewhere
  <2>2. Towards(busy, q) = {}
    BY <1>2 DEF Towards, ToSet
  <2>3. \A v \in ToSet(r) : RankOf(v) # q
    BY <2>1, <2>2 DEF Towards
  <2>4. PICK T : T = Towards(busy, q)
    OBVIOUS
  <2>5. IsFiniteSet(T) /\ Cardinality(T) = 0
    BY <2>2, <2>4, FS_EmptySet
  <2> QED
    BY <1>0, <1>1, <2>1, <2>2, <2>3, <2>4, <2>5
<1>3. CASE {i \in DOMAIN busy : RankOf(busy[i]) = q} # {}
  <2>1. PICK i \in DOMAIN busy : RankOf(busy[i]) = q /\ r = RemoveAt(busy, i)
    BY <1>3 DEF Elsewhere
  <2>2. /\ r \in Seq(Update) /\ Len(r) = Len(busy) - 1 /\ i \in 1..Len(busy)
        /\ \A j \in DOMAIN r : j \in 1..(Len(busy) - 1) /\ r[j] = IF j < i THEN busy[j] ELSE busy[j + 1]
        /\ DOMAIN r = 1..(Len(busy) - 1)
    BY <2>1, RemoveAtIs
  <2>3. \A k \in DOMAIN busy : RankOf(busy[k]) = q => k = i
    BY <2>1 DEF OneEach
  <2>4. ASSUME NEW j \in DOMAIN r
        PROVE  \E k \in DOMAIN busy : k # i /\ r[j] = busy[k] /\ k = IF j < i THEN j ELSE j + 1
    <3>1. j \in 1..Len(busy) /\ j + 1 \in 1..Len(busy)
      BY <1>0, <2>2
    <3> QED
      BY <1>0, <2>2, <3>1
  <2>5. ASSUME NEW k \in DOMAIN busy, k # i PROVE \E j \in DOMAIN r : r[j] = busy[k]
    <3>1. CASE k < i
      <4>1. k \in DOMAIN r
        BY <1>0, <2>2, <3>1
      <4> QED
        BY <2>2, <3>1, <4>1
    <3>2. CASE ~(k < i)
      <4>1. k - 1 \in DOMAIN r /\ ~(k - 1 < i) /\ (k - 1) + 1 = k
        BY <1>0, <2>2, <2>5, <3>2
      <4> QED
        BY <2>2, <4>1
    <3> QED
      BY <3>1, <3>2
  <2>6. Towards(busy, q) = {busy[i]}
    BY <2>1, <2>3 DEF Towards, ToSet
  <2>7. \A v \in ToSet(r) : RankOf(v) # q
    BY <2>3, <2>4 DEF ToSet
  <2>8. ToSet(busy) = ToSet(r) \cup {busy[i]}
    BY <2>1, <2>4, <2>5 DEF ToSet
  <2>9. OneEach(r)
    <3>1. ASSUME NEW j \in DOMAIN r, NEW k \in DOMAIN r, RankOf(r[j]) = RankOf(r[k]) PROVE j = k
      <4>1. PICK a \in DOMAIN busy : r[j] = busy[a] /\ a = IF j < i THEN j ELSE j + 1
        BY <2>4
      <4>2. PICK b \in DOMAIN busy : r[k] = busy[b] /\ b = IF k < i THEN k ELSE k + 1
        BY <2>4
      <4>3. a = b
        BY <3>1, <4>1, <4>2 DEF OneEach
      <4>4. j \in Int /\ k \in Int /\ i \in Int
        BY <1>0, <2>2
      <4> QED
        BY <4>1, <4>2, <4>3, <4>4
    <3> QED
      BY <3>1 DEF OneEach
  <2>10. PICK T, x : T = Towards(busy, q) /\ x = busy[i]
    OBVIOUS
  <2>11. IsFiniteSet(T) /\ Cardinality(T) = 1
    BY <2>6, <2>10, FS_Singleton
  <2> QED
    BY <1>0, <1>1, <2>2, <2>6, <2>7, <2>8, <2>9, <2>10, <2>11
<1> QED
  BY <1>2, <1>3

\* The list without its last buffer, and with one more in front
LEMMA FrontParts ==
  ASSUME NEW q \in Seq(Update), OneEach(q), Len(q) > 0, NEW r, r = Front(q)
  PROVE  /\ r \in Seq(Update) /\ OneEach(r) /\ Len(r) + 1 = Len(q) /\ Last(q) \in Update
         /\ ToSet(q) = ToSet(r) \cup {Last(q)} /\ \A v \in ToSet(r) : RankOf(v) # RankOf(Last(q))
<1>1. /\ r \in Seq(Update) /\ Len(r) = Len(q) - 1 /\ Len(q) \in Nat /\ Last(q) = q[Len(q)] /\ Last(q) \in Update
      /\ DOMAIN r = 1..(Len(q) - 1) /\ DOMAIN q = 1..Len(q) /\ \A j \in DOMAIN r : r[j] = q[j]
  BY FrontIs
<1>2. PICK n : n = Len(q)
  OBVIOUS
<1>3. n \in DOMAIN q /\ n \notin DOMAIN r /\ DOMAIN q = (DOMAIN r) \cup {n}
  BY <1>1, <1>2
<1>4. \A j \in DOMAIN r : RankOf(r[j]) # RankOf(q[n])
  BY <1>1, <1>3 DEF OneEach
<1>5. OneEach(r)
  BY <1>1, <1>3 DEF OneEach
<1>6. ToSet(q) = ToSet(r) \cup {q[n]}
  BY <1>1, <1>3 DEF ToSet
<1>7. \A v \in ToSet(r) : RankOf(v) # RankOf(q[n])
  BY <1>4 DEF ToSet
<1> QED
  BY <1>1, <1>2, <1>5, <1>6, <1>7

LEMMA PushParts ==
  ASSUME NEW q \in Seq(Update), OneEach(q), NEW x \in Update, \A v \in ToSet(q) : RankOf(v) # RankOf(x),
         NEW r, r = <<x>> \o q
  PROVE  r \in Seq(Update) /\ OneEach(r) /\ Len(r) = Len(q) + 1 /\ ToSet(r) = ToSet(q) \cup {x}
<1>1. /\ r \in Seq(Update) /\ Len(r) = Len(q) + 1 /\ Len(q) \in Nat
      /\ DOMAIN r = 1..(Len(q) + 1) /\ DOMAIN q = 1..Len(q)
      /\ r[1] = x /\ \A j \in DOMAIN q : r[j + 1] = q[j]
  BY PushIs
<1>2. /\ \A j \in DOMAIN q : j + 1 \in DOMAIN r /\ j + 1 # 1 /\ j \in Int
      /\ 1 \in DOMAIN r
  BY <1>1
<1>3. \A i \in DOMAIN r : i = 1 \/ \E j \in DOMAIN q : i = j + 1
  <2>1. \A i \in 1..(Len(q) + 1) : i = 1 \/ (i - 1 \in 1..Len(q) /\ i = (i - 1) + 1)
    BY <1>1
  <2> QED
    BY <1>1, <2>1
<1>4. \A j \in DOMAIN q : q[j] \in ToSet(q)
  BY DEF ToSet
<1>5. ToSet(r) = ToSet(q) \cup {x}
  <2>1. \A i \in DOMAIN r : r[i] \in ToSet(q) \cup {x}
    BY <1>1, <1>3, <1>4
  <2>2. \A j \in DOMAIN q : q[j] \in ToSet(r)
    BY <1>1, <1>2 DEF ToSet
  <2>3. x \in ToSet(r)
    BY <1>1, <1>2 DEF ToSet
  <2> QED
    BY <2>1, <2>2, <2>3 DEF ToSet
<1>6. ASSUME NEW i \in DOMAIN r, NEW k \in DOMAIN r, RankOf(r[i]) = RankOf(r[k]) PROVE i = k
  <2>1. CASE i = 1 /\ k = 1
    BY <2>1
  <2>2. ASSUME NEW j \in DOMAIN q, i = j + 1, k = 1 PROVE FALSE
    BY <1>1, <1>4, <1>6, <2>2
  <2>3. ASSUME NEW j \in DOMAIN q, k = j + 1, i = 1 PROVE FALSE
    BY <1>1, <1>4, <1>6, <2>3
  <2>4. ASSUME NEW j \in DOMAIN q, NEW l \in DOMAIN q, i = j + 1, k = l + 1 PROVE i = k
    BY <1>1, <1>6, <2>4 DEF OneEach
  <2> QED
    BY <1>3, <2>1, <2>2, <2>3, <2>4
<1> QED
  BY <1>1, <1>5, <1>6 DEF OneEach

\* What flush_element does to the list of buffers and to MPI: the buffers that leave the list are sent.
LEMMA FlushElementSends ==
  ASSUME Flat, Deep, NEW p \in Proc, MessageFlushFromCore(p), OneEach(flushHeadBusy[p])
  PROVE  \E u \in Update \cup {None}, r \in Seq(Update), F \in SUBSET Update :
           /\ u = Head(queueMPInew[p]).update
           /\ held' = [held EXCEPT ![p] = u] /\ flushHeadBusy' = [flushHeadBusy EXCEPT ![p] = r] /\ net' = net \cup F
           /\ OneEach(r) /\ \A v \in ToSet(r) : RankOf(v) # RankOf(u)
           /\ ToSet(flushHeadBusy[p]) = ToSet(r) \cup F /\ ToSet(r) \cap F = {}
           /\ IsFiniteSet(F) /\ Len(r) + Cardinality(F) = Len(flushHeadBusy[p])
<1>1. PICK u, busy, others, full : /\ u = Head(queueMPInew[p]).update /\ busy = flushHeadBusy[p]
                                   /\ others = Elsewhere(busy, RankOf(u)) /\ full = Towards(busy, RankOf(u))
  OBVIOUS
<1>2. u \in Update \cup {None} /\ busy \in Seq(Update) /\ Len(busy) \in Nat
  BY <1>1, Takes DEF MessageFlushFromCore, Deep
<1>3. /\ others \in Seq(Update) /\ OneEach(others) /\ \A v \in ToSet(others) : RankOf(v) # RankOf(u)
      /\ ToSet(busy) = ToSet(others) \cup full
      /\ IsFiniteSet(full) /\ Len(others) + Cardinality(full) = Len(busy)
      /\ full \in SUBSET Update /\ \A v \in full : RankOf(v) = RankOf(u)
  BY <1>1, <1>2, ElsewhereParts
<1>4. Len(others) \in Nat /\ Cardinality(full) \in Nat
  BY <1>3, FS_CardinalityType
<1>5. /\ held' = [held EXCEPT ![p] = u]
      /\ flushHeadBusy' = [flushHeadBusy EXCEPT ![p] = IF RankBuffers - Len(others) < KeepFree THEN Front(others) ELSE others]
      /\ net' = net \cup full \cup (IF RankBuffers - Len(others) < KeepFree THEN {Last(others)} ELSE {})
  BY <1>1 DEF MessageFlushFromCore
<1>6. CASE RankBuffers - Len(others) < KeepFree
  <2>1. Len(others) > 0
    BY <1>3, <1>6, EvictIs
  <2>2. PICK r, x : r = Front(others) /\ x = Last(others)
    OBVIOUS
  <2>3. /\ r \in Seq(Update) /\ OneEach(r) /\ Len(r) + 1 = Len(others) /\ x \in Update
        /\ ToSet(others) = ToSet(r) \cup {x} /\ \A v \in ToSet(r) : RankOf(v) # RankOf(x)
    BY <1>3, <2>1, <2>2, FrontParts
  <2>4. PICK F : F = full \cup {x}
    OBVIOUS
  <2>5. x \notin full
    BY <1>3, <2>3
  <2>6. IsFiniteSet(F) /\ Cardinality(F) = Cardinality(full) + 1
    BY <1>3, <2>4, <2>5, FS_AddElement
  <2>7. Len(r) + Cardinality(F) = Len(busy)
    <3>1. Len(r) \in Nat
      BY <2>3
    <3> QED
      BY <1>3, <1>4, <2>3, <2>6, <3>1
  <2>8. ToSet(r) \cap F = {} /\ ToSet(busy) = ToSet(r) \cup F /\ F \in SUBSET Update
    BY <1>3, <2>3, <2>4
  <2>9. held' = [held EXCEPT ![p] = u] /\ flushHeadBusy' = [flushHeadBusy EXCEPT ![p] = r] /\ net' = net \cup F
    BY <1>5, <1>6, <2>2, <2>4
  <2>10. \A v \in ToSet(r) : RankOf(v) # RankOf(u)
    BY <1>3, <2>3
  <2> QED
    BY <1>1, <1>2, <2>3, <2>6, <2>7, <2>8, <2>9, <2>10
<1>7. CASE ~(RankBuffers - Len(others) < KeepFree)
  <2>1. held' = [held EXCEPT ![p] = u] /\ flushHeadBusy' = [flushHeadBusy EXCEPT ![p] = others] /\ net' = net \cup full
    BY <1>5, <1>7
  <2>2. ToSet(others) \cap full = {}
    BY <1>3
  <2> QED
    BY <1>1, <1>2, <1>3, <2>1, <2>2
<1> QED
  BY <1>6, <1>7

LEMMA OfRanksStep ==
  Flat /\ Deep /\ Queued /\ OfQueues /\ OfRanks /\ (\A p \in Proc : OneBuffer(p)) /\ [Next]_vars => OfRanks'
<1> SUFFICES ASSUME Flat, Deep, Queued, OfQueues, OfRanks, \A p \in Proc : OneBuffer(p), [Next]_vars PROVE OfRanks'
  OBVIOUS
<1>0. /\ held \in [Proc -> Update \cup {None}] /\ flushHeadBusy \in [Proc -> Seq(Update)]
      /\ \A p \in Proc : OneEach(flushHeadBusy[p])
  BY DEF Flat, Deep, OneBuffer
<1>s. UNCHANGED <<held, flushHeadBusy>> => OfRanks'
  BY DEF OfRanks
<1>1. ASSUME NEW p \in Proc, MessageFlushFromCore(p) PROVE OfRanks'
  <2>1. PICK u \in Update \cup {None}, r \in Seq(Update), F \in SUBSET Update :
           /\ u = Head(queueMPInew[p]).update
           /\ held' = [held EXCEPT ![p] = u] /\ flushHeadBusy' = [flushHeadBusy EXCEPT ![p] = r] /\ net' = net \cup F
           /\ OneEach(r) /\ \A v \in ToSet(r) : RankOf(v) # RankOf(u)
           /\ ToSet(flushHeadBusy[p]) = ToSet(r) \cup F /\ ToSet(r) \cap F = {}
           /\ IsFiniteSet(F) /\ Len(r) + Cardinality(F) = Len(flushHeadBusy[p])
    <3>1. OneEach(flushHeadBusy[p])
      BY <1>0
    <3> QED
      BY <1>1, <3>1, FlushElementSends
  <2>2. PICK h : h = Head(queueMPInew[p])
    OBVIOUS
  <2>3. h \in ToSet(queueMPInew[p]) /\ h.update = u
    BY <1>1, <2>1, <2>2, Takes DEF MessageFlushFromCore
  <2>4. ProcOf(h.from) = p /\ (u # None => u.from = h.from)
    BY <2>3, InQueue DEF OfQueues
  <2>5. \A v \in ToSet(r) : ProcOf(v.from) = p
    BY <2>1 DEF OfRanks
  <2>6. \A o \in Proc : o # p => held'[o] = held[o] /\ flushHeadBusy'[o] = flushHeadBusy[o]
    BY <1>0, <2>1
  <2>7. held'[p] = u /\ flushHeadBusy'[p] = r
    BY <1>0, <2>1
  <2> QED
    BY <2>4, <2>5, <2>6, <2>7 DEF OfRanks
<1>2. ASSUME NEW p \in Proc, BufferForRank(p) PROVE OfRanks'
  <2>1. held[p] # None /\ held[p] \in Update /\ ProcOf(held[p].from) = p
    BY <1>0, <1>2 DEF BufferForRank, OfRanks
  <2>2. PICK x, q, r : x = held[p] /\ q = flushHeadBusy[p] /\ r = <<x>> \o q
    OBVIOUS
  <2>3. q \in Seq(Update) /\ OneEach(q) /\ x \in Update /\ \A v \in ToSet(q) : RankOf(v) # RankOf(x)
    BY <1>0, <2>1, <2>2 DEF OneBuffer
  <2>4. ToSet(r) = ToSet(q) \cup {x}
    BY <2>2, <2>3, PushParts
  <2>5. flushHeadBusy' = [flushHeadBusy EXCEPT ![p] = r] /\ held' = [held EXCEPT ![p] = None]
    BY <1>2, <2>2 DEF BufferForRank
  <2>6. \A v \in ToSet(r) : ProcOf(v.from) = p
    BY <2>1, <2>2, <2>4 DEF OfRanks
  <2>7. \A o \in Proc : o # p => held'[o] = held[o] /\ flushHeadBusy'[o] = flushHeadBusy[o]
    BY <1>0, <2>5
  <2>8. held'[p] = None /\ flushHeadBusy'[p] = r
    BY <1>0, <2>5
  <2> QED
    BY <2>6, <2>7, <2>8 DEF OfRanks
<1>3. ASSUME NEW p \in Proc, MessageCacheFlushOut(p) PROVE OfRanks'
  <2>1. UNCHANGED held /\ flushHeadBusy' = [flushHeadBusy EXCEPT ![p] = <<>>]
    BY <1>3 DEF MessageCacheFlushOut
  <2>2. flushHeadBusy'[p] = <<>> /\ \A o \in Proc : o # p => flushHeadBusy'[o] = flushHeadBusy[o]
    BY <1>0, <2>1
  <2>3. ToSet(flushHeadBusy[p])' = {}
    BY <2>2 DEF ToSet
  <2> QED
    BY <2>1, <2>2, <2>3 DEF OfRanks
<1>4. ASSUME NEW p \in Proc, MessageCacheFlushLocal(p) \/ FinishReceive(p) \/ BufferForCore(p) PROVE OfRanks'
  BY <1>4, <1>s DEF MessageCacheFlushLocal, FinishReceive, BufferForCore, rankVars
<1>5. ASSUME NEW t \in Thread, FlushElement(t) \/ FlushCoreBuffer(t) \/ Combine(t) PROVE OfRanks'
  BY <1>5, <1>s DEF FlushElement, FlushCoreBuffer, Combine, rankVars
<1>6. ASSUME NEW u \in Update, Match(u) PROVE OfRanks'
  BY <1>6, <1>s DEF Match, rankVars
<1>7. CASE ~Moves
  BY <1>7, <1>s, WhoMovesUpdates DEF placeVars
<1> QED
  BY <1>1, <1>2, <1>3, <1>4, <1>5, <1>6, <1>7 DEF Moves

\* A buffer for a core is queued, if there is one.
LEMMA QueuedBuffer ==
  ASSUME NEW q \in Seq(Update), NEW x \in Update \cup {None}, NEW r, r = IF x # None THEN Append(q, x) ELSE q
  PROVE  /\ r \in Seq(Update) /\ ToSet(r) = ToSet(q) \cup ({x} \ {None})
         /\ IsInjective(q) /\ x \notin ToSet(q) => IsInjective(r)
<1>1. CASE x = None
  BY <1>1
<1>2. CASE x # None
  <2>1. r = Append(q, x) /\ x \in Update
    BY <1>2
  <2>2. PICK n : n = Len(q) + 1
    OBVIOUS
  <2>3. /\ r \in Seq(Update) /\ DOMAIN r = (DOMAIN q) \cup {n} /\ r[n] = x /\ \A i \in DOMAIN q : r[i] = q[i]
        /\ ToSet(r) = ToSet(q) \cup {x}
    BY <2>1, <2>2, AppendIndex
  <2>4. \A i \in DOMAIN q : q[i] \in ToSet(q)
    BY DEF ToSet
  <2>5. IsInjective(q) /\ x \notin ToSet(q) => IsInjective(r)
    BY <2>3, <2>4 DEF IsInjective
  <2> QED
    BY <1>2, <2>3, <2>5
<1> QED
  BY <1>1, <1>2

LEMMA ReceiveIs ==
  ASSUME Flat, Deep, NEW p \in Proc, FinishReceive(p)
  PROVE  \E u \in Update :
           /\ u \in arrived /\ RankOf(u) = p /\ u.to \in Thread /\ arrived' = arrived \ {u} /\ stuck[p] = None
           /\ stuck' = [stuck EXCEPT ![p] = u] /\ flushBuffersByCore' = [flushBuffersByCore EXCEPT ![u.to] = None]
           /\ \A t \in Thread \ {u.to} : wqCacheFlush'[t] = wqCacheFlush[t]
           /\ ToSet(wqCacheFlush[u.to])' = ToSet(wqCacheFlush[u.to]) \cup ({flushBuffersByCore[u.to]} \ {None})
           /\ IsInjective(wqCacheFlush[u.to]) /\ flushBuffersByCore[u.to] \notin ToSet(wqCacheFlush[u.to])
                => IsInjective(wqCacheFlush[u.to])'
<1>0. wqCacheFlush \in [Thread -> Seq(Update)] /\ flushBuffersByCore \in [Thread -> Update \cup {None}] /\ arrived \in SUBSET Update
  BY DEF Flat, Deep
<1>1. PICK u \in arrived :
        /\ RankOf(u) = p /\ arrived' = arrived \ {u}
        /\ IF flushBuffersByCore[u.to] = None THEN UNCHANGED wqCacheFlush
           ELSE wqCacheFlush' = [wqCacheFlush EXCEPT ![u.to] = Append(wqCacheFlush[u.to], flushBuffersByCore[u.to])]
        /\ flushBuffersByCore' = [flushBuffersByCore EXCEPT ![u.to] = None]
        /\ stuck' = [stuck EXCEPT ![p] = u]
  BY DEF FinishReceive
<1>2. u \in Update /\ u.to \in Thread /\ stuck[p] = None
  BY <1>0, UpdateParts DEF FinishReceive, Finish, MayFinish
<1>3. PICK t, x, q, r : t = u.to /\ x = flushBuffersByCore[t] /\ q = wqCacheFlush[t] /\ r = wqCacheFlush'[t]
  OBVIOUS
<1>4. /\ q \in Seq(Update) /\ x \in Update \cup {None} /\ t \in Thread
      /\ \A s \in Thread \ {t} : wqCacheFlush'[s] = wqCacheFlush[s]
  BY <1>0, <1>1, <1>2, <1>3
<1>5. r = IF x # None THEN Append(q, x) ELSE q
  <2>1. x # None => wqCacheFlush' = [wqCacheFlush EXCEPT ![t] = Append(q, x)]
    BY <1>1, <1>3
  <2>2. x = None => wqCacheFlush' = wqCacheFlush
    BY <1>1, <1>3
  <2> QED
    BY <1>0, <1>3, <1>4, <2>1, <2>2
<1>6. ToSet(r) = ToSet(q) \cup ({x} \ {None}) /\ (IsInjective(q) /\ x \notin ToSet(q) => IsInjective(r))
  BY <1>4, <1>5, QueuedBuffer
<1> QED
  BY <1>1, <1>2, <1>3, <1>4, <1>6

LEMMA FlushLocalIs ==
  ASSUME Flat, Deep, NEW p \in Proc, MessageCacheFlushLocal(p)
  PROVE  /\ \A t \in Thread : flushBuffersByCore'[t] = IF ProcOf(t) = p THEN None ELSE flushBuffersByCore[t]
         /\ \A t \in Thread : ProcOf(t) # p => wqCacheFlush'[t] = wqCacheFlush[t]
         /\ \A t \in Thread : ProcOf(t) = p =>
              /\ ToSet(wqCacheFlush[t])' = ToSet(wqCacheFlush[t]) \cup ({flushBuffersByCore[t]} \ {None})
              /\ IsInjective(wqCacheFlush[t]) /\ flushBuffersByCore[t] \notin ToSet(wqCacheFlush[t])
                   => IsInjective(wqCacheFlush[t])'
<1>0. wqCacheFlush \in [Thread -> Seq(Update)] /\ flushBuffersByCore \in [Thread -> Update \cup {None}]
  BY DEF Flat, Deep
<1>1. \A t \in Thread :
        /\ wqCacheFlush'[t] = IF ProcOf(t) = p /\ flushBuffersByCore[t] # None
                              THEN Append(wqCacheFlush[t], flushBuffersByCore[t]) ELSE wqCacheFlush[t]
        /\ flushBuffersByCore'[t] = IF ProcOf(t) = p THEN None ELSE flushBuffersByCore[t]
  BY DEF MessageCacheFlushLocal
<1>2. ASSUME NEW t \in Thread, ProcOf(t) = p
      PROVE  /\ ToSet(wqCacheFlush[t])' = ToSet(wqCacheFlush[t]) \cup ({flushBuffersByCore[t]} \ {None})
             /\ IsInjective(wqCacheFlush[t]) /\ flushBuffersByCore[t] \notin ToSet(wqCacheFlush[t])
                  => IsInjective(wqCacheFlush[t])'
  <2>1. PICK x, q, r : x = flushBuffersByCore[t] /\ q = wqCacheFlush[t] /\ r = wqCacheFlush'[t]
    OBVIOUS
  <2>2. q \in Seq(Update) /\ x \in Update \cup {None} /\ r = IF x # None THEN Append(q, x) ELSE q
    BY <1>0, <1>1, <1>2, <2>1
  <2>3. ToSet(r) = ToSet(q) \cup ({x} \ {None}) /\ (IsInjective(q) /\ x \notin ToSet(q) => IsInjective(r))
    BY <2>2, QueuedBuffer
  <2> QED
    BY <2>1, <2>3
<1> QED
  BY <1>1, <1>2

LEMMA CombineIs ==
  ASSUME Deep, NEW t \in Thread, Combine(t)
  PROVE  \E u \in Update :
           /\ u \in ToSet(wqCacheFlush[t]) /\ combined' = combined \cup {u}
           /\ ToSet(wqCacheFlush[t]) = ToSet(wqCacheFlush[t])' \cup {u}
           /\ \A s \in Thread \ {t} : wqCacheFlush'[s] = wqCacheFlush[s]
           /\ IsInjective(wqCacheFlush[t]) => IsInjective(wqCacheFlush[t])' /\ u \notin ToSet(wqCacheFlush[t])'
<1>0. wqCacheFlush \in [Thread -> Seq(Update)] /\ wqCacheFlush[t] \in Seq(Update)
  BY DEF Deep
<1>1. PICK u, q, r : u = Head(q) /\ q = wqCacheFlush[t] /\ r = Tail(q)
  OBVIOUS
<1>2. /\ q \in Seq(Update) /\ q # <<>> /\ wqCacheFlush' = [wqCacheFlush EXCEPT ![t] = r] /\ combined' = combined \cup {u}
  BY <1>0, <1>1 DEF Combine
<1>3. /\ u \in Update /\ u = q[1] /\ 1 \in DOMAIN q /\ ToSet(q) = ToSet(r) \cup {u}
      /\ \A i \in DOMAIN r : i + 1 \in DOMAIN q /\ r[i] = q[i + 1] /\ i + 1 # 1 /\ i \in Nat
  BY <1>1, <1>2, TailIndex
<1>4. ASSUME IsInjective(q) PROVE IsInjective(r) /\ u \notin ToSet(r)
  <2>1. \A i \in DOMAIN r : r[i] # u
    BY <1>3, <1>4 DEF IsInjective
  <2>2. \A i, j \in DOMAIN r : r[i] = r[j] => i + 1 = j + 1
    BY <1>3, <1>4 DEF IsInjective
  <2>3. \A i, j \in DOMAIN r : i + 1 = j + 1 => i = j
    BY <1>3
  <2> QED
    BY <2>1, <2>2, <2>3 DEF IsInjective, ToSet
<1>5. wqCacheFlush'[t] = r /\ \A s \in Thread \ {t} : wqCacheFlush'[s] = wqCacheFlush[s]
  BY <1>0, <1>2
<1> QED
  BY <1>1, <1>2, <1>3, <1>4, <1>5

LEMMA OfOwnersStep == Flat /\ Deep /\ OfOwners /\ [Next]_vars => OfOwners'
<1> SUFFICES ASSUME Flat, Deep, OfOwners, [Next]_vars PROVE OfOwners'
  OBVIOUS
<1>0. stuck \in [Proc -> Update \cup {None}] /\ flushBuffersByCore \in [Thread -> Update \cup {None}]
  BY DEF Flat
<1>o. /\ \A t \in Thread : /\ flushBuffersByCore[t] # None => flushBuffersByCore[t].to = t
                           /\ \A u \in ToSet(wqCacheFlush[t]) : u.to = t
      /\ \A p \in Proc : stuck[p] # None => RankOf(stuck[p]) = p /\ flushBuffersByCore[stuck[p].to] = None
  BY DEF OfOwners
<1>s. UNCHANGED <<stuck, flushBuffersByCore, wqCacheFlush>> => OfOwners'
  BY DEF OfOwners
<1>1. ASSUME NEW p \in Proc, FinishReceive(p) PROVE OfOwners'
  <2>1. PICK u \in Update :
           /\ RankOf(u) = p /\ u.to \in Thread
           /\ stuck' = [stuck EXCEPT ![p] = u] /\ flushBuffersByCore' = [flushBuffersByCore EXCEPT ![u.to] = None]
           /\ \A t \in Thread \ {u.to} : wqCacheFlush'[t] = wqCacheFlush[t]
           /\ ToSet(wqCacheFlush[u.to])' = ToSet(wqCacheFlush[u.to]) \cup ({flushBuffersByCore[u.to]} \ {None})
    BY <1>1, ReceiveIs
  <2>2. \A t \in Thread : flushBuffersByCore'[t] = None \/ flushBuffersByCore'[t] = flushBuffersByCore[t]
    BY <1>0, <2>1
  <2>3. ASSUME NEW t \in Thread, NEW v \in ToSet(wqCacheFlush[t])' PROVE v.to = t
    BY <1>o, <2>1, <2>3
  <2>4. ASSUME NEW o \in Proc, stuck'[o] # None
        PROVE  RankOf(stuck'[o]) = o /\ flushBuffersByCore'[stuck'[o].to] = None
    <3>1. CASE o = p
      BY <1>0, <2>1, <3>1
    <3>2. CASE o # p
      <4>1. stuck'[o] = stuck[o] /\ stuck[o] \in Update /\ stuck[o].to \in Thread
        BY <1>0, <2>1, <2>4, <3>2, UpdateParts
      <4> QED
        BY <1>0, <1>o, <2>2, <2>4, <4>1
    <3> QED
      BY <3>1, <3>2
  <2> QED
    BY <1>o, <2>2, <2>3, <2>4 DEF OfOwners, RankOf
<1>2. ASSUME NEW p \in Proc, BufferForCore(p) PROVE OfOwners'
  <2>1. PICK u : u = stuck[p]
    OBVIOUS
  <2>2. /\ u \in Update /\ u.to \in Thread /\ RankOf(u) = p /\ UNCHANGED wqCacheFlush /\ u # None
        /\ stuck' = [stuck EXCEPT ![p] = None] /\ flushBuffersByCore' = [flushBuffersByCore EXCEPT ![u.to] = u]
    BY <1>0, <1>2, <1>o, <2>1, UpdateParts DEF BufferForCore
  <2>3. \A t \in Thread : flushBuffersByCore'[t] = IF t = u.to THEN u ELSE flushBuffersByCore[t]
    BY <1>0, <2>2
  <2>4. ASSUME NEW o \in Proc, stuck'[o] # None
        PROVE  RankOf(stuck'[o]) = o /\ flushBuffersByCore'[stuck'[o].to] = None
    <3>1. o # p /\ stuck'[o] = stuck[o] /\ stuck[o] \in Update /\ stuck[o].to \in Thread
      BY <1>0, <2>2, <2>4, UpdateParts
    <3>2. RankOf(stuck[o]) = o /\ flushBuffersByCore[stuck[o].to] = None
      BY <1>o, <2>4, <3>1
    <3>3. stuck[o].to # u.to
      BY <2>2, <3>1, <3>2 DEF RankOf
    <3> QED
      BY <2>3, <3>1, <3>2, <3>3
  <2> QED
    BY <1>o, <2>2, <2>3, <2>4 DEF OfOwners, RankOf
<1>3. ASSUME NEW p \in Proc, MessageCacheFlushLocal(p) PROVE OfOwners'
  <2>1. UNCHANGED stuck
    BY <1>3 DEF MessageCacheFlushLocal
  <2>2. \A t \in Thread : flushBuffersByCore'[t] = None \/ flushBuffersByCore'[t] = flushBuffersByCore[t]
    BY <1>3, FlushLocalIs
  <2>3. ASSUME NEW t \in Thread, NEW v \in ToSet(wqCacheFlush[t])' PROVE v.to = t
    <3>1. ProcOf(t) = p => ToSet(wqCacheFlush[t])' = ToSet(wqCacheFlush[t]) \cup ({flushBuffersByCore[t]} \ {None})
      BY <1>3, FlushLocalIs
    <3>2. ProcOf(t) # p => wqCacheFlush'[t] = wqCacheFlush[t]
      BY <1>3, FlushLocalIs
    <3> QED
      BY <1>o, <2>3, <3>1, <3>2
  <2>4. \A o \in Proc : stuck[o] # None => stuck[o].to \in Thread
    BY <1>0, UpdateParts
  <2> QED
    BY <1>o, <2>1, <2>2, <2>3, <2>4 DEF OfOwners, RankOf
<1>4. ASSUME NEW t \in Thread, Combine(t) PROVE OfOwners'
  <2>1. UNCHANGED <<stuck, flushBuffersByCore>>
    BY <1>4 DEF Combine
  <2>2. ASSUME NEW s \in Thread PROVE ToSet(wqCacheFlush[s])' \subseteq ToSet(wqCacheFlush[s])
    <3>1. PICK u \in Update : /\ ToSet(wqCacheFlush[t]) = ToSet(wqCacheFlush[t])' \cup {u}
                              /\ \A o \in Thread \ {t} : wqCacheFlush'[o] = wqCacheFlush[o]
      BY <1>4, CombineIs
    <3> QED
      BY <3>1
  <2>3. \A s \in Thread : \A v \in ToSet(wqCacheFlush[s])' : v.to = s
    BY <1>o, <2>2
  <2> QED
    BY <1>o, <2>1, <2>3 DEF OfOwners, RankOf
<1>5. ASSUME NEW p \in Proc, MessageFlushFromCore(p) \/ BufferForRank(p) \/ MessageCacheFlushOut(p) PROVE OfOwners'
  BY <1>5, <1>s DEF MessageFlushFromCore, BufferForRank, MessageCacheFlushOut, localVars
<1>6. ASSUME NEW t \in Thread, FlushElement(t) \/ FlushCoreBuffer(t) PROVE OfOwners'
  BY <1>6, <1>s DEF FlushElement, FlushCoreBuffer, localVars
<1>7. ASSUME NEW u \in Update, Match(u) PROVE OfOwners'
  BY <1>7, <1>s DEF Match, localVars
<1>8. CASE ~Moves
  BY <1>8, <1>s, WhoMovesUpdates DEF placeVars
<1> QED
  BY <1>1, <1>2, <1>3, <1>4, <1>5, <1>6, <1>7, <1>8 DEF Moves

LEMMA HomesStep ==
  Flat /\ Deep /\ Queued /\ Homes /\ (\A p \in Proc : OneBuffer(p)) /\ [Next]_vars => Homes'
BY OfCoresStep, OfQueuesStep, OfRanksStep, OfOwnersStep DEF Homes

------------------------------------------------------------------------------
(* Once *)

\* Is update v in place l after the step if and only if it was before?
Same(v, l) == l \in Places(v)' <=> l \in Places(v)

LEMMA PlacesAre ==
  ASSUME NEW v
  PROVE  /\ Places(v) \subseteq Labels
         /\ "arc" \in Places(v) <=> v \in dirty[v.from]
         /\ "core" \in Places(v) <=> coreFlushBuffer[v.from] = v
         /\ "queue" \in Places(v) <=> \E m \in ToSet(queueMPInew[ProcOf(v.from)]) : m.update = v
         /\ "held" \in Places(v) <=> held[ProcOf(v.from)] = v
         /\ "rank" \in Places(v) <=> v \in ToSet(flushHeadBusy[ProcOf(v.from)])
         /\ "net" \in Places(v) <=> v \in net
         /\ "arrived" \in Places(v) <=> v \in arrived
         /\ "stuck" \in Places(v) <=> stuck[RankOf(v)] = v
         /\ "local" \in Places(v) <=> flushBuffersByCore[v.to] = v
         /\ "wq" \in Places(v) <=> v \in ToSet(wqCacheFlush[v.to])
         /\ "combined" \in Places(v) <=> v \in combined
BY DEF Places, At, Labels

LEMMA PlacesBecome ==
  ASSUME NEW v
  PROVE  /\ Places(v)' \subseteq Labels
         /\ "arc" \in Places(v)' <=> v \in dirty'[v.from]
         /\ "core" \in Places(v)' <=> coreFlushBuffer'[v.from] = v
         /\ "queue" \in Places(v)' <=> \E m \in ToSet(queueMPInew[ProcOf(v.from)])' : m.update = v
         /\ "held" \in Places(v)' <=> held'[ProcOf(v.from)] = v
         /\ "rank" \in Places(v)' <=> v \in ToSet(flushHeadBusy[ProcOf(v.from)])'
         /\ "net" \in Places(v)' <=> v \in net'
         /\ "arrived" \in Places(v)' <=> v \in arrived'
         /\ "stuck" \in Places(v)' <=> stuck'[RankOf(v)] = v
         /\ "local" \in Places(v)' <=> flushBuffersByCore'[v.to] = v
         /\ "wq" \in Places(v)' <=> v \in ToSet(wqCacheFlush[v.to])'
         /\ "combined" \in Places(v)' <=> v \in combined'
BY DEF Places, At, Labels

\* A place whose variable does not change
LEMMA Follows ==
  ASSUME NEW v
  PROVE  /\ UNCHANGED dirty => Same(v, "arc")
         /\ UNCHANGED coreFlushBuffer => Same(v, "core")
         /\ UNCHANGED queueMPInew => Same(v, "queue")
         /\ UNCHANGED held => Same(v, "held")
         /\ UNCHANGED flushHeadBusy => Same(v, "rank")
         /\ UNCHANGED net => Same(v, "net")
         /\ UNCHANGED arrived => Same(v, "arrived")
         /\ UNCHANGED stuck => Same(v, "stuck")
         /\ UNCHANGED flushBuffersByCore => Same(v, "local")
         /\ UNCHANGED wqCacheFlush => Same(v, "wq")
         /\ UNCHANGED combined => Same(v, "combined")
<1>1. UNCHANGED queueMPInew => Same(v, "queue")
  BY PlacesAre, PlacesBecome DEF Same
<1>2. UNCHANGED flushHeadBusy => Same(v, "rank")
  BY PlacesAre, PlacesBecome DEF Same
<1>3. UNCHANGED wqCacheFlush => Same(v, "wq")
  BY PlacesAre, PlacesBecome DEF Same
<1>4. /\ UNCHANGED dirty => Same(v, "arc")
      /\ UNCHANGED coreFlushBuffer => Same(v, "core")
      /\ UNCHANGED held => Same(v, "held")
      /\ UNCHANGED net => Same(v, "net")
      /\ UNCHANGED arrived => Same(v, "arrived")
  BY PlacesAre, PlacesBecome DEF Same
<1>5. /\ UNCHANGED stuck => Same(v, "stuck")
      /\ UNCHANGED flushBuffersByCore => Same(v, "local")
      /\ UNCHANGED combined => Same(v, "combined")
  BY PlacesAre, PlacesBecome DEF Same
<1> QED
  BY <1>1, <1>2, <1>3, <1>4, <1>5

LEMMA SteadySame ==
  ASSUME OfQueues, Steady, NEW v \in Update
  PROVE  Same(v, "queue")
<1> DEFINE p == ProcOf(v.from)
<1>0. p \in Proc /\ v # None
  BY UpdateParts
<1>1. ASSUME NEW m \in ToSet(queueMPInew[p])', m.update = v PROVE m \in ToSet(queueMPInew[p])
  BY <1>0, <1>1 DEF Steady
<1>2. ASSUME NEW m \in ToSet(queueMPInew[p]), m.update = v PROVE m \in ToSet(queueMPInew[p])'
  <2>1. m \in Buffers(p)
    BY <1>0, <1>2 DEF OfQueues, Buffers
  <2>2. m \in Buffers(p)'
    BY <1>0, <2>1 DEF Steady
  <2> QED
    BY <2>2 DEF Buffers
<1> QED
  BY <1>1, <1>2, PlacesAre, PlacesBecome DEF Same

LEMMA StillAlone ==
  ASSUME NEW v, Alone(v), \A l \in Labels : Same(v, l)
  PROVE  Alone(v)'
<1>1. PICK l \in Labels : Places(v) = {l}
  BY DEF Alone
<1>2. Places(v)' = {l}
  BY <1>1, PlacesBecome DEF Same
<1> QED
  BY <1>2 DEF Alone

LEMMA MovedAlone ==
  ASSUME NEW v, Alone(v), NEW a \in Labels, NEW b \in Labels, a \in Places(v), a \notin Places(v)', b \in Places(v)',
         \A l \in Labels \ {a, b} : Same(v, l)
  PROVE  Alone(v)'
<1>1. Places(v) = {a}
  BY DEF Alone
<1>2. Places(v)' = {b}
  BY <1>1, PlacesBecome DEF Same
<1> QED
  BY <1>2 DEF Alone

\* All updates of a set move from one place to another.
LEMMA AllMove ==
  ASSUME \A v \in Update : Alone(v), NEW S \in SUBSET Update, NEW a \in Labels, NEW b \in Labels,
         \A v \in S : a \in Places(v) /\ a \notin Places(v)' /\ b \in Places(v)',
         \A v \in Update \ S : Same(v, a) /\ Same(v, b),
         \A v \in Update : \A l \in Labels \ {a, b} : Same(v, l)
  PROVE  \A v \in Update : Alone(v)'
<1>1. ASSUME NEW v \in S PROVE Alone(v)'
  <2>1. Alone(v) /\ a \in Places(v) /\ a \notin Places(v)' /\ b \in Places(v)' /\ \A l \in Labels \ {a, b} : Same(v, l)
    OBVIOUS
  <2> QED
    BY <2>1, MovedAlone
<1>2. ASSUME NEW v \in Update \ S PROVE Alone(v)'
  <2>1. Alone(v) /\ \A l \in Labels : Same(v, l)
    OBVIOUS
  <2> QED
    BY <2>1, StillAlone
<1> QED
  BY <1>1, <1>2

\* An update in one place is in no other.
LEMMA NowhereElse ==
  ASSUME NEW v, Alone(v), NEW a, NEW b, a \in Places(v), b # a
  PROVE  b \notin Places(v)
BY DEF Alone

\* The lists of an action that does not change them
LEMMA OnceLists ==
  ASSUME Once
  PROVE  /\ UNCHANGED <<held, flushHeadBusy>> => \A p \in Proc : OneBuffer(p)'
         /\ UNCHANGED queueMPInew \/ Steady => \A p \in Proc : OneMessage(queueMPInew[p])'
         /\ UNCHANGED wqCacheFlush => \A t \in Thread : IsInjective(wqCacheFlush[t])'
<1>1. UNCHANGED <<held, flushHeadBusy>> => \A p \in Proc : OneBuffer(p)'
  BY DEF Once, OneBuffer
<1>2. UNCHANGED queueMPInew => \A p \in Proc : OneMessage(queueMPInew[p])'
  BY DEF Once
<1>3. Steady => \A p \in Proc : OneMessage(queueMPInew[p])'
  BY DEF Once, Steady
<1>4. UNCHANGED wqCacheFlush => \A t \in Thread : IsInjective(wqCacheFlush[t])'
  BY DEF Once
<1> QED
  BY <1>1, <1>2, <1>3, <1>4

LEMMA OnceFlushElement ==
  ASSUME Flat, Homes, Once, NEW t \in Thread, FlushElement(t)
  PROVE  Once'
<1>0. dirty \in [Thread -> SUBSET Update] /\ coreFlushBuffer \in [Thread -> Update \cup {None}]
  BY DEF Flat
<1>1. PICK u \in Update : /\ u \in dirty[t] /\ u.from = t /\ coreFlushBuffer[t] = None
                          /\ coreFlushBuffer' = [coreFlushBuffer EXCEPT ![t] = u]
                          /\ dirty' = [dirty EXCEPT ![t] = dirty[t] \ {u}]
  BY <1>0 DEF FlushElement, Homes, OfCores
<1>2. UNCHANGED <<queueMPInew, held, flushHeadBusy, net, arrived, stuck, flushBuffersByCore, wqCacheFlush, combined>>
  BY DEF FlushElement, queueVars, rankVars, mpiVars, localVars
<1>3. ASSUME NEW v \in Update, NEW l \in Labels \ {"arc", "core"} PROVE Same(v, l)
  BY <1>2, <1>3, Follows DEF Labels
<1>4. "arc" \in Places(u) /\ "arc" \notin Places(u)' /\ "core" \in Places(u)'
  BY <1>0, <1>1, PlacesAre, PlacesBecome
<1>5. ASSUME NEW v \in Update \ {u} PROVE Same(v, "arc") /\ Same(v, "core")
  <2>1. v.from \in Thread /\ v # None
    BY UpdateParts
  <2>2. v \in dirty'[v.from] <=> v \in dirty[v.from]
    BY <1>0, <1>1, <2>1
  <2>3. coreFlushBuffer'[v.from] = v <=> coreFlushBuffer[v.from] = v
    BY <1>0, <1>1, <2>1
  <2> QED
    BY <2>2, <2>3, PlacesAre, PlacesBecome DEF Same
<1>6. \A v \in Update : Alone(v)'
  <2>1. {u} \in SUBSET Update /\ \A v \in Update : Alone(v)
    BY DEF Once
  <2>2. "arc" \in Labels /\ "core" \in Labels
    BY DEF Labels
  <2> QED
    BY <1>3, <1>4, <1>5, <2>1, <2>2, AllMove
<1> QED
  BY <1>2, <1>6, OnceLists DEF Once

LEMMA OnceFlushCoreBuffer ==
  ASSUME Flat, Deep, Homes, Once, NEW t \in Thread, FlushCoreBuffer(t)
  PROVE  Once'
<1>0. coreFlushBuffer \in [Thread -> Update \cup {None}] /\ \A v \in Update : Alone(v)
  BY DEF Flat, Once
<1>1. PICK u \in Update : /\ u = coreFlushBuffer[t] /\ u.from = t /\ u # None
                          /\ coreFlushBuffer' = [coreFlushBuffer EXCEPT ![t] = None]
                          /\ Send(t, "flushFromCore", u)
  BY <1>0, UpdateParts DEF FlushCoreBuffer, Homes, OfCores
<1>2. UNCHANGED <<dirty, held, flushHeadBusy, net, arrived, stuck, flushBuffersByCore, wqCacheFlush, combined>>
  BY DEF FlushCoreBuffer, rankVars, mpiVars, localVars
<1>3. PICK m \in Message :
           /\ m.kind = "flushFromCore" /\ m.from = t /\ m.update = u
           /\ ToSet(queueMPInew[ProcOf(t)])' = ToSet(queueMPInew[ProcOf(t)]) \cup {m}
           /\ \A o \in Proc \ {ProcOf(t)} : queueMPInew'[o] = queueMPInew[o]
           /\ OneMessage(queueMPInew[ProcOf(t)]) /\ (\A v \in ToSet(queueMPInew[ProcOf(t)]) : u # None => v.update # u)
                => OneMessage(queueMPInew[ProcOf(t)])'
  BY <1>1, SentOne DEF Kinds
<1>4. ASSUME NEW v \in Update, NEW l \in Labels \ {"core", "queue"} PROVE Same(v, l)
  BY <1>2, <1>4, Follows DEF Labels
<1>5. "core" \in Places(u) /\ "core" \notin Places(u)' /\ "queue" \in Places(u)'
  <2>1. coreFlushBuffer[u.from] = u /\ coreFlushBuffer'[u.from] = None
    BY <1>0, <1>1
  <2>2. m \in ToSet(queueMPInew[ProcOf(u.from)])' /\ m.update = u
    BY <1>1, <1>3
  <2> QED
    BY <1>1, <2>1, <2>2, PlacesAre, PlacesBecome
<1>6. ASSUME NEW v \in Update \ {u} PROVE Same(v, "core") /\ Same(v, "queue")
  <2>1. v.from \in Thread /\ v # None /\ ProcOf(v.from) \in Proc
    BY UpdateParts
  <2>2. coreFlushBuffer'[v.from] = v <=> coreFlushBuffer[v.from] = v
    BY <1>0, <1>1, <2>1
  <2>3. \A n \in ToSet(queueMPInew[ProcOf(v.from)])' : n.update = v => n \in ToSet(queueMPInew[ProcOf(v.from)])
    BY <1>3, <2>1
  <2>4. \A n \in ToSet(queueMPInew[ProcOf(v.from)]) : n \in ToSet(queueMPInew[ProcOf(v.from)])'
    BY <1>3, <2>1
  <2> QED
    BY <2>2, <2>3, <2>4, PlacesAre, PlacesBecome DEF Same
<1>7. \A v \in Update : Alone(v)'
  <2>1. {u} \in SUBSET Update
    OBVIOUS
  <2>2. "core" \in Labels /\ "queue" \in Labels
    BY DEF Labels
  <2> QED
    BY <1>0, <1>4, <1>5, <1>6, <2>1, <2>2, AllMove
<1>8. \A p \in Proc : OneMessage(queueMPInew[p])'
  <2>1. "queue" \notin Places(u)
    BY <1>0, <1>5, NowhereElse
  <2>2. \A n \in ToSet(queueMPInew[ProcOf(t)]) : n.update # u
    BY <1>1, <2>1, PlacesAre
  <2>3. ProcOf(t) \in Proc /\ \A p \in Proc : OneMessage(queueMPInew[p])
    BY ThreadFacts DEF Once
  <2>4. OneMessage(queueMPInew[ProcOf(t)])'
    BY <1>3, <2>2, <2>3
  <2>5. \A o \in Proc \ {ProcOf(t)} : OneMessage(queueMPInew[o])'
    BY <1>3, <2>3
  <2> QED
    BY <2>4, <2>5
<1> QED
  BY <1>2, <1>7, <1>8, OnceLists DEF Once

LEMMA OnceFlushFromCore ==
  ASSUME Flat, Deep, Queued, Homes, Once, NEW p \in Proc, MessageFlushFromCore(p)
  PROVE  Once'
<1>0. /\ held \in [Proc -> Update \cup {None}] /\ flushHeadBusy \in [Proc -> Seq(Update)] /\ \A v \in Update : Alone(v)
      /\ OneEach(flushHeadBusy[p])
  BY DEF Flat, Deep, Once, OneBuffer
<1>1. PICK u \in Update \cup {None}, r \in Seq(Update), F \in SUBSET Update :
           /\ u = Head(queueMPInew[p]).update
           /\ held' = [held EXCEPT ![p] = u] /\ flushHeadBusy' = [flushHeadBusy EXCEPT ![p] = r] /\ net' = net \cup F
           /\ OneEach(r) /\ \A v \in ToSet(r) : RankOf(v) # RankOf(u)
           /\ ToSet(flushHeadBusy[p]) = ToSet(r) \cup F /\ ToSet(r) \cap F = {}
           /\ IsFiniteSet(F) /\ Len(r) + Cardinality(F) = Len(flushHeadBusy[p])
  BY <1>0, FlushElementSends
<1>2. UNCHANGED <<dirty, coreFlushBuffer, arrived, stuck, flushBuffersByCore, wqCacheFlush, combined>>
  BY DEF MessageFlushFromCore, threadVars, localVars
<1>3. PICK h \in Message :
           /\ h = Head(queueMPInew[p]) /\ h.kind = "flushFromCore" /\ ToSet(queueMPInew[p]) = ToSet(queueMPInew[p])' \cup {h}
           /\ \A o \in Proc \ {p} : queueMPInew'[o] = queueMPInew[o]
           /\ OneMessage(queueMPInew[p]) => OneMessage(queueMPInew[p])' /\ (h.update # None =>
                \A m \in ToSet(queueMPInew[p])' : m.update # h.update)
           /\ Free(p) /\ ~finishing[p]
  <2>1. Process(p, "flushFromCore")
    BY DEF MessageFlushFromCore
  <2> QED
    BY <2>1, TookOne
<1>4. h \in ToSet(queueMPInew[p]) /\ h.update = u
  BY <1>1, <1>3
<1>5. u \in Update /\ u # None /\ ProcOf(u.from) = p /\ held[p] = None
  BY <1>1, <1>3, <1>4, InQueue, UpdateParts DEF Homes, OfQueues, Free
<1>6. OneMessage(queueMPInew[p])' /\ \A m \in ToSet(queueMPInew[p])' : m.update # u
  BY <1>3, <1>4, <1>5 DEF Once
<1>7. flushHeadBusy'[p] = r /\ held'[p] = u /\ \A o \in Proc \ {p} : flushHeadBusy'[o] = flushHeadBusy[o] /\ held'[o] = held[o]
  BY <1>0, <1>1
<1>8. \A v \in F : ProcOf(v.from) = p /\ v \in ToSet(flushHeadBusy[p])
  BY <1>1 DEF Homes, OfRanks
<1>9. ASSUME NEW v \in Update, NEW l \in Labels \ {"queue", "held", "rank", "net"} PROVE Same(v, l)
  BY <1>2, <1>9, Follows DEF Labels
<1>10. ASSUME NEW v \in Update, v # u PROVE Same(v, "queue") /\ Same(v, "held")
  <2>1. ProcOf(v.from) \in Proc /\ v # None
    BY UpdateParts
  <2>2. held'[ProcOf(v.from)] = v <=> held[ProcOf(v.from)] = v
    BY <1>5, <1>7, <1>10, <2>1
  <2>3. \A m \in ToSet(queueMPInew[ProcOf(v.from)]) : m.update = v => m \in ToSet(queueMPInew[ProcOf(v.from)])'
    BY <1>3, <1>4, <1>10, <2>1
  <2>4. \A m \in ToSet(queueMPInew[ProcOf(v.from)])' : m \in ToSet(queueMPInew[ProcOf(v.from)])
    BY <1>3, <2>1
  <2> QED
    BY <2>2, <2>3, <2>4, PlacesAre, PlacesBecome DEF Same
<1>11. ASSUME NEW v \in Update, v \notin F PROVE Same(v, "rank") /\ Same(v, "net")
  <2>1. ProcOf(v.from) \in Proc
    BY UpdateParts
  <2>2. v \in ToSet(flushHeadBusy[ProcOf(v.from)])' <=> v \in ToSet(flushHeadBusy[ProcOf(v.from)])
    BY <1>1, <1>7, <1>11, <2>1
  <2>3. v \in net' <=> v \in net
    BY <1>1, <1>11
  <2> QED
    BY <2>2, <2>3, PlacesAre, PlacesBecome DEF Same
<1>12. "queue" \in Places(u) /\ "queue" \notin Places(u)' /\ "held" \in Places(u)' /\ u \notin F
  <2>1. "queue" \in Places(u)
    BY <1>4, <1>5, PlacesAre
  <2>2. "rank" \notin Places(u)
    BY <1>0, <1>5, <2>1, NowhereElse
  <2> QED
    BY <1>5, <1>6, <1>7, <1>8, <2>1, <2>2, PlacesAre, PlacesBecome
<1>13. Alone(u)'
  <2>1. \A l \in Labels \ {"queue", "held"} : Same(u, l)
    BY <1>5, <1>9, <1>11, <1>12
  <2>2. "queue" \in Labels /\ "held" \in Labels /\ Alone(u)
    BY <1>0, <1>5 DEF Labels
  <2> QED
    BY <1>12, <2>1, <2>2, MovedAlone
<1>14. ASSUME NEW v \in F PROVE Alone(v)'
  <2>1. "rank" \in Places(v) /\ "rank" \notin Places(v)' /\ "net" \in Places(v)'
    BY <1>1, <1>7, <1>8, PlacesAre, PlacesBecome
  <2>2. \A l \in Labels \ {"rank", "net"} : Same(v, l)
    BY <1>9, <1>10, <1>12
  <2>3. "rank" \in Labels /\ "net" \in Labels /\ Alone(v)
    BY <1>0 DEF Labels
  <2> QED
    BY <2>1, <2>2, <2>3, MovedAlone
<1>15. ASSUME NEW v \in Update, v # u, v \notin F PROVE Alone(v)'
  <2>1. Alone(v) /\ \A l \in Labels : Same(v, l)
    BY <1>0, <1>9, <1>10, <1>11, <1>15
  <2> QED
    BY <2>1, StillAlone
<1>16. ASSUME NEW o \in Proc PROVE OneBuffer(o)'
  <2>1. CASE o = p
    BY <1>1, <1>7, <2>1 DEF OneBuffer
  <2>2. CASE o # p
    <3>1. OneBuffer(o) /\ flushHeadBusy'[o] = flushHeadBusy[o] /\ held'[o] = held[o]
      BY <1>7, <2>2 DEF Once
    <3> QED
      BY <3>1 DEF OneBuffer
  <2> QED
    BY <2>1, <2>2
<1>17. \A o \in Proc : OneMessage(queueMPInew[o])'
  BY <1>3, <1>6 DEF Once
<1>18. \A v \in Update : Alone(v)'
  BY <1>13, <1>14, <1>15
<1> QED
  BY <1>2, <1>16, <1>17, <1>18, OnceLists DEF Once

LEMMA OnceBufferForRank ==
  ASSUME Flat, Deep, Homes, Once, NEW p \in Proc, BufferForRank(p)
  PROVE  Once'
<1>0. /\ held \in [Proc -> Update \cup {None}] /\ flushHeadBusy \in [Proc -> Seq(Update)] /\ \A v \in Update : Alone(v)
      /\ OneBuffer(p)
  BY DEF Flat, Deep, Once
<1>1. PICK u, q, r : u = held[p] /\ q = flushHeadBusy[p] /\ r = <<u>> \o q
  OBVIOUS
<1>2. /\ u \in Update /\ u # None /\ ProcOf(u.from) = p /\ q \in Seq(Update) /\ OneEach(q)
      /\ \A v \in ToSet(q) : RankOf(v) # RankOf(u)
  BY <1>0, <1>1 DEF BufferForRank, Homes, OfRanks, OneBuffer
<1>3. r \in Seq(Update) /\ OneEach(r) /\ ToSet(r) = ToSet(q) \cup {u}
  BY <1>1, <1>2, PushParts
<1>4. flushHeadBusy' = [flushHeadBusy EXCEPT ![p] = r] /\ held' = [held EXCEPT ![p] = None]
  BY <1>1 DEF BufferForRank
<1>5. flushHeadBusy'[p] = r /\ held'[p] = None /\ \A o \in Proc \ {p} : flushHeadBusy'[o] = flushHeadBusy[o] /\ held'[o] = held[o]
  BY <1>0, <1>4
<1>6. UNCHANGED <<dirty, coreFlushBuffer, queueMPInew, net, arrived, stuck, flushBuffersByCore, wqCacheFlush, combined>>
  BY DEF BufferForRank, threadVars, queueVars, mpiVars, localVars
<1>7. ASSUME NEW v \in Update, NEW l \in Labels \ {"held", "rank"} PROVE Same(v, l)
  BY <1>6, <1>7, Follows DEF Labels
<1>8. "held" \in Places(u) /\ "held" \notin Places(u)' /\ "rank" \in Places(u)'
  <2>1. held[ProcOf(u.from)] = u /\ held'[ProcOf(u.from)] # u
    BY <1>1, <1>2, <1>5
  <2>2. u \in ToSet(flushHeadBusy[ProcOf(u.from)])'
    BY <1>2, <1>3, <1>5
  <2> QED
    BY <2>1, <2>2, PlacesAre, PlacesBecome
<1>9. ASSUME NEW v \in Update \ {u} PROVE Same(v, "held") /\ Same(v, "rank")
  <2>1. ProcOf(v.from) \in Proc /\ v # None
    BY UpdateParts
  <2>2. held'[ProcOf(v.from)] = v <=> held[ProcOf(v.from)] = v
    BY <1>1, <1>5, <2>1
  <2>3. v \in ToSet(flushHeadBusy[ProcOf(v.from)])' <=> v \in ToSet(flushHeadBusy[ProcOf(v.from)])
    BY <1>1, <1>3, <1>5, <2>1
  <2> QED
    BY <2>2, <2>3, PlacesAre, PlacesBecome DEF Same
<1>10. \A v \in Update : Alone(v)'
  <2>1. {u} \in SUBSET Update
    BY <1>2
  <2>2. "held" \in Labels /\ "rank" \in Labels
    BY DEF Labels
  <2> QED
    BY <1>0, <1>7, <1>8, <1>9, <2>1, <2>2, AllMove
<1>11. ASSUME NEW o \in Proc PROVE OneBuffer(o)'
  <2>1. CASE o = p
    BY <1>3, <1>5, <2>1 DEF OneBuffer
  <2>2. CASE o # p
    <3>1. OneBuffer(o) /\ flushHeadBusy'[o] = flushHeadBusy[o] /\ held'[o] = held[o]
      BY <1>5, <2>2 DEF Once
    <3> QED
      BY <3>1 DEF OneBuffer
  <2> QED
    BY <2>1, <2>2
<1> QED
  BY <1>6, <1>10, <1>11, OnceLists DEF Once

LEMMA OnceFlushOut ==
  ASSUME Flat, Deep, Homes, Once, NEW p \in Proc, MessageCacheFlushOut(p)
  PROVE  Once'
<1>0. flushHeadBusy \in [Proc -> Seq(Update)] /\ \A v \in Update : Alone(v)
  BY DEF Deep, Once
<1>1. PICK S : S = ToSet(flushHeadBusy[p])
  OBVIOUS
<1>2. S \in SUBSET Update /\ \A v \in S : ProcOf(v.from) = p
  BY <1>0, <1>1 DEF ToSet, Homes, OfRanks
<1>3. flushHeadBusy' = [flushHeadBusy EXCEPT ![p] = <<>>] /\ net' = net \cup S
  BY <1>1 DEF MessageCacheFlushOut
<1>4. flushHeadBusy'[p] = <<>> /\ \A o \in Proc \ {p} : flushHeadBusy'[o] = flushHeadBusy[o]
  BY <1>0, <1>3
<1>5. ToSet(flushHeadBusy[p])' = {}
  BY <1>4 DEF ToSet
<1>6. UNCHANGED <<dirty, coreFlushBuffer, held, arrived, stuck, flushBuffersByCore, wqCacheFlush, combined>> /\ Steady
  <2>1. Process(p, "flushOut")
    BY DEF MessageCacheFlushOut
  <2>2. Steady
    BY <2>1, TookControl
  <2> QED
    BY <2>2 DEF MessageCacheFlushOut, threadVars, localVars
<1>7. ASSUME NEW v \in Update, NEW l \in Labels \ {"rank", "net"} PROVE Same(v, l)
  <2>1. Same(v, "queue")
    BY <1>6, SteadySame DEF Homes
  <2> QED
    BY <1>6, <1>7, <2>1, Follows DEF Labels
<1>8. \A v \in S : "rank" \in Places(v) /\ "rank" \notin Places(v)' /\ "net" \in Places(v)'
  BY <1>1, <1>2, <1>3, <1>5, PlacesAre, PlacesBecome
<1>9. ASSUME NEW v \in Update \ S PROVE Same(v, "rank") /\ Same(v, "net")
  <2>1. ProcOf(v.from) \in Proc
    BY UpdateParts
  <2>2. v \in ToSet(flushHeadBusy[ProcOf(v.from)])' <=> v \in ToSet(flushHeadBusy[ProcOf(v.from)])
    BY <1>1, <1>4, <1>5, <2>1
  <2> QED
    BY <1>3, <2>2, PlacesAre, PlacesBecome DEF Same
<1>10. \A v \in Update : Alone(v)'
  <2>1. "rank" \in Labels /\ "net" \in Labels
    BY DEF Labels
  <2> QED
    BY <1>0, <1>2, <1>7, <1>8, <1>9, <2>1, AllMove
<1>11. ASSUME NEW o \in Proc PROVE OneBuffer(o)'
  <2>1. CASE o = p
    <3>1. DOMAIN flushHeadBusy'[p] = {}
      BY <1>4
    <3> QED
      BY <1>5, <2>1, <3>1 DEF OneBuffer, OneEach
  <2>2. CASE o # p
    <3>1. OneBuffer(o) /\ flushHeadBusy'[o] = flushHeadBusy[o] /\ held'[o] = held[o]
      BY <1>4, <1>6, <2>2 DEF Once
    <3> QED
      BY <3>1 DEF OneBuffer
  <2> QED
    BY <2>1, <2>2
<1> QED
  BY <1>6, <1>10, <1>11, OnceLists DEF Once

LEMMA OnceMatch ==
  ASSUME Homes, Once, NEW u \in Update, Match(u)
  PROVE  Once'
<1>1. u \in net /\ net' = net \ {u} /\ arrived' = arrived \cup {u} /\ \A v \in Update : Alone(v)
  BY DEF Match, Once
<1>2. UNCHANGED <<dirty, coreFlushBuffer, queueMPInew, held, flushHeadBusy, stuck, flushBuffersByCore, wqCacheFlush, combined>>
  BY DEF Match, threadVars, queueVars, rankVars, localVars
<1>3. ASSUME NEW v \in Update, NEW l \in Labels \ {"net", "arrived"} PROVE Same(v, l)
  BY <1>2, <1>3, Follows DEF Labels
<1>4. "net" \in Places(u) /\ "net" \notin Places(u)' /\ "arrived" \in Places(u)'
  BY <1>1, PlacesAre, PlacesBecome
<1>5. ASSUME NEW v \in Update \ {u} PROVE Same(v, "net") /\ Same(v, "arrived")
  BY <1>1, PlacesAre, PlacesBecome DEF Same
<1>6. \A v \in Update : Alone(v)'
  <2>1. {u} \in SUBSET Update
    OBVIOUS
  <2>2. "net" \in Labels /\ "arrived" \in Labels
    BY DEF Labels
  <2> QED
    BY <1>1, <1>3, <1>4, <1>5, <2>1, <2>2, AllMove
<1> QED
  BY <1>2, <1>6, OnceLists DEF Once

LEMMA OnceFinishReceive ==
  ASSUME Flat, Deep, Homes, Once, NEW p \in Proc, FinishReceive(p)
  PROVE  Once'
<1>0. /\ stuck \in [Proc -> Update \cup {None}] /\ flushBuffersByCore \in [Thread -> Update \cup {None}]
      /\ \A v \in Update : Alone(v)
  BY DEF Flat, Once
<1>1. PICK u \in Update :
           /\ u \in arrived /\ RankOf(u) = p /\ u.to \in Thread /\ arrived' = arrived \ {u} /\ stuck[p] = None
           /\ stuck' = [stuck EXCEPT ![p] = u] /\ flushBuffersByCore' = [flushBuffersByCore EXCEPT ![u.to] = None]
           /\ \A t \in Thread \ {u.to} : wqCacheFlush'[t] = wqCacheFlush[t]
           /\ ToSet(wqCacheFlush[u.to])' = ToSet(wqCacheFlush[u.to]) \cup ({flushBuffersByCore[u.to]} \ {None})
           /\ IsInjective(wqCacheFlush[u.to]) /\ flushBuffersByCore[u.to] \notin ToSet(wqCacheFlush[u.to])
                => IsInjective(wqCacheFlush[u.to])'
  BY ReceiveIs
<1>2. UNCHANGED <<dirty, coreFlushBuffer, queueMPInew, held, flushHeadBusy, net, combined>>
  BY DEF FinishReceive, threadVars, queueVars, rankVars
<1>3. PICK t, x : t = u.to /\ x = flushBuffersByCore[t]
  OBVIOUS
<1>4. t \in Thread /\ x \in Update \cup {None} /\ (x # None => x.to = t)
  BY <1>0, <1>1, <1>3 DEF Homes, OfOwners
<1>5. ASSUME NEW v \in Update, NEW l \in Labels \ {"arrived", "stuck", "local", "wq"} PROVE Same(v, l)
  BY <1>2, <1>5, Follows DEF Labels
<1>6. /\ \A s \in Thread : flushBuffersByCore'[s] = IF s = t THEN None ELSE flushBuffersByCore[s]
      /\ \A o \in Proc : stuck'[o] = IF o = p THEN u ELSE stuck[o]
  BY <1>0, <1>1, <1>3
<1>7. "arrived" \in Places(u) /\ "arrived" \notin Places(u)' /\ "stuck" \in Places(u)'
  BY <1>1, <1>6, PlacesAre, PlacesBecome
<1>8. ASSUME NEW v \in Update, v # u PROVE Same(v, "arrived") /\ Same(v, "stuck")
  <2>1. RankOf(v) \in Proc /\ v # None
    BY UpdateParts
  <2>2. stuck'[RankOf(v)] = v <=> stuck[RankOf(v)] = v
    BY <1>1, <1>6, <1>8, <2>1
  <2> QED
    BY <1>1, <1>8, <2>2, PlacesAre, PlacesBecome DEF Same
<1>9. x # None => "local" \in Places(x) /\ "local" \notin Places(x)' /\ "wq" \in Places(x)'
  <2>1. x # None => x \in ToSet(wqCacheFlush[t])'
    BY <1>1, <1>3
  <2> QED
    BY <1>3, <1>4, <1>6, <2>1, PlacesAre, PlacesBecome
<1>10. ASSUME NEW v \in Update, v # x PROVE Same(v, "local") /\ Same(v, "wq")
  <2>1. v.to \in Thread /\ v # None
    BY UpdateParts
  <2>2. flushBuffersByCore'[v.to] = v <=> flushBuffersByCore[v.to] = v
    BY <1>3, <1>6, <1>10, <2>1
  <2>3. v \in ToSet(wqCacheFlush[v.to])' <=> v \in ToSet(wqCacheFlush[v.to])
    BY <1>1, <1>3, <1>10, <2>1
  <2> QED
    BY <2>2, <2>3, PlacesAre, PlacesBecome DEF Same
<1>11. u # x
  <2>1. "local" \notin Places(u)
    BY <1>0, <1>7, NowhereElse
  <2> QED
    BY <1>3, <2>1, PlacesAre
<1>l. {"arrived", "stuck", "local", "wq"} \subseteq Labels
  BY DEF Labels
<1>12. Alone(u)'
  <2>1. \A l \in Labels \ {"arrived", "stuck"} : Same(u, l)
    BY <1>5, <1>10, <1>11
  <2> QED
    BY <1>0, <1>7, <1>l, <2>1, MovedAlone
<1>13. ASSUME x # None PROVE Alone(x)'
  <2>1. \A l \in Labels \ {"local", "wq"} : Same(x, l)
    BY <1>4, <1>5, <1>8, <1>11, <1>13
  <2>2. x \in Update /\ Alone(x)
    BY <1>0, <1>4, <1>13
  <2> QED
    BY <1>9, <1>13, <1>l, <2>1, <2>2, MovedAlone
<1>14. ASSUME NEW v \in Update, v # u, v # x PROVE Alone(v)'
  <2>1. Alone(v) /\ \A l \in Labels : Same(v, l)
    BY <1>0, <1>5, <1>8, <1>10, <1>14
  <2> QED
    BY <2>1, StillAlone
<1>15. \A v \in Update : Alone(v)'
  <2>1. \A v \in Update : v # None
    BY UpdateParts
  <2> QED
    BY <1>12, <1>13, <1>14, <2>1
<1>16. \A s \in Thread : IsInjective(wqCacheFlush[s])'
  <2>1. x # None => x \notin ToSet(wqCacheFlush[t])
    <3>1. ASSUME x # None PROVE "wq" \notin Places(x)
      BY <1>0, <1>4, <1>9, <3>1, NowhereElse
    <3> QED
      BY <1>4, <3>1, PlacesAre
  <2>2. None \notin ToSet(wqCacheFlush[t])
    BY <1>4, UpdateParts DEF ToSet, Deep
  <2>3. IsInjective(wqCacheFlush[t])'
    BY <1>1, <1>3, <1>4, <2>1, <2>2 DEF Once
  <2>4. \A s \in Thread \ {t} : IsInjective(wqCacheFlush[s])'
    BY <1>1, <1>3 DEF Once
  <2> QED
    BY <2>3, <2>4
<1> QED
  BY <1>2, <1>15, <1>16, OnceLists DEF Once

LEMMA OnceBufferForCore ==
  ASSUME Flat, Homes, Once, NEW p \in Proc, BufferForCore(p)
  PROVE  Once'
<1>0. /\ stuck \in [Proc -> Update \cup {None}] /\ flushBuffersByCore \in [Thread -> Update \cup {None}]
      /\ \A v \in Update : Alone(v)
  BY DEF Flat, Once
<1>1. PICK u : u = stuck[p]
  OBVIOUS
<1>2. /\ u \in Update /\ u.to \in Thread /\ RankOf(u) = p /\ flushBuffersByCore[u.to] = None
      /\ stuck' = [stuck EXCEPT ![p] = None] /\ flushBuffersByCore' = [flushBuffersByCore EXCEPT ![u.to] = u]
  BY <1>0, <1>1, UpdateParts DEF BufferForCore, Homes, OfOwners
<1>3. UNCHANGED <<dirty, coreFlushBuffer, queueMPInew, held, flushHeadBusy, net, arrived, wqCacheFlush, combined>>
  BY DEF BufferForCore, threadVars, queueVars, rankVars, mpiVars
<1>4. ASSUME NEW v \in Update, NEW l \in Labels \ {"stuck", "local"} PROVE Same(v, l)
  BY <1>3, <1>4, Follows DEF Labels
<1>5. /\ \A s \in Thread : flushBuffersByCore'[s] = IF s = u.to THEN u ELSE flushBuffersByCore[s]
      /\ \A o \in Proc : stuck'[o] = IF o = p THEN None ELSE stuck[o]
  BY <1>0, <1>2
<1>6. "stuck" \in Places(u) /\ "stuck" \notin Places(u)' /\ "local" \in Places(u)'
  <2>1. u # None
    BY <1>2, UpdateParts
  <2> QED
    BY <1>1, <1>2, <1>5, <2>1, PlacesAre, PlacesBecome
<1>7. ASSUME NEW v \in Update \ {u} PROVE Same(v, "stuck") /\ Same(v, "local")
  <2>1. v.to \in Thread /\ v # None /\ RankOf(v) \in Proc
    BY UpdateParts
  <2>2. flushBuffersByCore'[v.to] = v <=> flushBuffersByCore[v.to] = v
    BY <1>2, <1>5, <2>1
  <2>3. stuck'[RankOf(v)] = v <=> stuck[RankOf(v)] = v
    BY <1>1, <1>5, <2>1
  <2> QED
    BY <2>2, <2>3, PlacesAre, PlacesBecome DEF Same
<1>8. \A v \in Update : Alone(v)'
  <2>1. {u} \in SUBSET Update
    BY <1>2
  <2>2. "stuck" \in Labels /\ "local" \in Labels
    BY DEF Labels
  <2> QED
    BY <1>0, <1>4, <1>6, <1>7, <2>1, <2>2, AllMove
<1> QED
  BY <1>3, <1>8, OnceLists DEF Once

LEMMA OnceFlushLocal ==
  ASSUME Flat, Deep, Homes, Once, NEW p \in Proc, MessageCacheFlushLocal(p)
  PROVE  Once'
<1>0. flushBuffersByCore \in [Thread -> Update \cup {None}] /\ \A v \in Update : Alone(v)
  BY DEF Flat, Once
<1>1. PICK S : S = {v \in Update : ProcOf(v.to) = p /\ flushBuffersByCore[v.to] = v}
  OBVIOUS
<1>2. /\ \A t \in Thread : flushBuffersByCore'[t] = IF ProcOf(t) = p THEN None ELSE flushBuffersByCore[t]
      /\ \A t \in Thread : ProcOf(t) # p => wqCacheFlush'[t] = wqCacheFlush[t]
      /\ \A t \in Thread : ProcOf(t) = p =>
              /\ ToSet(wqCacheFlush[t])' = ToSet(wqCacheFlush[t]) \cup ({flushBuffersByCore[t]} \ {None})
              /\ IsInjective(wqCacheFlush[t]) /\ flushBuffersByCore[t] \notin ToSet(wqCacheFlush[t])
                   => IsInjective(wqCacheFlush[t])'
  BY FlushLocalIs
<1>3. UNCHANGED <<dirty, coreFlushBuffer, held, flushHeadBusy, net, arrived, stuck, combined>> /\ Steady
  <2>1. Process(p, "flushLocal")
    BY DEF MessageCacheFlushLocal
  <2>2. Steady
    BY <2>1, TookControl
  <2> QED
    BY <2>2 DEF MessageCacheFlushLocal, threadVars, rankVars, mpiVars
<1>4. ASSUME NEW v \in Update, NEW l \in Labels \ {"local", "wq"} PROVE Same(v, l)
  <2>1. Same(v, "queue")
    BY <1>3, SteadySame DEF Homes
  <2> QED
    BY <1>3, <1>4, <2>1, Follows DEF Labels
<1>5. ASSUME NEW v \in S PROVE "local" \in Places(v) /\ "local" \notin Places(v)' /\ "wq" \in Places(v)'
  <2>1. v \in Update /\ v.to \in Thread /\ v # None /\ ProcOf(v.to) = p /\ flushBuffersByCore[v.to] = v
    BY <1>1, UpdateParts
  <2>2. flushBuffersByCore'[v.to] = None /\ v \in ToSet(wqCacheFlush[v.to])'
    BY <1>2, <2>1
  <2> QED
    BY <2>1, <2>2, PlacesAre, PlacesBecome
<1>6. ASSUME NEW v \in Update \ S PROVE Same(v, "local") /\ Same(v, "wq")
  <2>1. v.to \in Thread /\ v # None
    BY UpdateParts
  <2>2. flushBuffersByCore'[v.to] = v <=> flushBuffersByCore[v.to] = v
    BY <1>1, <1>2, <2>1
  <2>3. v \in ToSet(wqCacheFlush[v.to])' <=> v \in ToSet(wqCacheFlush[v.to])
    <3>1. CASE ProcOf(v.to) = p
      <4>1. flushBuffersByCore[v.to] # v
        BY <1>1, <3>1
      <4> QED
        BY <1>2, <2>1, <3>1, <4>1
    <3>2. CASE ProcOf(v.to) # p
      BY <1>2, <2>1, <3>2
    <3> QED
      BY <3>1, <3>2
  <2> QED
    BY <2>2, <2>3, PlacesAre, PlacesBecome DEF Same
<1>7. \A v \in Update : Alone(v)'
  <2>1. S \in SUBSET Update
    BY <1>1
  <2>2. "local" \in Labels /\ "wq" \in Labels
    BY DEF Labels
  <2> QED
    BY <1>0, <1>4, <1>5, <1>6, <2>1, <2>2, AllMove
<1>8. ASSUME NEW s \in Thread PROVE IsInjective(wqCacheFlush[s])'
  <2>1. flushBuffersByCore[s] \notin ToSet(wqCacheFlush[s])
    <3>1. CASE flushBuffersByCore[s] = None
      BY <3>1, UpdateParts DEF ToSet, Deep
    <3>2. CASE flushBuffersByCore[s] # None
      <4>1. PICK x : x = flushBuffersByCore[s]
        OBVIOUS
      <4>2. x \in Update /\ x.to = s
        BY <1>0, <3>2, <4>1 DEF Homes, OfOwners
      <4>3. "local" \in Places(x)
        BY <4>1, <4>2, PlacesAre
      <4>4. "wq" \notin Places(x)
        BY <1>0, <4>2, <4>3, NowhereElse
      <4> QED
        BY <4>1, <4>2, <4>4, PlacesAre
    <3> QED
      BY <3>1, <3>2
  <2>2. IsInjective(wqCacheFlush[s])
    BY DEF Once
  <2> QED
    BY <1>2, <2>1, <2>2
<1> QED
  BY <1>3, <1>7, <1>8, OnceLists DEF Once

LEMMA OnceCombine ==
  ASSUME Deep, Homes, Once, NEW t \in Thread, Combine(t)
  PROVE  Once'
<1>0. \A v \in Update : Alone(v)
  BY DEF Once
<1>1. PICK u \in Update :
           /\ u \in ToSet(wqCacheFlush[t]) /\ combined' = combined \cup {u}
           /\ ToSet(wqCacheFlush[t]) = ToSet(wqCacheFlush[t])' \cup {u}
           /\ \A s \in Thread \ {t} : wqCacheFlush'[s] = wqCacheFlush[s]
           /\ IsInjective(wqCacheFlush[t]) => IsInjective(wqCacheFlush[t])' /\ u \notin ToSet(wqCacheFlush[t])'
  BY CombineIs
<1>2. u.to = t /\ IsInjective(wqCacheFlush[t])' /\ u \notin ToSet(wqCacheFlush[t])'
  BY <1>1 DEF Homes, OfOwners, Once
<1>3. UNCHANGED <<dirty, coreFlushBuffer, queueMPInew, held, flushHeadBusy, net, arrived, stuck, flushBuffersByCore>>
  BY DEF Combine, threadVars, queueVars, rankVars, mpiVars
<1>4. ASSUME NEW v \in Update, NEW l \in Labels \ {"wq", "combined"} PROVE Same(v, l)
  BY <1>3, <1>4, Follows DEF Labels
<1>5. "wq" \in Places(u) /\ "wq" \notin Places(u)' /\ "combined" \in Places(u)'
  BY <1>1, <1>2, PlacesAre, PlacesBecome
<1>6. ASSUME NEW v \in Update \ {u} PROVE Same(v, "wq") /\ Same(v, "combined")
  <2>1. v.to \in Thread
    BY UpdateParts
  <2>2. v \in ToSet(wqCacheFlush[v.to])' <=> v \in ToSet(wqCacheFlush[v.to])
    BY <1>1, <2>1
  <2> QED
    BY <1>1, <2>2, PlacesAre, PlacesBecome DEF Same
<1>7. \A v \in Update : Alone(v)'
  <2>1. {u} \in SUBSET Update
    OBVIOUS
  <2>2. "wq" \in Labels /\ "combined" \in Labels
    BY DEF Labels
  <2> QED
    BY <1>0, <1>4, <1>5, <1>6, <2>1, <2>2, AllMove
<1>8. \A s \in Thread : IsInjective(wqCacheFlush[s])'
  BY <1>1, <1>2 DEF Once
<1> QED
  BY <1>3, <1>7, <1>8, OnceLists DEF Once

LEMMA OnceStep == Flat /\ Deep /\ Queued /\ Homes /\ Once /\ [Next]_vars => Once'
<1> SUFFICES ASSUME Flat, Deep, Queued, Homes, Once, [Next]_vars PROVE Once'
  OBVIOUS
<1>1. CASE Moves
  BY <1>1, OnceFlushElement, OnceFlushCoreBuffer, OnceFlushFromCore, OnceBufferForRank, OnceFlushOut, OnceMatch,
     OnceFinishReceive, OnceBufferForCore, OnceFlushLocal, OnceCombine DEF Moves
<1>2. CASE ~Moves
  <2>1. UNCHANGED placeVars /\ Steady
    BY <1>2, WhoMovesUpdates
  <2>2. ASSUME NEW v \in Update PROVE Alone(v)'
    <3>1. Same(v, "queue")
      BY <2>1, SteadySame DEF Homes
    <3>2. \A l \in Labels : Same(v, l)
      BY <2>1, <3>1, Follows DEF Labels, placeVars
    <3> QED
      BY <3>2, StillAlone DEF Once
  <2> QED
    BY <2>1, <2>2, OnceLists DEF Once, placeVars
<1> QED
  BY <1>1, <1>2

------------------------------------------------------------------------------
(* BuffersAccounted *)

\* A list without repetition has as many members as elements.
LEMMA DistinctCount ==
  ASSUME NEW q \in Seq(Update), IsInjective(q)
  PROVE  IsFiniteSet(ToSet(q)) /\ Cardinality(ToSet(q)) = Len(q) /\ Len(q) \in Nat
<1>1. Len(q) \in Nat /\ DOMAIN q = 1..Len(q)
  OBVIOUS
<1>2. PICK n, D, T : n = Len(q) /\ D = 1..n /\ T = ToSet(q)
  OBVIOUS
<1>3. D = DOMAIN q /\ n \in Nat
  BY <1>1, <1>2
<1>4. IsFiniteSet(D) /\ Cardinality(D) = n
  <2>1. IsFiniteSet(1..n) /\ Cardinality(1..n) = IF 1 > n THEN 0 ELSE n - 1 + 1
    BY <1>3, FS_Interval
  <2> QED
    BY <1>2, <1>3, <2>1
<1>5. q \in [D -> T]
  <2>1. q = [i \in DOMAIN q |-> q[i]]
    BY SeqDef
  <2>2. \A i \in DOMAIN q : q[i] \in T
    BY <1>2 DEF ToSet
  <2> QED
    BY <1>3, <2>1, <2>2
<1>6. \A x \in T : \E i \in D : q[i] = x
  BY <1>2, <1>3 DEF ToSet
<1>7. q \in Surjection(D, T)
  BY <1>5, <1>6 DEF Surjection
<1>8. q \in Injection(D, T)
  BY <1>5 DEF Injection
<1>9. IsFiniteSet(T) /\ Cardinality(T) = Cardinality(D)
  BY <1>4, <1>7, <1>8, FS_Surjection
<1> QED
  BY <1>2, <1>3, <1>4, <1>9

LEMMA OneEachCount ==
  ASSUME NEW q \in Seq(Update), OneEach(q)
  PROVE  IsFiniteSet(ToSet(q)) /\ Cardinality(ToSet(q)) = Len(q) /\ Len(q) \in Nat
<1>1. IsInjective(q)
  BY DEF OneEach, IsInjective
<1> QED
  BY <1>1, DistinctCount

RankBuffersOf(p) == flushHeadFree[p] + Len(flushHeadBusy[p]) + completed[p] + Cardinality(Sent(p)) = RankBuffers
CoreBuffersOf(p) == localFlushBuffers[p] + Cardinality(InCoreBuffer(p)) = 2 * Cores
Accounted == \A p \in Proc : RankBuffersOf(p) /\ CoreBuffersOf(p)

LEMMA AccountedIs == Deep /\ Once /\ Accounted => BuffersAccounted
<1>1. ASSUME Deep, Once, NEW t \in Thread PROVE Cardinality(ToSet(wqCacheFlush[t])) = Len(wqCacheFlush[t])
  <2>1. wqCacheFlush[t] \in Seq(Update) /\ IsInjective(wqCacheFlush[t])
    BY <1>1 DEF Deep, Once
  <2> QED
    BY <2>1, DistinctCount
<1> QED
  BY <1>1 DEF Accounted, RankBuffersOf, CoreBuffersOf, BuffersAccounted

LEMMA SentFinite ==
  ASSUME Flat, NEW p
  PROVE  IsFiniteSet(Sent(p)) /\ Cardinality(Sent(p)) \in Nat /\ IsFiniteSet(InCoreBuffer(p)) /\ Cardinality(InCoreBuffer(p)) \in Nat
<1>1. PICK A, B : A = Sent(p) /\ B = InCoreBuffer(p)
  OBVIOUS
<1>2. A \in SUBSET Update /\ B \in SUBSET Update
  BY <1>1 DEF Flat, Sent, InCoreBuffer
<1>3. IsFiniteSet(A) /\ IsFiniteSet(B)
  BY <1>2, ThreadFacts, FS_Subset
<1> QED
  BY <1>1, <1>3, FS_CardinalityType

LEMMA RanksSame ==
  ASSUME NEW p \in Proc, RankBuffersOf(p), flushHeadFree'[p] = flushHeadFree[p], flushHeadBusy'[p] = flushHeadBusy[p],
         completed'[p] = completed[p], Sent(p)' = Sent(p)
  PROVE  RankBuffersOf(p)'
BY DEF RankBuffersOf

\* The full buffers of a rank are sent.
LEMMA RanksSend ==
  ASSUME Flat, Deep, Homes, Once, NEW p \in Proc, RankBuffersOf(p), NEW r \in Seq(Update), NEW F \in SUBSET Update,
         IsFiniteSet(F), Len(r) + Cardinality(F) = Len(flushHeadBusy[p]), F \subseteq ToSet(flushHeadBusy[p]),
         flushHeadBusy' = [flushHeadBusy EXCEPT ![p] = r], net' = net \cup F, UNCHANGED <<flushHeadFree, completed>>
  PROVE  \A o \in Proc : RankBuffersOf(o) => RankBuffersOf(o)'
<1>1. \A v \in F : v \in Update /\ ProcOf(v.from) = p /\ v \notin net
  <2>1. ASSUME NEW v \in F PROVE v \notin net
    <3>1. v \in Update /\ ProcOf(v.from) = p /\ v \in ToSet(flushHeadBusy[p]) /\ Alone(v)
      BY DEF Homes, OfRanks, Once
    <3>2. "rank" \in Places(v)
      BY <3>1, PlacesAre
    <3>3. "net" \notin Places(v)
      BY <3>1, <3>2, NowhereElse
    <3> QED
      BY <3>3, PlacesAre
  <2> QED
    BY <2>1 DEF Homes, OfRanks
<1>2. PICK A, B : A = Sent(p) /\ B = Sent(p)'
  OBVIOUS
<1>3. B = A \cup F /\ A \cap F = {}
  BY <1>1, <1>2 DEF Sent
<1>4. IsFiniteSet(A) /\ Cardinality(A) \in Nat /\ Cardinality(F) \in Nat
  BY <1>2, SentFinite, FS_CardinalityType
<1>5. Cardinality(B) = Cardinality(A) + Cardinality(F)
  <2>1. PICK E : E = A \cap F
    OBVIOUS
  <2>2. Cardinality(E) = 0
    BY <1>3, <2>1, FS_EmptySet
  <2>3. Cardinality(A \cup F) = Cardinality(A) + Cardinality(F) - Cardinality(E)
    BY <1>4, <2>1, FS_Union
  <2> QED
    BY <1>3, <1>4, <2>2, <2>3
<1>6. RankBuffersOf(p)'
  <2>1. PICK a, b, c, n, f, g : /\ a = flushHeadFree[p] /\ b = completed[p] /\ c = Cardinality(A) /\ n = Len(flushHeadBusy[p])
                                /\ f = Cardinality(F) /\ g = Len(r)
    OBVIOUS
  <2>2. a \in Nat /\ b \in Nat /\ c \in Nat /\ n \in Nat /\ f \in Nat /\ g \in Nat
    BY <1>4, <2>1 DEF Flat, Deep
  <2>3. flushHeadBusy'[p] = r
    BY DEF Deep
  <2>4. a + n + b + c = RankBuffers /\ g + f = n
    BY <1>2, <2>1 DEF RankBuffersOf
  <2>5. a + g + b + (c + f) = RankBuffers
    BY <2>2, <2>4
  <2> QED
    BY <1>2, <1>5, <2>1, <2>3, <2>5 DEF RankBuffersOf
<1>7. ASSUME NEW o \in Proc, o # p, RankBuffersOf(o) PROVE RankBuffersOf(o)'
  <2>1. Sent(o)' = Sent(o)
    BY <1>1, <1>7 DEF Sent
  <2>2. flushHeadBusy'[o] = flushHeadBusy[o]
    BY <1>7 DEF Deep
  <2> QED
    BY <1>7, <2>1, <2>2, RanksSame
<1> QED
  BY <1>6, <1>7

LEMMA RanksStep == Flat /\ Deep /\ Queued /\ Homes /\ Once /\ Accounted /\ [Next]_vars => \A p \in Proc : RankBuffersOf(p)'
<1> SUFFICES ASSUME Flat, Deep, Queued, Homes, Once, Accounted, [Next]_vars PROVE \A p \in Proc : RankBuffersOf(p)'
  OBVIOUS
<1>0. /\ flushHeadFree \in [Proc -> Nat] /\ completed \in [Proc -> Nat] /\ flushHeadBusy \in [Proc -> Seq(Update)]
      /\ held \in [Proc -> Update \cup {None}]
      /\ \A p \in Proc : OneEach(flushHeadBusy[p]) /\ OneBuffer(p) /\ RankBuffersOf(p)
  BY DEF Flat, Deep, Once, OneBuffer, Accounted
<1>s. UNCHANGED <<flushHeadFree, flushHeadBusy, completed, net>> => \A p \in Proc : RankBuffersOf(p)'
  BY <1>0 DEF RankBuffersOf, Sent
<1>1. ASSUME NEW p \in Proc, MessageFlushFromCore(p) PROVE \A o \in Proc : RankBuffersOf(o)'
  <2>0. OneEach(flushHeadBusy[p])
    BY <1>0
  <2>1. PICK u \in Update \cup {None}, r \in Seq(Update), F \in SUBSET Update :
           /\ u = Head(queueMPInew[p]).update
           /\ held' = [held EXCEPT ![p] = u] /\ flushHeadBusy' = [flushHeadBusy EXCEPT ![p] = r] /\ net' = net \cup F
           /\ OneEach(r) /\ \A v \in ToSet(r) : RankOf(v) # RankOf(u)
           /\ ToSet(flushHeadBusy[p]) = ToSet(r) \cup F /\ ToSet(r) \cap F = {}
           /\ IsFiniteSet(F) /\ Len(r) + Cardinality(F) = Len(flushHeadBusy[p])
    BY <1>1, <2>0, FlushElementSends
  <2>2. UNCHANGED <<flushHeadFree, completed>> /\ F \subseteq ToSet(flushHeadBusy[p])
    BY <1>1, <2>1 DEF MessageFlushFromCore
  <2> QED
    BY <1>0, <2>1, <2>2, RanksSend
<1>2. ASSUME NEW p \in Proc, MessageCacheFlushOut(p) PROVE \A o \in Proc : RankBuffersOf(o)'
  <2>1. PICK F, r : F = ToSet(flushHeadBusy[p]) /\ r = <<>>
    OBVIOUS
  <2>2. IsFiniteSet(F) /\ Cardinality(F) = Len(flushHeadBusy[p]) /\ F \in SUBSET Update
    <3>1. flushHeadBusy[p] \in Seq(Update) /\ OneEach(flushHeadBusy[p])
      BY <1>0
    <3>2. F \in SUBSET Update
      BY <2>1, <3>1 DEF ToSet
    <3> QED
      BY <2>1, <3>1, <3>2, OneEachCount
  <2>3. r \in Seq(Update) /\ Len(r) = 0
    BY <2>1
  <2>4. Len(r) + Cardinality(F) = Len(flushHeadBusy[p])
    BY <1>0, <2>2, <2>3
  <2>5. flushHeadBusy' = [flushHeadBusy EXCEPT ![p] = r] /\ net' = net \cup F /\ UNCHANGED <<flushHeadFree, completed>>
    BY <1>2, <2>1 DEF MessageCacheFlushOut
  <2> QED
    BY <1>0, <2>1, <2>2, <2>3, <2>4, <2>5, RanksSend
<1>3. ASSUME NEW p \in Proc, BufferForRank(p) PROVE \A o \in Proc : RankBuffersOf(o)'
  <2>1. PICK u, q, r : u = held[p] /\ q = flushHeadBusy[p] /\ r = <<u>> \o q
    OBVIOUS
  <2>2. u \in Update /\ q \in Seq(Update) /\ flushHeadFree[p] > 0 /\ flushHeadFree[p] \in Nat
    BY <1>0, <1>3, <2>1 DEF BufferForRank
  <2>3. r \in Seq(Update) /\ Len(r) = Len(q) + 1 /\ Len(q) \in Nat
    BY <2>1, <2>2, PushIs
  <2>4. /\ flushHeadBusy' = [flushHeadBusy EXCEPT ![p] = r] /\ flushHeadFree' = [flushHeadFree EXCEPT ![p] = flushHeadFree[p] - 1]
        /\ UNCHANGED <<net, completed>>
    BY <1>3, <2>1 DEF BufferForRank, mpiVars
  <2>5. flushHeadBusy'[p] = r /\ flushHeadFree'[p] = flushHeadFree[p] - 1
    BY <1>0, <2>4
  <2>6. PICK a, b, c, n : a = flushHeadFree[p] /\ b = completed[p] /\ c = Cardinality(Sent(p)) /\ n = Len(q)
    OBVIOUS
  <2>7. a \in Nat /\ b \in Nat /\ c \in Nat /\ n \in Nat /\ a + n + b + c = RankBuffers
    BY <1>0, <2>1, <2>3, <2>6, SentFinite DEF RankBuffersOf
  <2>8. (a - 1) + (n + 1) + b + c = RankBuffers
    BY <2>7
  <2>9. Sent(p)' = Sent(p) /\ completed'[p] = b
    BY <2>4, <2>6 DEF Sent
  <2>10. RankBuffersOf(p)'
    BY <2>3, <2>5, <2>6, <2>8, <2>9 DEF RankBuffersOf
  <2>11. ASSUME NEW o \in Proc, o # p PROVE RankBuffersOf(o)'
    <3>1. /\ flushHeadBusy'[o] = flushHeadBusy[o] /\ flushHeadFree'[o] = flushHeadFree[o] /\ completed'[o] = completed[o]
          /\ Sent(o)' = Sent(o)
      BY <1>0, <2>4, <2>11 DEF Sent
    <3> QED
      BY <1>0, <3>1, RanksSame
  <2> QED
    BY <2>10, <2>11
<1>4. ASSUME NEW u \in Update, Match(u) PROVE \A o \in Proc : RankBuffersOf(o)'
  <2>1. PICK p \in Proc : p = ProcOf(u.from)
    BY UpdateParts
  <2>2. u \in net /\ net' = net \ {u} /\ completed' = [completed EXCEPT ![p] = completed[p] + 1] /\ UNCHANGED <<flushHeadFree, flushHeadBusy>>
    BY <1>4, <2>1 DEF Match, rankVars
  <2>3. PICK A, B : A = Sent(p) /\ B = Sent(p)'
    OBVIOUS
  <2>4. B = A \ {u} /\ u \in A
    BY <2>1, <2>2, <2>3 DEF Sent
  <2>5. Cardinality(B) = Cardinality(A) - 1 /\ Cardinality(A) \in Nat
    <3>1. IsFiniteSet(A) /\ Cardinality(A) \in Nat
      BY <2>3, SentFinite
    <3> QED
      BY <2>4, <3>1, FS_RemoveElement
  <2>6. PICK a, b, c, n : a = flushHeadFree[p] /\ b = completed[p] /\ c = Cardinality(A) /\ n = Len(flushHeadBusy[p])
    OBVIOUS
  <2>7. a \in Nat /\ b \in Nat /\ c \in Nat /\ n \in Nat /\ a + n + b + c = RankBuffers
    BY <1>0, <2>3, <2>5, <2>6 DEF RankBuffersOf
  <2>8. a + n + (b + 1) + (c - 1) = RankBuffers
    BY <2>7
  <2>9. completed'[p] = b + 1 /\ Cardinality(B) = c - 1
    BY <1>0, <2>2, <2>5, <2>6
  <2>10. RankBuffersOf(p)'
    BY <2>2, <2>3, <2>6, <2>8, <2>9 DEF RankBuffersOf
  <2>11. ASSUME NEW o \in Proc, o # p PROVE RankBuffersOf(o)'
    <3>1. Sent(o)' = Sent(o) /\ completed'[o] = completed[o]
      BY <1>0, <2>1, <2>2, <2>11 DEF Sent
    <3> QED
      BY <1>0, <2>2, <3>1, RanksSame
  <2> QED
    BY <2>10, <2>11
<1>5. ASSUME NEW p \in Proc, FinishFlushToRank(p) PROVE \A o \in Proc : RankBuffersOf(o)'
  <2>1. /\ completed[p] > 0 /\ completed' = [completed EXCEPT ![p] = completed[p] - 1]
        /\ flushHeadFree' = [flushHeadFree EXCEPT ![p] = flushHeadFree[p] + 1] /\ UNCHANGED <<flushHeadBusy, net>>
    BY <1>5 DEF FinishFlushToRank
  <2>2. \A o \in Proc : Sent(o)' = Sent(o)
    BY <2>1 DEF Sent
  <2>3. PICK a, b, c, n : a = flushHeadFree[p] /\ b = completed[p] /\ c = Cardinality(Sent(p)) /\ n = Len(flushHeadBusy[p])
    OBVIOUS
  <2>4. a \in Nat /\ b \in Nat /\ c \in Nat /\ n \in Nat /\ a + n + b + c = RankBuffers
    BY <1>0, <2>3, SentFinite DEF RankBuffersOf
  <2>5. (a + 1) + n + (b - 1) + c = RankBuffers
    BY <2>4
  <2>6. completed'[p] = b - 1 /\ flushHeadFree'[p] = a + 1
    BY <1>0, <2>1, <2>3
  <2>7. RankBuffersOf(p)'
    BY <2>1, <2>2, <2>3, <2>5, <2>6 DEF RankBuffersOf
  <2>8. ASSUME NEW o \in Proc, o # p PROVE RankBuffersOf(o)'
    <3>1. completed'[o] = completed[o] /\ flushHeadFree'[o] = flushHeadFree[o]
      BY <1>0, <2>1, <2>8
    <3> QED
      BY <1>0, <2>1, <2>2, <3>1, RanksSame
  <2> QED
    BY <2>7, <2>8
<1>6. ASSUME NEW t \in Thread, Core(t) \/ Combine(t) PROVE \A o \in Proc : RankBuffersOf(o)'
  BY <1>6, <1>s DEF Core, FlushElement, FlushCoreBuffer, TakeSpare, Cleared, CollectThenMPI, Release, LeaveBarrier, Answered,
                    Combine, rankVars, mpiVars
<1>7. ASSUME NEW p \in Proc, FlushOutDone(p) \/ MessageBarrierMPI(p) \/ MessageCacheFlushLocal(p) \/ MessageCacheClose(p)
      PROVE  \A o \in Proc : RankBuffersOf(o)'
  BY <1>7, <1>s DEF FlushOutDone, MessageBarrierMPI, MessageCacheFlushLocal, MessageCacheClose, rankVars, mpiVars
<1>8. ASSUME NEW p \in Proc, FinishReceive(p) \/ BufferForCore(p) \/ FinishBarrier(p) \/ LeaveFinish(p)
      PROVE  \A o \in Proc : RankBuffersOf(o)'
  BY <1>8, <1>s DEF FinishReceive, BufferForCore, FinishBarrier, LeaveFinish, rankVars, mpiVars
<1>9. CASE UNCHANGED vars
  BY <1>9, <1>s DEF vars, rankVars, mpiVars
<1> QED
  BY <1>1, <1>2, <1>3, <1>4, <1>5, <1>6, <1>7, <1>8, <1>9 DEF Next, MPIThread

LEMMA CoresSame ==
  ASSUME NEW p \in Proc, CoreBuffersOf(p), localFlushBuffers'[p] = localFlushBuffers[p], InCoreBuffer(p)' = InCoreBuffer(p)
  PROVE  CoreBuffersOf(p)'
BY DEF CoreBuffersOf

LEMMA CoresStep ==
  Flat /\ Deep /\ Queued /\ Homes /\ Once /\ Once' /\ Accounted /\ [Next]_vars => \A p \in Proc : CoreBuffersOf(p)'
<1> SUFFICES ASSUME Flat, Deep, Queued, Homes, Once, Once', Accounted, [Next]_vars PROVE \A p \in Proc : CoreBuffersOf(p)'
  OBVIOUS
<1>0. /\ localFlushBuffers \in [Proc -> Nat] /\ stuck \in [Proc -> Update \cup {None}]
      /\ flushBuffersByCore \in [Thread -> Update \cup {None}]
      /\ \A p \in Proc : CoreBuffersOf(p)
  BY DEF Flat, Accounted
<1>s. UNCHANGED <<localFlushBuffers, flushBuffersByCore, wqCacheFlush>> => \A p \in Proc : CoreBuffersOf(p)'
  BY <1>0 DEF CoreBuffersOf, InCoreBuffer
<1>1. ASSUME NEW p \in Proc, FinishReceive(p) PROVE \A o \in Proc : CoreBuffersOf(o)'
  <2>1. PICK u \in Update :
           /\ u \in arrived /\ RankOf(u) = p /\ u.to \in Thread /\ arrived' = arrived \ {u} /\ stuck[p] = None
           /\ stuck' = [stuck EXCEPT ![p] = u] /\ flushBuffersByCore' = [flushBuffersByCore EXCEPT ![u.to] = None]
           /\ \A t \in Thread \ {u.to} : wqCacheFlush'[t] = wqCacheFlush[t]
           /\ ToSet(wqCacheFlush[u.to])' = ToSet(wqCacheFlush[u.to]) \cup ({flushBuffersByCore[u.to]} \ {None})
           /\ IsInjective(wqCacheFlush[u.to]) /\ flushBuffersByCore[u.to] \notin ToSet(wqCacheFlush[u.to])
                => IsInjective(wqCacheFlush[u.to])'
    BY <1>1, ReceiveIs
  <2>2. \A v \in Update : v.to \in Thread /\ v # None
    BY UpdateParts
  <2>3. ASSUME NEW v \in Update
        PROVE  (flushBuffersByCore[v.to] = v \/ v \in ToSet(wqCacheFlush[v.to]))
                 <=> (flushBuffersByCore'[v.to] = v \/ v \in ToSet(wqCacheFlush[v.to])')
    <3>1. CASE v.to = u.to
      <4>1. flushBuffersByCore'[v.to] = None
        BY <1>0, <2>1, <3>1
      <4> QED
        BY <2>1, <2>2, <3>1, <4>1
    <3>2. CASE v.to # u.to
      <4>1. flushBuffersByCore'[v.to] = flushBuffersByCore[v.to] /\ wqCacheFlush'[v.to] = wqCacheFlush[v.to]
        BY <1>0, <2>1, <2>2, <3>2
      <4> QED
        BY <4>1
    <3> QED
      BY <3>1, <3>2
  <2>4. \A o \in Proc : InCoreBuffer(o)' = InCoreBuffer(o)
    BY <2>3 DEF InCoreBuffer
  <2>5. UNCHANGED localFlushBuffers
    BY <1>1 DEF FinishReceive
  <2> QED
    BY <1>0, <2>4, <2>5, CoresSame
<1>2. ASSUME NEW p \in Proc, MessageCacheFlushLocal(p) PROVE \A o \in Proc : CoreBuffersOf(o)'
  <2>1. /\ \A t \in Thread : flushBuffersByCore'[t] = IF ProcOf(t) = p THEN None ELSE flushBuffersByCore[t]
        /\ \A t \in Thread : ProcOf(t) # p => wqCacheFlush'[t] = wqCacheFlush[t]
        /\ \A t \in Thread : ProcOf(t) = p =>
              /\ ToSet(wqCacheFlush[t])' = ToSet(wqCacheFlush[t]) \cup ({flushBuffersByCore[t]} \ {None})
              /\ IsInjective(wqCacheFlush[t]) /\ flushBuffersByCore[t] \notin ToSet(wqCacheFlush[t])
                   => IsInjective(wqCacheFlush[t])'
    BY <1>2, FlushLocalIs
  <2>2. ASSUME NEW v \in Update
        PROVE  (flushBuffersByCore[v.to] = v \/ v \in ToSet(wqCacheFlush[v.to]))
                 <=> (flushBuffersByCore'[v.to] = v \/ v \in ToSet(wqCacheFlush[v.to])')
    <3>1. v.to \in Thread /\ v # None
      BY UpdateParts
    <3>2. CASE ProcOf(v.to) = p
      <4>1. /\ flushBuffersByCore'[v.to] = None
            /\ ToSet(wqCacheFlush[v.to])' = ToSet(wqCacheFlush[v.to]) \cup ({flushBuffersByCore[v.to]} \ {None})
        BY <2>1, <3>1, <3>2
      <4> QED
        BY <3>1, <4>1
    <3>3. CASE ProcOf(v.to) # p
      BY <2>1, <3>1, <3>3
    <3> QED
      BY <3>2, <3>3
  <2>3. \A o \in Proc : InCoreBuffer(o)' = InCoreBuffer(o)
    BY <2>2 DEF InCoreBuffer
  <2>4. UNCHANGED localFlushBuffers
    BY <1>2 DEF MessageCacheFlushLocal
  <2> QED
    BY <1>0, <2>3, <2>4, CoresSame
<1>3. ASSUME NEW p \in Proc, BufferForCore(p) PROVE \A o \in Proc : CoreBuffersOf(o)'
  <2>1. PICK u : u = stuck[p]
    OBVIOUS
  <2>2. /\ u \in Update /\ u.to \in Thread /\ u # None /\ RankOf(u) = p /\ flushBuffersByCore[u.to] = None
        /\ flushBuffersByCore' = [flushBuffersByCore EXCEPT ![u.to] = u] /\ UNCHANGED wqCacheFlush
        /\ localFlushBuffers[p] > 0 /\ localFlushBuffers' = [localFlushBuffers EXCEPT ![p] = localFlushBuffers[p] - 1]
    BY <1>0, <1>3, <2>1, UpdateParts DEF BufferForCore, Homes, OfOwners
  <2>3. \A t \in Thread : flushBuffersByCore'[t] = IF t = u.to THEN u ELSE flushBuffersByCore[t]
    BY <1>0, <2>2
  <2>4. u \notin ToSet(wqCacheFlush[u.to])
    <3>1. Alone(u) /\ "stuck" \in Places(u)
      BY <2>1, <2>2, PlacesAre DEF Once
    <3>2. "wq" \notin Places(u)
      BY <3>1, NowhereElse
    <3> QED
      BY <3>2, PlacesAre
  <2>5. ASSUME NEW v \in Update, v # u
        PROVE  (flushBuffersByCore[v.to] = v \/ v \in ToSet(wqCacheFlush[v.to]))
                 <=> (flushBuffersByCore'[v.to] = v \/ v \in ToSet(wqCacheFlush[v.to])')
    <3>1. v.to \in Thread /\ v # None
      BY UpdateParts
    <3>2. flushBuffersByCore[v.to] = v <=> flushBuffersByCore'[v.to] = v
      BY <2>2, <2>3, <2>5, <3>1
    <3> QED
      BY <2>2, <3>2
  <2>6. u \notin InCoreBuffer(p) /\ u \in InCoreBuffer(p)' /\ RankOf(u) = p
    BY <2>2, <2>3, <2>4 DEF InCoreBuffer
  <2>7. InCoreBuffer(p)' = InCoreBuffer(p) \cup {u}
    BY <2>2, <2>5, <2>6 DEF InCoreBuffer
  <2>8. \A o \in Proc : o # p => InCoreBuffer(o)' = InCoreBuffer(o)
    BY <2>2, <2>5 DEF InCoreBuffer
  <2>9. PICK A, B : A = InCoreBuffer(p) /\ B = InCoreBuffer(p)'
    OBVIOUS
  <2>10. Cardinality(B) = Cardinality(A) + 1 /\ Cardinality(A) \in Nat
    <3>1. IsFiniteSet(A) /\ Cardinality(A) \in Nat
      BY <2>9, SentFinite
    <3>2. B = A \cup {u} /\ u \notin A
      BY <2>6, <2>7, <2>9
    <3>3. Cardinality(A \cup {u}) = IF u \in A THEN Cardinality(A) ELSE Cardinality(A) + 1
      BY <3>1, FS_AddElement
    <3> QED
      BY <3>1, <3>2, <3>3
  <2>11. PICK a, b, n : a = localFlushBuffers[p] /\ b = Cardinality(A) /\ n = 2 * Cores
    OBVIOUS
  <2>12. a \in Nat /\ b \in Nat /\ a + b = n
    BY <1>0, <2>9, <2>10, <2>11 DEF CoreBuffersOf
  <2>13. (a - 1) + (b + 1) = n
    BY <2>12
  <2>14. CoreBuffersOf(p)'
    <3>1. localFlushBuffers'[p] = a - 1 /\ Cardinality(B) = b + 1
      BY <1>0, <2>2, <2>10, <2>11
    <3> QED
      BY <2>9, <2>11, <2>13, <3>1 DEF CoreBuffersOf
  <2>15. ASSUME NEW o \in Proc, o # p PROVE CoreBuffersOf(o)'
    <3>1. localFlushBuffers'[o] = localFlushBuffers[o] /\ InCoreBuffer(o)' = InCoreBuffer(o)
      BY <1>0, <2>2, <2>8, <2>15
    <3> QED
      BY <1>0, <3>1, CoresSame
  <2> QED
    BY <2>14, <2>15
<1>4. ASSUME NEW t \in Thread, Combine(t) PROVE \A o \in Proc : CoreBuffersOf(o)'
  <2>1. PICK u \in Update :
           /\ u \in ToSet(wqCacheFlush[t]) /\ combined' = combined \cup {u}
           /\ ToSet(wqCacheFlush[t]) = ToSet(wqCacheFlush[t])' \cup {u}
           /\ \A s \in Thread \ {t} : wqCacheFlush'[s] = wqCacheFlush[s]
           /\ IsInjective(wqCacheFlush[t]) => IsInjective(wqCacheFlush[t])' /\ u \notin ToSet(wqCacheFlush[t])'
    BY <1>4, CombineIs
  <2>2. PICK p \in Proc : p = ProcOf(t)
    BY ThreadFacts
  <2>3. u.to = t /\ RankOf(u) = p /\ u \notin ToSet(wqCacheFlush[t])'
    BY <2>1, <2>2 DEF Homes, OfOwners, Once, RankOf
  <2>4. UNCHANGED flushBuffersByCore /\ localFlushBuffers' = [localFlushBuffers EXCEPT ![p] = localFlushBuffers[p] + 1]
    BY <1>4, <2>2 DEF Combine
  <2>5. flushBuffersByCore[t] # u
    <3>1. Alone(u) /\ "wq" \in Places(u)
      BY <2>1, <2>3, PlacesAre DEF Once
    <3>2. "local" \notin Places(u)
      BY <3>1, NowhereElse
    <3> QED
      BY <2>3, <3>2, PlacesAre
  <2>6. ASSUME NEW v \in Update, v # u PROVE v \in ToSet(wqCacheFlush[v.to]) <=> v \in ToSet(wqCacheFlush[v.to])'
    <3>1. v.to \in Thread
      BY UpdateParts
    <3> QED
      BY <2>1, <2>6, <3>1
  <2>7. u \in InCoreBuffer(p) /\ u \notin InCoreBuffer(p)'
    BY <2>1, <2>3, <2>4, <2>5 DEF InCoreBuffer
  <2>8. InCoreBuffer(p)' = InCoreBuffer(p) \ {u}
    BY <2>4, <2>6, <2>7 DEF InCoreBuffer
  <2>9. \A o \in Proc : o # p => InCoreBuffer(o)' = InCoreBuffer(o)
    BY <2>3, <2>4, <2>6 DEF InCoreBuffer
  <2>10. PICK A, B : A = InCoreBuffer(p) /\ B = InCoreBuffer(p)'
    OBVIOUS
  <2>11. Cardinality(B) = Cardinality(A) - 1 /\ Cardinality(A) \in Nat
    <3>1. IsFiniteSet(A) /\ Cardinality(A) \in Nat
      BY <2>10, SentFinite
    <3> QED
      BY <2>7, <2>8, <2>10, <3>1, FS_RemoveElement
  <2>12. PICK a, b, n : a = localFlushBuffers[p] /\ b = Cardinality(A) /\ n = 2 * Cores
    OBVIOUS
  <2>13. a \in Nat /\ b \in Nat /\ a + b = n
    BY <1>0, <2>10, <2>11, <2>12 DEF CoreBuffersOf
  <2>14. (a + 1) + (b - 1) = n
    BY <2>13
  <2>15. CoreBuffersOf(p)'
    <3>1. localFlushBuffers'[p] = a + 1 /\ Cardinality(B) = b - 1
      BY <1>0, <2>4, <2>11, <2>12
    <3> QED
      BY <2>10, <2>12, <2>14, <3>1 DEF CoreBuffersOf
  <2>16. ASSUME NEW o \in Proc, o # p PROVE CoreBuffersOf(o)'
    <3>1. localFlushBuffers'[o] = localFlushBuffers[o] /\ InCoreBuffer(o)' = InCoreBuffer(o)
      BY <1>0, <2>4, <2>9, <2>16
    <3> QED
      BY <1>0, <3>1, CoresSame
  <2> QED
    BY <2>15, <2>16
<1>5. ASSUME NEW p \in Proc, MessageFlushFromCore(p) \/ BufferForRank(p) \/ MessageCacheFlushOut(p) PROVE \A o \in Proc : CoreBuffersOf(o)'
  BY <1>5, <1>s DEF MessageFlushFromCore, BufferForRank, MessageCacheFlushOut, localVars
<1>6. ASSUME NEW t \in Thread, FlushElement(t) \/ FlushCoreBuffer(t) PROVE \A o \in Proc : CoreBuffersOf(o)'
  BY <1>6, <1>s DEF FlushElement, FlushCoreBuffer, localVars
<1>7. ASSUME NEW u \in Update, Match(u) PROVE \A o \in Proc : CoreBuffersOf(o)'
  BY <1>7, <1>s DEF Match, localVars
<1>8. CASE ~Moves
  BY <1>8, <1>s, WhoMovesUpdates DEF placeVars
<1> QED
  BY <1>1, <1>2, <1>3, <1>4, <1>5, <1>6, <1>7, <1>8 DEF Moves

LEMMA InitOnce == Init => Homes /\ Once /\ Accounted
<1> SUFFICES ASSUME Init PROVE Homes /\ Once /\ Accounted
  OBVIOUS
<1>0. /\ dirty = [t \in Thread |-> {u \in Update : u.from = t}]
      /\ coreFlushBuffer = [t \in Thread |-> None] /\ queueMPInew = [p \in Proc |-> <<>>]
      /\ held = [p \in Proc |-> None] /\ stuck = [p \in Proc |-> None] /\ flushHeadBusy = [p \in Proc |-> <<>>]
      /\ net = {} /\ arrived = {} /\ combined = {} /\ flushBuffersByCore = [t \in Thread |-> None]
      /\ wqCacheFlush = [t \in Thread |-> <<>>]
  BY DEF Init
<1>1. /\ \A p \in Proc : ToSet(queueMPInew[p]) = {} /\ ToSet(flushHeadBusy[p]) = {} /\ DOMAIN queueMPInew[p] = {}
                         /\ DOMAIN flushHeadBusy[p] = {} /\ held[p] = None /\ stuck[p] = None
      /\ \A t \in Thread : ToSet(wqCacheFlush[t]) = {} /\ DOMAIN wqCacheFlush[t] = {} /\ coreFlushBuffer[t] = None
                           /\ flushBuffersByCore[t] = None
  BY <1>0 DEF ToSet
<1>2. Homes
  BY <1>0, <1>1 DEF Homes, OfCores, OfQueues, OfRanks, OfOwners
<1>3. ASSUME NEW u \in Update PROVE Alone(u)
  <2>1. u.from \in Thread /\ u.to \in Thread /\ u # None /\ ProcOf(u.from) \in Proc /\ RankOf(u) \in Proc
    BY UpdateParts
  <2>2. "arc" \in Places(u)
    BY <1>0, <2>1, PlacesAre
  <2>3. Places(u) \subseteq {"arc"}
    <3>1. /\ "core" \notin Places(u) /\ "queue" \notin Places(u) /\ "held" \notin Places(u) /\ "rank" \notin Places(u)
          /\ "net" \notin Places(u) /\ "arrived" \notin Places(u) /\ "stuck" \notin Places(u) /\ "local" \notin Places(u)
          /\ "wq" \notin Places(u) /\ "combined" \notin Places(u)
      BY <1>0, <1>1, <2>1, PlacesAre
    <3> QED
      BY <3>1, PlacesAre DEF Labels
  <2> QED
    BY <2>2, <2>3 DEF Alone, Labels
<1>4. Once
  BY <1>1, <1>3 DEF Once, OneBuffer, OneEach, OneMessage, IsInjective
<1>5. ASSUME NEW p \in Proc PROVE RankBuffersOf(p) /\ CoreBuffersOf(p)
  <2>1. Sent(p) = {}
    BY <1>0 DEF Sent
  <2>2. InCoreBuffer(p) = {}
    BY <1>1, UpdateParts DEF InCoreBuffer
  <2>3. Cardinality(Sent(p)) = 0 /\ Cardinality(InCoreBuffer(p)) = 0
    BY <2>1, <2>2, FS_EmptySet
  <2>4. flushHeadFree[p] = RankBuffers /\ Len(flushHeadBusy[p]) = 0 /\ completed[p] = 0 /\ localFlushBuffers[p] = 2 * Cores
    BY DEF Init
  <2>5. RankBuffers \in Nat /\ 2 * Cores \in Nat
    BY ThreadFacts
  <2> QED
    BY <2>3, <2>4, <2>5 DEF RankBuffersOf, CoreBuffersOf
<1> QED
  BY <1>2, <1>4, <1>5 DEF Accounted

Moving == Threads /\ Homes /\ Once /\ Accounted

LEMMA MovingStep == Moving /\ [Next]_vars => Moving'
<1> SUFFICES ASSUME Moving, [Next]_vars PROVE Moving'
  OBVIOUS
<1>1. Threads' /\ Flat /\ Deep /\ Queued /\ Homes /\ Once /\ Accounted
  BY ThreadsStep DEF Moving, Threads
<1>2. Once'
  BY <1>1, OnceStep
<1>3. Homes'
  BY <1>1, HomesStep DEF Once
<1>4. Accounted'
  BY <1>1, <1>2, RanksStep, CoresStep DEF Accounted
<1> QED
  BY <1>1, <1>2, <1>3, <1>4 DEF Moving

LEMMA MovingHolds == Spec => []Moving
<1>1. Init => Moving
  BY InitThreads, InitOnce DEF Moving
<1> QED
  BY <1>1, MovingStep, PTL DEF Spec

\* An update is in exactly one of the buffers, queues and lists between the cache of the thread that
\* made it and the owner that combines it, and no buffer is lost, handed out twice or queued twice.
THEOREM CarriedOnce == Spec => []OncePerUpdate
<1>1. Moving => OncePerUpdate
  <2> SUFFICES ASSUME Moving PROVE OncePerUpdate
    OBVIOUS
  <2>1. ASSUME NEW u \in Update PROVE Cardinality(Places(u)) = 1
    <3>1. PICK l \in Labels : Places(u) = {l}
      BY DEF Moving, Once, Alone
    <3> QED
      BY <3>1, FS_Singleton
  <2>2. BuffersAccounted
    BY AccountedIs DEF Moving, Threads
  <2> QED
    BY <2>1, <2>2 DEF OncePerUpdate
<1> QED
  BY <1>1, MovingHolds, PTL

------------------------------------------------------------------------------
(* Emptied *)

\* The steps by which a process gets from one phase to the next
NewPhase(p) ==
  /\ TakenOut(p)' => TakenOut(p) \/ MessageCacheFlushOut(p)
  /\ FlushedAll(p)' => FlushedAll(p) \/ FlushOutDone(p)
  /\ BarrierDone(p)' => BarrierDone(p) \/ FinishBarrier(p) \/ (Cardinality(Proc) = 1 /\ FlushOutDone(p))
  /\ LocalDone(p)' => LocalDone(p) \/ MessageCacheFlushLocal(p)

LEMMA PhaseSame ==
  ASSUME NEW p \in Proc, pc'[Core0(p)] = pc[Core0(p)], round'[Core0(p)] = round[Core0(p)],
         answered'[Core0(p)] = answered[Core0(p)], flushingOut'[p] = flushingOut[p]
  PROVE  NewPhase(p)
BY DEF NewPhase, TakenOut, FlushedAll, BarrierDone, LocalDone

LEMMA ProcCount == \A p \in Proc : Cardinality(Proc) > 1 \/ Cardinality(Proc) = 1
<1> SUFFICES ASSUME NEW p \in Proc PROVE Cardinality(Proc) > 1 \/ Cardinality(Proc) = 1
  OBVIOUS
<1>1. IsFiniteSet(Proc) /\ Cardinality(Proc) \in Nat /\ Cardinality(Proc) # 0
  BY ThreadFacts, FS_CardinalityType, FS_EmptySet
<1> QED
  BY <1>1

LEMMA PhaseCore0 ==
  ASSUME Flat, Located, Barred, NEW p \in Proc, NEW t \in Thread, t = Core0(p), Core(t)
  PROVE  NewPhase(p)
<1>0. /\ pc \in [Thread -> {"clear", "spare", "arrive", "wait", "answer", "done"}] /\ round \in [Thread -> 1..4]
      /\ answered \in [Thread -> BOOLEAN] /\ round[t] \in Int /\ 1 <= round[t] /\ t[2] = 0 /\ ProcOf(t) = p
  <2>1. /\ pc \in [Thread -> {"clear", "spare", "arrive", "wait", "answer", "done"}] /\ round \in [Thread -> 1..4]
        /\ answered \in [Thread -> BOOLEAN]
    BY DEF Flat
  <2>2. round[t] \in 1..4
    BY <2>1
  <2>3. t[2] = 0 /\ ProcOf(t) = p
    BY ThreadFacts
  <2> QED
    BY <2>1, <2>2, <2>3
<1>b. /\ answered[t] => pc[t] \in {"wait", "answer"}
      /\ flushingOut[p] => pc[t] = "answer" /\ round[t] = 2 /\ ~answered[t]
  BY DEF Barred, BarredAt
<1>1. CASE FlushElement(t) \/ FlushCoreBuffer(t) \/ TakeSpare(t) \/ Cleared(t)
  <2>1. pc[t] \in {"clear", "spare"} /\ UNCHANGED <<round, answered>>
    BY <1>1 DEF FlushElement, FlushCoreBuffer, TakeSpare, Cleared, queueVars
  <2>2. round'[t] = 1
    BY <2>1 DEF Located
  <2>3. ~TakenOut(p)' /\ ~FlushedAll(p)' /\ ~LocalDone(p)'
    BY <2>2 DEF TakenOut, FlushedAll, LocalDone
  <2>4. ~BarrierDone(p)'
    <3>1. ~answered'[t]
      BY <1>b, <2>1
    <3> QED
      BY <2>2, <2>3, <3>1 DEF BarrierDone
  <2> QED
    BY <2>3, <2>4 DEF NewPhase
<1>2. CASE CollectThenMPI(t)
  <2>1. pc[t] = "arrive" /\ round[t] = 2 /\ Cardinality(Proc) > 1 /\ UNCHANGED <<round, answered>> /\ pc'[t] = "wait"
    BY <1>0, <1>2 DEF CollectThenMPI, IsGlobal, Goto
  <2>2. ~answered'[t] /\ round'[t] = 2
    BY <1>b, <2>1
  <2>3. Cardinality(Proc) # 1
    BY <2>1
  <2>4. TakenOut(p) /\ FlushedAll(p) /\ ~LocalDone(p)' /\ ~BarrierDone(p)'
    BY <2>1, <2>2, <2>3 DEF TakenOut, FlushedAll, LocalDone, BarrierDone
  <2> QED
    BY <2>4 DEF NewPhase
<1>3. CASE Release(t)
  <2>1. Passed(t) /\ round[t] <= 3 /\ pc[t] \in {"arrive", "wait"} /\ UNCHANGED flushingOut
    BY <1>3 DEF Release, Located, rankVars
  <2>2. round'[t] = round[t] + 1 /\ pc'[t] = "answer"
    BY <1>0, <2>1, PassedMoves
  <2>3. ~answered'[t] /\ ~flushingOut'[p]
    BY <1>0, <1>3, <1>b, <2>1 DEF Release
  <2>4. pc[t] = "wait" => round[t] = 2 /\ answered[t]
    BY <1>3 DEF Release, Located
  <2>5. pc[t] = "arrive" /\ round[t] = 2 => Cardinality(Proc) = 1
    <3>1. pc[t] = "arrive" /\ round[t] = 2 => ~(Cardinality(Proc) > 1)
      BY <1>3 DEF Release, IsGlobal
    <3> QED
      BY <3>1, ProcCount
  <2>6. TakenOut(p)' => round[t] >= 2
    BY <1>0, <2>2, <2>3 DEF TakenOut
  <2>7. FlushedAll(p)' => round[t] >= 2
    BY <1>0, <2>2, <2>3 DEF FlushedAll
  <2>8. round[t] >= 2 => TakenOut(p) /\ FlushedAll(p) /\ BarrierDone(p)
    BY <1>0, <2>1, <2>4, <2>5 DEF TakenOut, FlushedAll, BarrierDone
  <2>9. BarrierDone(p)' => round[t] >= 2
    <3>1. BarrierDone(p)' => round'[t] > 2 \/ FlushedAll(p)'
      BY <2>2 DEF BarrierDone
    <3> QED
      BY <1>0, <2>2, <2>7, <3>1
  <2>10. LocalDone(p)' => LocalDone(p)
    <3>1. LocalDone(p)' => round[t] >= 3
      BY <1>0, <2>2, <2>3 DEF LocalDone
    <3> QED
      BY <1>0, <2>1, <3>1 DEF LocalDone
  <2> QED
    BY <2>6, <2>7, <2>8, <2>9, <2>10 DEF NewPhase
<1>4. CASE LeaveBarrier(t)
  BY <1>0, <1>4 DEF LeaveBarrier
<1>5. CASE Answered(t)
  <2>1. pc[t] = "answer" /\ answered[t] /\ UNCHANGED <<round, flushingOut>> /\ pc'[t] # "wait"
    BY <1>0, <1>5 DEF Answered, Goto, rankVars
  <2>2. /\ TakenOut(p)' => TakenOut(p)
        /\ FlushedAll(p)' => FlushedAll(p)
        /\ LocalDone(p)' => LocalDone(p)
    BY <2>1 DEF TakenOut, FlushedAll, LocalDone
  <2>3. BarrierDone(p)' => BarrierDone(p)
    BY <2>1, <2>2 DEF BarrierDone
  <2> QED
    BY <2>2, <2>3 DEF NewPhase
<1> QED
  BY <1>1, <1>2, <1>3, <1>4, <1>5 DEF Core

\* An MPI thread that answers core 0 begins a phase of its process at most.
LEMMA PhaseAnswer ==
  ASSUME Flat, NEW q \in Proc, UNCHANGED <<pc, round>>, NEW t \in Thread, ProcOf(t) = q,
         \A s \in Thread \ {t} : answered'[s] = answered[s], \A o \in Proc \ {q} : flushingOut'[o] = flushingOut[o],
         NEW p \in Proc, p # q
  PROVE  NewPhase(p)
<1>1. Core0(p) \in Thread /\ Core0(p) # t
  BY ThreadFacts
<1> QED
  BY <1>1, PhaseSame

LEMMA PhaseStep == Threads /\ [Next]_vars => \A p \in Proc : NewPhase(p)
<1> SUFFICES ASSUME Threads, [Next]_vars, NEW p \in Proc PROVE NewPhase(p)
  OBVIOUS
<1>0. /\ Flat /\ Deep /\ Located /\ AtBarrier /\ Queued /\ Barred /\ Core0(p) \in Thread /\ ProcOf(Core0(p)) = p
      /\ answered \in [Thread -> BOOLEAN] /\ flushingOut \in [Proc -> BOOLEAN]
  BY ThreadFacts DEF Threads, Flat
<1>1. ASSUME NEW t \in Thread, Core(t) PROVE NewPhase(p)
  <2>1. CASE t = Core0(p)
    BY <1>0, <1>1, <2>1, PhaseCore0
  <2>2. CASE t # Core0(p)
    <3>1. CoreFrame(t)
      BY <1>0, <1>1, CoreFrames
    <3> QED
      BY <1>0, <2>2, <3>1, PhaseSame DEF CoreFrame
  <2> QED
    BY <2>1, <2>2
<1>2. ASSUME NEW q \in Proc, MessageCacheFlushOut(q) PROVE NewPhase(p)
  <2>1. UNCHANGED <<pc, round, answered>> /\ flushingOut' = [flushingOut EXCEPT ![q] = TRUE]
    BY <1>2 DEF MessageCacheFlushOut, threadVars
  <2>2. CASE p = q
    BY <1>2, <2>1, <2>2 DEF NewPhase, TakenOut, FlushedAll, BarrierDone, LocalDone
  <2>3. CASE p # q
    <3>1. flushingOut'[p] = flushingOut[p]
      BY <1>0, <2>1, <2>3
    <3> QED
      BY <2>1, <3>1, PhaseSame
  <2> QED
    BY <2>2, <2>3
<1>3. ASSUME NEW q \in Proc, FlushOutDone(q) PROVE NewPhase(p)
  <2>1. /\ UNCHANGED <<pc, round>> /\ flushingOut[q] /\ flushingOut' = [flushingOut EXCEPT ![q] = FALSE]
        /\ answered' = [answered EXCEPT ![Core0(q)] = TRUE]
    BY <1>3 DEF FlushOutDone, threadVars, Answer
  <2>2. CASE p = q
    <3>1. pc[Core0(p)] = "answer" /\ round[Core0(p)] = 2
      BY <1>0, <2>1, <2>2 DEF Barred, BarredAt
    <3>2. TakenOut(p) /\ ~LocalDone(p)'
      BY <2>1, <2>2, <3>1 DEF TakenOut, LocalDone
    <3>3. BarrierDone(p)' => Cardinality(Proc) = 1
      BY <2>1, <3>1 DEF BarrierDone
    <3> QED
      BY <1>3, <2>2, <3>2, <3>3 DEF NewPhase
  <2>3. CASE p # q
    <3>1. /\ Core0(q) \in Thread /\ ProcOf(Core0(q)) = q
          /\ \A s \in Thread \ {Core0(q)} : answered'[s] = answered[s]
          /\ \A o \in Proc \ {q} : flushingOut'[o] = flushingOut[o]
      BY <1>0, <2>1, ThreadFacts
    <3> QED
      BY <1>0, <2>1, <2>3, <3>1, PhaseAnswer
  <2> QED
    BY <2>2, <2>3
<1>4. ASSUME NEW q \in Proc, NEW k \in {"flushLocal", "close"}, Process(q, k), UNCHANGED <<pc, round, flushingOut>>,
             NEW t \in Thread, answered' = [answered EXCEPT ![t] = TRUE],
             t = Head(queueMPInew[q]).from \/ (k = "flushLocal" /\ t = Core0(q)),
             k = "flushLocal" => MessageCacheFlushLocal(q)
      PROVE  NewPhase(p)
  <2>1. PICK h \in ToSet(queueMPInew[q]) : h = Head(queueMPInew[q]) /\ h.kind = k
    BY <1>0, <1>4, Takes
  <2>2. /\ h.from \in Thread /\ ProcOf(h.from) = q /\ pc[h.from] = "answer"
        /\ round[h.from] = IF k = "flushLocal" THEN 3 ELSE 4
    BY <1>0, <2>1, InQueue DEF Waits
  <2>3. k = "flushLocal" => h.from = Core0(q)
    BY <1>0, <2>2, FromCore0
  <2>4. t = h.from /\ ProcOf(t) = q /\ pc[t] = "answer" /\ round[t] > 2 /\ (round[t] > 3 \/ MessageCacheFlushLocal(q))
    BY <1>4, <2>1, <2>2, <2>3
  <2>5. CASE p # q
    <3>1. \A s \in Thread \ {t} : answered'[s] = answered[s]
      BY <1>0, <1>4
    <3> QED
      BY <1>0, <1>4, <2>4, <2>5, <3>1, PhaseAnswer
  <2>6. CASE p = q /\ t = Core0(p)
    <3>1. TakenOut(p) /\ FlushedAll(p) /\ BarrierDone(p) /\ (LocalDone(p) \/ MessageCacheFlushLocal(p))
      BY <2>4, <2>6 DEF TakenOut, FlushedAll, BarrierDone, LocalDone
    <3> QED
      BY <3>1 DEF NewPhase
  <2>7. CASE t # Core0(p)
    <3>1. answered'[Core0(p)] = answered[Core0(p)]
      BY <1>0, <1>4, <2>7
    <3> QED
      BY <1>4, <3>1, PhaseSame
  <2> QED
    BY <2>5, <2>6, <2>7
<1>5. ASSUME NEW q \in Proc, MessageCacheFlushLocal(q) PROVE NewPhase(p)
  <2>1. PICK t \in Thread : t = Core0(q)
    BY ThreadFacts
  <2>2. /\ Process(q, "flushLocal") /\ UNCHANGED <<pc, round, flushingOut>> /\ answered' = [answered EXCEPT ![t] = TRUE]
    BY <1>5, <2>1 DEF MessageCacheFlushLocal, threadVars, rankVars, Answer
  <2> QED
    BY <1>4, <1>5, <2>1, <2>2
<1>6. ASSUME NEW q \in Proc, MessageCacheClose(q) PROVE NewPhase(p)
  <2>1. PICK t \in Thread : t = Head(queueMPInew[q]).from
    BY <1>0, <1>6, Takes DEF MessageCacheClose
  <2>2. /\ Process(q, "close") /\ UNCHANGED <<pc, round, flushingOut>> /\ answered' = [answered EXCEPT ![t] = TRUE]
    BY <1>6, <2>1 DEF MessageCacheClose, threadVars, rankVars, Answer
  <2> QED
    BY <1>4, <2>1, <2>2
<1>7. ASSUME NEW q \in Proc, FinishBarrier(q) PROVE NewPhase(p)
  <2>1. /\ UNCHANGED <<pc, round, flushingOut>> /\ q \in barrierOpen /\ answered' = [answered EXCEPT ![Core0(q)] = TRUE]
    BY <1>7 DEF FinishBarrier, BarrierEnded, threadVars, rankVars, Answer
  <2>2. CASE p = q
    <3>1. pc[Core0(p)] = "wait" /\ round[Core0(p)] = 2
      BY <1>0, <2>1, <2>2 DEF Barred, BarredAt, Located
    <3>2. TakenOut(p) /\ FlushedAll(p) /\ ~LocalDone(p)'
      BY <2>1, <3>1 DEF TakenOut, FlushedAll, LocalDone
    <3> QED
      BY <1>7, <2>2, <3>2 DEF NewPhase
  <2>3. CASE p # q
    <3>1. /\ Core0(q) \in Thread /\ ProcOf(Core0(q)) = q
          /\ \A s \in Thread \ {Core0(q)} : answered'[s] = answered[s]
          /\ \A o \in Proc \ {q} : flushingOut'[o] = flushingOut[o]
      BY <1>0, <2>1, ThreadFacts
    <3> QED
      BY <1>0, <2>1, <2>3, <3>1, PhaseAnswer
  <2> QED
    BY <2>2, <2>3
<1>8. CASE UNCHANGED <<pc, round, answered, flushingOut>>
  BY <1>8, PhaseSame
<1>9. ASSUME NEW t \in Thread, Combine(t) PROVE NewPhase(p)
  BY <1>8, <1>9 DEF Combine, threadVars, queueVars, rankVars
<1>10. ASSUME NEW q \in Proc, \/ MessageFlushFromCore(q) \/ BufferForRank(q) \/ MessageBarrierMPI(q) \/ FinishReceive(q)
                              \/ BufferForCore(q) \/ FinishFlushToRank(q) \/ LeaveFinish(q)
       PROVE  NewPhase(p)
  BY <1>8, <1>10 DEF MessageFlushFromCore, BufferForRank, MessageBarrierMPI, FinishReceive, BufferForCore, FinishFlushToRank,
                     LeaveFinish, threadVars, queueVars, rankVars
<1>11. ASSUME NEW u \in Update, Match(u) PROVE NewPhase(p)
  BY <1>8, <1>11 DEF Match, threadVars, queueVars, rankVars
<1>12. CASE UNCHANGED vars
  BY <1>8, <1>12 DEF vars, threadVars, queueVars, rankVars
<1> QED
  BY <1>1, <1>2, <1>3, <1>5, <1>6, <1>7, <1>9, <1>10, <1>11, <1>12 DEF Next, MPIThread

\* A process that has left the MPI barrier knows that all have sent everything.
LEMMA PhaseOrder ==
  ASSUME Threads, NEW p \in Proc
  PROVE  /\ FlushedAll(p) => TakenOut(p)
         /\ LocalDone(p) => BarrierDone(p)
         /\ BarrierDone(p) => \A q \in Proc : FlushedAll(q)
<1>0. /\ Core0(p) \in Thread /\ Located /\ Barred /\ round \in [Thread -> 1..4]
      /\ \A q \in Proc : Core0(q) \in Thread
  BY ThreadFacts DEF Threads, Flat
<1>1. FlushedAll(p) => TakenOut(p)
  BY DEF FlushedAll, TakenOut
<1>2. LocalDone(p) => BarrierDone(p)
  <2>1. LocalDone(p) => round[Core0(p)] > 2
    BY <1>0 DEF LocalDone
  <2> QED
    BY <2>1 DEF BarrierDone
<1>3. ASSUME BarrierDone(p), NEW q \in Proc PROVE FlushedAll(q)
  <2>1. CASE Cardinality(Proc) > 1
    <3>1. inBarrier = Proc
      BY <1>0, <1>3, <2>1 DEF BarrierDone, Barred, BarredAt
    <3>2. round[Core0(q)] > 2 \/ pc[Core0(q)] = "wait"
      BY <1>0, <3>1 DEF Barred, BarredAt
    <3> QED
      BY <1>0, <3>2 DEF FlushedAll, Located
  <2>2. CASE Cardinality(Proc) = 1
    <3>1. q = p
      <4>1. PICK x : Proc = {x}
        BY <2>2, ThreadFacts, FS_Singleton
      <4> QED
        BY <4>1
    <3>2. pc[Core0(p)] # "wait"
      BY <1>0, <2>2 DEF Located
    <3> QED
      BY <1>3, <3>1, <3>2 DEF BarrierDone, FlushedAll
  <2> QED
    BY <2>1, <2>2, ProcCount
<1> QED
  BY <1>1, <1>2, <1>3

LEMMA CoreEmptyStep == Flat /\ (\A t \in Thread : CoreEmpty(t)) /\ [Next]_vars => \A t \in Thread : CoreEmpty(t)'
<1> SUFFICES ASSUME Flat, \A t \in Thread : CoreEmpty(t), [Next]_vars, NEW s \in Thread PROVE CoreEmpty(s)'
  OBVIOUS
<1>0. /\ dirty \in [Thread -> SUBSET Update] /\ coreFlushBuffer \in [Thread -> Update \cup {None}]
      /\ pc \in [Thread -> {"clear", "spare", "arrive", "wait", "answer", "done"}] /\ CoreEmpty(s)
  BY DEF Flat
<1>s. UNCHANGED <<dirty, coreFlushBuffer>> /\ (pc[s] \in {"clear", "spare"} => pc'[s] = pc[s])
        /\ pc'[s] \notin {"clear", "spare"} => CoreEmpty(s)'
  BY <1>0 DEF CoreEmpty
<1>1. ASSUME NEW t \in Thread, FlushElement(t) PROVE CoreEmpty(s)'
  <2>1. PICK u \in dirty[t] : /\ coreFlushBuffer' = [coreFlushBuffer EXCEPT ![t] = u]
                              /\ dirty' = [dirty EXCEPT ![t] = dirty[t] \ {u}] /\ pc[t] = "clear" /\ UNCHANGED pc
    BY <1>1 DEF FlushElement
  <2> QED
    BY <1>0, <2>1 DEF CoreEmpty
<1>2. ASSUME NEW t \in Thread, FlushCoreBuffer(t) PROVE CoreEmpty(s)'
  <2>1. /\ coreFlushBuffer' = [coreFlushBuffer EXCEPT ![t] = None] /\ pc' = [pc EXCEPT ![t] = "spare"] /\ UNCHANGED dirty
        /\ pc[t] = "clear"
    BY <1>2 DEF FlushCoreBuffer, Goto
  <2> QED
    BY <1>0, <2>1 DEF CoreEmpty
<1>3. ASSUME NEW t \in Thread, TakeSpare(t) PROVE CoreEmpty(s)'
  <2>1. UNCHANGED <<dirty, coreFlushBuffer>> /\ pc' = [pc EXCEPT ![t] = "clear"]
    BY <1>3 DEF TakeSpare, Goto
  <2> QED
    BY <1>0, <2>1 DEF CoreEmpty
<1>4. ASSUME NEW t \in Thread, Cleared(t) PROVE CoreEmpty(s)'
  <2>1. /\ UNCHANGED <<dirty, coreFlushBuffer>> /\ pc' = [pc EXCEPT ![t] = "arrive"]
        /\ coreFlushBuffer[t] = None /\ dirty[t] = {}
    BY <1>4 DEF Cleared, Goto
  <2> QED
    BY <1>0, <2>1 DEF CoreEmpty
<1>5. ASSUME NEW t \in Thread, CollectThenMPI(t) \/ Release(t) \/ LeaveBarrier(t) \/ Answered(t) PROVE CoreEmpty(s)'
  <2>1. pc[t] \in {"arrive", "wait", "answer"} /\ UNCHANGED <<dirty, coreFlushBuffer>>
    BY <1>5 DEF CollectThenMPI, Release, LeaveBarrier, Answered
  <2>2. PICK l \in {"wait", "arrive", "answer", "done"} : pc' = [pc EXCEPT ![t] = l]
    BY <1>5 DEF CollectThenMPI, Release, LeaveBarrier, Answered, Passed, Goto
  <2> QED
    BY <1>0, <2>1, <2>2 DEF CoreEmpty
<1>6. CASE UNCHANGED <<pc, dirty, coreFlushBuffer>>
  BY <1>0, <1>6 DEF CoreEmpty
<1>7. ASSUME NEW t \in Thread, Combine(t) PROVE CoreEmpty(s)'
  BY <1>6, <1>7 DEF Combine, threadVars
<1>8. ASSUME NEW p \in Proc, MPIThread(p) PROVE CoreEmpty(s)'
  BY <1>6, <1>8 DEF MPIThread, MessageFlushFromCore, BufferForRank, MessageCacheFlushOut, FlushOutDone, MessageBarrierMPI,
                    MessageCacheFlushLocal, MessageCacheClose, FinishReceive, BufferForCore, FinishFlushToRank, FinishBarrier,
                    LeaveFinish, threadVars
<1>9. ASSUME NEW u \in Update, Match(u) PROVE CoreEmpty(s)'
  BY <1>6, <1>9 DEF Match, threadVars
<1>10. CASE UNCHANGED vars
  BY <1>6, <1>10 DEF vars, threadVars
<1> QED
  BY <1>1, <1>2, <1>3, <1>4, <1>5, <1>7, <1>8, <1>9, <1>10 DEF Next, Core

\* Where nothing is in front of the rank buffers any more
LEMMA OutStep ==
  ASSUME Threads, [Next]_vars, NEW p \in Proc, OutEmpty(p)
  PROVE  OutEmpty(p)'
<1> SUFFICES ASSUME TakenOut(p)'
             PROVE  Buffers(p)' = {} /\ held'[p] = None /\ flushHeadBusy'[p] = <<>>
  BY DEF OutEmpty, Buffers
<1>0. /\ Flat /\ Deep /\ Located /\ AtBarrier /\ Queued /\ Core0(p) \in Thread /\ ProcOf(Core0(p)) = p
      /\ held \in [Proc -> Update \cup {None}] /\ flushHeadBusy \in [Proc -> Seq(Update)] /\ round \in [Thread -> 1..4]
      /\ NewPhase(p)
  BY ThreadFacts, PhaseStep DEF Threads, Flat, Deep
<1>1. CASE MessageCacheFlushOut(p)
  <2>1. Process(p, "flushOut") /\ UNCHANGED held /\ flushHeadBusy' = [flushHeadBusy EXCEPT ![p] = <<>>]
    BY <1>1 DEF MessageCacheFlushOut
  <2>2. PICK q, h, r : q = queueMPInew[p] /\ h = Head(q) /\ r = queueMPInew'[p]
    OBVIOUS
  <2>3. q \in Seq(Message) /\ q # <<>> /\ h.kind = "flushOut" /\ r = Tail(q) /\ held[p] = None
    BY <1>0, <2>1, <2>2, Takes DEF Free
  <2>4. /\ h = q[1] /\ 1 \in DOMAIN q
        /\ \A i \in DOMAIN r : i + 1 \in DOMAIN q /\ r[i] = q[i + 1] /\ i \in 1..Len(r)
    BY <2>2, <2>3, TailIndex
  <2>5. ASSUME NEW i \in DOMAIN r PROVE r[i].kind # "flushFromCore"
    <3>1. i + 1 \in DOMAIN q /\ r[i] = q[i + 1] /\ 1 < i + 1
      BY <2>4
    <3>2. \A j \in DOMAIN q : 1 < j /\ q[j].kind = "flushFromCore" => q[1].kind = "flushFromCore"
      BY <1>0, <2>2, <2>4 DEF Queued, Lined
    <3> QED
      BY <2>3, <2>4, <3>1, <3>2
  <2>6. Buffers(p)' = {}
    BY <2>2, <2>5 DEF Buffers, ToSet
  <2> QED
    BY <1>0, <2>1, <2>3, <2>6
<1>2. CASE TakenOut(p)
  <2>0. Buffers(p) = {} /\ held[p] = None /\ flushHeadBusy[p] = <<>>
    BY <1>2 DEF OutEmpty, Buffers
  <2>s. Steady /\ held'[p] = held[p] /\ flushHeadBusy'[p] = flushHeadBusy[p]
          => Buffers(p)' = {} /\ held'[p] = None /\ flushHeadBusy'[p] = <<>>
    BY <2>0 DEF Steady
  <2>1. ASSUME NEW t \in Thread, FlushCoreBuffer(t)
        PROVE  Buffers(p)' = {} /\ held'[p] = None /\ flushHeadBusy'[p] = <<>>
    <3>1. pc[t] = "clear" /\ UNCHANGED <<held, flushHeadBusy>>
      BY <2>1 DEF FlushCoreBuffer, rankVars
    <3>2. ProcOf(t) # p
      <4>1. round[t] = 1
        BY <1>0, <3>1 DEF Located
      <4>2. round[Core0(ProcOf(t))] = 1
        BY <1>0, <3>1, <4>1, BehindCore0
      <4> QED
        BY <1>2, <4>2 DEF TakenOut
    <3>3. queueMPInew'[p] = queueMPInew[p]
      <4>1. PICK u \in Update \cup {None} : Send(t, "flushFromCore", u)
        BY <1>0, <2>1 DEF FlushCoreBuffer, Flat
      <4>2. "flushFromCore" \in Kinds
        BY DEF Kinds
      <4>3. \A o \in Proc \ {ProcOf(t)} : queueMPInew'[o] = queueMPInew[o]
        BY <1>0, <4>1, <4>2, Sends
      <4> QED
        BY <3>2, <4>3
    <3> QED
      BY <2>0, <3>1, <3>3 DEF Buffers
  <2>2. ASSUME NEW q \in Proc, MessageFlushFromCore(q)
        PROVE  Buffers(p)' = {} /\ held'[p] = None /\ flushHeadBusy'[p] = <<>>
    <3>1. Process(q, "flushFromCore")
      BY <2>2 DEF MessageFlushFromCore
    <3>2. /\ Head(queueMPInew[q]) \in ToSet(queueMPInew[q]) /\ Head(queueMPInew[q]).kind = "flushFromCore"
          /\ \A o \in Proc \ {q} : queueMPInew'[o] = queueMPInew[o]
      BY <1>0, <3>1, Takes
    <3>3. q # p
      BY <2>0, <3>2 DEF Buffers
    <3>4. held'[p] = held[p] /\ flushHeadBusy'[p] = flushHeadBusy[p] /\ queueMPInew'[p] = queueMPInew[p]
      BY <1>0, <2>2, <3>2, <3>3 DEF MessageFlushFromCore
    <3> QED
      BY <2>0, <3>4 DEF Buffers
  <2>3. ASSUME NEW q \in Proc, BufferForRank(q)
        PROVE  Buffers(p)' = {} /\ held'[p] = None /\ flushHeadBusy'[p] = <<>>
    <3>1. q # p
      BY <2>0, <2>3 DEF BufferForRank
    <3>2. held'[p] = held[p] /\ flushHeadBusy'[p] = flushHeadBusy[p] /\ UNCHANGED queueMPInew
      BY <1>0, <2>3, <3>1 DEF BufferForRank, queueVars
    <3> QED
      BY <2>0, <3>2 DEF Buffers
  <2>4. ASSUME NEW q \in Proc, MessageCacheFlushOut(q)
        PROVE  Buffers(p)' = {} /\ held'[p] = None /\ flushHeadBusy'[p] = <<>>
    <3>1. Steady
      BY <1>0, <2>4, TookControl DEF MessageCacheFlushOut
    <3>2. UNCHANGED held /\ flushHeadBusy'[p] = <<>>
      BY <1>0, <2>0, <2>4 DEF MessageCacheFlushOut
    <3> QED
      BY <2>0, <2>s, <3>1, <3>2
  <2>5. ASSUME NEW q \in Proc, MessageCacheFlushLocal(q)
        PROVE  Buffers(p)' = {} /\ held'[p] = None /\ flushHeadBusy'[p] = <<>>
    <3>1. Steady
      BY <1>0, <2>5, TookControl DEF MessageCacheFlushLocal
    <3> QED
      BY <2>5, <2>s, <3>1 DEF MessageCacheFlushLocal, rankVars
  <2>6. CASE UNCHANGED <<queueMPInew, held, flushHeadBusy>>
    BY <2>0, <2>6 DEF Buffers
  <2>7. ASSUME NEW t \in Thread, FlushElement(t) \/ Combine(t)
        PROVE  Buffers(p)' = {} /\ held'[p] = None /\ flushHeadBusy'[p] = <<>>
    BY <2>6, <2>7 DEF FlushElement, Combine, queueVars, rankVars
  <2>8. ASSUME NEW q \in Proc, FinishReceive(q) \/ BufferForCore(q)
        PROVE  Buffers(p)' = {} /\ held'[p] = None /\ flushHeadBusy'[p] = <<>>
    BY <2>6, <2>8 DEF FinishReceive, BufferForCore, queueVars, rankVars
  <2>9. ASSUME NEW u \in Update, Match(u)
        PROVE  Buffers(p)' = {} /\ held'[p] = None /\ flushHeadBusy'[p] = <<>>
    BY <2>6, <2>9 DEF Match, queueVars, rankVars
  <2>10. CASE ~Moves
    BY <1>0, <2>10, <2>s, WhoMovesUpdates DEF placeVars
  <2> QED
    BY <2>1, <2>2, <2>3, <2>4, <2>5, <2>7, <2>8, <2>9, <2>10 DEF Moves
<1> QED
  BY <1>0, <1>1, <1>2 DEF NewPhase

\* What a process has sent has been matched when it has answered the flushOut message.
LEMMA SentStep ==
  ASSUME Threads, Homes, Once, Accounted, [Next]_vars, NEW p \in Proc, OutEmpty(p), SentEmpty(p)
  PROVE  SentEmpty(p)'
<1> SUFFICES ASSUME FlushedAll(p)' PROVE Sent(p)' = {}
  BY DEF SentEmpty
<1>0. /\ Flat /\ Deep /\ Located /\ Queued /\ NewPhase(p) /\ RankBuffersOf(p) /\ round \in [Thread -> 1..4]
      /\ (FlushedAll(p) => TakenOut(p))
      /\ flushHeadFree \in [Proc -> Nat] /\ completed \in [Proc -> Nat] /\ flushHeadBusy \in [Proc -> Seq(Update)]
  BY PhaseStep, PhaseOrder DEF Threads, Flat, Deep, Accounted
<1>1. CASE FlushOutDone(p)
  <2>1. flushHeadFree[p] = RankBuffers /\ UNCHANGED net
    BY <1>1 DEF FlushOutDone, FlushedOut, mpiVars
  <2>2. PICK A, b, n : A = Sent(p) /\ b = completed[p] /\ n = Len(flushHeadBusy[p])
    OBVIOUS
  <2>3. IsFiniteSet(A) /\ Cardinality(A) \in Nat /\ b \in Nat /\ n \in Nat
    BY <1>0, <2>2, SentFinite
  <2>4. RankBuffers + n + b + Cardinality(A) = RankBuffers /\ RankBuffers \in Nat
    BY <1>0, <2>1, <2>2, ThreadFacts DEF RankBuffersOf
  <2>5. Cardinality(A) = 0
    BY <2>3, <2>4
  <2>6. A = {}
    BY <2>3, <2>5, FS_EmptySet
  <2> QED
    BY <2>1, <2>2, <2>6 DEF Sent
<1>2. CASE FlushedAll(p)
  <2>0. /\ \A u \in net : ProcOf(u.from) # p
        /\ (\A m \in ToSet(queueMPInew[p]) : m.kind # "flushFromCore") /\ flushHeadBusy[p] = <<>>
    BY <1>0, <1>2 DEF SentEmpty, Sent, OutEmpty
  <2>s. net' \subseteq net => Sent(p)' = {}
    BY <2>0 DEF Sent
  <2>1. ASSUME NEW q \in Proc, MessageFlushFromCore(q) PROVE Sent(p)' = {}
    <3>1. Process(q, "flushFromCore")
      BY <2>1 DEF MessageFlushFromCore
    <3>2. Head(queueMPInew[q]) \in ToSet(queueMPInew[q]) /\ Head(queueMPInew[q]).kind = "flushFromCore"
      BY <1>0, <3>1, Takes
    <3>3. q # p
      BY <2>0, <3>2
    <3>4. PICK F : net' = net \cup F /\ F \subseteq ToSet(flushHeadBusy[q])
      <4>1. OneEach(flushHeadBusy[q])
        BY DEF Once, OneBuffer
      <4>2. PICK u \in Update \cup {None}, r \in Seq(Update), F \in SUBSET Update :
               /\ u = Head(queueMPInew[q]).update
               /\ held' = [held EXCEPT ![q] = u] /\ flushHeadBusy' = [flushHeadBusy EXCEPT ![q] = r] /\ net' = net \cup F
               /\ OneEach(r) /\ \A v \in ToSet(r) : RankOf(v) # RankOf(u)
               /\ ToSet(flushHeadBusy[q]) = ToSet(r) \cup F /\ ToSet(r) \cap F = {}
               /\ IsFiniteSet(F) /\ Len(r) + Cardinality(F) = Len(flushHeadBusy[q])
        BY <1>0, <2>1, <4>1, FlushElementSends
      <4> QED
        BY <4>2
    <3>5. \A v \in F : ProcOf(v.from) = q
      BY <3>4 DEF Homes, OfRanks
    <3> QED
      BY <2>0, <3>3, <3>4, <3>5 DEF Sent
  <2>2. ASSUME NEW q \in Proc, MessageCacheFlushOut(q) PROVE Sent(p)' = {}
    <3>1. net' = net \cup ToSet(flushHeadBusy[q])
      BY <2>2 DEF MessageCacheFlushOut
    <3>2. \A v \in ToSet(flushHeadBusy[q]) : ProcOf(v.from) = q
      BY DEF Homes, OfRanks
    <3>3. CASE q # p
      BY <2>0, <3>1, <3>2, <3>3 DEF Sent
    <3>4. CASE q = p
      <4>1. ToSet(flushHeadBusy[q]) = {}
        BY <2>0, <3>4 DEF ToSet
      <4> QED
        BY <2>s, <3>1, <4>1
    <3> QED
      BY <3>3, <3>4
  <2>3. ASSUME NEW u \in Update, Match(u) PROVE Sent(p)' = {}
    BY <2>3, <2>s DEF Match
  <2>4. ASSUME NEW t \in Thread, FlushElement(t) \/ FlushCoreBuffer(t) \/ Combine(t) PROVE Sent(p)' = {}
    BY <2>4, <2>s DEF FlushElement, FlushCoreBuffer, Combine, mpiVars
  <2>5. ASSUME NEW q \in Proc, BufferForRank(q) \/ MessageCacheFlushLocal(q) \/ FinishReceive(q) \/ BufferForCore(q)
        PROVE  Sent(p)' = {}
    BY <2>5, <2>s DEF BufferForRank, MessageCacheFlushLocal, FinishReceive, BufferForCore, mpiVars
  <2>6. CASE ~Moves
    BY <1>0, <2>6, <2>s, WhoMovesUpdates DEF placeVars
  <2> QED
    BY <2>1, <2>2, <2>3, <2>4, <2>5, <2>6 DEF Moves
<1> QED
  BY <1>0, <1>1, <1>2 DEF NewPhase

\* A process that has ended its sends to itself sees what has arrived from them.
LEMMA CompleteStep ==
  ASSUME Threads, [Next]_vars, NEW p \in Proc, ArrivesComplete(p)
  PROVE  ArrivesComplete(p)'
<1>0. /\ Flat /\ Deep /\ completed \in [Proc -> Nat] /\ finishing \in [Proc -> BOOLEAN]
  BY DEF Threads, Flat
<1>s. arrived' \subseteq arrived /\ completed'[p] = completed[p] /\ (finishing[p] => finishing'[p]) => ArrivesComplete(p)'
  BY DEF ArrivesComplete
<1>1. ASSUME NEW u \in Update, Match(u) PROVE ArrivesComplete(p)'
  <2>1. PICK q \in Proc : q = ProcOf(u.from)
    BY UpdateParts
  <2>2. arrived' = arrived \cup {u} /\ completed' = [completed EXCEPT ![q] = completed[q] + 1] /\ UNCHANGED finishing
    BY <1>1, <2>1 DEF Match
  <2>3. CASE q = p
    <3>1. completed'[p] > 0
      BY <1>0, <2>2, <2>3
    <3> QED
      BY <3>1 DEF ArrivesComplete
  <2>4. CASE q # p
    <3>1. completed'[p] = completed[p]
      BY <1>0, <2>2, <2>4
    <3> QED
      BY <2>1, <2>2, <2>4, <3>1 DEF ArrivesComplete
  <2> QED
    BY <2>3, <2>4
<1>2. ASSUME NEW q \in Proc, FinishReceive(q) PROVE ArrivesComplete(p)'
  <2>1. arrived' \subseteq arrived /\ finishing' = [finishing EXCEPT ![q] = TRUE] /\ UNCHANGED completed
    BY <1>2 DEF FinishReceive, Finish
  <2> QED
    BY <1>0, <1>s, <2>1
<1>3. ASSUME NEW q \in Proc, FinishBarrier(q) PROVE ArrivesComplete(p)'
  <2>1. UNCHANGED <<arrived, completed>> /\ finishing' = [finishing EXCEPT ![q] = TRUE]
    BY <1>3 DEF FinishBarrier, Finish
  <2> QED
    BY <1>0, <1>s, <2>1
<1>4. ASSUME NEW q \in Proc, FinishFlushToRank(q) PROVE ArrivesComplete(p)'
  <2>1. /\ UNCHANGED arrived /\ finishing' = [finishing EXCEPT ![q] = TRUE]
        /\ completed' = [completed EXCEPT ![q] = completed[q] - 1]
    BY <1>4 DEF FinishFlushToRank, Finish
  <2>2. CASE q = p
    <3>1. finishing'[p]
      BY <1>0, <2>1, <2>2
    <3> QED
      BY <3>1 DEF ArrivesComplete
  <2>3. CASE q # p
    BY <1>0, <1>s, <2>1, <2>3
  <2> QED
    BY <2>2, <2>3
<1>5. ASSUME NEW q \in Proc, LeaveFinish(q) PROVE ArrivesComplete(p)'
  <2>1. /\ UNCHANGED <<arrived, completed>> /\ finishing' = [finishing EXCEPT ![q] = FALSE]
        /\ \A u \in arrived : RankOf(u) # q
    BY <1>5 DEF LeaveFinish, NothingComplete, mpiVars
  <2>2. CASE q = p
    BY <2>1, <2>2 DEF ArrivesComplete
  <2>3. CASE q # p
    BY <1>0, <1>s, <2>1, <2>3
  <2> QED
    BY <2>2, <2>3
<1>6. CASE UNCHANGED <<arrived, completed, finishing>>
  BY <1>6, <1>s
<1>7. ASSUME NEW t \in Thread, Core(t) PROVE ArrivesComplete(p)'
  BY <1>6, <1>7 DEF Core, FlushElement, FlushCoreBuffer, TakeSpare, Cleared, CollectThenMPI, Release, LeaveBarrier, Answered, mpiVars
<1>8. ASSUME NEW t \in Thread, Combine(t) PROVE ArrivesComplete(p)'
  BY <1>6, <1>8 DEF Combine, mpiVars
<1>9. ASSUME NEW q \in Proc, MessageFlushFromCore(q) \/ BufferForRank(q) \/ MessageCacheFlushOut(q) \/ FlushOutDone(q)
      PROVE  ArrivesComplete(p)'
  BY <1>6, <1>9 DEF MessageFlushFromCore, BufferForRank, MessageCacheFlushOut, FlushOutDone, mpiVars
<1>10. ASSUME NEW q \in Proc, MessageBarrierMPI(q) \/ MessageCacheFlushLocal(q) \/ MessageCacheClose(q) \/ BufferForCore(q)
       PROVE  ArrivesComplete(p)'
  BY <1>6, <1>10 DEF MessageBarrierMPI, MessageCacheFlushLocal, MessageCacheClose, BufferForCore, mpiVars
<1>11. CASE UNCHANGED vars
  BY <1>6, <1>11 DEF vars, mpiVars
<1> QED
  BY <1>1, <1>2, <1>3, <1>4, <1>5, <1>7, <1>8, <1>9, <1>10, <1>11 DEF Next, MPIThread

\* Nothing is in the network for a process that has left the MPI barrier.
LEMMA NetEmpty ==
  ASSUME Threads, \A q \in Proc : SentEmpty(q), NEW p \in Proc, BarrierDone(p)
  PROVE  net = {}
<1>1. ASSUME NEW u \in net PROVE FALSE
  <2>1. u \in Update /\ ProcOf(u.from) \in Proc
    BY UpdateParts DEF Threads, Flat
  <2>2. Sent(ProcOf(u.from)) = {}
    BY <2>1, PhaseOrder DEF SentEmpty
  <2> QED
    BY <2>2 DEF Sent
<1> QED
  BY <1>1

LEMMA SeenStep ==
  ASSUME Threads, Accounted, [Next]_vars, NEW p \in Proc, \A q \in Proc : SentEmpty(q), ArrivesComplete(p), ArrivedSeen(p)
  PROVE  ArrivedSeen(p)'
<1> SUFFICES ASSUME BarrierDone(p)' PROVE finishing'[p] \/ \A u \in arrived' : RankOf(u) # p
  BY DEF ArrivedSeen, ArrivedAtRank
<1>0. /\ Flat /\ Deep /\ NewPhase(p) /\ finishing \in [Proc -> BOOLEAN] /\ RankBuffersOf(p)
      /\ flushHeadFree \in [Proc -> Nat] /\ completed \in [Proc -> Nat] /\ flushHeadBusy \in [Proc -> Seq(Update)]
  BY PhaseStep DEF Threads, Flat, Deep, Accounted
<1>1. CASE FinishBarrier(p)
  BY <1>0, <1>1 DEF FinishBarrier, Finish
<1>2. CASE Cardinality(Proc) = 1 /\ FlushOutDone(p)
  <2>1. flushHeadFree[p] = RankBuffers /\ UNCHANGED arrived /\ ~finishing[p]
    BY <1>2 DEF FlushOutDone, FlushedOut, mpiVars
  <2>2. PICK a, b, n : a = Cardinality(Sent(p)) /\ b = completed[p] /\ n = Len(flushHeadBusy[p])
    OBVIOUS
  <2>3. a \in Nat /\ b \in Nat /\ n \in Nat
    BY <1>0, <2>2, SentFinite
  <2>4. RankBuffers + n + b + a = RankBuffers /\ RankBuffers \in Nat
    BY <1>0, <2>1, <2>2, ThreadFacts DEF RankBuffersOf
  <2>5. ~(completed[p] > 0)
    BY <2>2, <2>3, <2>4
  <2>6. \A u \in arrived : ~(RankOf(u) = p /\ ProcOf(u.from) = p)
    BY <2>1, <2>5 DEF ArrivesComplete
  <2>7. Proc = {p}
    <3>1. PICK x : Proc = {x}
      BY <1>2, ThreadFacts, FS_Singleton
    <3> QED
      BY <3>1
  <2>8. \A u \in arrived : ProcOf(u.from) = p
    BY <1>0, <2>7, UpdateParts DEF Flat
  <2> QED
    BY <2>1, <2>6, <2>8
<1>3. CASE BarrierDone(p)
  <2>0. finishing[p] \/ \A u \in arrived : RankOf(u) # p
    BY <1>3 DEF ArrivedSeen, ArrivedAtRank
  <2>s. arrived' \subseteq arrived /\ (finishing[p] => finishing'[p]) => finishing'[p] \/ \A u \in arrived' : RankOf(u) # p
    BY <2>0
  <2>1. ASSUME NEW u \in Update, Match(u) PROVE FALSE
    BY <1>3, <2>1, NetEmpty DEF Match
  <2>2. ASSUME NEW q \in Proc, FinishReceive(q) PROVE finishing'[p] \/ \A u \in arrived' : RankOf(u) # p
    <3>1. arrived' \subseteq arrived /\ finishing' = [finishing EXCEPT ![q] = TRUE]
      BY <2>2 DEF FinishReceive, Finish
    <3> QED
      BY <1>0, <2>s, <3>1
  <2>3. ASSUME NEW q \in Proc, FinishBarrier(q) \/ FinishFlushToRank(q)
        PROVE  finishing'[p] \/ \A u \in arrived' : RankOf(u) # p
    <3>1. UNCHANGED arrived /\ finishing' = [finishing EXCEPT ![q] = TRUE]
      BY <2>3 DEF FinishBarrier, FinishFlushToRank, Finish
    <3> QED
      BY <1>0, <2>s, <3>1
  <2>4. ASSUME NEW q \in Proc, LeaveFinish(q) PROVE finishing'[p] \/ \A u \in arrived' : RankOf(u) # p
    <3>1. /\ UNCHANGED arrived /\ finishing' = [finishing EXCEPT ![q] = FALSE]
          /\ \A u \in arrived : RankOf(u) # q
      BY <2>4 DEF LeaveFinish, NothingComplete, mpiVars
    <3>2. CASE q = p
      BY <3>1, <3>2
    <3>3. CASE q # p
      BY <1>0, <2>s, <3>1, <3>3
    <3> QED
      BY <3>2, <3>3
  <2>5. CASE UNCHANGED <<arrived, finishing>>
    BY <2>5, <2>s
  <2>6. ASSUME NEW t \in Thread, Core(t) PROVE finishing'[p] \/ \A u \in arrived' : RankOf(u) # p
    BY <2>5, <2>6 DEF Core, FlushElement, FlushCoreBuffer, TakeSpare, Cleared, CollectThenMPI, Release, LeaveBarrier, Answered,
                      mpiVars
  <2>7. ASSUME NEW t \in Thread, Combine(t) PROVE finishing'[p] \/ \A u \in arrived' : RankOf(u) # p
    BY <2>5, <2>7 DEF Combine, mpiVars
  <2>8. ASSUME NEW q \in Proc, MessageFlushFromCore(q) \/ BufferForRank(q) \/ MessageCacheFlushOut(q) \/ FlushOutDone(q)
        PROVE  finishing'[p] \/ \A u \in arrived' : RankOf(u) # p
    BY <2>5, <2>8 DEF MessageFlushFromCore, BufferForRank, MessageCacheFlushOut, FlushOutDone, mpiVars
  <2>9. ASSUME NEW q \in Proc, MessageBarrierMPI(q) \/ MessageCacheFlushLocal(q) \/ MessageCacheClose(q) \/ BufferForCore(q)
        PROVE  finishing'[p] \/ \A u \in arrived' : RankOf(u) # p
    BY <2>5, <2>9 DEF MessageBarrierMPI, MessageCacheFlushLocal, MessageCacheClose, BufferForCore, mpiVars
  <2>10. CASE UNCHANGED vars
    BY <2>5, <2>10 DEF vars, mpiVars
  <2> QED
    BY <2>1, <2>2, <2>3, <2>4, <2>6, <2>7, <2>8, <2>9, <2>10 DEF Next, MPIThread
<1> QED
  BY <1>0, <1>1, <1>2, <1>3 DEF NewPhase

\* The owners' buffers are queued once nothing more can arrive.
LEMMA OwnersStep ==
  ASSUME Threads, OfOwners, [Next]_vars, NEW p \in Proc, \A q \in Proc : SentEmpty(q), ArrivedSeen(p), OwnersEmpty(p)
  PROVE  OwnersEmpty(p)'
<1> DEFINE Owners == /\ \A u \in arrived : RankOf(u) # p
                     /\ stuck[p] = None /\ \A t \in Thread : ProcOf(t) = p => flushBuffersByCore[t] = None
<1> SUFFICES ASSUME LocalDone(p)' PROVE Owners'
  BY DEF OwnersEmpty, ArrivedAtRank
<1>0. /\ Flat /\ Deep /\ Located /\ Queued /\ NewPhase(p) /\ stuck \in [Proc -> Update \cup {None}]
      /\ flushBuffersByCore \in [Thread -> Update \cup {None}] /\ (LocalDone(p) => BarrierDone(p))
  BY PhaseStep, PhaseOrder DEF Threads, Flat
<1>1. CASE MessageCacheFlushLocal(p)
  <2>1. Process(p, "flushLocal") /\ UNCHANGED <<arrived, stuck>>
    BY <1>1 DEF MessageCacheFlushLocal, mpiVars
  <2>2. PICK h \in ToSet(queueMPInew[p]) : h = Head(queueMPInew[p]) /\ h.kind = "flushLocal"
    BY <1>0, <2>1, Takes
  <2>3. h.from \in Thread /\ ProcOf(h.from) = p /\ pc[h.from] = "answer" /\ round[h.from] = 3
    BY <1>0, <2>2, InQueue DEF Waits
  <2>4. h.from = Core0(p)
    BY <1>0, <2>3, FromCore0
  <2>5. BarrierDone(p)
    BY <2>3, <2>4 DEF BarrierDone
  <2>6. stuck[p] = None /\ ~finishing[p]
    BY <1>0, <2>1, Takes DEF Free
  <2>7. \A u \in arrived : RankOf(u) # p
    BY <2>5, <2>6 DEF ArrivedSeen, ArrivedAtRank
  <2>8. \A t \in Thread : flushBuffersByCore'[t] = IF ProcOf(t) = p THEN None ELSE flushBuffersByCore[t]
    BY <1>0, <1>1, FlushLocalIs
  <2> QED
    BY <2>1, <2>6, <2>7, <2>8
<1>2. CASE LocalDone(p)
  <2>0. Owners
    BY <1>2 DEF OwnersEmpty, ArrivedAtRank
  <2>1. ASSUME NEW u \in Update, Match(u) PROVE FALSE
    BY <1>0, <1>2, <2>1, NetEmpty DEF Match
  <2>2. ASSUME NEW q \in Proc, FinishReceive(q) PROVE Owners'
    <3>1. PICK u \in Update :
           /\ u \in arrived /\ RankOf(u) = q /\ u.to \in Thread /\ arrived' = arrived \ {u} /\ stuck[q] = None
           /\ stuck' = [stuck EXCEPT ![q] = u] /\ flushBuffersByCore' = [flushBuffersByCore EXCEPT ![u.to] = None]
           /\ \A t \in Thread \ {u.to} : wqCacheFlush'[t] = wqCacheFlush[t]
           /\ ToSet(wqCacheFlush[u.to])' = ToSet(wqCacheFlush[u.to]) \cup ({flushBuffersByCore[u.to]} \ {None})
           /\ IsInjective(wqCacheFlush[u.to]) /\ flushBuffersByCore[u.to] \notin ToSet(wqCacheFlush[u.to])
                => IsInjective(wqCacheFlush[u.to])'
      BY <1>0, <2>2, ReceiveIs
    <3>2. q # p
      BY <2>0, <3>1
    <3>3. stuck'[p] = stuck[p] /\ \A t \in Thread : flushBuffersByCore'[t] = IF t = u.to THEN None ELSE flushBuffersByCore[t]
      BY <1>0, <3>1, <3>2
    <3> QED
      BY <2>0, <3>1, <3>3
  <2>3. ASSUME NEW q \in Proc, BufferForCore(q) PROVE Owners'
    <3>1. PICK u : u = stuck[q]
      OBVIOUS
    <3>2. /\ u # None /\ RankOf(u) = q /\ stuck' = [stuck EXCEPT ![q] = None]
          /\ flushBuffersByCore' = [flushBuffersByCore EXCEPT ![u.to] = u] /\ UNCHANGED arrived
      BY <2>3, <3>1 DEF BufferForCore, OfOwners, mpiVars
    <3>3. q # p
      BY <2>0, <3>1, <3>2
    <3>4. \A t \in Thread : ProcOf(t) = p => t # u.to
      BY <3>2, <3>3 DEF RankOf
    <3>5. stuck'[p] = stuck[p] /\ \A t \in Thread : ProcOf(t) = p => flushBuffersByCore'[t] = flushBuffersByCore[t]
      BY <1>0, <3>2, <3>3, <3>4
    <3> QED
      BY <2>0, <3>2, <3>5
  <2>4. ASSUME NEW q \in Proc, MessageCacheFlushLocal(q) PROVE Owners'
    <3>1. UNCHANGED <<arrived, stuck>>
      BY <2>4 DEF MessageCacheFlushLocal, mpiVars
    <3>2. \A t \in Thread : flushBuffersByCore'[t] = IF ProcOf(t) = q THEN None ELSE flushBuffersByCore[t]
      BY <1>0, <2>4, FlushLocalIs
    <3> QED
      BY <2>0, <3>1, <3>2
  <2>5. CASE UNCHANGED <<arrived, stuck, flushBuffersByCore>>
    BY <2>0, <2>5
  <2>6. ASSUME NEW t \in Thread, FlushElement(t) \/ FlushCoreBuffer(t) \/ Combine(t) PROVE Owners'
    BY <2>5, <2>6 DEF FlushElement, FlushCoreBuffer, Combine, mpiVars, localVars
  <2>7. ASSUME NEW q \in Proc, MessageFlushFromCore(q) \/ BufferForRank(q) \/ MessageCacheFlushOut(q) PROVE Owners'
    BY <2>5, <2>7 DEF MessageFlushFromCore, BufferForRank, MessageCacheFlushOut, mpiVars, localVars
  <2>8. CASE ~Moves
    <3>1. UNCHANGED <<arrived, stuck, flushBuffersByCore>>
      BY <1>0, <2>8, WhoMovesUpdates DEF placeVars
    <3> QED
      BY <2>5, <3>1
  <2> QED
    BY <2>1, <2>2, <2>3, <2>4, <2>6, <2>7, <2>8 DEF Moves
<1> QED
  BY <1>0, <1>1, <1>2 DEF NewPhase

LEMMA InitEmptied == Init => Emptied
<1> SUFFICES ASSUME Init PROVE Emptied
  OBVIOUS
<1>0. /\ pc = [t \in Thread |-> "clear"] /\ round = [t \in Thread |-> 1] /\ arrived = {}
      /\ \A p \in Proc : Core0(p) \in Thread
  BY ThreadFacts DEF Init
<1>1. \A t \in Thread : CoreEmpty(t)
  BY <1>0 DEF CoreEmpty
<1>2. ASSUME NEW p \in Proc PROVE ~TakenOut(p) /\ ~FlushedAll(p) /\ ~BarrierDone(p) /\ ~LocalDone(p)
  <2>1. round[Core0(p)] = 1 /\ pc[Core0(p)] = "clear"
    BY <1>0
  <2> QED
    BY <2>1 DEF TakenOut, FlushedAll, BarrierDone, LocalDone
<1> QED
  BY <1>0, <1>1, <1>2 DEF Emptied, OutEmpty, SentEmpty, ArrivesComplete, ArrivedSeen, OwnersEmpty

LEMMA EmptiedStep == Moving /\ Emptied /\ [Next]_vars => Emptied'
<1> SUFFICES ASSUME Moving, Emptied, [Next]_vars PROVE Emptied'
  OBVIOUS
<1>0. /\ Threads /\ Homes /\ Once /\ Accounted /\ Flat /\ OfOwners
      /\ \A t \in Thread : CoreEmpty(t)
      /\ \A p \in Proc : OutEmpty(p) /\ SentEmpty(p) /\ ArrivesComplete(p) /\ ArrivedSeen(p) /\ OwnersEmpty(p)
  BY DEF Moving, Threads, Homes, Emptied
<1>1. \A t \in Thread : CoreEmpty(t)'
  BY <1>0, CoreEmptyStep
<1>2. \A p \in Proc : OutEmpty(p)'
  BY <1>0, OutStep
<1>3. \A p \in Proc : SentEmpty(p)'
  BY <1>0, SentStep
<1>4. \A p \in Proc : ArrivesComplete(p)'
  BY <1>0, CompleteStep
<1>5. \A p \in Proc : ArrivedSeen(p)'
  BY <1>0, SeenStep
<1>6. \A p \in Proc : OwnersEmpty(p)'
  BY <1>0, OwnersStep
<1> QED
  BY <1>1, <1>2, <1>3, <1>4, <1>5, <1>6 DEF Emptied

\* Where an update for a process that has left FlushCache can be
LEMMA LeftAtOwner ==
  ASSUME Moving, Emptied, NEW t \in Thread, round[t] > 3, NEW u \in Update, RankOf(u) = ProcOf(t)
  PROVE  Places(u) \subseteq {"wq", "combined"}
<1>0. /\ Threads /\ Flat /\ Deep /\ Located /\ AtBarrier /\ Homes /\ u.from \in Thread /\ u.to \in Thread /\ u # None
      /\ ProcOf(u.from) \in Proc /\ ProcOf(t) \in Proc /\ round \in [Thread -> 1..4]
  BY ThreadFacts, UpdateParts DEF Moving, Threads, Flat
<1>1. PICK p \in Proc, q \in Proc : p = ProcOf(t) /\ q = ProcOf(u.from)
  BY <1>0
<1>2. LocalDone(p) /\ BarrierDone(p)
  <2>1. round[Core0(p)] > 3
    <3>1. round[t] \in Int /\ round[Core0(p)] \in Int /\ round[t] <= round[Core0(p)]
      BY <1>0, <1>1, BehindCore0
    <3> QED
      BY <3>1
  <2> QED
    BY <1>0, <2>1, PhaseOrder DEF LocalDone
<1>3. FlushedAll(q) /\ TakenOut(q)
  BY <1>0, <1>2, PhaseOrder
<1>4. pc[u.from] \notin {"clear", "spare"}
  <2>1. round[Core0(q)] # 1
    BY <1>3 DEF TakenOut
  <2>2. pc[u.from] \in {"clear", "spare"} => round[u.from] = 1
    BY <1>0 DEF Located
  <2>3. round[u.from] = round[Core0(q)] \/ pc[u.from] = "arrive"
    BY <1>0, <1>1, BehindCore0
  <2> QED
    BY <2>1, <2>2, <2>3
<1>5. "arc" \notin Places(u) /\ "core" \notin Places(u)
  <2>1. dirty[u.from] = {} /\ coreFlushBuffer[u.from] = None
    BY <1>0, <1>4 DEF Emptied, CoreEmpty
  <2> QED
    BY <1>0, <2>1, PlacesAre
<1>6. "queue" \notin Places(u) /\ "held" \notin Places(u) /\ "rank" \notin Places(u)
  <2>1. (\A m \in ToSet(queueMPInew[q]) : m.kind # "flushFromCore") /\ held[q] = None /\ flushHeadBusy[q] = <<>>
    BY <1>3 DEF Emptied, OutEmpty
  <2>2. \A m \in ToSet(queueMPInew[q]) : m.update = None
    BY <1>0, <2>1 DEF Homes, OfQueues
  <2>3. ToSet(flushHeadBusy[q]) = {}
    BY <2>1 DEF ToSet
  <2> QED
    BY <1>0, <1>1, <2>1, <2>2, <2>3, PlacesAre
<1>7. "net" \notin Places(u)
  <2>1. net = {}
    BY <1>0, <1>2, NetEmpty DEF Emptied
  <2> QED
    BY <2>1, PlacesAre
<1>8. "arrived" \notin Places(u) /\ "stuck" \notin Places(u) /\ "local" \notin Places(u)
  <2>1. /\ ArrivedAtRank(p) = {} /\ stuck[p] = None
        /\ \A s \in Thread : ProcOf(s) = p => flushBuffersByCore[s] = None
    BY <1>2 DEF Emptied, OwnersEmpty
  <2>2. flushBuffersByCore[u.to] = None
    BY <1>0, <1>1, <2>1 DEF RankOf
  <2>3. u \notin arrived
    BY <1>1, <2>1 DEF ArrivedAtRank
  <2> QED
    BY <1>0, <1>1, <2>1, <2>2, <2>3, PlacesAre
<1> QED
  BY <1>5, <1>6, <1>7, <1>8, PlacesAre DEF Labels

\* When FlushCache returns on a process, every update for its threads, from whatever process and
\* buffer, has been combined or is queued at its owner.
THEOREM FlushLeavesNothing == Spec => []NothingLeftBehind
<1>1. Init => Moving /\ Emptied
  BY InitThreads, InitOnce, InitEmptied DEF Moving
<1>2. Moving /\ Emptied /\ [Next]_vars => (Moving /\ Emptied)'
  BY MovingStep, EmptiedStep
<1>3. Moving /\ Emptied => NothingLeftBehind
  BY LeftAtOwner DEF NothingLeftBehind
<1> QED
  BY <1>1, <1>2, <1>3, PTL DEF Spec
=============================================================================
