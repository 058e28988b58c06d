------------------------------ MODULE Services ------------------------------
(***************************************************************************)
(* Remote services (mdl2/mpi/mdl.cxx), the processor subset tree (core/     *)
(* setadd.cxx) they are called through, and the recursion over it           *)
(* (TraversePST.cxx).                                                       *)
(*                                                                         *)
(* A thread asks another to run a service with ReqService, goes on, and     *)
(* takes the answer with GetReply.  The MPI thread of its process marks the *)
(* request with a slot of the ring pRequestTargets; the answer comes back   *)
(* with an MPI tag made of the slot, which ReqService has returned as rID.  *)
(* Thread 0 runs the master: it builds the tree, runs services through it,  *)
(* which each thread hands down to idUpper and to its own lower part, and   *)
(* stops the others.  The service that counts threads (a TraverseCountN)    *)
(* stands for all of them.                                                  *)
(*                                                                         *)
(* MPI: a send may complete before the receiver takes it or only then.  The *)
(* thread that serves MPI is never in a computation that waits for another. *)
(***************************************************************************)
EXTENDS Integers, Sequences, FiniteSets, SequencesExt

CONSTANTS Procs,       \* number of processes
          Cores,       \* worker threads of each
          Traversals   \* bound: services the master runs once the tree is there

Proc == 0..(Procs - 1)

ASSUME ServicesAssumption ==
  /\ Procs \in Nat \ {0} /\ Cores \in [Proc -> Nat \ {0}] /\ Traversals \in Nat

ProcToThread[p \in 0..Procs] == IF p = 0 THEN 0 ELSE ProcToThread[p - 1] + Cores[p - 1]
Threads == ProcToThread[Procs]
Thread == 0..(Threads - 1)
ThreadToProc(t) == CHOOSE p \in Proc : ProcToThread[p] <= t /\ t < ProcToThread[p + 1]

\* pRequestTargets.size(): 2 * log2(Threads) + Cores, rounded down.
Log2[n \in 0..(Threads * Threads)] == IF n <= 1 THEN 0 ELSE 1 + Log2[n \div 2]
RingSize(p) == Log2[Threads * Threads] + Cores[p]

VARIABLES pc, sid,         \* where each thread is, and in which service
          pst, level,      \* its nodes of the tree, the top one first, and the one it is at
          idUpper,         \* the end of the threads SetAdd has still to place below it
          replies,         \* the rIDs it has to get a reply for, the last one last
          vout,            \* what its service has returned so far
          caller,          \* the request it is serving
          pending,         \* its message to the MPI thread
          pRequestTargets, iRequestTarget, \* of each process
          net, answers,    \* requests and replies sent and not received
          served,          \* how often the service has run on each thread
          step             \* how far the master is

ringVars == <<pRequestTargets, iRequestTarget>>
vars == <<pc, sid, pst, level, idUpper, replies, vout, caller, pending, ringVars, net, answers, served, step>>

None == [from |-> -1, to |-> -1, sid |-> "none", idUpper |-> 0, tag |-> -1]
Leaf == [nLeaves |-> 1, nLower |-> 0, nUpper |-> 0, idUpper |-> -1]
Node(t) == pst[t][level[t]]

Init ==
  /\ pc = [t \in Thread |-> IF t = 0 THEN "master" ELSE "handler"]
  /\ sid = [t \in Thread |-> "none"]
  /\ pst = [t \in Thread |-> <<Leaf>>] /\ level = [t \in Thread |-> 1]
  /\ idUpper = [t \in Thread |-> 0]
  /\ replies = [t \in Thread |-> <<>>] /\ vout = [t \in Thread |-> 0]
  /\ caller = [t \in Thread |-> None] /\ pending = [t \in Thread |-> None]
  /\ pRequestTargets = [p \in Proc |-> [i \in 0..(RingSize(p) - 1) |-> -1]]
  /\ iRequestTarget = [p \in Proc |-> 0]
  /\ net = {} /\ answers = {}
  /\ served = [t \in Thread |-> 0] /\ step = 0

------------------------------------------------------------------------------
(* ReqService and GetReply *)

\* The thread hands a request to the MPI thread and waits.
ReqService(t, to, s, upper) ==
  /\ pending' = [pending EXCEPT ![t] = [from |-> t, to |-> to, sid |-> s, idUpper |-> upper, tag |-> -1]]
  /\ pc' = [pc EXCEPT ![t] = "request"]

Ring(p) == DOMAIN pRequestTargets[p]

\* The first free slot from iRequestTarget on, around the ring.
FreeSlot(p) ==
  LET slot(k) == (iRequestTarget[p] + k) % RingSize(p)
      free == {k \in Ring(p) : pRequestTargets[p][slot(k)] = -1}
  IN  slot(CHOOSE k \in free : \A j \in free : k <= j)

\* The assertion that there is a free slot is a property (RingHasRoom).
MessageSendRequest(t) ==
  LET p == ThreadToProc(t)
      m == [pending[t] EXCEPT !.tag = FreeSlot(p)]
  IN  /\ pc[t] = "request"
      /\ \E i \in Ring(p) : pRequestTargets[p][i] = -1
      /\ pRequestTargets' = [pRequestTargets EXCEPT ![p][m.tag] = ThreadToProc(m.to)]
      /\ iRequestTarget' = [iRequestTarget EXCEPT ![p] = m.tag]
      /\ net' = net \cup {m}
      /\ pending' = [pending EXCEPT ![t] = m]
      /\ pc' = [pc EXCEPT ![t] = "sending"]
      /\ UNCHANGED <<sid, pst, level, idUpper, replies, vout, caller, answers, served, step>>

\* The send has completed: ReqService returns.
Requested(t) ==
  /\ pc[t] = "sending"
  /\ replies' = [replies EXCEPT ![t] = Append(@, pending[t].tag)]
  /\ pending' = [pending EXCEPT ![t] = None]
  /\ pc' = [pc EXCEPT ![t] = IF sid[t] = "STOP" THEN "ascend" ELSE "descend"]
  /\ UNCHANGED <<sid, pst, level, idUpper, vout, caller, ringVars, net, answers, served, step>>

GetReply(t) ==
  /\ pc[t] = "ascend" /\ replies[t] # <<>>
  /\ pc' = [pc EXCEPT ![t] = "reply"]
  /\ UNCHANGED <<sid, pst, level, idUpper, replies, vout, caller, pending, ringVars, net, answers, served, step>>

\* Mutant: the reply is received with any tag, from any process.
Matching_Any(t) == {r \in answers : ThreadToProc(r.to) = ThreadToProc(t)}

\* The replies MPI may give to the receive MessageReceiveReply has posted for t: by
\* their process, from the process in the slot, and with the tag of the slot.
Matching(t) ==
  LET p == ThreadToProc(t)
  IN  {r \in answers : /\ ThreadToProc(r.to) = p /\ r.tag = Last(replies[t])
                       /\ ThreadToProc(r.from) = pRequestTargets[p][r.tag]}

\* Mutant: the outputs of the two parts are not added up.
Combine_UpperOnly(t, out) == out

Combine(t, out) == vout[t] + out

\* Mutant: the slot of the ring is not given back.
FinishReceiveReply_SlotKept(t) ==
  /\ pc[t] = "reply"
  /\ \E r \in Matching(t) :
       /\ answers' = answers \ {r}
       /\ vout' = [vout EXCEPT ![t] = Combine(t, r.vout)]
  /\ replies' = [replies EXCEPT ![t] = Front(@)]
  /\ level' = [level EXCEPT ![t] = IF @ > 1 THEN @ - 1 ELSE @]
  /\ pc' = [pc EXCEPT ![t] = "ascend"]
  /\ UNCHANGED <<sid, pst, idUpper, caller, pending, ringVars, net, served, step>>

FinishReceiveReply(t) ==
  /\ pc[t] = "reply"
  /\ \E r \in Matching(t) :
       /\ answers' = answers \ {r}
       /\ pRequestTargets' = [pRequestTargets EXCEPT ![ThreadToProc(t)][r.tag] = -1]
       /\ vout' = [vout EXCEPT ![t] = Combine(t, r.vout)]
  /\ replies' = [replies EXCEPT ![t] = Front(@)]
  /\ level' = [level EXCEPT ![t] = IF @ > 1 THEN @ - 1 ELSE @]
  /\ pc' = [pc EXCEPT ![t] = "ascend"]
  /\ UNCHANGED <<sid, pst, idUpper, caller, pending, iRequestTarget, net, served, step>>

------------------------------------------------------------------------------
(* Handler *)

\* A thread begins to run a service.
Run(t, s, upper) ==
  /\ sid' = [sid EXCEPT ![t] = s] /\ idUpper' = [idUpper EXCEPT ![t] = upper]
  /\ level' = [level EXCEPT ![t] = 1] /\ vout' = [vout EXCEPT ![t] = 0]

Handler(t) ==
  /\ pc[t] = "handler"
  /\ \E m \in net :
       /\ m.to = t
       /\ net' = net \ {m}
       /\ caller' = [caller EXCEPT ![t] = m]
       /\ Run(t, m.sid, m.idUpper)
       /\ pc' = [pc EXCEPT ![t] = IF m.sid = "STOP" THEN "ascend" ELSE "descend"]
  /\ UNCHANGED <<pst, replies, pending, ringVars, answers, served, step>>

\* The service has returned: MessageSendReply.
SendReply(t) ==
  /\ t # 0 /\ pc[t] = "ascend" /\ replies[t] = <<>>
  /\ answers' = answers \cup {[from |-> t, to |-> caller[t].from, sid |-> sid[t], tag |-> caller[t].tag,
                               vout |-> vout[t]]}
  /\ pc' = [pc EXCEPT ![t] = "answer"]
  /\ UNCHANGED <<sid, pst, level, idUpper, replies, vout, caller, pending, ringVars, net, served, step>>

Replied(t) ==
  /\ pc[t] = "answer"
  /\ pc' = [pc EXCEPT ![t] = IF sid[t] = "STOP" THEN "stopped" ELSE "handler"]
  /\ UNCHANGED <<sid, pst, level, idUpper, replies, vout, caller, pending, ringVars, net, answers, served, step>>

------------------------------------------------------------------------------
(* ServiceSetAdd::SetAdd *)

\* Mutant: the tree does not split between processes.
Middle_Anywhere(lower, upper) == (upper + lower) \div 2

\* Threads of several processes are split between processes.
Middle(lower, upper) ==
  LET middle == (upper + lower) \div 2
  IN  IF ThreadToProc(lower) # ThreadToProc(upper - 1) THEN ProcToThread[ThreadToProc(middle)] ELSE middle

SetAdd(t) ==
  LET n == idUpper[t] - t
      middle == Middle(t, idUpper[t])
      node == [nLeaves |-> n, nLower |-> middle - t, nUpper |-> idUpper[t] - middle, idUpper |-> middle]
  IN  /\ pc[t] = "descend" /\ sid[t] = "SETADD" /\ n > 1
      /\ pst' = [pst EXCEPT ![t] = Append([@ EXCEPT ![Len(@)] = node], Leaf)]
      /\ ReqService(t, middle, "SETADD", idUpper[t])
      /\ idUpper' = [idUpper EXCEPT ![t] = middle]
      /\ UNCHANGED <<sid, level, replies, vout, caller, ringVars, net, answers, served, step>>

SetAddDone(t) ==
  /\ pc[t] = "descend" /\ sid[t] = "SETADD" /\ idUpper[t] - t <= 1
  /\ pc' = [pc EXCEPT ![t] = "ascend"]
  /\ UNCHANGED <<sid, pst, level, idUpper, replies, vout, caller, pending, ringVars, net, answers, served, step>>

------------------------------------------------------------------------------
(* TraversePST::Traverse *)

Recurse(t) ==
  /\ pc[t] = "descend" /\ sid[t] = "COUNT" /\ Node(t).nLeaves > 1
  /\ ReqService(t, Node(t).idUpper, "COUNT", 0)
  /\ level' = [level EXCEPT ![t] = @ + 1]
  /\ UNCHANGED <<sid, pst, idUpper, replies, vout, caller, ringVars, net, answers, served, step>>

Service(t) ==
  /\ pc[t] = "descend" /\ sid[t] = "COUNT" /\ Node(t).nLeaves = 1
  /\ served' = [served EXCEPT ![t] = @ + 1]
  /\ vout' = [vout EXCEPT ![t] = 1]
  /\ pc' = [pc EXCEPT ![t] = "ascend"]
  /\ UNCHANGED <<sid, pst, level, idUpper, replies, caller, pending, ringVars, net, answers, step>>

------------------------------------------------------------------------------
(* The master: msrInitialize, some services, and the end of run_master *)

\* Its last service has returned.
Idle == pc[0] = "master" \/ (pc[0] = "ascend" /\ replies[0] = <<>>)

RunService ==
  /\ Idle /\ step <= Traversals
  /\ step' = step + 1
  /\ IF step = 0 THEN Run(0, "SETADD", Threads) ELSE Run(0, "COUNT", 0)
  /\ pc' = [pc EXCEPT ![0] = "descend"]
  /\ UNCHANGED <<pst, replies, caller, pending, ringVars, net, answers, served>>

\* SRV_STOP to each of the others, one after the other.
StopNext ==
  LET id == step - Traversals
  IN  /\ Idle /\ id >= 1 /\ id <= Threads - 1
      /\ step' = step + 1
      /\ Run(0, "STOP", 0)
      /\ ReqService(0, id, "STOP", 0)
      /\ UNCHANGED <<pst, replies, caller, ringVars, net, answers, served>>

Finish ==
  /\ Idle /\ step - Traversals = Threads
  /\ pc' = [pc EXCEPT ![0] = "stopped"]
  /\ UNCHANGED <<sid, pst, level, idUpper, replies, vout, caller, pending, ringVars, net, answers, served, step>>

ThreadStep(t) ==
  \/ MessageSendRequest(t) \/ Requested(t) \/ GetReply(t) \/ FinishReceiveReply(t)
  \/ Handler(t) \/ SendReply(t) \/ Replied(t)
  \/ SetAdd(t) \/ SetAddDone(t) \/ Recurse(t) \/ Service(t)

Next == RunService \/ StopNext \/ Finish \/ \E t \in Thread : ThreadStep(t)

\* A send completes for certain only when its message has been received.
Taken(t) ==
  /\ pc[t] = "sending" => pending[t] \notin net
  /\ pc[t] = "answer" => \A r \in answers : r.from # t

Fairness ==
  /\ WF_vars(RunService \/ StopNext \/ Finish)
  /\ \A t \in Thread : WF_vars(ThreadStep(t) /\ Taken(t))

Spec == Init /\ [][Next]_vars /\ Fairness
------------------------------------------------------------------------------
(* Properties *)

\* The assertion of MessageSendRequest: whatever its threads have outstanding, a
\* process finds a slot for the next request.
RingHasRoom ==
  \A t \in Thread : pc[t] = "request" => \E i \in Ring(ThreadToProc(t)) : pRequestTargets[ThreadToProc(t)][i] = -1

\* GetReply(rID) takes the answer to the request rID stands for: MPI can give it no
\* other, from another thread, for another thread, or an older one.
ReplyIsMine ==
  \A t \in Thread : pc[t] = "reply" =>
    \A r \in Matching(t) :
      /\ r.to = t /\ r.sid = sid[t]
      /\ r.from = (IF sid[t] = "STOP" THEN step - 1 - Traversals
                   ELSE pst[t][Len(replies[t])].idUpper)

\* The threads below node i of thread t, as the services see them.
Covers(t, i) == t..(t + pst[t][i].nLeaves - 1)

\* Once the tree is there, both parts of a node cover what the node covers, and each
\* process is a node of its first thread: pstAmNode and pstOffNode, which compare the
\* number of leaves with that of cores, tell those nodes from all others.
TreeFollowsProcesses ==
  step >= 2 =>
    /\ \A t \in Thread : \A i \in 1..(Len(pst[t]) - 1) :
         LET u == pst[t][i].idUpper
         IN  Covers(t, i) = Covers(t, i + 1) \cup Covers(u, 1)
    /\ \A p \in Proc :
         {t \in Thread : \E i \in 1..Len(pst[t]) : pst[t][i].nLeaves = Cores[ThreadToProc(t)] /\ ThreadToProc(t) = p}
           = {ProcToThread[p]}

\* A service runs once on every thread, and the master gets the sum over all.
CountedOnce ==
  Idle /\ step >= 2 /\ step <= Traversals + 1 =>
    /\ vout[0] = Threads
    /\ \A t \in Thread : served[t] = step - 1

\* Every service returns and all threads stop.
Completes == <>(\A t \in Thread : pc[t] = "stopped")
=============================================================================
