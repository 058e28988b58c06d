-------------------------------- MODULE Swap --------------------------------
(***************************************************************************)
(* mdlClass::Swap (mdl2/mpi/mdl.cxx): two threads exchange parts of their   *)
(* particle stores in place.  Each side owns a buffer whose last nOutBytes  *)
(* are to be sent and whose beginning is overwritten by what arrives.  They *)
(* first tell each other both sizes, then exchange chunks of at most Trans  *)
(* bytes both ways at once, and end with one-way chunks.                    *)
(*                                                                         *)
(* No message says how long it is going to be: each side computes the size  *)
(* of the chunk it receives from its own counters.  Sends are synchronous,  *)
(* so at most one message per direction is in flight; `chan' holds it until *)
(* the other side has received it.  A byte of a buffer is <<side, k>>, the  *)
(* k-th byte that side was to send, or Free.                                *)
(***************************************************************************)
EXTENDS Integers

CONSTANTS MaxBuf,   \* bound: largest buffer offered
          Trans     \* MDL_TRANS_SIZE, the largest chunk

ASSUME SwapAssumption == MaxBuf \in Nat /\ Trans \in Nat \ {0}

VARIABLES nBuf0, nOut0,      \* the arguments nBufBytes and nOutBytes of each side
          pc,                \* where each side is
          nOutBytes,         \* left to send
          nInBytes,          \* left to receive
          nBufBytes,         \* room left for what arrives
          nOutBufBytes,      \* room left at the other side
          snd, rcv,          \* *pnSndBytes, *pnRcvBytes
          mem,               \* the buffers
          pszTrans,          \* the temporary copy of the outgoing chunk
          chan               \* length of the message in flight from each side

args == <<nBuf0, nOut0>>
counts == <<nOutBytes, nInBytes, nBufBytes, nOutBufBytes, snd, rcv>>
vars == <<args, pc, counts, mem, pszTrans, chan>>

Side == {0, 1}
Opp(p) == 1 - p
None == -1
Free == <<None, None>>

Lesser(a, b) == IF a < b THEN a ELSE b

\* The next chunks, in both directions, as one side sees them.
OutMax_NoRoom(p) == Lesser(nOutBytes[p], Trans)

OutMax(p) == Lesser(Lesser(nOutBytes[p], Trans), nOutBufBytes[p])
InMax(p) == Lesser(Lesser(nInBytes[p], Trans), nBufBytes[p])

\* pszOut as an offset into the buffer.
OutPos(p) == nBuf0[p] - nOut0[p] + snd[p]

Init ==
  /\ nBuf0 \in [Side -> 0..MaxBuf]
  /\ nOut0 \in [Side -> 0..MaxBuf]
  /\ \A p \in Side : nOut0[p] <= nBuf0[p]
  /\ pc = [p \in Side |-> "start"]
  /\ nOutBytes = nOut0 /\ nBufBytes = nBuf0
  /\ nInBytes = [p \in Side |-> 0] /\ nOutBufBytes = [p \in Side |-> 0]
  /\ snd = [p \in Side |-> 0] /\ rcv = [p \in Side |-> 0]
  /\ mem = [p \in Side |-> [i \in 0..(nBuf0[p] - 1) |->
                IF i >= nBuf0[p] - nOut0[p] THEN <<p, i - (nBuf0[p] - nOut0[p])>> ELSE Free]]
  /\ pszTrans = [p \in Side |-> [i \in 0..(Trans - 1) |-> Free]]
  /\ chan = [p \in Side |-> None]

Goto(p, l) == pc' = [pc EXCEPT ![p] = l]
Post(p, n) == chan' = [chan EXCEPT ![p] = n]
Taken(p) == chan[p] = None
Take(p) == chan[Opp(p)] # None /\ chan' = [chan EXCEPT ![Opp(p)] = None]

------------------------------------------------------------------------------
(* The sizes: one Sendrecv of a struct swapInit *)

SendInit(p) ==
  /\ pc[p] = "start"
  /\ Post(p, 0)
  /\ Goto(p, "initRecv")
  /\ UNCHANGED <<args, counts, mem, pszTrans>>

RecvInit(p) ==
  /\ pc[p] = "initRecv"
  /\ Take(p)
  /\ nInBytes' = [nInBytes EXCEPT ![p] = nOut0[Opp(p)]]
  /\ nOutBufBytes' = [nOutBufBytes EXCEPT ![p] = nBuf0[Opp(p)]]
  /\ Goto(p, "initWait")
  /\ UNCHANGED <<args, nOutBytes, nBufBytes, snd, rcv, mem, pszTrans>>

InitDone(p) ==
  /\ pc[p] = "initWait" /\ Taken(p)
  /\ Goto(p, "both")
  /\ UNCHANGED <<args, counts, mem, pszTrans, chan>>

------------------------------------------------------------------------------
(* Both ways at once *)

\* The bytes of the outgoing chunk.
OutChunk(p) == [i \in 0..(Trans - 1) |-> IF i < OutMax(p) THEN mem[p][OutPos(p) + i] ELSE pszTrans[p][i]]

SendBoth(p) ==
  /\ pc[p] = "both"
  /\ nOutBytes[p] > 0 /\ nInBytes[p] > 0
  /\ pszTrans' = [pszTrans EXCEPT ![p] = OutChunk(p)]
  /\ Post(p, OutMax(p))
  /\ Goto(p, "bothRecv")
  /\ UNCHANGED <<args, counts, mem>>

Incoming_NoTemporary(p, i) ==
  IF OutPos(Opp(p)) + i < nBuf0[Opp(p)] THEN mem[Opp(p)][OutPos(Opp(p)) + i] ELSE Free

\* What p's receive copies from: the other's temporary copy, or its buffer.
Incoming(p, i) ==
  IF pc[Opp(p)] = "sendWait" THEN mem[Opp(p)][OutPos(Opp(p)) + i] ELSE pszTrans[Opp(p)][i]

Store(p, n) ==
  mem' = [mem EXCEPT ![p] = [i \in 0..(nBuf0[p] - 1) |->
            IF i >= rcv[p] /\ i < rcv[p] + n THEN Incoming(p, i - rcv[p]) ELSE mem[p][i]]]

RecvBoth(p) ==
  /\ pc[p] = "bothRecv"
  /\ Take(p)
  /\ Store(p, InMax(p))
  /\ Goto(p, "bothWait")
  /\ UNCHANGED <<args, counts, pszTrans>>

Sent(p, n) ==
  /\ nOutBytes' = [nOutBytes EXCEPT ![p] = @ - n]
  /\ nOutBufBytes' = [nOutBufBytes EXCEPT ![p] = @ - n]
  /\ snd' = [snd EXCEPT ![p] = @ + n]

Received(p, n) ==
  /\ nInBytes' = [nInBytes EXCEPT ![p] = @ - n]
  /\ nBufBytes' = [nBufBytes EXCEPT ![p] = @ - n]
  /\ rcv' = [rcv EXCEPT ![p] = @ + n]

BothDone(p) ==
  /\ pc[p] = "bothWait" /\ Taken(p)
  /\ Sent(p, OutMax(p))
  /\ Received(p, InMax(p))
  /\ Goto(p, "both")
  /\ UNCHANGED <<args, mem, pszTrans, chan>>

LeaveBoth_SkipSend(p) ==
  /\ pc[p] = "both"
  /\ nOutBytes[p] = 0 \/ nInBytes[p] = 0
  /\ Goto(p, "recv")
  /\ UNCHANGED <<args, counts, mem, pszTrans, chan>>

LeaveBoth(p) ==
  /\ pc[p] = "both"
  /\ nOutBytes[p] = 0 \/ nInBytes[p] = 0
  /\ Goto(p, "send")
  /\ UNCHANGED <<args, counts, mem, pszTrans, chan>>

------------------------------------------------------------------------------
(* One way: what is left of the larger side, as far as it fits *)

SendOne(p) ==
  /\ pc[p] = "send"
  /\ nOutBytes[p] > 0 /\ nOutBufBytes[p] > 0
  /\ Post(p, OutMax(p))
  /\ Goto(p, "sendWait")
  /\ UNCHANGED <<args, counts, mem, pszTrans>>

SendOneDone(p) ==
  /\ pc[p] = "sendWait" /\ Taken(p)
  /\ Sent(p, OutMax(p))
  /\ Goto(p, "send")
  /\ UNCHANGED <<args, nInBytes, nBufBytes, rcv, mem, pszTrans, chan>>

LeaveSend(p) ==
  /\ pc[p] = "send"
  /\ nOutBytes[p] = 0 \/ nOutBufBytes[p] = 0
  /\ Goto(p, "recv")
  /\ UNCHANGED <<args, counts, mem, pszTrans, chan>>

RecvOne(p) ==
  /\ pc[p] = "recv"
  /\ nInBytes[p] > 0 /\ nBufBytes[p] > 0
  /\ Take(p)
  /\ Store(p, InMax(p))
  /\ Received(p, InMax(p))
  /\ UNCHANGED <<args, pc, nOutBytes, nOutBufBytes, snd, pszTrans>>

Return(p) ==
  /\ pc[p] = "recv"
  /\ nInBytes[p] = 0 \/ nBufBytes[p] = 0
  /\ Goto(p, "done")
  /\ UNCHANGED <<args, counts, mem, pszTrans, chan>>

Result(p) == IF nOutBytes[p] > 0 \/ nInBytes[p] > 0 THEN 0 ELSE 1

------------------------------------------------------------------------------
Step(p) ==
  \/ SendInit(p) \/ RecvInit(p) \/ InitDone(p)
  \/ SendBoth(p) \/ RecvBoth(p) \/ BothDone(p) \/ LeaveBoth(p)
  \/ SendOne(p) \/ SendOneDone(p) \/ LeaveSend(p) \/ RecvOne(p) \/ Return(p)

Next == \E p \in Side : Step(p)

\* A thread inside Swap keeps running; a message posted is received.
Spec == Init /\ [][Next]_vars /\ \A p \in Side : WF_vars(Step(p))
------------------------------------------------------------------------------
(* Properties *)

Finished == \A p \in Side : pc[p] = "done"

\* Bytes that have left p's buffer for good: those sent, and the chunk in transit
\* both ways, which is in pszTrans or already with the other side.
Gone(p) == snd[p] + (IF pc[p] \in {"bothRecv", "bothWait"} THEN OutMax(p) ELSE 0)

\* Bytes p has stored, counted or not.
Stored(p) == rcv[p] + (IF pc[p] = "bothWait" THEN InMax(p) ELSE 0)

\* Types of the variables.
TypeOK ==
  /\ nBuf0 \in [Side -> 0..MaxBuf] /\ nOut0 \in [Side -> 0..MaxBuf]
  /\ \A p \in Side : nOut0[p] <= nBuf0[p]
  /\ pc \in [Side -> {"start", "initRecv", "initWait", "both", "bothRecv", "bothWait",
                       "send", "sendWait", "recv", "done"}]
  /\ nOutBytes \in [Side -> Nat] /\ nInBytes \in [Side -> Nat]
  /\ nBufBytes \in [Side -> Nat] /\ nOutBufBytes \in [Side -> Nat]
  /\ snd \in [Side -> Nat] /\ rcv \in [Side -> Nat]
  /\ chan \in [Side -> Nat \cup {None}]

\* Nothing that arrives lands on bytes that have still to be sent, although the
\* chunks of the two directions differ in length (the bilateral loop of Swap).
UnsentIntact ==
  \A p \in Side : \A k \in 0..(MaxBuf - 1) :
    k >= Gone(p) /\ k < nOut0[p] => mem[p][nBuf0[p] - nOut0[p] + k] = <<p, k>>

\* The receiver expects exactly what is in flight: assert(nBytes == nInMax), and
\* on one node a memcpy of the sender's length without any check (mdl_MPI_Recv).
LengthsAgree ==
  \A p \in Side :
    /\ pc[p] \in {"bothRecv", "recv"} /\ chan[Opp(p)] # None
    => chan[Opp(p)] = InMax(p)

\* What has been stored is the other side's bytes, in order, none twice.
InOrder ==
  \A p \in Side : \A i \in 0..(MaxBuf - 1) : i < Stored(p) => mem[p][i] = <<Opp(p), i>>

\* Afterwards each side has sent all it had or filled the other's buffer, which
\* with nOutBytes <= nBufBytes gives the comments' promises: "One processor is
\* GUARANTEED to complete all its transfers", and a side that could not deliver
\* everything has itself received everything; both return the same value.
Guarantee ==
  Finished =>
    /\ \A p \in Side : snd[p] = rcv[Opp(p)] /\ snd[p] = Lesser(nOut0[p], nBuf0[Opp(p)])
    /\ \E p \in Side : nOutBytes[p] = 0
    /\ \A p \in Side : nOutBytes[p] > 0 => nInBytes[p] = 0
    /\ Result(0) = Result(1)

\* Seen from outside the two return together: the whole of it is one exchange.
Atomic == INSTANCE SwapAtomic WITH
            size <- nBuf0, leaving <- nOut0, finished <- Finished,
            moved <- [p \in Side |-> IF Finished THEN rcv[Opp(p)] ELSE 0]

IsAtomic == Atomic!Spec
=============================================================================
