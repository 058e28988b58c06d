----------------------------- MODULE ExchangeProofs -----------------------------
(***************************************************************************)
(* Proofs about the exchange of particles between threads: Swap, for        *)
(* buffers and chunks of any size, and Rejects, which is made of swaps, for *)
(* halves and stores of any size.                                           *)
(*                                                                         *)
(* The inductive invariant of Swap has three parts: how the two sides'      *)
(* positions in the protocol constrain each other (InStep), how their       *)
(* counters do (Counted), and what the buffers and the message in transit   *)
(* hold (Bytes).  That of Rejects says that the stores hold what is in them *)
(* (StoreInv) and that there is room for what is still to move (Reserved).  *)
(***************************************************************************)
EXTENDS Swap, Rejects, FiniteSetTheorems, WellFoundedInduction, TLAPS

Unilateral == {"send", "sendWait", "recv", "done"}

\* The length of a message is the sender's chunk (the sizes have none).
Announced(p) ==
  chan[p] # None =>
    \/ pc[p] \in {"initRecv", "initWait"}
    \/ pc[p] \in {"bothRecv", "bothWait", "sendWait"} /\ chan[p] = OutMax(p)

\* Where q can be, and what can be in flight, given where p is.
InStep(p, q) ==
  /\ Announced(p)
  /\ pc[p] = "start" => pc[q] \in {"start", "initRecv"}
  /\ pc[p] = "initRecv" =>
       \/ pc[q] = "start" /\ chan[p] # None
       \/ pc[q] = "initRecv" /\ chan[p] # None /\ chan[q] # None
       \/ pc[q] = "initWait" /\ chan[p] = None /\ chan[q] # None
  /\ pc[p] = "initWait" /\ chan[p] # None => pc[q] = "initRecv"
  /\ pc[p] = "bothRecv" =>
       \/ pc[q] \in {"initWait", "both"} /\ chan[p] # None /\ chan[q] = None
       \/ pc[q] = "bothRecv" /\ chan[p] # None /\ chan[q] # None
       \/ pc[q] = "bothWait" /\ chan[p] # None /\ chan[q] = None
       \/ pc[q] = "bothWait" /\ chan[p] = None /\ chan[q] # None
  /\ pc[p] = "bothWait" /\ chan[p] # None => pc[q] = "bothRecv" /\ chan[q] = None
  /\ pc[p] = "sendWait" =>
       \/ chan[p] # None /\ pc[q] \in {"initWait", "both", "bothWait", "send", "recv"} /\ chan[q] = None
       \/ chan[p] = None /\ pc[q] \in {"recv", "done"}

\* What the other side has stored of p's bytes, by p's own counters.
Arrived(p) ==
  snd[p] + (IF pc[p] \in {"bothRecv", "bothWait", "sendWait"} /\ chan[p] = None THEN OutMax(p) ELSE 0)

Counted(p, q) ==
  /\ nOutBytes[p] = nOut0[p] - snd[p]
  /\ nBufBytes[p] = nBuf0[p] - rcv[p]
  /\ pc[p] \notin {"start", "initRecv"} =>
        nInBytes[p] = nOut0[q] - rcv[p] /\ nOutBufBytes[p] = nBuf0[q] - snd[p]
  /\ pc[p] \in {"start", "initRecv", "initWait"} => snd[p] = 0 /\ rcv[p] = 0
  /\ Arrived(p) = Stored(q)
  /\ pc[p] \in {"both", "bothRecv", "bothWait"} =>
        nBufBytes[p] >= nOutBytes[p] /\ nOutBufBytes[p] >= nInBytes[p]
  /\ pc[p] \in {"bothRecv", "bothWait"} => nOutBytes[p] > 0 /\ nInBytes[p] > 0
  /\ pc[p] \in Unilateral => nOutBytes[p] = 0 \/ nInBytes[p] = 0
  /\ pc[p] = "sendWait" => nOutBytes[p] > 0 /\ nOutBufBytes[p] > 0
  /\ pc[p] \in {"recv", "done"} => nOutBytes[p] = 0 \/ nOutBufBytes[p] = 0
  /\ pc[p] = "done" => nInBytes[p] = 0 \/ nBufBytes[p] = 0

ProtocolInv ==
  /\ TypeOK
  /\ \A p \in Side : InStep(p, Opp(p))
  /\ \A p \in Side : Counted(p, Opp(p))

\* Bytes not yet gone are in place, bytes stored are the other side's, and the
\* chunk that goes both ways is in the temporary copy until it is taken.
Unsent(p) ==
  \A k \in Nat : k >= Gone(p) /\ k < nOut0[p] => mem[p][nBuf0[p] - nOut0[p] + k] = <<p, k>>

StoredBytes(p, q) == \A i \in Nat : i < Stored(p) => mem[p][i] = <<q, i>>

InTransit(p) ==
  pc[p] \in {"bothRecv", "bothWait"} /\ chan[p] # None =>
    \A i \in Nat : i < OutMax(p) => pszTrans[p][i] = <<p, snd[p] + i>>

Bytes(p, q) == Unsent(p) /\ StoredBytes(p, q) /\ InTransit(p)

Functions == mem = [p \in Side |-> mem[p]] /\ pszTrans = [p \in Side |-> pszTrans[p]]

------------------------------------------------------------------------------
\* The two sides, named.
Pair(p, q) == p \in Side /\ q \in Side /\ p # q /\ Opp(p) = q /\ Opp(q) = p

PairInv(p, q) == InStep(p, q) /\ InStep(q, p) /\ Counted(p, q) /\ Counted(q, p)

LEMMA PlacePairs == \A p \in Side : Pair(p, Opp(p)) /\ \A r \in Side : r = p \/ r = Opp(p)
BY DEF Pair, Side, Opp

LEMMA PairwiseInv ==
  ASSUME NEW p, NEW q, Pair(p, q), TypeOK
  PROVE  ProtocolInv <=> PairInv(p, q)
BY PlacePairs DEF Pair, ProtocolInv, PairInv

LEMMA StepSendInit ==
  ASSUME NEW p, NEW q, Pair(p, q), TypeOK, PairInv(p, q), SendInit(p)
  PROVE  TypeOK' /\ PairInv(p, q)'
<1>1. TypeOK'
  BY SwapAssumption DEF TypeOK, PairInv, Counted, Pair, SendInit, Goto, Post, OutMax, InMax, Lesser, args, counts, None
<1>2. InStep(p, q)' /\ InStep(q, p)'
  BY SwapAssumption DEF TypeOK, PairInv, Pair, Counted, InStep, Announced, Arrived, Stored, Unilateral, SendInit, Goto, Post, OutMax, InMax, Lesser, args, counts, None
<1>3. Counted(p, q)' /\ Counted(q, p)'
  BY SwapAssumption DEF TypeOK, PairInv, Pair, InStep, Announced, Counted, Arrived, Stored, Unilateral, SendInit, Goto, Post, OutMax, InMax, Lesser, args, counts, None
<1> QED
  BY <1>1, <1>2, <1>3 DEF PairInv

LEMMA StepRecvInit ==
  ASSUME NEW p, NEW q, Pair(p, q), TypeOK, PairInv(p, q), RecvInit(p)
  PROVE  TypeOK' /\ PairInv(p, q)'
<1>1. TypeOK'
  BY SwapAssumption DEF TypeOK, PairInv, Counted, Pair, RecvInit, Goto, Take, OutMax, InMax, Lesser, args, counts, None
<1>2. InStep(p, q)' /\ InStep(q, p)'
  BY SwapAssumption DEF TypeOK, PairInv, Pair, Counted, InStep, Announced, Arrived, Stored, Unilateral, RecvInit, Goto, Take, OutMax, InMax, Lesser, args, counts, None
<1>3. Counted(p, q)' /\ Counted(q, p)'
  BY SwapAssumption DEF TypeOK, PairInv, Pair, InStep, Announced, Counted, Arrived, Stored, Unilateral, RecvInit, Goto, Take, OutMax, InMax, Lesser, args, counts, None
<1> QED
  BY <1>1, <1>2, <1>3 DEF PairInv

LEMMA StepInitDone ==
  ASSUME NEW p, NEW q, Pair(p, q), TypeOK, PairInv(p, q), InitDone(p)
  PROVE  TypeOK' /\ PairInv(p, q)'
<1>1. TypeOK'
  BY SwapAssumption DEF TypeOK, PairInv, Counted, Pair, InitDone, Goto, Taken, OutMax, InMax, Lesser, args, counts, None
<1>2. InStep(p, q)' /\ InStep(q, p)'
  BY SwapAssumption DEF TypeOK, PairInv, Pair, Counted, InStep, Announced, Arrived, Stored, Unilateral, InitDone, Goto, Taken, OutMax, InMax, Lesser, args, counts, None
<1>3. Counted(p, q)' /\ Counted(q, p)'
  BY SwapAssumption DEF TypeOK, PairInv, Pair, InStep, Announced, Counted, Arrived, Stored, Unilateral, InitDone, Goto, Taken, OutMax, InMax, Lesser, args, counts, None
<1> QED
  BY <1>1, <1>2, <1>3 DEF PairInv

LEMMA StepSendBoth ==
  ASSUME NEW p, NEW q, Pair(p, q), TypeOK, PairInv(p, q), SendBoth(p)
  PROVE  TypeOK' /\ PairInv(p, q)'
<1>1. TypeOK'
  BY SwapAssumption DEF TypeOK, PairInv, Counted, Pair, SendBoth, Goto, Post, OutMax, InMax, Lesser, args, counts, None
<1>2. InStep(p, q)' /\ InStep(q, p)'
  BY SwapAssumption DEF TypeOK, PairInv, Pair, Counted, InStep, Announced, Arrived, Stored, Unilateral, SendBoth, Goto, Post, OutMax, InMax, Lesser, args, counts, None
<1>3. Counted(p, q)' /\ Counted(q, p)'
  BY SwapAssumption DEF TypeOK, PairInv, Pair, InStep, Announced, Counted, Arrived, Stored, Unilateral, SendBoth, Goto, Post, OutMax, InMax, Lesser, args, counts, None
<1> QED
  BY <1>1, <1>2, <1>3 DEF PairInv

LEMMA StepRecvBoth ==
  ASSUME NEW p, NEW q, Pair(p, q), TypeOK, PairInv(p, q), RecvBoth(p)
  PROVE  TypeOK' /\ PairInv(p, q)'
<1>1. TypeOK'
  BY SwapAssumption DEF TypeOK, PairInv, Counted, Pair, RecvBoth, Goto, Take, OutMax, InMax, Lesser, args, counts, None
<1>2. InStep(p, q)' /\ InStep(q, p)'
  BY SwapAssumption DEF TypeOK, PairInv, Pair, Counted, InStep, Announced, Arrived, Stored, Unilateral, RecvBoth, Goto, Take, OutMax, InMax, Lesser, args, counts, None
<1>3. Counted(p, q)' /\ Counted(q, p)'
  BY SwapAssumption DEF TypeOK, PairInv, Pair, InStep, Announced, Counted, Arrived, Stored, Unilateral, RecvBoth, Goto, Take, OutMax, InMax, Lesser, args, counts, None
<1> QED
  BY <1>1, <1>2, <1>3 DEF PairInv

LEMMA StepBothDone ==
  ASSUME NEW p, NEW q, Pair(p, q), TypeOK, PairInv(p, q), BothDone(p)
  PROVE  TypeOK' /\ PairInv(p, q)'
<1>1. TypeOK'
  BY SwapAssumption DEF TypeOK, PairInv, Counted, Pair, BothDone, Goto, Taken, Sent, Received, OutMax, InMax, Lesser, args, counts, None
<1>2. InStep(p, q)' /\ InStep(q, p)'
  BY SwapAssumption DEF TypeOK, PairInv, Pair, Counted, InStep, Announced, Arrived, Stored, Unilateral, BothDone, Goto, Taken, Sent, Received, OutMax, InMax, Lesser, args, counts, None
<1>m. OutMax(p) \in 1..nOutBytes[p] /\ OutMax(p) <= nOutBufBytes[p]
      /\ InMax(p) \in 1..nInBytes[p] /\ InMax(p) <= nBufBytes[p]
      /\ nBufBytes[p] - InMax(p) >= nOutBytes[p] - OutMax(p)
      /\ nOutBufBytes[p] - OutMax(p) >= nInBytes[p] - InMax(p)
  BY SwapAssumption DEF TypeOK, PairInv, Pair, Counted, BothDone, OutMax, InMax, Lesser
<1>c. /\ snd' = [snd EXCEPT ![p] = snd[p] + OutMax(p)]
      /\ rcv' = [rcv EXCEPT ![p] = rcv[p] + InMax(p)]
      /\ nOutBytes' = [nOutBytes EXCEPT ![p] = nOutBytes[p] - OutMax(p)]
      /\ nInBytes' = [nInBytes EXCEPT ![p] = nInBytes[p] - InMax(p)]
      /\ nBufBytes' = [nBufBytes EXCEPT ![p] = nBufBytes[p] - InMax(p)]
      /\ nOutBufBytes' = [nOutBufBytes EXCEPT ![p] = nOutBufBytes[p] - OutMax(p)]
      /\ pc' = [pc EXCEPT ![p] = "both"] /\ pc[p] = "bothWait" /\ chan[p] = None
      /\ nBuf0' = nBuf0 /\ nOut0' = nOut0 /\ chan' = chan
  BY DEF BothDone, Sent, Received, Goto, Taken, args
<1>n. OutMax(p) \in Nat /\ InMax(p) \in Nat
  BY <1>m DEF TypeOK, Pair
<1>3. Counted(p, q)'
  <2> DEFINE a == OutMax(p)  b == InMax(p)
  <2>1. a \in Nat /\ b \in Nat
    BY <1>n
  <2>2. Stored(q)' = Stored(q)
    BY <1>c DEF Pair, TypeOK, Stored, InMax, Lesser
  <2>3. Arrived(p)' = snd[p] + a /\ Arrived(p) = snd[p] + a
    BY <1>c, <2>1 DEF Pair, TypeOK, Arrived
  <2>4. /\ snd'[p] = snd[p] + a /\ rcv'[p] = rcv[p] + b
        /\ nOutBytes'[p] = nOutBytes[p] - a /\ nInBytes'[p] = nInBytes[p] - b
        /\ nBufBytes'[p] = nBufBytes[p] - b /\ nOutBufBytes'[p] = nOutBufBytes[p] - a
        /\ pc'[p] = "both"
    BY <1>c DEF Pair, TypeOK
  <2>5. Counted(p, q)
    BY DEF PairInv
  <2> HIDE DEF a, b
  <2> QED
    BY <1>c, <1>m, <2>1, <2>2, <2>3, <2>4, <2>5 DEF Counted, Pair, TypeOK, Unilateral, a, b
<1>4. Counted(q, p)'
  BY SwapAssumption DEF TypeOK, PairInv, Pair, InStep, Announced, Counted, Arrived, Stored, Unilateral, BothDone, Goto, Taken, Sent, Received, OutMax, InMax, Lesser, args, counts, None
<1> QED
  BY <1>1, <1>2, <1>3, <1>4 DEF PairInv

LEMMA StepLeaveBoth ==
  ASSUME NEW p, NEW q, Pair(p, q), TypeOK, PairInv(p, q), LeaveBoth(p)
  PROVE  TypeOK' /\ PairInv(p, q)'
<1>1. TypeOK'
  BY SwapAssumption DEF TypeOK, PairInv, Counted, Pair, LeaveBoth, Goto, OutMax, InMax, Lesser, args, counts, None
<1>2. InStep(p, q)'
  BY SwapAssumption DEF TypeOK, PairInv, Pair, Counted, InStep, Announced, Arrived, Stored, Unilateral, LeaveBoth, Goto, OutMax, InMax, Lesser, args, counts, None
<1>4. pc[q] # "bothRecv"
  BY DEF TypeOK, PairInv, Pair, InStep, Counted, Arrived, Stored, LeaveBoth
<1>5. InStep(q, p)'
  BY <1>4 DEF TypeOK, PairInv, Pair, InStep, Announced, LeaveBoth, Goto, OutMax, Lesser, args, counts
<1>3. Counted(p, q)' /\ Counted(q, p)'
  BY SwapAssumption DEF TypeOK, PairInv, Pair, InStep, Announced, Counted, Arrived, Stored, Unilateral, LeaveBoth, Goto, OutMax, InMax, Lesser, args, counts, None
<1> QED
  BY <1>1, <1>2, <1>3, <1>5 DEF PairInv

LEMMA StepSendOne ==
  ASSUME NEW p, NEW q, Pair(p, q), TypeOK, PairInv(p, q), SendOne(p)
  PROVE  TypeOK' /\ PairInv(p, q)'
<1>1. TypeOK'
  BY SwapAssumption DEF TypeOK, PairInv, Counted, Pair, SendOne, Goto, Post, OutMax, InMax, Lesser, args, counts, None
<1>2. InStep(p, q)' /\ InStep(q, p)'
  BY SwapAssumption DEF TypeOK, PairInv, Pair, Counted, InStep, Announced, Arrived, Stored, Unilateral, SendOne, Goto, Post, OutMax, InMax, Lesser, args, counts, None
<1>3. Counted(p, q)' /\ Counted(q, p)'
  BY SwapAssumption DEF TypeOK, PairInv, Pair, InStep, Announced, Counted, Arrived, Stored, Unilateral, SendOne, Goto, Post, OutMax, InMax, Lesser, args, counts, None
<1> QED
  BY <1>1, <1>2, <1>3 DEF PairInv

LEMMA StepSendOneDone ==
  ASSUME NEW p, NEW q, Pair(p, q), TypeOK, PairInv(p, q), SendOneDone(p)
  PROVE  TypeOK' /\ PairInv(p, q)'
<1>1. TypeOK'
  BY SwapAssumption DEF TypeOK, PairInv, Counted, Pair, SendOneDone, Goto, Taken, Sent, OutMax, InMax, Lesser, args, counts, None
<1>2. InStep(p, q)' /\ InStep(q, p)'
  BY SwapAssumption DEF TypeOK, PairInv, Pair, Counted, InStep, Announced, Arrived, Stored, Unilateral, SendOneDone, Goto, Taken, Sent, OutMax, InMax, Lesser, args, counts, None
<1>m. OutMax(p) \in 1..nOutBytes[p] /\ OutMax(p) <= nOutBufBytes[p] /\ OutMax(p) \in Nat
  BY SwapAssumption DEF TypeOK, PairInv, Pair, Counted, SendOneDone, OutMax, Lesser
<1>3. Counted(p, q)'
  <2> DEFINE a == OutMax(p)
  <2>1. a \in Nat /\ a <= nOutBytes[p] /\ a <= nOutBufBytes[p]
    BY <1>m DEF TypeOK, Pair
  <2>2. Stored(q)' = Stored(q)
    BY DEF Pair, TypeOK, Stored, InMax, Lesser, SendOneDone, Goto, Sent
  <2>3. Arrived(p)' = snd[p] + a /\ Arrived(p) = snd[p] + a
    BY <2>1 DEF Pair, TypeOK, Arrived, SendOneDone, Sent, Taken, Goto
  <2>4. /\ snd'[p] = snd[p] + a /\ rcv'[p] = rcv[p]
        /\ nOutBytes'[p] = nOutBytes[p] - a /\ nInBytes'[p] = nInBytes[p]
        /\ nBufBytes'[p] = nBufBytes[p] /\ nOutBufBytes'[p] = nOutBufBytes[p] - a
        /\ pc'[p] = "send" /\ pc[p] = "sendWait" /\ nBuf0' = nBuf0 /\ nOut0' = nOut0
    BY DEF Pair, TypeOK, SendOneDone, Sent, Goto, args
  <2>5. Counted(p, q)
    BY DEF PairInv
  <2> HIDE DEF a
  <2> QED
    BY <2>1, <2>2, <2>3, <2>4, <2>5 DEF Counted, Pair, TypeOK, Unilateral
<1>4. Counted(q, p)'
  BY SwapAssumption DEF TypeOK, PairInv, Pair, InStep, Announced, Counted, Arrived, Stored, Unilateral, SendOneDone, Goto, Taken, Sent, OutMax, InMax, Lesser, args, counts, None
<1> QED
  BY <1>1, <1>2, <1>3, <1>4 DEF PairInv

LEMMA StepLeaveSend ==
  ASSUME NEW p, NEW q, Pair(p, q), TypeOK, PairInv(p, q), LeaveSend(p)
  PROVE  TypeOK' /\ PairInv(p, q)'
<1>1. TypeOK'
  BY SwapAssumption DEF TypeOK, PairInv, Counted, Pair, LeaveSend, Goto, OutMax, InMax, Lesser, args, counts, None
<1>2. InStep(p, q)' /\ InStep(q, p)'
  BY SwapAssumption DEF TypeOK, PairInv, Pair, Counted, InStep, Announced, Arrived, Stored, Unilateral, LeaveSend, Goto, OutMax, InMax, Lesser, args, counts, None
<1>3. Counted(p, q)' /\ Counted(q, p)'
  BY SwapAssumption DEF TypeOK, PairInv, Pair, InStep, Announced, Counted, Arrived, Stored, Unilateral, LeaveSend, Goto, OutMax, InMax, Lesser, args, counts, None
<1> QED
  BY <1>1, <1>2, <1>3 DEF PairInv

LEMMA StepRecvOne ==
  ASSUME NEW p, NEW q, Pair(p, q), TypeOK, PairInv(p, q), RecvOne(p)
  PROVE  TypeOK' /\ PairInv(p, q)'
<1>1. TypeOK'
  BY SwapAssumption DEF TypeOK, PairInv, Counted, Pair, RecvOne, Goto, Take, Received, OutMax, InMax, Lesser, args, counts, None
<1>2. InStep(p, q)' /\ InStep(q, p)'
  BY SwapAssumption DEF TypeOK, PairInv, Pair, Counted, InStep, Announced, Arrived, Stored, Unilateral, RecvOne, Goto, Take, Received, OutMax, InMax, Lesser, args, counts, None
<1>m. InMax(p) \in 1..nInBytes[p] /\ InMax(p) <= nBufBytes[p] /\ InMax(p) \in Nat
  BY SwapAssumption DEF TypeOK, PairInv, Pair, Counted, RecvOne, InMax, Lesser
<1>s. pc[q] = "sendWait" /\ chan[p] = None
  BY DEF TypeOK, PairInv, Pair, InStep, Announced, RecvOne, Take
<1>e. OutMax(q) = InMax(p)
  BY <1>s DEF TypeOK, PairInv, Pair, Counted, RecvOne, Take, OutMax, InMax, Lesser, Arrived, Stored
<1> DEFINE b == InMax(p)
<1>a. /\ snd' = snd /\ nOutBytes' = nOutBytes /\ nOutBufBytes' = nOutBufBytes /\ pc' = pc
      /\ pc[p] = "recv" /\ nBuf0' = nBuf0 /\ nOut0' = nOut0
      /\ rcv'[p] = rcv[p] + b /\ rcv'[q] = rcv[q]
      /\ nInBytes'[p] = nInBytes[p] - b /\ nInBytes'[q] = nInBytes[q]
      /\ nBufBytes'[p] = nBufBytes[p] - b /\ nBufBytes'[q] = nBufBytes[q]
      /\ chan[q] # None /\ chan'[q] = None /\ chan'[p] = None
  BY <1>s DEF Pair, TypeOK, RecvOne, Received, Take, args, None
<1>b. b \in Nat /\ b <= nInBytes[p] /\ b <= nBufBytes[p]
  BY <1>m DEF TypeOK, Pair
<1>o. OutMax(q)' = b
  BY <1>a, <1>e DEF OutMax, Lesser
<1> HIDE DEF b
<1>3. Counted(p, q)'
  <2>1. Arrived(p)' = Arrived(p) /\ Stored(q)' = Stored(q)
    BY <1>a, <1>s DEF Arrived, Stored
  <2>2. Counted(p, q)
    BY DEF PairInv
  <2> QED
    BY <1>a, <1>b, <2>1, <2>2 DEF Counted, Pair, TypeOK, Unilateral
<1>4. Counted(q, p)'
  <2>1. Arrived(q)' = snd[q] + b /\ Arrived(q) = snd[q]
    BY <1>a, <1>s, <1>o DEF Arrived, Pair, TypeOK
  <2>2. Stored(p)' = rcv[p] + b /\ Stored(p) = rcv[p]
    BY <1>a, <1>b DEF Stored, Pair, TypeOK
  <2>3. Counted(q, p)
    BY DEF PairInv
  <2> QED
    BY <1>a, <1>s, <1>b, <2>1, <2>2, <2>3 DEF Counted, Pair, TypeOK, Unilateral
<1> QED
  BY <1>1, <1>2, <1>3, <1>4 DEF PairInv

LEMMA StepReturn ==
  ASSUME NEW p, NEW q, Pair(p, q), TypeOK, PairInv(p, q), Return(p)
  PROVE  TypeOK' /\ PairInv(p, q)'
<1>1. TypeOK'
  BY SwapAssumption DEF TypeOK, PairInv, Counted, Pair, Return, Goto, OutMax, InMax, Lesser, args, counts, None
<1>2. InStep(p, q)'
  BY SwapAssumption DEF TypeOK, PairInv, Pair, Counted, InStep, Announced, Arrived, Stored, Unilateral, Return, Goto, OutMax, InMax, Lesser, args, counts, None
<1>4. ASSUME pc[q] = "sendWait", chan[q] # None PROVE FALSE
  <2>1. snd[q] = rcv[p]
    BY <1>4 DEF TypeOK, Pair, PairInv, Counted, Arrived, Stored, Return
  <2>2. /\ nOutBytes[q] = nOut0[q] - snd[q] /\ nOutBufBytes[q] = nBuf0[p] - snd[q]
        /\ nInBytes[p] = nOut0[q] - rcv[p] /\ nBufBytes[p] = nBuf0[p] - rcv[p]
        /\ nOutBytes[q] > 0 /\ nOutBufBytes[q] > 0
    BY <1>4 DEF PairInv, Counted, Return
  <2> QED
    BY <2>1, <2>2 DEF Return, TypeOK, Pair
<1>5. InStep(q, p)'
  BY <1>4 DEF TypeOK, PairInv, Pair, InStep, Announced, Return, Goto, OutMax, Lesser, args, counts
<1>3. Counted(p, q)' /\ Counted(q, p)'
  <2>1. /\ pc[p] = "recv" /\ pc' = [pc EXCEPT ![p] = "done"] /\ q # p
        /\ UNCHANGED <<nOut0, nBuf0, nOutBytes, nBufBytes, nInBytes, nOutBufBytes, snd, rcv, chan>>
    BY DEF Return, Goto, Pair, args, counts
  <2>2. pc'[p] = "done" /\ pc'[q] = pc[q]
    BY <2>1 DEF TypeOK, Pair
  <2>3. Arrived(p)' = Arrived(p) /\ Stored(p)' = Stored(p) /\ Arrived(q)' = Arrived(q) /\ Stored(q)' = Stored(q)
    BY <2>1, <2>2 DEF Arrived, Stored, OutMax, InMax, Lesser
  <2>4. pc[q] \in Unilateral => pc'[q] \in Unilateral
    BY <2>2
  <2> QED
    <3>1. Counted(p, q) /\ Counted(q, p)
      BY DEF PairInv
    <3>2. Counted(q, p)'
      BY <2>1, <2>2, <2>3, <2>4, <3>1 DEF Counted
    <3>3. nInBytes[p] = 0 \/ nBufBytes[p] = 0
      BY DEF Return
    <3>4. Counted(p, q)'
      BY <2>1, <2>2, <2>3, <3>1, <3>3 DEF Counted, Unilateral
    <3> QED
      BY <3>2, <3>4
<1> QED
  BY <1>1, <1>2, <1>3, <1>5 DEF PairInv

LEMMA ProtocolStep == ProtocolInv /\ [Next]_vars => ProtocolInv'
<1> SUFFICES ASSUME ProtocolInv, [Next]_vars PROVE ProtocolInv'
  OBVIOUS
<1>t. TypeOK
  BY DEF ProtocolInv
<1>1. ASSUME NEW p \in Side, Step(p) PROVE ProtocolInv'
  <2> DEFINE q == Opp(p)
  <2>1. Pair(p, q)
    BY PlacePairs
  <2>2. PairInv(p, q)
    BY <1>t, <2>1, PairwiseInv
  <2> HIDE DEF q
  <2>3. TypeOK' /\ PairInv(p, q)'
    BY <1>1, <1>t, <2>1, <2>2, StepSendInit, StepRecvInit, StepInitDone, StepSendBoth, StepRecvBoth,
       StepBothDone, StepLeaveBoth, StepSendOne, StepSendOneDone, StepLeaveSend, StepRecvOne,
       StepReturn DEF Step
  <2>4. \A r \in Side : r = p \/ r = q
    BY PlacePairs DEF q
  <2> QED
    BY <2>1, <2>3, <2>4 DEF ProtocolInv, PairInv, Pair
<1>2. CASE UNCHANGED vars
  BY <1>2 DEF ProtocolInv, TypeOK, InStep, Announced, Counted, Arrived, Stored, OutMax, InMax,
              vars, args, counts
<1> QED
  BY <1>1, <1>2 DEF Next

LEMMA ProtocolInit == Init => ProtocolInv
BY SwapAssumption DEF Init, ProtocolInv, TypeOK, InStep, Announced, Counted, Arrived, Stored,
                      Unilateral, Side, Opp, None

\* The positions and counters of the two sides stay in step for ever.
LEMMA ProtocolInvariant == Spec => []ProtocolInv
BY ProtocolInit, ProtocolStep, PTL DEF Spec

\* Type correctness of Swap.
THEOREM SwapTypes == Spec => []TypeOK
<1>1. ProtocolInv => TypeOK
  BY DEF ProtocolInv
<1> QED
  BY <1>1, ProtocolInvariant, PTL

\* Each chunk is received with the length it was sent with, though the length is
\* computed on both sides (assert(nBytes == nInMax) in Swap).
THEOREM ChunksAgree == Spec => []LengthsAgree
<1>1. ProtocolInv => LengthsAgree
  <2> SUFFICES ASSUME ProtocolInv, NEW p \in Side,
                      pc[p] \in {"bothRecv", "recv"}, chan[Opp(p)] # None
               PROVE  chan[Opp(p)] = InMax(p)
    BY DEF LengthsAgree
  <2> DEFINE q == Opp(p)
  <2>1. Pair(p, q) /\ TypeOK
    BY PlacePairs DEF ProtocolInv
  <2>2. PairInv(p, q)
    BY <2>1, PairwiseInv
  <2> HIDE DEF q
  <2>3. pc[q] \in {"bothRecv", "bothWait", "sendWait"} /\ chan[q] = OutMax(q)
    BY <2>1, <2>2 DEF Pair, PairInv, InStep, Announced, TypeOK, q
  <2>4. snd[q] = rcv[p]
    BY <2>1, <2>2, <2>3 DEF Pair, PairInv, Counted, Arrived, Stored, TypeOK
  <2>5. OutMax(q) = InMax(p)
    BY <2>1, <2>2, <2>3, <2>4 DEF Pair, PairInv, Counted, OutMax, InMax, TypeOK
  <2> QED
    BY <2>3, <2>5 DEF q
<1> QED
  BY <1>1, ProtocolInvariant, PTL

\* When both have returned, one of them has sent everything, one that has not
\* has received everything, and they agree on the outcome (the comments on Swap).
THEOREM SwapGuarantee == Spec => []Guarantee
<1>1. ProtocolInv => Guarantee
  <2> SUFFICES ASSUME ProtocolInv, Finished
               PROVE  /\ \A p \in Side : snd[p] = rcv[Opp(p)] /\ snd[p] = Lesser(nOut0[p], nBuf0[Opp(p)])
                      /\ \E p \in Side : nOutBytes[p] = 0
                      /\ \A p \in Side : nOutBytes[p] > 0 => nInBytes[p] = 0
                      /\ Result(0) = Result(1)
    BY DEF Guarantee
  <2>1. /\ TypeOK /\ pc[0] = "done" /\ pc[1] = "done"
        /\ Counted(0, 1) /\ Counted(1, 0)
    BY DEF ProtocolInv, Finished, Side, Opp
  <2>2. \A p \in Side : snd[p] = rcv[Opp(p)]
    BY <2>1 DEF Counted, Arrived, Stored, Side, Opp, TypeOK
  <2>3. \A p \in Side :
          /\ nOutBytes[p] = nOut0[p] - snd[p] /\ nBufBytes[p] = nBuf0[p] - rcv[p]
          /\ nInBytes[p] = nOut0[Opp(p)] - rcv[p] /\ nOutBufBytes[p] = nBuf0[Opp(p)] - snd[p]
          /\ nOutBytes[p] = 0 \/ nInBytes[p] = 0
          /\ nOutBytes[p] = 0 \/ nOutBufBytes[p] = 0
    BY <2>1 DEF Counted, Side, Opp, Unilateral
  <2> QED
    BY <2>1, <2>2, <2>3 DEF TypeOK, Side, Opp, Lesser, Result
<1> QED
  BY <1>1, ProtocolInvariant, PTL
\* Seen from outside a swap is one exchange: it starts with nothing moved, and the
\* step that lets the second side return moves everything SwapAtomic says.
THEOREM SwapIsOneExchange == Spec => Atomic!Init /\ [][Atomic!Exchange]_(Atomic!vars)
<1>1. Init => Atomic!Init
  BY DEF Init, Atomic!Init, Finished, Side, Atomic!Side
<1>2. ProtocolInv /\ ProtocolInv' /\ Guarantee' /\ [Next]_vars => [Atomic!Exchange]_(Atomic!vars)
  <2> SUFFICES ASSUME ProtocolInv, ProtocolInv', Guarantee', [Next]_vars
               PROVE  [Atomic!Exchange]_(Atomic!vars)
    OBVIOUS
  <2>1. nBuf0' = nBuf0 /\ nOut0' = nOut0
    BY DEF Next, Step, SendInit, RecvInit, InitDone, SendBoth, RecvBoth, BothDone, LeaveBoth, SendOne,
           SendOneDone, LeaveSend, RecvOne, Return, args, vars
  <2>2. CASE Finished
    <3>1. UNCHANGED vars
      BY <2>2 DEF Finished, Next, Step, SendInit, RecvInit, InitDone, SendBoth, RecvBoth, BothDone,
                  LeaveBoth, SendOne, SendOneDone, LeaveSend, RecvOne, Return
    <3> QED
      BY <2>1, <2>2, <3>1 DEF vars, counts, args, Finished, Atomic!vars
  <2>3. CASE ~Finished /\ ~Finished'
    <3>1. [p \in Side |-> IF Finished THEN rcv[Opp(p)] ELSE 0] = [p \in Side |-> 0]
      BY <2>3
    <3>2. [p \in Side |-> IF Finished THEN rcv[Opp(p)] ELSE 0]' = [p \in Side |-> 0]
      BY <2>3
    <3>3. Finished' = Finished
      BY <2>3 DEF Finished
    <3> QED
      BY <2>1, <3>1, <3>2, <3>3 DEF Atomic!vars
  <2>4. CASE ~Finished /\ Finished'
    <3>1. \A p \in Side : snd'[p] = rcv'[Opp(p)] /\ snd'[p] = Lesser(nOut0[p], nBuf0[Opp(p)])
      BY <2>1, <2>4 DEF Guarantee, Lesser
    <3>2. \A p \in Side : rcv'[Opp(p)] = Atomic!Transfer(nOut0[p], nBuf0[Opp(p)])
      BY <3>1 DEF Lesser, Atomic!Transfer
    <3> QED
      BY <2>1, <2>4, <3>2 DEF Atomic!Exchange, Atomic!vars, Atomic!Side, Atomic!Opp, Side, Opp
  <2> QED
    BY <2>2, <2>3, <2>4
<1> QED
  BY <1>1, <1>2, ProtocolInvariant, SwapGuarantee, PTL DEF Spec

------------------------------------------------------------------------------
(* The contents of the buffers *)

PairBytes(p, q) == Functions /\ Bytes(p, q) /\ Bytes(q, p)

\* A chunk in both directions: the room that remains covers what remains to be
\* sent, so storing the chunk does not reach the unsent bytes.
LEMMA ChunkFits ==
  ASSUME NEW p, NEW q, Pair(p, q), TypeOK, PairInv(p, q), pc[p] \in {"bothRecv", "bothWait"}
  PROVE  /\ OutMax(p) \in Nat /\ InMax(p) \in Nat
         /\ rcv[p] + InMax(p) <= nBuf0[p] - nOut0[p] + snd[p] + OutMax(p)
         /\ rcv[p] + InMax(p) <= nBuf0[p]
         /\ snd[p] + OutMax(p) <= nOut0[p]
BY SwapAssumption DEF Pair, TypeOK, PairInv, Counted, OutMax, InMax, Lesser

\* What a receive leaves in the buffers.
LEMMA StoreEffect ==
  ASSUME NEW p, NEW q, Pair(p, q), Functions, NEW n \in Nat, Store(p, n)
  PROVE  /\ mem'[q] = mem[q]
         /\ mem' = [r \in Side |-> mem'[r]]
         /\ \A i \in 0..(nBuf0[p] - 1) :
              mem'[p][i] = IF i >= rcv[p] /\ i < rcv[p] + n THEN Incoming(p, i - rcv[p]) ELSE mem[p][i]
<1> DEFINE new == [i \in 0..(nBuf0[p] - 1) |->
                     IF i >= rcv[p] /\ i < rcv[p] + n THEN Incoming(p, i - rcv[p]) ELSE mem[p][i]]
<1>1. mem' = [mem EXCEPT ![p] = new]
  BY DEF Store
<1>2. \A i \in 0..(nBuf0[p] - 1) :
        new[i] = IF i >= rcv[p] /\ i < rcv[p] + n THEN Incoming(p, i - rcv[p]) ELSE mem[p][i]
  OBVIOUS
<1> HIDE DEF new
<1>3. mem'[p] = new /\ mem'[q] = mem[q] /\ mem' = [r \in Side |-> mem'[r]]
  BY <1>1 DEF Functions, Pair
<1> QED
  BY <1>2, <1>3

\* Steps that neither store bytes nor copy them leave the contents alone; what
\* counts as gone or stored does not grow beyond what is so already.
LEMMA BytesKept ==
  ASSUME NEW p, NEW q, Pair(p, q), PairBytes(p, q), mem' = mem, pszTrans' = pszTrans,
         nBuf0' = nBuf0, nOut0' = nOut0,
         Gone(p) \in Int, Gone(q) \in Int, Gone(p)' \in Int, Gone(q)' \in Int,
         Stored(p) \in Int, Stored(q) \in Int, Stored(p)' \in Int, Stored(q)' \in Int,
         Gone(p)' >= Gone(p), Gone(q)' >= Gone(q),
         Stored(p)' <= Stored(p), Stored(q)' <= Stored(q),
         InTransit(p)', InTransit(q)'
  PROVE  PairBytes(p, q)'
<1>1. Unsent(p)' /\ Unsent(q)'
  BY DEF PairBytes, Bytes, Unsent
<1>2. StoredBytes(p, q)' /\ StoredBytes(q, p)'
  BY DEF PairBytes, Bytes, StoredBytes
<1>3. Functions'
  BY DEF PairBytes, Functions
<1> QED
  BY <1>1, <1>2, <1>3 DEF PairBytes, Bytes

LEMMA BytesSendBoth ==
  ASSUME NEW p, NEW q, Pair(p, q), TypeOK, PairInv(p, q), TypeOK', PairInv(p, q)', PairBytes(p, q), SendBoth(p)
  PROVE  PairBytes(p, q)'
<1>1. OutMax(p) \in Nat /\ OutMax(p) <= Trans /\ OutMax(p) <= nOutBytes[p] /\ OutMax(p)' = OutMax(p)
  BY SwapAssumption DEF Pair, TypeOK, SendBoth, OutMax, Lesser, counts
<1>2. /\ mem' = mem /\ snd' = snd /\ rcv' = rcv /\ nBuf0' = nBuf0 /\ nOut0' = nOut0
      /\ nOutBytes' = nOutBytes /\ nInBytes' = nInBytes
      /\ nBufBytes' = nBufBytes /\ nOutBufBytes' = nOutBufBytes
      /\ pc[p] = "both" /\ pc'[p] = "bothRecv" /\ pc'[q] = pc[q] /\ chan'[q] = chan[q]
      /\ pszTrans'[p] = OutChunk(p) /\ pszTrans'[q] = pszTrans[q]
      /\ pszTrans' = [r \in Side |-> pszTrans'[r]]
  BY DEF Pair, TypeOK, SendBoth, Goto, Post, args, counts, PairBytes, Functions
<1>3. \A i \in Nat : i < OutMax(p) => pszTrans'[p][i] = <<p, snd[p] + i>>
  <2> SUFFICES ASSUME NEW i \in Nat, i < OutMax(p) PROVE pszTrans'[p][i] = <<p, snd[p] + i>>
    OBVIOUS
  <2>1. pszTrans'[p][i] = mem[p][OutPos(p) + i]
    BY <1>1, <1>2, SwapAssumption DEF OutChunk
  <2>2. Gone(p) = snd[p] /\ snd[p] \in Nat /\ snd[p] + i < nOut0[p]
    BY <1>1, <1>2 DEF Pair, TypeOK, Gone, PairInv, Counted
  <2>3. OutPos(p) + i = nBuf0[p] - nOut0[p] + (snd[p] + i)
    BY <2>2 DEF OutPos, Pair, TypeOK
  <2>4. Unsent(p)
    BY DEF PairBytes, Bytes
  <2> QED
    BY <2>1, <2>2, <2>3, <2>4 DEF Unsent
<1>4. InTransit(p)'
  BY <1>1, <1>2, <1>3 DEF InTransit
<1>5. InTransit(q)'
  BY <1>2 DEF PairBytes, Bytes, InTransit, OutMax
<1>6. StoredBytes(p, q)' /\ StoredBytes(q, p)'
  BY <1>2 DEF PairBytes, Bytes, StoredBytes, Stored, InMax
<1>7. Unsent(q)'
  BY <1>2 DEF PairBytes, Bytes, Unsent, Gone, OutMax
<1>8. Unsent(p)'
  <2>1. Gone(p)' = Gone(p) + OutMax(p) /\ Gone(p) \in Nat
    BY <1>1, <1>2 DEF Gone, Pair, TypeOK
  <2> QED
    BY <1>1, <1>2, <2>1 DEF PairBytes, Bytes, Unsent
<1> QED
  BY <1>2, <1>4, <1>5, <1>6, <1>7, <1>8 DEF PairBytes, Bytes, Functions

LEMMA BytesRecvBoth ==
  ASSUME NEW p, NEW q, Pair(p, q), TypeOK, PairInv(p, q), TypeOK', PairInv(p, q)', PairBytes(p, q), RecvBoth(p)
  PROVE  PairBytes(p, q)'
<1>1. /\ snd' = snd /\ rcv' = rcv /\ nBuf0' = nBuf0 /\ nOut0' = nOut0 /\ pszTrans' = pszTrans
      /\ nOutBytes' = nOutBytes /\ nInBytes' = nInBytes
      /\ nBufBytes' = nBufBytes /\ nOutBufBytes' = nOutBufBytes
      /\ pc[p] = "bothRecv" /\ pc'[p] = "bothWait" /\ pc'[q] = pc[q]
      /\ chan[q] # None /\ chan'[q] = None /\ chan'[p] = chan[p]
      /\ Store(p, InMax(p))
  BY DEF Pair, TypeOK, RecvBoth, Take, Goto, args, counts
<1>2. /\ OutMax(p) \in Nat /\ InMax(p) \in Nat
      /\ rcv[p] + InMax(p) <= nBuf0[p] - nOut0[p] + snd[p] + OutMax(p)
      /\ rcv[p] + InMax(p) <= nBuf0[p] /\ rcv[p] \in Nat /\ snd[p] \in Nat
      /\ nBuf0[p] \in Nat /\ nOut0[p] \in Nat /\ nOut0[p] <= nBuf0[p]
  BY <1>1, ChunkFits DEF Pair, TypeOK
<1>3. pc[q] \in {"bothRecv", "bothWait"}
  BY <1>1 DEF PairInv, InStep, Pair, TypeOK
<1>4. snd[q] = rcv[p] /\ OutMax(q) = InMax(p)
  <2>1. snd[q] = rcv[p]
    BY <1>1, <1>3 DEF Pair, PairInv, Counted, Arrived, Stored, TypeOK
  <2> QED
    BY <1>1, <1>3, <2>1 DEF Pair, PairInv, Counted, OutMax, InMax, TypeOK
<1>5. \A i \in Nat : i < InMax(p) => Incoming(p, i) = <<q, rcv[p] + i>>
  BY <1>1, <1>3, <1>4 DEF Incoming, Pair, PairBytes, Bytes, InTransit
<1>6. /\ mem'[q] = mem[q]
      /\ mem' = [r \in Side |-> mem'[r]]
      /\ \A i \in 0..(nBuf0[p] - 1) :
           mem'[p][i] = IF i >= rcv[p] /\ i < rcv[p] + InMax(p) THEN Incoming(p, i - rcv[p]) ELSE mem[p][i]
  BY <1>1, <1>2, StoreEffect DEF PairBytes
<1>7. /\ Stored(p) = rcv[p] /\ Stored(p)' = rcv[p] + InMax(p)
      /\ Gone(p) = snd[p] + OutMax(p) /\ Gone(p)' = Gone(p)
      /\ Gone(q)' = Gone(q) /\ Stored(q)' = Stored(q)
      /\ OutMax(p)' = OutMax(p)
  BY <1>1, <1>2 DEF Stored, Gone, OutMax, InMax, Pair, TypeOK
<1>8. StoredBytes(p, q)'
  <2> SUFFICES ASSUME NEW i \in Nat, i < rcv[p] + InMax(p) PROVE mem'[p][i] = <<q, i>>
    BY <1>7 DEF StoredBytes
  <2>1. i \in 0..(nBuf0[p] - 1)
    BY <1>2
  <2>2. CASE i < rcv[p]
    BY <1>2, <1>6, <1>7, <2>1, <2>2 DEF PairBytes, Bytes, StoredBytes
  <2>3. CASE i >= rcv[p]
    <3>1. i - rcv[p] \in Nat /\ i - rcv[p] < InMax(p) /\ rcv[p] + (i - rcv[p]) = i
      BY <1>2, <2>3
    <3> QED
      BY <1>5, <1>6, <2>1, <2>3, <3>1
  <2> QED
    BY <1>2, <2>2, <2>3
<1>9. Unsent(p)'
  <2> SUFFICES ASSUME NEW k \in Nat, k >= Gone(p), k < nOut0[p]
               PROVE  mem'[p][nBuf0[p] - nOut0[p] + k] = <<p, k>>
    BY <1>1, <1>7 DEF Unsent
  <2> DEFINE i == nBuf0[p] - nOut0[p] + k
  <2>1. i \in 0..(nBuf0[p] - 1) /\ i >= rcv[p] + InMax(p)
    BY <1>2, <1>7
  <2>2. mem'[p][i] = mem[p][i]
    BY <1>2, <1>6, <2>1
  <2> QED
    BY <2>2 DEF PairBytes, Bytes, Unsent
<1>10. Unsent(q)' /\ StoredBytes(q, p)'
  BY <1>1, <1>6, <1>7 DEF PairBytes, Bytes, Unsent, StoredBytes
<1>11. InTransit(p)' /\ InTransit(q)'
  BY <1>1, <1>7 DEF PairBytes, Bytes, InTransit
<1> QED
  BY <1>1, <1>6, <1>8, <1>9, <1>10, <1>11 DEF PairBytes, Bytes, Functions

LEMMA BytesRecvOne ==
  ASSUME NEW p, NEW q, Pair(p, q), TypeOK, PairInv(p, q), TypeOK', PairInv(p, q)', PairBytes(p, q), RecvOne(p)
  PROVE  PairBytes(p, q)'
<1>1. /\ snd' = snd /\ nBuf0' = nBuf0 /\ nOut0' = nOut0 /\ pszTrans' = pszTrans /\ pc' = pc
      /\ nOutBytes' = nOutBytes /\ nOutBufBytes' = nOutBufBytes
      /\ pc[p] = "recv" /\ chan[q] # None /\ chan'[p] = chan[p]
      /\ rcv'[p] = rcv[p] + InMax(p) /\ rcv'[q] = rcv[q]
      /\ nBufBytes'[q] = nBufBytes[q] /\ nInBytes'[q] = nInBytes[q]
      /\ nInBytes[p] > 0
      /\ Store(p, InMax(p))
  BY DEF Pair, TypeOK, RecvOne, Received, Take, args
<1>2. pc[q] = "sendWait" /\ chan[p] = None
  BY <1>1 DEF TypeOK, PairInv, Pair, InStep, Announced
<1>3. /\ InMax(p) \in Nat /\ rcv[p] + InMax(p) <= nBuf0[p] /\ rcv[p] + InMax(p) <= nOut0[q]
      /\ nBuf0[p] \in Nat /\ nOut0[p] \in Nat /\ nOut0[p] <= nBuf0[p] /\ rcv[p] \in Nat
      /\ snd[p] = nOut0[p]
  <2>1. /\ nInBytes[p] \in Nat /\ nBufBytes[p] \in Nat /\ snd[p] \in Nat /\ rcv[p] \in Nat
        /\ nBuf0[p] \in Nat /\ nOut0[p] \in Nat /\ nOut0[p] <= nBuf0[p] /\ nOut0[q] \in Nat
    BY DEF Pair, TypeOK
  <2>2. InMax(p) \in Nat /\ InMax(p) <= nInBytes[p] /\ InMax(p) <= nBufBytes[p]
    BY <2>1, SwapAssumption DEF InMax, Lesser
  <2>3. /\ nInBytes[p] = nOut0[q] - rcv[p] /\ nBufBytes[p] = nBuf0[p] - rcv[p]
        /\ nOutBytes[p] = nOut0[p] - snd[p] /\ nOutBytes[p] = 0
    BY <1>1, <2>1 DEF PairInv, Counted, Unilateral
  <2> QED
    BY <2>1, <2>2, <2>3
<1>4. snd[q] = rcv[p] /\ Gone(q) = rcv[p]
  BY <1>1, <1>2 DEF Pair, PairInv, Counted, Arrived, Stored, Gone, TypeOK
<1>5. \A i \in Nat : i < InMax(p) => Incoming(p, i) = <<q, rcv[p] + i>>
  <2> SUFFICES ASSUME NEW i \in Nat, i < InMax(p) PROVE Incoming(p, i) = <<q, rcv[p] + i>>
    OBVIOUS
  <2>1. Incoming(p, i) = mem[q][OutPos(q) + i]
    BY <1>2 DEF Incoming, Pair
  <2>2. OutPos(q) + i = nBuf0[q] - nOut0[q] + (rcv[p] + i) /\ rcv[p] + i \in Nat
        /\ rcv[p] + i < nOut0[q] /\ rcv[p] + i >= Gone(q)
    BY <1>3, <1>4 DEF OutPos, Pair, TypeOK
  <2> QED
    BY <2>1, <2>2 DEF PairBytes, Bytes, Unsent
<1>6. /\ mem'[q] = mem[q]
      /\ mem' = [r \in Side |-> mem'[r]]
      /\ \A i \in 0..(nBuf0[p] - 1) :
           mem'[p][i] = IF i >= rcv[p] /\ i < rcv[p] + InMax(p) THEN Incoming(p, i - rcv[p]) ELSE mem[p][i]
  BY <1>1, <1>3, StoreEffect DEF PairBytes
<1>7. /\ Stored(p) = rcv[p] /\ Stored(p)' = rcv[p] + InMax(p)
      /\ Gone(p)' = nOut0[p]
      /\ Gone(q)' = Gone(q) /\ Stored(q)' = Stored(q)
  BY <1>1, <1>2, <1>3 DEF Stored, Gone, OutMax, InMax, Pair, TypeOK
<1>8. StoredBytes(p, q)'
  <2> SUFFICES ASSUME NEW i \in Nat, i < rcv[p] + InMax(p) PROVE mem'[p][i] = <<q, i>>
    BY <1>7 DEF StoredBytes
  <2>1. i \in 0..(nBuf0[p] - 1)
    BY <1>3
  <2>2. CASE i < rcv[p]
    BY <1>3, <1>6, <1>7, <2>1, <2>2 DEF PairBytes, Bytes, StoredBytes
  <2>3. CASE i >= rcv[p]
    <3>1. i - rcv[p] \in Nat /\ i - rcv[p] < InMax(p) /\ rcv[p] + (i - rcv[p]) = i
      BY <1>3, <2>3
    <3> QED
      BY <1>5, <1>6, <2>1, <2>3, <3>1
  <2> QED
    BY <1>3, <2>2, <2>3
<1>9. Unsent(p)'
  BY <1>1, <1>3, <1>7 DEF Unsent
<1>10. Unsent(q)' /\ StoredBytes(q, p)'
  BY <1>1, <1>6, <1>7 DEF PairBytes, Bytes, Unsent, StoredBytes
<1>11. InTransit(p)' /\ InTransit(q)'
  BY <1>1, <1>2 DEF InTransit
<1> QED
  BY <1>1, <1>6, <1>8, <1>9, <1>10, <1>11 DEF PairBytes, Bytes, Functions
LEMMA BytesOther ==
  ASSUME NEW p, NEW q, Pair(p, q), TypeOK, PairInv(p, q), TypeOK', PairInv(p, q)', PairBytes(p, q),
         SendInit(p) \/ RecvInit(p) \/ InitDone(p) \/ BothDone(p) \/ LeaveBoth(p) \/ SendOne(p)
           \/ SendOneDone(p) \/ LeaveSend(p) \/ Return(p)
  PROVE  PairBytes(p, q)'
<1>1. /\ mem' = mem /\ pszTrans' = pszTrans /\ nBuf0' = nBuf0 /\ nOut0' = nOut0
      /\ pc'[q] = pc[q] /\ snd'[q] = snd[q] /\ rcv'[q] = rcv[q]
      /\ nOutBytes'[q] = nOutBytes[q] /\ nInBytes'[q] = nInBytes[q]
      /\ nBufBytes'[q] = nBufBytes[q] /\ nOutBufBytes'[q] = nOutBufBytes[q]
  BY DEF Pair, TypeOK, SendInit, RecvInit, InitDone, BothDone, LeaveBoth, SendOne, SendOneDone,
         LeaveSend, Return, Goto, Sent, Received, args, counts
<1>2. pc'[p] \notin {"bothRecv", "bothWait"}
  BY DEF Pair, TypeOK, SendInit, RecvInit, InitDone, BothDone, LeaveBoth, SendOne, SendOneDone,
         LeaveSend, Return, Goto
<1>3. chan'[q] = chan[q] \/ chan'[q] = None
  BY DEF Pair, TypeOK, SendInit, RecvInit, InitDone, BothDone, LeaveBoth, SendOne, SendOneDone,
         LeaveSend, Return, Post, Take
<1>4. \A r \in {p, q} : OutMax(r) \in Nat /\ InMax(r) \in Nat /\ snd[r] \in Nat /\ rcv[r] \in Nat
                       /\ snd'[r] \in Nat /\ rcv'[r] \in Nat
  BY SwapAssumption DEF Pair, TypeOK, OutMax, InMax, Lesser
<1>5. OutMax(q)' = OutMax(q) /\ InMax(q)' = InMax(q)
  BY <1>1 DEF OutMax, InMax
<1>6. /\ Gone(q)' = Gone(q) /\ Stored(q)' = Stored(q)
      /\ Gone(q) \in Int /\ Stored(q) \in Int
  BY <1>1, <1>4, <1>5 DEF Gone, Stored
<1>7. /\ Gone(p)' = snd'[p] /\ Stored(p)' = rcv'[p]
      /\ Gone(p) \in Int /\ Stored(p) \in Int
  BY <1>2, <1>4 DEF Gone, Stored
<1>8. snd'[p] >= Gone(p) /\ rcv'[p] <= Stored(p)
  <2>1. CASE BothDone(p)
    BY <2>1, <1>4 DEF BothDone, Sent, Received, Gone, Stored, Pair, TypeOK
  <2>2. CASE SendOneDone(p)
    BY <2>2, <1>4 DEF SendOneDone, Sent, Gone, Stored, Pair, TypeOK
  <2>3. CASE SendInit(p) \/ RecvInit(p) \/ InitDone(p) \/ LeaveBoth(p) \/ SendOne(p) \/ LeaveSend(p) \/ Return(p)
    BY <2>3, <1>4 DEF SendInit, RecvInit, InitDone, LeaveBoth, SendOne, LeaveSend, Return, counts,
                      Gone, Stored
  <2> QED
    BY <2>1, <2>2, <2>3
<1>9. InTransit(p)'
  BY <1>2 DEF InTransit
<1>10. InTransit(q)'
  BY <1>1, <1>3, <1>5 DEF InTransit, PairBytes, Bytes
<1>11. Gone(p)' \in Int /\ Stored(p)' \in Int /\ Gone(p)' >= Gone(p) /\ Stored(p)' <= Stored(p)
  BY <1>4, <1>7, <1>8
<1>12. Gone(q)' \in Int /\ Stored(q)' \in Int /\ Gone(q)' >= Gone(q) /\ Stored(q)' <= Stored(q)
  BY <1>6
<1> QED
  BY <1>1, <1>6, <1>7, <1>9, <1>10, <1>11, <1>12, BytesKept

SwapInv == ProtocolInv /\ Functions /\ \A p \in Side : Bytes(p, Opp(p))

LEMMA SwapInvStep == SwapInv /\ [Next]_vars => SwapInv'
<1> SUFFICES ASSUME SwapInv, [Next]_vars PROVE SwapInv'
  OBVIOUS
<1>t. ProtocolInv /\ ProtocolInv' /\ TypeOK /\ TypeOK'
  BY ProtocolStep DEF SwapInv, ProtocolInv
<1>1. ASSUME NEW p \in Side, Step(p) PROVE SwapInv'
  <2> DEFINE q == Opp(p)
  <2>1. Pair(p, q) /\ \A r \in Side : r = p \/ r = q
    BY PlacePairs
  <2>2. PairInv(p, q) /\ PairBytes(p, q)
    BY <1>t, <2>1, PairwiseInv DEF SwapInv, PairBytes, Pair
  <2>3. PairInv(p, q)'
    BY <1>t, <2>1 DEF ProtocolInv, PairInv, Pair
  <2> HIDE DEF q
  <2>4. PairBytes(p, q)'
    BY <1>1, <1>t, <2>1, <2>2, <2>3, BytesSendBoth, BytesRecvBoth, BytesRecvOne, BytesOther DEF Step
  <2> QED
    BY <1>t, <2>1, <2>4 DEF SwapInv, PairBytes, Pair
<1>2. CASE UNCHANGED vars
  BY <1>2, <1>t DEF SwapInv, Functions, Bytes, Unsent, StoredBytes, InTransit, Gone, Stored, OutMax,
                    InMax, vars, args, counts
<1> QED
  BY <1>1, <1>2 DEF Next

LEMMA SwapInvInit == Init => SwapInv
<1> SUFFICES ASSUME Init PROVE SwapInv
  OBVIOUS
<1>1. ProtocolInv
  BY ProtocolInit
<1>2. Functions
  BY DEF Init, Functions
<1>3. ASSUME NEW p \in Side PROVE Bytes(p, Opp(p))
  <2>1. /\ nBuf0[p] \in Nat /\ nOut0[p] \in Nat /\ nOut0[p] <= nBuf0[p]
        /\ pc[p] = "start" /\ snd[p] = 0 /\ rcv[p] = 0
        /\ mem[p] = [i \in 0..(nBuf0[p] - 1) |->
              IF i >= nBuf0[p] - nOut0[p] THEN <<p, i - (nBuf0[p] - nOut0[p])>> ELSE Free]
    BY SwapAssumption DEF Init
  <2>2. Unsent(p)
    <3> SUFFICES ASSUME NEW k \in Nat, k < nOut0[p]
                 PROVE  mem[p][nBuf0[p] - nOut0[p] + k] = <<p, k>>
      BY DEF Unsent
    <3> DEFINE i == nBuf0[p] - nOut0[p] + k
    <3>1. i \in 0..(nBuf0[p] - 1) /\ i >= nBuf0[p] - nOut0[p] /\ i - (nBuf0[p] - nOut0[p]) = k
      BY <2>1
    <3> QED
      BY <2>1, <3>1
  <2>3. StoredBytes(p, Opp(p)) /\ InTransit(p)
    BY <2>1 DEF StoredBytes, InTransit, Stored
  <2> QED
    BY <2>2, <2>3 DEF Bytes
<1> QED
  BY <1>1, <1>2, <1>3 DEF SwapInv

LEMMA SwapInvariant == Spec => []SwapInv
BY SwapInvInit, SwapInvStep, PTL DEF Spec

\* No byte that has still to be sent is ever overwritten by one that arrives, for
\* any sizes and any chunk length (the in-place exchange of Swap).
THEOREM NothingOverwritten == Spec => []UnsentIntact
<1>1. SwapInv => UnsentIntact
  BY SwapAssumption DEF SwapInv, Bytes, Unsent, UnsentIntact
<1> QED
  BY <1>1, SwapInvariant, PTL

\* What each side has stored is a prefix of what the other had to send.
THEOREM ArrivesInOrder == Spec => []InOrder
<1>1. SwapInv => InOrder
  BY SwapAssumption DEF SwapInv, Bytes, StoredBytes, InOrder
<1> QED
  BY <1>1, SwapInvariant, PTL

------------------------------------------------------------------------------
\* A store holds no negative number of particles of either kind; with the bound on
\* their sum that is inductive.
Counts ==
  /\ nLocal \in [Thread -> Nat]
  /\ nRejects \in [Thread -> Nat]

StoreInv == Counts /\ StoreNeverOverlaps

\* What one thread moves to another is no more than it has, and than the other has room
\* for; one of the two is all that is moved.
LEMMA MovesFit ==
  ASSUME StoreInv, NEW i \in Thread, NEW j \in Thread
  PROVE  /\ Moves(i, j) \in Nat
         /\ Moves(i, j) <= nRejects[i] /\ nLocal[j] + Moves(i, j) <= nStore
         /\ Moves(i, j) = nRejects[i] \/ nLocal[j] + Moves(i, j) = nStore
BY HalvesAssumption
   DEF StoreInv, Counts, StoreNeverOverlaps, Moves, pkdSwapSpace, SwapAmount!Transfer

\* When both threads of a pair have moved what they could, both stores still hold: one
\* that gets more than it sends away fills only room that it had.
LEMMA SwapStep ==
  ASSUME StoreInv, NEW i \in Lower, NEW j \in Upper, SwapRejects(i, j)
  PROVE  StoreInv'
<1> DEFINE there == Moves(i, j)
           back == Moves(j, i)
<1>1. i \in Thread /\ j \in Thread /\ i # j /\ nStore \in Nat
  BY HalvesAssumption DEF Thread
<1>2. /\ there \in Nat /\ there <= nRejects[i] /\ nLocal[j] + there <= nStore
      /\ there = nRejects[i] \/ nLocal[j] + there = nStore
  BY <1>1, MovesFit
<1>3. /\ back \in Nat /\ back <= nRejects[j] /\ nLocal[i] + back <= nStore
      /\ back = nRejects[j] \/ nLocal[i] + back = nStore
  BY <1>1, MovesFit
<1>4. /\ nLocal' = [nLocal EXCEPT ![i] = @ + back, ![j] = @ + there]
      /\ nRejects' = [nRejects EXCEPT ![i] = @ - there, ![j] = @ - back]
  BY DEF SwapRejects
<1> HIDE DEF there, back
<1>5. /\ nLocal \in [Thread -> Nat] /\ nRejects \in [Thread -> Nat]
      /\ \A t \in Thread : nLocal[t] + nRejects[t] <= nStore
  BY DEF StoreInv, Counts, StoreNeverOverlaps
<1>6. Counts'
  BY <1>1, <1>2, <1>3, <1>4, <1>5 DEF Counts
<1>7. nLocal'[i] + nRejects'[i] <= nStore /\ nLocal'[j] + nRejects'[j] <= nStore
  <2>1. /\ nLocal'[i] = nLocal[i] + back /\ nRejects'[i] = nRejects[i] - there
        /\ nLocal'[j] = nLocal[j] + there /\ nRejects'[j] = nRejects[j] - back
    BY <1>1, <1>4, <1>5
  <2>2. /\ nLocal[i] \in Nat /\ nLocal[j] \in Nat /\ nRejects[i] \in Nat /\ nRejects[j] \in Nat
        /\ nLocal[i] + nRejects[i] <= nStore /\ nLocal[j] + nRejects[j] <= nStore
    BY <1>1, <1>5
  <2> QED
    BY <1>1, <1>2, <1>3, <2>1, <2>2
<1>8. \A t \in Thread \ {i, j} : nLocal'[t] = nLocal[t] /\ nRejects'[t] = nRejects[t]
  BY <1>4, <1>5
<1> QED
  BY <1>5, <1>6, <1>7, <1>8 DEF StoreInv, StoreNeverOverlaps

LEMMA StoreStep == StoreInv /\ [RejectsNext]_rejectVars => StoreInv'
<1> SUFFICES ASSUME StoreInv, [RejectsNext]_rejectVars PROVE StoreInv'
  OBVIOUS
<1>1. CASE ColRejects
  <2>1. PICK nSplit \in [Thread -> 0..nStore] :
          /\ \A t \in Thread : nSplit[t] <= nLocal[t]
          /\ nRejects' = [t \in Thread |-> nLocal[t] - nSplit[t]]
          /\ nLocal' = nSplit
    BY <1>1 DEF ColRejects
  <2> QED
    BY <2>1, HalvesAssumption DEF StoreInv, Counts, StoreNeverOverlaps
<1>2. CASE RejMatch \/ Collect \/ UNCHANGED rejectVars
  BY <1>2 DEF RejMatch, Collect, rejectVars, StoreInv, Counts, StoreNeverOverlaps
<1>3. ASSUME NEW i \in Lower, NEW j \in Upper, SwapRejects(i, j) PROVE StoreInv'
  BY <1>3, SwapStep
<1> QED
  BY <1>1, <1>2, <1>3 DEF RejectsNext, Exchange

\* Local particles and rejects never meet in a store, whatever pairs are made and in
\* whatever order they swap (the assertion in pkdSwapRejects).
THEOREM StoresHold == RejectsSpec => []StoreNeverOverlaps
<1>1. RejectsInit => StoreInv
  BY HalvesAssumption DEF RejectsInit, StoreInv, Counts, StoreNeverOverlaps
<1>2. StoreInv /\ [RejectsNext]_rejectVars => StoreInv'
  BY StoreStep
<1>3. StoreInv => StoreNeverOverlaps
  BY DEF StoreInv
<1> QED
  BY <1>1, <1>2, <1>3, PTL DEF RejectsSpec

(***************************************************************************)
(* Sums of particles, as sizes of sets of particles                        *)
(***************************************************************************)

\* A finite set of threads holds finitely many particles.
LEMMA ParticlesFinite ==
  ASSUME NEW S, IsFiniteSet(S), NEW f, NEW m \in Nat, \A t \in S : f[t] \in 0..m
  PROVE  IsFiniteSet(Particles(f, S)) /\ Total(f, S) \in Nat
<1>1. IsFiniteSet(1..m)
  BY FS_Interval
<1>2. IsFiniteSet(S \X (1..m))
  BY <1>1, FS_Product
<1>3. Particles(f, S) \subseteq S \X (1..m)
  BY DEF Particles
<1>4. QED
  BY <1>2, <1>3, FS_Subset, FS_CardinalityType DEF Total

\* The particles of g are those of f and as many more as h says.
LEMMA TotalPlus ==
  ASSUME NEW S, IsFiniteSet(S), NEW m \in Nat, NEW f, NEW g, NEW h,
         \A t \in S : f[t] \in 0..m /\ g[t] \in 0..m /\ h[t] \in 0..m /\ g[t] = f[t] + h[t]
  PROVE  Total(g, S) = Total(f, S) + Total(h, S)
<1> DEFINE more == UNION {{t} \X ((f[t] + 1)..g[t]) : t \in S}
           b == [e \in Particles(h, S) |-> <<e[1], f[e[1]] + e[2]>>]
<1>1. /\ IsFiniteSet(Particles(f, S)) /\ IsFiniteSet(Particles(g, S)) /\ IsFiniteSet(Particles(h, S))
      /\ Total(f, S) \in Nat /\ Total(g, S) \in Nat /\ Total(h, S) \in Nat
  BY ParticlesFinite
<1>2. Particles(g, S) = Particles(f, S) \cup more
  BY DEF Particles
<1>3. Particles(f, S) \cap more = {}
  BY DEF Particles
<1>4. \A e \in Particles(h, S) : e = <<e[1], e[2]>> /\ e[1] \in S /\ e[2] \in 1..h[e[1]]
  BY DEF Particles
<1>5. b \in [Particles(h, S) -> more]
  BY <1>4
<1>6. \A d, e \in Particles(h, S) : b[d] = b[e] => d = e
  BY <1>4
<1>7. \A e \in more : \E d \in Particles(h, S) : b[d] = e
  <2> TAKE e \in more
  <2>0. PICK t \in S : \E k \in (f[t] + 1)..g[t] : e = <<t, k>>
    OBVIOUS
  <2>k. PICK k \in (f[t] + 1)..g[t] : e = <<t, k>>
    BY <2>0
  <2>1. k - f[t] \in 1..h[t]
    OBVIOUS
  <2>2. <<t, k - f[t]>> \in Particles(h, S)
    BY <2>1 DEF Particles
  <2>3. b[<<t, k - f[t]>>] = <<t, k>>
    BY <2>2
  <2>4. QED
    BY <2>k, <2>2, <2>3
<1>8. ExistsBijection(Particles(h, S), more)
  <2> HIDE DEF b, more
  <2>1. b \in Bijection(Particles(h, S), more)
    BY <1>5, <1>6, <1>7 DEF Bijection, Injection, Surjection, IsInjective
  <2>2. QED
    BY <2>1 DEF ExistsBijection
<1>9. IsFiniteSet(more) /\ Cardinality(more) = Total(h, S)
  BY <1>1, <1>8, FS_Bijection DEF Total
<1>10. QED
  <2> HIDE DEF more
  <2>1. Cardinality(Particles(g, S)) = Cardinality(Particles(f, S)) + Cardinality(more) - Cardinality({})
    BY <1>1, <1>2, <1>3, <1>9, FS_Union
  <2>2. QED
    BY <1>1, <1>9, <2>1, FS_EmptySet DEF Total

\* One thread has n more particles.
LEMMA TotalOneMore ==
  ASSUME NEW S, IsFiniteSet(S), NEW m \in Nat, NEW f, NEW g, NEW i \in S, NEW n \in 0..m,
         \A t \in S : f[t] \in 0..m, \A t \in S : g[t] \in 0..m,
         g[i] = f[i] + n, \A t \in S : t = i \/ g[t] = f[t]
  PROVE  Total(g, S) = Total(f, S) + n
<1> DEFINE h == [t \in S |-> IF t = i THEN n ELSE 0]
<1>1. Total(g, S) = Total(f, S) + Total(h, S)
  <2>1. \A t \in S : h[t] \in 0..m /\ g[t] = f[t] + h[t]
    OBVIOUS
  <2> HIDE DEF h
  <2>2. QED
    BY <2>1, TotalPlus
<1>2. Particles(h, S) = {i} \X (1..n)
  BY DEF Particles
<1>3. IsFiniteSet({i}) /\ Cardinality({i}) = 1
  BY FS_Singleton
<1>4. IsFiniteSet(1..n) /\ Cardinality(1..n) = n
  BY FS_Interval
<1>5. Total(h, S) = 1 * n
  <2> HIDE DEF h
  <2>1. Cardinality({i} \X (1..n)) = Cardinality({i}) * Cardinality(1..n)
    BY <1>3, <1>4, FS_Product
  <2>2. QED
    BY <1>2, <1>3, <1>4, <2>1 DEF Total
<1>6. QED
  BY <1>1, <1>5

\* If no thread of S has fewer than n, there are at least n for each of them.
LEMMA TotalFull ==
  ASSUME NEW S, IsFiniteSet(S), NEW n \in Nat, NEW f, \A t \in S : f[t] = n
  PROVE  Total(f, S) = Cardinality(S) * n
<1>1. Particles(f, S) = S \X (1..n)
  BY DEF Particles
<1>2. IsFiniteSet(1..n) /\ Cardinality(1..n) = n
  BY FS_Interval
<1>3. Cardinality(S \X (1..n)) = Cardinality(S) * Cardinality(1..n)
  BY <1>2, FS_Product
<1>4. QED
  BY <1>1, <1>2, <1>3 DEF Total

\* One that has some counts.
LEMMA TotalSome ==
  ASSUME NEW S, IsFiniteSet(S), NEW m \in Nat, NEW f, \A t \in S : f[t] \in 0..m,
         NEW i \in S, f[i] > 0
  PROVE  Total(f, S) > 0
<1>1. <<i, 1>> \in Particles(f, S)
  BY DEF Particles
<1>2. IsFiniteSet(Particles(f, S)) /\ Total(f, S) \in Nat
  BY ParticlesFinite
<1>3. QED
  BY <1>1, <1>2, FS_EmptySet DEF Total

(***************************************************************************)
(* The order of RejMatch                                                   *)
(***************************************************************************)

LEMMA LeastNatural ==
  ASSUME NEW T, T \subseteq Nat, T # {}
  PROVE  \E x \in T : \A y \in T : x <= y
<1>1. PICK x \in T : \A y \in T : ~ (<<y, x>> \in OpToRel(<, Nat))
  BY NatLessThanWellFounded, WFMin
<1>2. \A y \in T : ~ (y < x)
  BY <1>1 DEF OpToRel
<1>3. QED
  BY <1>2

\* A thread comes first, and it is one with the largest value.
LEMMA FirstPlace ==
  ASSUME NEW S, S \subseteq Nat, S # {}, NEW m \in Nat, NEW f, \A t \in S : f[t] \in 0..m
  PROVE  \E t \in S : Place(S, f, t) = 0 /\ \A u \in S : f[u] <= f[t]
<1> DEFINE bounds == {n \in Nat : \A u \in S : f[u] <= n}
<1>1. PICK n \in bounds : \A k \in bounds : n <= k
  <2>1. m \in bounds
    OBVIOUS
  <2>2. QED
    BY <2>1, LeastNatural
<1>2. \E u \in S : f[u] = n
  <2>1. SUFFICES ASSUME \A u \in S : f[u] # n PROVE FALSE
    OBVIOUS
  <2>0. n \in Nat /\ \A u \in S : f[u] \in Int /\ f[u] >= 0 /\ f[u] <= n
    BY <1>1
  <2> HIDE DEF bounds
  <2>2. \A u \in S : f[u] <= n - 1
    BY <2>0, <2>1
  <2>u. PICK u \in S : TRUE
    OBVIOUS
  <2>p. n > 0
    BY <2>0, <2>1, <2>u
  <2>3. n - 1 \in bounds
    BY <2>0, <2>2, <2>p DEF bounds
  <2>4. QED
    BY <1>1, <2>0, <2>3
<1> DEFINE largest == {u \in S : f[u] = n}
<1>3. PICK t \in largest : \A u \in largest : t <= u
  <2>1. largest \subseteq Nat /\ largest # {}
    BY <1>2
  <2> HIDE DEF largest
  <2>2. QED
    BY <2>1, LeastNatural
<1>4. {u \in S : f[u] > f[t] \/ (f[u] = f[t] /\ u < t)} = {}
  <2>1. n \in Nat /\ t \in Nat /\ f[t] = n
    BY <1>1, <1>3
  <2>2. ASSUME NEW u \in S PROVE ~ (f[u] > f[t] \/ (f[u] = f[t] /\ u < t))
    <3>1. u \in Nat /\ f[u] \in Int /\ f[u] <= n
      BY <1>1
    <3>2. f[u] = n => t <= u
      BY <1>3
    <3>3. QED
      BY <2>1, <3>1, <3>2
  <2>3. QED
    BY <2>2
<1>5. QED
  BY <1>1, <1>3, <1>4, FS_EmptySet DEF Place

\* If nobody is matched either no thread has a reject or no thread of the other half has room.
LEMMA NobodyMatched ==
  ASSUME NEW from, NEW to, from \subseteq Nat, to \subseteq Nat, NEW m \in Nat,
         \A t \in from : rejects[t] \in 0..m, \A t \in to : space[t] \in 0..m,
         Matched(from, to) = {}
  PROVE  (\A t \in from : rejects[t] = 0) \/ (\A t \in to : space[t] = 0)
<1>1. SUFFICES ASSUME from # {}, to # {} PROVE (\A t \in from : rejects[t] = 0) \/ (\A t \in to : space[t] = 0)
  OBVIOUS
<1>2. PICK i \in from : Place(from, rejects, i) = 0 /\ \A u \in from : rejects[u] <= rejects[i]
  BY <1>1, FirstPlace
<1>3. PICK j \in to : Place(to, space, j) = 0 /\ \A u \in to : space[u] <= space[j]
  BY <1>1, FirstPlace
<1>4. ~ (rejects[i] > 0 /\ space[j] > 0)
  <2>1. <<i, j>> \in from \X to /\ <<i, j>>[1] = i /\ <<i, j>>[2] = j
    OBVIOUS
  <2>2. Place(from, rejects, i) = Place(to, space, j)
    BY <1>2, <1>3
  <2>3. <<i, j>> \notin Matched(from, to)
    OBVIOUS
  <2>4. QED
    BY <2>1, <2>2, <2>3 DEF Matched
<1>5. QED
  BY <1>2, <1>3, <1>4

(***************************************************************************)
(* NoneLeftBehind                                                          *)
(***************************************************************************)

\* What is or will be on the threads of a half has room there.
Reserved(half, other) == Total(nLocal, half) + Total(nRejects, other) <= Cardinality(half) * nStore

\* During an exchange each half keeps room for the rejects of the other, and a pairing is
\* made from answers that are true.
ExchangeInv ==
  /\ StoreInv /\ NoneLeftBehind
  /\ phase \in {"split", "match", "swap"}
  /\ phase # "split" => Reserved(Lower, Upper) /\ Reserved(Upper, Lower)
  /\ phase = "match" =>
       answer = [t \in Thread |-> [nRejects |-> nRejects[t], nSpace |-> pkdSwapSpace(t)]]

\* With the counts within a store.
LEMMA CountsBounded ==
  ASSUME StoreInv
  PROVE  /\ \A t \in Thread : nLocal[t] \in 0..nStore /\ nRejects[t] \in 0..nStore
         /\ nStore \in Nat
         /\ IsFiniteSet(Lower) /\ IsFiniteSet(Upper)
         /\ Lower \subseteq Thread /\ Upper \subseteq Thread /\ Lower \cap Upper = {}
         /\ Thread \subseteq Nat
         /\ Cardinality(Lower) \in Nat /\ Cardinality(Upper) \in Nat
<1>1. \A t \in Thread : nLocal[t] \in 0..nStore /\ nRejects[t] \in 0..nStore
  BY HalvesAssumption DEF StoreInv, Counts, StoreNeverOverlaps
<1>2. QED
  BY <1>1, HalvesAssumption, FS_CardinalityType DEF Thread

\* When no room is left in a half nothing is left for it in the other.
LEMMA FullHalf ==
  ASSUME StoreInv, NEW half \in SUBSET Thread, NEW other \in SUBSET Thread,
         IsFiniteSet(half), IsFiniteSet(other), Reserved(half, other),
         \A t \in half : pkdSwapSpace(t) = 0
  PROVE  \A t \in other : nRejects[t] = 0
<1>1. /\ \A t \in Thread : nLocal[t] \in 0..nStore /\ nRejects[t] \in 0..nStore
      /\ nStore \in Nat
  BY CountsBounded
<1>2. \A t \in half : nLocal[t] = nStore
  BY <1>1 DEF pkdSwapSpace
<1>3. Total(nLocal, half) = Cardinality(half) * nStore
  BY <1>1, <1>2, TotalFull
<1>4. Total(nLocal, half) \in Nat /\ Total(nRejects, other) \in Nat
  BY <1>1, ParticlesFinite
<1>5. Total(nRejects, other) = 0
  BY <1>3, <1>4 DEF Reserved
<1>6. ASSUME NEW t \in other, nRejects[t] > 0 PROVE FALSE
  <2>1. \A u \in other : nRejects[u] \in 0..nStore
    BY <1>1
  <2>2. Total(nRejects, other) > 0
    BY <1>1, <1>6, <2>1, TotalSome
  <2>3. QED
    BY <1>5, <2>2
<1>7. QED
  BY <1>1, <1>6

\* The end of the exchange: no pair is found.
LEMMA NothingLeft ==
  ASSUME ExchangeInv, phase = "match", NothingPaired(Pairing)
  PROVE  \A t \in Thread : nRejects[t] = 0
<1>1. /\ \A t \in Thread : nLocal[t] \in 0..nStore /\ nRejects[t] \in 0..nStore
      /\ nStore \in Nat
      /\ IsFiniteSet(Lower) /\ IsFiniteSet(Upper)
      /\ Lower \subseteq Thread /\ Upper \subseteq Thread /\ Thread \subseteq Nat
      /\ StoreInv /\ Reserved(Lower, Upper) /\ Reserved(Upper, Lower)
  BY CountsBounded DEF ExchangeInv
<1>2. Pairs = {}
  <2>1. SUFFICES ASSUME NEW e \in Pairs PROVE FALSE
    OBVIOUS
  <2>2. e = <<e[1], e[2]>> /\ e[1] \in Thread /\ e[2] \in Thread
    <3>1. e \in Thread \X Thread
      BY <1>1 DEF Pairs, Matched
    <3>2. QED
      BY <3>1
  <2>3. Partner(e[1]) # Unpaired
    <3> DEFINE with == {u \in Thread : <<e[1], u>> \in Pairs \/ <<u, e[1]>> \in Pairs}
    <3>1. e[2] \in with
      BY <2>1, <2>2
    <3>2. Partner(e[1]) = CHOOSE u \in with : TRUE
      BY <3>1 DEF Partner
    <3>3. Partner(e[1]) \in Thread
      BY <3>1, <3>2
    <3>4. QED
      BY <1>1, <3>3 DEF Unpaired
  <2>4. QED
    BY <2>2, <2>3 DEF NothingPaired, Pairing
<1>3. Matched(Lower, Upper) = {} /\ Matched(Upper, Lower) = {}
  <2>1. Matched(Lower, Upper) = {}
    BY <1>2 DEF Pairs
  <2>2. {t \in Thread : \A e \in Matched(Lower, Upper) : t # e[1] /\ t # e[2]} = Thread
    BY <2>1
  <2>3. Upper \cap Thread = Upper /\ Lower \cap Thread = Lower
    BY <1>1
  <2>4. QED
    BY <1>2, <2>1, <2>2, <2>3 DEF Pairs
<1>4. \A t \in Thread : rejects[t] = nRejects[t] /\ space[t] = pkdSwapSpace(t)
  BY DEF ExchangeInv, rejects, space
<1>5. \A t \in Thread : rejects[t] \in 0..nStore /\ space[t] \in 0..nStore
  BY <1>1, <1>4 DEF pkdSwapSpace
<1>6. \A t \in Lower : nRejects[t] = 0
  <2>1. (\A t \in Lower : rejects[t] = 0) \/ (\A t \in Upper : space[t] = 0)
    BY <1>1, <1>3, <1>5, NobodyMatched
  <2>2. QED
    BY <1>1, <1>4, <2>1, FullHalf
<1>7. \A t \in Upper : nRejects[t] = 0
  <2>1. (\A t \in Upper : rejects[t] = 0) \/ (\A t \in Lower : space[t] = 0)
    BY <1>1, <1>3, <1>5, NobodyMatched
  <2>2. QED
    BY <1>1, <1>4, <2>1, FullHalf
<1>8. QED
  BY <1>6, <1>7 DEF Thread

LEMMA ExchangeBegins ==
  ASSUME ExchangeInv, ColRejects
  PROVE  ExchangeInv'
<1>1. /\ \A t \in Thread : nLocal[t] \in 0..nStore /\ nRejects[t] \in 0..nStore
      /\ nStore \in Nat
      /\ IsFiniteSet(Lower) /\ IsFiniteSet(Upper)
      /\ Lower \subseteq Thread /\ Upper \subseteq Thread /\ StoreInv
      /\ Cardinality(Lower) \in Nat /\ Cardinality(Upper) \in Nat
  BY CountsBounded DEF ExchangeInv
<1>2. PICK nSplit \in [Thread -> 0..nStore] :
        /\ \A t \in Thread : nSplit[t] <= nLocal[t]
        /\ Fits(nSplit)
        /\ nRejects' = [t \in Thread |-> nLocal[t] - nSplit[t]]
        /\ nLocal' = nSplit
        /\ answer' = [t \in Thread |-> [nRejects |-> nLocal[t] - nSplit[t], nSpace |-> nStore - nSplit[t]]]
  BY DEF ColRejects
<1>3. StoreInv' /\ phase' = "match"
  BY <1>1, StoreStep DEF ColRejects, RejectsNext
<1>4. \A t \in Thread : /\ nLocal[t] = nLocal'[t] + nRejects'[t]
                        /\ nLocal'[t] \in 0..nStore /\ nRejects'[t] \in 0..nStore
  BY <1>1, <1>2
<1>5. ASSUME NEW half \in SUBSET Thread, IsFiniteSet(half)
      PROVE  /\ Total(nLocal, half) - Total(nLocal', half) = Total(nRejects', half)
             /\ Total(nLocal, half) \in Nat /\ Total(nLocal', half) \in Nat /\ Total(nRejects', half) \in Nat
  <2>1. \A t \in half : /\ nLocal[t] \in 0..nStore /\ nLocal'[t] \in 0..nStore /\ nRejects'[t] \in 0..nStore
                        /\ nLocal[t] = nLocal'[t] + nRejects'[t]
    BY <1>1, <1>4
  <2>2. Total(nLocal, half) = Total(nLocal', half) + Total(nRejects', half)
    BY <1>1, <1>5, <2>1, TotalPlus
  <2>3. Total(nLocal, half) \in Nat /\ Total(nLocal', half) \in Nat /\ Total(nRejects', half) \in Nat
    BY <1>1, <1>5, <2>1, ParticlesFinite
  <2>4. QED
    BY <2>2, <2>3
<1>6. Reserved(Lower, Upper)' /\ Reserved(Upper, Lower)'
  <2>1. /\ Total(nLocal', Lower) + (Total(nLocal, Upper) - Total(nLocal', Upper)) <= nStore * Cardinality(Lower)
        /\ Total(nLocal', Upper) + (Total(nLocal, Lower) - Total(nLocal', Lower)) <= nStore * Cardinality(Upper)
    BY <1>2 DEF Fits
  <2>2. nStore * Cardinality(Lower) = Cardinality(Lower) * nStore
    BY <1>1
  <2>3. nStore * Cardinality(Upper) = Cardinality(Upper) * nStore
    BY <1>1
  <2>4. /\ Total(nLocal', Lower) + Total(nRejects', Upper) <= Cardinality(Lower) * nStore
        /\ Total(nLocal', Upper) + Total(nRejects', Lower) <= Cardinality(Upper) * nStore
    BY <1>1, <1>5, <2>1, <2>2, <2>3
  <2>5. QED
    BY <2>4 DEF Reserved
<1>7. answer' = [t \in Thread |-> [nRejects |-> nRejects'[t], nSpace |-> nStore - nLocal'[t]]]
  BY <1>2
<1>8. QED
  BY <1>3, <1>6, <1>7 DEF ExchangeInv, NoneLeftBehind, pkdSwapSpace

\* A swap takes as many rejects from one thread as it adds particles to the other.
LEMMA SwapReserved ==
  ASSUME ExchangeInv, NEW i \in Lower, NEW j \in Upper, SwapRejects(i, j)
  PROVE  ExchangeInv'
<1> DEFINE there == Moves(i, j)
           back == Moves(j, i)
<1>1. /\ \A t \in Thread : nLocal[t] \in 0..nStore /\ nRejects[t] \in 0..nStore
      /\ nStore \in Nat
      /\ IsFiniteSet(Lower) /\ IsFiniteSet(Upper)
      /\ Lower \subseteq Thread /\ Upper \subseteq Thread /\ Lower \cap Upper = {}
      /\ StoreInv /\ i \in Thread /\ j \in Thread
      /\ Cardinality(Lower) \in Nat /\ Cardinality(Upper) \in Nat
  BY CountsBounded DEF ExchangeInv
<1>2. StoreInv' /\ phase = "swap" /\ phase' = "swap"
  BY <1>1, SwapStep DEF SwapRejects
<1>3. \A t \in Thread : nLocal'[t] \in 0..nStore /\ nRejects'[t] \in 0..nStore
  BY <1>1, <1>2 DEF StoreInv, Counts, StoreNeverOverlaps
<1>4. there \in 0..nStore /\ back \in 0..nStore
  <2>1. there \in Nat /\ there <= nRejects[i] /\ back \in Nat /\ back <= nRejects[j]
    BY <1>1, MovesFit
  <2>2. QED
    BY <1>1, <2>1
<1>5. /\ nLocal' = [nLocal EXCEPT ![i] = @ + back, ![j] = @ + there]
      /\ nRejects' = [nRejects EXCEPT ![i] = @ - there, ![j] = @ - back]
      /\ nLocal \in [Thread -> Nat] /\ nRejects \in [Thread -> Nat]
  BY <1>1 DEF SwapRejects, StoreInv, Counts
<1> HIDE DEF there, back
<1>6. /\ nLocal'[i] = nLocal[i] + back /\ nLocal'[j] = nLocal[j] + there
      /\ nRejects[i] = nRejects'[i] + there /\ nRejects[j] = nRejects'[j] + back
      /\ \A t \in Thread \ {i, j} : nLocal'[t] = nLocal[t] /\ nRejects'[t] = nRejects[t]
  BY <1>1, <1>4, <1>5
<1>7. Total(nLocal', Lower) = Total(nLocal, Lower) + back
  <2>1. \A t \in Lower : t = i \/ nLocal'[t] = nLocal[t]
    BY <1>1, <1>6
  <2>2. (\A t \in Lower : nLocal[t] \in 0..nStore) /\ (\A t \in Lower : nLocal'[t] \in 0..nStore)
    BY <1>1, <1>3
  <2>3. nStore \in Nat /\ IsFiniteSet(Lower) /\ back \in 0..nStore /\ nLocal'[i] = nLocal[i] + back
    BY <1>1, <1>4, <1>6
  <2>4. QED
    BY <2>1, <2>2, <2>3, TotalOneMore
<1>8. Total(nLocal', Upper) = Total(nLocal, Upper) + there
  <2>1. \A t \in Upper : t = j \/ nLocal'[t] = nLocal[t]
    BY <1>1, <1>6
  <2>2. (\A t \in Upper : nLocal[t] \in 0..nStore) /\ (\A t \in Upper : nLocal'[t] \in 0..nStore)
    BY <1>1, <1>3
  <2>3. nStore \in Nat /\ IsFiniteSet(Upper) /\ there \in 0..nStore /\ nLocal'[j] = nLocal[j] + there
    BY <1>1, <1>4, <1>6
  <2>4. QED
    BY <2>1, <2>2, <2>3, TotalOneMore
<1>9. Total(nRejects, Lower) = Total(nRejects', Lower) + there
  <2>1. \A t \in Lower : t = i \/ nRejects[t] = nRejects'[t]
    BY <1>1, <1>6
  <2>2. (\A t \in Lower : nRejects'[t] \in 0..nStore) /\ (\A t \in Lower : nRejects[t] \in 0..nStore)
    BY <1>1, <1>3
  <2>3. nStore \in Nat /\ IsFiniteSet(Lower) /\ there \in 0..nStore /\ nRejects[i] = nRejects'[i] + there
    BY <1>1, <1>4, <1>6
  <2>4. QED
    BY <2>1, <2>2, <2>3, TotalOneMore
<1>10. Total(nRejects, Upper) = Total(nRejects', Upper) + back
  <2>1. \A t \in Upper : t = j \/ nRejects[t] = nRejects'[t]
    BY <1>1, <1>6
  <2>2. (\A t \in Upper : nRejects'[t] \in 0..nStore) /\ (\A t \in Upper : nRejects[t] \in 0..nStore)
    BY <1>1, <1>3
  <2>3. nStore \in Nat /\ IsFiniteSet(Upper) /\ back \in 0..nStore /\ nRejects[j] = nRejects'[j] + back
    BY <1>1, <1>4, <1>6
  <2>4. QED
    BY <2>1, <2>2, <2>3, TotalOneMore
<1>11. /\ Total(nLocal', Lower) + Total(nRejects', Upper) = Total(nLocal, Lower) + Total(nRejects, Upper)
       /\ Total(nLocal', Upper) + Total(nRejects', Lower) = Total(nLocal, Upper) + Total(nRejects, Lower)
  <2>1. /\ Total(nLocal, Lower) \in Nat /\ Total(nLocal, Upper) \in Nat
        /\ Total(nRejects', Lower) \in Nat /\ Total(nRejects', Upper) \in Nat
    <3>1. /\ \A t \in Lower : nLocal[t] \in 0..nStore /\ nRejects'[t] \in 0..nStore
          /\ \A t \in Upper : nLocal[t] \in 0..nStore /\ nRejects'[t] \in 0..nStore
      BY <1>1, <1>3
    <3>2. QED
      BY <1>1, <3>1, ParticlesFinite
  <2>2. QED
    BY <1>4, <1>7, <1>8, <1>9, <1>10, <2>1
<1>12. Reserved(Lower, Upper)' /\ Reserved(Upper, Lower)'
  BY <1>2, <1>11 DEF ExchangeInv, Reserved
<1>13. QED
  BY <1>2, <1>12 DEF ExchangeInv, NoneLeftBehind

LEMMA ExchangeStep == ExchangeInv /\ [RejectsNext]_rejectVars => ExchangeInv'
<1> SUFFICES ASSUME ExchangeInv, [RejectsNext]_rejectVars PROVE ExchangeInv'
  OBVIOUS
<1>1. StoreInv'
  BY StoreStep DEF ExchangeInv
<1>2. CASE ColRejects
  BY <1>2, ExchangeBegins
<1>3. CASE RejMatch
  <2>1. UNCHANGED <<nLocal, nRejects>> /\ phase = "match"
    BY <1>3 DEF RejMatch
  <2>2. Reserved(Lower, Upper)' /\ Reserved(Upper, Lower)'
    BY <2>1 DEF ExchangeInv, Reserved
  <2>3. phase' = "split" => NothingPaired(Pairing)
    BY <1>3 DEF RejMatch
  <2>4. NoneLeftBehind'
    BY <2>1, <2>3, NothingLeft DEF NoneLeftBehind
  <2>5. phase' \in {"split", "swap"}
    BY <1>3 DEF RejMatch
  <2>6. QED
    BY <1>1, <2>2, <2>4, <2>5 DEF ExchangeInv
<1>4. ASSUME NEW i \in Lower, NEW j \in Upper, SwapRejects(i, j) PROVE ExchangeInv'
  BY <1>4, SwapReserved
<1>5. CASE Collect
  BY <1>1, <1>5 DEF Collect, ExchangeInv, NoneLeftBehind, Reserved, pkdSwapSpace
<1>6. CASE UNCHANGED rejectVars
  BY <1>1, <1>6 DEF rejectVars, ExchangeInv, NoneLeftBehind, Reserved, pkdSwapSpace
<1>7. QED
  BY <1>2, <1>3, <1>4, <1>5, <1>6 DEF RejectsNext, Exchange

\* When RejMatch finds no pair no reject is left, for halves and stores of any size: the
\* assertion of pkdColRejects at the next split.
THEOREM RejectsDelivered == RejectsSpec => []NoneLeftBehind
<1>1. RejectsInit => ExchangeInv
  BY HalvesAssumption DEF RejectsInit, ExchangeInv, StoreInv, Counts, StoreNeverOverlaps, NoneLeftBehind
<1>2. ExchangeInv /\ [RejectsNext]_rejectVars => ExchangeInv'
  BY ExchangeStep
<1>3. ExchangeInv => NoneLeftBehind
  BY DEF ExchangeInv
<1> QED
  BY <1>1, <1>2, <1>3, PTL DEF RejectsSpec
=============================================================================
