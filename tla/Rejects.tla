------------------------------ MODULE Rejects -------------------------------
(***************************************************************************)
(* The exchange that ends every split of a domain (ServiceDomainDecomp::    *)
(* RootSplit and ServiceDomainOrder::OrdSplit in domains/olddd.cxx).  Each  *)
(* thread moves the particles that belong to the other half, its rejects,   *)
(* to the top of its store.  The thread that splits then repeats: pair      *)
(* threads of the lower half with threads of the upper half (RejMatch) and  *)
(* let each pair swap (PST_SWAPREJECTS, mdlSwap), until no pair is left.    *)
(*                                                                         *)
(* Particles are counted, and a swap is one step: module Swap shows that    *)
(* mdlSwap is.  Domains are split again and again, so a finished exchange   *)
(* is followed by the next with whatever the threads then hold.             *)
(***************************************************************************)
EXTENDS Integers, FiniteSets

CONSTANTS Lower, Upper,   \* thread ids of the two halves
          nStore          \* size of every thread's particle store, in particles

ASSUME HalvesAssumption ==
  /\ Lower \subseteq Nat /\ IsFiniteSet(Lower) /\ Upper \subseteq Nat /\ IsFiniteSet(Upper)
  /\ \A i \in Lower, j \in Upper : i < j
  /\ nStore \in Nat

VARIABLES nLocal,     \* particles at the bottom of each store
          nRejects,   \* particles at the top, to be sent to the other half
          answer,     \* the rejects and the space each thread has reported
          pidSwap,    \* partner of each thread in this round, or Unpaired
          phase       \* "split", "match" or "swap"

rejectVars == <<nLocal, nRejects, answer, pidSwap, phase>>

Thread == Lower \cup Upper
Unpaired == -1
SwapAmount == INSTANCE SwapAtomic WITH MaxBuf <- nStore, size <- nLocal, leaving <- nLocal,
                                       moved <- nLocal, finished <- FALSE

pkdSwapSpace(t) == nStore - nLocal[t]

\* The particles that f counts on the threads of S, one by one, and how many they are.
Particles(f, S) == UNION {{t} \X (1..f[t]) : t \in S}
Total(f, S) == Cardinality(Particles(f, S))

RejectsInit ==
  /\ nLocal \in [Thread -> 0..nStore]
  /\ nRejects = [t \in Thread |-> 0]
  /\ answer = [t \in Thread |-> [nRejects |-> 0, nSpace |-> 0]]
  /\ pidSwap = [t \in Thread |-> Unpaired]
  /\ phase = "split"

------------------------------------------------------------------------------
(* The split has been chosen so that each half can hold its particles (the    *)
(* assertions before PST_COLREJECTS); every thread separates its rejects.     *)

Fits(nSplit) ==
  LET own(half) == Total(nSplit, half)
      foreign(half) == Total(nLocal, half) - own(half)
  IN  /\ own(Lower) + foreign(Upper) <= nStore * Cardinality(Lower)
      /\ own(Upper) + foreign(Lower) <= nStore * Cardinality(Upper)

ColRejects ==
  /\ phase = "split"
  /\ \E nSplit \in [Thread -> 0..nStore] :
       /\ \A t \in Thread : nSplit[t] <= nLocal[t]
       /\ Fits(nSplit)
       /\ nRejects' = [t \in Thread |-> nLocal[t] - nSplit[t]]
       /\ nLocal' = nSplit
       /\ answer' = [t \in Thread |-> [nRejects |-> nLocal[t] - nSplit[t], nSpace |-> nStore - nSplit[t]]]
  /\ phase' = "match"
  /\ UNCHANGED pidSwap

------------------------------------------------------------------------------
(* RejMatch *)

rejects == [t \in Thread |-> answer[t].nRejects]
space == [t \in Thread |-> answer[t].nSpace]

\* The loops take the largest value left, and the first thread that has it: a
\* thread is taken in the round that its place in this order gives.
Place(S, v, t) == Cardinality({u \in S : v[u] > v[t] \/ (v[u] = v[t] /\ u < t)})

\* The largest rejects of one half with the largest space of the other, the next
\* with the next, until either is used up.
Matched(from, to) ==
  {e \in from \X to :
     /\ rejects[e[1]] > 0 /\ space[e[2]] > 0
     /\ Place(from, rejects, e[1]) = Place(to, space, e[2])}

Pairs_OneWay == Matched(Lower, Upper)

\* First the lower half's rejects, then the upper's; a thread that is in a pair is
\* taken out on both counts.
Pairs ==
  LET first == Matched(Lower, Upper)
      free == {t \in Thread : \A e \in first : t # e[1] /\ t # e[2]}
  IN  first \cup Matched(Upper \cap free, Lower \cap free)

Partner(t) ==
  LET with == {u \in Thread : <<t, u>> \in Pairs \/ <<u, t>> \in Pairs}
  IN  IF with = {} THEN Unpaired ELSE CHOOSE u \in with : TRUE

Pairing == [t \in Thread |-> Partner(t)]

NothingPaired(pair) == \A t \in Thread : pair[t] = Unpaired

RejMatch ==
  /\ phase = "match"
  /\ pidSwap' = Pairing
  /\ phase' = IF NothingPaired(pidSwap') THEN "split" ELSE "swap"
  /\ answer' = [t \in Thread |-> [nRejects |-> 0, nSpace |-> 0]]
  /\ UNCHANGED <<nLocal, nRejects>>

------------------------------------------------------------------------------
(* pkdSwapRejects on both threads of a pair, and their answers *)

\* What i's rejects find room for in j's store.
Moves_AllRejects(i, j) == nRejects[i]

Moves_NoneAtOnce(i, j) == IF nRejects[i] > pkdSwapSpace(j) THEN 0 ELSE nRejects[i]

Moves(i, j) == SwapAmount!Transfer(nRejects[i], pkdSwapSpace(j))

SwapRejects(i, j) ==
  /\ phase = "swap"
  /\ pidSwap[i] = j /\ pidSwap[j] = i
  /\ nLocal' = [nLocal EXCEPT ![i] = @ + Moves(j, i), ![j] = @ + Moves(i, j)]
  /\ nRejects' = [nRejects EXCEPT ![i] = @ - Moves(i, j), ![j] = @ - Moves(j, i)]
  /\ pidSwap' = [pidSwap EXCEPT ![i] = Unpaired, ![j] = Unpaired]
  /\ UNCHANGED <<answer, phase>>

\* Every thread, paired or not, has answered.
Collect ==
  /\ phase = "swap"
  /\ NothingPaired(pidSwap)
  /\ answer' = [t \in Thread |-> [nRejects |-> nRejects[t], nSpace |-> pkdSwapSpace(t)]]
  /\ phase' = "match"
  /\ UNCHANGED <<nLocal, nRejects, pidSwap>>

Exchange == RejMatch \/ (\E i \in Lower, j \in Upper : SwapRejects(i, j)) \/ Collect

RejectsNext == ColRejects \/ Exchange

\* Nothing but the exchange itself has to be fair.
RejectsSpec == RejectsInit /\ [][RejectsNext]_rejectVars /\ WF_rejectVars(Exchange)
------------------------------------------------------------------------------
(* Properties *)

\* Local particles and rejects never meet in a store (the assertion in
\* pkdSwapRejects), in whatever order the pairs swap.
StoreNeverOverlaps == \A t \in Thread : nLocal[t] + nRejects[t] <= nStore

\* When no pair is left no reject is left: RootSplit goes on, and pkdColRejects
\* asserts it at the next split.
NoneLeftBehind == phase = "split" => \A t \in Thread : nRejects[t] = 0

\* Every exchange comes to an end.
Ends == phase # "split" ~> phase = "split"
=============================================================================
