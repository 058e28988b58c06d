---------------------------- MODULE MCCacheRequest ----------------------------
(* CacheRequest on two processes, with a few lines wanted by chosen threads. *)
EXTENDS CacheRequest

Wants(by, owner, line) == [by |-> by, owner |-> owner, line |-> line]

\* Both cores of a process fetch from different cores of the other, and a core of that
\* fetches from one of the first.
MCCrossing == {Wants(<<1, 0>>, <<2, 1>>, 5), Wants(<<1, 1>>, <<2, 0>>, 6), Wants(<<2, 0>>, <<1, 1>>, 7)}
=============================================================================
