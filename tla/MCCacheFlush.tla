---------------------------- MODULE MCCacheFlush ----------------------------
(* CacheFlush on two processes, with a few updates between chosen threads. *)
EXTENDS CacheFlush

Made(from, to, n) == [from |-> from, to |-> to, n |-> n]

\* Both cores of a process send to a core of the other, one of them to its own
\* process too, and a core of the other process to the same core.
MCCrossing == {Made(<<1, 1>>, <<2, 1>>, 1), Made(<<1, 1>>, <<1, 0>>, 2), Made(<<2, 0>>, <<2, 1>>, 3),
               Made(<<1, 0>>, <<2, 0>>, 4)}

=============================================================================
