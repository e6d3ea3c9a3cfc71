------------------------ MODULE MCClientConnections ------------------------
(* ClientConnections for TLC: two connections, two threads, batches of two  *)
(* events, and a single failing call.                                       *)
EXTENDS ClientConnections, TLC

CONSTANTS c1, c2, t1, t2

MCConns   == {c1, c2}
MCThreads == {t1, t2}
Sym == Permutations(MCConns) \cup Permutations(MCThreads)
=============================================================================
