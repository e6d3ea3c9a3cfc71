-------------------------- MODULE MCConnectionPool --------------------------
(* ConnectionPool for TLC: more threads than permits, so that borrowers     *)
(* wait for each other, and one connection more than permits.               *)
EXTENDS ConnectionPool
CONSTANTS t1, t2, t3, t4, a, b, c
MCThreads     == {t1, t2, t3, t4}
MCConnections == {a, b, c}
=============================================================================
