---------------------------- MODULE AbstractPool ----------------------------
(***************************************************************************)
(* What a bounded connection pool promises its callers: a connection is    *)
(* held by at most one thread, a thread holds at most one connection, and  *)
(* no more than Size connections are held at a time.                       *)
(***************************************************************************)
EXTENDS Naturals, FiniteSets

CONSTANTS Threads, Connections, Size, NoConnection

VARIABLE holding   \* [Threads -> Connections \cup {NoConnection}]

Holders == {t \in Threads : holding[t] # NoConnection}

Init == holding = [t \in Threads |-> NoConnection]

\* A thread is given a connection nobody holds, while fewer than Size are held.
Take(t) ==
    /\ holding[t] = NoConnection
    /\ Cardinality(Holders) < Size
    /\ \E c \in Connections :
         /\ \A u \in Threads : holding[u] # c
         /\ holding' = [holding EXCEPT ![t] = c]

GiveBack(t) ==
    /\ holding[t] # NoConnection
    /\ holding' = [holding EXCEPT ![t] = NoConnection]

Next == \E t \in Threads : Take(t) \/ GiveBack(t)

Spec == Init /\ [][Next]_holding

=============================================================================
